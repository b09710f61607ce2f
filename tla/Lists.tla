--------------------------------- MODULE Lists ---------------------------------
(***************************************************************************)
(* Lists of components, as a configuration names them, and the loops over  *)
(* them.                                                                   *)
(***************************************************************************)
EXTENDS Naturals, Sequences

IsList(s) == s \in Seq({s[i] : i \in DOMAIN s})

(* What a loop over s gets to that passes over (`continue`) what is in     *)
(* skipped.                                                                *)
Skipping(s, skipped) ==
  LET upTo[i \in 0 .. Len(s)] ==
        IF i = 0 THEN <<>>
        ELSE IF s[i] \in skipped THEN upTo[i - 1] ELSE Append(upTo[i - 1], s[i])
  IN  upTo[Len(s)]
================================================================================
