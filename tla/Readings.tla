-------------------------------- MODULE Readings -------------------------------
(***************************************************************************)
(* Recursive descent over tokens, as the Lucene and the LogQL parser do    *)
(* it. A token has a kind, and the last one is the end of the input. What  *)
(* can be read from the front of a sequence of tokens is a set of at most  *)
(* one reading: what was read, and the tokens that are left.               *)
(***************************************************************************)
EXTENDS Naturals, Sequences

Read(what, left) == {[what |-> what, left |-> left]}

(* What next() leaves, n times. *)
After(n, ts) == SubSeq(ts, n + 1, Len(ts))

(* What is left of the tokens after one of a kind that has to come. *)
Expect(kind, ts) == IF ts[1].kind = kind THEN {After(1, ts)} ELSE {}

Prefixed(element, lists) == {[l EXCEPT !.what = <<element>> \o @] : l \in lists}

(* The readings that are followed by a token of a kind, and what is left   *)
(* after it.                                                               *)
Closed(kind, readings) ==
  UNION {{[r EXCEPT !.left = rest] : rest \in Expect(kind, r.left)} : r \in readings}

(* The whole input. *)
Complete(readings) == {r.what : r \in Closed("eof", readings)}
================================================================================
