--------------------------------- MODULE Lucene --------------------------------
(***************************************************************************)
(* The Lucene parser of the search door (lucene.go): lexemes to tokens,    *)
(* and a recursive descent over them to a predicate.  The subset it takes  *)
(* is field:value, bare terms, quoted phrases, AND, OR, NOT with their     *)
(* symbols, juxtaposition as AND, parentheses, and a lone * for all.       *)
(*                                                                         *)
(* A text is a sequence of lexemes: a quoted phrase, one of the characters *)
(* that punctToken knows, or a bare word between boundaries.               *)
(***************************************************************************)
EXTENDS Predicate, Readings

Word(text) == [quoted |-> FALSE, text |-> text]
Phrase(text) == [quoted |-> TRUE, text |-> text]

defaultField == "message"
matchAll == Word("*")

--------------------------------------------------------------------------------
(* Tokens.  keywordToken folds the case of a bare word.                    *)

KindOf(lexeme) ==
  IF lexeme.quoted THEN "term"
  ELSE CASE lexeme.text = ":" -> "colon"
         [] lexeme.text = "(" -> "lparen"
         [] lexeme.text = ")" -> "rparen"
         [] lexeme.text \in {"AND", "and", "&&"} -> "and"
         [] lexeme.text \in {"OR", "or", "||"} -> "or"
         [] lexeme.text \in {"NOT", "not", "-", "!"} -> "not"
         [] OTHER -> "term"

EndOfInput == [kind |-> "eof", value |-> ""]

(* tokenizeLucene: a + is passed over. *)
Lexemes(text) == SelectSeq(text, LAMBDA l : l.quoted \/ l.text # "+")
Token(lexeme) == [kind |-> KindOf(lexeme), value |-> lexeme.text]
Tokens(text) ==
  Append([i \in DOMAIN Lexemes(text) |-> Token(Lexemes(text)[i])], EndOfInput)

--------------------------------------------------------------------------------
(* The parser.  Each function reads the tokens ts from the front and gives *)
(* its readings, at most one.                                              *)

(* leafEqual *)
Equal(name, value) == Leaf(name, "=", {value})

ParseClause(ts) ==
  IF ts[1].kind # "term" THEN {}
  ELSE IF ts[2].kind # "colon" THEN Read(Equal(defaultField, ts[1].value), After(1, ts))
  ELSE IF ts[3].kind # "term" THEN {}
  ELSE Read(Equal(ts[1].value, ts[3].value), After(3, ts))

(* One operand stands for itself. *)
Combined(op, lists) ==
  {[l EXCEPT !.what = IF Len(@) = 1 THEN @[1] ELSE Bool(op, @)] : l \in lists}

RECURSIVE ParseOr(_), ParseAnd(_), ParseNot(_), OrList(_), AndList(_)

ParsePrimary(ts) ==
  IF ts[1].kind # "lparen" THEN ParseClause(ts)
  ELSE Closed("rparen", ParseOr(After(1, ts)))

ParseNot(ts) ==
  IF ts[1].kind # "not" THEN ParsePrimary(ts)
  ELSE {[r EXCEPT !.what = Bool("NOT", <<@>>)] : r \in ParseNot(After(1, ts))}

(* An AND after an operand is passed over, also when no operand follows.   *)
PastAnd(ts) == IF ts[1].kind = "and" THEN After(1, ts) ELSE ts
AndList(ts) ==
  UNION {IF PastAnd(r.left)[1].kind \in {"or", "rparen", "eof"}
         THEN Read(<<r.what>>, PastAnd(r.left))
         ELSE Prefixed(r.what, AndList(PastAnd(r.left))) : r \in ParseNot(ts)}

ParseAnd(ts) == Combined("AND", AndList(ts))

OrList(ts) ==
  UNION {IF r.left[1].kind # "or" THEN Read(<<r.what>>, r.left)
         ELSE Prefixed(r.what, OrList(After(1, r.left))) : r \in ParseAnd(ts)}

ParseOr(ts) == Combined("OR", OrList(ts))

(* parseLucene: the predicates a text can be read as, one or none; Nil     *)
(* selects everything.                                                     *)
ParseLucene(text) ==
  IF Lexemes(text) = <<matchAll>> THEN {Nil}
  ELSE Complete(ParseOr(Tokens(text)))

(* What the parser takes and Lucene does not: an AND that no operand       *)
(* follows.                                                                *)
DanglingAnd(text) ==
  LET ts == Tokens(text)
  IN  \E i \in 1 .. Len(ts) - 1 :
        ts[i].kind = "and" /\ ts[i + 1].kind \in {"or", "rparen", "eof"}
================================================================================
