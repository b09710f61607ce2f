--------------------------------- MODULE LogQL ---------------------------------
(***************************************************************************)
(* The LogQL parser of the Loki door (logqlparse.go): lexemes to tokens,   *)
(* and a recursive descent over them to a plan over logs.  The subset it   *)
(* takes is a stream selector with line filters, a range aggregation of    *)
(* one, and vector aggregations of that.                                   *)
(*                                                                         *)
(* A text is a sequence of lexemes: a quoted text with the texts it        *)
(* accepts (as a pattern where =~ or !~ comes before it), a number, a span *)
(* of time such as 5m in half milliseconds, a name, or one of the brackets *)
(* and operators.                                                          *)
(***************************************************************************)
EXTENDS Plans, Readings

Lexeme(class, text, pattern, number) ==
  [class |-> class, text |-> text, pattern |-> pattern, number |-> number]
Symbol(text) == Lexeme("symbol", text, {}, 0)
Quoted(pattern) == Lexeme("quoted", "", pattern, 0)
Numeral(number) == Lexeme("numeral", "", {}, number)
Span(window) == Lexeme("span", "", {}, window)

(* scanString, bracketKind, scanOperator and scanNumberOrDuration: a span  *)
(* is a number too, and a lone ! or | an identifier.                       *)
LogQLKind(l) ==
  CASE l.class = "quoted" -> "string"
    [] l.class \in {"numeral", "span"} -> "number"
    [] l.class = "symbol" ->
         CASE l.text \in {"{", "}", "(", ")", "[", "]", ","} -> l.text
           [] l.text \in {"=", "!=", "=~", "!~"} -> "matchOp"
           [] l.text \in {"|=", "|~"} -> "lineOp"
           [] OTHER -> "ident"

LogQLToken(lexeme) == [kind |-> LogQLKind(lexeme), lexeme |-> lexeme]
TokenizeLogQL(text) ==
  Append([i \in DOMAIN text |-> LogQLToken(text[i])], [kind |-> "eof", lexeme |-> Symbol("")])

(* rangeAggOp and vectorAggOp; rate and sum stand for their kind.          *)
rangeAggOp == {"rate"}
vectorAggOp == {"sum", "topk"}
aggTakesParam == {"topk"}

Names(token, words) == token.kind = "ident" /\ token.lexeme.text \in words

--------------------------------------------------------------------------------
(* Stream selectors.                                                       *)

(* A comma may also come after the last matcher.                           *)
RECURSIVE ParseMatchers(_)
ParseMatchers(ts) ==
  IF ts[1].kind # "ident" THEN Read(<<>>, ts)
  ELSE IF ts[2].kind # "matchOp" \/ ts[3].kind # "string" THEN {}
  ELSE LET leaf == Leaf(ts[1].lexeme.text, ts[2].lexeme.text, ts[3].lexeme.pattern)
       IN  IF ts[4].kind = "," THEN Prefixed(leaf, ParseMatchers(After(4, ts)))
           ELSE Read(<<leaf>>, After(3, ts))

lineOp == ("|=" :> "=") @@ ("|~" :> "=~") @@ ("!=" :> "!=") @@ ("!~" :> "!~")
IsLineNegation(token) == token.kind = "matchOp" /\ token.lexeme.text \in {"!=", "!~"}

RECURSIVE ParseLineFilters(_)
ParseLineFilters(ts) ==
  IF ts[1].kind # "lineOp" /\ ~ IsLineNegation(ts[1]) THEN Read(<<>>, ts)
  ELSE IF ts[2].kind # "string" THEN {}
  ELSE LET line == [op |-> lineOp[ts[1].lexeme.text], value |-> ts[2].lexeme.pattern]
       IN  Prefixed(line, ParseLineFilters(After(2, ts)))

ParseLogSelector(ts) ==
  LET braced == Closed("}", UNION {ParseMatchers(rest) : rest \in Expect("{", ts)})
      Selected(m) == {[l EXCEPT !.what = Select("logs", Filter(m.what), @)] :
                        l \in ParseLineFilters(m.left)}
  IN  UNION {Selected(m) : m \in {m \in braced : m.what # <<>>}}

--------------------------------------------------------------------------------
(* Aggregations.                                                           *)

(* parseLogQLDuration: a number needs a unit, unless it is 0.              *)
Window(token) ==
  IF token.lexeme.class = "span" \/ token.lexeme = Numeral(0) THEN {token.lexeme.number} ELSE {}

ParseRangeAgg(ts) ==
  LET selected == UNION {ParseLogSelector(rest) : rest \in Expect("(", After(1, ts))}
      Over(s) == {[what |-> TimeAgg(ts[1].lexeme.text, window, s.what), left |-> After(1, s.left)] :
                    window \in Window(s.left[1])}
  IN  Closed(")", Closed("]", UNION {Over(s) : s \in Closed("[", selected)}))

(* An empty list is no list; the commas between labels may be left out.    *)
NoGrouping == [by |-> {}, without |-> {}]

RECURSIVE LabelList(_)
LabelList(ts) ==
  IF ts[1].kind # "ident" THEN Read({}, ts)
  ELSE LET rest == After(IF ts[2].kind = "," THEN 2 ELSE 1, ts)
       IN  {[r EXCEPT !.what = {ts[1].lexeme.text} \cup @] : r \in LabelList(rest)}

ParseGroupingOpt(ts) ==
  IF ~ Names(ts[1], {"by", "without"}) THEN Read(NoGrouping, ts)
  ELSE {[r EXCEPT !.what = [NoGrouping EXCEPT ![ts[1].lexeme.text] = r.what]] :
          r \in Closed(")", UNION {LabelList(rest) : rest \in Expect("(", After(1, ts))})}

(* A parameter that is left out is 0. *)
ParseAggParam(op, ts) ==
  IF op \notin aggTakesParam \/ ts[1].kind # "number" THEN Read(0, ts)
  ELSE IF ts[1].lexeme.class = "span" THEN {}
  ELSE Closed(",", Read(ts[1].lexeme.number, After(1, ts)))

RECURSIVE ParseExpr(_)

(* What the parentheses hold: a computation, never a stream.               *)
Parenthesized(op, ts) ==
  LET Computation(left) == {r \in ParseExpr(left) : r.what.kind # "select"}
      Input(param) == {[r EXCEPT !.what = [param |-> param.what, input |-> @]] :
                         r \in Computation(param.left)}
  IN  Closed(")", UNION {Input(param) : param \in ParseAggParam(op, ts)})

(* The grouping comes before the parentheses, or else after them.          *)
ParseVectorAgg(ts) ==
  LET op == ts[1].lexeme.text
      Suffix(before, left) ==
        IF before = NoGrouping THEN ParseGroupingOpt(left) ELSE Read(before, left)
      Aggregates(before, inner) ==
        {[g EXCEPT !.what = Aggregate(op, @.by, @.without, inner.what.param, inner.what.input)] :
           g \in Suffix(before.what, inner.left)}
  IN  UNION {UNION {Aggregates(before, inner) : inner \in Parenthesized(op, before.left)} :
               before \in Closed("(", ParseGroupingOpt(After(1, ts)))}

ParseExpr(ts) ==
  CASE ts[1].kind = "{" -> ParseLogSelector(ts)
    [] Names(ts[1], rangeAggOp) -> ParseRangeAgg(ts)
    [] Names(ts[1], vectorAggOp) -> ParseVectorAgg(ts)
    [] OTHER -> {}

(* The plans a text can be read as, one or none. *)
ParseLogQL(text) == Complete(ParseExpr(TokenizeLogQL(text)))

(* What the parser takes and LogQL does not: a grouping after an empty one.*)
GroupsTwice(text) ==
  LET Words(names) == SelectSeq(TokenizeLogQL(text), LAMBDA token : Names(token, names))
  IN  Len(Words({"by", "without"})) > Len(Words(vectorAggOp))
================================================================================
