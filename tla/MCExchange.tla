------------------------------- MODULE MCExchange -------------------------------
(* Requests of Exchange for TLC. *)
EXTENDS ExchangeMeaning, Lucene, LogQL

Strings == STRING

Overreads(door, lexemes) ==
  IF door = "loki" THEN GroupsTwice(lexemes) ELSE DanglingAnd(lexemes)

(* Two tenants' records, with and without an app label; logs have a line,  *)
(* of which Loki finds every part, and Elasticsearch the words.            *)
SubstringsOf(line) ==
  CASE line = "x y" -> {"", "x", "y", " ", "x ", " y", "x y"}
    [] line = "xz" -> {"", "x", "z", "xz"}
    [] OTHER -> {""}
TermsOf(line) == CASE line = "x y" -> {"x", "y"} [] line = "xz" -> {"xz"} [] OTHER -> {}
PhrasesOf(line) == TermsOf(line) \cup (IF line = "x y" THEN {"x y"} ELSE {})
OneTerm == {"x", "y", "xz", "*"}
Record(signal, tenant, app, message) ==
  [n \in {"signal", "tenant", "app", "message", "host.name"} |->
     CASE n = "signal" -> signal [] n = "tenant" -> tenant [] n = "app" -> app
       [] n = "message" -> message [] OTHER -> "h"]
Records2 ==
  {Record("metrics", t, a, "") : t \in {"t1", "t2"}, a \in {"", "a", "b"}}
  \cup {Record("logs", t, a, m) : t \in {"t1", "t2"}, a \in {"", "a"}, m \in {"x y", "xz"}}

Tenant1 == Leaf("tenant", "=", {"t1"})
Tenant2 == Leaf("tenant", "=", {"t2"})
AppA    == Leaf("app", "=", {"a"})
NotA    == Leaf("app", "!=", {"a"})
AnyApp  == Leaf("app", "=~", {"a", "b"})
NoApp   == Leaf("app", "!~", {"a", "b"})
Absent  == Leaf("app", "=", {""})
Dotted  == Leaf("host.name", "=", {"h"})
LineOf(op, w) == [op |-> op, value |-> {w}]

Enforcements ==
  {Nil, Tenant1, Bool("AND", <<Tenant1, AnyApp>>), Bool("OR", <<Tenant1, Absent>>)}

(* Texts of PromQL and LogQL. *)
Selectors(lines) ==
  {Selector(ms, ls) : ms \in {<<AppA>>, <<NotA>>, <<AnyApp, Tenant2>>, <<NoApp>>, <<Absent>>, <<>>},
                      ls \in lines}
Ranges(sels) == {RangeCall(f, w, s) : f \in {"rate", "increase"}, w \in {0, 2}, s \in sels}
Aggs(inputs) ==
  {Agg("sum", g[1], g[2], <<>>, i) :
     g \in {<<"none", {}>>, <<"by", {"app"}>>, <<"without", {"app"}>>, <<"without", {}>>},
     i \in inputs}
  \cup {Agg(f, "none", {}, ps, i) :
          f \in {"topk", "quantile", "count_values"}, ps \in {<<>>, <<1>>}, i \in inputs}
Modifiers ==
  {NoModifier, Modifier("on", {"tenant"}, "none", {}), Modifier("on", {}, "none", {}),
   Modifier("ignoring", {"app"}, "none", {}), Modifier("on", {"tenant"}, "left", {"app"}),
   Modifier("on", {"tenant"}, "right", {}), Modifier("ignoring", {}, "left", {})}
Bins(l, r) == {Bin(op, m, l, r) : op \in {"-", "and", "unless"}, m \in Modifiers}

Rate(m) == RangeCall("rate", 2, Selector(<<m>>, <<>>))
PromQL ==
  LET sels == Selectors({<<>>}) IN
  sels \cup Ranges(sels) \cup Aggs(sels \cup {Rate(AppA)})
  \cup Aggs({Agg("sum", "by", {"app"}, <<>>, Rate(NotA))})
  \cup Bins(Selector(<<AppA>>, <<>>), Agg("sum", "by", {"tenant"}, <<>>, Rate(NotA)))
  \cup Bins(Selector(<<NotA>>, <<>>), Selector(<<AnyApp>>, <<>>))
  \cup {Number, Other, Neg(Rate(AppA)), Call("abs", <<Rate(AppA)>>),
        Bin("-", NoModifier, Number, Rate(AppA)), RangeCall("rate", 2, Rate(AppA)),
        Selector(<<Dotted>>, <<>>)}
LogQLTrees ==
  LET sels == Selectors({<<>>, <<LineOf("=~", "z")>>, <<LineOf("=", "x"), LineOf("!=", "y")>>}) IN
  sels \cup Ranges(sels) \cup Aggs({Rate(AppA), Selector(<<NotA>>, <<>>)})
  \cup Aggs({Agg("sum", "by", {"app", "tenant"}, <<>>, Rate(NotA))})
  \cup {Number, Other, RangeCall("rate", 2, Rate(AppA)), Selector(<<Dotted>>, <<>>),
        Bin("-", NoModifier, Rate(AppA), Number)}

(* How they are spelled: a grouping in front of the parentheses or after   *)
(* them, and commas as the grammar has them or as the parser lets pass.    *)
LogQLStyles == [front : BOOLEAN, loose : BOOLEAN]
S(text) == <<Symbol(text)>>
Joined(parts, between) ==
  FoldLeft(LAMBDA text, part : text \o (IF text = <<>> THEN <<>> ELSE between) \o part, <<>>, parts)
LineSymbol == ("=" :> "|=") @@ ("=~" :> "|~") @@ ("!=" :> "!=") @@ ("!~" :> "!~")

RECURSIVE SpelledLogQL(_, _)
SpelledLogQL(t, style) ==
  LET Matcher(m) == S(m.name) \o S(m.op) \o <<Quoted(m.value)>>
      lines == [i \in DOMAIN t.lines |-> S(LineSymbol[t.lines[i].op]) \o <<Quoted(t.lines[i].value)>>]
      labels == [i \in DOMAIN SetToSeq(t.labels) |-> S(SetToSeq(t.labels)[i])]
      grouping ==
        IF t.clause = "none" THEN <<>>
        ELSE S(t.clause) \o S("(") \o Joined(labels, IF style.loose THEN <<>> ELSE S(",")) \o S(")")
      Params(ps) == Joined([i \in DOMAIN ps |-> <<Numeral(ps[i])>> \o S(",")], <<>>)
  IN  CASE t.kind = "selector" ->
             S("{") \o Joined([i \in DOMAIN t.matchers |-> Matcher(t.matchers[i])], S(","))
             \o (IF style.loose /\ t.matchers # <<>> THEN S(",") ELSE <<>>) \o S("}")
             \o Joined(lines, <<>>)
        [] t.kind = "range" ->
             S(t.func) \o S("(") \o SpelledLogQL(t.input, style)
             \o S("[") \o <<Span(t.window)>> \o S("]") \o S(")")
        [] t.kind = "agg" ->
             S(t.func) \o (IF style.front THEN grouping ELSE <<>>)
             \o S("(") \o Params(t.params) \o SpelledLogQL(t.input, style) \o S(")")
             \o (IF style.front THEN <<>> ELSE grouping)
        [] t.kind = "bin" -> SpelledLogQL(t.lhs, style) \o S(t.op) \o SpelledLogQL(t.rhs, style)
        [] t.kind = "number" -> <<Numeral(1)>>
        [] t.kind = "other" -> S("{") \o Matcher(AppA) \o S("}") \o S("|") \o S("json")

(* What LogQL has no reading for, and what the parser takes of it.         *)
IllLogQL ==
  LET Q == <<Quoted({"a"})>>
      App == S("app") \o S("=") \o Q
      Sel == S("{") \o App \o S("}")
      R == S("rate") \o S("(") \o Sel \o S("[") \o <<Span(2)>> \o S("]") \o S(")")
      In(open, body, close) == S(open) \o body \o S(close)
      Rate1(window) == S("rate") \o In("(", Sel \o window, ")")
      Sum(body) == S("sum") \o In("(", body, ")")
      By(names) == S("by") \o In("(", names, ")")
  IN  {<<>>, S("{"), App, S("{") \o App, Sel \o S("}"), In("{", App \o App, "}"),
       In("{", S(",") \o App, "}"), In("{", S("app") \o Q, "}"), In("{", S("=") \o Q, "}"),
       In("{", S("app") \o S("=") \o S("a"), "}"), In("{", S("app") \o S("|=") \o Q, "}"),
       In("{", S("app") \o S("!") \o Q, "}"), In("{", S("app") \o S("="), "}"),
       Sel \o S("|="), Sel \o S("=") \o Q, Sel \o S("!") \o Q, Sel \o S("|=") \o S("x"),
       S("rate"), S("rate") \o Sel, Rate1(<<>>), Rate1(In("[", <<Numeral(2)>>, "]")),
       Rate1(In("[", S("m"), "]")), Rate1(In("[", Q, "]")), Rate1(<<Span(2)>>),
       Rate1(In("[", <<Span(2)>>, "]") \o S(",")), Rate1(In("[", <<Numeral(0)>>, "]")),
       Sum(<<>>), S("sum") \o R, S("sum") \o S("(") \o R, Sum(R) \o S(")"),
       Sum(<<Numeral(1)>> \o S(",") \o R), S("sum") \o S("by") \o S("app") \o In("(", R, ")"),
       S("by") \o In("(", R, ")"), R \o By(S("app")), Sum(R) \o By(S("app") \o S(",") \o S(",")),
       Sum(R) \o By(Q), Sum(R) \o S("by"), Sum(R) \o By(S("app")) \o By(S("app")),
       S("sum") \o By(S("app")) \o In("(", R, ")") \o By(S("app")),
       S("sum") \o By(<<>>) \o In("(", R, ")") \o By(S("app")),
       S("topk") \o In("(", <<Span(2)>> \o S(",") \o R, ")"),
       S("topk") \o In("(", <<Numeral(1)>> \o R, ")"), S("topk") \o In("(", S(",") \o R, ")"),
       S("abs") \o In("(", R, ")"), R \o R, Q}

LogQLTexts ==
  {Written(t, SpelledLogQL(t, style)) : t \in LogQLTrees, style \in LogQLStyles}
  \cup {Written(Refused, text) : text \in IllLogQL}

(* Texts of Lucene: how they spell a predicate of equalities, in a style:  *)
(* the lexemes of the operators (a juxtaposition has none), how a value is *)
(* quoted, and whether every operand is put in parentheses.  NOT binds     *)
(* tighter than AND, and AND tighter than OR.                              *)
Binds == [OR |-> 1, AND |-> 2, NOT |-> 3]
Style(and, or, not, quoted, wrap) ==
  [AND |-> and, OR |-> or, NOT |-> not, quoted |-> quoted, wrap |-> wrap]
Styles ==
  {Style(<<Word("AND")>>, <<Word("OR")>>, <<Word("NOT")>>, FALSE, FALSE),
   Style(<<>>, <<Word("||")>>, <<Word("-")>>, TRUE, FALSE),
   Style(<<Word("&&"), Word("+")>>, <<Word("or")>>, <<Word("!")>>, TRUE, TRUE)}

RECURSIVE Spelled(_, _)
Spelled(p, style) ==
  LET Operand(q) ==
        IF q.kind = "bool" /\ (style.wrap \/ Binds[q.op] < Binds[p.op])
        THEN <<Word("(")>> \o Spelled(q, style) \o <<Word(")")>> ELSE Spelled(q, style)
      value == [quoted |-> style.quoted, text |-> CHOOSE v \in p.value : TRUE]
  IN  IF p.kind = "leaf"
      THEN IF p.name = phraseField THEN <<value>> ELSE <<Word(p.name), Word(":"), value>>
      ELSE IF p.op = "NOT" THEN style.NOT \o Operand(p.operands[1])
      ELSE FoldLeft(LAMBDA text, i :
             text \o (IF i = 1 THEN <<>> ELSE style[p.op]) \o Operand(p.operands[i]),
             <<>>, [i \in DOMAIN p.operands |-> i])

(* A word of the message is looked for in its phrases.                     *)
Term(f, w) == Leaf(IF f = messageField THEN phraseField ELSE f, "=", {w})
Predicates ==
  LET terms == {Term("app", "a"), Term("message", "x"), Term("host.name", "h")}
      nots  == {Bool("NOT", <<p>>) : p \in terms}
      pairs == {Bool(op, <<p, q>>) : op \in {"AND", "OR"}, p, q \in terms \cup nots}
      both  == {Bool(op, <<Term("app", "a"), Term("message", "x")>>) : op \in {"AND", "OR"}}
  IN  terms \cup nots \cup pairs \cup {Bool("NOT", <<p>>) : p \in nots}
      \cup {Bool(op, <<p, Bool("NOT", <<q>>), Term("app", "b")>>) :
              op \in {"AND", "OR"}, p, q \in both}

(* What the subset has no reading for, and what the parser takes of it.    *)
Ill ==
  LET A == <<Word("app"), Word(":"), Word("a")>>
      X == <<Phrase("x")>>
      And == <<Word("AND")>>
      Or == <<Word("OR")>>
      Not == <<Word("NOT")>>
      Open == <<Word("(")>>
      Close == <<Word(")")>>
      Colon == <<Word(":")>>
  IN  {Open \o A, A \o Close, Open \o Close, A \o Colon \o X, Colon \o X, A \o Or,
       And \o A, Or \o X, A \o And \o And \o X, Not, A \o Not, <<>>,
       <<Word("app"), Word(":")>> \o Open \o X \o Close,
       A \o And, A \o And \o Or \o X, Open \o A \o And \o Close \o X}

Search(pred, lexemes) == Written(Documents(pred), lexemes)
LuceneTexts ==
  {None, Search(Nil, <<matchAll>>), Search(Nil, <<Word("+"), matchAll>>),
   Search(Term("message", "*"), <<Phrase("*")>>),
   Search(Term("message", "x y"), <<Phrase("x y")>>),
   Search(Absent, <<Word("app"), Word(":"), Phrase("")>>)}
  \cup {Search(p, Spelled(p, style)) : p \in Predicates, style \in Styles}
  \cup {Written(Refused, t) : t \in Ill}

(* Plans that only OTQP brings, malformed ones among them. *)
PlanFilters == {Nil, AppA, Absent, Dotted, Bool("AND", <<AppA, Bool("AND", <<NotA, Tenant2>>)>>),
            Bool("OR", <<AppA, Tenant2>>), Bool("NOT", <<AppA>>),
            Bool("NOT", <<AppA, NotA>>), Bool("AND", <<>>)}
Selects == {Select(s, f, l) : s \in {"metrics", "logs"}, f \in PlanFilters, l \in {<<>>, <<LineOf("=~", "x")>>}}
Apps(signal) == Select(signal, AnyApp, <<>>)
CarriedPlans ==
  {None, Literal} \cup Selects
  \cup {TimeAgg("rate", w, Apps(s)) : w \in 0 .. 3, s \in {"metrics", "logs"}}
  \cup UNION {{TimeAgg("", 2, Apps(s)),
               TimeAgg("rate", 2, Aggregate("sum", {}, {}, 0, TimeAgg("rate", 2, Apps(s)))),
               Function("abs", <<Apps(s)>>), Function("no.name", <<Apps(s)>>),
               Function("", <<Apps(s)>>)} : s \in {"metrics", "logs"}}
  \cup {Aggregate(f, by, wo, 1, TimeAgg("rate", 2, Apps(s))) :
          f \in {"sum", "group", "quantile", ""}, by \in {{}, {"app"}, {"host.name"}},
          wo \in {{}, {"tenant"}}, s \in {"metrics", "logs"}}
  \cup {Binary(op, TimeAgg("rate", 2, Apps(l)), TimeAgg("rate", 2, Apps(r)), m) :
          op \in {"-", "unless"}, l, r \in {"metrics", "logs"},
          m \in {Nil, Matching(Modifier("on", {"tenant"}, "none", {})),
                 Matching(Modifier("on", {"host.name"}, "left", {"app"}))}}

Plain(door, backend, text, enforced) ==
  [door |-> door, backend |-> backend, enforced |-> enforced, timeout |-> 0, text |-> text,
   context |-> "instant", start |-> None, end |-> None, step |-> None,
   exclusive |-> {}, offset |-> None, lookback |-> None,
   limit |-> None, direction |-> None, extra |-> FALSE]

TextsOf == [prometheus |-> PromQL, loki |-> LogQLTexts, elasticsearch |-> LuceneTexts,
            otqp |-> CarriedPlans, otqphttp |-> {Bad, None} \cup Selects]
Door == DOMAIN TextsOf

PlanningAsks ==
  UNION {{Plain(d, b, t, e) : b \in DOMAIN Language, t \in TextsOf[d], e \in Enforcements} : d \in Door}

(* Windows, steps and log options, on one query per door and backend. *)
Simple(d, b) ==
  CASE d = "prometheus" -> Rate(AppA) [] d = "loki" -> CHOOSE t \in LogQLTexts : t.tree = Selector(<<AppA>>, <<>>)
    [] d = "elasticsearch" -> Search(AppA, <<Word("app"), Word(":"), Word("a")>>)
    [] OTHER -> Select(SignalOf[Language[b]], AppA, <<>>)
B(d) == IF d \in {"otqp", "otqphttp"} THEN {} ELSE {Bad}
OptionAsks ==
  UNION {{[Plain(d, b, Simple(d, b), Nil) EXCEPT
             !.context = c, !.start = s, !.end = t, !.step = p, !.extra = x] :
            b \in DOMAIN Language, c \in {"instant", "range"},
            s \in {None, 0, 4} \cup B(d), t \in {None, 0, 8} \cup B(d),
            p \in {None, 0, 2} \cup B(d), x \in {FALSE, d = "elasticsearch"}} :
         d \in Door}
LimitAsks ==
  {[Plain(d, b, Simple(d, b), Nil) EXCEPT !.limit = n, !.direction = o] :
     d \in {"loki", "otqp"}, b \in {"loki", "elasticsearch"},
     n \in {None, 0, 1, 3, 4}, o \in {None, "forward", "sideways"}}

ModifiedAsks ==
  {[Plain(d, b, Simple(d, b), Nil) EXCEPT
      !.context = c, !.start = 4, !.end = 8, !.exclusive = x, !.offset = o, !.lookback = l] :
     d \in {"otqp", "otqphttp"}, b \in DOMAIN Language, c \in {"instant", "range", "streaming"},
     x \in SUBSET {"start", "end"}, o \in {None, 1}, l \in {None, 2}}
UntimedAsks ==
  {[Plain(d, b, Simple(d, b), Nil) EXCEPT !.timeout = -1] : d \in Door, b \in DOMAIN Language}

AllAsks == PlanningAsks \cup OptionAsks \cup LimitAsks \cup ModifiedAsks \cup UntimedAsks

(* Lines of one stream, one with metadata of its own and one torn, and a   *)
(* line of another stream whose labels have the first one's key.           *)
ABNames == <<"a", "b">>
NoLabels == [n \in {} |-> <<>>]
AB(a, b) == [n \in {"a", "b"} |-> IF n = "a" THEN a ELSE b]
A(a) == [n \in {"a"} |-> a]
Line1 == [labels |-> AB(<<"1">>, <<"2">>), metadata |-> NoLabels, torn |-> FALSE]
Listed ==
  {Line1, [Line1 EXCEPT !.torn = TRUE],
   [Line1 EXCEPT !.metadata = [n \in {"b"} |-> <<"3">>]],
   [Line1 EXCEPT !.labels = A(<<"1", ",", "b", "=", "2">>)]}
================================================================================
