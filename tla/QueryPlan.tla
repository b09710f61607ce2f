------------------------------- MODULE QueryPlan -------------------------------
(***************************************************************************)
(* The query languages and the plan between them: how the Prometheus       *)
(* acceptor turns the tree of a query into a qdata plan, and how the       *)
(* dispatchers turn a plan into the text their backend runs.  Lucene and   *)
(* LogQL are the parsers of the other acceptors; Exchange makes a state    *)
(* machine of it.                                                          *)
(*                                                                         *)
(* A text is the tree its language's grammar gives it (of Lucene and LogQL *)
(* also the lexemes that spell the tree, which the acceptors' own parsers  *)
(* read) and its meaning is what it computes from the records of a         *)
(* storage: a set of series, each with its labels and the records it was   *)
(* computed from, by which operators.  That is enough to tell a query from *)
(* one that filters, groups, pairs or computes differently; no number is   *)
(* computed.                                                               *)
(***************************************************************************)
EXTENDS Plans

CONSTANTS
  Identifier,     (* The label names a bare identifier can spell.          *)
  Substrings(_),  (* What a line contains, as Loki finds it.               *)
  Terms(_),       (* What Elasticsearch indexes of a line, and the phrases *)
  Phrases(_)      (* that it finds in it: both depend on its analyzer.     *)

--------------------------------------------------------------------------------
(* Texts.  PromQL and LogQL share their trees, Lucene and the query DSL of *)
(* Elasticsearch are predicates over a document.  A construct no acceptor  *)
(* takes (offset, @, a subquery, bool, a pipeline) is an "other".          *)

Selector(matchers, lines) == [kind |-> "selector", matchers |-> matchers, lines |-> lines]
RangeCall(func, window, input) ==
  [kind |-> "range", func |-> func, window |-> window, input |-> input]
Agg(func, clause, labels, params, input) ==
  [kind |-> "agg", func |-> func, clause |-> clause, labels |-> labels,
   params |-> params, input |-> input]
Call(func, args) == [kind |-> "call", func |-> func, args |-> args]
Bin(op, mod, lhs, rhs) == [kind |-> "bin", op |-> op, mod |-> mod, lhs |-> lhs, rhs |-> rhs]
Number == [kind |-> "number"]
Neg(input) == [kind |-> "neg", input |-> input]
Other == [kind |-> "other"]
Documents(pred) == [kind |-> "documents", pred |-> pred]
Refused == [kind |-> "refused"]

(* How a client writes a tree, or what the grammar of the door refuses.    *)
Written(tree, lexemes) == [kind |-> "written", tree |-> tree, lexemes |-> lexemes]
TreeOf(text) == IF text.kind = "written" THEN text.tree ELSE text

(* The modifier of a binary operator: which labels pair the operands, and  *)
(* on which side many series may share a partner.                          *)
Modifier(clause, labels, group, include) ==
  [clause |-> clause, labels |-> labels, group |-> group, include |-> include]
NoModifier == Modifier("none", {}, "none", {})

(* The trees of at most Depth levels.                                      *)
VectorModifier == [clause : {"none", "on", "ignoring"}, labels : SUBSET String,
                   group : {"none", "left", "right"}, include : SUBSET String]
TreesOver(below) ==
  [kind : {"selector"}, matchers : Seq(Leaves), lines : Seq(Line)]
  \cup [kind : {"documents"}, pred : {Nil} \cup Predicate]
  \cup {Number, Other, Refused}
  \cup [kind : {"range"}, func : String, window : Int, input : below]
  \cup [kind : {"agg"}, func : String, clause : {"none", "by", "without"},
        labels : SUBSET String, params : Seq(Int), input : below]
  \cup [kind : {"call"}, func : String, args : Seq(below)]
  \cup [kind : {"bin"}, op : String, mod : VectorModifier, lhs : below, rhs : below]
  \cup [kind : {"neg"}, input : below]
TreesTo[h \in 0 .. Depth] == IF h = 0 THEN {} ELSE TreesOver(TreesTo[h - 1])
Tree == TreesTo[Depth]

SignalOf == [promql |-> "metrics", logql |-> "logs", lucene |-> "logs", esql |-> "logs"]

(* What the languages have (sum and rate stand for their kind), and what   *)
(* the tables of the Prometheus acceptor and of the dispatchers hold.      *)
LanguageAggs   == [promql |-> {"sum", "topk", "quantile", "group", "count_values"},
                   logql  |-> {"sum", "topk"}]
AcceptedAggs   == {"sum", "topk", "quantile", "group"}
RenderedAggs   == [promql |-> {"sum", "topk", "quantile", "group"},
                   logql  |-> {"sum", "topk", "quantile"}]
TakesParam     == {"topk", "quantile", "count_values"}
RangeFuncs     == [promql |-> {"rate", "increase"}, logql |-> {"rate"}]
RenderedBinOps == [promql |-> {"-", "and", "unless"}, logql |-> {"-", "and"}]
LanguageBinOps == {"-", "and", "unless"}
LanguageCalls  == [promql |-> {"abs"}, logql |-> {}]

--------------------------------------------------------------------------------
(* From a text to a plan: the acceptors.                                   *)

(* What a language's own parser takes: the parser the Prometheus acceptor  *)
(* calls, and the parser of every backend.                                 *)
WellFormed(lang, tree) ==
  LET takes[t \in Tree] ==
        /\ t.kind \notin {"documents", "refused"}
        /\ t.kind = "selector" => t.matchers # <<>> /\ (lang = "promql" => t.lines = <<>>)
        /\ t.kind = "range" =>
             /\ t.func \in RangeFuncs[lang] /\ t.window > 0
             /\ t.input.kind = "selector" /\ takes[t.input]
        /\ t.kind = "agg" =>
             /\ t.func \in LanguageAggs[lang]
             /\ Len(t.params) = IF t.func \in TakesParam THEN 1 ELSE 0
             /\ lang = "logql" => t.input.kind # "selector"
             /\ takes[t.input]
        /\ t.kind = "call" =>
             /\ t.func \in LanguageCalls[lang]
             /\ Len(t.args) = 1 /\ takes[t.args[1]]
        /\ t.kind = "bin" =>
             /\ t.op \in LanguageBinOps
             /\ t.mod.group # "none" => t.mod.clause # "none"
             /\ lang = "logql" => "selector" \notin {t.lhs.kind, t.rhs.kind}
             /\ takes[t.lhs] /\ takes[t.rhs]
        /\ t.kind = "neg" => lang = "promql" /\ takes[t.input]
  IN  takes[tree]

(* What convertExpr has a plan for, of what the parser takes.              *)
ConvertsPromQL(tree) ==
  LET converts[t \in Tree] ==
        /\ t.kind \notin {"documents", "refused", "other"}
        /\ t.kind \in {"range", "neg"} => converts[t.input]
        /\ t.kind = "agg" =>
             /\ t.func \in AcceptedAggs
             /\ ~ (t.clause = "without" /\ t.labels = {})
             /\ converts[t.input]
        /\ t.kind = "call" => \A i \in DOMAIN t.args : converts[t.args[i]]
        /\ t.kind = "bin" =>
             /\ ~ (t.mod.clause = "on" /\ t.mod.labels = {})
             /\ converts[t.lhs] /\ converts[t.rhs]
  IN  converts[tree]

(* convertMatching. *)
Matching(mod) ==
  [on       |-> IF mod.clause = "on" THEN mod.labels ELSE {},
   ignoring |-> IF mod.clause = "ignoring" THEN mod.labels ELSE {},
   group    |-> mod.group,
   include  |-> mod.include]

(* convert, of a tree that ConvertsPromQL.  A unary minus is a subtraction *)
(* from 0.                                                                 *)
Converted(tree) ==
  LET converted[t \in Tree] ==
        IF t.kind = "selector" THEN Select("metrics", Filter(t.matchers), <<>>)
        ELSE IF t.kind = "range" THEN TimeAgg(t.func, t.window, converted[t.input])
        ELSE IF t.kind = "agg" THEN
            Aggregate(t.func, IF t.clause = "by" THEN t.labels ELSE {},
                      IF t.clause = "without" THEN t.labels ELSE {},
                      IF t.params = <<>> THEN 0 ELSE t.params[1], converted[t.input])
        ELSE IF t.kind = "call" THEN
            Function(t.func, [i \in DOMAIN t.args |-> converted[t.args[i]]])
        ELSE IF t.kind = "bin" THEN
            Binary(t.op, converted[t.lhs], converted[t.rhs], Matching(t.mod))
        ELSE IF t.kind = "neg" THEN Binary("-", Literal, converted[t.input], Nil)
        ELSE Literal
  IN  converted[tree]

(* parsePromQL: the plans that a text can be read as, one or none.         *)
PromQLPlans(tree) ==
  IF WellFormed("promql", tree) /\ ConvertsPromQL(tree) THEN {Converted(tree)} ELSE {}

--------------------------------------------------------------------------------
(* From a plan to a text: planToPromQL, planToLogQL and planToESQuery.     *)

(* What keeps a label selector from being rendered. *)
Flat(p) == p # Nil /\ IsConjunction(p)

Grouping(node) ==
  IF node.by # {} THEN "by" ELSE IF node.without # {} THEN "without" ELSE "none"
GroupLabels(node) == IF node.by # {} THEN node.by ELSE node.without

(* matchingClause: on wins over ignoring, include is for group_* alone. *)
MatchingClause(m) ==
  IF m = Nil THEN NoModifier
  ELSE Modifier(IF m.on # {} THEN "on" ELSE IF m.ignoring # {} THEN "ignoring" ELSE "none",
                IF m.on # {} THEN m.on ELSE m.ignoring,
                m.group, IF m.group = "none" THEN {} ELSE m.include)

Renders(lang, plan) ==
  LET renders[n \in Plan] ==
        /\ n.kind = "select" =>
             /\ n.signal = SignalOf[lang] /\ (lang = "promql" => n.lines = <<>>)
             /\ Flat(n.filter)
             /\ \A m \in ToSet(Conjuncts(n.filter)) : m.name \in Identifier
        /\ n.kind = "timeAgg" => n.op \in RangeFuncs[lang] /\ renders[n.input]
        /\ n.kind = "aggregate" =>
             /\ n.op \in RenderedAggs[lang] /\ GroupLabels(n) \subseteq Identifier
             /\ renders[n.input]
        /\ n.kind = "function" =>
             n.name \in Identifier /\ \A i \in DOMAIN n.args : renders[n.args[i]]
        /\ n.kind = "binary" =>
             /\ n.op \in RenderedBinOps[lang]
             /\ lang = "promql" => LET mod == MatchingClause(n.matching)
                                   IN  mod.labels \cup mod.include \subseteq Identifier
             /\ renders[n.lhs] /\ renders[n.rhs]
  IN  renders[plan]

(* Windows count half milliseconds; promDuration and logqlDuration keep    *)
(* whole ones.                                                             *)
Duration(window) == window - (window % 2)

Text(lang, plan) ==
  LET text[n \in Plan] ==
        IF n.kind = "select" THEN Selector(Conjuncts(n.filter), n.lines)
        ELSE IF n.kind = "timeAgg" THEN RangeCall(n.op, Duration(n.window), text[n.input])
        ELSE IF n.kind = "aggregate" THEN
            Agg(n.op, Grouping(n), GroupLabels(n),
                IF n.op \in TakesParam THEN <<n.param>> ELSE <<>>, text[n.input])
        ELSE IF n.kind = "function" THEN
            Call(n.name, [i \in DOMAIN n.args |-> text[n.args[i]]])
        ELSE IF n.kind = "binary" THEN
            Bin(n.op, IF lang = "promql" THEN MatchingClause(n.matching) ELSE NoModifier,
                text[n.lhs], text[n.rhs])
        ELSE Number
  IN  text[plan]

(* matcherToES, boolExprToES: a negated operator becomes a must_not. *)
Negation(leaf) == Leaf(leaf.name, IF leaf.op = "!=" THEN "=" ELSE "=~", leaf.value)
ESClause(p) ==
  LET clause[q \in Predicate] ==
        IF q.kind = "bool" THEN [q EXCEPT !.operands = [i \in DOMAIN @ |-> clause[@[i]]]]
        ELSE IF Positive(q.op) THEN q
        ELSE Bool("NOT", <<Negation(q)>>)
  IN  clause[p]

(* lineToES: a match_phrase or a regexp on the message field.  The phrases *)
(* of the field are written as a field of their own.                       *)
messageField == "message"
phraseField == "message.phrases"
LineClause(line) ==
  LET found == Leaf(IF line.op \in {"=", "!="} THEN phraseField ELSE messageField,
                    IF line.op \in {"=", "!="} THEN "=" ELSE "=~", line.value)
  IN  IF Positive(line.op) THEN found ELSE Bool("NOT", <<found>>)

ESQuery(n) ==
  LET filter == IF n.filter = Nil THEN <<>> ELSE <<ESClause(n.filter)>>
      lines  == [i \in DOMAIN n.lines |-> LineClause(n.lines[i])]
  IN  Documents(Bool("AND", filter \o lines))

(* The text a dispatcher ships for a plan, or that it refuses. *)
Rendered(lang, n) ==
  IF lang = "esql"
  THEN IF n.kind = "select" /\ n.signal = "logs" THEN ESQuery(n) ELSE Refused
  ELSE IF Renders(lang, n) THEN Text(lang, n) ELSE Refused

--------------------------------------------------------------------------------
(* Meanings over the records D.  A computation reads records and lists the *)
(* operators applied to each, from the innermost; a scalar is one          *)
(* unlabelled series that reads nothing and pairs with any other.          *)

StreamLabel == {"tenant", "app"}
Labels(r) == [l \in {l \in StreamLabel : r[l] # ""} |-> r[l]]
Value(series) == [ok |-> TRUE, scalar |-> FALSE, series |-> series]
Scalar == [ok |-> TRUE, scalar |-> TRUE, series |-> {}]
Error == [ok |-> FALSE, scalar |-> FALSE, series |-> {}]

Rows(rs) == Value({[labels |-> Labels(r), from |-> {[record |-> r, by |-> <<>>]}] : r \in rs})

(* What is read from the records of from, once op is applied. *)
Applied(op, number, from) ==
  {[x EXCEPT !.by = Append(@, [op |-> op, number |-> number])] : x \in from}

Mapped(op, number, v) ==
  [v EXCEPT !.series = {[s EXCEPT !.from = Applied(op, number, @)] : s \in @}]

Kept(labels, clause, names) ==
  CASE clause = "by"      -> Restrict(labels, DOMAIN labels \cap names)
    [] clause = "without" -> Restrict(labels, DOMAIN labels \ names)
    [] clause = "none"    -> Restrict(labels, {})

Param(func, params) == IF func \in TakesParam THEN params[1] ELSE 0

Reduced(v, func, clause, names, params) ==
  IF func = "topk" /\ params[1] = 0 THEN Value({})
  ELSE LET Group(s) == IF func = "topk" THEN s.labels ELSE Kept(s.labels, clause, names)
           groups == {Group(s) : s \in v.series}
           From(g) == UNION {s.from : s \in {s \in v.series : Group(s) = g}}
       IN  Mapped(func, Param(func, params),
                  Value({[labels |-> g, from |-> From(g)] : g \in groups}))

Signature(labels, mod) ==
  Kept(labels, IF mod.clause = "on" THEN "by" ELSE "without",
       IF mod.clause = "none" THEN {} ELSE mod.labels)

Copied(many, one, include) ==
  [l \in (DOMAIN many \ include) \cup (DOMAIN one \cap include) |->
     IF l \in include THEN one[l] ELSE many[l]]

(* The operands are numbered, so that their order matters. *)
Paired(op, mod, left, right) ==
  LET l == Mapped(op, 1, left)
      r == Mapped(op, 2, right)
      Pairs == {p \in l.series \X r.series :
                  Signature(p[1].labels, mod) = Signature(p[2].labels, mod)}
      Result(p) ==
        IF op = "and" THEN p[1].labels
        ELSE CASE mod.group = "left"  -> Copied(p[1].labels, p[2].labels, mod.include)
               [] mod.group = "right" -> Copied(p[2].labels, p[1].labels, mod.include)
               [] OTHER -> Signature(p[1].labels, mod)
  IN  IF l.scalar THEN r
      ELSE IF r.scalar THEN l
      ELSE IF op = "unless" THEN Value(l.series \ {p[1] : p \in Pairs})
      ELSE Value({[labels |-> Result(p), from |-> p[1].from \cup p[2].from] : p \in Pairs})

(* A line filter of LogQL, and of a plan: whether the line contains a text *)
(* that the filter accepts.                                                *)
LinePasses(line, r) ==
  (line.value \cap Substrings(r[messageField]) # {}) = Positive(line.op)
LinesPass(lines, r) == \A i \in DOMAIN lines : LinePasses(lines[i], r)

(* What a search finds of a document.  A term or a regexp is matched with  *)
(* whole values, of the message with each of its terms, and a field that a *)
(* document does not have matches none, where a label is then empty.       *)
Indexed(name, r) ==
  CASE name = messageField -> Terms(r[messageField])
    [] name = phraseField -> Phrases(r[messageField])
    [] OTHER -> {r[name]} \ {""}

Hit(p, r) ==
  LET hit[q \in Predicate] ==
        CASE q.kind = "leaf" -> (q.value \cap Indexed(q.name, r) # {}) = Positive(q.op)
          [] q.kind = "bool" /\ q.op = "OR" -> \E i \in DOMAIN q.operands : hit[q.operands[i]]
          [] q.kind = "bool" /\ q.op = "NOT" -> \A i \in DOMAIN q.operands : ~ hit[q.operands[i]]
          [] OTHER -> \A i \in DOMAIN q.operands : hit[q.operands[i]]
  IN  hit[p]
Searched(p, r) == IF p = Nil THEN TRUE ELSE Hit(p, r)

Computed(lang, tree, D) ==
  LET computed[t \in Tree] ==
        IF t.kind = "selector" THEN
            Rows({r \in D : /\ r.signal = SignalOf[lang]
                            /\ \A i \in DOMAIN t.matchers : Satisfies(t.matchers[i], r)
                            /\ LinesPass(t.lines, r)})
        ELSE IF t.kind = "documents" THEN
            Rows({r \in D : r.signal = SignalOf[lang] /\ Searched(t.pred, r)})
        ELSE IF t.kind = "range" THEN Mapped(t.func, t.window, computed[t.input])
        ELSE IF t.kind = "agg" THEN
            Reduced(computed[t.input], t.func, t.clause, t.labels, t.params)
        ELSE IF t.kind = "call" THEN
            IF Len(t.args) = 1 THEN Mapped(t.func, 0, computed[t.args[1]]) ELSE Error
        ELSE IF t.kind = "bin" THEN Paired(t.op, t.mod, computed[t.lhs], computed[t.rhs])
        ELSE IF t.kind = "neg" THEN Paired("-", NoModifier, Scalar, computed[t.input])
        ELSE IF t.kind = "number" THEN Scalar
        ELSE Error
  IN  computed[tree]

(* The meaning of a tree: its language refuses it, or computes it.         *)
Meaning(lang, t, D) ==
  IF t = Refused \/ (lang \in {"promql", "logql"} /\ ~ WellFormed(lang, t))
  THEN Error
  ELSE Computed(lang, t, D)

(* The meaning of a valid plan, whatever backend serves it.                *)
PlanMeaning(plan, D) ==
  LET meaning[n \in Plan] ==
        IF n.kind = "select" THEN
            Rows({r \in D : /\ r.signal = n.signal /\ Passes(n.filter, r)
                            /\ LinesPass(n.lines, r)})
        ELSE IF n.kind = "timeAgg" THEN Mapped(n.op, n.window, meaning[n.input])
        ELSE IF n.kind = "aggregate" THEN
            Reduced(meaning[n.input], n.op, Grouping(n), GroupLabels(n), <<n.param>>)
        ELSE IF n.kind = "function" THEN
            IF Len(n.args) = 1 THEN Mapped(n.name, 0, meaning[n.args[1]]) ELSE Error
        ELSE IF n.kind = "binary" THEN
            Paired(n.op, MatchingClause(n.matching), meaning[n.lhs], meaning[n.rhs])
        ELSE Scalar
  IN  meaning[plan]
================================================================================
