----------------------------- MODULE ExchangeMeaning ---------------------------
(***************************************************************************)
(* Exchange with the parsers, the rewrite and the renderers of QueryPlan:  *)
(* that what a dispatcher ships means what the client asked.               *)
(***************************************************************************)
EXTENDS Exchange

CONSTANTS
  Storage,         (* The records a backend holds.                         *)
  Overread(_, _),  (* The lexemes that the parser of a door takes and its  *)
                   (* language does not.                                   *)
  SingleTerms      (* The texts that the analyzer leaves as they are: a    *)
                   (* phrase of one is found where the term is.            *)

(* The records the configured enforcement lets a client see. *)
Visible(a) == {r \in Storage : Passes(a.enforced, r)}

(* What a request computes, by the language of its door.                   *)
Asked(a) ==
  IF Carries(a) THEN PlanMeaning(a.text, Visible(a))
  ELSE IF a.text = None THEN Meaning("lucene", Documents(Nil), Visible(a))
  ELSE Meaning(TextLanguage[a.door], TreeOf(a.text), Visible(a))

(* A node with the nodes below it, of a plan or of the tree of a text.     *)
Nodes(node) ==
  LET nodes[n \in Plan \cup Tree] ==
        {n} \cup IF n.kind \in {"timeAgg", "aggregate", "range", "agg", "neg"}
                 THEN nodes[n.input]
                 ELSE IF n.kind \in {"function", "call"}
                 THEN UNION {nodes[n.args[i]] : i \in DOMAIN n.args}
                 ELSE IF n.kind \in {"binary", "bin"} THEN nodes[n.lhs] \cup nodes[n.rhs]
                 ELSE {}
  IN  nodes[node]

(* The requests the code is known to ship with another meaning: the LogQL  *)
(* renderer leaves the vector matching of a binary node out; the LogQL     *)
(* parser reads "without ()" as no grouping at all, and a topk without its *)
(* parameter as topk(0, ...); and a window is cut to whole milliseconds.   *)
(* The parsers also take some texts that their languages do not have.      *)
DropsMatching(a, n) ==
  n.kind = "binary" /\ a.backend = "loki" /\ MatchingClause(n.matching) # NoModifier
EmptyWithout(n) == n.kind = "agg" /\ n.clause = "without" /\ n.labels = {}
ParameterLess(n) == n.kind = "agg" /\ n.func \in TakesParam /\ n.params = <<>>
SubMillisecond(n) == n.kind \in {"timeAgg", "range"} /\ n.window % 2 # 0

(* And those that labels and documents tell apart: Elasticsearch matches a *)
(* line filter with the terms of a line, not with what the line contains;  *)
(* a matcher that takes the empty text takes a label that is not there,    *)
(* but never a field that is not there; and a matcher of the message is    *)
(* matched with one term of it, not with all of it.  That term is not      *)
(* analyzed, so of the phrases of the search door only single terms are    *)
(* searched for as they are asked.                                         *)
FiltersLines(a, n) ==
  a.backend = "elasticsearch" /\ n.kind \in {"selector", "select"} /\ n.lines # <<>>

Matchers(p) ==
  LET leaves[q \in Predicate] ==
        IF q.kind = "leaf" THEN {q} ELSE UNION {leaves[q.operands[i]] : i \in DOMAIN q.operands}
  IN  leaves[p]
MatchersAt(n) ==
  IF n.kind = "selector" THEN ToSet(n.matchers)
  ELSE IF n.kind = "select" /\ n.filter # Nil THEN Matchers(n.filter)
  ELSE IF n.kind = "documents" /\ n.pred # Nil THEN Matchers(n.pred)
  ELSE {}

OfMessage(m) == m.name \in {messageField, phraseField}
ReadOtherwise(m) == "" \in m.value \/ OfMessage(m)
Crosses(a) == (a.door = "elasticsearch") # (a.backend = "elasticsearch")
ChangesReading(a, n) ==
  \E m \in MatchersAt(n) :
    \/ Crosses(a) /\ ReadOtherwise(m)
    \/ a.door = "elasticsearch" /\ OfMessage(m) /\ ~ m.value \subseteq SingleTerms

(* The enforcement is about labels, whatever the door.                     *)
EnforcesOtherwise(a) ==
  /\ a.backend = "elasticsearch" /\ a.enforced # Nil
  /\ \E m \in Matchers(a.enforced) : ReadOtherwise(m)

Loses(a, node) ==
  \E n \in Nodes(node) :
    \/ DropsMatching(a, n) \/ EmptyWithout(n) \/ ParameterLess(n) \/ SubMillisecond(n)
    \/ FiltersLines(a, n) \/ ChangesReading(a, n)

Lossy(a) ==
  \/ EnforcesOtherwise(a)
  \/ /\ a.text # None
     /\ \/ Loses(a, TreeOf(a.text))
        \/ a.door \in {"loki", "elasticsearch"} /\ Overread(a.door, a.text.lexemes)

(* The subset that parseLogQL and parseLucene promise to take.             *)
InSubset(a) ==
  /\ TreeOf(a.text) # Refused
  /\ a.door = "loki" =>
       /\ WellFormed("logql", TreeOf(a.text))
       /\ \A n \in Nodes(TreeOf(a.text)) : n.kind \in {"selector", "range", "agg"}

(* What a plan asks, read as its door does: the search door's plans are    *)
(* predicates over documents.                                              *)
PlanAsks(a, plan) ==
  IF a.door = "elasticsearch" THEN Meaning("lucene", Documents(plan.filter), Visible(a))
  ELSE PlanMeaning(plan, Visible(a))

(* The parsers of the Loki and the search door, as modules LogQL and       *)
(* Lucene have them, make of every text a plan that computes what the tree *)
(* it spells computes, and take every text of their subset.                *)
ASSUME ParsersAssumption ==
  \A a \in {a \in Asks : a.door \in {"loki", "elasticsearch"} /\ a.text \notin {None, Bad}} :
    /\ InSubset(a) => PlansFor(a) # {}
    /\ \A plan \in PlansFor(a) :
         /\ plan \in GivenPlan
         /\ ValidatePlan(plan) /\ ~ Lossy(a) => ~ Loses(a, plan) /\ PlanAsks(a, plan) = Asked(a)

TextIsRefused ==
  /\ answer # None /\ query = None
  /\ ask.door \in {"loki", "elasticsearch"} /\ ask.text # None /\ TakesParameters(ask)

(* What is shipped, run over everything the backend holds, is refused by   *)
(* the backend or computes what the client asked from the records that the *)
(* enforcement lets it see: parser, rewrite and renderer together neither  *)
(* widen, narrow nor regroup a query.  And however a query of the LogQL or *)
(* the Lucene subset is spelled, the acceptor does not refuse it.          *)
ShippedMeansAsked ==
  /\ Waiting /\ ~ Lossy(ask) =>
       Meaning(Language[ask.backend], sent.text, Storage) \in {Error, Asked(ask)}
  /\ TextIsRefused => ~ InSubset(ask)
================================================================================
