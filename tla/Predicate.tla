------------------------------- MODULE Predicate -------------------------------
(***************************************************************************)
(* The filters of a query plan (qdata.go): trees of label matchers under   *)
(* AND, OR and NOT.                                                        *)
(***************************************************************************)
EXTENDS PlanNodes, Integers, Sequences, SequencesExt

CONSTANTS
  Depth,   (* How many levels a tree has: any bound.                       *)
  String   (* The strings: STRING, or fewer with those written here.       *)

ASSUME DepthAssumption == Depth \in Nat \ {0, 1}
ASSUME StringAssumption ==
  {"AND", "NOT", "=", "=~", "message", "message.phrases", "metrics", "logs", "-"}
    \subseteq String

(* The predicates of at most h levels.  Those of a request or of the       *)
(* configuration have up to Depth; to conjoin two of them and to render    *)
(* the result adds three.                                                  *)
Leaves == [kind : {"leaf"}, name : String, op : String, value : SUBSET String]
PredicatesOver(below) == Leaves \cup [kind : {"bool"}, op : String, operands : Seq(below)]
PredicatesTo[h \in 0 .. Depth + 3] ==
  IF h = 0 THEN {} ELSE PredicatesOver(PredicatesTo[h - 1])

Predicate == PredicatesTo[Depth + 3]
Filters == {Nil} \cup PredicatesTo[Depth]
ASSUME NilAssumption == Nil \notin Predicate

Positive(op) == op \in {"=", "=~"}
Accepts(m, text) == (text \in m.value) = Positive(m.op)

Satisfies(p, r) ==
  LET holds[q \in Predicate] ==
        CASE q.kind = "leaf" -> Accepts(q, r[q.name])
          [] q.kind = "bool" /\ q.op = "OR" -> \E i \in DOMAIN q.operands : holds[q.operands[i]]
          [] q.kind = "bool" /\ q.op = "NOT" -> \A i \in DOMAIN q.operands : ~ holds[q.operands[i]]
          [] OTHER -> \A i \in DOMAIN q.operands : holds[q.operands[i]]
  IN  holds[p]

(* What nil means in a Select: everything of the signal. *)
Passes(filter, r) == IF filter = Nil THEN TRUE ELSE Satisfies(filter, r)

ValidatePredicate(p) ==
  LET valid[q \in Predicate] ==
        q.kind # "leaf" =>
          /\ IF q.op = "NOT" THEN Len(q.operands) = 1
                             ELSE q.op \in {"AND", "OR"} /\ q.operands # <<>>
          /\ \A i \in DOMAIN q.operands : valid[q.operands[i]]
  IN  valid[p]

(* FlattenConjunction of one predicate: whether it is a conjunction of     *)
(* leaves, and which.                                                      *)
IsConjunction(p) ==
  LET flat[q \in Predicate] ==
        q.kind # "leaf" => q.op = "AND" /\ \A i \in DOMAIN q.operands : flat[q.operands[i]]
  IN  flat[p]
Conjuncts(p) ==
  LET leaves[q \in Predicate] ==
        IF q.kind = "leaf" THEN <<q>>
        ELSE FlattenSeq([i \in DOMAIN q.operands |-> leaves[q.operands[i]]])
  IN  leaves[p]
================================================================================
