---------------------------------- MODULE Plans --------------------------------
(***************************************************************************)
(* Query plans (qdata.go): their shape, their validation, and the          *)
(* predicates that the query rewrite enforces on them.                     *)
(***************************************************************************)
EXTENDS Predicate

--------------------------------------------------------------------------------
(* The shape of a plan.  A string may be empty: what is left unset is.     *)

Line == [op : String, value : SUBSET String]
VectorMatching == [on : SUBSET String, ignoring : SUBSET String,
                   group : {"none", "left", "right"}, include : SUBSET String]
ASSUME NilMatchingAssumption == Nil \notin VectorMatching

SelectsOf(filters) ==
  [kind : {"select"}, signal : String, filter : filters, lines : Seq(Line)]

(* The plans of at most Depth levels over some Selects, by their levels;   *)
(* those of a request, and those that something was enforced on.           *)
PlansOver(below, selects) ==
  selects \cup {Literal}
  \cup [kind : {"timeAgg"}, op : String, window : Int, input : below]
  \cup [kind : {"aggregate"}, op : String, by : SUBSET String, without : SUBSET String,
        param : Int, input : below]
  \cup [kind : {"function"}, name : String, args : Seq(below)]
  \cup [kind : {"binary"}, op : String, lhs : below, rhs : below,
        matching : {Nil} \cup VectorMatching]
PlansTo(selects) ==
  LET upTo[h \in 0 .. Depth] ==
        IF h = 0 THEN {} ELSE PlansOver(upTo[h - 1], selects)
  IN  upTo

GivenPlan == PlansTo(SelectsOf(Filters))[Depth]
Plan == PlansTo(SelectsOf({Nil} \cup Predicate))[Depth]

(* One matcher stands for itself. *)
Filter(matchers) == IF Len(matchers) = 1 THEN matchers[1] ELSE Bool("AND", matchers)

--------------------------------------------------------------------------------
(* Validation: validateNode and its helpers.                               *)

ValidatePlan(plan) ==
  LET valid[n \in Plan] ==
        /\ n.kind = "select" => (n.filter # Nil => ValidatePredicate(n.filter))
        /\ n.kind = "timeAgg" => n.op # "" /\ n.window > 0 /\ valid[n.input]
        /\ n.kind = "aggregate" =>
             n.op # "" /\ (n.by = {} \/ n.without = {}) /\ valid[n.input]
        /\ n.kind = "function" =>
             n.name # "" /\ \A i \in DOMAIN n.args : valid[n.args[i]]
        /\ n.kind = "binary" => n.op # "" /\ valid[n.lhs] /\ valid[n.rhs]
  IN  valid[plan]

PlanSignals(plan) ==
  LET signals[n \in Plan] ==
        IF n.kind = "select" THEN {n.signal}
        ELSE IF n.kind \in {"timeAgg", "aggregate"} THEN signals[n.input]
        ELSE IF n.kind = "function" THEN UNION {signals[n.args[i]] : i \in DOMAIN n.args}
        ELSE IF n.kind = "binary" THEN signals[n.lhs] \cup signals[n.rhs]
        ELSE {}
  IN  signals[plan]

--------------------------------------------------------------------------------
(* Enforcement: conjoin and composeEnforcement of the query rewrite.       *)

AndOperands(p) == IF p.kind = "bool" /\ p.op = "AND" THEN p.operands ELSE <<p>>

(* A mutation: a Select that has a filter keeps it as it is. *)
FirstFilter(existing, enforcement) == IF existing = Nil THEN enforcement ELSE existing

Conjoin(existing, enforcement) ==
  IF existing = Nil THEN enforcement
  ELSE Bool("AND", AndOperands(existing) \o AndOperands(enforcement))

Composed(plan, e) ==
  LET composed[n \in Plan] ==
        IF n.kind = "select" THEN [n EXCEPT !.filter = Conjoin(@, e)]
        ELSE IF n.kind \in {"timeAgg", "aggregate"} THEN [n EXCEPT !.input = composed[@]]
        ELSE IF n.kind = "function" THEN
            [n EXCEPT !.args = [i \in DOMAIN @ |-> composed[@[i]]]]
        ELSE IF n.kind = "binary" THEN [n EXCEPT !.lhs = composed[@], !.rhs = composed[@]]
        ELSE n
  IN  composed[plan]
================================================================================
