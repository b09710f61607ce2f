------------------------------- MODULE PlanNodes -------------------------------
(***************************************************************************)
(* The nodes of a query plan (qdata.go): its filters, trees of label       *)
(* matchers under AND, OR and NOT, and the tree of its computations.       *)
(***************************************************************************)

CONSTANT Nil  (* The nil pointer. *)

(* Predicates.  A matcher's value is the set of texts its pattern accepts, *)
(* a singleton for "=" and "!=".  An absent label is the empty text.       *)

Leaf(name, op, value) == [kind |-> "leaf", name |-> name, op |-> op, value |-> value]
Bool(op, operands) == [kind |-> "bool", op |-> op, operands |-> operands]

Select(signal, filter, lines) ==
  [kind |-> "select", signal |-> signal, filter |-> filter, lines |-> lines]
TimeAgg(op, window, input) ==
  [kind |-> "timeAgg", op |-> op, window |-> window, input |-> input]
Aggregate(op, by, without, param, input) ==
  [kind |-> "aggregate", op |-> op, by |-> by, without |-> without,
   param |-> param, input |-> input]
Function(name, args) == [kind |-> "function", name |-> name, args |-> args]
Binary(op, lhs, rhs, matching) ==
  [kind |-> "binary", op |-> op, lhs |-> lhs, rhs |-> rhs, matching |-> matching]
Literal == [kind |-> "literal"]
================================================================================
