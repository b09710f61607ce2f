------------------------------ MODULE Processors -------------------------------
(***************************************************************************)
(* What each processor does to a query or a result, as operators on the    *)
(* values QueryPath keeps in its state.                                    *)
(*                                                                         *)
(* A processor instance is a record with the field kind and its settings:  *)
(*   tenant   header, default, required, label (enforce_label)             *)
(*   limit    bearer (require_bearer), limited (requests_per_second > 0),  *)
(*            perTenant                                                    *)
(*   authz    header, fromTenant, default, required, rules, allow          *)
(*            (default_effect = allow); a rule is [subjects, allow, labels]*)
(*   rewrite  labels                                                       *)
(*   filter   drop, mask                                                   *)
(* A label to enforce is [name, value, fromTenant].  A matcher is a name   *)
(* with the value it must equal.  The lists of enforced matchers and the   *)
(* AND-ed conjuncts of a Select are sets here: order and repetition do not *)
(* change what a conjunction selects.                                      *)
(***************************************************************************)
EXTENDS Naturals, Sequences, FiniteSets

CONSTANT None   (* The empty string: no header, no tenant, no subject. *)

Matcher(name, value) == [name |-> name, value |-> value]

OrDefault(value, default) == IF value # None THEN value ELSE default

(* The value of a label to enforce, for a query of this tenant, and        *)
(* whether it has none because the tenant did not resolve.                 *)
LabelMatcher(label, tenant) ==
  Matcher(label.name, IF label.fromTenant THEN tenant ELSE label.value)
Unresolved(labels, tenant) == tenant = None /\ \E l \in labels : l.fromTenant
LabelMatchers(labels, tenant) == {LabelMatcher(l, tenant) : l \in labels}

--------------------------------------------------------------------------------
(* tenantprocessor *)

(* Only the transport header counts, never a tenant already in the query.  *)
ResolvedTenant(p, header) == OrDefault(header[p.header], p.default)

TenantRefuses(p, header) ==
  ResolvedTenant(p, header) = None /\ (p.required \/ p.label # None)

TenantMatchers(p, header) ==
  IF p.label = None THEN {} ELSE {Matcher(p.label, ResolvedTenant(p, header))}

--------------------------------------------------------------------------------
(* authratelimitprocessor *)

LimitUnauthenticated(p, header, tenant) ==
  \/ p.bearer /\ header["auth"] = None
  \/ p.limited /\ p.perTenant /\ tenant = None

(* The key of the bucket that the request is charged to. *)
LimitKey(p, tenant) == IF p.perTenant THEN tenant ELSE "global"

--------------------------------------------------------------------------------
(* simpleauthzprocessor *)

ResolvedSubject(p, header, tenant) ==
  OrDefault(IF p.fromTenant THEN tenant ELSE header[p.header], p.default)

(* The rules that name the subject; a rule without subjects names anyone.  *)
Matching(p, subject) ==
  {i \in DOMAIN p.rules : p.rules[i].subjects = {} \/ subject \in p.rules[i].subjects}

(* The rule that decides, if any: the first of them. *)
Decides(p, subject, i) ==
  i \in Matching(p, subject) /\ \A j \in Matching(p, subject) : i <= j

(* The labels of the rule that allows the subject, {} if the default does. *)
Scope(p, subject) ==
  UNION {p.rules[i].labels : i \in {j \in DOMAIN p.rules : Decides(p, subject, j)}}

(* A mutation: any rule that names the subject may allow it. *)
AnyRuleAllows(p, subject) ==
  IF Matching(p, subject) = {} THEN p.allow
  ELSE \E i \in Matching(p, subject) : p.rules[i].allow

Allows(p, subject) ==
  IF Matching(p, subject) = {} THEN p.allow
  ELSE \E i \in DOMAIN p.rules : Decides(p, subject, i) /\ p.rules[i].allow

AuthzRefuses(p, header, tenant) ==
  LET subject == ResolvedSubject(p, header, tenant)
  IN  \/ subject = None /\ p.required
      \/ ~Allows(p, subject)
      \/ Unresolved(Scope(p, subject), tenant)

--------------------------------------------------------------------------------
(* responsefilterprocessor *)

(* A result is its columns, declared by a table and else those of its      *)
(* attributes, and its cells.  A column is a label with the prefix a join  *)
(* may have given it; a cell is a column that some row or series carries,  *)
(* the value it shows, and (for the properties) the storage it comes from. *)
Column(prefix, label) == [prefix |-> prefix, label |-> label]
Plain(label) == Column("", label)

Masked(p, cell) ==
  IF cell.column \in {Plain(l) : l \in p.mask} THEN [cell EXCEPT !.value = "masked"] ELSE cell

(* A mutation: a table's rows pass unscrubbed, as before issue #66. *)
ScrubbedSignalsOnly(p, result) ==
  IF result.table THEN result
  ELSE [result EXCEPT
          !.columns = @ \ {Plain(l) : l \in p.drop},
          !.cells = {Masked(p, c) : c \in {d \in @ : d.column \notin {Plain(l) : l \in p.drop}}}]

Scrubbed(p, result) ==
  LET dropped == {Plain(l) : l \in p.drop}
  IN  [result EXCEPT
         !.columns = @ \ dropped,
         !.cells   = {Masked(p, c) : c \in {d \in @ : d.column \notin dropped}}]
================================================================================
