----------------------------- MODULE MCQueryPath -------------------------------
(* Configurations and requests of QueryPath for TLC. *)
EXTENDS QueryPath

(* Processors.  "org", "user" and "auth" are the headers that the tenant,  *)
(* the subject and the bearer token come from.                             *)
TenantProc(default, required, label) ==
  [kind |-> "tenant", header |-> "org", default |-> default,
   required |-> required, label |-> label]
LimitProc(bearer, limited, perTenant) ==
  [kind |-> "limit", bearer |-> bearer, limited |-> limited, perTenant |-> perTenant]
Rewrite(labels) == [kind |-> "rewrite", labels |-> labels]
Filter(drop, mask) == [kind |-> "filter", drop |-> drop, mask |-> mask]
ByTenant == [name |-> "tenant_id", value |-> None, fromTenant |-> TRUE]
Namespace == [name |-> "namespace", value |-> "team-a", fromTenant |-> FALSE]

(* The policy of src/config.yaml with a denied subject: the admin sees     *)
(* everything, alice her namespace, mallory nothing, others their tenant.  *)
Rule(subjects, allow, labels) == [subjects |-> subjects, allow |-> allow, labels |-> labels]
Policy(fromTenant, required) ==
  [kind |-> "authz", header |-> "user", fromTenant |-> fromTenant, default |-> None,
   required |-> required, allow |-> FALSE,
   rules |-> << Rule({"alice"}, TRUE, {Namespace}), Rule({"mallory"}, FALSE, {}),
                Rule({}, TRUE, {ByTenant}) >>]
TenantPolicy ==
  [kind |-> "authz", header |-> "user", fromTenant |-> TRUE, default |-> None,
   required |-> TRUE, allow |-> FALSE, rules |-> << Rule({"acme", "evil"}, TRUE, {ByTenant}) >>]

(* The chain of src/config.yaml, and chains that differ from it where the  *)
(* hazards are: no tenant processor at all, and nothing in front.          *)
Standard == << TenantProc("anonymous", FALSE, "tenant_id"), LimitProc(TRUE, TRUE, TRUE),
               Policy(FALSE, FALSE), Rewrite({ByTenant}), Filter({"secret"}, {"email"}) >>
Optional == << TenantProc(None, FALSE, None), LimitProc(FALSE, TRUE, FALSE),
               Policy(FALSE, TRUE), Rewrite({}) >>
Tenantless == << TenantPolicy, Rewrite({}) >>

(* The chains of the pipelines behind the connector. *)
Masking == << Rewrite({Namespace}), Filter({}, {"secret"}) >>
Gated == << LimitProc(TRUE, TRUE, TRUE), Policy(FALSE, TRUE), Rewrite({}) >>
Isolating == << TenantProc(None, TRUE, "tenant_id"), Rewrite({}), Filter({"secret"}, {}) >>

Configuration(entry, front, metrics, logs, targets) ==
  [entry |-> entry, targets |-> targets,
   procs |-> [front |-> front, metrics |-> metrics, logs |-> logs]]

Configurations ==
  {Configuration("front", f, l, r, Signal) :
     f \in {Standard, Optional, <<>>}, l \in {Masking, Gated, Isolating}, r \in {<<>>, Masking, Gated}}
  \cup {Configuration("front", Standard, <<>>, <<>>, {"metrics"}),
        Configuration("metrics", Standard, Standard, <<>>, {}),
        Configuration("metrics", <<>>, Tenantless, <<>>, {})}

(* The filter in front only; the policy in front and the rewrite it needs  *)
(* behind the connector; and a second tenant processor, with a default of  *)
(* its own, in front of one storage.                                       *)
FilterInFront == {Configuration("front", Standard, <<>>, <<>>, Signal)}
RewriteBehind ==
  {Configuration("front", << TenantProc("anonymous", FALSE, None), Policy(FALSE, FALSE) >>,
                 << Rewrite({}) >>, << Rewrite({}) >>, Signal)}
TenantBehind ==
  {Configuration("front", Standard, << TenantProc("shared", FALSE, None) >>, <<>>, Signal)}

(* Requests. *)
PlanOf(op, lhs, rhs) ==
  [given |-> TRUE, valid |-> TRUE, op |-> op, lhs |-> lhs, rhs |-> rhs,
   on |-> {}, ignoring |-> {}]
Plans ==
  { PlanOf("none", {"metrics"}, {}), PlanOf("and", {"metrics"}, {"metrics"}),
    PlanOf("and", {"metrics"}, {"logs"}), PlanOf("unless", {"logs"}, {"metrics"}),
    [PlanOf("and", {"logs"}, {"metrics"}) EXCEPT !.on = {"id"}],
    [PlanOf("and", {"metrics"}, {"logs"}) EXCEPT !.ignoring = {"secret", "email"}],
    PlanOf("and", {"metrics"}, {"metrics", "logs"}), PlanOf("other", {"metrics"}, {"logs"}),
    PlanOf("none", {}, {}), [PlanOf("none", {}, {}) EXCEPT !.given = FALSE],
    [PlanOf("none", {"logs"}, {}) EXCEPT !.valid = FALSE] }

(* The message claims another tenant and subject, in fields and as headers *)
(* in two spellings, and a token.                                          *)
Claims ==
  [key \in HeaderKey \ {[name |-> "auth", spelling |-> "transport"]} |->
     CASE key.name = "org" -> "evil" [] key.name = "user" -> "alice" [] OTHER -> "token"]
Body == [headers |-> Claims,
         map |-> [tenant |-> "evil", subject |-> "evil"],
         enforced |-> {Matcher("tenant_id", "evil")}]
Requests ==
  {[header |-> [org |-> org, user |-> user, auth |-> auth], body |-> Body, plan |-> plan] :
     org \in {"acme", None}, user \in {"alice", "mallory", "bob", None},
     auth \in {"token", None}, plan \in Plans}
================================================================================
