------------------------------- MODULE Components -------------------------------
(***************************************************************************)
(* The vocabulary that the parts of a distribution share: component types  *)
(* and ids, and for each component of the repository the zero value of its *)
(* Config, what its factory sets before the file is decoded, and what New  *)
(* makes of the result. Settings pass through two layers of defaults, the  *)
(* factory's and New's, and only two factories validate what they are      *)
(* given.                                                                  *)
(*                                                                         *)
(* A Config is a record of its keys. Durations are seconds, rates halves   *)
(* of a query per second. A rule of simpleauthz is [effect, names]: its    *)
(* effect and the names of the labels that it enforces.                    *)
(***************************************************************************)
EXTENDS Integers, Sequences, FiniteSets

(* Fields that are zero fall back; the others keep their value.            *)
Fallback(cfg, zero, defaults) ==
  [k \in DOMAIN cfg |-> IF k \in DOMAIN defaults /\ cfg[k] = zero[k] THEN defaults[k] ELSE cfg[k]]

(***************************************************************************)
(* Types and ids. A spelling is [typ, name, slash, padded]: what stands    *)
(* before and after the first slash, whether there is one, and whether     *)
(* blanks surround the parts. The type names that are not WellFormed break *)
(* the rule ^[a-z][a-z0-9_]*$.                                             *)
(***************************************************************************)
WellFormed == {"otqp", "prometheus", "loki", "elasticsearch", "authratelimit", "tenant",
               "simpleauthz", "queryrewrite", "responsefilter", "crosssignal"}

NewTypeRefuses(name) == name \notin WellFormed

UnmarshalRefuses(s) ==
  \/ s.typ = ""
  \/ NewTypeRefuses(s.typ)
  \/ s.slash /\ s.name = ""

UnmarshalText(s) == [type |-> s.typ, name |-> IF s.slash THEN s.name ELSE ""]

(***************************************************************************)
(* The acceptors. An empty endpoint is the default one, but of otqp's two  *)
(* only when both are empty: one of them alone switches its listener off.  *)
(***************************************************************************)
OTQPConfig == [grpc_endpoint |-> "", http_endpoint |-> ""]
OTQPAcceptor ==
  [section |-> "acceptors", type |-> "otqp", zero |-> OTQPConfig,
   default |-> [grpc_endpoint |-> "0.0.0.0:4327", http_endpoint |-> "0.0.0.0:4328"]]
NewOTQPAcceptor(cfg) ==
  IF cfg = OTQPConfig
  THEN [grpc_endpoint |-> "0.0.0.0:4327", http_endpoint |-> "0.0.0.0:4328"]
  ELSE cfg

DoorConfig == [endpoint |-> ""]
PrometheusAcceptor ==
  [section |-> "acceptors", type |-> "prometheus", zero |-> DoorConfig,
   default |-> [endpoint |-> "0.0.0.0:9090"]]
NewPrometheusAcceptor(cfg) == Fallback(cfg, DoorConfig, [endpoint |-> "0.0.0.0:9090"])

LokiAcceptor ==
  [section |-> "acceptors", type |-> "loki", zero |-> DoorConfig,
   default |-> [endpoint |-> "0.0.0.0:3100"]]
NewLokiAcceptor(cfg) == Fallback(cfg, DoorConfig, [endpoint |-> "0.0.0.0:3100"])

ElasticsearchAcceptor ==
  [section |-> "acceptors", type |-> "elasticsearch", zero |-> DoorConfig,
   default |-> [endpoint |-> "0.0.0.0:9200"]]
NewElasticsearchAcceptor(cfg) == Fallback(cfg, DoorConfig, [endpoint |-> "0.0.0.0:9200"])

(***************************************************************************)
(* The processors.                                                         *)
(***************************************************************************)
LimitConfig ==
  [require_bearer |-> FALSE, tokens |-> {}, requests_per_second |-> 0, burst |-> 0,
   per_tenant |-> FALSE, max_keys |-> 0]
AuthRateLimit ==
  [section |-> "processors", type |-> "authratelimit", zero |-> LimitConfig, default |-> LimitConfig]

(* A rate that is not positive makes no limiter at all, whatever the burst *)
(* and the cap; a missing burst is the rate rounded up, and at least 1.    *)
Ceil(halves) == (halves + 1) \div 2
NewAuthRateLimit(cfg) ==
  LET burst == IF cfg.burst > 0 THEN cfg.burst
               ELSE IF Ceil(cfg.requests_per_second) > 1 THEN Ceil(cfg.requests_per_second) ELSE 1
      keys == IF cfg.max_keys > 0 THEN cfg.max_keys ELSE 10000
  IN [require_bearer |-> cfg.require_bearer, tokens |-> cfg.tokens, per_tenant |-> cfg.per_tenant,
      limiter |-> IF cfg.requests_per_second > 0
                  THEN <<cfg.requests_per_second, burst, keys>> ELSE <<>>]

TenantConfig == [header |-> "", default |-> "", required |-> FALSE, enforce_label |-> ""]
TenantProcessor ==
  [section |-> "processors", type |-> "tenant", zero |-> TenantConfig,
   default |-> [TenantConfig EXCEPT !.header = "X-Scope-OrgID"]]
NewTenant(cfg) == Fallback(cfg, TenantConfig, [header |-> "X-Scope-OrgID"])

AuthzConfig ==
  [subject_header |-> "", from_tenant |-> FALSE, default_subject |-> "", required |-> FALSE,
   default_effect |-> "", rules |-> <<>>]
SimpleAuthz ==
  [section |-> "processors", type |-> "simpleauthz", zero |-> AuthzConfig,
   default |-> [AuthzConfig EXCEPT !.subject_header = "X-Scope-User", !.default_effect = "deny"]]
NewSimpleAuthz(cfg) ==
  Fallback(cfg, AuthzConfig, [subject_header |-> "X-Scope-User", default_effect |-> "deny"])

KnownEffect(effect) == effect \in {"", "allow", "deny"}
AuthzValidates(cfg) ==
  /\ KnownEffect(cfg.default_effect)
  /\ \A i \in DOMAIN cfg.rules :
       KnownEffect(cfg.rules[i].effect) /\ "" \notin cfg.rules[i].names

RewriteConfig == [enforce_labels |-> <<>>]
QueryRewrite ==
  [section |-> "processors", type |-> "queryrewrite", zero |-> RewriteConfig, default |-> RewriteConfig]

FilterConfig ==
  [drop_labels |-> {}, mask_labels |-> {}, mask_with |-> "", warn_counter_without_rate |-> FALSE]
ResponseFilter ==
  [section |-> "processors", type |-> "responsefilter", zero |-> FilterConfig,
   default |-> [FilterConfig EXCEPT !.mask_with = "***"]]
NewResponseFilter(cfg) == Fallback(cfg, FilterConfig, [mask_with |-> "***"])

(***************************************************************************)
(* The dispatchers and the connector. prometheus's New leaves an endpoint  *)
(* that the file empties empty.                                            *)
(***************************************************************************)
PrometheusConfig == [endpoint |-> "", tenant_header |-> "", timeout |-> 0]
PrometheusDispatcher ==
  [section |-> "dispatchers", type |-> "prometheus", zero |-> PrometheusConfig,
   default |-> [endpoint |-> "http://localhost:9090", tenant_header |-> "X-Scope-OrgID", timeout |-> 30]]
NewPrometheus(cfg) == Fallback(cfg, PrometheusConfig, [tenant_header |-> "X-Scope-OrgID", timeout |-> 30])

LokiConfig == [endpoint |-> "", tenant_header |-> "", timeout |-> 0, limit |-> 0, direction |-> ""]
LokiFallback ==
  [endpoint |-> "http://localhost:3100", tenant_header |-> "X-Scope-OrgID", timeout |-> 30,
   limit |-> 100, direction |-> "backward"]
LokiDispatcher ==
  [section |-> "dispatchers", type |-> "loki", zero |-> LokiConfig, default |-> LokiFallback]
NewLoki(cfg) == Fallback(cfg, LokiConfig, LokiFallback)
LokiValidates(cfg) == cfg.direction \in {"", "forward", "backward"} /\ cfg.limit >= 0

ElasticsearchConfig ==
  [endpoint |-> "", index |-> "", time_field |-> "", size |-> 0, timeout |-> 0,
   username |-> "", password |-> ""]
ElasticsearchFallback ==
  [endpoint |-> "http://localhost:9200", index |-> "_all", time_field |-> "@timestamp",
   size |-> 100, timeout |-> 30]
ElasticsearchDispatcher ==
  [section |-> "dispatchers", type |-> "elasticsearch", zero |-> ElasticsearchConfig,
   default |-> Fallback(ElasticsearchConfig, ElasticsearchConfig, ElasticsearchFallback)]
NewElasticsearch(cfg) == Fallback(cfg, ElasticsearchConfig, ElasticsearchFallback)

NoConfig == <<>>
CrossSignal ==
  [section |-> "connectors", type |-> "crosssignal", zero |-> NoConfig, default |-> NoConfig]

(***************************************************************************)
(* From the file to a component.                                           *)
(***************************************************************************)

(* decodeStrict: keys that the Config does not have are refused, those     *)
(* that the file leaves out keep their default.                            *)
Decodes(factory, raw) == DOMAIN raw \subseteq DOMAIN factory.default
Decoded(factory, raw) ==
  [k \in DOMAIN factory.default |-> IF k \in DOMAIN raw THEN raw[k] ELSE factory.default[k]]

Is(factory, other) == factory.section = other.section /\ factory.type = other.type

Validates(factory, cfg) ==
  CASE Is(factory, SimpleAuthz)    -> AuthzValidates(cfg)
    [] Is(factory, LokiDispatcher) -> LokiValidates(cfg)
    [] OTHER                       -> TRUE

New(factory, cfg) ==
  CASE Is(factory, OTQPAcceptor)            -> NewOTQPAcceptor(cfg)
    [] Is(factory, PrometheusAcceptor)      -> NewPrometheusAcceptor(cfg)
    [] Is(factory, LokiAcceptor)            -> NewLokiAcceptor(cfg)
    [] Is(factory, ElasticsearchAcceptor)   -> NewElasticsearchAcceptor(cfg)
    [] Is(factory, AuthRateLimit)           -> NewAuthRateLimit(cfg)
    [] Is(factory, TenantProcessor)         -> NewTenant(cfg)
    [] Is(factory, SimpleAuthz)             -> NewSimpleAuthz(cfg)
    [] Is(factory, ResponseFilter)          -> NewResponseFilter(cfg)
    [] Is(factory, PrometheusDispatcher)    -> NewPrometheus(cfg)
    [] Is(factory, LokiDispatcher)          -> NewLoki(cfg)
    [] Is(factory, ElasticsearchDispatcher) -> NewElasticsearch(cfg)
    [] OTHER                             -> cfg
================================================================================
