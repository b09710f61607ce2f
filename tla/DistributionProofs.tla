--------------------------- MODULE DistributionProofs ---------------------------
(***************************************************************************)
(* Proofs about Distribution, for every set of manifests, packages and     *)
(* configurations and any number of runs of the builder: what runs is what *)
(* a manifest selected, and settings follow the file.                      *)
(***************************************************************************)
EXTENDS Distribution, FunctionTheorems, ProofBasics

--------------------------------------------------------------------------------
(* The components of the repository.                                       *)

OwnFactories ==
  {OTQPAcceptor, PrometheusAcceptor, LokiAcceptor, ElasticsearchAcceptor, AuthRateLimit,
   TenantProcessor, SimpleAuthz, QueryRewrite, ResponseFilter, PrometheusDispatcher,
   LokiDispatcher, ElasticsearchDispatcher, CrossSignal}

(* What tells the repository's factories apart.                            *)
LEMMA OwnTypes ==
  /\ OTQPAcceptor.section = "acceptors" /\ OTQPAcceptor.type = "otqp"
  /\ PrometheusAcceptor.section = "acceptors" /\ PrometheusAcceptor.type = "prometheus"
  /\ LokiAcceptor.section = "acceptors" /\ LokiAcceptor.type = "loki"
  /\ ElasticsearchAcceptor.section = "acceptors" /\ ElasticsearchAcceptor.type = "elasticsearch"
  /\ AuthRateLimit.section = "processors" /\ AuthRateLimit.type = "authratelimit"
  /\ TenantProcessor.section = "processors" /\ TenantProcessor.type = "tenant"
  /\ SimpleAuthz.section = "processors" /\ SimpleAuthz.type = "simpleauthz"
  /\ QueryRewrite.section = "processors" /\ QueryRewrite.type = "queryrewrite"
  /\ ResponseFilter.section = "processors" /\ ResponseFilter.type = "responsefilter"
  /\ PrometheusDispatcher.section = "dispatchers" /\ PrometheusDispatcher.type = "prometheus"
  /\ LokiDispatcher.section = "dispatchers" /\ LokiDispatcher.type = "loki"
  /\ ElasticsearchDispatcher.section = "dispatchers" /\ ElasticsearchDispatcher.type = "elasticsearch"
  /\ CrossSignal.section = "connectors" /\ CrossSignal.type = "crosssignal"
<1>1. OTQPAcceptor.section = "acceptors" /\ OTQPAcceptor.type = "otqp"
  BY DEF OTQPAcceptor
<1>2. PrometheusAcceptor.section = "acceptors" /\ PrometheusAcceptor.type = "prometheus"
  BY DEF PrometheusAcceptor
<1>3. LokiAcceptor.section = "acceptors" /\ LokiAcceptor.type = "loki"
  BY DEF LokiAcceptor
<1>4. ElasticsearchAcceptor.section = "acceptors" /\ ElasticsearchAcceptor.type = "elasticsearch"
  BY DEF ElasticsearchAcceptor
<1>5. AuthRateLimit.section = "processors" /\ AuthRateLimit.type = "authratelimit"
  BY DEF AuthRateLimit
<1>6. TenantProcessor.section = "processors" /\ TenantProcessor.type = "tenant"
  BY DEF TenantProcessor
<1>7. SimpleAuthz.section = "processors" /\ SimpleAuthz.type = "simpleauthz"
  BY DEF SimpleAuthz
<1>8. QueryRewrite.section = "processors" /\ QueryRewrite.type = "queryrewrite"
  BY DEF QueryRewrite
<1>9. ResponseFilter.section = "processors" /\ ResponseFilter.type = "responsefilter"
  BY DEF ResponseFilter
<1>10. PrometheusDispatcher.section = "dispatchers" /\ PrometheusDispatcher.type = "prometheus"
  BY DEF PrometheusDispatcher
<1>11. LokiDispatcher.section = "dispatchers" /\ LokiDispatcher.type = "loki"
  BY DEF LokiDispatcher
<1>12. ElasticsearchDispatcher.section = "dispatchers" /\ ElasticsearchDispatcher.type = "elasticsearch"
  BY DEF ElasticsearchDispatcher
<1>13. CrossSignal.section = "connectors" /\ CrossSignal.type = "crosssignal"
  BY DEF CrossSignal
<1>14. QED
  BY <1>1, <1>2, <1>3, <1>4, <1>5, <1>6, <1>7, <1>8, <1>9, <1>10, <1>11, <1>12, <1>13

(* Two of them of one section and one type are the same.                   *)
LEMMA OwnAreDistinct ==
  ASSUME NEW f \in OwnFactories, NEW g \in OwnFactories, Is(f, g)
  PROVE  f = g
BY OwnTypes DEF OwnFactories, Is

(* The New that each of them has.                                          *)
LEMMA OwnNew ==
  ASSUME NEW cfg
  PROVE  /\ New(OTQPAcceptor, cfg) = NewOTQPAcceptor(cfg)
         /\ New(PrometheusAcceptor, cfg) = NewPrometheusAcceptor(cfg)
         /\ New(LokiAcceptor, cfg) = NewLokiAcceptor(cfg)
         /\ New(ElasticsearchAcceptor, cfg) = NewElasticsearchAcceptor(cfg)
         /\ New(AuthRateLimit, cfg) = NewAuthRateLimit(cfg)
         /\ New(TenantProcessor, cfg) = NewTenant(cfg)
         /\ New(SimpleAuthz, cfg) = NewSimpleAuthz(cfg)
         /\ New(QueryRewrite, cfg) = cfg
         /\ New(ResponseFilter, cfg) = NewResponseFilter(cfg)
         /\ New(PrometheusDispatcher, cfg) = NewPrometheus(cfg)
         /\ New(LokiDispatcher, cfg) = NewLoki(cfg)
         /\ New(ElasticsearchDispatcher, cfg) = NewElasticsearch(cfg)
         /\ New(CrossSignal, cfg) = cfg
BY OwnTypes DEF New, Is

(* The keys of a file's entry that count.                                  *)
Counting(zero, mattering, raw) == {k \in DOMAIN raw : raw[k] # zero[k] \/ k \in mattering}
Endpoints == {"endpoint", "grpc_endpoint", "http_endpoint"}
Mattering(f) == IF Is(f, OTQPAcceptor) \/ Is(f, PrometheusDispatcher) THEN Endpoints ELSE {}

(* Two entries agree where they count.                                     *)
Agree(zero, mattering, raw, other) ==
  /\ Counting(zero, mattering, raw) = Counting(zero, mattering, other)
  /\ \A k \in Counting(zero, mattering, raw) : raw[k] = other[k]

Overlaid(default, raw) == [k \in DOMAIN default |-> IF k \in DOMAIN raw THEN raw[k] ELSE default[k]]

(* Of a setting that the file may leave out, the two layers of defaults    *)
(* make the same as of one that it leaves empty.                           *)
Layered(zero, default, defaults, mattering) ==
  \A k \in DOMAIN default :
    /\ k \in mattering => k \notin DOMAIN defaults
    /\ \/ k \in mattering
       \/ default[k] = zero[k]
       \/ k \in DOMAIN defaults /\ default[k] = defaults[k]

(* With such layers, entries that agree make the same component.           *)
LEMMA LayersAgree ==
  ASSUME NEW zero, NEW default, NEW defaults, NEW mattering, NEW raw, NEW other,
         DOMAIN raw \subseteq DOMAIN default, DOMAIN other \subseteq DOMAIN default,
         Layered(zero, default, defaults, mattering), Agree(zero, mattering, raw, other)
  PROVE  Fallback(Overlaid(default, raw), zero, defaults)
         = Fallback(Overlaid(default, other), zero, defaults)
<1> DEFINE At(r, k) == IF k \in DOMAIN r THEN r[k] ELSE default[k]
           Out(r, k) == IF k \in DOMAIN defaults /\ At(r, k) = zero[k] THEN defaults[k] ELSE At(r, k)
<1>1. ASSUME NEW k \in DOMAIN default PROVE Out(raw, k) = Out(other, k)
  <2>1. CASE k \in Counting(zero, mattering, raw)
    BY <2>1 DEF Agree, Counting
  <2>2. CASE k \notin Counting(zero, mattering, raw)
    <3>1. k \notin Counting(zero, mattering, other)
      BY <2>2 DEF Agree
    <3>2. (k \in DOMAIN raw => raw[k] = zero[k]) /\ (k \in DOMAIN other => other[k] = zero[k])
      BY <2>2, <3>1 DEF Counting
    <3>3. CASE k \in mattering
      BY <2>2, <3>1, <3>3 DEF Counting
    <3>4. CASE k \notin mattering
      BY <3>2, <3>4 DEF Layered
    <3>5. QED BY <3>3, <3>4
  <2>3. QED BY <2>1, <2>2
<1>2. ASSUME NEW r
      PROVE  Fallback(Overlaid(default, r), zero, defaults) = [k \in DOMAIN default |-> Out(r, k)]
  BY DEF Fallback, Overlaid
<1> HIDE DEF Out
<1>3. QED BY <1>1, <1>2

(* What an entry sets and is not empty is what the component has.          *)
LEMMA LayersKeep ==
  ASSUME NEW zero, NEW default, NEW defaults, NEW raw,
         DOMAIN raw \subseteq DOMAIN default, NEW k \in DOMAIN raw, raw[k] # zero[k]
  PROVE  Fallback(Overlaid(default, raw), zero, defaults)[k] = raw[k]
BY DEF Fallback, Overlaid

(* The same of the repository's factories, one by one.                     *)
LEMMA OwnAgree ==
  ASSUME NEW f \in OwnFactories, NEW raw, NEW other, Decodes(f, raw), Decodes(f, other),
         Agree(f.zero, Mattering(f), raw, other)
  PROVE  New(f, Decoded(f, raw)) = New(f, Decoded(f, other))
<1> DEFINE d == f.default
<1>1. DOMAIN raw \subseteq DOMAIN d /\ DOMAIN other \subseteq DOMAIN d
  BY DEF Decodes
<1>2. Decoded(f, raw) = Overlaid(d, raw) /\ Decoded(f, other) = Overlaid(d, other)
  BY DEF Decoded, Overlaid
<1>3. ASSUME NEW defaults, Layered(f.zero, d, defaults, Mattering(f)),
             \A cfg : New(f, cfg) = Fallback(cfg, f.zero, defaults)
      PROVE  New(f, Decoded(f, raw)) = New(f, Decoded(f, other))
  BY <1>1, <1>2, <1>3, LayersAgree
<1>4. ASSUME Layered(f.zero, d, [k \in {} |-> k], Mattering(f))
      PROVE  Decoded(f, raw) = Decoded(f, other)
  <2> DEFINE none == [k \in {} |-> k]
  <2>1. ASSUME NEW r PROVE Fallback(Overlaid(d, r), f.zero, none) = Overlaid(d, r)
    BY DEF Fallback, Overlaid
  <2>2. Fallback(Overlaid(d, raw), f.zero, none) = Fallback(Overlaid(d, other), f.zero, none)
    BY <1>1, <1>4, LayersAgree
  <2>3. QED BY <1>2, <2>1, <2>2
<1>5. CASE f = OTQPAcceptor
  <2>1. Mattering(f) = Endpoints
    BY <1>5 DEF Mattering, Is
  <2>2. DOMAIN d \subseteq Endpoints
    BY <1>5 DEF OTQPAcceptor, Endpoints
  <2>3. Layered(f.zero, d, [k \in {} |-> k], Mattering(f))
    BY <2>1, <2>2 DEF Layered
  <2>4. QED BY <1>4, <2>3
<1>6. CASE f = PrometheusAcceptor
  <2> DEFINE defaults == [endpoint |-> "0.0.0.0:9090"]
  <2>1. Layered(f.zero, d, defaults, Mattering(f))
    BY <1>6, OwnTypes DEF Layered, Mattering, Is, PrometheusAcceptor, DoorConfig
  <2>2. \A cfg : New(f, cfg) = Fallback(cfg, f.zero, defaults)
    BY <1>6, OwnNew DEF NewPrometheusAcceptor, PrometheusAcceptor
  <2>3. QED BY <1>3, <2>1, <2>2
<1>7. CASE f = LokiAcceptor
  <2> DEFINE defaults == [endpoint |-> "0.0.0.0:3100"]
  <2>1. Layered(f.zero, d, defaults, Mattering(f))
    BY <1>7, OwnTypes DEF Layered, Mattering, Is, LokiAcceptor, DoorConfig
  <2>2. \A cfg : New(f, cfg) = Fallback(cfg, f.zero, defaults)
    BY <1>7, OwnNew DEF NewLokiAcceptor, LokiAcceptor
  <2>3. QED BY <1>3, <2>1, <2>2
<1>8. CASE f = ElasticsearchAcceptor
  <2> DEFINE defaults == [endpoint |-> "0.0.0.0:9200"]
  <2>1. Layered(f.zero, d, defaults, Mattering(f))
    BY <1>8, OwnTypes DEF Layered, Mattering, Is, ElasticsearchAcceptor, DoorConfig
  <2>2. \A cfg : New(f, cfg) = Fallback(cfg, f.zero, defaults)
    BY <1>8, OwnNew DEF NewElasticsearchAcceptor, ElasticsearchAcceptor
  <2>3. QED BY <1>3, <2>1, <2>2
<1>9. CASE f \in {AuthRateLimit, QueryRewrite, CrossSignal}
  <2>1. f.zero = d
    BY <1>9 DEF AuthRateLimit, QueryRewrite, CrossSignal
  <2>2. Mattering(f) = {}
    BY <1>9, OwnTypes DEF Mattering, Is
  <2>3. Layered(f.zero, d, [k \in {} |-> k], Mattering(f))
    BY <2>1, <2>2 DEF Layered
  <2>4. QED BY <1>4, <2>3
<1>10. CASE f = TenantProcessor
  <2> DEFINE defaults == [header |-> "X-Scope-OrgID"]
  <2>1. Layered(f.zero, d, defaults, Mattering(f))
    <3>1. Mattering(f) = {}
      BY <1>10, OwnTypes DEF Mattering, Is
    <3>2. f.zero = TenantConfig /\ DOMAIN d = DOMAIN TenantConfig
      BY <1>10 DEF TenantProcessor
    <3>3. d.header = defaults.header
      BY <1>10 DEF TenantProcessor, TenantConfig
    <3>4. \A k \in DOMAIN d \ DOMAIN defaults : d[k] = TenantConfig[k]
      BY <1>10 DEF TenantProcessor, TenantConfig
    <3>5. DOMAIN defaults = {"header"}
      OBVIOUS
    <3>6. QED BY <3>1, <3>2, <3>3, <3>4, <3>5 DEF Layered
  <2>2. \A cfg : New(f, cfg) = Fallback(cfg, f.zero, defaults)
    BY <1>10, OwnNew DEF NewTenant, TenantProcessor
  <2>3. QED BY <1>3, <2>1, <2>2
<1>11. CASE f = SimpleAuthz
  <2> DEFINE defaults == [subject_header |-> "X-Scope-User", default_effect |-> "deny"]
  <2>1. Layered(f.zero, d, defaults, Mattering(f))
    <3>1. Mattering(f) = {}
      BY <1>11, OwnTypes DEF Mattering, Is
    <3>2. f.zero = AuthzConfig /\ DOMAIN d = DOMAIN AuthzConfig
      BY <1>11 DEF SimpleAuthz
    <3>3. d.subject_header = defaults.subject_header /\ d.default_effect = defaults.default_effect
      BY <1>11 DEF SimpleAuthz, AuthzConfig
    <3>4. \A k \in DOMAIN d \ DOMAIN defaults : d[k] = AuthzConfig[k]
      BY <1>11 DEF SimpleAuthz, AuthzConfig
    <3>5. DOMAIN defaults = {"subject_header", "default_effect"}
      OBVIOUS
    <3>6. QED BY <3>1, <3>2, <3>3, <3>4, <3>5 DEF Layered
  <2>2. \A cfg : New(f, cfg) = Fallback(cfg, f.zero, defaults)
    BY <1>11, OwnNew DEF NewSimpleAuthz, SimpleAuthz
  <2>3. QED BY <1>3, <2>1, <2>2
<1>12. CASE f = ResponseFilter
  <2> DEFINE defaults == [mask_with |-> "***"]
  <2>1. Layered(f.zero, d, defaults, Mattering(f))
    <3>1. Mattering(f) = {}
      BY <1>12, OwnTypes DEF Mattering, Is
    <3>2. f.zero = FilterConfig /\ DOMAIN d = DOMAIN FilterConfig
      BY <1>12 DEF ResponseFilter
    <3>3. d.mask_with = defaults.mask_with
      BY <1>12 DEF ResponseFilter, FilterConfig
    <3>4. \A k \in DOMAIN d \ DOMAIN defaults : d[k] = FilterConfig[k]
      BY <1>12 DEF ResponseFilter, FilterConfig
    <3>5. DOMAIN defaults = {"mask_with"}
      OBVIOUS
    <3>6. QED BY <3>1, <3>2, <3>3, <3>4, <3>5 DEF Layered
  <2>2. \A cfg : New(f, cfg) = Fallback(cfg, f.zero, defaults)
    BY <1>12, OwnNew DEF NewResponseFilter, ResponseFilter
  <2>3. QED BY <1>3, <2>1, <2>2
<1>13. CASE f = PrometheusDispatcher
  <2> DEFINE defaults == [tenant_header |-> "X-Scope-OrgID", timeout |-> 30]
  <2>1. Mattering(f) = Endpoints
    BY <1>13 DEF Mattering, Is
  <2>2. Layered(f.zero, d, defaults, Endpoints)
    <3>1. DOMAIN d = {"endpoint", "tenant_header", "timeout"}
          /\ d.tenant_header = defaults.tenant_header /\ d.timeout = defaults.timeout
      BY <1>13 DEF PrometheusDispatcher
    <3>2. DOMAIN defaults = {"tenant_header", "timeout"}
      OBVIOUS
    <3>3. "endpoint" \in Endpoints /\ "tenant_header" \notin Endpoints /\ "timeout" \notin Endpoints
      BY DEF Endpoints
    <3>4. QED BY <3>1, <3>2, <3>3 DEF Layered
  <2>3. \A cfg : New(f, cfg) = Fallback(cfg, f.zero, defaults)
    BY <1>13, OwnNew DEF NewPrometheus, PrometheusDispatcher
  <2>4. QED BY <1>3, <2>1, <2>2, <2>3
<1>14. CASE f = LokiDispatcher
  <2>1. Layered(f.zero, d, LokiFallback, Mattering(f))
    BY <1>14, OwnTypes DEF Layered, Mattering, Is, LokiDispatcher, LokiConfig, LokiFallback
  <2>2. \A cfg : New(f, cfg) = Fallback(cfg, f.zero, LokiFallback)
    BY <1>14, OwnNew DEF NewLoki, LokiDispatcher
  <2>3. QED BY <1>3, <2>1, <2>2
<1>15. CASE f = ElasticsearchDispatcher
  <2>1. d = Fallback(ElasticsearchConfig, ElasticsearchConfig, ElasticsearchFallback)
        /\ f.zero = ElasticsearchConfig
    BY <1>15 DEF ElasticsearchDispatcher
  <2>2. \A k \in DOMAIN d :
        \/ d[k] = ElasticsearchConfig[k]
        \/ k \in DOMAIN ElasticsearchFallback /\ d[k] = ElasticsearchFallback[k]
    BY <2>1 DEF Fallback
  <2>3. Mattering(f) = {}
    BY <1>15, OwnTypes DEF Mattering, Is
  <2>4. Layered(f.zero, d, ElasticsearchFallback, Mattering(f))
    BY <2>1, <2>2, <2>3 DEF Layered
  <2>5. \A cfg : New(f, cfg) = Fallback(cfg, f.zero, ElasticsearchFallback)
    BY <1>15, <2>1, OwnNew DEF NewElasticsearch
  <2>6. QED BY <1>3, <2>4, <2>5
<1>16. QED
  BY <1>5, <1>6, <1>7, <1>8, <1>9, <1>10, <1>11, <1>12, <1>13, <1>14, <1>15 DEF OwnFactories

(* And a key that a component has and an entry sets is as the entry says.  *)
LEMMA OwnKeep ==
  ASSUME NEW f \in OwnFactories, NEW raw, Decodes(f, raw), NEW k \in DOMAIN raw,
         raw[k] # f.zero[k], k \in DOMAIN New(f, Decoded(f, raw))
  PROVE  New(f, Decoded(f, raw))[k] = raw[k]
<1> DEFINE d == f.default
<1>1. DOMAIN raw \subseteq DOMAIN d
  BY DEF Decodes
<1>2. Decoded(f, raw) = Overlaid(d, raw) /\ Decoded(f, raw)[k] = raw[k]
  BY <1>1 DEF Decoded, Overlaid
<1>3. ASSUME NEW defaults, New(f, Decoded(f, raw)) = Fallback(Decoded(f, raw), f.zero, defaults)
      PROVE  New(f, Decoded(f, raw))[k] = raw[k]
  BY <1>1, <1>2, <1>3, LayersKeep
<1>4. CASE f = OTQPAcceptor
  <2>1. Decoded(f, raw) # OTQPConfig
    BY <1>2, <1>4 DEF OTQPAcceptor
  <2>2. New(f, Decoded(f, raw)) = Decoded(f, raw)
    BY <1>4, <2>1, OwnNew DEF NewOTQPAcceptor
  <2>3. QED BY <1>2, <2>2
<1>5. CASE f = AuthRateLimit
  <2> DEFINE cfg == Decoded(f, raw)
  <2>1. New(f, cfg) = NewAuthRateLimit(cfg)
    BY <1>5, OwnNew
  <2>2. DOMAIN d = {"require_bearer", "tokens", "requests_per_second", "burst", "per_tenant", "max_keys"}
    BY <1>5 DEF AuthRateLimit, LimitConfig
  <2>3. k \in {"require_bearer", "tokens", "per_tenant"}
    <3>1. k \in DOMAIN NewAuthRateLimit(cfg)
      BY <2>1
    <3>2. DOMAIN NewAuthRateLimit(cfg) = {"require_bearer", "tokens", "per_tenant", "limiter"}
      BY DEF NewAuthRateLimit
    <3>3. QED BY <1>1, <2>2, <3>1, <3>2
  <2>4. NewAuthRateLimit(cfg)[k] = cfg[k]
    BY <2>3 DEF NewAuthRateLimit
  <2>5. QED BY <1>2, <2>1, <2>4
<1>6. CASE f \in {QueryRewrite, CrossSignal}
  BY <1>2, <1>6, OwnNew
<1>7. CASE f \in {PrometheusAcceptor, LokiAcceptor, ElasticsearchAcceptor}
  BY <1>3, <1>7, OwnNew DEF NewPrometheusAcceptor, NewLokiAcceptor, NewElasticsearchAcceptor,
     PrometheusAcceptor, LokiAcceptor, ElasticsearchAcceptor
<1>8. CASE f \in {TenantProcessor, SimpleAuthz, ResponseFilter}
  BY <1>3, <1>8, OwnNew DEF NewTenant, NewSimpleAuthz, NewResponseFilter,
     TenantProcessor, SimpleAuthz, ResponseFilter
<1>9. CASE f \in {PrometheusDispatcher, LokiDispatcher, ElasticsearchDispatcher}
  BY <1>3, <1>9, OwnNew DEF NewPrometheus, NewLoki, NewElasticsearch,
     PrometheusDispatcher, LokiDispatcher, ElasticsearchDispatcher
<1>10. QED
  BY <1>4, <1>5, <1>6, <1>7, <1>8, <1>9 DEF OwnFactories

--------------------------------------------------------------------------------
(* The inductive invariant.                                                *)

(* The builder: what a run has written so far is the manifest's, and what  *)
(* a run that exited 0 has written stays until the next run begins.        *)
BuilderOK ==
  /\ \A f \in Files : disk[f] \in Renderings \cup {Nothing, Torn}
  /\ disk = [f \in Files |-> disk[f]]
  /\ \/ builder = Idle
     \/ /\ builder = [manifest |-> builder.manifest, todo |-> builder.todo]
        /\ builder.manifest \in Manifests
        /\ builder.todo \subseteq Files /\ builder.todo # {}
        /\ \A f \in Files \ builder.todo : disk[f] = TmplData(builder.manifest)
        /\ generated = Nothing
  /\ generated \in Manifests \cup {Nothing}
  /\ generated # Nothing => \A f \in Files : disk[f] = TmplData(generated)
  /\ runs \in 0 .. MaxRuns

(* A binary was compiled of whole files; they are the renderings of the    *)
(* manifest that its of names.                                             *)
Compiled(b) ==
  /\ Compiles(b.components, b.main)
  /\ b.components \in Renderings
  /\ b.version \in LinkVersions \cup {""}
  /\ b.of \in Manifests \cup {Nothing}
  /\ b.of # Nothing => b.components = TmplData(b.of) /\ b.main = TmplData(b.of)
BinaryOK == binary # Nothing => Compiled(binary)

(* An instance was made of the settings under its spelling by a factory of *)
(* its section.                                                            *)
Made(c, factories, i) ==
  /\ i.section \in Sections
  /\ i.factory \in factories[i.section]
  /\ Decodes(i.factory, Raw(c, i.section, i.spelled))
  /\ i.cfg = New(i.factory, Decoded(i.factory, Raw(c, i.section, i.spelled)))

(* The program: it registers its binary's factories, and what it has built *)
(* and has yet to build make up the references of its configuration.       *)
Registers(p) ==
  /\ p.factories = [s \in Sections |-> FactoryMap(Registered(p.binary.components, s))]
  /\ \A s \in Sections : ~Duplicates(Registered(p.binary.components, s))
  /\ p.info = BuildInfo(p.binary)
Refs(c) == {c.refs[i] : i \in DOMAIN c.refs}
Builds(p) ==
  /\ p.todo \in Seq(Refs(p.config))
  /\ IsList(p.instances)
  /\ \A i \in DOMAIN p.instances : Made(p.config, p.factories, p.instances[i])
  /\ Len(p.instances) + Len(p.todo) = Len(References(p.config))
ProcessOK ==
  \/ process = Down
  \/ /\ process = [phase |-> process.phase, binary |-> process.binary, config |-> process.config,
                   factories |-> process.factories, info |-> process.info,
                   todo |-> process.todo, instances |-> process.instances]
     /\ process.phase \in {"register", "build", "serving"}
     /\ process.config \in Configs
     /\ Compiled(process.binary)
     /\ process.phase = "register" => process.instances = <<>>
     /\ process.phase # "register" => Registers(process) /\ Builds(process)

Inv == BuilderOK /\ BinaryOK /\ ProcessOK

--------------------------------------------------------------------------------
(* The builder and the tool chain.                                         *)

(* A step of the builder keeps its part of the invariant.                  *)
LEMMA BuilderKeeps ==
  ASSUME BuilderOK,
         \/ \E m \in Manifests : LoadManifest(m)
         \/ LoadFails
         \/ \E f \in Files : Render(f) \/ RenderFails(f)
         \/ Interrupted
  PROVE  BuilderOK'
<1>1. ASSUME NEW m \in Manifests, LoadManifest(m) PROVE BuilderOK'
  <2>1. /\ builder' = [manifest |-> m, todo |-> Files] /\ generated' = Nothing /\ disk' = disk
        /\ runs < MaxRuns /\ runs' = runs + 1
    BY <1>1 DEF LoadManifest, Begins
  <2>2. builder'.manifest = m /\ builder'.todo = Files /\ Files # {}
    BY <2>1 DEF Files
  <2>3. QED BY <2>1, <2>2, InputAssumption DEF BuilderOK
<1>2. ASSUME LoadFails PROVE BuilderOK'
  <2>1. UNCHANGED <<disk, builder, generated>> /\ runs < MaxRuns /\ runs' = runs + 1
    BY <1>2 DEF LoadFails, Begins
  <2>2. QED BY <2>1, InputAssumption DEF BuilderOK
<1>3. ASSUME NEW f \in Files, Render(f) PROVE BuilderOK'
  <2> DEFINE m == builder.manifest
  <2>1. f \in builder.todo /\ runs' = runs /\ disk' = [disk EXCEPT ![f] = TmplData(m)]
    BY <1>3 DEF Render
  <2>2. builder # Idle
    BY <2>1 DEF Idle
  <2>3. /\ m \in Manifests /\ generated = Nothing
        /\ builder = [manifest |-> builder.manifest, todo |-> builder.todo]
        /\ builder.todo \subseteq Files
        /\ \A g \in Files \ builder.todo : disk[g] = TmplData(m)
    BY <2>2 DEF BuilderOK
  <2>4. TmplData(m) \in Renderings
    BY <2>3 DEF Renderings
  <2>5. /\ disk' = [g \in Files |-> disk'[g]]
        /\ \A g \in Files : disk'[g] \in Renderings \cup {Nothing, Torn}
        /\ \A g \in (Files \ builder.todo) \cup {f} : disk'[g] = TmplData(m)
    BY <2>1, <2>3, <2>4 DEF BuilderOK
  <2>6. CASE builder.todo = {f}
    <3>1. builder' = Idle /\ generated' = m
      BY <1>3, <2>6 DEF Render
    <3>2. \A g \in Files : disk'[g] = TmplData(m)
      BY <2>5, <2>6
    <3>3. QED BY <2>1, <2>3, <2>5, <3>1, <3>2 DEF BuilderOK
  <2>7. CASE builder.todo # {f}
    <3>1. builder' = [builder EXCEPT !.todo = @ \ {f}] /\ generated' = generated
      BY <1>3, <2>7 DEF Render
    <3> DEFINE t == builder.todo
    <3> HIDE DEF t
    <3>2. builder' = [manifest |-> m, todo |-> t \ {f}]
      BY <2>3, <3>1 DEF t
    <3>3. builder'.manifest = m /\ builder'.todo = t \ {f}
      BY <3>2
    <3>4. t \ {f} # {} /\ t \ {f} \subseteq Files
      <4>1. f \in t /\ t # {f} /\ t \subseteq Files
        BY <2>1, <2>3, <2>7 DEF t
      <4>2. QED BY <4>1
    <3>5. \A g \in Files \ (t \ {f}) : disk'[g] = TmplData(m)
      BY <2>5 DEF t
    <3>6. QED BY <2>1, <2>3, <2>5, <3>1, <3>2, <3>3, <3>4, <3>5 DEF BuilderOK
  <2>8. QED BY <2>6, <2>7
<1>4. ASSUME NEW f \in Files, RenderFails(f) PROVE BuilderOK'
  <2>1. /\ f \in builder.todo /\ builder' = Idle /\ UNCHANGED <<generated, runs>>
        /\ disk' = disk \/ disk' = [disk EXCEPT ![f] = Torn]
    BY <1>4 DEF RenderFails
  <2>2. builder # Idle
    BY <2>1 DEF Idle
  <2>3. generated = Nothing
    BY <2>2 DEF BuilderOK
  <2>4. disk' = [g \in Files |-> disk'[g]] /\ \A g \in Files : disk'[g] \in Renderings \cup {Nothing, Torn}
    BY <2>1 DEF BuilderOK
  <2>5. QED BY <2>1, <2>3, <2>4 DEF BuilderOK
<1>5. ASSUME Interrupted PROVE BuilderOK'
  BY <1>5 DEF Interrupted, BuilderOK
<1>6. QED BY <1>1, <1>2, <1>3, <1>4, <1>5

(* A compiled binary is of the manifest of the last run that exited 0, if  *)
(* no run has begun since.                                                 *)
LEMMA CompileKeeps ==
  ASSUME BuilderOK, NEW v \in LinkVersions \cup {""}, Compile(v)
  PROVE  BuilderOK' /\ BinaryOK'
<1>1. /\ Compiles(disk["components.go"], disk["main.go"])
      /\ binary' = [components |-> disk["components.go"], main |-> disk["main.go"],
                    version |-> v, of |-> generated]
      /\ UNCHANGED <<disk, builder, generated, runs>>
  BY DEF Compile, buildVars
<1>2. BuilderOK'
  BY <1>1 DEF BuilderOK
<1>3. /\ binary'.components = disk["components.go"] /\ binary'.main = disk["main.go"]
      /\ binary'.version = v /\ binary'.of = generated
  BY <1>1
<1>4. "components.go" \in Files /\ "main.go" \in Files
  BY DEF Files
<1>5. Compiled(binary')
  <2>1. disk["components.go"] \notin {Nothing, Torn}
    BY <1>1 DEF Compiles
  <2>2. QED BY <1>1, <1>3, <1>4, <2>1 DEF Compiled, BuilderOK
<1>6. QED BY <1>2, <1>5 DEF BinaryOK

--------------------------------------------------------------------------------
(* The program.                                                            *)

(* Where the program is once it has loaded a configuration.                *)
LEMMA LoadKeeps ==
  ASSUME BinaryOK, NEW c \in Configs, LoadConfig(c)
  PROVE  ProcessOK'
<1>1. CASE c.legible
  <2> DEFINE p == process'
  <2>1. p = [Down EXCEPT !.phase = "register", !.binary = binary, !.config = c] /\ binary # Nothing
    BY <1>1 DEF LoadConfig
  <2>2. p = [phase |-> "register", binary |-> binary, config |-> c, factories |-> <<>>,
             info |-> <<>>, todo |-> <<>>, instances |-> <<>>]
    BY <2>1 DEF Down
  <2> HIDE DEF p
  <2>3. /\ p.phase = "register" /\ p.binary = binary /\ p.config = c
        /\ p.factories = <<>> /\ p.info = <<>> /\ p.todo = <<>> /\ p.instances = <<>>
    BY <2>2
  <2>4. Compiled(p.binary)
    BY <2>1, <2>3 DEF BinaryOK
  <2>5. p = [phase |-> p.phase, binary |-> p.binary, config |-> p.config, factories |-> p.factories,
             info |-> p.info, todo |-> p.todo, instances |-> p.instances]
    BY <2>2, <2>3
  <2>6. QED BY <2>3, <2>4, <2>5 DEF ProcessOK, p
<1>2. CASE ~c.legible
  BY <1>2 DEF LoadConfig, ProcessOK, Fatal
<1>3. QED BY <1>1, <1>2

(* The references that Build gets to are a list of the configuration's.    *)
LEMMA ReferencesAreAList ==
  ASSUME NEW c \in Configs
  PROVE  References(c) \in Seq(Refs(c))
<1> DEFINE skipped == {<<"acceptors", s>> : s \in DOMAIN c.sections["connectors"]}
<1>1. c.refs \in Seq(Refs(c))
  BY InputAssumption DEF IsList, Refs
<1>2. Skipping(c.refs, skipped) \in Seq(Refs(c) \ skipped)
  BY <1>1, SkippingIsAList
<1>3. ASSUME NEW S, NEW T \in SUBSET S, NEW q \in Seq(T) PROVE q \in Seq(S)
  OBVIOUS
<1>4. Refs(c) \ skipped \in SUBSET Refs(c)
  OBVIOUS
<1> HIDE DEF skipped
<1>5. Skipping(c.refs, skipped) \in Seq(Refs(c))
  BY <1>2, <1>3, <1>4
<1>6. QED BY <1>5 DEF References, skipped

(* The factories are registered, or a duplicate ends the program.          *)
LEMMA RegisterKeeps ==
  ASSUME ProcessOK, RegisterComponents
  PROVE  ProcessOK'
<1> DEFINE data == process.binary.components
           q == References(process.config)
           fs == [s \in Sections |-> FactoryMap(Registered(data, s))]
           p == process'
<1>1. process.phase = "register"
  BY DEF RegisterComponents
<1>2. process # Down
  BY <1>1 DEF Down
<1>3. /\ process = [phase |-> process.phase, binary |-> process.binary, config |-> process.config,
                    factories |-> process.factories, info |-> process.info,
                    todo |-> process.todo, instances |-> process.instances]
      /\ process.config \in Configs /\ Compiled(process.binary) /\ process.instances = <<>>
  BY <1>1, <1>2 DEF ProcessOK
<1>4. CASE \E s \in Sections : Duplicates(Registered(data, s))
  BY <1>4 DEF RegisterComponents, Fatal, ProcessOK
<1>5. CASE ~\E s \in Sections : Duplicates(Registered(data, s))
  <2>1. p = [process EXCEPT !.phase = "build", !.factories = fs,
               !.info = BuildInfo(process.binary), !.todo = q]
    BY <1>5 DEF RegisterComponents
  <2> HIDE DEF fs, q, p
  <2>2. p = [phase |-> "build", binary |-> process.binary, config |-> process.config,
             factories |-> fs, info |-> BuildInfo(process.binary), todo |-> q, instances |-> <<>>]
    BY <1>3, <2>1
  <2>3. /\ p.phase = "build" /\ p.binary = process.binary /\ p.config = process.config
        /\ p.factories = fs /\ p.info = BuildInfo(process.binary) /\ p.todo = q /\ p.instances = <<>>
    BY <2>2
  <2>4. Registers(p)
    BY <1>5, <2>3 DEF Registers, fs
  <2>5. Builds(p)
    <3>1. q \in Seq(Refs(process.config))
      BY <1>3, ReferencesAreAList DEF q
    <3>2. Len(q) \in Nat /\ Len(<<>>) = 0 /\ DOMAIN <<>> = {} /\ IsList(<<>>)
      BY <3>1, LenProperties DEF IsList
    <3>3. Len(<<>>) + Len(q) = Len(q)
      BY <3>2
    <3>4. QED BY <2>3, <3>1, <3>2, <3>3 DEF Builds, q
  <2>6. p = [phase |-> p.phase, binary |-> p.binary, config |-> p.config, factories |-> p.factories,
             info |-> p.info, todo |-> p.todo, instances |-> p.instances]
    BY <2>2, <2>3
  <2>7. QED BY <1>3, <2>3, <2>4, <2>5, <2>6 DEF ProcessOK, p
<1>6. QED BY <1>4, <1>5

(* The factories of a section are numbered like a manifest's selection.    *)
LEMMA RegisteredIsNumbered ==
  ASSUME NEW p, Compiled(p.binary), NEW s \in Sections
  PROVE  DOMAIN Registered(p.binary.components, s) \subseteq Nat
<1>1. PICK m \in Manifests : p.binary.components = TmplData(m)
  BY DEF Compiled, Renderings
<1>2. DOMAIN Registered(p.binary.components, s) = DOMAIN m.parts[s]
  BY <1>1 DEF Registered, TmplData, toTmpl
<1>3. DOMAIN m.parts[s] = 1 .. Len(m.parts[s]) /\ Len(m.parts[s]) \in Nat
  BY InputAssumption, LenProperties DEF IsList
<1>4. QED BY <1>2, <1>3

(* A list grows by one.                                                    *)
LEMMA OneMore ==
  ASSUME NEW s, IsList(s), NEW e
  PROVE  /\ IsList(Append(s, e)) /\ Len(s) \in Nat /\ Len(Append(s, e)) = Len(s) + 1
         /\ \A i \in DOMAIN Append(s, e) : Append(s, e)[i] = e \/ (i \in DOMAIN s /\ Append(s, e)[i] = s[i])
<1> DEFINE S == {s[i] : i \in DOMAIN s} \cup {e}
           t == Append(s, e)
<1>1. s \in Seq(S) /\ e \in S
  <2>1. s \in Seq({s[i] : i \in DOMAIN s})
    BY DEF IsList
  <2>2. QED BY <2>1
<1>2. /\ t \in Seq(S) /\ Len(t) = Len(s) + 1 /\ Len(s) \in Nat
      /\ \A i \in 1 .. Len(s) : t[i] = s[i]
      /\ t[Len(s) + 1] = e /\ DOMAIN s = 1 .. Len(s) /\ DOMAIN t = 1 .. Len(s) + 1
  BY <1>1, AppendProperties, LenProperties
<1> HIDE DEF t
<1>3. \A i \in DOMAIN t : t[i] = e \/ (i \in DOMAIN s /\ t[i] = s[i])
  BY <1>2
<1>4. IsList(t)
  BY <1>2 DEF IsList
<1>5. QED BY <1>2, <1>3, <1>4 DEF t

(* Of one type a section has one factory.                                  *)
LEMMA OneFactoryPerType ==
  ASSUME NEW p, Compiled(p.binary), Registers(p), NEW s \in Sections,
         NEW f \in p.factories[s], NEW g \in p.factories[s], f.type = g.type
  PROVE  f = g
<1> DEFINE r == Registered(p.binary.components, s)
<1>1. p.factories[s] = {r[i] : i \in DOMAIN r} /\ ~Duplicates(r)
  BY DEF Registers, FactoryMap
<1>2. PICK i, j \in DOMAIN r : f = r[i] /\ g = r[j]
  BY <1>1
<1>3. i \in Nat /\ j \in Nat
  BY RegisteredIsNumbered
<1>4. CASE i = j
  BY <1>2, <1>4
<1>5. CASE i < j
  BY <1>1, <1>2, <1>5 DEF Duplicates
<1>6. CASE j < i
  BY <1>1, <1>2, <1>6 DEF Duplicates
<1>7. QED BY <1>3, <1>4, <1>5, <1>6

(* A step of Build.                                                        *)
LEMMA BuildKeeps ==
  ASSUME ProcessOK, BuildNext
  PROVE  ProcessOK'
<1> DEFINE c == process.config
           ref == Head(process.todo)
           spelled == ref[2]
           section == Section(c, ref)
           fits == {f \in process.factories[section] : f.type = UnmarshalText(spelled).type}
           made == Instance(c, section, spelled, CHOOSE f \in fits : TRUE)
           p == process'
<1>1. process.phase = "build" /\ process.todo # <<>>
  BY DEF BuildNext
<1>2. process # Down
  BY <1>1 DEF Down
<1>3. /\ process = [phase |-> process.phase, binary |-> process.binary, config |-> process.config,
                    factories |-> process.factories, info |-> process.info,
                    todo |-> process.todo, instances |-> process.instances]
      /\ c \in Configs /\ Compiled(process.binary) /\ Registers(process) /\ Builds(process)
  BY <1>1, <1>2 DEF ProcessOK
<1>4. /\ ref \in Refs(c) /\ Tail(process.todo) \in Seq(Refs(c))
      /\ Len(process.todo) \in Nat /\ Len(Tail(process.todo)) = Len(process.todo) - 1
  BY <1>1, <1>3, HeadTailProperties, LenProperties DEF Builds
<1>5. section \in Sections
  <2>1. ref[1] \in Sections
    BY <1>3, <1>4, InputAssumption DEF Refs
  <2>2. QED BY <2>1 DEF Section, Sections
<1>6. CASE ~UnmarshalRefuses(spelled) /\ \E f \in fits : Usable(c, section, spelled, f)
  <2>1. p = [process EXCEPT !.todo = Tail(process.todo), !.instances = Append(process.instances, made)]
    BY <1>6 DEF BuildNext
  <2>2. Made(c, process.factories, made)
    <3>1. PICK f \in fits : Usable(c, section, spelled, f)
      BY <1>6
    <3>2. (CHOOSE g \in fits : TRUE) = f
      <4>1. (CHOOSE g \in fits : TRUE) \in fits
        BY <3>1
      <4>2. QED BY <1>3, <1>5, <3>1, <4>1, OneFactoryPerType
    <3>3. made = Instance(c, section, spelled, f)
      BY <3>2
    <3> HIDE DEF made, section, spelled, c
    <3>4. /\ made.section = section /\ made.spelled = spelled /\ made.factory = f
          /\ made.cfg = New(f, Decoded(f, Raw(c, section, spelled)))
      BY <3>3 DEF Instance
    <3>5. QED BY <1>5, <3>1, <3>4 DEF Made, Usable
  <2> HIDE DEF made, p
  <2>3. /\ p = [phase |-> process.phase, binary |-> process.binary, config |-> process.config,
                factories |-> process.factories, info |-> process.info,
                todo |-> Tail(process.todo), instances |-> Append(process.instances, made)]
    BY <1>3, <2>1
  <2>4. /\ p.phase = "build" /\ p.binary = process.binary /\ p.config = process.config
        /\ p.factories = process.factories /\ p.info = process.info
        /\ p.todo = Tail(process.todo) /\ p.instances = Append(process.instances, made)
    BY <1>1, <2>3
  <2>5. Registers(p)
    BY <1>3, <2>4 DEF Registers
  <2>6. Builds(p)
    BY <1>3, <1>4, <2>2, <2>4, OneMore DEF Builds
  <2>7. p = [phase |-> p.phase, binary |-> p.binary, config |-> p.config, factories |-> p.factories,
             info |-> p.info, todo |-> p.todo, instances |-> p.instances]
    BY <2>3, <2>4
  <2>8. QED BY <1>3, <2>4, <2>5, <2>6, <2>7 DEF ProcessOK, p
<1>7. CASE ~(~UnmarshalRefuses(spelled) /\ \E f \in fits : Usable(c, section, spelled, f))
  BY <1>7 DEF BuildNext, Fatal, ProcessOK
<1>8. QED BY <1>6, <1>7

(* The program's other steps.                                              *)
LEMMA ServeKeeps ==
  ASSUME ProcessOK, Serve
  PROVE  ProcessOK'
<1> DEFINE p == process'
<1>1. process.phase = "build" /\ p = [process EXCEPT !.phase = "serving"]
  BY DEF Serve
<1>2. process # Down
  BY <1>1 DEF Down
<1>3. /\ process = [phase |-> process.phase, binary |-> process.binary, config |-> process.config,
                    factories |-> process.factories, info |-> process.info,
                    todo |-> process.todo, instances |-> process.instances]
      /\ process.config \in Configs /\ Compiled(process.binary)
      /\ Registers(process) /\ Builds(process)
  BY <1>1, <1>2 DEF ProcessOK
<1> HIDE DEF p
<1>4. p = [phase |-> "serving", binary |-> process.binary, config |-> process.config,
           factories |-> process.factories, info |-> process.info,
           todo |-> process.todo, instances |-> process.instances]
  BY <1>1, <1>3
<1>5. /\ p.phase = "serving" /\ p.binary = process.binary /\ p.config = process.config
      /\ p.factories = process.factories /\ p.info = process.info
      /\ p.todo = process.todo /\ p.instances = process.instances
  BY <1>4
<1>6. Registers(p) /\ Builds(p)
  BY <1>3, <1>5 DEF Registers, Builds
<1>7. p = [phase |-> p.phase, binary |-> p.binary, config |-> p.config, factories |-> p.factories,
           info |-> p.info, todo |-> p.todo, instances |-> p.instances]
  BY <1>4, <1>5
<1>8. QED BY <1>3, <1>5, <1>6, <1>7 DEF ProcessOK, p

--------------------------------------------------------------------------------
(* Every step.                                                             *)

(* Nothing is written, compiled or running at first.                       *)
LEMMA InvHoldsAtFirst ==
  ASSUME Init
  PROVE  Inv
<1>1. disk = [f \in Files |-> disk[f]] /\ \A f \in Files : disk[f] = Nothing
  BY DEF Init
<1>2. BuilderOK
  BY <1>1, InputAssumption DEF Init, BuilderOK
<1>3. QED BY <1>2 DEF Init, Inv, BinaryOK, ProcessOK

(* Every step keeps the invariant.                                         *)
LEMMA StepKeepsInv ==
  ASSUME Inv, [Next]_vars
  PROVE  Inv'
<1>1. BuilderOK /\ BinaryOK /\ ProcessOK
  BY DEF Inv
<1>2. ASSUME UNCHANGED process PROVE ProcessOK'
  BY <1>1, <1>2 DEF ProcessOK
<1>3. ASSUME UNCHANGED binary PROVE BinaryOK'
  BY <1>1, <1>3 DEF BinaryOK
<1>4. ASSUME UNCHANGED buildVars PROVE BuilderOK'
  BY <1>1, <1>4 DEF BuilderOK, buildVars
<1>5. ASSUME \/ \E m \in Manifests : LoadManifest(m)
             \/ LoadFails
             \/ \E f \in Files : Render(f) \/ RenderFails(f)
             \/ Interrupted
      PROVE  Inv'
  <2>1. UNCHANGED <<binary, process>>
    BY <1>5 DEF LoadManifest, LoadFails, Begins, Render, RenderFails, Interrupted
  <2>2. QED BY <1>1, <1>2, <1>3, <1>5, <2>1, BuilderKeeps DEF Inv
<1>6. ASSUME NEW v \in LinkVersions \cup {""}, Compile(v) PROVE Inv'
  <2>1. UNCHANGED process
    BY <1>6 DEF Compile
  <2>2. QED BY <1>1, <1>2, <1>6, <2>1, CompileKeeps DEF Inv
<1>7. ASSUME NEW c \in Configs, LoadConfig(c) PROVE Inv'
  <2>1. UNCHANGED <<buildVars, binary>>
    BY <1>7 DEF LoadConfig
  <2>2. QED BY <1>1, <1>3, <1>4, <1>7, <2>1, LoadKeeps DEF Inv
<1>8. ASSUME RegisterComponents PROVE Inv'
  <2>1. UNCHANGED <<buildVars, binary>>
    BY <1>8 DEF RegisterComponents
  <2>2. QED BY <1>1, <1>3, <1>4, <1>8, <2>1, RegisterKeeps DEF Inv
<1>9. ASSUME BuildNext PROVE Inv'
  <2>1. UNCHANGED <<buildVars, binary>>
    BY <1>9 DEF BuildNext
  <2>2. QED BY <1>1, <1>3, <1>4, <1>9, <2>1, BuildKeeps DEF Inv
<1>10. ASSUME Serve PROVE Inv'
  <2>1. UNCHANGED <<buildVars, binary>>
    BY <1>10 DEF Serve
  <2>2. QED BY <1>1, <1>3, <1>4, <1>10, <2>1, ServeKeeps DEF Inv
<1>11. ASSUME Exit PROVE Inv'
  <2>1. UNCHANGED <<buildVars, binary>> /\ process' = Down
    BY <1>11 DEF Exit
  <2>2. QED BY <1>3, <1>4, <2>1 DEF Inv, ProcessOK
<1>12. ASSUME UNCHANGED vars PROVE Inv'
  <2>1. UNCHANGED buildVars /\ UNCHANGED binary /\ UNCHANGED process
    BY <1>12 DEF vars, buildVars
  <2>2. QED BY <1>2, <1>3, <1>4, <2>1 DEF Inv
<1>13. QED
  BY <1>5, <1>6, <1>7, <1>8, <1>9, <1>10, <1>11, <1>12 DEF Next

(* The invariant holds of every behaviour.                                 *)
LEMMA InvHolds == Spec => []Inv
BY InvHoldsAtFirst, StepKeepsInv, PTL DEF Spec

--------------------------------------------------------------------------------
(* What follows from it.                                                   *)

(* The state keeps its types: what lies on disk was rendered or is torn, a *)
(* binary was compiled of whole files, and what Build has built and has    *)
(* yet to build are the configuration's references.                        *)
THEOREM TypeCorrect == Spec => []TypeOK
<1>1. ASSUME Inv PROVE TypeOK
  <2>1. BuilderOK /\ BinaryOK /\ ProcessOK
    BY <1>1 DEF Inv
  <2>2. /\ builder.manifest \in Manifests \cup {Nothing} /\ builder.todo \subseteq Files
        /\ (builder.manifest = Nothing) = (builder.todo = {})
    BY <2>1, InputAssumption DEF BuilderOK, Idle
  <2>3. binary # Nothing => Compiles(binary.components, binary.main)
    BY <2>1 DEF BinaryOK, Compiled
  <2>4. /\ process.phase \in {"down", "register", "build", "serving"}
        /\ (process.phase = "down") = (process.config = Nothing)
        /\ process.phase \in {"build", "serving"} =>
             Len(process.instances) + Len(process.todo) = Len(References(process.config))
    <3>1. CASE process = Down
      <4>1. process.phase = "down" /\ process.config = Nothing
        BY <3>1 DEF Down
      <4>2. QED BY <4>1
    <3>2. CASE process # Down
      <4>1. /\ process.phase \in {"register", "build", "serving"} /\ process.config \in Configs
            /\ process.phase # "register" => Builds(process)
        BY <2>1, <3>2 DEF ProcessOK
      <4>2. QED BY <4>1, InputAssumption DEF Builds
    <3>3. QED BY <3>1, <3>2
  <2>5. QED BY <2>1, <2>2, <2>3, <2>4 DEF TypeOK, BuilderOK
<1>2. QED BY <1>1, InvHolds, PTL

(* What an assembled program's binary is, and what it has registered.      *)
LEMMA AssembledRegisters ==
  ASSUME Inv, Assembled
  PROVE  Compiled(process.binary) /\ Registers(process) /\ Builds(process)
<1>1. process.phase \in {"build", "serving"} /\ ProcessOK
  BY DEF Assembled, Inv
<1>2. process # Down
  BY <1>1 DEF Down
<1>3. QED BY <1>1, <1>2 DEF ProcessOK

(* What a program registers of a manifest's rendering.                     *)
LEMMA SelectionIsRegistered ==
  ASSUME NEW m, NEW s \in Sections
  PROVE  Registered(TmplData(m), s) = [i \in DOMAIN m.parts[s] |-> Catalogue[m.parts[s][i].path]]
BY DEF Registered, TmplData, toTmpl

(* A program compiled after a run that exited 0 registers what that run's  *)
(* manifest selected and reports its command and version.                  *)
THEOREM SelectionCorrect == Spec => []RunsWhatWasSelected
<1>1. ASSUME Inv PROVE RunsWhatWasSelected
  <2> DEFINE m == process.binary.of
  <2>1. SUFFICES ASSUME Assembled, m # Nothing
                 PROVE  /\ \A s \in Sections :
                             process.factories[s] = {Catalogue[m.parts[s][i].path] : i \in DOMAIN m.parts[s]}
                        /\ process.info.command = orDefault(m.name, "querier")
                        /\ process.info.version \in LinkVersions \cup {orDefault(m.version, "dev")}
    BY DEF RunsWhatWasSelected
  <2>2. Compiled(process.binary) /\ Registers(process)
    BY <1>1, <2>1, AssembledRegisters
  <2>3. process.binary.components = TmplData(m) /\ process.binary.main = TmplData(m)
    BY <2>1, <2>2 DEF Compiled
  <2> HIDE DEF m
  <2>4. ASSUME NEW s \in Sections
        PROVE  process.factories[s] = {Catalogue[m.parts[s][i].path] : i \in DOMAIN m.parts[s]}
    <3>1. process.factories[s] = FactoryMap(Registered(TmplData(m), s))
      BY <2>2, <2>3 DEF Registers
    <3>2. QED BY <3>1, SelectionIsRegistered DEF FactoryMap
  <2>5. process.info = [command |-> orDefault(m.name, "querier"),
                        version |-> orDefault(process.binary.version, orDefault(m.version, "dev"))]
    BY <2>2, <2>3 DEF Registers, BuildInfo, TmplData
  <2>6. process.binary.version \in LinkVersions \cup {""}
    BY <2>2 DEF Compiled
  <2>7. process.info.version \in LinkVersions \cup {orDefault(m.version, "dev")}
    <3>1. process.info.version = orDefault(process.binary.version, orDefault(m.version, "dev"))
      BY <2>5
    <3>2. QED BY <2>6, <3>1 DEF orDefault
  <2>8. QED BY <2>4, <2>5, <2>7
<1>2. QED BY <1>1, InvHolds, PTL

(* There are n numbers from 1 to n.                                        *)
LEMMA NumbersAreCounted ==
  ASSUME NEW n \in Nat
  PROVE  IsFiniteSet(1 .. n) /\ Cardinality(1 .. n) = n
BY FS_Interval

(* Distinct values numbered from 1 to n are n.                             *)
LEMMA DistinctAreCounted ==
  ASSUME NEW n \in Nat, NEW r, r = [i \in 1 .. n |-> r[i]],
         \A i, j \in 1 .. n : r[i] = r[j] => i = j
  PROVE  Cardinality({r[i] : i \in 1 .. n}) = n
<1> DEFINE S == {r[i] : i \in 1 .. n}
<1>1. IsFiniteSet(1 .. n) /\ Cardinality(1 .. n) = n
  BY NumbersAreCounted
<1>2. r \in [1 .. n -> S]
  OBVIOUS
<1>3. \A t \in S : \E i \in 1 .. n : r[i] = t
  OBVIOUS
<1> HIDE DEF S
<1>4. r \in Bijection(1 .. n, S)
  BY <1>2, <1>3, Fun_IsBij
<1>5. ExistsBijection(1 .. n, S)
  BY <1>4 DEF ExistsBijection
<1>6. QED BY <1>1, <1>5, FS_Bijection DEF S

(* No component that a manifest selects takes another's place.             *)
THEOREM NothingLostCorrect == Spec => []NothingSelectedIsLost
<1>1. ASSUME Inv PROVE NothingSelectedIsLost
  <2> DEFINE m == process.binary.of
  <2>1. SUFFICES ASSUME Assembled, m # Nothing, NEW s \in Sections
                 PROVE  Cardinality(process.factories[s]) = Len(m.parts[s])
    BY DEF NothingSelectedIsLost
  <2>2. Compiled(process.binary) /\ Registers(process)
    BY <1>1, <2>1, AssembledRegisters
  <2>3. process.binary.components = TmplData(m) /\ m \in Manifests
    BY <2>1, <2>2 DEF Compiled
  <2> DEFINE part == m.parts[s]
             r == [i \in DOMAIN part |-> Catalogue[part[i].path]]
  <2>4. Registered(process.binary.components, s) = r
    BY <2>3, SelectionIsRegistered
  <2>5. DOMAIN part = 1 .. Len(part) /\ Len(part) \in Nat
    BY <2>3, InputAssumption, LenProperties DEF IsList
  <2>6. DOMAIN r = 1 .. Len(part) /\ r = [i \in 1 .. Len(part) |-> r[i]]
    BY <2>5
  <2> HIDE DEF r, part
  <2>7. process.factories[s] = {r[i] : i \in 1 .. Len(part)}
    BY <2>2, <2>4, <2>6 DEF Registers, FactoryMap
  <2>8. \A i, j \in 1 .. Len(part) : r[i] = r[j] => i = j
    <3>1. ~Duplicates(r)
      BY <2>2, <2>4 DEF Registers
    <3>2. SUFFICES ASSUME NEW i \in 1 .. Len(part), NEW j \in 1 .. Len(part), r[i] = r[j], i # j
                   PROVE  FALSE
      OBVIOUS
    <3>3. i < j \/ j < i
      BY <2>5, <3>2
    <3>4. QED BY <2>6, <3>1, <3>2, <3>3 DEF Duplicates
  <2>9. Cardinality(process.factories[s]) = Len(part)
    BY <2>5, <2>6, <2>7, <2>8, DistinctAreCounted
  <2>10. QED BY <2>9 DEF part
<1>2. QED BY <1>1, InvHolds, PTL

--------------------------------------------------------------------------------
(* Settings.                                                               *)

(* Every package that can be imported is one of the repository's, or is a  *)
(* copy of one under another path: of a foreign factory nothing is known.  *)
OwnPackages == \A path \in DOMAIN Catalogue : Catalogue[path] \in OwnFactories

(* What an instance runs with.                                             *)
LEMMA InstanceIsOwn ==
  ASSUME OwnPackages, Inv, Assembled, NEW i \in DOMAIN process.instances
  PROVE  LET one == process.instances[i]
             raw == Raw(process.config, one.section, one.spelled)
         IN /\ one.factory \in OwnFactories /\ Decodes(one.factory, raw)
            /\ one.cfg = New(one.factory, Decoded(one.factory, raw))
<1> DEFINE one == process.instances[i]
           data == process.binary.components
<1>1. Compiled(process.binary) /\ Registers(process) /\ Made(process.config, process.factories, one)
  BY AssembledRegisters DEF Builds
<1>2. one.section \in Sections /\ one.factory \in process.factories[one.section]
  BY <1>1 DEF Made
<1>3. PICK m \in Manifests : data = TmplData(m)
  BY <1>1 DEF Compiled, Renderings
<1> DEFINE s == one.section
           part == m.parts[s]
<1> HIDE DEF s, part
<1>4. PICK n \in DOMAIN part : one.factory = Catalogue[part[n].path]
  <2>1. process.factories[s] = FactoryMap(Registered(TmplData(m), s))
    BY <1>1, <1>2, <1>3 DEF Registers, s
  <2>2. Registered(TmplData(m), s) = [k \in DOMAIN part |-> Catalogue[part[k].path]]
    BY <1>2, SelectionIsRegistered DEF s, part
  <2>3. one.factory \in FactoryMap([k \in DOMAIN part |-> Catalogue[part[k].path]])
    BY <1>2, <2>1, <2>2 DEF s
  <2>4. QED BY <2>3 DEF FactoryMap
<1>5. part[n].path \in DOMAIN Catalogue
  <2>1. data.parts[s] = toTmpl(part)
    BY <1>2, <1>3 DEF TmplData, s, part
  <2>2. n \in DOMAIN toTmpl(part) /\ toTmpl(part)[n].import = part[n].path
    BY <1>4 DEF toTmpl
  <2>3. <<s, n>> \in Entries(data) /\ Entry(data, <<s, n>>).import = part[n].path
    BY <1>2, <2>1, <2>2 DEF Entries, Entry, s
  <2>4. \A d \in Entries(data) : Entry(data, d).import \in DOMAIN Catalogue
    BY <1>1 DEF Compiled, Compiles
  <2>5. QED BY <2>3, <2>4
<1>6. one.factory \in OwnFactories
  BY <1>4, <1>5 DEF OwnPackages
<1>7. QED BY <1>1, <1>6 DEF Made

(* What the file gives an instance are the keys of its entry that count.   *)
LEMMA GivenCounts ==
  ASSUME NEW one
  PROVE  LET raw == Raw(process.config, one.section, one.spelled)
             keys == Counting(one.factory.zero, Mattering(one.factory), raw)
         IN Given(one) = [k \in keys |-> raw[k]]
<1> DEFINE raw == Raw(process.config, one.section, one.spelled)
<1>1. ASSUME NEW k PROVE EmptyMatters(one, k) <=> k \in Mattering(one.factory)
  BY DEF EmptyMatters, Mattering, Endpoints
<1>2. {k \in DOMAIN raw : raw[k] # one.factory.zero[k] \/ EmptyMatters(one, k)}
      = Counting(one.factory.zero, Mattering(one.factory), raw)
  BY <1>1 DEF Counting
<1>3. QED BY <1>2 DEF Given

(* With the repository's components, every instance runs with what the     *)
(* file gives it and is otherwise like any other of its type.              *)
THEOREM SettingsCorrect ==
  ASSUME OwnPackages
  PROVE  Spec => []SettingsFollowTheFile
<1>1. ASSUME Inv PROVE SettingsFollowTheFile
  <2>1. SUFFICES ASSUME process.phase = "serving", NEW i \in DOMAIN process.instances
                 PROVE
    LET one == process.instances[i]
    IN /\ \A k \in DOMAIN Given(one) \cap DOMAIN one.cfg :
            Given(one)[k] # one.factory.zero[k] => one.cfg[k] = Given(one)[k]
       /\ \A j \in DOMAIN process.instances :
            LET other == process.instances[j]
            IN Is(one.factory, other.factory) /\ DOMAIN Given(one) = DOMAIN Given(other)
               /\ (\A k \in DOMAIN Given(one) : Given(one)[k] = Given(other)[k])
               => one.cfg = other.cfg
    BY DEF SettingsFollowTheFile
  <2>2. Assembled
    BY <2>1 DEF Assembled
  <2> DEFINE one == process.instances[i]
             f == one.factory
             raw == Raw(process.config, one.section, one.spelled)
  <2>3. f \in OwnFactories /\ Decodes(f, raw) /\ one.cfg = New(f, Decoded(f, raw))
    BY <1>1, <2>2, InstanceIsOwn
  <2>4. /\ DOMAIN Given(one) = Counting(f.zero, Mattering(f), raw)
        /\ \A k \in DOMAIN Given(one) : Given(one)[k] = raw[k]
    BY GivenCounts
  <2>5. ASSUME NEW k \in DOMAIN Given(one) \cap DOMAIN one.cfg, Given(one)[k] # f.zero[k]
        PROVE  one.cfg[k] = Given(one)[k]
    <3>1. k \in DOMAIN raw /\ raw[k] # f.zero[k] /\ Given(one)[k] = raw[k]
      BY <2>4, <2>5 DEF Counting
    <3>2. k \in DOMAIN New(f, Decoded(f, raw))
      BY <2>3, <2>5
    <3> HIDE DEF f, raw, one
    <3>3. New(f, Decoded(f, raw))[k] = raw[k]
      BY <2>3, <3>1, <3>2, OwnKeep
    <3>4. QED BY <2>3, <3>1, <3>3
  <2>6. ASSUME NEW j \in DOMAIN process.instances,
               Is(f, process.instances[j].factory),
               DOMAIN Given(one) = DOMAIN Given(process.instances[j]),
               \A k \in DOMAIN Given(one) : Given(one)[k] = Given(process.instances[j])[k]
        PROVE  one.cfg = process.instances[j].cfg
    <3> DEFINE other == process.instances[j]
               g == other.factory
               its == Raw(process.config, other.section, other.spelled)
    <3>1. g \in OwnFactories /\ Decodes(g, its) /\ other.cfg = New(g, Decoded(g, its))
      BY <1>1, <2>2, InstanceIsOwn
    <3>2. /\ DOMAIN Given(other) = Counting(g.zero, Mattering(g), its)
          /\ \A k \in DOMAIN Given(other) : Given(other)[k] = its[k]
      BY GivenCounts
    <3>3. f = g
      BY <2>3, <2>6, <3>1, OwnAreDistinct
    <3> HIDE DEF f, g, raw, its
    <3>4. Agree(f.zero, Mattering(f), raw, its)
      BY <2>4, <2>6, <3>2, <3>3 DEF Agree
    <3>5. New(f, Decoded(f, raw)) = New(f, Decoded(f, its))
      BY <2>3, <3>1, <3>3, <3>4, OwnAgree
    <3>6. QED BY <2>3, <3>1, <3>3, <3>5
  <2>7. QED BY <2>5, <2>6
<1>2. QED BY <1>1, InvHolds, PTL
================================================================================
