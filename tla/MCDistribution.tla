----------------------------- MODULE MCDistribution -----------------------------
(* Manifests, packages and configurations of Distribution for TLC.         *)
EXTENDS Distribution

Fork == "fork/lokidispatcher"
Remake == "remake/logs"

MCCatalogue ==
  [p \in {"otqpacceptor", "prometheusacceptor", "lokiacceptor", "elasticsearchacceptor",
          "authratelimitprocessor", "tenantprocessor", "simpleauthzprocessor",
          "queryrewriteprocessor", "responsefilterprocessor", "prometheusdispatcher",
          "lokidispatcher", "elasticsearchdispatcher", "crosssignalconnector", Fork, Remake} |->
     CASE p = "otqpacceptor" -> OTQPAcceptor
       [] p = "prometheusacceptor" -> PrometheusAcceptor
       [] p = "lokiacceptor" -> LokiAcceptor
       [] p = "elasticsearchacceptor" -> ElasticsearchAcceptor
       [] p = "authratelimitprocessor" -> AuthRateLimit
       [] p = "tenantprocessor" -> TenantProcessor
       [] p = "simpleauthzprocessor" -> SimpleAuthz
       [] p = "queryrewriteprocessor" -> QueryRewrite
       [] p = "responsefilterprocessor" -> ResponseFilter
       [] p = "prometheusdispatcher" -> PrometheusDispatcher
       [] p = "elasticsearchdispatcher" -> ElasticsearchDispatcher
       [] p = "crosssignalconnector" -> CrossSignal
       [] OTHER -> LokiDispatcher]

(***************************************************************************)
(* Manifests: the repository's builder.yaml; a smaller distribution of     *)
(* another name and version; a fork whose alias is that of the original; a *)
(* remake of the same type under an alias of its own; one of another       *)
(* module; an empty gomod; a version that no string literal can hold; a    *)
(* dispatcher among the processors; one without a module.                  *)
(***************************************************************************)
Of(path) == [path |-> path, base |-> <<path, "">>, suffix |-> ""]
Pinned(path) == [Of(path) EXCEPT !.suffix = "@v1"]

Parts(acceptors, processors, dispatchers, connectors) ==
  [acceptors |-> acceptors, processors |-> processors,
   dispatchers |-> dispatchers, connectors |-> connectors]
Manifest(name, version, parts) ==
  [legible |-> TRUE, module |-> "querier", name |-> name, version |-> version, parts |-> parts]

Whole ==
  Parts(<<Of("otqpacceptor"), Of("prometheusacceptor"), Of("lokiacceptor"), Of("elasticsearchacceptor")>>,
        <<Of("authratelimitprocessor"), Of("tenantprocessor"), Of("queryrewriteprocessor"),
          Of("responsefilterprocessor"), Of("simpleauthzprocessor")>>,
        <<Of("prometheusdispatcher"), Of("lokidispatcher"), Of("elasticsearchdispatcher")>>,
        <<Of("crosssignalconnector")>>)
Storages(dispatchers) == Parts(<<Of("otqpacceptor")>>, <<>>, dispatchers, <<>>)

MCManifests ==
  { Manifest("", "", Whole),
    Manifest("slim", "v2", Storages(<<Pinned("lokidispatcher")>>)),
    Manifest("slim", "v2", Storages(<<Of("lokidispatcher"),
                              [path |-> Fork, base |-> <<"lokidispatcher", "-">>, suffix |-> ""]>>)),
    Manifest("slim", "v2", Storages(<<Of("lokidispatcher"), Of(Remake)>>)),
    [Manifest("slim", "v2", Storages(<<Of("lokidispatcher")>>)) EXCEPT !.module = "fork"],
    Manifest("slim", "v2", Storages(<<[path |-> "", base |-> <<"", ".">>, suffix |-> ""]>>)),
    Manifest("", "quoted", Whole),
    Manifest("", "", Parts(<<Of("otqpacceptor")>>, <<Of("lokidispatcher")>>, <<>>, <<>>)),
    [Manifest("", "", Whole) EXCEPT !.module = ""] }

(***************************************************************************)
(* Configurations. Wide refers to every component three times: with        *)
(* settings, with every key spelled out as zero, and without an entry.     *)
(***************************************************************************)
Nil == [k \in {} |-> k]
Id(typ) == [typ |-> typ, name |-> "", slash |-> FALSE, padded |-> FALSE]
Named(typ, name) == [typ |-> typ, name |-> name, slash |-> TRUE, padded |-> FALSE]

Own(factory) ==
  CASE factory = "otqpacceptor" -> [grpc_endpoint |-> ":1", http_endpoint |-> ""]
    [] factory = "authratelimitprocessor" -> [requests_per_second |-> 5, per_tenant |-> TRUE]
    [] factory = "tenantprocessor" -> [required |-> TRUE, enforce_label |-> "tenant"]
    [] factory = "queryrewriteprocessor" -> [enforce_labels |-> <<"tenant">>]
    [] factory = "responsefilterprocessor" -> [drop_labels |-> {"secret"}]
    [] factory = "simpleauthzprocessor" ->
         [default_effect |-> "allow", rules |-> <<[effect |-> "", names |-> {"tenant"}]>>]
    [] factory = "prometheusdispatcher" -> [endpoint |-> "", timeout |-> -1]
    [] factory = "lokidispatcher" -> [limit |-> 7, direction |-> "forward"]
    [] factory = "elasticsearchdispatcher" -> [size |-> -1, index |-> "logs"]
    [] factory = "crosssignalconnector" -> Nil
    [] OTHER -> [endpoint |-> ":2"]

(* Zero, but for the endpoint whose emptiness prometheus takes at its word. *)
Zeroed(factory) ==
  [k \in DOMAIN factory.zero \ (IF Is(factory, PrometheusDispatcher) THEN {"endpoint"} ELSE {}) |->
     factory.zero[k]]

Packages(s) == {Whole[s][i].path : i \in DOMAIN Whole[s]}
TypeOf(p) == MCCatalogue[p].type
Spelled(p) == {Named(TypeOf(p), n) : n \in {"zero", "own"}}
PackageOf(s, spelled) == CHOOSE p \in Packages(s) : TypeOf(p) = spelled.typ

WideSection(s) ==
  [spelled \in UNION {Spelled(p) : p \in Packages(s)} |->
     LET p == PackageOf(s, spelled)
     IN IF spelled.name = "zero" THEN Zeroed(MCCatalogue[p]) ELSE Own(p)]

Refs(s) ==
  LET three(p) == <<<<s, Named(TypeOf(p), "own")>>, <<s, Named(TypeOf(p), "zero")>>,
                    <<s, Id(TypeOf(p))>>>>
      all[n \in 0..Len(Whole[s])] ==
        IF n = 0 THEN <<>> ELSE all[n - 1] \o three(Whole[s][n].path)
  IN all[Len(Whole[s])]

Wide ==
  [legible |-> TRUE, sections |-> [s \in Sections |-> WideSection(s)],
   refs |-> Refs("acceptors") \o Refs("processors") \o Refs("dispatchers")
            \o <<<<"dispatchers", Named("crosssignal", "own")>>,
                 <<"acceptors", Named("crosssignal", "own")>>,
                 <<"dispatchers", Named("crosssignal", "zero")>>>>]

(* One reference and the entry it is spelled like, beside an acceptor.     *)
One(role, spelled, raw) ==
  [legible |-> TRUE,
   sections |-> [s \in Sections |-> IF s = role THEN [x \in {spelled} |-> raw] ELSE [x \in {} |-> Nil]],
   refs |-> <<<<role, spelled>>, <<"acceptors", Id("otqp")>>>>]

MCConfigs ==
  { Wide,
    [Wide EXCEPT !.legible = FALSE],
    One("dispatchers", Id("loki"), Nil),
    One("dispatchers", [Id("loki") EXCEPT !.padded = TRUE], [limit |-> 9]),
    One("dispatchers", Id(""), Nil),
    One("dispatchers", Id("Loki"), Nil),
    One("dispatchers", Named("loki", ""), Nil),
    One("dispatchers", Id("loki"), [limits |-> 1]),
    One("dispatchers", Id("loki"), [limit |-> -1]),
    One("dispatchers", Id("loki"), [direction |-> "sideways"]),
    One("processors", Id("simpleauthz"), [default_effect |-> "alow"]),
    One("processors", Id("simpleauthz"), [rules |-> <<[effect |-> "allow", names |-> {""}]>>]) }
================================================================================
