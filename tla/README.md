# A verification project for the OpenTelemetry Querier

The querier takes queries over several APIs (OTQP over gRPC and HTTP, and the
native APIs of Prometheus, Loki and Elasticsearch), turns each into one
structured plan, runs it through a configured pipeline of processors and hands
it to a storage backend in the backend's own language, or, through a
cross-signal connector, to two pipelines whose results it joins.

This directory holds TLA+ modules translated from the Go source in `src/`, TLC
configurations that check them on small instances, and TLAPS proofs. Paths
below are relative to `src/`. `PROJECT.json` maps every definition to the lines
it models and lists the runs, the theorems, the hazards and the findings.

- [1. The system](#1-the-system)
- [2. The modules](#2-the-modules)
- [3. The runs](#3-the-runs)
- [4. The proofs](#4-the-proofs)
- [5. Where code and documentation disagree](#5-where-code-and-documentation-disagree)
- [6. What is not modelled](#6-what-is-not-modelled)
- [7. Plan](#7-plan)

To check: `tlc -workers 2 -config <cfg> <module>` for a run (section 3 names
the module), `tlapm <module>` for each of the eight modules of section 4.

## 1. The system

| Component | State | Operations | Modelled in |
|---|---|---|---|
| Rate limiter, `processor/authratelimitprocessor` | per limiter: a mutex, a map from key to entry, an LRU list through the entries, an admission bucket | `ProcessQuery` (bearer check, then `allow`), `allow`, `touch`, `pushFront`, `unlink`, `evictOldest`, `take`, `boundKey` | TokenBucket, RateLimiter, LimiterList; its verdict in Processors |
| Tenant, `processor/tenantprocessor` | none; writes the query's metadata and enforced matchers | `ProcessQuery` | Processors, QueryPath |
| Authorization, `processor/simpleauthzprocessor` | none; writes the subject and enforced matchers | `ProcessQuery`: subject, first matching rule, default effect | Processors, QueryPath |
| Rewrite, `processor/queryrewriteprocessor` | none; writes the Selects of the plan | `ProcessQuery`, `composeEnforcement`, `conjoin` | Processors, QueryPath, Plans |
| Response filter, `processor/responsefilterprocessor` | none; writes the result | `ProcessResult`: drop and mask | Processors, QueryPath |
| Pipeline, `pipeline` | its chain, its terminal | `Handle` (validate, chain forwards, terminal, chain backwards), `Start`, `Shutdown` | QueryPath, Service |
| Ingress, `acceptor/ingress.go` | none | `PrepareIngress`, `sanitize`, `injectHeaders` | QueryPath |
| Cross-signal connector, `connector/crosssignalconnector` | its targets | `Dispatch`: one signal, or two sides one after the other and a join | QueryPath |
| Join, `connector/crosssignalconnector/join.go` | none | normalization, keys, inner and anti join, merged rows, columns and feedback; `RenderTable` of `qdata` shows the result | JoinTables |
| Query plans, `qdata` | none | constructors, validation, flattening, signals | Predicate, Plans |
| Query languages, the parsers in `acceptor/*` and the renderers in `dispatcher/*` | none | text to plan, plan to text | Readings, Lucene, LogQL, QueryPlan |
| Acceptors and dispatchers | an HTTP server or client each | parse, hand over, render; request, wait, decode | Exchange; Start and Shutdown in Service |
| Errors, `qerror` | none | codes, HTTP statuses, gRPC codes | QueryPath, Exchange |
| Distribution builder, `cmd/builder` | the files `components.go` and `main.go` | `loadManifest`, `toTmpl`, `render` twice | Distribution |
| Components, `component`, the `factory.go` and `New` of every package, `querier/config.go` | a Config per instance | ids, registration, `decodeStrict`, defaults, validation, `New` | Components, Distribution |
| Service, `querier`, `cmd/querier` | pipelines, connector targets, acceptors and their owners | `LoadConfig`'s checks, `Build`, `Start`, `Shutdown`, `main` | Service |

**How they interact.** Everything is a call of one goroutine per request. An
acceptor parses a request into a `qdata.Query`, `PrepareIngress` removes what
only the pipeline may write and puts the headers of the transport in, and
`Pipeline.Handle` validates the plan, runs `ProcessQuery` of each processor,
calls the terminal and runs `ProcessResult` in reverse. The terminal is a
dispatcher, which blocks in an HTTP call, or the connector, which calls `Handle`
of another pipeline once or, for a join, twice in sequence. Processors talk to
each other through the query: the tenant and subject in its metadata (one Go map
that a query and its sub-queries share), matchers registered in
`EnforcedMatchers` and consumed by a later rewrite, predicates written into the
Selects of the plan tree. Requests share only the rate limiters, one mutex each,
and the life cycle of the service.

**What is hard here.** The order of processors in chains that an operator
writes, split over a front pipeline and the pipelines behind the connector;
headers that a message may bring itself, in any case; what is shared by
reference between the sides of a join; a hand-written linked list under a mutex;
a token bucket that must not lose or double the refill; an eviction that must
not be worth provoking; names that a join renames after a filter looked at them;
the map iteration order in `Build`; requests that arrive while the service
starts or stops; the ten seconds of `Shutdown` against calls that last longer; a
query that is parsed, enforced and rendered by three pieces of code that must
agree on its meaning; backends that fail, answer in part or never; lines and
series that are regrouped on their way without taking each other's labels; a
build that stops between its two files; settings that pass two layers of
defaults. The hazards in `PROJECT.json` place each at its line.

**What makes each component correct.**

- *Rate limiter*: no key gets more than rate and burst allow, a refusal costs
  nothing, memory is bounded, eviction hits the key whose last call is the
  longest ago, refused or not, and minting buckets is paid for, under every
  interleaving, and every call returns.
- *Processors, pipeline, connector*: storage is read only for requests every
  gate admits, as the tenant that the query's own path resolves from the
  transport's headers, whatever the message claims, with every matcher that was
  registered and rewritten, and answers are scrubbed.
- *Join*: rows are paired exactly when they agree on the keys, no attribute or
  warning is lost, the schema covers the rows, the client is shown all of it.
- *Parsers, plans, renderers*: what is shipped means what was asked, narrowed
  by the enforcement, or is refused.
- *Acceptors and dispatchers*: windows and limits arrive, failures are errors,
  successes complete, partial results marked, every entry keeps its labels,
  every request is answered.
- *Builder and components*: a program registers exactly what the last complete
  run of the builder selected; an instance runs with the settings the file gives
  it and no others.
- *Service*: it builds what is valid, wires it as configured in every order,
  serves queries from running pipelines only, and ends when told to.

## 2. The modules

```
TokenBucket            <- RateLimiter                     RateLimiterProofs
                            ^ (refines)
TokenBucket            <- LimiterList   <- MCLimiterList  LimiterListProofs
Lists, Processors      <- QueryPath     <- MCQueryPath    QueryPathProofs
                          JoinTables    <- MCJoinTables   JoinTablesProofs
Lists, Components      <- Distribution  <- MCDistribution DistributionProofs
Lists                  <- Service       <- MCService      ServiceProofs
PlanNodes <- Predicate <- Plans <- QueryPlan
  <- Exchange          <- ExchangeMeaning <- MCExchange   ExchangeProofs
Readings, Predicate    <- Lucene  <- MCExchange
Readings, Plans        <- LogQL   <- MCExchange
```

An arrow points to the module that is extended; each module on the right holds
the theorems about the component of its row and extends it. Most of these also
extend **ProofBasics**, the lemmas that several of them need (section 4).

The modules divide the system along its seams. QueryPath leaves the limiter's
verdict, the join's rows and the backend's language open (a nondeterministic
choice, cells with their origin, and a storage that is read with a set of
matchers); LimiterList, JoinTables and Exchange fill each of them in. Service
keeps of a query only the stack of pipelines it is in, and starts where
Distribution ends: with instances that could be built.

**TokenBucket** holds `bucket.take`, `entry` and the audit of calls that the
properties need. Tokens are counted in fractions of a token so that a clock tick
earns exactly one: `Cost` fractions make a token. Rounding of Go's floats is
left out. **RateLimiter** is the abstract specification of `limiter.allow`: a
function from keys to entries with a recency stamp, and one action per path
through `allow` (resident key, new key with room, new key refused by the
admission bucket, new key that evicts the idlest). **LimiterList** is the code:
the map, the list's `head`, `tail`, `prev` and `next`, the mutex, goroutines
that wait for it and read the clock under it, ids and the keys `boundKey` makes
of them. Its property `ImplementsPromise` is RateLimiter's `Spec` under the
mapping `clock <- latest`, the instant of the last call that returned. `heard`
is a history beside the code's state: the last call in which each key had a
bucket. Against it, not against the stamps, `ForgetsTheIdlest` judges who is
evicted.

**Lists** says what a list of a configuration is, and what a loop over one that
passes over some of its elements gets to. **Processors** has the four
processors' decisions as operators. **QueryPath** runs them: `stack` is the Go
call stack of `Handle`, `metadata` a reference to one of the maps in `map` (so
that sharing is visible), `enforced` and `filter` what processors register and
what rewrites weave in, `seen` the history the properties speak of: what was
demanded of which query, charged to which tenant and read for which query.
`headers` has the first value under each spelling of a name: `Init` has those
that the message brings, and `Receive`, which is `PrepareIngress`, clears them
with the other fields that are not the client's (`sanitize`) and puts the
transport's in, each in place of the same name in any case (`injectHeaders`).
`Found` is `headerValue`: it takes the first spelling that a map iteration
brings. Every other action is one call too: `Validate` the head of `Handle`,
`RunTenant` .. `RunFilter` one processor, `ConnectSingle`, `ConnectLeft`,
`ConnectRight` and `Join` the connector. Any storage may fail, and a plan that
selects nothing (a literal) is served where the dispatcher renders it.

**JoinTables** is `join.go` step by step: mode, normalization of either side,
keys, and one merged row at a time. A name or text is a sequence of parts, so
that prefixes (`right_`, `label_`) and key tuples that run together are what
they are in the code. The order of a Go map is a choice. `Render` is `qdata`'s
`RenderTable`, in which raw JSON that is not JSON becomes a string. The doors
that call it take queries of one signal, so a joined table leaves by OTQP, which
encodes it itself: `RenderingShowsEveryCell` is about the function, for any
table.

**PlanNodes** has the nodes of a plan, **Predicate** the validation and meaning
of its filters, **Plans** `ValidatePlan`, and the rewrite's `conjoin` and
`composeEnforcement`. Filters, plans and the trees of texts come in levels: a
level has the nodes whose children are of the level below, and every operator
over them is a recursive function of their set, not a RECURSIVE operator, so
that it can be proved about. What a request brings has at most `Depth` levels;
the rewrite adds one to a filter and rendering a search two more, which is why
`Predicate` goes to `Depth + 3`. `Depth` is any number from 2 on: a text is
finite, and so is a message (Go's protobuf decoder gives up on deep nesting), so
there is a `Depth` above each request. `String` stands for the set of strings.
**Readings** is what the two hand-written parsers have in common: an operator
that reads from the front of a sequence of tokens gives the set of its readings,
at most one, each with the tokens that are left. **Lucene** is the parser of the
search door, from lexemes (bare words, quoted phrases, the characters
`punctToken` knows) to a predicate: `Tokens` is `tokenizeLucene`, and each
`Parse...` operator the method of that name. **LogQL** is the parser of the Loki
door in the same way, from lexemes (quoted texts, numbers, spans of time, names,
brackets and operators) to a plan. **QueryPlan** has no state either: trees for
the texts of all languages, the Prometheus acceptor (`PromQLPlans`), the
renderers (`Rendered`), and a meaning for both texts and plans: the series a
query computes, each with the records it was computed from. Labels and documents
have meanings of their own. A label that is not there reads as empty, and a line
filter asks for lines that contain a text (`LinePasses`, which is what
`query.proto` says of `LineMatch`). Elasticsearch matches what it has indexed
(`Hit`, `Indexed`): a field that is not there is matched by nothing, a `term` or
`regexp` on the message with one of its terms, a `match_phrase` with a run of
them. `LineClause` is `lineToES` with these clauses. What the terms and phrases
of a line are depends on the analyzer of the index, so `Terms` and `Phrases` are
parameters, like `Substrings`. A `Written` text has
its tree and the lexemes that spell it, so that a parser works on what was
written and the meaning is the grammar's; PromQL, whose parser is a library's,
starts at the tree.

**Exchange** takes one request through the doors and the dispatchers: `Accept`
or `BadRequest` in the acceptor, `Ship` or `RefuseToShip` (validation, rewrite
and the dispatcher up to `client.Do`), `Respond` by the backend or `GiveUp`,
`Decode` or `DecodeError`, and `Render`. Doors are the three native APIs and
OTQP over gRPC and over HTTP, which differ in the codes of an error. What a
response lists are entries with labels, of their stream or series, and metadata
of one line; the Loki door groups them by the text `labelKey` makes. Through
OTQP a Query is carried as it is, with the `streaming` context, excluded bounds,
offset and lookback that no dispatcher looks at. `TimerRuns` says of a
configured timeout whether the dispatcher's client has a timer: `New` puts the
default in place of zero, and a negative setting stays and means none.
Validation, rewrite, renderers and the PromQL converter are QueryPlan's; the two
recursive-descent parsers are parameters (`LogQLPlans`, `LucenePredicates`),
which the cfg sets to `ParseLogQL` and `ParseLucene`, because their operators
recur over tokens. **ExchangeMeaning** states what all of them must do together.

**Components** has the vocabulary of a distribution: types and ids with their
parsing, and of every package the Config's zero value, what
`createDefaultConfig` sets, what `New` makes of it and what `Validate` refuses.
**Distribution** is `cmd/builder` (`LoadManifest`, then a `Render` per file in
the order a Go map picks; `RenderFails` and `Interrupted` end a run anywhere),
the tool chain (`Compile`, external), and the start of the program:
`LoadConfig`, `RegisterComponents` (the generated function), one `BuildNext` per
reference.

**Service** is `main`, `Build`, `Start` and `Shutdown`: each loop of `Build`
over a Go map is a nondeterministic visit of what is left, each listener and
each shutdown step an action of its own, with two client calls that may arrive
at any listener at any time. Listeners are bound and shut down in an order:
`BindsBefore` and `StopsBefore` say it of any two (the OTQP acceptor binds gRPC
first and shuts HTTP down first).

## 3. The runs

All cfgs bind small sets; "states" are distinct ones. Each property of a
passing run has a mutation of a modelled definition in `PROJECT.json` that
violates it under the same cfg.

| Run | Module, cfg | What it shows |
|---|---|---|
| `limiter_churn` | RateLimiter, `RateLimiter_Churn` | Three keys for two buckets, so every path of `allow` occurs and an evicted key returns: rates, memory and eviction hold, and admitted calls are bounded by the slots and the mints. |
| `limiter_threads` | MCLimiterList, `LimiterList_Threads` | Two goroutines, four ids, three buckets (an entry can be unlinked from the middle of the list): the list is the recency order, the key that is forgotten is the one heard of the longest ago, the code implements RateLimiter, every call returns. |
| `path_chains` | MCQueryPath, `QueryPath_Chains` | 30 configurations (the chain of `config.yaml`, looser ones and none in front; masking, gated and isolating pipelines behind) and 176 requests whose messages claim another tenant, subject and token, in fields and as headers in two spellings: reads are admitted, enforced and made as the right tenant, answers are scrubbed. |
| `join_rows` | MCJoinTables, `JoinTables_Rows` | Joins of metrics, logs and tables of up to two rows with colliding names, missing keys and texts that run together: rows pair exactly when they agree, schema, attributes and warnings survive, and the layout shows every cell. |
| `exchange` | MCExchange, `Exchange` | About 13,300 requests, each of the five doors to each of the three backends, with four enforcements and all kinds of responses; windows with and without modifiers, timers by default and switched off; searches in three spellings and LogQL texts in four each, and some 60 texts that the grammars do not have. What is shipped means what was asked, windows and limits hold, failures are not successes, entries keep their labels, every request is answered. |
| `distribution` | MCDistribution, `Distribution` | Nine manifests (the repository's, a fork with the same alias, a second package of one type, another module, texts that break the generated code), two runs of the builder that may stop anywhere, a compilation at any moment, and twelve configurations, one of which refers to every component three times: with settings of its own, with every key spelled out as zero, and without an entry. |
| `service_life` | MCService, `Service` | Fifteen configurations built in every order of map iteration, started, used and shut down: what is valid is built and wired, running pipelines serve, `main` returns after answering. |
| `limiter_flood`, `path_launder`, `path_scope`, `path_tenant`, `exchange_offset` | | Counterexamples to statements of the documentation, section 5. |

**Why the bounds are enough.** The limiter's paths depend on whether a key is
resident, the map full and a bucket empty; two buckets and three keys reach all
combinations, three buckets give the list a middle, and the calls are enough to
empty a bucket, refill it and evict its key again (`MaxCalls` and `MaxClock` are
bounds of the model, in its guards). `Handle` nests at most once, which Service
checks (`ConnectorsReachLeaves`), so two signals and one front pipeline are all
there is of a join. A pair of a join depends on two rows, and a side needs a
second one to be confused with. A renderer or parser works on one node at a time
and reads a node's children only through their text or kind; the plans and trees
are up to four nodes deep (`Depth = 4`), every node kind occurs, and the storage
tells apart two tenants, present and absent labels, and lines, one of them of
two words, so that a part of a word, a word and a phrase are found by different
filters. The Lucene
predicates nest every operator under every other, so each level of the descent
occurs inside and outside of parentheses; every LogQL tree is spelled with its
groupings on either side and with its commas in and out of place. Four entries
are a line, its twin that is torn, its neighbour with metadata and one of
another stream with the same key. Two client calls are enough for one to be
answered and one not when a listener closes. Two runs of the builder (`MaxRuns`)
leave every mix of two manifests on disk; an instance can only inherit from one
built before it, and the wide configuration builds three of each type.

**Fairness.** Safety runs assume none. `limiter_threads` assumes that a
goroutine holding the mutex runs on and that `sync.Mutex` does not starve a
waiter (its starvation mode hands the lock over): weak fairness of `Allow`,
strong of `Lock`. `exchange` assumes that a request's goroutine is scheduled
and that the timer of the dispatcher's `http.Client` fires where it has one
(`TimerRuns`: `New` sets a timeout where the configuration has none, and only a
negative setting turns it off); nothing is assumed of the backend.
`EveryAskIsAnswered` therefore excepts a request whose timer is off and whose
backend never answers, and no other.
`service_life` assumes that `main`, the request goroutines and the shutdown
context's timer run; not that signals come or that a client sends the rest of a
call, which is why `ShutdownEnds` excludes a gRPC call that stays open for
ever. Where a run disables the deadlock check the model ends: a request is
answered, or a bound on calls is reached.

**Exceptions the properties name.** They are facts about the code a reader
should know. `ShippedMeansAsked` leaves out the requests that the code ships
with another meaning (`Lossy`). Between languages of labels these are:

- a binary node with vector matching to Loki (the renderer leaves it out);
- `without ()` and a `topk` without parameter in LogQL (the parser reads no
  grouping and 0);
- a window that is no multiple of a millisecond (cut);
- texts that a parser takes and its language does not have (`Overread`): a
  second grouping after a `by ()` in front of the parentheses, and a Lucene text
  with an `AND` that no operand follows (`parseAnd` passes it over).

Between labels and documents they are:

- any line filter to Elasticsearch (`FiltersLines`): a `match_phrase` finds
  whole terms and an anchored `regexp` matches one term, where LogQL and
  `LineMatch` (proto/qdata/v1/query.proto:189-191) ask what the line contains;
- a matcher that accepts the empty text, from a door of labels to Elasticsearch
  or from the search door to a backend of labels: a label that is not there is
  empty, a field that is not there matches nothing;
- a matcher of `message` across the same border, and in an enforcement before
  Elasticsearch (`EnforcesOtherwise`, with the empty text as well): the backend
  matches single terms of the field;
- a phrase of the search door that its index would analyze into other terms
  (`SingleTerms` are the others): the phrase becomes a `term` query, which is
  not analyzed.

Commas that the LogQL parser lets pass, missing between the labels of a grouping
or trailing after a matcher, are taken to mean what they would mean in place.
`EntriesKeepTheirLabels` leaves out label sets that `labelKey` cannot tell
apart: `{a="1", b="2"}` and `{a="1,b=2"}` become one stream, under the labels of
whichever comes first. `WindowIsAsked` is about windows that are what their
bounds say (`IsPlainWindow`: no `streaming` context, excluded bound, offset or
lookback; for the others see `exchange_offset`), and treats a bound at the epoch
as left out, as the dispatchers do. `SuccessIsComplete` allows an Elasticsearch
body of any JSON object to be an empty success, and asks for the mark of a
partial response only at the doors that have a place for it.
`SettingsFollowTheFile` compares a key that is left out with an empty one except
where the code gives emptiness a meaning of its own: one of OTQP's two endpoints
(it switches the listener off, unless both are empty, when both get their
defaults) and the endpoint of the Prometheus dispatcher, which stays empty.
`UnambiguousNamesKeepEveryAttribute` requires that storages use no names that
the join's prefixes make of others. `RunningPipelinesServe` and
`ExitsAfterAnswering` except HTTP calls that outlive the ten seconds of
`Shutdown`.

## 4. The proofs

Every invariant that a passing run checks is a theorem as well, for every value
of the constants; two of them, about tenants, hold under a condition on the
configuration, one on the packages in the build, and one, about meanings, rests
on an assumption about two parsers, all given below. Each theorem is
`Spec => []P`, or the refinement, but for the four about the query languages
that `MeaningCorrect` rests on, which say what operators compute.

| Module | Theorems |
|---|---|
| `RateLimiterProofs` | `TypeCorrect`; `RateCorrect` (`KeyWithinRate`), `RefusalCorrect` (`RefusalsAreNotCharged`), `ChurnCorrect` (`MintsWithinRate`), `TotalCorrect` (`TotalWithinSlots`), `MemoryCorrect` (`BoundedMemory`) |
| `LimiterListProofs` | `TypeCorrect`; `RecencyCorrect` (`ListIsRecencyOrder`), `IdlestCorrect` (`ForgetsTheIdlest`), `ListImplementsPromise` (`Spec => ImplementsPromise`) |
| `QueryPathProofs` | `TypeCorrect`; `EnforcementCorrect` (`EnforcementReachesStorage`), `ScrubbingCorrect` (`AnswersAreScrubbed`), `TenantCorrect` (`TenantsAgree => ReadsAsOwnTenant`), `AdmissionCorrect` (`TenantsAgree => ReadsAreAdmitted`) |
| `JoinTablesProofs` | `TypeCorrect`; `SchemaCorrect` (`SchemaCoversRows`), `JoinCorrect` (`JoinsRowsThatAgree`), `WarningsCorrect` (`WarningsSurviveTheJoin`), `AttributesCorrect` (`UnambiguousNamesKeepEveryAttribute`), `RenderingCorrect` (`RenderingShowsEveryCell`) |
| `ServiceProofs` | `TypeCorrect`; `ConnectorsCorrect` (`ConnectorsReachLeaves`), `BuildCorrect` (`BuildAcceptsTheValid`), `WiringCorrect` (`WiringFollowsTheConfig`), `ServingCorrect` (`RunningPipelinesServe`), `ExitCorrect` (`ExitsAfterAnswering`) |
| `DistributionProofs` | `TypeCorrect`; `SelectionCorrect` (`RunsWhatWasSelected`), `NothingLostCorrect` (`NothingSelectedIsLost`), `SettingsCorrect` (`OwnPackages` implies `SettingsFollowTheFile`) |
| `ExchangeProofs` | `TypeCorrect`; `WindowCorrect` (`WindowIsAsked`), `LimitsCorrect` (`LimitsHold`), `SuccessCorrect` (`SuccessIsComplete`), `LabelsCorrect` (`EntriesKeepTheirLabels`), `MeaningCorrect` (`ShippedMeansAsked`); of operators: `EnforcementNarrows`, `ParsingComputes`, `RenderingComputes`, `SearchComputes` |

`ProofBasics` has lemmas only: induction and least and greatest elements of sets
of numbers, small lists, the stack with a call pushed on or popped off, and what
`Skipping` leaves of a list. The library's induction theorems take an operator
as parameter, which the provers at hand cannot instantiate; `NatInduct` states
induction for a set of numbers instead (a set with 0 and with the successor of
each member), and its users define the set.

### What the proofs assume

The named `ASSUME`s of the modules, which TLC evaluates on the values of each
run.

- *RateLimiter, LimiterList, TokenBucket*: keys, ids and goroutines are finite
  sets; the map's size, the cost of a call and the burst are positive (`New` and
  `LoadConfig` see to it); `Nil` is no key; a digest is an id that is short
  enough, and SHA-256 does not collide. The bounds on calls and time are
  numbers.
- *QueryPath*: every pipeline has a list of processors and every policy a list
  of rules, as viper decodes them; the connector's targets are signals, and the
  entry is a pipeline; a message may bring a tenant, a subject, matchers and any
  headers in any spelling, while a transport brings a header under one.
- *JoinTables*: names are finite in number and not empty; a text does not hold
  the delimiter of the key, which the code calls "chosen to not appear"; a cell
  is a text, none, or raw JSON that is malformed.
- *Service, Distribution*: what is unmarshalled as a list is one, a reference is
  to a component of one of the four sections.
- *Exchange*: a request comes from one of the doors, with numbers, absent values
  or texts that are none; `Now` is after `Lookback` (the clock is past 1970 by
  more than an hour); the configured limit and the default step are positive;
  `LabelNames` is the order of the labels in use. The text of a request is a
  tree, and a plan or a configured predicate a value, of at most `Depth` levels;
  `Depth` is at least 2, `String` has the few strings that the code itself
  writes into plans, and `Nil` is neither a predicate nor a vector matching.
- *ExchangeMeaning*: `ParsersAssumption` is about the two parameters, the
  parsers of LogQL and Lucene. They take every text of their subset; what they
  make of a text is a plan, and if the pipeline accepts the plan and the text is
  none of the listed exceptions, the plan asks what the tree of the text asks
  (`PlanAsks`: of documents at the search door, of labels and lines at the Loki
  door) and has none of the exceptions itself. TLC evaluates it with the real
  parsers, on every text of the run. Only `MeaningCorrect` rests on what it says
  of meanings, and only for the Loki and the search door: for PromQL and for
  plans through OTQP nothing is assumed. `TypeCorrect`, `SuccessCorrect` and
  `LabelsCorrect` use of it that what the parsers make is a plan at all.

### The arguments

*RateLimiter.* `TypeOK` is inductive: `RefillBounds` says that a refill stays
between what the bucket had and its burst, `TakenBucket` that taking keeps it
there, and `ChargedEntry` and `MintedEntry` lift this to entries; each path of
`allow` changes one entry and the admission bucket. The rate is bounded by a
potential: what a bucket has served plus what it holds is at most its capacity
plus the time since it was minted. `ChargedWithinRate` shows that one call keeps
it, because a refill adds no more than the time that passed and a token served
is a token taken. That a refused call moves `last` only together with the tokens
that the interval earned is `RefusalsAreNotCharged`. Mints obey the potential on
the admission bucket, once each counted mint is matched with a token taken
there. `TotalWithinSlots` needs a sum over the resident buckets, which is
written as the number of elements of a set: `Rows(f)` has `f[k]` pairs for each
key `k`, and `GivenInvariant` says that all that was admitted was given by a
bucket since evicted, at most its burst and paid for by a mint, or by a resident
one. `RowAdded`, `RowsBound` and their like are the rules for that sum. Memory
needs that a new key is added below the cap or after an eviction.

*LimiterList.* `ListInvariant` has the types, `MutexOK` (who is `locked` holds
the mutex, and no instant was read before `latest`), `CallsOK` (the calls under
way fit the bound) and `OrderOK`: `Linked`, that the pointers make one doubly
linked chain of exactly the resident keys; `Sorted`, that the chain goes down in
the stamps with no resident key in between; and `Ranks`, that no two stamps are
the same. These speak of neighbours only; what they mean for the ends of the
list (`TailIsLeast`, `HeadIsGreatest`) follows as a set of numbers has a least
and a bounded one a greatest member. `UnlinkKeepsOrder` and `PushKeepsOrder`
show it of `unlink` and `pushFront`, from which `touch` and `evictOldest` are
composed. `HeardOK` adds that the stamp of a resident key is the call it was
last heard in, which is so because `touch` comes before `take`, so that the
tail, which `evictOldest` drops, is the key heard of the longest ago:
`IdlestCorrect`. `AllowIsPromised` then shows that each path of `Allow` is the
action of RateLimiter of the same case: the tail is the idlest key because the
list is sorted. Every other step is a stutter. By `ListImplementsPromise` what
is proved of RateLimiter holds of the list.

*QueryPath.* `Shape` says which stacks there are: none, one call, or a second
one on top of the entry's that waits in its connector. `DataOK` types the maps
and sets. With them:

- `Enforcement`: a demand that a later rewrite of its pipeline weaves is woven
  into every Select of its query, or is still in `enforced` with the rewrite
  ahead (`Waiting`), and a query is not read before its chain ended, when
  nothing waits.
- `Scrubbing`: on its way back a result is clean of what the processors between
  here and the storage hide (`ScrubbedDownTo`), under the names that the cells
  have by then; a join only gives prefixes to cells that are clean of their own
  pipeline's filters.
- `TenantInvariant`: the tenant in the map that a call's query refers to is the
  one that the processors passed so far resolve (`Resolved`), and all of their
  gates are open (`Opened`). Both start from `Ingressed`: once a request is
  received its headers are the transport's and no others, so that a lookup finds
  what the transport says under a name (`TransportIsFound`), whatever the
  message brought and whichever spelling a map iteration comes to first. The
  sides of a join may write to the map of their parent, which is why this is
  proved under `TenantsAgree`: where a front pipeline that touches the metadata
  splits a query, no pipeline behind it resolves another tenant. Without the
  condition the statement is false, which `path_tenant` shows. A configuration
  without a connector, like the repository's `config.yaml`, meets it, and so
  does one whose pipelines behind the connector have no tenant processor.

*JoinTables.* The key of a row is a text made of its cells. That equal keys are
equal cells is injectivity of delimited texts (`Delimited` and its followers):
the first delimiter of both is at the same place, as no text holds one.
`TablesOK` relates the normalized tables to the storages' answers, `JoinedOK`
the rows merged so far and those pending to the pairs of rows that agree (and
likewise the notes to both sides' feedback), and the layout to `RenderedTable`.
For the attributes, a renamed column is told apart from every other, as no
column of either side starts with the prefix (`RenamedIsPrefixed`), which is the
property's own premise.

*Service.* Each loop of `Build` gets a set of the names it has visited, and
`PipesOK`, `TargetsOK` and `OwnersOK` say of the visited ones what the loop did;
once everything is visited this is the statement of the property, in every
order. `WiringOK` also says that a valid configuration never makes `Build` fail.
`RunningOK` says that what runs is what was built as long as a listener may be
open, `ListenersOK` what the states of listeners are in each phase, `CallsOK` in
which pipelines a call may be: the one that owns its listener's acceptor, and
one target of the connector that ends it. Calls are answered before `main`
returns because a listener closes when no call is open on it, or when the
deadline has passed.

*Distribution.* `BuilderOK` has the contents of the two files: each file outside
of `todo` was rendered from the manifest in hand, and after a complete run both
were rendered from the last one's. `BinaryOK` lifts this to what was compiled,
`ProcessOK` to the program: its factories are the selection, the instances are
the references built so far, each made by `New` of its own raw settings. The
settings theorem shows for each of the repository's thirteen factories that both
layers of defaults agree on a key left out and a key left empty, except the ones
the property names. `OwnPackages` limits it to those factories, or copies of one
under another path: nothing is known of the `New` of a package from elsewhere.

*Exchange.* Each step of an exchange is made once, from what the steps before it
left: `QueryOK`, `SentOK`, `ReplyOK`, `ResultOK` and `AnswerOK` say that a
variable that is set is what its step makes of the ones before. The properties
then follow from the operators: `Request` for plain windows and limits,
`CodeOf`, `Result` and the renderings for successes, and the grouping by
`labelKey` for labels. That a door always has a place for the kind of result its
backend gives is `SignalsKept`: the renderers refuse a plan over the other
signal, and neither the PromQL converter nor a search makes one.

*What is shipped means what was asked.* The functions over predicates, plans and
trees are defined by levels. `...Levels` shows that each level is the nodes over
the one below, `...Monotone` that levels only grow, and a lemma `...Unfolds` for
each function that it exists on its whole domain and obeys its equation at a
node: for every level by `InductTo`, which is induction for a set of numbers, as
the provers cannot instantiate a predicate. After that, induction over plans is
stated as a set: one that has every plan whose inputs it has (`HasPlans`,
`HasTrees`) has all of them (`PlanInduct`, `TreeInduct`). Along it:

- `EnforcementNarrows`: a plan with an enforcement composed into each of its
  Selects computes over everything stored what the plan computes over the
  records that pass the enforcement. At a Select this is `conjoin`, which
  splices the operands of two conjunctions into one and takes a missing filter
  for everything; above it every operator sees the same series.
- `ParsingComputes`: the converter keeps what a PromQL tree computes: a negation
  is a subtraction from 0 and an empty `by ()` groups like no clause.
- `RenderingComputes`: the text of a plan that a renderer accepts computes what
  the plan computes, provided that no window has a half millisecond and that the
  renderer writes the vector matchings (`Keeps`). Filters flatten to the list of
  their matchers (`ConjunctsHold`).
- `SearchComputes`: the query DSL of a Select finds the documents that its
  filter, read over documents, and the clauses of its line filters find: turning
  negated operators into `must_not` and nesting `must` and `should` changes
  nothing. It does not say that such a clause is a line filter; where documents
  and labels are read alike (`ReadsAlike`) and there is no line filter,
  `SearchedPasses` shows that the documents found are the records that pass.

`EnforcedKeeps` shows that the rewrite touches neither windows nor matchings,
and `AskedIsPlanned` that the plan in the Query asks what the door's language
says the text asks, which is where `ParsersAssumption` enters. One case is
special: a binary operation with a vector matching from the Prometheus door to a
Loki backend. LogQL's renderer would drop the matching, but it refuses plans
over metrics, and a plan without any Select has no series to pair
(`SilentPlan`), so nothing is lost. `LosslessSearches` carries the exceptions of
a request over to its plan: what is not `Lossy` and goes between labels and
documents has nothing in it that they read otherwise. `ShippedComputes` puts the
parts together, and `RefusalOK` adds that a request which is answered before
there is a Query of it was one the door does not take.

### What only TLC shows

- Liveness (`EveryCallReturns`, `EveryAskIsAnswered`, `ShutdownEnds`) is out of
  the prover's reach.
- `ParsersAssumption` of the real parsers, over the texts of the run: the
  operators of Lucene and LogQL recur over tokens and into one another, and
  modules with RECURSIVE operators cannot be proved about here.
- That a plan carried by OTQP, or a tree, has a finite depth is a fact about
  messages and texts; the theorems hold for every bound `Depth`.
- The counterexamples of section 5, which are statements that do not hold.

## 5. Where code and documentation disagree

- **A flood past `max_keys`** (`limiter_flood`). The processor's comment and
  README say that a caller cycling tenant ids cannot buy more than the
  configured rate. Minting a bucket costs one admission token, and the bucket
  starts with a whole burst: a flood gets up to burst requests per token.
- **Names a join makes** (`path_launder`). Scrubbing the joined table is said to
  keep a dropped label from being laundered; a label both sides carry is there
  a second time as `right_<label>`, which the filter in front does not know.
- **Rules in front, rewrite behind** (`path_scope`). A subject is said to see
  only what its rule permits if `simpleauthz` precedes `queryrewrite`; the
  connector's sub-queries carry no enforced matchers.
- **One metadata map** (`path_tenant`). The parent's tenant is said to be
  carried to both sides; a tenant processor behind the connector on the left
  changes it for the right.
- **Modified windows** (`exchange_offset`). `query.proto` says that an offset
  shifts the whole window and that the dispatcher extends its start by the
  lookback (lines 41 and 44). No dispatcher reads either: an OTQP query with a
  modifier is answered, without a warning, for the window without it. The same
  goes for `start_exclusive` and `end_exclusive` (lines 28-36), and a query in
  the `streaming` context is answered like an instant one, or by Elasticsearch
  as any search.

The following were met while modelling and have no run of their own; the
hazards in `PROJECT.json` or the exceptions above name them.

- **Digests and short ids.** `boundKey`'s comment says that distinct ids stay
  distinct; the id that spells the digest of an over-long one shares its bucket.
- **Partial searches.** A partial search is said to be surfaced so that it is
  not mistaken for a complete one; the search door renders `timed_out: false`
  and an exact total whatever the feedback says.
- **Line filters.** `LineMatch` is said to mean "contains" and "match the line"
  (`query.proto:189-191`); `lineToES` sends a `match_phrase`, which finds whole
  terms in a row, and a `regexp` on `message`, which is anchored and matches one
  term. A filter for a part of a word finds it in Loki and not in Elasticsearch.
- **Phrases.** The search door makes a quoted phrase an equality on `message`,
  which becomes a `term` query: the phrase is not analyzed, so that two words
  find nothing in an analyzed field.
- **Absent labels.** A matcher that accepts the empty text takes a series
  without the label; the `term` or `regexp` of it finds no document without the
  field.
- **Streams.** `labelKey` is said to collapse records with identical labels; it
  also collapses some with different ones.
- **Spelled references.** `querier/config.go` says that sections are keyed by
  component id; `decodeComponentConfig` and the ownership of acceptors compare
  the text, so that a reference spelled with other blanks than its entry runs on
  the factory's defaults, as does one without an entry.

## 6. What is not modelled

- Characters: escapes in quoted texts, the digits and units of numbers and
  spans, the quoting and spelling of what the dispatchers ship, the formats of
  times. A text of PromQL is the tree its library's parser gives it.
- The analyzer of an Elasticsearch index: which terms and phrases a line has is
  a parameter, of which only `SingleTerms` is used. Regular expressions are sets
  of texts, so differences of dialect (RE2, Lucene) are left out.
- A message without a query, which `sanitize` and `injectHeaders` pass over.
- The values of points and records, exemplars, spans; numbers are never
  computed. Columns of a table and its rows are sets, their order is left out.
- Table, JSON and span results from storages: the repository's dispatchers give
  metrics and logs, so a Table only comes from a join (JoinTables).
- The encodings of OTQP (protobuf, JSON), and generated code.
- In Distribution: the `output_path` of a manifest (there is one directory), two
  builders at once, and what the decoder does with values of a wrong type or
  keys in another case.
- Float rounding in the token bucket, and wrap-around of times far beyond the
  range of 64-bit nanoseconds in the native doors' parameters.
- A data race: `Start` of the OTQP acceptor writes `grpcAddr` and `httpAddr`
  without synchronization; only tests read them.

## 7. Plan

Done, in this order, most important first: the limiter with its promise and
list; the query's path; joins; the service's life; the languages and the
exchange with a backend; the builder and the settings of components; the layout
of a joined table; the parsers of the search and the Loki door, labels and
streams; the proofs of section 4.

The proofs cover every invariant of the runs. What would extend them:

1. The descent of `parseLogQL` and `parseLucene` as recursive functions over
   the lengths of token lists, to prove `ParsersAssumption` for texts of any
   length. It is the one assumption about code that the theorems make.
2. RateLimiter's theorems stated of LimiterList's own variables. The refinement
   is proved, but a theorem cannot be cited through a named INSTANCE, so that
   each would have to be derived from `ListInvariant` again.
3. The action-level facts that the fairness arguments use: that a goroutine
   under the mutex can always take its step, and that no call returns twice.
