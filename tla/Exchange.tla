-------------------------------- MODULE Exchange --------------------------------
(***************************************************************************)
(* One client request from a native API (Prometheus, Loki, Elasticsearch)  *)
(* or OTQP, through a pipeline whose only processor is the query rewrite,  *)
(* to one backend and back: the acceptor parses it, the pipeline validates *)
(* and rewrites the plan, the dispatcher ships a native request, decodes   *)
(* the backend's response, and the acceptor renders it for the client.     *)
(* The other processors and the cross-signal connector are QueryPath's.    *)
(*                                                                         *)
(* An instant is an integer, the epoch is 0.  A request parameter is None  *)
(* when absent and Bad when the acceptor cannot parse it.  OTQP is two     *)
(* doors, gRPC ("otqp") and HTTP ("otqphttp").  The backend is             *)
(* external: it runs the text it gets, or fails, or never answers.         *)
(***************************************************************************)
EXTENDS QueryPlan

CONSTANTS
  None, Bad,
  Asks,        (* The requests: [door, backend, enforced, timeout, text,   *)
               (* context, start, end, exclusive, offset, lookback, step,  *)
               (* limit, direction, extra].  text is a tree of the door's  *)
               (* language, or a plan through OTQP; enforced is the        *)
               (* predicate of the configured rewrite, or Nil, and timeout *)
               (* the dispatcher's setting; only OTQP has excluded bounds, *)
               (* an offset and a lookback; extra says a parameter the     *)
               (* search door lacks came.                                  *)
  LogQLPlans(_),        (* The plans, or the predicates, that the parser   *)
  LucenePredicates(_),  (* of a door makes of the lexemes of a text: one,  *)
                        (* or none when it refuses the text.               *)
  Entry,       (* What a response may list, series, lines or hits:         *)
               (* [labels, metadata, torn], the metadata being Loki's own  *)
               (* of one line, and torn what does not decode.              *)
  LabelNames,  (* The names of labels, in the order of sort.Strings.       *)
  Now,         (* The time of the service's clock.                         *)
  Lookback,    (* defaultRangeLookback.                                    *)
  DefaultStep, (* The step of a Prometheus range without one.              *)
  MaxLimit     (* The Limit configured for the Loki dispatcher.            *)

Malformed == {e \in Entry : e.torn}
ASSUME EntryAssumption ==
  \A e \in Entry : DOMAIN e.labels \cup DOMAIN e.metadata \subseteq ToSet(LabelNames)
ASSUME ClockAssumption ==
  Now \in Nat /\ Lookback \in Nat /\ Lookback < Now /\ DefaultStep \in Nat \ {0}
ASSUME LimitAssumption == MaxLimit \in Nat \ {0}

Language == [prometheus |-> "promql", loki |-> "logql", elasticsearch |-> "esql"]
TextLanguage == [prometheus |-> "promql", loki |-> "logql", elasticsearch |-> "lucene"]

(* OTQP carries the Query itself, which over HTTP may not decode.          *)
Carries(a) == a.door \in {"otqp", "otqphttp"}
Instant == {None} \cup Int

(* What a message of OTQP does not hold is absent: it has no bad values.   *)
ASSUME AsksAssumption ==
  \A a \in Asks :
    /\ Carries(a) \/ a.door \in DOMAIN TextLanguage
    /\ a.text \notin {None, Bad} =>
         IF Carries(a) THEN a.text \in GivenPlan ELSE TreeOf(a.text) \in Tree
    /\ a.text = Bad => Carries(a)
    /\ a.enforced \in Filters
    /\ a.backend \in DOMAIN Language
    /\ a.context \in {"instant", "range"} \cup (IF Carries(a) THEN {"streaming"} ELSE {})
    /\ a.timeout \in Int
    /\ ~ Carries(a) => a.exclusive = {} /\ a.offset = None /\ a.lookback = None
    /\ {a.start, a.end, a.step, a.limit} \subseteq
         IF Carries(a) THEN Instant \ {Bad} ELSE Instant \cup {Bad}

VARIABLES
  ask,     (* The request.                                                 *)
  query,   (* The qdata Query built from it, or None.                      *)
  sent,    (* The request to the backend, or None.                         *)
  reply,   (* The backend's response, or None while there is none.         *)
  result,  (* The qdata Result, or None.                                   *)
  answer   (* The response to the client, or None.                         *)

vars == <<ask, query, sent, reply, result, answer>>

Init ==
  /\ ask \in Asks
  /\ query = None /\ sent = None /\ reply = None /\ result = None /\ answer = None

--------------------------------------------------------------------------------
(* The acceptors.                                                          *)

(* A mutation: a code without a status of its own. *)
StatusOfArguments(code) == IF code = "invalid_argument" THEN 400 ELSE 500

(* qerror's codes as HTTP statuses, and as gRPC's codes. *)
StatusOf(code) == CASE code = "invalid_argument" -> 400
                    [] code = "unavailable" -> 502
GrpcCode(code) == CASE code = "invalid_argument" -> 3
                    [] code = "unavailable" -> 14

NoEntries == [e \in {} |-> <<>>]
Failure(code) ==
  [status |-> IF ask.door = "otqp" THEN GrpcCode(code) ELSE StatusOf(code),
   shape |-> "error", entries |-> NoEntries, warned |-> FALSE]

Given(t) == t \notin {None, Bad}
Optional(t) == t # Bad

(* limit and direction are parameters of the Loki door.                    *)
ParsesLogOptions(a) ==
  /\ Optional(a.limit) /\ (Given(a.limit) => a.limit > 0)
  /\ a.direction \in {None, "forward", "backward"}

(* parseInstant, parseRange and parseSearch, apart from the text.          *)
TakesParameters(a) ==
  /\ IF a.door = "elasticsearch" THEN ~ a.extra
     ELSE IF a.context = "instant" THEN Optional(a.end)
     ELSE /\ Given(a.start) /\ Given(a.end)
          /\ IF a.door = "prometheus" THEN Given(a.step) ELSE Optional(a.step)
  /\ a.door = "loki" => ParsesLogOptions(a)

(* The plans that the acceptor of a door makes of the text.  The search    *)
(* door takes no text as a search for everything.                          *)
PlansFor(a) ==
  CASE a.door = "elasticsearch" ->
         {Select("logs", p, <<>>) :
            p \in IF a.text = None THEN {Nil} ELSE LucenePredicates(a.text.lexemes)}
    [] a.door = "prometheus" /\ a.text # None -> PromQLPlans(TreeOf(a.text))
    [] a.door = "loki" /\ a.text # None -> LogQLPlans(a.text.lexemes)
    [] OTHER -> {}

Taken(a) == IF Carries(a) THEN a.text # Bad ELSE TakesParameters(a) /\ PlansFor(a) # {}

(* The Query of a native request, with the plan of its text.  The search   *)
(* door has no time window.                                                *)
NativeQuery(a, plan) ==
  LET windowed == a.door # "elasticsearch"
      ranged   == windowed /\ a.context = "range"
  IN  [context   |-> IF ranged THEN "range" ELSE "instant",
       exclusive |-> {}, offset |-> None, lookback |-> None,
       start     |-> IF ranged THEN a.start ELSE None,
       end       |-> IF ~ windowed THEN None ELSE IF a.end = None THEN Now ELSE a.end,
       step      |-> IF ranged THEN a.step ELSE None,
       limit     |-> IF a.door = "loki" /\ a.limit # None THEN a.limit ELSE 0,
       direction |-> IF a.door = "loki" THEN a.direction ELSE None,
       plan      |-> plan]

(* The dispatchers read nothing of exclusive, offset and lookback, and all *)
(* of them but Elasticsearch's take what is not a range for an instant.    *)
CarriedQuery(a) ==
  [context |-> a.context, start |-> a.start, end |-> a.end, step |-> a.step,
   exclusive |-> a.exclusive, offset |-> a.offset, lookback |-> a.lookback,
   limit |-> IF a.limit = None THEN 0 ELSE a.limit, direction |-> a.direction,
   plan |-> a.text]

Fresh == answer = None /\ query = None

Accept ==
  /\ Fresh
  /\ Taken(ask)
  /\ query' \in IF Carries(ask) THEN {CarriedQuery(ask)}
                ELSE {NativeQuery(ask, plan) : plan \in PlansFor(ask)}
  /\ UNCHANGED <<ask, sent, reply, result, answer>>

BadRequest ==
  /\ Fresh
  /\ ~ Taken(ask)
  /\ answer' = Failure("invalid_argument")
  /\ UNCHANGED <<ask, query, sent, reply, result>>

--------------------------------------------------------------------------------
(* The pipeline's request path and the dispatchers.                        *)

Fail(code) ==
  /\ answer' = Failure(code)
  /\ UNCHANGED <<ask, query, sent, reply, result>>

(* validatePlan leaves a query without a plan to the dispatcher, which     *)
(* refuses it; the rewrite leaves the plan alone with nothing to enforce.  *)
Admissible(q) == q.plan # None /\ ValidatePlan(q.plan)

Enforced(a, plan) == IF a.enforced = Nil THEN plan ELSE Composed(plan, a.enforced)
Shipped(a, plan) == Rendered(Language[a.backend], Enforced(a, plan))

(* A nil timestamp reads as the epoch, and what is not after the epoch     *)
(* counts as unset.                                                        *)
AsTime(t) == IF t = None THEN 0 ELSE t
Unset(t) == AsTime(t) <= 0
EvalAt(q) == IF Unset(q.end) THEN Now ELSE q.end

(* A mutation: the lookback ends now, whatever the end. *)
BoundsFromNow(q) ==
  [start |-> IF Unset(q.start) THEN Now - Lookback ELSE q.start,
   end |-> IF Unset(q.end) THEN Now ELSE q.end]

RangeBounds(q) ==
  [start |-> IF Unset(q.start) THEN EvalAt(q) - Lookback ELSE q.start, end |-> EvalAt(q)]

(* A mutation: the configured limit is a default, not a maximum. *)
AnyLimit(q) == q.limit >= 0 /\ q.direction \in {None, "forward", "backward"}

(* applyLogOptions of the Loki dispatcher.  Elasticsearch has no use for   *)
(* the options and sorts newest first.                                     *)
TakesLogOptions(q) ==
  /\ 0 <= q.limit /\ q.limit <= MaxLimit
  /\ q.direction \in {None, "forward", "backward"}

ToPrometheus(q) ==
  [start |-> IF q.context = "range" THEN AsTime(q.start) ELSE None,
   end   |-> IF q.context = "range" THEN AsTime(q.end) ELSE EvalAt(q),
   step  |-> IF q.context # "range" THEN None
             ELSE IF q.step = None \/ AsTime(q.step) <= 0 THEN DefaultStep ELSE q.step,
   limit |-> None, direction |-> None]

ToLoki(q) ==
  [start |-> IF q.context = "range" THEN RangeBounds(q).start ELSE None,
   end   |-> IF q.context = "range" THEN RangeBounds(q).end ELSE EvalAt(q),
   step  |-> IF q.context = "range" /\ AsTime(q.step) > 0 THEN q.step ELSE None,
   limit |-> IF q.limit > 0 THEN q.limit ELSE MaxLimit,
   direction |-> IF q.direction = None THEN "backward" ELSE q.direction]

ToElasticsearch(q) ==
  [start |-> q.start, end |-> q.end, step |-> None, limit |-> None, direction |-> "backward"]

Request(q) ==
  CASE ask.backend = "prometheus" -> ToPrometheus(q)
    [] ask.backend = "loki" -> ToLoki(q)
    [] ask.backend = "elasticsearch" -> ToElasticsearch(q)

Ships(q) ==
  /\ Admissible(q)
  /\ Shipped(ask, q.plan) # Refused
  /\ ask.backend = "loki" => TakesLogOptions(q)

Accepted == answer = None /\ query # None /\ sent = None

Ship ==
  /\ Accepted
  /\ Ships(query)
  /\ sent' = [text |-> Shipped(ask, query.plan), context |-> query.context, request |-> Request(query)]
  /\ UNCHANGED <<ask, query, reply, result, answer>>

RefuseToShip == Accepted /\ ~ Ships(query) /\ Fail("invalid_argument")

--------------------------------------------------------------------------------
(* The backend, and the dispatcher's wait for it.                          *)

(* What a body lists, by the query: a Loki or Prometheus number is a       *)
(* scalar, a log selector gives streams, a computation gives series.       *)
BodyType ==
  IF ask.backend = "elasticsearch" THEN "hits"
  ELSE IF ask.backend = "loki" /\ sent.text.kind = "selector" THEN "streams"
  ELSE IF sent.context = "range" THEN "matrix"
  ELSE IF sent.text.kind = "number" THEN "scalar"
  ELSE "vector"

Waiting == answer = None /\ sent # None /\ reply = None

(* status # 200; or a 200 with a body that is not JSON ("garbage"), that   *)
(* reports a failure, or that lists entries: all of them, or fewer with a  *)
(* note that says so (Loki has no such note).                              *)
Respond ==
  /\ Waiting
  /\ \E ok \in BOOLEAN, body \in {"garbage", "failed", "data"},
        histogram \in BOOLEAN, entries \in SUBSET Entry, partial \in BOOLEAN :
       /\ (ok /\ body = "data") \/ (entries = {} /\ ~ partial /\ ~ histogram)
       /\ histogram => (ask.backend = "prometheus" /\ BodyType # "scalar")
       /\ partial => ask.backend # "loki"
       /\ BodyType = "scalar" => entries = {}
       /\ BodyType # "streams" => \A e \in entries : DOMAIN e.metadata = {}
       /\ reply' = [ok |-> ok, body |-> body, type |-> BodyType,
                    histogram |-> histogram, entries |-> entries, partial |-> partial]
  /\ UNCHANGED <<ask, query, sent, result, answer>>

(* A mutation: no timeout, the dispatcher waits for as long as it takes. *)
NoTimeout == FALSE

(* The HTTP client's timeout, or a connection lost. *)
GiveUp == Waiting /\ Fail("unavailable")

(* A timeout of zero is the default's; a negative one stays, and the       *)
(* client takes it for none.                                               *)
TimerRuns(a) == a.timeout >= 0

--------------------------------------------------------------------------------
(* Decoding the response: parseResponse of the dispatchers.                *)

(* A copy of the stream's labels, and the line's metadata set on it. *)
Merged(labels, metadata) ==
  [n \in DOMAIN labels \cup DOMAIN metadata |->
     IF n \in DOMAIN metadata THEN metadata[n] ELSE labels[n]]

(* A mutation: the lines of a stream share one list of attributes. *)
SharedLabels(e) ==
  LET others == {f \in reply.entries : f.labels = e.labels /\ DOMAIN f.metadata # {}}
  IN  IF others = {} THEN e.labels
      ELSE Merged(e.labels, (CHOOSE f \in others : TRUE).metadata)

(* entryToRecord: a line's own metadata over the labels of its stream.     *)
LabelsOf(e) == Merged(e.labels, e.metadata)
Decoded(entries) == [e \in entries |-> LabelsOf(e)]

Metrics(entries, warned) ==
  [kind |-> "metrics", entries |-> Decoded(entries), warned |-> warned]
Logs(entries, warned) == [kind |-> "logs", entries |-> Decoded(entries), warned |-> warned]

(* A mutation: the status line is not looked at. *)
CodeOfBody(r) == IF r.body = "garbage" THEN "unavailable" ELSE "none"

(* The code of the error a response decodes to, or "none".  Elasticsearch  *)
(* has no status in the body: any JSON object is a result.                 *)
CodeOf(r) ==
  IF ~ r.ok \/ r.body = "garbage" THEN "unavailable"
  ELSE IF ask.backend = "elasticsearch" THEN "none"
  ELSE IF r.body = "failed" THEN "invalid_argument"
  ELSE IF ask.backend = "prometheus" /\ (r.histogram \/ r.type = "scalar") THEN "unavailable"
  ELSE "none"

(* A series whose points do not decode stays, without them, as does a hit  *)
(* without its fields; a line that does not decode is skipped.  A scalar   *)
(* of Loki is an empty logs result.                                        *)
Result(r) ==
  IF ask.backend = "elasticsearch" THEN Logs(r.entries, r.partial)
  ELSE IF r.type = "streams" THEN Logs(r.entries \ Malformed, FALSE)
  ELSE IF r.type = "scalar" THEN Logs({}, FALSE)
  ELSE Metrics(r.entries, r.partial)

Replied == answer = None /\ reply # None /\ result = None

Decode ==
  /\ Replied
  /\ CodeOf(reply) = "none"
  /\ result' = Result(reply)
  /\ UNCHANGED <<ask, query, sent, reply, answer>>

DecodeError == Replied /\ CodeOf(reply) # "none" /\ Fail(CodeOf(reply))

--------------------------------------------------------------------------------
(* Rendering the result for the client.                                    *)

OK == IF ask.door = "otqp" THEN 0 ELSE 200
Success(shape, entries, warned) ==
  [status |-> OK, shape |-> shape, entries |-> entries, warned |-> warned]

Series(r) == IF r.kind = "metrics" THEN r.entries ELSE NoEntries
Records(r) == IF r.kind = "logs" THEN r.entries ELSE NoEntries
SeriesShape == IF query.context = "range" THEN "matrix" ELSE "vector"

(* labelKey: the labels as one text, in the order of their names.          *)
LabelKey(labels) ==
  FoldLeft(LAMBDA text, n :
             IF n \in DOMAIN labels THEN text \o <<n, "=">> \o labels[n] \o <<",">> ELSE text,
           <<>>, LabelNames)

(* logsToStreams: a record joins the stream of its key, which shows the    *)
(* labels of the record that came first.                                   *)
Streams(records) ==
  LET Key(e) == LabelKey(records[e])
      keys == {Key(e) : e \in DOMAIN records}
      Firsts == {first \in [keys -> DOMAIN records] : \A k \in keys : Key(first[k]) = k}
  IN  {[e \in DOMAIN records |-> records[first[Key(e)]]] : first \in Firsts}

(* The Prometheus door shows the metrics of a result with its warnings.    *)
(* The Loki door shows series when there are any and streams otherwise,    *)
(* the search door hits; neither has a place for warnings.  OTQP returns   *)
(* the result itself.                                                      *)
Renderings(r) ==
  CASE ask.door = "prometheus" -> {Success(SeriesShape, Series(r), r.warned)}
    [] ask.door = "loki" /\ Series(r) # NoEntries -> {Success(SeriesShape, Series(r), FALSE)}
    [] ask.door = "loki" /\ Series(r) = NoEntries ->
         {Success("streams", s, FALSE) : s \in Streams(Records(r))}
    [] ask.door = "elasticsearch" -> {Success("hits", Records(r), FALSE)}
    [] Carries(ask) -> {Success(r.kind, r.entries, r.warned)}

Render ==
  /\ answer = None /\ result # None
  /\ answer' \in Renderings(result)
  /\ UNCHANGED <<ask, query, sent, reply, result>>

Next ==
  \/ Accept \/ BadRequest \/ Ship \/ RefuseToShip
  \/ Respond \/ GiveUp \/ Decode \/ DecodeError \/ Render

(* The goroutine of the request runs and its timer, if it has one, fires;  *)
(* the backend may never answer.                                           *)
Running == Accept \/ BadRequest \/ Ship \/ RefuseToShip \/ Decode \/ DecodeError \/ Render
Spec == Init /\ [][Next]_vars
FairSpec == Spec /\ WF_vars(Running) /\ WF_vars(TimerRuns(ask) /\ GiveUp)

--------------------------------------------------------------------------------
(* Properties.                                                             *)

TypeOK ==
  /\ ask.backend \in DOMAIN Language
  /\ query # None => query.context \in {"instant", "range", "streaming"}
  /\ sent # None =>
       /\ sent.request.start \in Instant /\ sent.request.end \in Instant
       /\ sent.request.limit \in {None} \cup Nat
  /\ reply # None => reply.entries \subseteq Entry
  /\ result # None =>
       result.kind \in {"metrics", "logs"} /\ DOMAIN result.entries \subseteq Entry
  /\ answer # None =>
       /\ answer.status \in IF ask.door = "otqp" THEN {0, 3, 14} ELSE {200, 400, 502}
       /\ DOMAIN answer.entries \subseteq Entry

AfterEpoch(t) == Given(t) /\ t > 0

(* A window that is what its bounds say: an instant or a range, with both  *)
(* of its bounds in it, no offset and no lookback.                         *)
IsPlainWindow(a) ==
  /\ a.context # "streaming"
  /\ a.exclusive = {} /\ AsTime(a.offset) = 0 /\ AsTime(a.lookback) = 0

(* A plain window that the client gave reaches the backend, and a bound it *)
(* left out is filled in without turning the window around: an omitted     *)
(* start of a Loki range lies the default lookback before its end, an      *)
(* omitted time is the present.  (A bound at the epoch counts as left out; *)
(* Prometheus ranges have both bounds at their own door and OTQP's are not *)
(* filled in.)  What the dispatchers make of other windows is              *)
(* ModifiersApply's.                                                       *)
WindowIsAsked ==
  sent # None /\ ask.door # "elasticsearch" /\ IsPlainWindow(ask) =>
    LET w == sent.request
    IN  /\ AfterEpoch(ask.end) => w.end = ask.end
        /\ sent.context = "range" /\ AfterEpoch(ask.start) => w.start = ask.start
        /\ sent.context = "range" /\ ask.backend = "loki" /\ ~ AfterEpoch(ask.start) =>
             w.start = w.end - Lookback
        /\ sent.context = "instant" /\ ask.backend # "elasticsearch" =>
             w.end > 0

(* query.proto of a Query's modifier: an offset shifts the whole window    *)
(* into the past, and the dispatcher extends the start of a range          *)
(* backwards by the lookback.                                              *)
ModifiersApply ==
  sent # None /\ ask.context = "range" /\ AfterEpoch(ask.start) /\ AfterEpoch(ask.end) =>
    /\ sent.request.end = ask.end - AsTime(ask.offset)
    /\ sent.request.start = ask.start - AsTime(ask.offset) - AsTime(ask.lookback)

(* A Loki backend is never asked for more lines than the configuration     *)
(* allows, and for as many, in the direction, as the client asked.         *)
TakesOptions == ask.door = "loki" \/ Carries(ask)
LimitsHold ==
  sent # None /\ ask.backend = "loki" =>
    /\ sent.request.limit \in 1 .. MaxLimit
    /\ TakesOptions /\ Given(ask.limit) /\ ask.limit > 0 =>
         sent.request.limit = ask.limit
    /\ TakesOptions /\ Given(ask.direction) =>
         sent.request.direction = ask.direction

Succeeded == answer # None /\ answer.status = OK

(* A success stands for a response of the backend: no failure, timeout or  *)
(* refusal is shown as an empty result, every entry that decodes is shown, *)
(* whichever door and backend meet, and a response that says it is partial *)
(* is not mistaken for a complete one: the client is told, at the doors    *)
(* that have a place for it.                                               *)
SuccessIsComplete ==
  Succeeded =>
    /\ reply # None /\ reply.ok /\ reply.body # "garbage"
    /\ reply.body = "failed" => ask.backend = "elasticsearch"
    /\ DOMAIN answer.entries \subseteq reply.entries
    /\ reply.entries \ DOMAIN answer.entries \subseteq Malformed
    /\ ask.door = "prometheus" \/ Carries(ask) => answer.warned = reply.partial

(* What is shown is shown under its own labels: those of its stream or     *)
(* series, and where a line's metadata names one of them, the metadata's.  *)
(* No line takes the labels of another, by a shared list (cloneAttrs) or   *)
(* by the key of the Loki door's streams; the key confuses labels whose    *)
(* values hold its "=" and ",", and such a pair is excepted.               *)
OwnLabels(e) ==
  [n \in DOMAIN e.labels \cup DOMAIN e.metadata |->
     IF n \in DOMAIN e.metadata THEN e.metadata[n] ELSE e.labels[n]]
Confusable(e, f) ==
  ask.door = "loki" /\ OwnLabels(e) # OwnLabels(f)
  /\ LabelKey(OwnLabels(e)) = LabelKey(OwnLabels(f))
EntriesKeepTheirLabels ==
  Succeeded =>
    \A e \in DOMAIN answer.entries :
      \/ answer.entries[e] = OwnLabels(e)
      \/ \E f \in DOMAIN answer.entries : Confusable(e, f)

(* Every request is answered, also when the backend never is: the timeout  *)
(* of the dispatcher's HTTP client bounds the only wait there is.  Only    *)
(* where the setting turns that timer off may a request wait for ever, and *)
(* only for a backend that does not answer.                                *)
EveryAskIsAnswered ==
  <>(answer # None) \/ <>[](Waiting /\ ~ TimerRuns(ask))
================================================================================
