------------------------------- MODULE QueryPath -------------------------------
(***************************************************************************)
(* One query's way through the service: an acceptor admits it, a pipeline  *)
(* validates its plan, runs the processors, reads storage or fans out      *)
(* through the cross-signal connector to the pipelines of the signals, and *)
(* runs the processors in reverse over the result.  The steps are the      *)
(* calls of one goroutine; requests share nothing but the rate limiters,   *)
(* whose verdict is a nondeterministic choice here (see LimiterList).      *)
(*                                                                         *)
(* The pipeline "front" ends in the connector and every other one, named   *)
(* after its signal, in the dispatcher of that signal's storage.  What Go  *)
(* passes by reference is kept so: the Selects of a plan belong to the     *)
(* client's query and to the sub-queries of a join alike, and a query's    *)
(* metadata is a reference to a map.  Maps are named after the query that  *)
(* allocated them.                                                         *)
(***************************************************************************)
EXTENDS Processors, Lists

CONSTANTS
  Signal,    (* The signals that have storage.                             *)
  Label,     (* The attributes that series and records may carry.          *)
  HeaderName,(* The names of headers, up to their case.                    *)
  Config,    (* The configurations: [entry, procs, targets], the pipeline  *)
             (* the acceptor feeds, the processors of each pipeline, and   *)
             (* the signals the connector has a target pipeline for.       *)
  Request    (* The requests: [header, body, plan].  header is the first   *)
             (* value of each header that the transport delivers; body is  *)
             (* what the client put into fields of the message that are    *)
             (* not its to write, [map, enforced, headers]; a plan is      *)
             (* [given, valid, op, lhs, rhs, on, ignoring]: op is the      *)
             (* operator of a top-level binary node, "none" without one;   *)
             (* lhs and rhs are the signals of its operands' Selects (all  *)
             (* in lhs without a binary node).                             *)

(* The client's query and the two sub-queries of a join. *)
Query == {"client", "lhs", "rhs"}
Pipe == {"front"} \cup Signal

(* A header's name in one spelling: the one in which the transport brings  *)
(* it (canonical over HTTP, lower case over gRPC), or another.             *)
HeaderKey == [name : HeaderName, spelling : {"transport", "other"}]

ASSUME NamesAssumption == "front" \notin Signal /\ None \notin Signal \cup Query

(* Processors and policy rules are lists, and they look up headers that    *)
(* have a name.                                                            *)
ASSUME ConfigAssumption ==
  \A c \in Config :
    /\ c.entry \in Pipe /\ c.targets \subseteq Signal
    /\ DOMAIN c.procs = Pipe
    /\ \A pipe \in Pipe :
         /\ IsList(c.procs[pipe])
         /\ \A i \in DOMAIN c.procs[pipe] :
              LET p == c.procs[pipe][i]
              IN  /\ p.kind = "authz" => IsList(p.rules)
                  /\ p.kind \in {"tenant", "authz"} => p.header \in HeaderName
ASSUME BearerAssumption == "auth" \in HeaderName
ASSUME RequestAssumption ==
  \A r \in Request :
    /\ r.header = [n \in HeaderName |-> r.header[n]]
    /\ DOMAIN r.body.headers \subseteq HeaderKey
    /\ DOMAIN r.body.map = {"tenant", "subject"}
    /\ \A m \in r.body.enforced : DOMAIN m = {"name", "value"}

Select == [side : {"lhs", "rhs"}, signal : Signal]

VARIABLES
  config, request,
  headers,   (* Header of the client's query, which its sub-queries share: *)
             (* the first value under each key; absent without a value.    *)
  stack,     (* The calls of Handle under way: [pipe, query, phase, next]. *)
  metadata,  (* The Metadata of each query: the map it refers to, or None. *)
  map,       (* The contents of each map: [tenant, subject].               *)
  enforced,  (* EnforcedMatchers (and EnforcedPredicates) of each query.   *)
  filter,    (* The conjuncts that enforcement added to each Select.       *)
  left,      (* The table of a join's left side.                           *)
  result,    (* The result of the call that returned last.                 *)
  answer,    (* "none", "data", or the code of the error sent back.        *)
  seen       (* History: [demands, charges, reads] of the request so far.  *)

query == <<metadata, map, enforced>>
vars == <<config, request, headers, stack, query, filter, left, result, answer, seen>>

NoMap == [tenant |-> None, subject |-> None]
NoResult == [table |-> FALSE, columns |-> {}, cells |-> {}]

(* The client may send any message: its body populates the client's query. *)
Init ==
  /\ config \in Config
  /\ request \in Request
  /\ headers = request.body.headers
  /\ stack = <<>>
  /\ metadata = [q \in Query |-> IF q = "client" THEN q ELSE None]
  /\ map = [q \in Query |-> IF q = "client" THEN request.body.map ELSE NoMap]
  /\ enforced = [q \in Query |-> IF q = "client" THEN request.body.enforced ELSE {}]
  /\ filter = [s \in Select |-> {}]
  /\ left = NoResult
  /\ result = NoResult
  /\ answer = "none"
  /\ seen = [demands |-> {}, charges |-> {}, reads |-> {}]

--------------------------------------------------------------------------------
(* Reading the state.                                                      *)

Top == stack[Len(stack)]
Procs == config.procs[Top.pipe]
Proc == Procs[Top.next]
Plan == request.plan

(* The values that headerValue may find under a name in any spelling, for  *)
(* it takes the first entry that a map iteration brings; and the readings  *)
(* of all names that a step may make.                                      *)
Found(name) ==
  LET spelled == {key \in DOMAIN headers : key.name = name}
  IN  IF spelled = {} THEN {None} ELSE {headers[key] : key \in spelled}
Lookups ==
  {h \in [HeaderName -> UNION {Found(n) : n \in HeaderName}] :
     \A n \in HeaderName : h[n] \in Found(n)}

MapOf(q) == IF metadata[q] = None THEN NoMap ELSE map[metadata[q]]
Tenant == MapOf(Top.query).tenant
Subject == MapOf(Top.query).subject

(* The Selects below the root of a query's plan.                           *)
Selects(q) ==
  {s \in Select : /\ Plan.given
                  /\ s.signal \in IF s.side = "lhs" THEN Plan.lhs ELSE Plan.rhs
                  /\ q \in {"client", s.side}}
PlanSignals(q) == {s.signal : s \in Selects(q)}

(* The pipelines whose Handle has the query in hand. *)
Path == {stack[i].pipe : i \in DOMAIN stack}

--------------------------------------------------------------------------------
(* Control: calls, returns and errors.                                     *)

Running(phase) == stack # <<>> /\ answer = "none" /\ Top.phase = phase

Continue(frame) == stack' = [stack EXCEPT ![Len(stack)] = frame]
Call(pipe, q, frame) ==
  stack' = Append([stack EXCEPT ![Len(stack)] = frame],
                  [pipe |-> pipe, query |-> q, phase |-> "validate", next |-> 1])

(* An error: every caller wraps it and returns it, without a result. *)
Refuse(code) ==
  /\ stack' = <<>>
  /\ answer' = code
  /\ UNCHANGED <<config, request, headers, query, filter, left, result, seen>>

NextProc == Continue([Top EXCEPT !.next = @ + 1])

(* SetMetadata: the map is allocated when the query has none. *)
SetMap(q, m) ==
  LET ref == IF metadata[q] = None THEN q ELSE metadata[q]
  IN  /\ metadata' = [metadata EXCEPT ![q] = ref]
      /\ map' = [map EXCEPT ![ref] = m]

(* A matcher registered on Top's query by its processor number Top.next. *)
Demanded(matchers) ==
  {[pipe |-> Top.pipe, query |-> Top.query, at |-> Top.next, matcher |-> m] : m \in matchers}

--------------------------------------------------------------------------------
(* The request path.                                                       *)

(* The headers of the transport, under the spelling it gives them.         *)
Transport ==
  LET given == {n \in HeaderName : request.header[n] # None}
  IN  [key \in {[name |-> n, spelling |-> "transport"] : n \in given} |-> request.header[key.name]]

(* injectHeaders: each header of the transport replaces what h has under   *)
(* the same name, in whatever spelling.                                    *)
Injected(h) ==
  LET names == {key.name : key \in DOMAIN Transport}
      kept  == {key \in DOMAIN h : key.name \notin names}
  IN  [key \in kept \cup DOMAIN Transport |->
         IF key \in DOMAIN Transport THEN Transport[key] ELSE h[key]]

(* A mutation: sanitize leaves the message's headers alone, so that a name *)
(* the transport does not bring falls back to the body.                    *)
ReceiveFallingBack ==
  /\ stack = <<>> /\ answer = "none"
  /\ metadata' = [metadata EXCEPT !["client"] = None]
  /\ enforced' = [enforced EXCEPT !["client"] = {}]
  /\ headers' = Injected(headers)
  /\ stack' = <<[pipe |-> config.entry, query |-> "client", phase |-> "validate", next |-> 1]>>
  /\ UNCHANGED <<config, request, map, filter, left, result, answer, seen>>

(* PrepareIngress: sanitize clears what a client may not write, metadata,  *)
(* enforcement and headers, and the transport's headers are put in.        *)
Receive ==
  /\ stack = <<>> /\ answer = "none"
  /\ metadata' = [metadata EXCEPT !["client"] = None]
  /\ enforced' = [enforced EXCEPT !["client"] = {}]
  /\ headers' = Injected([key \in {} |-> None])
  /\ stack' = <<[pipe |-> config.entry, query |-> "client", phase |-> "validate", next |-> 1]>>
  /\ UNCHANGED <<config, request, map, filter, left, result, answer, seen>>

Validate ==
  /\ Running("validate")
  /\ \/ Plan.given /\ ~Plan.valid /\ Refuse("InvalidArgument")
     \/ /\ ~Plan.given \/ Plan.valid
        /\ Continue([Top EXCEPT !.phase = "query"])
        /\ UNCHANGED <<config, request, headers, query, filter, left, result, answer, seen>>

Processing(kind) == Running("query") /\ Top.next \in DOMAIN Procs /\ Proc.kind = kind

(* The processors that read headers, each with what its lookup found.      *)
RunTenantWith(header) ==
  LET id == ResolvedTenant(Proc, header)
  IN  /\ Processing("tenant")
      /\ \/ TenantRefuses(Proc, header) /\ Refuse("Unauthenticated")
         \/ /\ id = None /\ ~TenantRefuses(Proc, header)
            /\ NextProc
            /\ map' = IF metadata[Top.query] = None THEN map
                      ELSE [map EXCEPT ![metadata[Top.query]].tenant = None]
            /\ UNCHANGED <<config, request, headers, metadata, enforced, filter, left, result,
                           answer, seen>>
         \/ /\ id # None
            /\ NextProc
            /\ SetMap(Top.query, [MapOf(Top.query) EXCEPT !.tenant = id])
            /\ enforced' = [enforced EXCEPT ![Top.query] = @ \cup TenantMatchers(Proc, header)]
            /\ seen' = [seen EXCEPT !.demands = @ \cup Demanded(TenantMatchers(Proc, header))]
            /\ UNCHANGED <<config, request, headers, filter, left, result, answer>>
RunTenant == \E header \in Lookups : RunTenantWith(header)

RunLimitWith(header) ==
  /\ Processing("limit")
  /\ \/ LimitUnauthenticated(Proc, header, Tenant) /\ Refuse("Unauthenticated")
     \/ /\ ~LimitUnauthenticated(Proc, header, Tenant)
        /\ Proc.limited /\ Refuse("ResourceExhausted")
     \/ /\ ~LimitUnauthenticated(Proc, header, Tenant)
        /\ NextProc
        /\ seen' = IF Proc.limited
                   THEN [seen EXCEPT !.charges =
                           @ \cup {[pipe |-> Top.pipe, path |-> Path, at |-> Top.next,
                                    key |-> LimitKey(Proc, Tenant)]}]
                   ELSE seen
        /\ UNCHANGED <<config, request, headers, query, filter, left, result, answer>>
RunLimit == \E header \in Lookups : RunLimitWith(header)

RunAuthzWith(header) ==
  LET subject == ResolvedSubject(Proc, header, Tenant)
      matchers == LabelMatchers(Scope(Proc, subject), Tenant)
  IN  /\ Processing("authz")
      /\ \/ AuthzRefuses(Proc, header, Tenant) /\ Refuse("PermissionDenied")
         \/ /\ ~AuthzRefuses(Proc, header, Tenant)
            /\ NextProc
            /\ IF subject = None THEN UNCHANGED <<metadata, map>>
               ELSE SetMap(Top.query, [MapOf(Top.query) EXCEPT !.subject = subject])
            /\ enforced' = [enforced EXCEPT ![Top.query] = @ \cup matchers]
            /\ seen' = [seen EXCEPT !.demands = @ \cup Demanded(matchers)]
            /\ UNCHANGED <<config, request, headers, filter, left, result, answer>>
RunAuthz == \E header \in Lookups : RunAuthzWith(header)

(* A mutation: the right operand of a binary node is not descended into. *)
ComposedLeftOnly(q, matchers) ==
  [s \in Select |-> IF s \in Selects(q) /\ s.side = "lhs" THEN filter[s] \cup matchers
                                                          ELSE filter[s]]

(* composeEnforcement: the conjunction goes into every Select of the plan. *)
Composed(q, matchers) ==
  [s \in Select |-> IF s \in Selects(q) THEN filter[s] \cup matchers ELSE filter[s]]

RunRewrite ==
  LET own == LabelMatchers(Proc.labels, Tenant)
  IN  /\ Processing("rewrite")
      /\ \/ /\ ~Plan.given
            /\ NextProc
            /\ UNCHANGED <<config, request, headers, query, filter, left, result, answer, seen>>
         \/ Plan.given /\ Unresolved(Proc.labels, Tenant) /\ Refuse("PermissionDenied")
         \/ /\ Plan.given /\ ~Unresolved(Proc.labels, Tenant)
            /\ NextProc
            /\ filter' = Composed(Top.query, enforced[Top.query] \cup own)
            /\ IF enforced[Top.query] \cup own = {} THEN UNCHANGED <<metadata, map>>
               ELSE SetMap(Top.query, MapOf(Top.query))
            /\ seen' = [seen EXCEPT !.demands = @ \cup Demanded(own)]
            /\ UNCHANGED <<config, request, headers, enforced, left, result, answer>>

(* responsefilter leaves the query alone. *)
RunFilter ==
  /\ Processing("filter")
  /\ NextProc
  /\ UNCHANGED <<config, request, headers, query, filter, left, result, answer, seen>>

--------------------------------------------------------------------------------
(* The end of a chain: storage, or the connector.                          *)

AtEnd == Running("query") /\ Top.next \notin DOMAIN Procs

(* A mutation: the loop over the processors in reverse starts one too far. *)
RespondPastEnd(r) ==
  /\ result' = r
  /\ Continue([Top EXCEPT !.phase = "result"])

Respond(r) ==
  /\ result' = r
  /\ Continue([Top EXCEPT !.phase = "result", !.next = Len(Procs)])

(* A dispatcher rejects what it cannot serve, and may fail; else storage   *)
(* returns series or records with any of the labels.  A plan that selects  *)
(* nothing (a literal) is served too, unless the dispatcher searches.      *)
Serves == Plan.given /\ PlanSignals(Top.query) \subseteq {Top.pipe}
ReadStorage ==
  /\ AtEnd /\ Top.pipe \in Signal
  /\ \/ ~Serves /\ Refuse("InvalidArgument")
     \/ PlanSignals(Top.query) = {} /\ Refuse("InvalidArgument")
     \/ Serves /\ Refuse("Unavailable")
     \/ /\ Serves
        /\ \E found \in SUBSET Label :
             Respond([table |-> FALSE, columns |-> {Plain(l) : l \in found},
                      cells |-> {[column |-> Plain(l), value |-> "raw", from |-> Top.pipe] :
                                   l \in found}])
        /\ seen' = [seen EXCEPT !.reads =
                      @ \cup {[pipe |-> Top.pipe, query |-> Top.query, path |-> Path,
                               tenant |-> Tenant, subject |-> Subject,
                               selects |-> Selects(Top.query), filter |-> filter]}]
        /\ UNCHANGED <<config, request, headers, query, filter, left, answer>>

Dispatching == AtEnd /\ Top.pipe = "front"
Joins == Cardinality(PlanSignals(Top.query)) > 1

(* execSide's checks of an operand. *)
Executable(q) == \E s \in config.targets : PlanSignals(q) = {s}

ConnectRefused ==
  /\ Dispatching
  /\ \/ PlanSignals(Top.query) = {}
     \/ ~Joins /\ ~(PlanSignals(Top.query) \subseteq config.targets)
     \/ Joins /\ (Plan.op \notin {"and", "unless"} \/ ~Executable("lhs"))
  /\ Refuse("InvalidArgument")

(* One signal: the target pipeline gets the query itself. *)
ConnectSingle ==
  /\ Dispatching
  /\ \E s \in config.targets :
       /\ PlanSignals(Top.query) = {s}
       /\ Call(s, Top.query, [Top EXCEPT !.phase = "single"])
  /\ UNCHANGED <<config, request, headers, query, filter, left, result, answer, seen>>

(* subQuery: the operand's part of the plan, the parent's metadata, and no *)
(* enforced matchers.                                                      *)
ExecSide(q, frame) ==
  /\ \E s \in config.targets : PlanSignals(q) = {s} /\ Call(s, q, frame)
  /\ metadata' = [metadata EXCEPT ![q] = metadata[Top.query]]
  /\ UNCHANGED <<config, request, headers, map, enforced, filter, result, answer, seen>>

ConnectLeft ==
  /\ Dispatching /\ Joins /\ Plan.op \in {"and", "unless"}
  /\ ExecSide("lhs", [Top EXCEPT !.phase = "left"])
  /\ UNCHANGED left

(* Top's callee returned: the frame it was called from is on top again. *)
ConnectRight ==
  /\ Running("left")
  /\ \/ ~Executable("rhs") /\ Refuse("InvalidArgument")
     \/ /\ left' = result
        /\ ExecSide("rhs", [Top EXCEPT !.phase = "right"])

FinishSingle ==
  /\ Running("single")
  /\ Respond(result)
  /\ UNCHANGED <<config, request, headers, query, filter, left, answer, seen>>

--------------------------------------------------------------------------------
(* The join of the two sides (joinTables).                                 *)

JoinKeys ==
  LET shared == left.columns \cap result.columns
  IN  IF Plan.on # {} THEN {Plain(l) : l \in Plan.on}
      ELSE shared \ {Plain(l) : l \in Plan.ignoring}

(* The name a right column gets in the joined rows.                        *)
Renamed(column) ==
  IF column \in left.columns THEN Column("right_", column.label) ELSE column

Merged ==
  [table |-> TRUE,
   columns |-> left.columns \cup {Renamed(c) : c \in result.columns \ JoinKeys},
   cells |-> left.cells \cup
     {[c EXCEPT !.column = Renamed(@)] :
        c \in {d \in result.cells : d.column \notin JoinKeys}}]

(* A row that lacks a key column never matches: AND finds no pair then,    *)
(* and UNLESS keeps every left row.  Otherwise the values decide.          *)
CanMatch ==
  \A r \in {left, result} : JoinKeys \subseteq {c.column : c \in r.cells}

Join ==
  /\ Running("right")
  /\ \/ JoinKeys = {} /\ Refuse("InvalidArgument")
     \/ /\ JoinKeys # {}
        /\ \E matched \in IF CanMatch THEN BOOLEAN ELSE {FALSE} :
             Respond(IF Plan.op = "and"
                     THEN IF matched THEN Merged ELSE [Merged EXCEPT !.cells = {}]
                     ELSE [table |-> TRUE, columns |-> left.columns,
                           cells |-> IF matched THEN {} ELSE left.cells])
        /\ UNCHANGED <<config, request, headers, query, filter, left, answer, seen>>

--------------------------------------------------------------------------------
(* The response path, and the answer.                                      *)

ProcessResult ==
  /\ Running("result") /\ Top.next > 0
  /\ result' = IF Proc.kind = "filter" THEN Scrubbed(Proc, result) ELSE result
  /\ Continue([Top EXCEPT !.next = @ - 1])
  /\ UNCHANGED <<config, request, headers, query, filter, left, answer, seen>>

Return ==
  /\ Running("result") /\ Top.next = 0
  /\ stack' = SubSeq(stack, 1, Len(stack) - 1)
  /\ answer' = IF Len(stack) = 1 THEN "data" ELSE answer
  /\ UNCHANGED <<config, request, headers, query, filter, left, result, seen>>

Done == answer # "none" /\ UNCHANGED vars

Next ==
  \/ Receive \/ Validate
  \/ RunTenant \/ RunLimit \/ RunAuthz \/ RunRewrite \/ RunFilter
  \/ ReadStorage
  \/ ConnectRefused \/ ConnectSingle \/ FinishSingle
  \/ ConnectLeft \/ ConnectRight \/ Join
  \/ ProcessResult \/ Return
  \/ Done

Spec == Init /\ [][Next]_vars

--------------------------------------------------------------------------------
(* Properties.                                                             *)

(* Handle nests at most once, from the front into a pipeline behind it.    *)
TypeOK ==
  /\ Len(stack) <= 2
  /\ \A i \in DOMAIN stack :
       LET ends == Len(config.procs[stack[i].pipe])
       IN  stack[i] \in
             [pipe : Pipe, query : Query, next : 1 .. ends + 1,
              phase : {"validate", "query", "single", "left", "right"}]
             \cup [pipe : Pipe, query : Query, next : 0 .. ends, phase : {"result"}]
  /\ metadata \in [Query -> Query \cup {None}]
  /\ \A q \in Query : DOMAIN map[q] = {"tenant", "subject"}
  /\ \A q \in Query : \A m \in enforced[q] : DOMAIN m = {"name", "value"}
  /\ \A s \in Select : \A m \in filter[s] : DOMAIN m = {"name", "value"}
  /\ answer \in {"none", "data", "InvalidArgument", "Unauthenticated", "PermissionDenied",
                 "ResourceExhausted", "Unavailable"}

(* The processors that a step of pipe has behind it when the pipelines in  *)
(* path are handling the query, as one chain, and the place of pipe's own  *)
(* processor number at in that chain.                                      *)
Chain(pipe, path) ==
  IF pipe # "front" /\ "front" \in path THEN config.procs["front"] \o config.procs[pipe]
                                        ELSE config.procs[pipe]
Place(pipe, path, at) == Len(Chain(pipe, path)) - Len(config.procs[pipe]) + at

(* What the transport says, whatever the message says. *)
Header == request.header

(* The tenant after the first n processors of a chain: what the last of    *)
(* its tenant processors resolves from the transport.                      *)
TenantAfter(chain, n) ==
  LET resolvers == {i \in 1 .. n : chain[i].kind = "tenant"}
  IN  IF resolvers = {} THEN None
      ELSE LET last == CHOOSE i \in resolvers : \A j \in resolvers : j <= i
           IN  ResolvedTenant(chain[last], Header)

(* Storage is read on behalf of, and rate limits are charged to, the       *)
(* tenant that the processors on the query's own path resolve: neither the *)
(* message the client sent nor the other side of a join has a say.         *)
ReadsAsOwnTenant ==
  /\ \A r \in seen.reads :
       LET chain == Chain(r.pipe, r.path) IN r.tenant = TenantAfter(chain, Len(chain))
  /\ \A c \in seen.charges :
       LET chain == Chain(c.pipe, c.path)
           place == Place(c.pipe, c.path, c.at)
       IN  c.key = LimitKey(chain[place], TenantAfter(chain, place - 1))

(* The policy of an authz processor forbids a subject that a deny rule     *)
(* names before any other rule does, or that only the default judges.      *)
Forbids(p, subject) ==
  LET Names(i) == p.rules[i].subjects = {} \/ subject \in p.rules[i].subjects
  IN  IF \E i \in DOMAIN p.rules : Names(i)
      THEN \E i \in DOMAIN p.rules :
             ~p.rules[i].allow /\ Names(i) /\ \A j \in 1 .. i - 1 : ~Names(j)
      ELSE ~p.allow

(* No storage is read for a request that any gate on the way to it, in the *)
(* front pipeline or in the storage's own, should turn away.               *)
Opens(p, tenant) ==
  /\ p.kind = "tenant" => ~TenantRefuses(p, Header)
  /\ p.kind = "limit"  => ~LimitUnauthenticated(p, Header, tenant)
  /\ p.kind = "authz"  => ~Forbids(p, ResolvedSubject(p, Header, tenant))
ReadsAreAdmitted ==
  \A r \in seen.reads :
    LET chain == Chain(r.pipe, r.path)
    IN  \A i \in DOMAIN chain : Opens(chain[i], TenantAfter(chain, i - 1))

(* Every matcher that a processor registers on a query, where the same     *)
(* pipeline rewrites the query later, is in every Select that the storage  *)
(* is asked for, be it on behalf of the query or of a side of its join and *)
(* whatever is rewritten again.                                            *)
WovenLater(d) ==
  \E j \in d.at .. Len(config.procs[d.pipe]) : config.procs[d.pipe][j].kind = "rewrite"
EnforcementReachesStorage ==
  \A r \in seen.reads : \A d \in seen.demands : \A s \in r.selects :
    d.query \in {"client", r.query} /\ WovenLater(d) => d.matcher \in r.filter[s]

(* A filter hides a cell that its settings name. *)
Hides(pipe, label, value) ==
  \E i \in DOMAIN config.procs[pipe] :
    LET p == config.procs[pipe][i]
    IN  /\ p.kind = "filter"
        /\ label \in p.drop \/ (label \in p.mask /\ value # "masked")

(* An answer shows nothing that the filters of its storage's pipeline hide, *)
(* however a join renames the columns, nothing that the filters of the      *)
(* entry pipeline hide under its own name, and declares no dropped column.  *)
AnswersAreScrubbed ==
  answer = "data" =>
    /\ \A c \in result.cells :
         /\ ~Hides(c.from, c.column.label, c.value)
         /\ c.column.prefix = "" => ~Hides(config.entry, c.column.label, c.value)
    /\ \A i \in DOMAIN config.procs[config.entry] :
         LET p == config.procs[config.entry][i]
         IN  p.kind = "filter" => result.columns \cap {Plain(l) : l \in p.drop} = {}

--------------------------------------------------------------------------------
(* What the documentation says.                                            *)

(* responsefilter's README and its scrubTable: scrubbing the joined table  *)
(* keeps a dropped or masked label from being laundered through a join.    *)
JoinsLaunderNoLabel ==
  answer = "data" => \A c \in result.cells : ~Hides(config.entry, c.column.label, c.value)

(* simpleauthz's README: the matchers of an allowing rule are woven into   *)
(* the query by the queryrewrite downstream, so a subject can only see the *)
(* series that its rule permits.                                           *)
SubjectsSeeWhatTheirRulesPermit ==
  \A r \in seen.reads : \A d \in seen.demands : \A s \in r.selects :
    /\ d.pipe \in r.path
    /\ config.procs[d.pipe][d.at].kind = "authz"
    /\ WovenLater(d) \/ \E j \in DOMAIN config.procs[r.pipe] :
                         config.procs[r.pipe][j].kind = "rewrite"
    => d.matcher \in r.filter[s]

(* subQuery's comment: both sides of a join carry the parent's tenant.     *)
SidesCarryTheParentsTenant ==
  \A r \in seen.reads :
    "front" \in r.path /\ (\A i \in DOMAIN config.procs[r.pipe] :
                            config.procs[r.pipe][i].kind # "tenant")
    => r.tenant = TenantAfter(config.procs["front"], Len(config.procs["front"]))
================================================================================
