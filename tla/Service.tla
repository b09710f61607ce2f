-------------------------------- MODULE Service --------------------------------
(***************************************************************************)
(* The assembly and life of the querier process: Build turns a             *)
(* configuration into pipelines, connector targets and acceptors (ranging  *)
(* over Go maps, whose order nobody chooses), Start starts the pipelines   *)
(* and binds the listeners one by one, requests come in from then on, and  *)
(* a signal makes main shut the acceptors down, then the pipelines, and    *)
(* return, while requests are in flight.                                   *)
(*                                                                         *)
(* What a pipeline does with a query is QueryPath's subject; here a        *)
(* request is the stack of the pipelines that handle it.                   *)
(***************************************************************************)
EXTENDS Lists, FiniteSets, SequencesExt

CONSTANTS
  Config,   (* [pipelines, connectors, transports, broken]: the pipelines   *)
            (* by name, each [signal, acceptors, processors, dispatchers],  *)
            (* the ids that are connectors, the transports of each acceptor *)
            (* ("grpc" before "http"), and the ids of components that no    *)
            (* factory makes.                                               *)
  Signal,   (* The signals that a pipeline's type may name.                 *)
  Request,  (* The requests that clients send.                              *)
  Nobody    (* Of a request's listener: none yet.                           *)

VARIABLES
  config,
  phase,     (* Where main is; "exited" and "fatal" end the process.        *)
  todo,      (* The pipelines that the current loop has yet to visit.       *)
  wiring,    (* [leaves, fronts, targets, owner, acceptors]: the pipelines  *)
             (* built, who serves a connector's signals, the pipeline of    *)
             (* each acceptor, and svc.acceptors.                           *)
  running,   (* The pipelines that are started and not yet shut down.       *)
  listener,  (* State of each <<acceptor, transport>>.                      *)
  stopping,  (* SIGINT or SIGTERM arrived.                                  *)
  expired,   (* The ten seconds that main gives Shutdown are over.          *)
  request    (* Of each request: [at, on, stack, asks].                     *)

buildVars == <<config, wiring>>
lifeVars == <<running, listener, stopping, expired, request>>
vars == <<config, phase, todo, wiring, running, listener, stopping, expired, request>>

(* What viper unmarshals: a pipeline's components, and an acceptor's       *)
(* transports, are lists of names.                                         *)
ASSUME ConfigAssumption ==
  \A c \in Config :
    /\ \A name \in DOMAIN c.pipelines :
         LET pipe == c.pipelines[name]
         IN  IsList(pipe.acceptors) /\ IsList(pipe.processors) /\ IsList(pipe.dispatchers)
    /\ \A a \in DOMAIN c.transports : IsList(c.transports[a])

Names == DOMAIN config.pipelines
Pipe(name) == config.pipelines[name]
IsConnectorID(id) == id \in config.connectors
Terminal(name) == Pipe(name).dispatchers[1]
Works(ids) == \A i \in DOMAIN ids : ids[i] \notin config.broken

Init ==
  /\ config \in Config
  /\ phase = "load"
  /\ todo = {}
  /\ wiring = [leaves |-> {}, fronts |-> {}, owner |-> <<>>, acceptors |-> <<>>,
               targets |-> [c \in config.connectors |-> <<>>]]
  /\ running = {}
  /\ listener = <<>>
  /\ stopping = FALSE /\ expired = FALSE
  /\ request = [r \in Request |-> [at |-> "client", on |-> Nobody, stack |-> <<>>, asks |-> <<>>]]

With(f, k, v) == [j \in DOMAIN f \cup {k} |-> IF j = k THEN v ELSE f[j]]

--------------------------------------------------------------------------------
(* LoadConfig and Build.  An error anywhere is log.Fatalf's.                *)

Fatal == phase' = "fatal" /\ UNCHANGED <<todo, buildVars, lifeVars>>

(* Config.validate *)
WellFormed(pipe) ==
  pipe.signal \in Signal /\ pipe.acceptors # <<>> /\ Len(pipe.dispatchers) = 1
Validate ==
  /\ phase = "load"
  /\ IF Names # {} /\ \A name \in Names : WellFormed(Pipe(name))
     THEN phase' = "leaves" /\ todo' = Names /\ UNCHANGED <<buildVars, lifeVars>>
     ELSE Fatal

(* One turn of a loop over cfg.Service.Pipelines. *)
Visit(loop, name) == phase = loop /\ name \in todo
NextTurn(name) == todo' = todo \ {name} /\ UNCHANGED <<phase, config, lifeVars>>

BuildLeafPipeline(name) ==
  /\ Visit("leaves", name)
  /\ IF IsConnectorID(Terminal(name)) THEN NextTurn(name) /\ UNCHANGED wiring
     ELSE IF Works(Pipe(name).processors \o Pipe(name).dispatchers)
     THEN NextTurn(name) /\ wiring' = [wiring EXCEPT !.leaves = @ \cup {name}]
     ELSE Fatal

(* A mutation: any pipeline may serve a connector. *)
AnyTarget(name) == TRUE

(* built[name] exists in the pass that resolves the targets. *)
IsLeaf(name) == name \in wiring.leaves

Sources(name) == {c \in config.connectors : c \in ToSet(Pipe(name).acceptors)}

(* A mutation: a connector's targets start anew with every pipeline. *)
RestartedTargets(name) ==
  [c \in config.connectors |->
     IF c \in Sources(name) THEN With(<<>>, Pipe(name).signal, name) ELSE wiring.targets[c]]

(* Of two pipelines with one signal, the one visited last takes the place. *)
TargetsWith(name) ==
  [c \in config.connectors |->
     IF c \in Sources(name) THEN With(wiring.targets[c], Pipe(name).signal, name)
                            ELSE wiring.targets[c]]

ConnectorTargets(name) ==
  /\ Visit("targets", name)
  /\ IF Sources(name) # {} /\ ~IsLeaf(name) THEN Fatal
     ELSE /\ NextTurn(name)
          /\ wiring' = [wiring EXCEPT !.targets = TargetsWith(name)]

BuildConnectorPipeline(name) ==
  /\ Visit("connectors", name)
  /\ IF ~IsConnectorID(Terminal(name)) THEN NextTurn(name) /\ UNCHANGED wiring
     ELSE IF Works(Pipe(name).processors \o Pipe(name).dispatchers)
     THEN NextTurn(name) /\ wiring' = [wiring EXCEPT !.fronts = @ \cup {name}]
     ELSE Fatal

(* A mutation: a connector source is taken for an acceptor. *)
AllListening(name) == Pipe(name).acceptors

(* The acceptors that listen, of those a pipeline lists. *)
Listening(name) == Skipping(Pipe(name).acceptors, config.connectors)

(* A mutation: an acceptor reused by a second pipeline is built again. *)
NeverReused(name) == FALSE

Reused(name) ==
  \/ \E id \in ToSet(Listening(name)) : id \in DOMAIN wiring.owner
  \/ ~IsInjective(Listening(name))

WireAcceptors(name) ==
  /\ Visit("wire", name)
  /\ IF Reused(name) \/ ~Works(Listening(name)) THEN Fatal
     ELSE /\ NextTurn(name)
          /\ wiring' = [wiring EXCEPT
               !.owner = [a \in DOMAIN @ \cup ToSet(Listening(name)) |->
                            IF a \in ToSet(Listening(name)) THEN name ELSE @[a]],
               !.acceptors = @ \o Listening(name)]

Following == [leaves |-> "targets", targets |-> "connectors", connectors |-> "wire"]
NextLoop ==
  /\ phase \in DOMAIN Following /\ todo = {}
  /\ phase' = Following[phase] /\ todo' = Names
  /\ UNCHANGED <<buildVars, lifeVars>>

--------------------------------------------------------------------------------
(* Start.                                                                   *)

Built == wiring.leaves \cup wiring.fronts
Listener == UNION {{a} \X ToSet(config.transports[a]) : a \in ToSet(wiring.acceptors)}

(* The order in which the listeners are bound, and shut down: one acceptor *)
(* after the other, but otqpacceptor binds gRPC before HTTP and shuts HTTP *)
(* down before gRPC.                                                       *)
Before(s, x, y) == \E i, j \in DOMAIN s : i < j /\ s[i] = x /\ s[j] = y
BindsBefore(l, m) ==
  \/ Before(wiring.acceptors, l[1], m[1])
  \/ l[1] = m[1] /\ Before(config.transports[l[1]], l[2], m[2])
StopsBefore(l, m) ==
  \/ Before(wiring.acceptors, l[1], m[1])
  \/ l[1] = m[1] /\ Before(config.transports[l[1]], m[2], l[2])

In(states) == {l \in Listener : listener[l] \in states}

BeginStart ==
  /\ phase = "wire" /\ todo = {}
  /\ phase' = "start" /\ todo' = Built
  /\ listener' = [l \in Listener |-> "down"]
  /\ UNCHANGED <<buildVars, running, stopping, expired, request>>

StartPipeline(name) ==
  /\ Visit("start", name)
  /\ todo' = todo \ {name}
  /\ running' = running \cup {name}
  /\ UNCHANGED <<phase, buildVars, listener, stopping, expired, request>>

StartAcceptors ==
  /\ phase = "start" /\ todo = {}
  /\ phase' = "listen"
  /\ UNCHANGED <<todo, buildVars, lifeVars>>

Listen ==
  /\ phase = "listen"
  /\ \E l \in In({"down"}) :
       /\ \A m \in In({"down"}) : ~BindsBefore(m, l)
       /\ \/ Fatal
          \/ /\ listener' = [listener EXCEPT ![l] = "bound"]
             /\ UNCHANGED <<phase, todo, buildVars, running, stopping, expired, request>>

(* Start returns, and main waits for a signal. *)
Started ==
  /\ phase = "listen" /\ In({"down"}) = {}
  /\ phase' = "serving"
  /\ UNCHANGED <<todo, buildVars, lifeVars>>

(* The goroutine that serves a listener, whenever it gets to run.          *)
Serve(l) ==
  /\ listener[l] = "bound"
  /\ listener' = [listener EXCEPT ![l] = "open"]
  /\ UNCHANGED <<phase, todo, buildVars, running, stopping, expired, request>>

--------------------------------------------------------------------------------
(* Shutdown.                                                                *)

(* SIGINT or SIGTERM, once main has asked to be told. *)
SignalArrives ==
  /\ phase \in {"start", "listen", "serving"} /\ ~stopping
  /\ stopping' = TRUE
  /\ UNCHANGED <<phase, todo, buildVars, running, listener, expired, request>>

BeginShutdown ==
  /\ phase = "serving" /\ stopping
  /\ phase' = "drain"
  /\ UNCHANGED <<todo, buildVars, lifeVars>>

Deadline ==
  /\ phase = "drain" /\ ~expired
  /\ expired' = TRUE
  /\ UNCHANGED <<phase, todo, buildVars, running, listener, stopping, request>>

InFlight(r) == request[r].at \in {"receiving", "handling"}
Calls(l) == {r \in Request : InFlight(r) /\ request[r].on = l}

(* The next listener takes no new calls. *)
CloseListener ==
  /\ phase = "drain" /\ In({"closing"}) = {}
  /\ \E l \in In({"bound", "open"}) :
       /\ \A m \in In({"bound", "open"}) : ~StopsBefore(m, l)
       /\ listener' = [listener EXCEPT ![l] = "closing"]
  /\ UNCHANGED <<phase, todo, buildVars, running, stopping, expired, request>>

(* A mutation: the deadline does not bound an HTTP server's Shutdown. *)
DrainedFully(l) == Calls(l) = {}
(* A mutation: a server's calls are not waited for. *)
DrainedAtOnce(l) == TRUE

(* http.Server's Shutdown(ctx) and grpc.Server's GracefulStop(). *)
Drained(l) == Calls(l) = {} \/ (l[2] = "http" /\ expired)

ShutdownReturns ==
  /\ phase = "drain"
  /\ \E l \in In({"closing"}) : Drained(l) /\ listener' = [listener EXCEPT ![l] = "closed"]
  /\ UNCHANGED <<phase, todo, buildVars, running, stopping, expired, request>>

(* A mutation: pipelines are shut down before the acceptors. *)
NoListenerCounts == phase = "drain"

AcceptorsAreDown == phase = "drain" /\ In({"bound", "open", "closing"}) = {}

BeginStop ==
  /\ AcceptorsAreDown
  /\ phase' = "stop" /\ todo' = running
  /\ UNCHANGED <<buildVars, lifeVars>>

ShutdownPipeline(name) ==
  /\ Visit("stop", name)
  /\ todo' = todo \ {name}
  /\ running' = running \ {name}
  /\ UNCHANGED <<phase, buildVars, listener, stopping, expired, request>>

MainReturns ==
  /\ phase = "stop" /\ todo = {}
  /\ phase' = "exited"
  /\ UNCHANGED <<todo, buildVars, lifeVars>>

Main ==
  \/ Validate \/ NextLoop
  \/ \E name \in Names :
       \/ BuildLeafPipeline(name) \/ ConnectorTargets(name)
       \/ BuildConnectorPipeline(name) \/ WireAcceptors(name)
       \/ StartPipeline(name) \/ ShutdownPipeline(name)
  \/ BeginStart \/ StartAcceptors \/ Listen \/ Started
  \/ BeginShutdown \/ CloseListener \/ ShutdownReturns \/ BeginStop \/ MainReturns

--------------------------------------------------------------------------------
(* Requests, each in a goroutine of its own while the process lives.        *)

Alive == phase \notin {"exited", "fatal"}
Set(r, new) == /\ request' = [request EXCEPT ![r] = new]
               /\ UNCHANGED <<phase, todo, buildVars, running, listener, stopping, expired>>

(* A call is opened: its headers have come, its message or body has not.   *)
Call(r, l) ==
  /\ Alive /\ request[r].at = "client" /\ listener[l] = "open"
  /\ Set(r, [request[r] EXCEPT !.at = "receiving", !.on = l])

(* A plan asks for one signal, or for two that the connector joins. *)
Plan == {<<s>> : s \in Signal} \cup {p \in Signal \X Signal : p[1] # p[2]}

(* The rest of it has come. *)
Receive(r) ==
  /\ Alive /\ request[r].at = "receiving"
  /\ \E plan \in Plan :
       Set(r, [request[r] EXCEPT !.at = "handling", !.asks = plan,
                                 !.stack = <<wiring.owner[request[r].on[1]]>>])

Top(r) == Last(request[r].stack)
Handling(r) == Alive /\ request[r].at = "handling" /\ request[r].stack # <<>>

(* The connector hands the next operand to its target pipeline. *)
Dispatch(r) ==
  LET asks == request[r].asks
      targets == wiring.targets[Terminal(Top(r))]
  IN  /\ Handling(r) /\ IsConnectorID(Terminal(Top(r)))
      /\ asks # <<>> /\ Head(asks) \in DOMAIN targets
      /\ Set(r, [request[r] EXCEPT !.stack = Append(@, targets[Head(asks)]), !.asks = Tail(@)])

(* A pipeline returns a result, or an error that ends the whole request.   *)
HandlerReturns(r) ==
  /\ Handling(r)
  /\ \/ /\ ~IsConnectorID(Terminal(Top(r))) \/ request[r].asks = <<>>
        /\ Set(r, [request[r] EXCEPT !.stack = Front(@)])
     \/ Set(r, [request[r] EXCEPT !.stack = Front(@), !.asks = <<>>])

Respond(r) ==
  /\ Alive /\ request[r].at = "handling" /\ request[r].stack = <<>>
  /\ Set(r, [request[r] EXCEPT !.at = "answered", !.asks = <<>>])

Handle(r) == Dispatch(r) \/ HandlerReturns(r) \/ Respond(r)

End == ~Alive /\ UNCHANGED vars

Next ==
  \/ Main \/ SignalArrives \/ Deadline
  \/ \E l \in DOMAIN listener : Alive /\ Serve(l)
  \/ \E r \in Request : (\E l \in DOMAIN listener : Call(r, l)) \/ Receive(r) \/ Handle(r)
  \/ End

Spec == Init /\ [][Next]_vars

(* main and the request goroutines are scheduled, a dispatcher's client    *)
(* times out, and so does the shutdown's context.  Signals, new calls, and *)
(* whether a client ever sends the rest of one, are not in its hands.      *)
FairSpec ==
  /\ Spec
  /\ WF_vars(Main) /\ WF_vars(Deadline)
  /\ \A r \in Request : WF_vars(Handle(r))

--------------------------------------------------------------------------------
(* Properties.                                                              *)

Phase == {"load", "leaves", "targets", "connectors", "wire", "start", "listen",
          "serving", "drain", "stop", "exited", "fatal"}
(* The service's variables keep their types: only acceptors listen, only   *)
(* pipelines that were built run.                                          *)
TypeOK ==
  /\ config \in Config /\ phase \in Phase /\ todo \subseteq Names
  /\ wiring.leaves \cap wiring.fronts = {} /\ Built \subseteq Names
  /\ DOMAIN wiring.owner = ToSet(wiring.acceptors)
  /\ DOMAIN wiring.owner \cap config.connectors = {}
  /\ running \subseteq Built
  /\ \A l \in DOMAIN listener : listener[l] \in {"down", "bound", "open", "closing", "closed"}
  /\ \A r \in Request : InFlight(r) => request[r].on \in Listener

(* A connector hands a query to leaf pipelines only, to one that lists it  *)
(* as a source and carries the signal, so a query passes two pipelines at  *)
(* most and never the same one twice.                                      *)
ConnectorsReachLeaves ==
  /\ \A c \in config.connectors : \A s \in DOMAIN wiring.targets[c] :
       LET name == wiring.targets[c][s]
       IN  IsLeaf(name) /\ c \in Sources(name) /\ Pipe(name).signal = s
  /\ \A r \in Request : Len(request[r].stack) = 2 => IsLeaf(Top(r))
  /\ \A r \in Request : Len(request[r].stack) <= 2

(* What a configuration must be to be built.                               *)
Valid ==
  /\ Names # {} /\ \A name \in Names : WellFormed(Pipe(name))
  /\ \A name \in Names :
       /\ Works(Pipe(name).processors \o Pipe(name).dispatchers \o Listening(name))
       /\ IsConnectorID(Terminal(name)) => Sources(name) = {}
       /\ IsInjective(Listening(name))
       /\ \A other \in Names \ {name} :
            ToSet(Listening(name)) \cap ToSet(Listening(other)) = {}
(* Build accepts exactly the valid configurations, whatever the order in   *)
(* which its loops range over the pipelines.                               *)
BuildAcceptsTheValid ==
  /\ Valid => ~(phase = "fatal" /\ listener = <<>>)
  /\ phase \in {"start", "listen", "serving", "drain", "stop", "exited"} => Valid

(* Once built, an acceptor feeds the pipeline that lists it, and a         *)
(* pipeline that alone brings a connector its signal is the one that       *)
(* serves it: the order of the loops chooses between rivals, no more.      *)
WiringFollowsTheConfig ==
  phase \in {"start", "listen", "serving"} =>
    \A name \in Names :
      /\ \A a \in ToSet(Listening(name)) : wiring.owner[a] = name
      /\ \A c \in Sources(name) :
           LET signal == Pipe(name).signal
               rivals == {n \in Names : c \in Sources(n) /\ Pipe(n).signal = signal}
           IN  signal \in DOMAIN wiring.targets[c] /\ wiring.targets[c][signal] \in rivals

(* A query is only ever in pipelines that are started and not yet shut     *)
(* down, but for an HTTP call that outlives the ten seconds of Shutdown.   *)
Outlives(r) == expired /\ request[r].on[2] = "http"
RunningPipelinesServe ==
  Alive => \A r \in Request :
             ToSet(request[r].stack) \subseteq running \/ Outlives(r)

(* When main returns, each call that was accepted has been answered, with  *)
(* the same exception.                                                     *)
ExitsAfterAnswering ==
  phase = "exited" => \A r \in Request : InFlight(r) => Outlives(r)

(* The process ends after a signal, unless a gRPC client that has opened a *)
(* call never sends its message: GracefulStop knows no deadline.           *)
OpenRpc == \E r \in Request : request[r].at = "receiving" /\ request[r].on[2] = "grpc"
ShutdownEnds == ~<>[]OpenRpc => (stopping ~> ~Alive)
================================================================================
