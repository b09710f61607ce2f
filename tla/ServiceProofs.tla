----------------------------- MODULE ServiceProofs -----------------------------
(***************************************************************************)
(* Proofs about Service: whatever the configuration, the order in which    *)
(* the loops range over it, and the number of calls, what is built is what *)
(* was configured, and a call is only ever in pipelines that run.          *)
(***************************************************************************)
EXTENDS Service, SequenceTheorems, ProofBasics

--------------------------------------------------------------------------------
(* Lists.                                                                  *)

(* The elements of two lists, one after the other.                         *)
LEMMA ElementsOfBoth ==
  ASSUME NEW S, NEW s \in Seq(S), NEW t \in Seq(S)
  PROVE  ToSet(s \o t) = ToSet(s) \cup ToSet(t)
<1> DEFINE u == s \o t
<1>1. /\ Len(s) \in Nat /\ Len(t) \in Nat /\ Len(u) = Len(s) + Len(t)
      /\ \A i \in 1 .. Len(u) : u[i] = IF i <= Len(s) THEN s[i] ELSE t[i - Len(s)]
  BY ConcatProperties
<1>2. DOMAIN s = 1 .. Len(s) /\ DOMAIN t = 1 .. Len(t) /\ DOMAIN u = 1 .. Len(u)
  OBVIOUS
<1> HIDE DEF u
<1>3. \A i \in DOMAIN t : Len(s) + i \in DOMAIN u /\ u[Len(s) + i] = t[i]
  BY <1>1, <1>2
<1>4. \A i \in DOMAIN s : i \in DOMAIN u /\ u[i] = s[i]
  BY <1>1, <1>2
<1>5. \A i \in DOMAIN u : (i \in DOMAIN s /\ u[i] = s[i])
                          \/ (i - Len(s) \in DOMAIN t /\ u[i] = t[i - Len(s)])
  BY <1>1, <1>2
<1>6. ToSet(u) = ToSet(s) \cup ToSet(t)
  BY <1>3, <1>4, <1>5 DEF ToSet
<1>7. QED BY <1>6 DEF u

(* Two lists of components work when each of them does.                    *)
LEMMA BothWork ==
  ASSUME NEW S, NEW s \in Seq(S), NEW t \in Seq(S)
  PROVE  Works(s \o t) <=> Works(s) /\ Works(t)
<1>1. \A u : Works(u) <=> \A id \in ToSet(u) : id \notin config.broken
  BY DEF Works, ToSet
<1>2. QED BY <1>1, ElementsOfBoth

(* A list of some is a list of more.                                       *)
LEMMA ListOfMore ==
  ASSUME NEW S, NEW T, S \subseteq T, NEW s \in Seq(S)
  PROVE  s \in Seq(T)
  OBVIOUS

(* The elements of a list over S are in S, and it is a list over them.     *)
LEMMA ElementsOfAList ==
  ASSUME NEW S, NEW s \in Seq(S)
  PROVE  ToSet(s) \subseteq S /\ s \in Seq(ToSet(s))
<1>1. DOMAIN s = 1 .. Len(s) /\ Len(s) \in Nat /\ s = [i \in 1 .. Len(s) |-> s[i]]
  OBVIOUS
<1>2. \A i \in 1 .. Len(s) : s[i] \in ToSet(s) /\ s[i] \in S
  BY <1>1 DEF ToSet
<1>3. [i \in 1 .. Len(s) |-> s[i]] \in Seq(ToSet(s))
  BY <1>1, <1>2
<1>4. QED BY <1>1, <1>2, <1>3 DEF ToSet

--------------------------------------------------------------------------------
(* The acceptors of a pipeline that listen.                                *)

Heard(name) == {id \in ToSet(Pipe(name).acceptors) : ~IsConnectorID(id)}

(* What Listening keeps of a pipeline's acceptors is a list of those that  *)
(* listen.                                                                 *)
LEMMA ListeningIsAList ==
  ASSUME config \in Config, NEW name \in Names
  PROVE  Listening(name) \in Seq(Heard(name)) /\ ToSet(Listening(name)) \subseteq Heard(name)
<1> DEFINE ids == Pipe(name).acceptors
<1>1. IsList(ids)
  BY ConfigAssumption DEF Names, Pipe
<1>2. ids \in Seq(ToSet(ids))
  BY <1>1, ElementsOfAList DEF IsList
<1>3. Listening(name) \in Seq(ToSet(ids) \ config.connectors)
  BY <1>2, SkippingIsAList DEF Listening
<1>4. Heard(name) = ToSet(ids) \ config.connectors
  BY DEF Heard, IsConnectorID
<1>5. QED BY <1>3, <1>4, ElementsOfAList

--------------------------------------------------------------------------------
(* The invariant: what the loops have visited is wired as configured, what *)
(* is started runs, and a call under way is on a listener that serves it.  *)

Building == {"load", "leaves", "targets", "connectors", "wire"}
Up == {"start", "listen", "serving", "drain", "stop", "exited"}

(* The pipelines that a loop of Build has visited.                         *)
Visited(loop) ==
  IF phase = loop THEN Names \ todo
  ELSE IF \/ phase \in Up
          \/ loop = "leaves" /\ phase \in {"targets", "connectors", "wire"}
          \/ loop = "targets" /\ phase \in {"connectors", "wire"}
          \/ loop = "connectors" /\ phase = "wire"
       THEN Names ELSE {}

Components(name) == Pipe(name).processors \o Pipe(name).dispatchers

PipesOK ==
  /\ todo \subseteq Names
  /\ phase \notin {"load", "fatal"} => Names # {} /\ \A name \in Names : WellFormed(Pipe(name))
  /\ \A name \in wiring.leaves :
       name \in Names /\ ~IsConnectorID(Terminal(name)) /\ Works(Components(name))
  /\ \A name \in wiring.fronts :
       name \in Names /\ IsConnectorID(Terminal(name)) /\ Works(Components(name))
  /\ \A name \in Visited("leaves") : IsConnectorID(Terminal(name)) \/ name \in wiring.leaves
  /\ \A name \in Visited("connectors") : IsConnectorID(Terminal(name)) => name \in wiring.fronts

TargetsOK ==
  /\ DOMAIN wiring.targets = config.connectors
  /\ \A c \in config.connectors : \A s \in DOMAIN wiring.targets[c] :
       LET name == wiring.targets[c][s]
       IN  name \in wiring.leaves /\ c \in Sources(name) /\ Pipe(name).signal = s
  /\ \A name \in Visited("targets") : \A c \in Sources(name) :
       name \in wiring.leaves /\ Pipe(name).signal \in DOMAIN wiring.targets[c]

OwnersOK ==
  /\ wiring.acceptors \in Seq(DOMAIN wiring.owner)
  /\ DOMAIN wiring.owner = ToSet(wiring.acceptors)
  /\ \A a \in DOMAIN wiring.owner :
       wiring.owner[a] \in Names /\ a \in ToSet(Listening(wiring.owner[a]))
  /\ phase \in Building => \A a \in DOMAIN wiring.owner :
                             phase = "wire" /\ wiring.owner[a] \notin todo
  /\ \A name \in Visited("wire") :
       /\ Works(Listening(name)) /\ IsInjective(Listening(name))
       /\ \A a \in ToSet(Listening(name)) : a \in DOMAIN wiring.owner /\ wiring.owner[a] = name

WiringOK ==
  /\ config \in Config /\ phase \in Phase
  /\ DOMAIN wiring = {"leaves", "fronts", "targets", "owner", "acceptors"}
  /\ PipesOK /\ TargetsOK /\ OwnersOK
  /\ Valid => ~(phase = "fatal" /\ listener = <<>>)

RunningOK ==
  /\ running \subseteq Built
  /\ phase \in Building => running = {} /\ listener = <<>>
  /\ phase = "start" => running \cup todo = Built
  /\ phase \in {"listen", "serving", "drain"} => running = Built

ListenersOK ==
  /\ DOMAIN listener \in {{}, Listener}
  /\ phase \in Up => DOMAIN listener = Listener
  /\ \A l \in DOMAIN listener :
       /\ listener[l] \in {"down", "bound", "open", "closing", "closed"}
       /\ phase = "start" => listener[l] = "down"
       /\ phase \in {"stop", "exited"} => listener[l] \notin {"bound", "open", "closing"}

(* The pipeline that a call entered, and the one its connector called.     *)
Entered(stack) ==
  \/ stack = <<>>
  \/ \E name \in Built : stack = <<name>>
  \/ \E name \in Built, leaf \in wiring.leaves : stack = <<name, leaf>>

CallOK(r) ==
  /\ DOMAIN request[r] = {"at", "on", "stack", "asks"}
  /\ Entered(request[r].stack)
  /\ request[r].at # "handling" => request[r].stack = <<>>
  /\ InFlight(r) =>
       /\ request[r].on \in DOMAIN listener
       /\ \/ listener[request[r].on] \in {"open", "closing"}
          \/ listener[request[r].on] = "closed" /\ Outlives(r)

CallsOK == DOMAIN request = Request /\ \A r \in Request : CallOK(r)

Invariant == WiringOK /\ RunningOK /\ ListenersOK /\ CallsOK

(* The configuration never changes, nor does what is read from it.         *)
LEMMA SameConfig ==
  ASSUME UNCHANGED config
  PROVE  /\ Names' = Names
         /\ \A name : /\ Pipe(name)' = Pipe(name) /\ Sources(name)' = Sources(name)
                      /\ IsConnectorID(Terminal(name))' <=> IsConnectorID(Terminal(name))
                      /\ Listening(name)' = Listening(name)
                      /\ Works(Components(name))' <=> Works(Components(name))
                      /\ Works(Listening(name))' <=> Works(Listening(name))
         /\ Valid' <=> Valid
<1>1. Names' = Names /\ \A name : Pipe(name)' = Pipe(name) /\ Sources(name)' = Sources(name)
  BY DEF Names, Pipe, Sources
<1>2. \A name : /\ IsConnectorID(Terminal(name))' <=> IsConnectorID(Terminal(name))
                /\ Components(name)' = Components(name)
                /\ Listening(name)' = Listening(name)
  BY DEF Pipe, IsConnectorID, Terminal, Components, Listening
<1>3. \A ids : Works(ids)' <=> Works(ids)
  BY DEF Works
<1>4. \A name : /\ Works(Components(name))' <=> Works(Components(name))
                /\ Works(Listening(name))' <=> Works(Listening(name))
  BY <1>2, <1>3
<1>5. Valid' <=> Valid
  BY <1>1, <1>2, <1>3 DEF Valid, Components
<1>6. QED BY <1>1, <1>2, <1>4, <1>5

(* Nothing is wired, started or called to begin with.                      *)
LEMMA InvariantInit == Init => Invariant
<1> SUFFICES ASSUME Init PROVE Invariant
  OBVIOUS
<1>1. PipesOK /\ TargetsOK
  BY DEF Init, PipesOK, TargetsOK, Visited, Up
<1>2. OwnersOK
  BY DEF Init, OwnersOK, Visited, Up, ToSet
<1>3. RunningOK /\ ListenersOK
  BY DEF Init, RunningOK, ListenersOK, Up
<1>4. CallsOK
  BY DEF Init, CallsOK, CallOK, Entered, InFlight
<1>5. WiringOK
  BY <1>1, <1>2 DEF Init, WiringOK, Phase
<1>6. QED BY <1>3, <1>4, <1>5 DEF Invariant

(* As long as the service is being built, nothing runs and nobody calls.   *)
LEMMA BuildingKeeps ==
  ASSUME Invariant, phase \in Building, phase' \in Building \cup {"fatal"},
         UNCHANGED lifeVars
  PROVE  (RunningOK /\ ListenersOK /\ CallsOK)'
<1>1. running = {} /\ listener = <<>> /\ DOMAIN listener = {}
  BY DEF Invariant, RunningOK
<1>2. RunningOK' /\ ListenersOK'
  BY <1>1 DEF RunningOK, ListenersOK, Building, Up, lifeVars
<1>3. \A r \in Request : ~InFlight(r) /\ request[r].stack = <<>>
  BY <1>1 DEF Invariant, CallsOK, CallOK, InFlight
<1>4. CallsOK'
  BY <1>3 DEF Invariant, CallsOK, CallOK, InFlight, Entered, lifeVars
<1>5. QED BY <1>2, <1>4

(* The components of a pipeline are those of its two lists.                *)
LEMMA ListsOfAPipeline ==
  ASSUME config \in Config, NEW name \in Names
  PROVE  /\ Components(name) = Pipe(name).processors \o Pipe(name).dispatchers
         /\ Works(Components(name) \o Listening(name))
              <=> Works(Components(name)) /\ Works(Listening(name))
<1>1. IsList(Pipe(name).processors) /\ IsList(Pipe(name).dispatchers)
  BY ConfigAssumption DEF Names, Pipe
<1>2. PICK S, T : Pipe(name).processors \in Seq(S) /\ Pipe(name).dispatchers \in Seq(T)
  BY <1>1 DEF IsList
<1> DEFINE U == S \cup T \cup Heard(name)
<1>3. Pipe(name).processors \in Seq(U) /\ Pipe(name).dispatchers \in Seq(U)
  BY <1>2
<1>4. Listening(name) \in Seq(Heard(name))
  BY ListeningIsAList
<1>5. Listening(name) \in Seq(U)
  BY <1>4, ListOfMore
<1> HIDE DEF U
<1>6. Components(name) \in Seq(U)
  BY <1>3 DEF Components
<1>7. QED BY <1>5, <1>6, BothWork DEF Components

(* What Valid says of the configuration, said pipeline by pipeline: what   *)
(* the loops of Build check at each.                                       *)
LEMMA ValidMeans ==
  ASSUME config \in Config
  PROVE  Valid <=>
           /\ Names # {} /\ \A name \in Names : WellFormed(Pipe(name))
           /\ \A name \in Names :
                /\ Works(Components(name)) /\ Works(Listening(name))
                /\ IsConnectorID(Terminal(name)) => Sources(name) = {}
                /\ IsInjective(Listening(name))
                /\ \A other \in Names \ {name} :
                     ToSet(Listening(name)) \cap ToSet(Listening(other)) = {}
<1>1. \A name \in Names :
        Works(Pipe(name).processors \o Pipe(name).dispatchers \o Listening(name))
          <=> Works(Components(name)) /\ Works(Listening(name))
  BY ListsOfAPipeline
<1>2. QED BY <1>1 DEF Valid

(* A step that wires nothing keeps what is wired, if it does not claim to  *)
(* have visited more.                                                      *)
LEMMA WiringStays ==
  ASSUME WiringOK, UNCHANGED buildVars, todo' \subseteq Names, phase' \in Phase,
         phase' \notin {"load", "fatal"} =>
           Names # {} /\ \A name \in Names : WellFormed(Pipe(name)),
         Visited("leaves")' \subseteq Visited("leaves"),
         Visited("targets")' \subseteq Visited("targets"),
         Visited("connectors")' \subseteq Visited("connectors"),
         Visited("wire")' \subseteq Visited("wire"),
         phase' \in Building => \A a \in DOMAIN wiring.owner :
                                phase' = "wire" /\ wiring.owner[a] \notin todo',
         Valid => ~(phase' = "fatal" /\ listener' = <<>>)
  PROVE  WiringOK'
<1>1. UNCHANGED <<config, wiring>>
  BY DEF buildVars
<1>2. PipesOK'
  BY <1>1, SameConfig DEF WiringOK, PipesOK
<1>3. TargetsOK'
  BY <1>1, SameConfig DEF WiringOK, TargetsOK
<1>4. OwnersOK'
  BY <1>1, SameConfig DEF WiringOK, OwnersOK
<1>5. QED BY <1>1, <1>2, <1>3, <1>4, SameConfig DEF WiringOK

(* Build fails only on a configuration that is not valid.                  *)
LEMMA FatalKeeps ==
  ASSUME Invariant, Fatal, ~Valid
  PROVE  WiringOK'
<1>1. phase' = "fatal" /\ UNCHANGED <<todo, config, wiring>> /\ UNCHANGED buildVars
  BY DEF Fatal, buildVars
<1>2. todo' \subseteq Names
  BY <1>1 DEF Invariant, WiringOK, PipesOK
<1>3. \A loop \in {"leaves", "targets", "connectors", "wire"} : Visited(loop)' = {}
  BY <1>1 DEF Visited, Up
<1>4. QED BY <1>1, <1>2, <1>3, WiringStays DEF Invariant, Phase, Building

(* A configuration that Config.validate accepts is well formed.            *)
LEMMA ValidateKeeps ==
  ASSUME Invariant, Validate
  PROVE  WiringOK'
<1>1. phase = "load" /\ config \in Config
  BY DEF Validate, Invariant, WiringOK
<1>2. CASE Names # {} /\ \A name \in Names : WellFormed(Pipe(name))
  <2>1. phase' = "leaves" /\ todo' = Names /\ UNCHANGED buildVars /\ UNCHANGED config
    BY <1>2 DEF Validate, buildVars
  <2>2. \A loop \in {"leaves", "targets", "connectors", "wire"} : Visited(loop)' = {}
    BY <2>1, SameConfig DEF Visited, Up
  <2>3. DOMAIN wiring.owner = {}
    BY <1>1 DEF Invariant, WiringOK, OwnersOK, Building
  <2>4. QED BY <1>2, <2>1, <2>2, <2>3, WiringStays DEF Invariant, Phase
<1>3. CASE ~(Names # {} /\ \A name \in Names : WellFormed(Pipe(name)))
  BY <1>1, <1>3, FatalKeeps, ValidMeans DEF Validate
<1>4. QED BY <1>2, <1>3

(* Once a loop is through, it has visited every pipeline.                  *)
LEMMA NextLoopKeeps ==
  ASSUME Invariant, NextLoop
  PROVE  WiringOK'
<1>1. /\ \/ phase = "leaves" /\ phase' = "targets"
         \/ phase = "targets" /\ phase' = "connectors"
         \/ phase = "connectors" /\ phase' = "wire"
      /\ todo = {} /\ todo' = Names /\ UNCHANGED buildVars /\ UNCHANGED config
  BY DEF NextLoop, Following, buildVars
<1>2. \A loop \in {"leaves", "targets", "connectors", "wire"} : Visited(loop)' \subseteq Visited(loop)
  BY <1>1, SameConfig DEF Visited, Up
<1>3. DOMAIN wiring.owner = {}
  BY <1>1 DEF Invariant, WiringOK, OwnersOK, Building
<1>4. Names # {} /\ \A name \in Names : WellFormed(Pipe(name))
  BY <1>1 DEF Invariant, WiringOK, PipesOK
<1>5. QED BY <1>1, <1>2, <1>3, <1>4, WiringStays DEF Invariant, Phase

(* Start finds every pipeline built and wired.                             *)
LEMMA BeginStartKeeps ==
  ASSUME Invariant, BeginStart
  PROVE  WiringOK'
<1>1. /\ phase = "wire" /\ phase' = "start" /\ todo = {} /\ todo' = Built
      /\ UNCHANGED buildVars /\ UNCHANGED config
  BY DEF BeginStart, buildVars
<1>2. todo' \subseteq Names
  BY <1>1 DEF Invariant, WiringOK, PipesOK, Built
<1>3. \A loop \in {"leaves", "targets", "connectors", "wire"} : Visited(loop)' \subseteq Visited(loop)
  BY <1>1, SameConfig DEF Visited, Up
<1>4. Names # {} /\ \A name \in Names : WellFormed(Pipe(name))
  BY <1>1 DEF Invariant, WiringOK, PipesOK
<1>5. QED BY <1>1, <1>2, <1>3, <1>4, WiringStays DEF Invariant, Phase, Building

(* The first pass builds the pipelines that end in a storage.              *)
LEMMA LeafKeeps ==
  ASSUME Invariant, NEW name, BuildLeafPipeline(name)
  PROVE  WiringOK'
<1>1. /\ phase = "leaves" /\ name \in todo /\ name \in Names
      /\ DOMAIN wiring = {"leaves", "fronts", "targets", "owner", "acceptors"}
      /\ WiringOK /\ PipesOK /\ TargetsOK /\ OwnersOK /\ config \in Config
  BY DEF BuildLeafPipeline, Visit, Invariant, WiringOK, PipesOK
<1>2. CASE NextTurn(name) /\ UNCHANGED wiring /\ IsConnectorID(Terminal(name))
  <2>1. /\ todo' = todo \ {name} /\ phase' = phase /\ UNCHANGED <<config, wiring>>
        /\ listener' = listener
    BY <1>2 DEF NextTurn, lifeVars
  <2>2. PipesOK'
    BY <1>1, <1>2, <2>1, SameConfig DEF PipesOK, Visited, Up
  <2>3. TargetsOK' /\ OwnersOK'
    BY <1>1, <2>1, SameConfig DEF TargetsOK, OwnersOK, Visited, Up
  <2>4. QED BY <1>1, <2>1, <2>2, <2>3, SameConfig DEF WiringOK
<1>3. CASE /\ NextTurn(name) /\ wiring' = [wiring EXCEPT !.leaves = wiring.leaves \cup {name}]
           /\ ~IsConnectorID(Terminal(name)) /\ Works(Components(name))
  <2>1. /\ todo' = todo \ {name} /\ phase' = phase /\ UNCHANGED config
        /\ listener' = listener
    BY <1>3 DEF NextTurn, lifeVars
  <2>2. /\ DOMAIN wiring' = {"leaves", "fronts", "targets", "owner", "acceptors"}
        /\ wiring'.leaves = wiring.leaves \cup {name} /\ wiring'.fronts = wiring.fronts
        /\ wiring'.targets = wiring.targets /\ wiring'.owner = wiring.owner
        /\ wiring'.acceptors = wiring.acceptors
    BY <1>1, <1>3
  <2>3. PipesOK'
    BY <1>1, <1>3, <2>1, <2>2, SameConfig DEF PipesOK, Visited, Up
  <2>4. TargetsOK' /\ OwnersOK'
    BY <1>1, <2>1, <2>2, SameConfig DEF TargetsOK, OwnersOK, Visited, Up
  <2>5. QED BY <1>1, <2>1, <2>2, <2>3, <2>4, SameConfig DEF WiringOK
<1>4. CASE Fatal /\ ~Works(Components(name))
  BY <1>1, <1>4, FatalKeeps, ValidMeans
<1>5. QED BY <1>2, <1>3, <1>4 DEF BuildLeafPipeline, Components

(* The second pass resolves the targets of the connectors, which the first *)
(* has built.                                                              *)
LEMMA TargetsKeep ==
  ASSUME Invariant, NEW name, ConnectorTargets(name)
  PROVE  WiringOK'
<1>1. /\ phase = "targets" /\ name \in todo /\ name \in Names
      /\ DOMAIN wiring = {"leaves", "fronts", "targets", "owner", "acceptors"}
      /\ WiringOK /\ PipesOK /\ TargetsOK /\ OwnersOK /\ config \in Config
  BY DEF ConnectorTargets, Visit, Invariant, WiringOK, PipesOK
<1>2. CASE Sources(name) # {} /\ ~IsLeaf(name)
  <2>1. IsConnectorID(Terminal(name))
    BY <1>1, <1>2 DEF PipesOK, Visited, IsLeaf
  <2>2. ~Valid /\ Fatal
    BY <1>1, <1>2, <2>1, ValidMeans DEF ConnectorTargets
  <2>3. QED BY <2>2, FatalKeeps
<1>3. CASE Sources(name) = {} \/ IsLeaf(name)
  <2>1. /\ todo' = todo \ {name} /\ phase' = phase /\ UNCHANGED config
        /\ listener' = listener /\ wiring' = [wiring EXCEPT !.targets = TargetsWith(name)]
    BY <1>3 DEF ConnectorTargets, NextTurn, lifeVars
  <2>2. /\ DOMAIN wiring' = {"leaves", "fronts", "targets", "owner", "acceptors"}
        /\ wiring'.leaves = wiring.leaves /\ wiring'.fronts = wiring.fronts
        /\ wiring'.targets = TargetsWith(name) /\ wiring'.owner = wiring.owner
        /\ wiring'.acceptors = wiring.acceptors
    BY <1>1, <2>1
  <2>3. PipesOK' /\ OwnersOK'
    BY <1>1, <2>1, <2>2, SameConfig DEF PipesOK, OwnersOK, Visited, Up
  <2> DEFINE signal == Pipe(name).signal
             before == wiring.targets
             after == TargetsWith(name)
  <2>4. /\ DOMAIN after = config.connectors
        /\ \A c \in config.connectors \ Sources(name) : after[c] = before[c]
        /\ \A c \in Sources(name) :
             /\ DOMAIN after[c] = DOMAIN before[c] \cup {signal}
             /\ \A s \in DOMAIN after[c] :
                  after[c][s] = IF s = signal THEN name ELSE before[c][s]
    BY DEF TargetsWith, With, Sources
  <2> HIDE DEF after
  <2>5. \A c \in config.connectors : \A s \in DOMAIN after[c] :
          /\ after[c][s] \in wiring.leaves /\ c \in Sources(after[c][s])
          /\ Pipe(after[c][s]).signal = s
    BY <1>1, <1>3, <2>4 DEF TargetsOK, IsLeaf
  <2>6. \A other \in Names \ todo' : \A c \in Sources(other) :
          other \in wiring.leaves /\ Pipe(other).signal \in DOMAIN after[c]
    <3>1. \A c : c \in Sources(name) => c \in config.connectors
      BY DEF Sources
    <3>2. ASSUME NEW other \in Names \ todo', NEW c \in Sources(other)
          PROVE  other \in wiring.leaves /\ Pipe(other).signal \in DOMAIN after[c]
      <4>1. CASE other = name
        BY <1>3, <2>4, <3>2, <4>1 DEF IsLeaf
      <4>2. CASE other # name
        <5>1. other \in wiring.leaves /\ Pipe(other).signal \in DOMAIN before[c]
          BY <1>1, <2>1, <3>2, <4>2 DEF TargetsOK, Visited
        <5>2. c \in config.connectors
          BY <3>2 DEF Sources
        <5>3. QED BY <2>4, <5>1, <5>2
      <4>3. QED BY <4>1, <4>2
    <3>3. QED BY <3>2
  <2>7. TargetsOK'
    BY <1>1, <2>1, <2>2, <2>4, <2>5, <2>6, SameConfig DEF TargetsOK, Visited, after
  <2>8. QED BY <1>1, <2>1, <2>2, <2>3, <2>7, SameConfig DEF WiringOK
<1>4. QED BY <1>2, <1>3

(* The third pass builds those that end in a connector.                    *)
LEMMA FrontKeeps ==
  ASSUME Invariant, NEW name, BuildConnectorPipeline(name)
  PROVE  WiringOK'
<1>1. /\ phase = "connectors" /\ name \in todo /\ name \in Names
      /\ DOMAIN wiring = {"leaves", "fronts", "targets", "owner", "acceptors"}
      /\ WiringOK /\ PipesOK /\ TargetsOK /\ OwnersOK /\ config \in Config
  BY DEF BuildConnectorPipeline, Visit, Invariant, WiringOK, PipesOK
<1>2. CASE NextTurn(name) /\ UNCHANGED wiring /\ ~IsConnectorID(Terminal(name))
  <2>1. /\ todo' = todo \ {name} /\ phase' = phase /\ UNCHANGED <<config, wiring>>
        /\ listener' = listener
    BY <1>2 DEF NextTurn, lifeVars
  <2>2. PipesOK'
    BY <1>1, <1>2, <2>1, SameConfig DEF PipesOK, Visited, Up
  <2>3. TargetsOK' /\ OwnersOK'
    BY <1>1, <2>1, SameConfig DEF TargetsOK, OwnersOK, Visited, Up
  <2>4. QED BY <1>1, <2>1, <2>2, <2>3, SameConfig DEF WiringOK
<1>3. CASE /\ NextTurn(name) /\ wiring' = [wiring EXCEPT !.fronts = wiring.fronts \cup {name}]
           /\ IsConnectorID(Terminal(name)) /\ Works(Components(name))
  <2>1. /\ todo' = todo \ {name} /\ phase' = phase /\ UNCHANGED config
        /\ listener' = listener
    BY <1>3 DEF NextTurn, lifeVars
  <2>2. /\ DOMAIN wiring' = {"leaves", "fronts", "targets", "owner", "acceptors"}
        /\ wiring'.fronts = wiring.fronts \cup {name} /\ wiring'.leaves = wiring.leaves
        /\ wiring'.targets = wiring.targets /\ wiring'.owner = wiring.owner
        /\ wiring'.acceptors = wiring.acceptors
    BY <1>1, <1>3
  <2>3. PipesOK'
    BY <1>1, <1>3, <2>1, <2>2, SameConfig DEF PipesOK, Visited, Up
  <2>4. TargetsOK' /\ OwnersOK'
    BY <1>1, <2>1, <2>2, SameConfig DEF TargetsOK, OwnersOK, Visited, Up
  <2>5. QED BY <1>1, <2>1, <2>2, <2>3, <2>4, SameConfig DEF WiringOK
<1>4. CASE Fatal /\ ~Works(Components(name))
  BY <1>1, <1>4, FatalKeeps, ValidMeans
<1>5. QED BY <1>2, <1>3, <1>4 DEF BuildConnectorPipeline, Components

(* What the pipeline of a turn lists is wired to it, and was not before.   *)
LEMMA WireKeeps ==
  ASSUME Invariant, NEW name, WireAcceptors(name)
  PROVE  WiringOK'
<1> DEFINE new == ToSet(Listening(name))
<1>1. /\ phase = "wire" /\ name \in todo /\ name \in Names
      /\ DOMAIN wiring = {"leaves", "fronts", "targets", "owner", "acceptors"}
      /\ WiringOK /\ PipesOK /\ TargetsOK /\ OwnersOK /\ config \in Config
  BY DEF WireAcceptors, Visit, Invariant, WiringOK, PipesOK
<1>2. Listening(name) \in Seq(Heard(name)) /\ Listening(name) \in Seq(new)
  BY <1>1, ListeningIsAList, ElementsOfAList
<1>3. CASE Reused(name) \/ ~Works(Listening(name))
  <2>1. ASSUME NEW a \in new, a \in DOMAIN wiring.owner PROVE ~Valid
    <3>1. /\ wiring.owner[a] \in Names /\ wiring.owner[a] # name
          /\ a \in ToSet(Listening(wiring.owner[a]))
      BY <1>1, <2>1 DEF OwnersOK, Building
    <3>2. QED BY <1>1, <2>1, <3>1, ValidMeans
  <2>2. ~Valid
    BY <1>1, <1>3, <2>1, ValidMeans DEF Reused
  <2>3. QED BY <1>3, <2>2, FatalKeeps DEF WireAcceptors
<1>4. CASE ~Reused(name) /\ Works(Listening(name))
  <2> DEFINE owner == [a \in DOMAIN wiring.owner \cup new |-> IF a \in new THEN name ELSE wiring.owner[a]]
  <2>1. /\ todo' = todo \ {name} /\ phase' = phase /\ UNCHANGED config
        /\ listener' = listener
        /\ wiring' = [wiring EXCEPT !.owner = owner, !.acceptors = wiring.acceptors \o Listening(name)]
    BY <1>4 DEF WireAcceptors, NextTurn, lifeVars
  <2>2. /\ DOMAIN wiring' = {"leaves", "fronts", "targets", "owner", "acceptors"}
        /\ wiring'.leaves = wiring.leaves /\ wiring'.fronts = wiring.fronts
        /\ wiring'.targets = wiring.targets /\ wiring'.owner = owner
        /\ wiring'.acceptors = wiring.acceptors \o Listening(name)
    BY <1>1, <2>1
  <2>3. PipesOK' /\ TargetsOK'
    BY <1>1, <2>1, <2>2, SameConfig DEF PipesOK, TargetsOK, Visited, Up
  <2>4. /\ DOMAIN owner = DOMAIN wiring.owner \cup new
        /\ \A a \in new : owner[a] = name
        /\ \A a \in DOMAIN wiring.owner : a \notin new /\ owner[a] = wiring.owner[a]
    BY <1>4 DEF Reused
  <2> HIDE DEF owner
  <2>5. wiring'.acceptors \in Seq(DOMAIN owner) /\ DOMAIN owner = ToSet(wiring'.acceptors)
    <3>1. wiring.acceptors \in Seq(DOMAIN owner) /\ Listening(name) \in Seq(DOMAIN owner)
      <4>1. wiring.acceptors \in Seq(DOMAIN wiring.owner)
        BY <1>1 DEF OwnersOK
      <4>2. QED BY <1>2, <2>4, <4>1, ListOfMore
    <3>2. ToSet(wiring'.acceptors) = ToSet(wiring.acceptors) \cup new
      BY <2>2, <3>1, ElementsOfBoth
    <3>3. QED BY <1>1, <2>2, <2>4, <3>1, <3>2 DEF OwnersOK
  <2>6. \A a \in DOMAIN owner :
          owner[a] \in Names /\ a \in ToSet(Listening(owner[a])) /\ owner[a] \notin todo'
    BY <1>1, <2>1, <2>4 DEF OwnersOK, Building
  <2>7. \A other \in Names \ todo' :
          /\ Works(Listening(other)) /\ IsInjective(Listening(other))
          /\ \A a \in ToSet(Listening(other)) : a \in DOMAIN owner /\ owner[a] = other
    BY <1>1, <1>4, <2>1, <2>4 DEF OwnersOK, Visited, Reused
  <2>8. OwnersOK'
    BY <1>1, <2>1, <2>2, <2>5, <2>6, <2>7, SameConfig DEF OwnersOK, Visited, Up
  <2>9. QED BY <1>1, <2>1, <2>2, <2>3, <2>8, SameConfig DEF WiringOK
<1>5. QED BY <1>3, <1>4

--------------------------------------------------------------------------------
(* Starting, serving and shutting down.                                    *)

(* From the start on, what is wired stays.                                 *)
LEMMA LifeKeepsWiring ==
  ASSUME Invariant, UNCHANGED buildVars, todo' \subseteq Names, phase \in Up,
         phase' \in Up \/ (phase' = "fatal" /\ listener' # <<>>)
  PROVE  WiringOK'
<1>1. UNCHANGED config
  BY DEF buildVars
<1>2. \A loop \in {"leaves", "targets", "connectors", "wire"} : Visited(loop)' \subseteq Visited(loop)
  BY <1>1, SameConfig DEF Visited, Up
<1>3. Names # {} /\ \A name \in Names : WellFormed(Pipe(name))
  BY DEF Invariant, WiringOK, PipesOK, Up
<1>4. phase' \in Phase /\ phase' \notin Building /\ phase' # "load"
  BY DEF Phase, Building, Up
<1>5. Valid => ~(phase' = "fatal" /\ listener' = <<>>)
  BY DEF Up
<1>6. QED BY <1>1, <1>2, <1>3, <1>4, <1>5, WiringStays DEF Invariant

(* With it, what is derived of it.                                         *)
LEMMA SameWiring ==
  ASSUME UNCHANGED buildVars
  PROVE  Built' = Built /\ Listener' = Listener /\ UNCHANGED <<config, wiring>>
  BY DEF buildVars, Built, Listener

(* From the start on, every pipeline is built.                             *)
LEMMA AllBuilt ==
  ASSUME WiringOK, phase \in Up
  PROVE  Built = Names
  BY DEF WiringOK, PipesOK, Visited, Built, Up, Building

(* A step that leaves the listeners and the calls alone, whatever it does  *)
(* to the clock, keeps what is known of the calls.                         *)
LEMMA CallsStay ==
  ASSUME Invariant, UNCHANGED buildVars, UNCHANGED <<listener, request>>,
         expired' = expired \/ expired'
  PROVE  CallsOK'
<1>1. \A r \in Request : Outlives(r) => Outlives(r)'
  BY DEF Outlives
<1>2. \A r \in Request : Entered(request[r].stack)' <=> Entered(request[r].stack)
  BY SameWiring DEF Entered
<1>3. ASSUME NEW r \in Request PROVE CallOK(r)'
  BY <1>1, <1>2 DEF Invariant, CallsOK, CallOK, InFlight
<1>4. QED BY <1>3 DEF Invariant, CallsOK

(* Main's steps between the loops, and what the process's surroundings do. *)
LEMMA LifeStays ==
  ASSUME Invariant, phase \in Up, UNCHANGED buildVars, UNCHANGED <<listener, request>>,
         expired' = expired \/ expired',
         \/ /\ UNCHANGED <<phase, todo, running>>
         \/ StartAcceptors \/ Started \/ BeginShutdown \/ BeginStop \/ MainReturns
  PROVE  Invariant'
<1>1. UNCHANGED config /\ UNCHANGED wiring /\ Built' = Built /\ Listener' = Listener
  BY SameWiring
<1>2. UNCHANGED running
  BY DEF StartAcceptors, Started, BeginShutdown, BeginStop, MainReturns, lifeVars
<1>3. \/ phase' = phase /\ todo' = todo
      \/ phase = "start" /\ todo = {} /\ phase' = "listen" /\ todo' = todo
      \/ phase = "listen" /\ phase' = "serving" /\ todo' = todo
      \/ phase = "serving" /\ phase' = "drain" /\ todo' = todo
      \/ /\ phase = "drain" /\ phase' = "stop" /\ todo' = running
         /\ In({"bound", "open", "closing"}) = {}
      \/ phase = "stop" /\ phase' = "exited" /\ todo' = todo
  BY DEF StartAcceptors, Started, BeginShutdown, BeginStop, MainReturns, AcceptorsAreDown
<1>4. phase' \in Up /\ todo' \subseteq Names
  BY <1>3 DEF Up, Invariant, WiringOK, PipesOK, RunningOK, Built
<1>5. WiringOK'
  BY <1>4, LifeKeepsWiring
<1>6. RunningOK'
  BY <1>1, <1>2, <1>3 DEF Invariant, RunningOK, Building, Up
<1>7. ListenersOK'
  BY <1>1, <1>3, <1>4 DEF Invariant, ListenersOK, In
<1>8. CallsOK'
  BY CallsStay
<1>9. QED BY <1>5, <1>6, <1>7, <1>8 DEF Invariant

(* When the pipelines are to start, no listener is bound.                  *)
LEMMA BeginStartKeepsLife ==
  ASSUME Invariant, BeginStart
  PROVE  (RunningOK /\ ListenersOK /\ CallsOK)'
<1>1. /\ phase = "wire" /\ phase' = "start" /\ todo' = Built /\ UNCHANGED buildVars
      /\ listener' = [l \in Listener |-> "down"] /\ UNCHANGED <<running, request, expired>>
  BY DEF BeginStart
<1>2. Built' = Built /\ Listener' = Listener
  BY <1>1, SameWiring
<1>3. running = {} /\ listener = <<>> /\ DOMAIN listener = {}
  BY <1>1 DEF Invariant, RunningOK, Building
<1>4. RunningOK' /\ ListenersOK'
  BY <1>1, <1>2, <1>3 DEF RunningOK, ListenersOK, Building, Up
<1>5. \A r \in Request : ~InFlight(r) /\ request[r].stack = <<>>
  BY <1>3 DEF Invariant, CallsOK, CallOK, InFlight
<1>6. CallsOK'
  BY <1>1, <1>5 DEF Invariant, CallsOK, CallOK, InFlight, Entered
<1>7. QED BY <1>4, <1>6

(* A pipeline that starts is one that was built.                           *)
LEMMA StartKeeps ==
  ASSUME Invariant, NEW name, StartPipeline(name)
  PROVE  Invariant'
<1>1. /\ phase = "start" /\ phase' = phase /\ name \in todo /\ todo' = todo \ {name}
      /\ running' = running \cup {name} /\ UNCHANGED buildVars
      /\ UNCHANGED <<listener, stopping, expired, request>>
  BY DEF StartPipeline, Visit
<1>2. Built' = Built /\ Listener' = Listener
  BY <1>1, SameWiring
<1>3. WiringOK'
  BY <1>1, LifeKeepsWiring DEF Up, Invariant, WiringOK, PipesOK
<1>4. RunningOK'
  BY <1>1, <1>2 DEF Invariant, RunningOK, Building
<1>5. ListenersOK'
  BY <1>1, <1>2 DEF Invariant, ListenersOK
<1>6. CallsOK'
  BY <1>1, CallsStay
<1>7. QED BY <1>3, <1>4, <1>5, <1>6 DEF Invariant

(* One that is shut down runs no more.                                     *)
LEMMA StopKeeps ==
  ASSUME Invariant, NEW name, ShutdownPipeline(name)
  PROVE  Invariant'
<1>1. /\ phase = "stop" /\ phase' = phase /\ name \in todo /\ todo' = todo \ {name}
      /\ running' = running \ {name} /\ UNCHANGED buildVars
      /\ UNCHANGED <<listener, stopping, expired, request>>
  BY DEF ShutdownPipeline, Visit
<1>2. Built' = Built /\ Listener' = Listener
  BY <1>1, SameWiring
<1>3. WiringOK'
  BY <1>1, LifeKeepsWiring DEF Up, Invariant, WiringOK, PipesOK
<1>4. RunningOK'
  BY <1>1, <1>2 DEF Invariant, RunningOK, Building
<1>5. ListenersOK'
  BY <1>1, <1>2 DEF Invariant, ListenersOK
<1>6. CallsOK'
  BY <1>1, CallsStay
<1>7. QED BY <1>3, <1>4, <1>5, <1>6 DEF Invariant

(* A listener moves on, and to "closed" only when its calls are drained.   *)
LEMMA ListenerMoves ==
  ASSUME Invariant, phase \in {"listen", "serving", "drain"}, NEW l \in DOMAIN listener, NEW next,
         listener' = [listener EXCEPT ![l] = next],
         UNCHANGED <<phase, todo, buildVars, running, stopping, expired, request>>,
         \/ next = "bound" /\ listener[l] = "down"
         \/ next = "open" /\ listener[l] = "bound"
         \/ next = "closing" /\ listener[l] \in {"bound", "open"}
         \/ next = "closed" /\ listener[l] = "closing" /\ Drained(l)
  PROVE  Invariant'
<1>1. /\ UNCHANGED buildVars /\ UNCHANGED <<phase, todo, running, expired, request>>
      /\ Built' = Built /\ Listener' = Listener
  BY SameWiring
<1>2. DOMAIN listener' = DOMAIN listener /\ listener'[l] = next
      /\ \A m \in DOMAIN listener : m # l => listener'[m] = listener[m]
  OBVIOUS
<1>3. WiringOK'
  BY <1>1, LifeKeepsWiring DEF Up, Invariant, WiringOK, PipesOK
<1>4. RunningOK' /\ ListenersOK'
  BY <1>1, <1>2 DEF Invariant, RunningOK, ListenersOK, Building, Up
<1>5. ASSUME NEW r \in Request PROVE CallOK(r)'
  <2>1. CallOK(r)
    BY DEF Invariant, CallsOK
  <2>2. Entered(request[r].stack)' <=> Entered(request[r].stack)
    BY SameWiring DEF Entered
  <2>3. InFlight(r)' <=> InFlight(r)
    BY <1>1 DEF InFlight
  <2>4. Outlives(r)' <=> Outlives(r)
    BY <1>1 DEF Outlives
  <2>5. CASE InFlight(r) /\ request[r].on = l
    <3>1. listener[l] \in {"open", "closing"} \/ (listener[l] = "closed" /\ Outlives(r))
      BY <2>1, <2>5 DEF CallOK
    <3>2. Drained(l) => Outlives(r)
      BY <2>5 DEF Drained, Calls, Outlives
    <3>3. QED BY <1>1, <1>2, <2>1, <2>2, <2>3, <2>4, <2>5, <3>1, <3>2 DEF CallOK
  <2>6. CASE ~(InFlight(r) /\ request[r].on = l)
    BY <1>1, <1>2, <2>1, <2>2, <2>3, <2>4, <2>6 DEF CallOK
  <2>7. QED BY <2>5, <2>6
<1>6. QED BY <1>1, <1>3, <1>4, <1>5 DEF Invariant, CallsOK

(* The listeners that are in a state are among those there are.            *)
LEMMA InDomain ==
  ASSUME Invariant, phase \in Up, NEW states
  PROVE  \A l \in In(states) : l \in DOMAIN listener /\ listener[l] \in states
  BY DEF Invariant, ListenersOK, In

(* An acceptor that binds, or cannot.                                      *)
LEMMA ListenKeeps ==
  ASSUME Invariant, Listen
  PROVE  Invariant'
<1>1. phase = "listen" /\ phase \in Up
  BY DEF Listen, Up
<1>2. PICK l \in In({"down"}) :
        \/ Fatal
        \/ /\ listener' = [listener EXCEPT ![l] = "bound"]
           /\ UNCHANGED <<phase, todo, buildVars, running, stopping, expired, request>>
  BY DEF Listen
<1>3. l \in DOMAIN listener /\ listener[l] = "down"
  BY <1>1, InDomain
<1>4. CASE Fatal
  <2>1. /\ phase' = "fatal" /\ UNCHANGED buildVars
        /\ UNCHANGED <<todo, running, listener, stopping, expired, request>>
    BY <1>4 DEF Fatal, lifeVars
  <2>2. Built' = Built /\ Listener' = Listener
    BY <2>1, SameWiring
  <2>3. listener' # <<>>
    BY <1>3, <2>1
  <2>4. WiringOK'
    BY <1>1, <2>1, <2>3, LifeKeepsWiring DEF Invariant, WiringOK, PipesOK
  <2>5. RunningOK' /\ ListenersOK'
    BY <2>1, <2>2 DEF Invariant, RunningOK, ListenersOK, Building, Up
  <2>6. CallsOK'
    BY <2>1, CallsStay
  <2>7. QED BY <2>4, <2>5, <2>6 DEF Invariant
<1>5. CASE ~Fatal
  BY <1>1, <1>2, <1>3, <1>5, ListenerMoves
<1>6. QED BY <1>4, <1>5

(* A bound listener that begins to serve.                                  *)
LEMMA ServeKeeps ==
  ASSUME Invariant, NEW l \in DOMAIN listener, Alive, Serve(l)
  PROVE  Invariant'
<1>1. /\ listener[l] = "bound" /\ listener' = [listener EXCEPT ![l] = "open"]
      /\ UNCHANGED <<phase, todo, buildVars, running, stopping, expired, request>>
  BY DEF Serve
<1>2. phase \in {"listen", "serving", "drain"}
  BY <1>1 DEF Invariant, WiringOK, RunningOK, ListenersOK, Phase, Building, Alive
<1>3. QED BY <1>1, <1>2, ListenerMoves

(* Shutdown closes a listener.                                             *)
LEMMA CloseKeeps ==
  ASSUME Invariant, CloseListener
  PROVE  Invariant'
<1>1. phase = "drain" /\ phase \in Up
  BY DEF CloseListener, Up
<1>2. PICK l \in In({"bound", "open"}) : listener' = [listener EXCEPT ![l] = "closing"]
  BY DEF CloseListener
<1>3. l \in DOMAIN listener /\ listener[l] \in {"bound", "open"}
  BY <1>1, InDomain
<1>4. UNCHANGED <<phase, todo, buildVars, running, stopping, expired, request>>
  BY DEF CloseListener
<1>5. QED BY <1>1, <1>2, <1>3, <1>4, ListenerMoves

(* The Shutdown of a drained acceptor returns.                             *)
LEMMA ShutdownKeeps ==
  ASSUME Invariant, ShutdownReturns
  PROVE  Invariant'
<1>1. phase = "drain" /\ phase \in Up
  BY DEF ShutdownReturns, Up
<1>2. PICK l \in In({"closing"}) : Drained(l) /\ listener' = [listener EXCEPT ![l] = "closed"]
  BY DEF ShutdownReturns
<1>3. l \in DOMAIN listener /\ listener[l] = "closing"
  BY <1>1, InDomain
<1>4. UNCHANGED <<phase, todo, buildVars, running, stopping, expired, request>>
  BY DEF ShutdownReturns
<1>5. QED BY <1>1, <1>2, <1>3, <1>4, ListenerMoves

--------------------------------------------------------------------------------
(* The calls.                                                              *)

(* The stack of a call as it grows and shrinks.                            *)
LEMMA StackMoves ==
  /\ \A stack : Entered(stack) /\ stack # <<>> => Entered(Front(stack))
  /\ \A stack : Entered(stack) => stack \in Seq(Built)
  /\ \A stack, leaf : /\ Entered(stack) /\ stack # <<>>
                      /\ leaf \in wiring.leaves /\ Last(stack) \notin wiring.leaves
                      => Entered(Append(stack, leaf))
<1>1. ASSUME NEW stack, Entered(stack), stack # <<>>
      PROVE  Entered(Front(stack))
  <2>1. CASE \E name \in Built : stack = <<name>>
    BY <2>1, PoppedOff DEF Front, Entered
  <2>2. CASE \E name \in Built, leaf \in wiring.leaves : stack = <<name, leaf>>
    BY <2>2, PoppedOff DEF Front, Entered
  <2>3. QED BY <1>1, <2>1, <2>2 DEF Entered
<1>2. ASSUME NEW stack, Entered(stack)
      PROVE  stack \in Seq(Built)
  <2>1. CASE stack = <<>>
    BY <2>1
  <2>2. CASE \E name \in Built : stack = <<name>>
    BY <2>2
  <2>3. CASE \E name \in Built, leaf \in wiring.leaves : stack = <<name, leaf>>
    <3>1. PICK name \in Built, leaf \in wiring.leaves : stack = <<name, leaf>>
      BY <2>3
    <3>2. leaf \in Built
      BY DEF Built
    <3>3. QED BY <3>1, <3>2
  <2>4. QED BY <1>2, <2>1, <2>2, <2>3 DEF Entered
<1>3. ASSUME NEW stack, NEW leaf \in wiring.leaves, Entered(stack), stack # <<>>,
             Last(stack) \notin wiring.leaves
      PROVE  Entered(Append(stack, leaf))
  <2>1. PICK name \in Built : stack = <<name>>
    BY <1>3 DEF Entered, Last
  <2>2. QED BY <1>3, <2>1, PushedOn DEF Entered
<1>4. QED BY <1>1, <1>2, <1>3

(* A step of one call leaves the others as they are.                       *)
LEMMA CallMoves ==
  ASSUME Invariant, phase \in Up, NEW r \in Request, NEW new, Set(r, new),
         DOMAIN new = {"at", "on", "stack", "asks"}, Entered(new.stack),
         new.at # "handling" => new.stack = <<>>,
         new.at \in {"receiving", "handling"} =>
           /\ new.on \in DOMAIN listener
           /\ \/ listener[new.on] \in {"open", "closing"}
              \/ listener[new.on] = "closed" /\ expired /\ new.on[2] = "http"
  PROVE  Invariant'
<1>1. /\ request' = [request EXCEPT ![r] = new] /\ UNCHANGED buildVars
      /\ UNCHANGED <<phase, todo, running, listener, expired>>
      /\ Built' = Built /\ Listener' = Listener /\ UNCHANGED <<config, wiring>>
  BY SameWiring DEF Set
<1>2. WiringOK'
  BY <1>1, LifeKeepsWiring DEF Invariant, WiringOK, PipesOK
<1>3. RunningOK' /\ ListenersOK'
  BY <1>1 DEF Invariant, RunningOK, ListenersOK
<1>4. DOMAIN request = Request /\ DOMAIN request' = Request /\ request'[r] = new
      /\ \A other \in Request : other # r => request'[other] = request[other]
  BY <1>1 DEF Invariant, CallsOK
<1>5. \A stack : Entered(stack)' <=> Entered(stack)
  BY <1>1 DEF Entered
<1>6. ASSUME NEW other \in Request PROVE CallOK(other)'
  <2>1. CASE other = r
    BY <1>1, <1>4, <1>5, <2>1 DEF CallOK, InFlight, Outlives
  <2>2. CASE other # r
    BY <1>1, <1>4, <1>5, <2>2 DEF Invariant, CallsOK, CallOK, InFlight, Outlives
  <2>3. QED BY <2>1, <2>2
<1>7. QED BY <1>2, <1>3, <1>4, <1>6 DEF Invariant, CallsOK

(* While a listener is there to be called, the service is up.              *)
LEMMA AliveIsUp ==
  ASSUME Invariant, Alive, DOMAIN listener # {}
  PROVE  phase \in Up
<1>1. listener # <<>>
  OBVIOUS
<1>2. QED BY <1>1 DEF Invariant, WiringOK, RunningOK, Alive, Phase, Building, Up

(* A client's call reaches an open listener.                               *)
LEMMA CallKeeps ==
  ASSUME Invariant, NEW r \in Request, NEW l \in DOMAIN listener, Call(r, l)
  PROVE  Invariant'
<1> DEFINE new == [request[r] EXCEPT !.at = "receiving", !.on = l]
<1>1. Alive /\ request[r].at = "client" /\ listener[l] = "open" /\ Set(r, new)
  BY DEF Call
<1>2. phase \in Up
  BY <1>1, AliveIsUp
<1>3. CallOK(r)
  BY DEF Invariant, CallsOK
<1>4. DOMAIN new = {"at", "on", "stack", "asks"} /\ new.at = "receiving" /\ new.on = l
      /\ new.stack = <<>>
  BY <1>1, <1>3 DEF CallOK
<1> HIDE DEF new
<1>5. Entered(new.stack)
  BY <1>4 DEF Entered
<1>6. QED BY <1>1, <1>2, <1>4, <1>5, CallMoves

(* A call under way is on a listener that serves it, while others or none  *)
(* are called.                                                             *)
LEMMA UnderWay ==
  ASSUME Invariant, NEW r \in Request, Alive, InFlight(r)
  PROVE  /\ phase \in Up /\ request[r].on \in DOMAIN listener
         /\ DOMAIN request[r] = {"at", "on", "stack", "asks"} /\ Entered(request[r].stack)
         /\ \/ listener[request[r].on] \in {"open", "closing"}
            \/ listener[request[r].on] = "closed" /\ expired /\ request[r].on[2] = "http"
<1>1. CallOK(r)
  BY DEF Invariant, CallsOK
<1>2. QED BY <1>1, AliveIsUp DEF CallOK, Outlives

(* A call enters the pipeline that its listener feeds, which runs.         *)
LEMMA ReceiveKeeps ==
  ASSUME Invariant, NEW r \in Request, Receive(r)
  PROVE  Invariant'
<1>1. Alive /\ InFlight(r)
  BY DEF Receive, InFlight
<1> DEFINE owner == wiring.owner[request[r].on[1]]
<1>2. PICK plan \in Plan :
        Set(r, [request[r] EXCEPT !.at = "handling", !.asks = plan, !.stack = <<owner>>])
  BY DEF Receive
<1>3. owner \in Built
  <2>1. request[r].on \in Listener
    BY <1>1, UnderWay DEF Invariant, ListenersOK
  <2>2. request[r].on[1] \in ToSet(wiring.acceptors)
    BY <2>1 DEF Listener
  <2>3. owner \in Names
    BY <2>2 DEF Invariant, WiringOK, OwnersOK
  <2>4. QED BY <1>1, <2>3, UnderWay, AllBuilt DEF Invariant
<1> DEFINE new == [request[r] EXCEPT !.at = "handling", !.asks = plan, !.stack = <<owner>>]
<1>4. DOMAIN new = {"at", "on", "stack", "asks"} /\ new.at = "handling" /\ new.on = request[r].on
      /\ new.stack = <<owner>>
  BY <1>1, UnderWay
<1>5. Set(r, new)
  BY <1>2
<1> HIDE DEF new, owner
<1>6. Entered(new.stack)
  BY <1>3, <1>4 DEF Entered
<1>7. QED BY <1>1, <1>4, <1>5, <1>6, UnderWay, CallMoves

(* A connector hands a sub-query to one of its targets, which is a leaf    *)
(* and runs.                                                               *)
LEMMA DispatchKeeps ==
  ASSUME Invariant, NEW r \in Request, Dispatch(r)
  PROVE  Invariant'
<1> DEFINE asks == request[r].asks
           stack == request[r].stack
           targets == wiring.targets[Terminal(Top(r))]
           leaf == targets[Head(asks)]
           new == [request[r] EXCEPT !.stack = Append(stack, leaf), !.asks = Tail(asks)]
<1>1. /\ Alive /\ InFlight(r) /\ request[r].at = "handling" /\ stack # <<>>
      /\ IsConnectorID(Terminal(Top(r))) /\ Head(asks) \in DOMAIN targets /\ Set(r, new)
  BY DEF Dispatch, Handling, InFlight
<1>2. leaf \in wiring.leaves
  BY <1>1 DEF Invariant, WiringOK, TargetsOK, IsConnectorID
<1>3. Last(stack) \notin wiring.leaves
  BY <1>1 DEF Top, Invariant, WiringOK, PipesOK
<1>4. Entered(Append(stack, leaf))
  BY <1>1, <1>2, <1>3, StackMoves, UnderWay
<1>5. DOMAIN new = {"at", "on", "stack", "asks"} /\ new.at = "handling" /\ new.on = request[r].on
      /\ new.stack = Append(stack, leaf)
  BY <1>1, UnderWay
<1> HIDE DEF new, leaf, stack
<1>6. QED BY <1>1, <1>4, <1>5, UnderWay, CallMoves

(* A pipeline's handler returns.                                           *)
LEMMA HandlerKeeps ==
  ASSUME Invariant, NEW r \in Request, HandlerReturns(r)
  PROVE  Invariant'
<1> DEFINE stack == request[r].stack
<1>1. Alive /\ InFlight(r) /\ request[r].at = "handling" /\ stack # <<>>
  BY DEF HandlerReturns, Handling, InFlight
<1>2. PICK new \in {[request[r] EXCEPT !.stack = Front(stack)],
                    [request[r] EXCEPT !.stack = Front(stack), !.asks = <<>>]} : Set(r, new)
  BY DEF HandlerReturns
<1>3. DOMAIN new = {"at", "on", "stack", "asks"} /\ new.at = "handling" /\ new.on = request[r].on
      /\ new.stack = Front(stack)
  BY <1>1, UnderWay
<1>4. Entered(Front(stack))
  BY <1>1, StackMoves, UnderWay
<1> HIDE DEF stack
<1>5. QED BY <1>1, <1>2, <1>3, <1>4, UnderWay, CallMoves

(* A call is answered.                                                     *)
LEMMA RespondKeeps ==
  ASSUME Invariant, NEW r \in Request, Respond(r)
  PROVE  Invariant'
<1> DEFINE new == [request[r] EXCEPT !.at = "answered", !.asks = <<>>]
<1>1. Alive /\ InFlight(r) /\ request[r].stack = <<>> /\ Set(r, new)
  BY DEF Respond, InFlight
<1>2. DOMAIN new = {"at", "on", "stack", "asks"} /\ new.at = "answered" /\ new.stack = <<>>
  BY <1>1, UnderWay
<1> HIDE DEF new
<1>3. Entered(new.stack)
  BY <1>2 DEF Entered
<1>4. QED BY <1>1, <1>2, <1>3, UnderWay, CallMoves

--------------------------------------------------------------------------------
(* The theorems.                                                           *)

(* Every step keeps the invariant.                                         *)
LEMMA InvariantStep == Invariant /\ [Next]_vars => Invariant'
<1> SUFFICES ASSUME Invariant, [Next]_vars PROVE Invariant'
  OBVIOUS
<1>1. ASSUME NEW name \in Names,
             \/ BuildLeafPipeline(name) \/ ConnectorTargets(name)
             \/ BuildConnectorPipeline(name) \/ WireAcceptors(name)
      PROVE  Invariant'
  <2>1. WiringOK'
    BY <1>1, LeafKeeps, TargetsKeep, FrontKeeps, WireKeeps
  <2>2. phase \in Building /\ UNCHANGED lifeVars /\ phase' \in Building \cup {"fatal"}
    BY <1>1 DEF BuildLeafPipeline, ConnectorTargets, BuildConnectorPipeline, WireAcceptors,
                Visit, NextTurn, Fatal, Building
  <2>3. QED BY <2>1, <2>2, BuildingKeeps DEF Invariant
<1>2. CASE Validate \/ NextLoop
  <2>1. WiringOK'
    BY <1>2, ValidateKeeps, NextLoopKeeps
  <2>2. phase \in Building /\ UNCHANGED lifeVars /\ phase' \in Building \cup {"fatal"}
    BY <1>2 DEF Validate, NextLoop, Following, Fatal, Building
  <2>3. QED BY <2>1, <2>2, BuildingKeeps DEF Invariant
<1>3. CASE BeginStart
  BY <1>3, BeginStartKeeps, BeginStartKeepsLife DEF Invariant
<1>4. CASE StartAcceptors \/ Started \/ BeginShutdown \/ BeginStop \/ MainReturns
  <2>1. phase \in Up /\ UNCHANGED buildVars /\ UNCHANGED <<listener, request, expired>>
    BY <1>4 DEF StartAcceptors, Started, BeginShutdown, BeginStop, MainReturns, AcceptorsAreDown,
                lifeVars, Up
  <2>2. QED BY <1>4, <2>1, LifeStays
<1>5. CASE SignalArrives \/ Deadline
  <2>1. /\ phase \in Up /\ UNCHANGED buildVars /\ UNCHANGED <<listener, request>>
        /\ (expired' = expired \/ expired') /\ UNCHANGED <<phase, todo, running>>
    BY <1>5 DEF SignalArrives, Deadline, Up
  <2>2. QED BY <2>1, LifeStays
<1>6. CASE Listen \/ CloseListener \/ ShutdownReturns
  BY <1>6, ListenKeeps, CloseKeeps, ShutdownKeeps
<1>7. ASSUME NEW name \in Names, StartPipeline(name) \/ ShutdownPipeline(name)
      PROVE  Invariant'
  BY <1>7, StartKeeps, StopKeeps
<1>8. ASSUME NEW l \in DOMAIN listener, Alive /\ Serve(l)
      PROVE  Invariant'
  BY <1>8, ServeKeeps
<1>9. ASSUME NEW r \in Request,
             (\E l \in DOMAIN listener : Call(r, l)) \/ Receive(r) \/ Handle(r)
      PROVE  Invariant'
  BY <1>9, CallKeeps, ReceiveKeeps, DispatchKeeps, HandlerKeeps, RespondKeeps DEF Handle
<1>10. CASE UNCHANGED vars
  <2>1. /\ UNCHANGED buildVars /\ UNCHANGED <<config, wiring>> /\ Built' = Built /\ Listener' = Listener
        /\ UNCHANGED <<phase, todo, running, listener, expired, request>>
    BY <1>10, SameWiring DEF vars, buildVars
  <2>2. WiringOK'
    <3>1. PipesOK' /\ TargetsOK' /\ OwnersOK'
      BY <2>1, SameConfig DEF Invariant, WiringOK, PipesOK, TargetsOK, OwnersOK, Visited
    <3>2. QED BY <2>1, <3>1, SameConfig DEF Invariant, WiringOK
  <2>3. RunningOK' /\ ListenersOK'
    BY <2>1 DEF Invariant, RunningOK, ListenersOK
  <2>4. QED BY <2>1, <2>2, <2>3, CallsStay DEF Invariant
<1>11. QED
  BY <1>1, <1>2, <1>3, <1>4, <1>5, <1>6, <1>7, <1>8, <1>9, <1>10, Zenon DEF Next, Main, End

(* The invariant holds of every behaviour.                                 *)
LEMMA InvariantHolds == Spec => []Invariant
  BY InvariantInit, InvariantStep, PTL DEF Spec

(* The service's variables keep their types, in every reachable state.     *)
THEOREM TypeCorrect == Spec => []TypeOK
<1>1. ASSUME Invariant PROVE TypeOK
  <2>1. config \in Config /\ phase \in Phase /\ todo \subseteq Names /\ running \subseteq Built
    BY <1>1 DEF Invariant, WiringOK, PipesOK, RunningOK
  <2>2. wiring.leaves \cap wiring.fronts = {} /\ Built \subseteq Names
    BY <1>1 DEF Invariant, WiringOK, PipesOK, Built
  <2>3. DOMAIN wiring.owner = ToSet(wiring.acceptors)
    BY <1>1 DEF Invariant, WiringOK, OwnersOK
  <2>4. DOMAIN wiring.owner \cap config.connectors = {}
    <3>1. ASSUME NEW a \in DOMAIN wiring.owner PROVE ~IsConnectorID(a)
      <4>1. wiring.owner[a] \in Names /\ a \in ToSet(Listening(wiring.owner[a]))
        BY <1>1 DEF Invariant, WiringOK, OwnersOK
      <4>2. a \in Heard(wiring.owner[a])
        BY <2>1, <4>1, ListeningIsAList
      <4>3. QED BY <4>2 DEF Heard
    <3>2. QED BY <3>1 DEF IsConnectorID
  <2>5. \A l \in DOMAIN listener : listener[l] \in {"down", "bound", "open", "closing", "closed"}
    BY <1>1 DEF Invariant, ListenersOK
  <2>6. \A r \in Request : InFlight(r) => request[r].on \in Listener
    BY <1>1 DEF Invariant, ListenersOK, CallsOK, CallOK
  <2>7. QED BY <2>1, <2>2, <2>3, <2>4, <2>5, <2>6 DEF TypeOK
<1>2. QED BY <1>1, InvariantHolds, PTL

(* Whatever the connectors and the order of the loops, a connector hands a *)
(* query to leaf pipelines only, and a call is never in more than two.     *)
THEOREM ConnectorsCorrect == Spec => []ConnectorsReachLeaves
<1>1. ASSUME Invariant PROVE ConnectorsReachLeaves
  <2>1. \A c \in config.connectors : \A s \in DOMAIN wiring.targets[c] :
          LET name == wiring.targets[c][s]
          IN  IsLeaf(name) /\ c \in Sources(name) /\ Pipe(name).signal = s
    BY <1>1 DEF Invariant, WiringOK, TargetsOK, IsLeaf
  <2>2. ASSUME NEW r \in Request
        PROVE  Len(request[r].stack) <= 2 /\ (Len(request[r].stack) = 2 => IsLeaf(Top(r)))
    <3>1. Entered(request[r].stack)
      BY <1>1 DEF Invariant, CallsOK, CallOK
    <3>2. CASE request[r].stack = <<>>
      BY <3>2
    <3>3. CASE \E name \in Built : request[r].stack = <<name>>
      BY <3>3
    <3>4. CASE \E name \in Built, leaf \in wiring.leaves : request[r].stack = <<name, leaf>>
      BY <3>4 DEF Top, Last, IsLeaf
    <3>5. QED BY <3>1, <3>2, <3>3, <3>4 DEF Entered
  <2>3. QED BY <2>1, <2>2 DEF ConnectorsReachLeaves
<1>2. QED BY <1>1, InvariantHolds, PTL

(* Build accepts exactly the valid configurations, whatever the order in   *)
(* which its loops range over the pipelines.                               *)
THEOREM BuildCorrect == Spec => []BuildAcceptsTheValid
<1>1. ASSUME Invariant PROVE BuildAcceptsTheValid
  <2>1. Valid => ~(phase = "fatal" /\ listener = <<>>)
    BY <1>1 DEF Invariant, WiringOK
  <2>2. ASSUME phase \in Up PROVE Valid
    <3>1. config \in Config /\ PipesOK /\ TargetsOK /\ OwnersOK
      BY <1>1 DEF Invariant, WiringOK
    <3>2. Names # {} /\ \A name \in Names : WellFormed(Pipe(name))
      BY <2>2, <3>1 DEF PipesOK, Up
    <3>3. \A name \in Names : name \in wiring.leaves \/ (IsConnectorID(Terminal(name)) /\ name \in wiring.fronts)
      BY <2>2, <3>1 DEF PipesOK, Visited, Up
    <3>4. ASSUME NEW name \in Names
          PROVE  Works(Components(name)) /\ (IsConnectorID(Terminal(name)) => Sources(name) = {})
      <4>1. Works(Components(name))
        BY <3>1, <3>3 DEF PipesOK
      <4>2. Sources(name) # {} => name \in wiring.leaves
        BY <2>2, <3>1 DEF TargetsOK, Visited, Up
      <4>3. QED BY <3>1, <4>1, <4>2 DEF PipesOK
    <3>5. ASSUME NEW name \in Names
          PROVE  /\ Works(Listening(name)) /\ IsInjective(Listening(name))
                 /\ \A a \in ToSet(Listening(name)) : wiring.owner[a] = name
      BY <2>2, <3>1 DEF OwnersOK, Visited, Up
    <3>6. QED BY <3>1, <3>2, <3>4, <3>5, ValidMeans
  <2>3. QED BY <2>1, <2>2 DEF BuildAcceptsTheValid, Up
<1>2. QED BY <1>1, InvariantHolds, PTL

(* What is built is what was configured: an acceptor feeds the pipeline    *)
(* that lists it, and a connector's signal is served by one that brings it.*)
THEOREM WiringCorrect == Spec => []WiringFollowsTheConfig
<1>1. ASSUME Invariant PROVE WiringFollowsTheConfig
  <2> SUFFICES ASSUME phase \in {"start", "listen", "serving"}, NEW name \in Names
               PROVE  /\ \A a \in ToSet(Listening(name)) : wiring.owner[a] = name
                      /\ \A c \in Sources(name) :
                           LET signal == Pipe(name).signal
                               rivals == {n \in Names : c \in Sources(n) /\ Pipe(n).signal = signal}
                           IN  signal \in DOMAIN wiring.targets[c] /\ wiring.targets[c][signal] \in rivals
    BY DEF WiringFollowsTheConfig
  <2>1. PipesOK /\ TargetsOK /\ OwnersOK /\ phase \in Up
    BY <1>1 DEF Invariant, WiringOK, Up
  <2>2. \A a \in ToSet(Listening(name)) : wiring.owner[a] = name
    BY <2>1 DEF OwnersOK, Visited, Up
  <2>3. ASSUME NEW c \in Sources(name)
        PROVE  LET target == wiring.targets[c][Pipe(name).signal]
               IN  /\ Pipe(name).signal \in DOMAIN wiring.targets[c] /\ target \in Names
                   /\ c \in Sources(target) /\ Pipe(target).signal = Pipe(name).signal
    <3>1. c \in config.connectors /\ Pipe(name).signal \in DOMAIN wiring.targets[c]
      BY <2>1 DEF TargetsOK, Visited, Up, Sources
    <3>2. QED BY <2>1, <3>1 DEF TargetsOK, PipesOK
  <2>4. QED BY <2>2, <2>3
<1>2. QED BY <1>1, InvariantHolds, PTL

(* For any number of calls and listeners, a query is only in pipelines     *)
(* that are started and not yet shut down, or outlives Shutdown's time.    *)
THEOREM ServingCorrect == Spec => []RunningPipelinesServe
<1>1. ASSUME Invariant PROVE RunningPipelinesServe
  <2> SUFFICES ASSUME Alive, NEW r \in Request
               PROVE  ToSet(request[r].stack) \subseteq running \/ Outlives(r)
    BY DEF RunningPipelinesServe
  <2>1. CallOK(r) /\ Entered(request[r].stack)
    BY <1>1 DEF Invariant, CallsOK, CallOK
  <2>2. CASE request[r].stack = <<>>
    BY <2>2 DEF ToSet
  <2>3. CASE request[r].stack # <<>>
    <3>1. InFlight(r)
      BY <2>1, <2>3 DEF CallOK, InFlight
    <3>2. phase \in Up /\ request[r].on \in DOMAIN listener
          /\ (listener[request[r].on] \in {"open", "closing"} \/ Outlives(r))
      BY <1>1, <3>1, UnderWay DEF Outlives
    <3>3. phase \in {"listen", "serving", "drain"} => ToSet(request[r].stack) \subseteq running
      <4>1. request[r].stack \in Seq(Built)
        BY <2>1, StackMoves
      <4>2. ToSet(request[r].stack) \subseteq Built
        BY <4>1, ElementsOfAList
      <4>3. QED BY <1>1, <4>2 DEF Invariant, RunningOK
    <3>4. phase \in {"start", "stop", "exited"} => listener[request[r].on] \notin {"open", "closing"}
      BY <1>1, <3>2 DEF Invariant, ListenersOK
    <3>5. QED BY <3>2, <3>3, <3>4 DEF Up
  <2>4. QED BY <2>2, <2>3
<1>2. QED BY <1>1, InvariantHolds, PTL

(* When main returns, every call that was accepted has been answered, or   *)
(* is an HTTP call that outlived Shutdown's time.                          *)
THEOREM ExitCorrect == Spec => []ExitsAfterAnswering
<1>1. ASSUME Invariant PROVE ExitsAfterAnswering
  <2> SUFFICES ASSUME phase = "exited", NEW r \in Request, InFlight(r) PROVE Outlives(r)
    BY DEF ExitsAfterAnswering
  <2>1. CallOK(r)
    BY <1>1 DEF Invariant, CallsOK
  <2>2. QED BY <1>1, <2>1 DEF CallOK, Invariant, ListenersOK
<1>2. QED BY <1>1, InvariantHolds, PTL
================================================================================
