---------------------------- MODULE QueryPathProofs ----------------------------
(***************************************************************************)
(* Proofs about QueryPath, for every set of signals, every configuration   *)
(* and every request: the calls nest as TypeOK says, what enforcement      *)
(* demands of a query is in every Select that storage is asked for,        *)
(* nothing that a filter hides is answered, and storage is read for the    *)
(* tenant that the query's own processors resolve, past all their gates.   *)
(***************************************************************************)
EXTENDS QueryPath, ProofBasics

--------------------------------------------------------------------------------
(* The calls under way.                                                    *)

Calling == {"single", "left", "right"}
Phase == {"validate", "query", "result"} \cup Calling
Frame == [pipe : Pipe, query : Query, phase : Phase, next : Nat]

(* A frame's next processor, from the first one to past the last on the    *)
(* way in, and down to 0 on the way out.                                   *)
InBounds(f) ==
  LET ends == Len(config.procs[f.pipe])
  IN  /\ f.phase = "result" => f.next <= ends
      /\ f.phase # "result" => f.next \in 1 .. ends + 1
      /\ f.phase = "validate" => f.next = 1

(* The query that the callee of a frame has in hand. *)
Callee(phase) == CASE phase = "single" -> "client" [] phase = "left" -> "lhs"
                   [] phase = "right" -> "rhs"

(* The acceptor's pipeline handles the client's query, and only the front  *)
(* pipeline calls another one.                                             *)
Outer ==
  {f \in Frame : /\ f.pipe = config.entry /\ f.query = "client" /\ InBounds(f)
                 /\ f.phase \in Calling => f.pipe = "front"}

(* The callee is the pipeline of a target, and calls none.                 *)
Inner(f) ==
  {g \in Frame : /\ f.phase \in Calling /\ g.phase \notin Calling /\ InBounds(g)
                 /\ g.pipe \in config.targets /\ g.query = Callee(f.phase)}

Shape ==
  /\ config \in Config /\ request \in Request
  /\ \/ stack = <<>>
     \/ answer = "none" /\ \E f \in Outer : stack = <<f>>
     \/ answer = "none" /\ \E f \in Outer : \E g \in Inner(f) : stack = <<f, g>>

(* What the code's configuration guarantees of a pipeline. *)
LEMMA PipelineIsList ==
  ASSUME config \in Config, NEW pipe \in Pipe
  PROVE  /\ Len(config.procs[pipe]) \in Nat
         /\ DOMAIN config.procs[pipe] = 1 .. Len(config.procs[pipe])
         /\ config.procs[pipe] \in
              Seq({config.procs[pipe][i] : i \in DOMAIN config.procs[pipe]})
<1>1. IsList(config.procs[pipe])
  BY ConfigAssumption
<1>2. QED BY <1>1, LenProperties DEF IsList

(* The front is never a target of the connector, and every target is a     *)
(* pipeline.                                                               *)
LEMMA FrontIsNoTarget ==
  ASSUME config \in Config
  PROVE  "front" \notin config.targets /\ config.targets \subseteq Pipe
  BY NamesAssumption, ConfigAssumption DEF Pipe

(* The frame on top, and the one below it.                                 *)
LEMMA TopOfStack ==
  ASSUME Shape, stack # <<>>
  PROVE  /\ Top \in Frame /\ InBounds(Top) /\ answer = "none" /\ stack[1] \in Outer
         /\ \/ Len(stack) = 1 /\ stack = <<Top>> /\ Top \in Outer
            \/ /\ Len(stack) = 2 /\ stack = <<stack[1], Top>> /\ Top \in Inner(stack[1])
               /\ Top.pipe # "front" /\ Top.phase \notin Calling
         /\ Len(Procs) \in Nat /\ DOMAIN Procs = 1 .. Len(Procs)
<1>1. CASE \E f \in Outer : stack = <<f>>
  BY <1>1 DEF Top, Outer, Shape
<1>2. CASE \E f \in Outer : \E g \in Inner(f) : stack = <<f, g>>
  <2>0. PICK f \in Outer : \E g \in Inner(f) : stack = <<f, g>>
    BY <1>2
  <2>1. PICK g \in Inner(f) : stack = <<f, g>>
    BY <2>0
  <2>2. Len(stack) = 2 /\ Top = g /\ stack[1] = f
    BY <2>1 DEF Top
  <2>3. g \in Frame /\ InBounds(g) /\ g.pipe # "front" /\ g.phase \notin Calling
    BY FrontIsNoTarget DEF Inner, Shape
  <2>4. QED BY <2>1, <2>2, <2>3 DEF Shape
<1>3. QED
  <2>1. Top \in Frame /\ config \in Config
    BY <1>1, <1>2 DEF Shape
  <2>2. Len(Procs) \in Nat /\ DOMAIN Procs = 1 .. Len(Procs)
    BY <2>1, PipelineIsList DEF Procs, Frame
  <2>3. QED BY <1>1, <1>2, <2>2 DEF Shape

--------------------------------------------------------------------------------
(* What the control operators do to the shape.                             *)

(* A call of Handle goes on. *)
LEMMA ContinueKeepsShape ==
  ASSUME Shape, stack # <<>>, NEW f \in Frame, Continue(f),
         f.pipe = Top.pipe, f.query = Top.query, f.phase \notin Calling, InBounds(f),
         UNCHANGED <<config, request, answer>>
  PROVE  /\ Shape' /\ stack' # <<>> /\ Len(stack') = Len(stack) /\ Top' = f
         /\ Len(stack) = 2 => stack'[1] = stack[1]
<1>1. InBounds(f)'
  BY DEF InBounds
<1>2. CASE Len(stack) = 1
  <2>1. stack = <<Top>> /\ Top \in Outer
    BY <1>2, TopOfStack
  <2>2. stack' = <<f>> /\ Len(stack') = 1 /\ Top' = f
    BY <2>1 DEF Continue, Top
  <2>3. f \in Outer'
    BY <1>1, <2>1 DEF Outer
  <2>4. QED BY <1>2, <2>2, <2>3, TopOfStack DEF Shape
<1>3. CASE Len(stack) = 2
  <2>1. PICK e \in Outer : stack = <<e, Top>> /\ Top \in Inner(e) /\ e = stack[1]
    BY <1>3, TopOfStack
  <2>2. stack' = <<e, f>> /\ Len(stack') = 2 /\ Top' = f /\ stack'[1] = e
    BY <2>1 DEF Continue, Top
  <2>3. e \in Outer' /\ f \in Inner(e)'
    BY <1>1, <2>1 DEF Outer, Inner, InBounds
  <2>4. answer' = "none" /\ config' \in Config /\ request' \in Request
    BY TopOfStack DEF Shape
  <2>5. Shape'
    BY <2>2, <2>3, <2>4 DEF Shape
  <2>6. QED BY <1>3, <2>1, <2>2, <2>5
<1>4. QED BY <1>2, <1>3, TopOfStack

(* A call of Handle nests. *)
LEMMA CallKeepsShape ==
  ASSUME Shape, stack # <<>>, Top.pipe = "front",
         NEW f \in Frame, f.pipe = Top.pipe, f.query = Top.query,
         f.phase \in Calling, InBounds(f),
         NEW s \in config.targets, NEW q, q = Callee(f.phase), Call(s, q, f),
         UNCHANGED <<config, request, answer>>
  PROVE  /\ Shape' /\ stack' # <<>> /\ Len(stack) = 1 /\ Len(stack') = 2
         /\ stack'[1] = f
         /\ Top' = [pipe |-> s, query |-> q, phase |-> "validate", next |-> 1]
<1> DEFINE g == [pipe |-> s, query |-> q, phase |-> "validate", next |-> 1]
<1>1. stack = <<Top>> /\ Top \in Outer /\ Len(stack) = 1
  BY TopOfStack
<1>2. stack' = <<f, g>>
  <2>1. PICK e : stack = <<e>>
    BY <1>1
  <2>2. [stack EXCEPT ![Len(stack)] = f] = <<f>>
    BY <2>1
  <2>3. QED BY <2>2, PushedOn DEF Call
<1>3. g \in Frame
  BY FrontIsNoTarget DEF Shape, Frame, Phase, Callee, Calling, Query
<1>4. InBounds(f)' /\ InBounds(g)'
  <2>1. Len(config.procs[s]) \in Nat
    BY PipelineIsList, FrontIsNoTarget DEF Shape
  <2>2. QED BY <2>1 DEF InBounds
<1> HIDE DEF g
<1>5. Len(stack') = 2 /\ stack'[1] = f /\ Top' = g /\ stack' # <<>>
  BY <1>2 DEF Top
<1>6. f \in Outer'
  BY <1>1, <1>4 DEF Outer
<1>7. g \in Inner(f)'
  BY <1>3, <1>4 DEF Inner, Calling, g
<1>8. Shape'
  BY <1>2, <1>6, <1>7, TopOfStack DEF Shape
<1>9. QED BY <1>1, <1>5, <1>8 DEF g

(* A call of Handle returns. *)
LEMMA ReturnKeepsShape ==
  ASSUME Shape, Return
  PROVE  /\ Shape'
         /\ Len(stack) = 1 => stack' = <<>> /\ answer' = "data"
         /\ Len(stack) = 2 => /\ stack' # <<>> /\ Len(stack') = 1
                              /\ Top' = stack[1] /\ stack'[1] = stack[1]
                              /\ stack[1].phase \in Calling /\ answer' = "none"
<1>1. stack # <<>> /\ answer = "none" /\ UNCHANGED <<config, request>>
  BY DEF Return, Running
<1>2. CASE Len(stack) = 1
  <2>1. PICK e : stack = <<e>>
    BY <1>1, <1>2, TopOfStack
  <2>2. stack' = SubSeq(stack, 1, 0) /\ answer' = "data"
    BY <1>2 DEF Return
  <2>3. stack' = <<>>
    BY <2>1, <2>2, PoppedOff, Zenon
  <2>4. QED BY <1>1, <1>2, <2>2, <2>3 DEF Shape
<1>3. CASE Len(stack) = 2
  <2>1. PICK e \in Outer : stack = <<e, Top>> /\ Top \in Inner(e) /\ e = stack[1]
    BY <1>1, <1>3, TopOfStack
  <2>2. stack' = SubSeq(stack, 1, 1) /\ answer' = "none"
    BY <1>1, <1>3 DEF Return
  <2>3. stack' = <<e>>
    BY <2>1, <2>2, PoppedOff, Zenon
  <2>4. stack' # <<>> /\ Len(stack') = 1 /\ Top' = e /\ stack'[1] = e
    BY <2>3 DEF Top
  <2>5. e \in Outer' /\ e.phase \in Calling
    BY <1>1, <2>1 DEF Outer, InBounds, Inner
  <2>6. Shape'
    BY <1>1, <2>2, <2>3, <2>5 DEF Shape
  <2>7. QED BY <1>3, <2>1, <2>2, <2>4, <2>5, <2>6
<1>4. QED BY <1>1, <1>2, <1>3, TopOfStack

(* An error unwinds all calls. *)
LEMMA RefuseKeepsShape ==
  ASSUME Shape, NEW code, Refuse(code)
  PROVE  Shape' /\ stack' = <<>>
  BY DEF Refuse, Shape

--------------------------------------------------------------------------------
(* What the steps do to the shape.                                         *)

(* The frame on top becomes f, and the rest of the stack stays. *)
Moves(f) ==
  /\ stack # <<>> /\ stack' # <<>> /\ Len(stack') = Len(stack)
  /\ f \in Frame /\ f.pipe = Top.pipe /\ f.query = Top.query
  /\ Top' = f
  /\ Len(stack) = 2 => stack'[1] = stack[1]

(* A plan that is valid takes the call to its first processor.             *)
LEMMA ValidateMoves ==
  ASSUME Shape, Running("validate"), Continue([Top EXCEPT !.phase = "query"]),
         UNCHANGED <<config, request, answer>>
  PROVE  Shape' /\ Moves([Top EXCEPT !.phase = "query"])
<1> DEFINE f == [Top EXCEPT !.phase = "query"]
<1>1. Top \in Frame /\ InBounds(Top) /\ stack # <<>> /\ Top.phase = "validate"
  BY TopOfStack DEF Running
<1>2. /\ f \in Frame /\ f.pipe = Top.pipe /\ f.query = Top.query
      /\ f.phase = "query" /\ f.next = Top.next
  BY <1>1 DEF Frame, Phase
<1> HIDE DEF f
<1>3. InBounds(f) /\ f.phase \notin Calling
  BY <1>1, <1>2 DEF InBounds, Calling
<1>4. Continue(f)
  BY DEF f
<1>5. Shape' /\ Moves(f)
  BY <1>1, <1>2, <1>3, <1>4, ContinueKeepsShape DEF Moves
<1>6. QED BY <1>5 DEF f

(* A processor that passes takes the call to the next one.                 *)
LEMMA NextProcMoves ==
  ASSUME Shape, NEW kind, Processing(kind), NextProc,
         UNCHANGED <<config, request, answer>>
  PROVE  Shape' /\ Moves([Top EXCEPT !.next = Top.next + 1])
<1> DEFINE f == [Top EXCEPT !.next = Top.next + 1]
<1>1. /\ Top \in Frame /\ InBounds(Top) /\ stack # <<>> /\ Top.phase = "query"
      /\ Top.next \in 1 .. Len(Procs) /\ Len(Procs) \in Nat
  BY TopOfStack DEF Running, Processing
<1>2. /\ f \in Frame /\ f.pipe = Top.pipe /\ f.query = Top.query
      /\ f.phase = "query" /\ f.next = Top.next + 1
  BY <1>1 DEF Frame
<1>3. Continue(f)
  BY DEF NextProc
<1> HIDE DEF f
<1>4. InBounds(f) /\ f.phase \notin Calling
  BY <1>1, <1>2 DEF InBounds, Calling, Procs
<1>5. Shape' /\ Moves(f)
  BY <1>1, <1>2, <1>3, <1>4, ContinueKeepsShape DEF Moves
<1>6. QED BY <1>5 DEF f

(* A result takes the call to the last processor on the way back.          *)
LEMMA RespondMoves ==
  ASSUME Shape, stack # <<>>, NEW r, Respond(r), UNCHANGED <<config, request, answer>>
  PROVE  /\ Shape' /\ Moves([Top EXCEPT !.phase = "result", !.next = Len(Procs)])
         /\ result' = r
<1> DEFINE f == [Top EXCEPT !.phase = "result", !.next = Len(Procs)]
<1>1. Top \in Frame /\ Len(Procs) \in Nat
  BY TopOfStack
<1>2. /\ f \in Frame /\ f.pipe = Top.pipe /\ f.query = Top.query
      /\ f.phase = "result" /\ f.next = Len(Procs)
  BY <1>1 DEF Frame, Phase
<1>3. Continue(f) /\ result' = r
  BY DEF Respond
<1> HIDE DEF f
<1>4. InBounds(f) /\ f.phase \notin Calling
  BY <1>1, <1>2 DEF InBounds, Calling, Procs
<1>5. Shape' /\ Moves(f)
  BY <1>1, <1>2, <1>3, <1>4, ContinueKeepsShape DEF Moves
<1>6. QED BY <1>3, <1>5 DEF f

(* A processor of the way back takes the call to the one before it.        *)
LEMMA ProcessResultMoves ==
  ASSUME Shape, ProcessResult
  PROVE  Shape' /\ Moves([Top EXCEPT !.next = Top.next - 1])
<1> DEFINE f == [Top EXCEPT !.next = Top.next - 1]
<1>1. /\ Top \in Frame /\ InBounds(Top) /\ stack # <<>> /\ Top.phase = "result"
      /\ Top.next > 0 /\ UNCHANGED <<config, request, answer>> /\ Continue(f)
      /\ Len(Procs) \in Nat
  BY TopOfStack DEF Running, ProcessResult
<1>2. /\ f \in Frame /\ f.pipe = Top.pipe /\ f.query = Top.query
      /\ f.phase = "result" /\ f.next = Top.next - 1
  BY <1>1 DEF Frame
<1> HIDE DEF f
<1>3. InBounds(f) /\ f.phase \notin Calling
  BY <1>1, <1>2 DEF InBounds, Calling, Procs, Frame
<1>4. Shape' /\ Moves(f)
  BY <1>1, <1>2, <1>3, ContinueKeepsShape DEF Moves
<1>5. QED BY <1>4 DEF f

(* A call behind the front pipeline, which waits in phase for its result. *)
Nests(s, q, phase) ==
  /\ stack # <<>> /\ stack' # <<>> /\ Len(stack) = 1 /\ Len(stack') = 2
  /\ Top \in Outer /\ Top.pipe = "front" /\ config.entry = "front"
  /\ s \in config.targets /\ phase \in Calling /\ q = Callee(phase)
  /\ stack'[1] = [Top EXCEPT !.phase = phase]
  /\ Top' = [pipe |-> s, query |-> q, phase |-> "validate", next |-> 1]

(* A call of the connector puts the target's pipeline on the stack, above  *)
(* the front.                                                              *)
LEMMA CallNests ==
  ASSUME Shape, stack # <<>>, Top.pipe = "front", Top.phase \in {"query", "left"},
         NEW phase \in Calling, NEW s \in config.targets, NEW q, q = Callee(phase),
         Call(s, q, [Top EXCEPT !.phase = phase]),
         UNCHANGED <<config, request, answer>>
  PROVE  Shape' /\ Nests(s, q, phase)
<1> DEFINE f == [Top EXCEPT !.phase = phase]
<1>1. /\ Top \in Frame /\ InBounds(Top)
      /\ Top \in Outer
  BY TopOfStack
<1>2. /\ f \in Frame /\ f.pipe = Top.pipe /\ f.query = Top.query
      /\ f.phase = phase /\ f.next = Top.next
  BY <1>1 DEF Frame, Phase
<1>3. Call(s, q, f)
  OBVIOUS
<1> HIDE DEF f
<1>4. InBounds(f)
  BY <1>1, <1>2 DEF InBounds, Calling
<1>5. config.entry = "front"
  BY <1>1 DEF Outer
<1>6. /\ Shape' /\ stack' # <<>> /\ Len(stack) = 1 /\ Len(stack') = 2
      /\ stack'[1] = f
      /\ Top' = [pipe |-> s, query |-> q, phase |-> "validate", next |-> 1]
  BY <1>2, <1>3, <1>4, CallKeepsShape
<1>7. QED BY <1>1, <1>5, <1>6 DEF Nests, f

(* A single-signal query is handed on as it is.                            *)
LEMMA ConnectSingleNests ==
  ASSUME Shape, ConnectSingle
  PROVE  /\ Shape' /\ \E s \in config.targets : Nests(s, "client", "single")
         /\ UNCHANGED <<config, request, query, filter, left, result, answer, seen>>
<1>1. /\ stack # <<>> /\ Top.phase = "query" /\ Top.pipe = "front"
      /\ UNCHANGED <<config, request, query, filter, left, result, answer, seen>>
  BY DEF ConnectSingle, Dispatching, AtEnd, Running
<1>2. Top.query = "client"
  BY <1>1, TopOfStack DEF Outer
<1>3. PICK s \in config.targets : Call(s, "client", [Top EXCEPT !.phase = "single"])
  BY <1>2 DEF ConnectSingle
<1>4. "single" \in Calling /\ Callee("single") = "client"
  BY DEF Calling, Callee
<1>5. Shape' /\ Nests(s, "client", "single")
  BY <1>1, <1>3, <1>4, CallNests
<1>6. QED BY <1>1, <1>5

(* The left side is a sub-query, with the client's metadata map by         *)
(* reference.                                                              *)
LEMMA ConnectLeftNests ==
  ASSUME Shape, ConnectLeft
  PROVE  /\ Shape' /\ \E s \in config.targets : Nests(s, "lhs", "left")
         /\ Top.phase = "query" /\ Top.next = Len(Procs) + 1
         /\ metadata' = [metadata EXCEPT !["lhs"] = metadata["client"]]
         /\ UNCHANGED <<config, request, map, enforced, filter, left, result, answer, seen>>
<1>1. /\ stack # <<>> /\ Top.phase = "query" /\ Top.pipe = "front"
      /\ ExecSide("lhs", [Top EXCEPT !.phase = "left"]) /\ UNCHANGED left
      /\ Top.next \notin DOMAIN Procs
  BY DEF ConnectLeft, Dispatching, AtEnd, Running
<1>2. Top.query = "client" /\ Top.next = Len(Procs) + 1
  BY <1>1, TopOfStack DEF Outer, InBounds, Procs
<1>3. PICK s \in config.targets : Call(s, "lhs", [Top EXCEPT !.phase = "left"])
  BY <1>1 DEF ExecSide
<1>4. "left" \in Calling /\ Callee("left") = "lhs"
  BY DEF Calling, Callee
<1>5. /\ UNCHANGED <<config, request, map, enforced, filter, result, answer, seen>>
      /\ metadata' = [metadata EXCEPT !["lhs"] = metadata["client"]]
  BY <1>1, <1>2 DEF ExecSide
<1>6. Shape' /\ Nests(s, "lhs", "left")
  BY <1>1, <1>3, <1>4, <1>5, CallNests
<1>7. QED BY <1>1, <1>2, <1>5, <1>6

(* So is the right side, once the left side has answered, if it is         *)
(* executable.                                                             *)
LEMMA ConnectRightNests ==
  ASSUME Shape, ConnectRight
  PROVE  \/ Refuse("InvalidArgument")
         \/ /\ Shape' /\ \E s \in config.targets : Nests(s, "rhs", "right")
            /\ Top.phase = "left" /\ left' = result
            /\ metadata' = [metadata EXCEPT !["rhs"] = metadata["client"]]
            /\ UNCHANGED <<config, request, map, enforced, filter, result, answer, seen>>
<1> SUFFICES ASSUME ~Refuse("InvalidArgument")
             PROVE  /\ Shape' /\ \E s \in config.targets : Nests(s, "rhs", "right")
                    /\ Top.phase = "left" /\ left' = result
                    /\ metadata' = [metadata EXCEPT !["rhs"] = metadata["client"]]
                    /\ UNCHANGED <<config, request, map, enforced, filter, result, answer, seen>>
  OBVIOUS
<1>1. /\ stack # <<>> /\ Top.phase = "left" /\ left' = result
      /\ ExecSide("rhs", [Top EXCEPT !.phase = "right"])
  BY DEF ConnectRight, Running
<1>2. Top.query = "client" /\ Top.pipe = "front"
  BY <1>1, TopOfStack DEF Outer, Calling
<1>3. PICK s \in config.targets : Call(s, "rhs", [Top EXCEPT !.phase = "right"])
  BY <1>1 DEF ExecSide
<1>4. "right" \in Calling /\ Callee("right") = "rhs"
  BY DEF Calling, Callee
<1>5. /\ UNCHANGED <<config, request, map, enforced, filter, result, answer, seen>>
      /\ metadata' = [metadata EXCEPT !["rhs"] = metadata["client"]]
  BY <1>1, <1>2 DEF ExecSide
<1>6. Shape' /\ Nests(s, "rhs", "right")
  BY <1>1, <1>2, <1>3, <1>4, <1>5, CallNests
<1>7. QED BY <1>1, <1>5, <1>6

(* Every step keeps the shape. *)
LEMMA StepKeepsShape ==
  ASSUME Shape, [Next]_vars
  PROVE  Shape'
<1>1. CASE Receive
  <2> DEFINE f == [pipe |-> config.entry, query |-> "client", phase |-> "validate", next |-> 1]
  <2>1. stack' = <<f>> /\ answer' = "none" /\ UNCHANGED <<config, request>>
    BY <1>1 DEF Receive
  <2>2. config.entry \in Pipe /\ Len(config.procs[config.entry]) \in Nat
    BY ConfigAssumption, PipelineIsList DEF Shape
  <2>3. f \in Outer'
    BY <2>1, <2>2 DEF Outer, Frame, Phase, Calling, Query, InBounds
  <2> HIDE DEF f
  <2>4. QED BY <2>1, <2>3 DEF Shape
<1>2. ASSUME NEW code, Refuse(code) PROVE Shape'
  BY <1>2, RefuseKeepsShape
<1>3. CASE Validate
  BY <1>2, <1>3, ValidateMoves DEF Validate
<1>4. ASSUME NEW kind, Processing(kind), NextProc, UNCHANGED <<config, request, answer>>
      PROVE  Shape'
  BY <1>4, NextProcMoves
<1>5. CASE RunTenant \/ RunLimit \/ RunAuthz \/ RunRewrite \/ RunFilter
  BY <1>2, <1>4, <1>5, Zenon
     DEF RunTenant, RunLimit, RunAuthz, RunTenantWith, RunLimitWith, RunAuthzWith, RunRewrite,
         RunFilter
<1>6. ASSUME stack # <<>>, NEW r, Respond(r), UNCHANGED <<config, request, answer>>
      PROVE  Shape'
  BY <1>6, RespondMoves
<1>7. CASE ReadStorage \/ FinishSingle \/ Join
  BY <1>2, <1>6, <1>7, Zenon DEF ReadStorage, FinishSingle, Join, AtEnd, Running
<1>8. CASE ConnectRefused
  BY <1>2, <1>8 DEF ConnectRefused
<1>9. CASE ConnectSingle \/ ConnectLeft \/ ConnectRight
  BY <1>2, <1>9, ConnectSingleNests, ConnectLeftNests, ConnectRightNests
<1>10. CASE ProcessResult
  BY <1>10, ProcessResultMoves
<1>11. CASE Return
  BY <1>11, ReturnKeepsShape
<1>12. CASE UNCHANGED vars
  BY <1>12 DEF vars, Shape, Outer, Inner, InBounds
<1>13. QED
  BY <1>1, <1>3, <1>5, <1>7, <1>8, <1>9, <1>10, <1>11, <1>12 DEF Next, Done

(* The stack keeps its shape: the front below at most one pipeline that it *)
(* called.                                                                 *)
LEMMA ShapeInvariant == Spec => []Shape
<1>1. Init => Shape
  BY DEF Init, Shape
<1>2. Shape /\ [Next]_vars => Shape'
  BY StepKeepsShape
<1>3. QED BY <1>1, <1>2, PTL DEF Spec

--------------------------------------------------------------------------------
(* Type correctness.                                                       *)

Fields == {"tenant", "subject"}
IsMatcher(m) == DOMAIN m = {"name", "value"}

DataOK ==
  /\ metadata \in [Query -> Query \cup {None}]
  /\ DOMAIN map = Query /\ DOMAIN enforced = Query
  /\ filter = [s \in Select |-> filter[s]]
  /\ \A q \in Query : DOMAIN map[q] = Fields
  /\ \A q \in Query : \A m \in enforced[q] : IsMatcher(m)
  /\ \A s \in Select : \A m \in filter[s] : IsMatcher(m)

Answers == {"none", "data", "InvalidArgument", "Unauthenticated", "PermissionDenied",
            "ResourceExhausted", "Unavailable"}

(* What the processors register are matchers.                              *)
LEMMA MatchersAreMatchers ==
  /\ \A p, header : \A m \in TenantMatchers(p, header) : IsMatcher(m)
  /\ \A labels, tenant : \A m \in LabelMatchers(labels, tenant) : IsMatcher(m)
<1>1. \A name, value : IsMatcher(Matcher(name, value))
  BY DEF Matcher, IsMatcher
<1>2. QED BY <1>1 DEF TenantMatchers, LabelMatchers, LabelMatcher

(* The map of a query has the fields of a map, and so it has when it is    *)
(* written.                                                                *)
LEMMA MapOfFields ==
  ASSUME DataOK, NEW q \in Query
  PROVE  DOMAIN MapOf(q) = Fields
  BY DEF DataOK, MapOf, NoMap, Fields

(* Writing a query's map keeps the types of the references and of the maps.*)
LEMMA SetMapTypes ==
  ASSUME DataOK, NEW q \in Query, NEW m, DOMAIN m = Fields, SetMap(q, m)
  PROVE  /\ metadata' \in [Query -> Query \cup {None}]
         /\ DOMAIN map' = Query /\ \A r \in Query : DOMAIN map'[r] = Fields
<1> DEFINE ref == IF metadata[q] = None THEN q ELSE metadata[q]
<1>1. ref \in Query
  BY DEF DataOK
<1>2. /\ metadata' = [metadata EXCEPT ![q] = ref]
      /\ map' = [map EXCEPT ![ref] = m]
  BY DEF SetMap
<1> HIDE DEF ref
<1>3. QED BY <1>1, <1>2 DEF DataOK

(* A processor's step on the query in hand. *)
LEMMA EnforcedTypes ==
  ASSUME DataOK, NEW q \in Query, NEW matchers, \A m \in matchers : IsMatcher(m),
         enforced' = [enforced EXCEPT ![q] = @ \cup matchers]
  PROVE  DOMAIN enforced' = Query /\ \A r \in Query : \A m \in enforced'[r] : IsMatcher(m)
  BY DEF DataOK

(* What the client's message populates has the types of the data.          *)
LEMMA InitIsTyped == Init => Shape /\ DataOK
<1> SUFFICES ASSUME Init PROVE Shape /\ DataOK
  OBVIOUS
<1>1. DOMAIN request.body.map = Fields /\ \A m \in request.body.enforced : IsMatcher(m)
  BY RequestAssumption DEF Init, Fields, IsMatcher
<1>2. DOMAIN NoMap = Fields
  BY DEF NoMap, Fields
<1>3. \A q \in Query : DOMAIN map[q] = Fields /\ \A m \in enforced[q] : IsMatcher(m)
  BY <1>1, <1>2 DEF Init
<1>4. QED BY <1>3 DEF Init, Shape, DataOK, Query

(* No step leaves the types of the data.                                   *)
LEMMA StepKeepsData ==
  ASSUME Shape, DataOK, [Next]_vars
  PROVE  DataOK'
<1> USE DEF IsMatcher
<1>1. CASE Receive
  BY <1>1 DEF Receive, DataOK, Query
<1>2. CASE UNCHANGED <<query, filter>>
  BY <1>2 DEF query, DataOK
<1>3. ASSUME stack # <<>> PROVE Top.query \in Query
  BY <1>3, TopOfStack DEF Frame
<1>4. ASSUME NEW header, RunTenantWith(header) PROVE DataOK'
  <2>1. stack # <<>> /\ Top.query \in Query
    BY <1>3, <1>4 DEF RunTenantWith, Processing, Running
  <2>2. CASE \E code : Refuse(code)
    BY <1>2, <2>2 DEF Refuse
  <2>3. CASE /\ map' = IF metadata[Top.query] = None THEN map
                       ELSE [map EXCEPT ![metadata[Top.query]].tenant = None]
             /\ UNCHANGED <<metadata, enforced, filter>>
    BY <2>1, <2>3 DEF DataOK
  <2>4. CASE \E id : /\ SetMap(Top.query, [MapOf(Top.query) EXCEPT !.tenant = id])
                     /\ enforced' = [enforced EXCEPT ![Top.query] =
                                       @ \cup TenantMatchers(Proc, header)]
                     /\ UNCHANGED filter
    <3>1. PICK id : /\ SetMap(Top.query, [MapOf(Top.query) EXCEPT !.tenant = id])
                    /\ enforced' = [enforced EXCEPT ![Top.query] =
                                      @ \cup TenantMatchers(Proc, header)]
                    /\ UNCHANGED filter
      BY <2>4
    <3>2. DOMAIN [MapOf(Top.query) EXCEPT !.tenant = id] = Fields
      BY <2>1, MapOfFields
    <3>3. QED
      BY <2>1, <3>1, <3>2, SetMapTypes, EnforcedTypes, MatchersAreMatchers DEF DataOK
  <2>5. QED BY <1>4, <2>2, <2>3, <2>4, Zenon DEF RunTenantWith
<1>5. ASSUME NEW header, RunAuthzWith(header) PROVE DataOK'
  <2>1. stack # <<>> /\ Top.query \in Query
    BY <1>3, <1>5 DEF RunAuthzWith, Processing, Running
  <2>2. CASE \E code : Refuse(code)
    BY <1>2, <2>2 DEF Refuse
  <2>3. CASE \E subject, labels :
               /\ \/ UNCHANGED <<metadata, map>>
                  \/ SetMap(Top.query, [MapOf(Top.query) EXCEPT !.subject = subject])
               /\ enforced' = [enforced EXCEPT ![Top.query] =
                                 @ \cup LabelMatchers(labels, Tenant)]
               /\ UNCHANGED filter
    <3>1. PICK subject, labels :
               /\ \/ UNCHANGED <<metadata, map>>
                  \/ SetMap(Top.query, [MapOf(Top.query) EXCEPT !.subject = subject])
               /\ enforced' = [enforced EXCEPT ![Top.query] =
                                 @ \cup LabelMatchers(labels, Tenant)]
               /\ UNCHANGED filter
      BY <2>3
    <3>2. DOMAIN [MapOf(Top.query) EXCEPT !.subject = subject] = Fields
      BY <2>1, MapOfFields
    <3>3. QED
      BY <2>1, <3>1, <3>2, SetMapTypes, EnforcedTypes, MatchersAreMatchers DEF DataOK
  <2>4. QED BY <1>5, <2>2, <2>3, Zenon DEF RunAuthzWith
<1>6. CASE RunRewrite
  <2>1. stack # <<>> /\ Top.query \in Query
    BY <1>3, <1>6 DEF RunRewrite, Processing, Running
  <2>2. CASE \E code : Refuse(code)
    BY <1>2, <2>2 DEF Refuse
  <2>3. CASE \E labels :
               /\ filter' = Composed(Top.query, enforced[Top.query]
                                                  \cup LabelMatchers(labels, Tenant))
               /\ \/ UNCHANGED <<metadata, map>>
                  \/ SetMap(Top.query, MapOf(Top.query))
               /\ UNCHANGED enforced
    <3>1. \A s \in Select : \A m \in filter'[s] : IsMatcher(m)
      BY <2>1, <2>3, MatchersAreMatchers DEF DataOK, Composed
    <3>2. filter' = [s \in Select |-> filter'[s]]
      BY <2>3 DEF Composed
    <3>3. DOMAIN MapOf(Top.query) = Fields
      BY <2>1, MapOfFields
    <3>4. QED
      BY <2>1, <2>3, <3>1, <3>2, <3>3, SetMapTypes DEF DataOK
  <2>4. QED BY <1>2, <1>6, <2>2, <2>3, Zenon DEF RunRewrite
<1>7. CASE \E q \in {"lhs", "rhs"} : /\ metadata' = [metadata EXCEPT ![q] = metadata["client"]]
                                     /\ UNCHANGED <<map, enforced, filter>>
  BY <1>7 DEF DataOK, Query
<1>8. CASE ConnectLeft \/ ConnectRight
  BY <1>2, <1>7, <1>8, ConnectLeftNests, ConnectRightNests DEF Refuse
<1>9. ASSUME NEW code, Refuse(code) PROVE DataOK'
  BY <1>2, <1>9 DEF Refuse
<1>10. CASE Validate \/ RunLimit \/ RunFilter \/ ReadStorage \/ ConnectRefused
             \/ ConnectSingle \/ FinishSingle \/ Join \/ ProcessResult \/ Return
  BY <1>2, <1>9, <1>10, Zenon
     DEF Validate, RunLimit, RunLimitWith, RunFilter, ReadStorage, ConnectRefused,
         ConnectSingle, FinishSingle, Join, ProcessResult, Return
<1>11. CASE UNCHANGED vars
  BY <1>2, <1>11 DEF vars
<1>12. QED
  BY <1>1, <1>4, <1>5, <1>6, <1>8, <1>10, <1>11 DEF Next, Done, RunTenant, RunAuthz

(* No step answers with anything but data or one of the codes.             *)
LEMMA StepKeepsAnswer ==
  ASSUME answer \in Answers, [Next]_vars
  PROVE  answer' \in Answers
<1> USE DEF Answers
<1>1. CASE UNCHANGED answer
  BY <1>1
<1>2. CASE Return
  BY <1>2 DEF Return
<1>3. CASE \E code \in Answers : Refuse(code)
  BY <1>3 DEF Refuse
<1>4. CASE Receive \/ Validate \/ RunTenant \/ RunLimit \/ RunAuthz \/ RunRewrite \/ RunFilter
  BY <1>1, <1>3, <1>4, Zenon
     DEF Receive, Validate, RunTenant, RunLimit, RunAuthz, RunTenantWith, RunLimitWith,
         RunAuthzWith, RunRewrite, RunFilter
<1>5. CASE ReadStorage \/ ConnectRefused \/ ConnectSingle \/ FinishSingle \/ Join
             \/ ProcessResult
  BY <1>1, <1>3, <1>5, Zenon
     DEF ReadStorage, ConnectRefused, ConnectSingle, FinishSingle, Join, ProcessResult
<1>6. CASE ConnectLeft \/ ConnectRight
  BY <1>1, <1>3, <1>6, Zenon DEF ConnectLeft, ConnectRight, ExecSide
<1>7. CASE UNCHANGED vars
  BY <1>1, <1>7 DEF vars
<1>8. QED
  BY <1>2, <1>4, <1>5, <1>6, <1>7 DEF Next, Done

(* The frames of a well-shaped stack are the ones that TypeOK names.       *)
LEMMA FramesAreTyped ==
  ASSUME Shape
  PROVE  /\ Len(stack) <= 2
         /\ \A i \in DOMAIN stack :
              LET ends == Len(config.procs[stack[i].pipe])
              IN  stack[i] \in
                    [pipe : Pipe, query : Query, next : 1 .. ends + 1,
                     phase : {"validate", "query", "single", "left", "right"}]
                    \cup [pipe : Pipe, query : Query, next : 0 .. ends, phase : {"result"}]
<1> DEFINE Typed(f) ==
             LET ends == Len(config.procs[f.pipe])
             IN  f \in [pipe : Pipe, query : Query, next : 1 .. ends + 1,
                        phase : {"validate", "query", "single", "left", "right"}]
                       \cup [pipe : Pipe, query : Query, next : 0 .. ends, phase : {"result"}]
<1>1. ASSUME NEW f \in Frame, InBounds(f) PROVE Typed(f)
  <2>1. /\ f.pipe \in Pipe /\ f.query \in Query /\ f.phase \in Phase /\ f.next \in Nat
        /\ f = [pipe |-> f.pipe, query |-> f.query, phase |-> f.phase, next |-> f.next]
    BY DEF Frame
  <2>2. Len(config.procs[f.pipe]) \in Nat
    BY <2>1, PipelineIsList DEF Shape
  <2>3. CASE f.phase = "result"
    BY <1>1, <2>1, <2>2, <2>3 DEF InBounds
  <2>4. CASE f.phase # "result"
    BY <1>1, <2>1, <2>2, <2>4 DEF InBounds, Phase, Calling
  <2>5. QED BY <2>3, <2>4
<1> HIDE DEF Typed
<1>2. CASE stack = <<>>
  BY <1>2
<1>3. CASE stack # <<>>
  <2>1. /\ Len(stack) \in {1, 2} /\ DOMAIN stack \subseteq {1, 2}
        /\ \A i \in DOMAIN stack : stack[i] = Top \/ stack[i] = stack[1]
    BY <1>3, TopOfStack
  <2>2. /\ Top \in Frame /\ InBounds(Top) /\ stack[1] \in Frame /\ InBounds(stack[1])
    BY <1>3, TopOfStack DEF Outer
  <2>3. \A i \in DOMAIN stack : Typed(stack[i])
    BY <1>1, <2>1, <2>2
  <2>4. QED BY <2>1, <2>3 DEF Typed
<1>4. QED BY <1>2, <1>3

(* The types of the state, and the nesting of the calls: the connector is  *)
(* entered once, from the front pipeline, whatever is configured and asked. *)
THEOREM TypeCorrect == Spec => []TypeOK
<1> DEFINE Typing == Shape /\ DataOK /\ answer \in Answers
<1>1. Init => Typing
  BY InitIsTyped DEF Init, Answers
<1>2. Typing /\ [Next]_vars => Typing'
  BY StepKeepsShape, StepKeepsData, StepKeepsAnswer
<1>3. Typing => TypeOK
  BY FramesAreTyped DEF DataOK, Answers, TypeOK, Fields, IsMatcher
<1>4. QED BY <1>1, <1>2, <1>3, PTL DEF Spec

--------------------------------------------------------------------------------
(* Enforcement.                                                            *)

Kept == DOMAIN seen = {"demands", "charges", "reads"}

(* A demand that its pipeline still has to weave: it is enforced on the    *)
(* query in hand, and a rewrite is ahead.                                  *)
Waiting(d) ==
  /\ stack # <<>> /\ Top.phase = "query" /\ Top.pipe = d.pipe /\ Top.query = d.query
  /\ d.matcher \in enforced[d.query]
  /\ \E j \in Top.next .. Len(config.procs[d.pipe]) :
       config.procs[d.pipe][j].kind = "rewrite"

Woven(d) == \A s \in Selects(d.query) : d.matcher \in filter[s]

DemandsHold ==
  \A d \in seen.demands : WovenLater(d) => Woven(d) \/ Waiting(d) \/ answer # "none"

(* No query is read before its last processor ran, and the left side of a  *)
(* join is read before the right side has any.                             *)
ReadsFollow ==
  /\ stack = <<>> /\ answer = "none" => seen.reads = {}
  /\ stack # <<>> /\ Top.phase \in {"validate", "query"} =>
       \A r \in seen.reads : Top.query = "rhs" /\ r.query = "lhs"
  /\ stack # <<>> /\ stack[1].phase = "left" => \A r \in seen.reads : r.query = "lhs"

(* Storage is told of every demand that is woven; a demand still waiting   *)
(* when the chain ends would be lost.                                      *)
LEMMA NoneWaitsAtTheEnd ==
  ASSUME Shape, AtEnd, NEW d
  PROVE  ~Waiting(d)
<1>1. Top.next = Len(Procs) + 1 /\ Len(Procs) \in Nat
  BY TopOfStack DEF AtEnd, Running, InBounds, Procs
<1>2. QED BY <1>1 DEF Waiting, Procs

(* A frame that is not processing the query has nothing waiting.           *)
LEMMA OnlyQueriesWait ==
  ASSUME NEW d, stack = <<>> \/ Top.phase # "query"
  PROVE  ~Waiting(d)
  BY DEF Waiting

(* A processor other than the rewrite registers matchers on the query.     *)
LEMMA RegisterKeepsDemands ==
  ASSUME Shape, DemandsHold, ReadsFollow, EnforcementReachesStorage,
         NEW kind, Processing(kind), kind # "rewrite", NextProc,
         NEW matchers, matchers \subseteq enforced'[Top.query],
         \A q \in Query : enforced[q] \subseteq enforced'[q],
         seen'.demands = seen.demands \cup Demanded(matchers),
         seen'.reads = seen.reads,
         UNCHANGED <<config, request, filter, answer>>
  PROVE  DemandsHold' /\ ReadsFollow' /\ EnforcementReachesStorage'
<1> DEFINE f == [Top EXCEPT !.next = Top.next + 1]
<1>1. /\ Top \in Frame /\ InBounds(Top) /\ stack # <<>> /\ answer = "none"
      /\ Top.phase = "query" /\ Top.next \in 1 .. Len(Procs) /\ Len(Procs) \in Nat
      /\ Procs[Top.next].kind = kind
  BY TopOfStack DEF Running, Processing, Proc
<1>2. Shape' /\ Moves(f)
  BY NextProcMoves
<1>3. /\ f.pipe = Top.pipe /\ f.query = Top.query /\ f.phase = "query"
      /\ f.next = Top.next + 1
  BY <1>1 DEF Frame
<1>4. Top' = f /\ stack' # <<>>
  BY <1>2 DEF Moves
<1> HIDE DEF f
<1>5. ASSUME NEW d, d.pipe = Top.pipe, d.query = Top.query,
             d.matcher \in enforced'[d.query],
             \E j \in Top.next .. Len(Procs) : Procs[j].kind = "rewrite"
      PROVE  Waiting(d)'
  <2>1. PICK j \in Top.next .. Len(Procs) : Procs[j].kind = "rewrite"
    BY <1>5
  <2>2. j \in Top.next + 1 .. Len(Procs)
    BY <1>1, <2>1
  <2>3. QED BY <1>3, <1>4, <1>5, <2>1, <2>2 DEF Waiting, Procs
<1>6. ASSUME NEW d \in seen.demands, WovenLater(d)
      PROVE  Woven(d)' \/ Waiting(d)'
  <2>1. Woven(d) \/ Waiting(d)
    BY <1>1, <1>6 DEF DemandsHold
  <2>2. CASE Woven(d)
    BY <2>2 DEF Woven, Selects, Plan
  <2>3. CASE Waiting(d)
    <3>1. d.matcher \in enforced'[d.query]
      BY <1>1, <2>3 DEF Waiting, Frame
    <3>2. QED BY <1>5, <2>3, <3>1 DEF Waiting, Procs
  <2>4. QED BY <2>1, <2>2, <2>3
<1>7. ASSUME NEW d \in Demanded(matchers), WovenLater(d)
      PROVE  Waiting(d)'
  <2>1. /\ d.pipe = Top.pipe /\ d.query = Top.query /\ d.at = Top.next
        /\ d.matcher \in matchers
    BY DEF Demanded
  <2>2. QED BY <1>5, <1>7, <2>1 DEF WovenLater, Procs
<1>8. DemandsHold'
  BY <1>6, <1>7 DEF DemandsHold, WovenLater
<1>9. ReadsFollow'
  <2>1. CASE Len(stack) = 1
    BY <1>1, <1>2, <1>3, <1>4, <2>1, TopOfStack DEF ReadsFollow, Moves
  <2>2. CASE Len(stack) = 2
    BY <1>1, <1>2, <1>3, <1>4, <2>2 DEF ReadsFollow, Moves
  <2>3. QED BY <1>1, <2>1, <2>2, TopOfStack
<1>10. EnforcementReachesStorage'
  <2>1. ASSUME NEW r \in seen.reads, NEW d \in Demanded(matchers)
        PROVE  d.query \notin {"client", r.query}
    BY <1>1 DEF ReadsFollow, Demanded
  <2>2. QED BY <2>1 DEF EnforcementReachesStorage, WovenLater
<1>11. QED BY <1>8, <1>9, <1>10

(* A step that leaves the history and the Selects alone, with nothing      *)
(* waiting or an error to answer.                                          *)
LEMMA IdleKeepsDemands ==
  ASSUME DemandsHold, EnforcementReachesStorage,
         (\A d : ~Waiting(d)) \/ answer' # "none",
         answer = "none" \/ UNCHANGED answer,
         UNCHANGED <<config, request, filter, seen>>
  PROVE  DemandsHold' /\ EnforcementReachesStorage'
<1>1. EnforcementReachesStorage'
  BY DEF EnforcementReachesStorage, WovenLater
<1>2. ASSUME NEW d \in seen.demands, WovenLater(d)
      PROVE  Woven(d)' \/ answer' # "none"
  <2>1. Woven(d) \/ Waiting(d) \/ answer # "none"
    BY <1>2 DEF DemandsHold
  <2>2. Woven(d) => Woven(d)'
    BY DEF Woven, Selects, Plan
  <2>3. QED BY <2>1, <2>2
<1>3. DemandsHold'
  BY <1>2 DEF DemandsHold, WovenLater
<1>4. QED BY <1>1, <1>3

(* A rewrite weaves what waits and what it adds. *)
LEMMA RewriteKeepsDemands ==
  ASSUME Shape, DemandsHold, ReadsFollow, EnforcementReachesStorage,
         Processing("rewrite"), NextProc, NEW own,
         filter' = Composed(Top.query, enforced[Top.query] \cup own),
         seen'.demands = seen.demands \cup Demanded(own), seen'.reads = seen.reads,
         UNCHANGED <<config, request, enforced, answer>>
  PROVE  DemandsHold' /\ ReadsFollow' /\ EnforcementReachesStorage'
<1> DEFINE f == [Top EXCEPT !.next = Top.next + 1]
<1>1. /\ Top \in Frame /\ stack # <<>> /\ answer = "none" /\ Top.phase = "query"
  BY TopOfStack DEF Running, Processing
<1>2. Shape' /\ Moves(f)
  BY NextProcMoves
<1>3. /\ f.query = Top.query /\ f.phase = "query" /\ Top' = f /\ stack' # <<>>
  BY <1>1, <1>2 DEF Frame, Moves
<1> HIDE DEF f
<1>4. \A s \in Select : filter[s] \subseteq filter'[s]
  BY DEF Composed
<1>5. ASSUME NEW s \in Selects(Top.query)
      PROVE  enforced[Top.query] \cup own \subseteq filter'[s]
  BY DEF Composed, Selects
<1>6. \A q : Selects(q)' = Selects(q) /\ Selects(q) \subseteq Select
  BY DEF Selects, Plan
<1>7. ASSUME NEW d \in seen.demands, WovenLater(d)
      PROVE  Woven(d)'
  <2>1. CASE Woven(d)
    BY <1>4, <1>6, <2>1 DEF Woven
  <2>2. CASE Waiting(d)
    BY <1>5, <1>6, <2>2 DEF Waiting, Woven
  <2>3. QED BY <1>1, <1>7, <2>1, <2>2 DEF DemandsHold
<1>8. ASSUME NEW d \in Demanded(own)
      PROVE  Woven(d)'
  <2>1. d.query = Top.query /\ d.matcher \in own
    BY DEF Demanded
  <2>2. QED BY <1>5, <1>6, <2>1 DEF Woven
<1>9. DemandsHold'
  BY <1>7, <1>8 DEF DemandsHold, WovenLater
<1>10. ReadsFollow'
  <2>1. CASE Len(stack) = 1
    BY <1>1, <1>2, <1>3, <2>1, TopOfStack DEF ReadsFollow, Moves
  <2>2. CASE Len(stack) = 2
    BY <1>1, <1>2, <1>3, <2>2 DEF ReadsFollow, Moves
  <2>3. QED BY <1>1, <2>1, <2>2, TopOfStack
<1>11. EnforcementReachesStorage'
  <2>1. ASSUME NEW r \in seen.reads, NEW d \in Demanded(own)
        PROVE  d.query \notin {"client", r.query}
    BY <1>1 DEF ReadsFollow, Demanded
  <2>2. QED BY <2>1 DEF EnforcementReachesStorage, WovenLater
<1>12. QED BY <1>9, <1>10, <1>11

(* Storage is read when nothing waits any more. *)
LEMMA ReadKeepsDemands ==
  ASSUME Shape, Kept, DemandsHold, ReadsFollow, EnforcementReachesStorage,
         ReadStorage, answer' = "none"
  PROVE  Kept' /\ DemandsHold' /\ ReadsFollow' /\ EnforcementReachesStorage'
<1>1. AtEnd /\ stack # <<>> /\ answer = "none" /\ Top.phase = "query"
  BY DEF ReadStorage, AtEnd, Running
<1> DEFINE read == [pipe |-> Top.pipe, query |-> Top.query, path |-> Path,
                     tenant |-> Tenant, subject |-> Subject,
                     selects |-> Selects(Top.query), filter |-> filter]
<1>2. /\ read.query = Top.query /\ read.selects = Selects(Top.query) /\ read.filter = filter
      /\ seen' = [seen EXCEPT !.reads = @ \cup {read}]
      /\ \E r : Respond(r)
      /\ UNCHANGED <<config, request, filter>>
  <2>1. \A code : code # "none" => ~Refuse(code)
    BY DEF Refuse
  <2>2. ~Refuse("InvalidArgument") /\ ~Refuse("Unavailable")
    BY <2>1
  <2>3. /\ seen' = [seen EXCEPT !.reads = @ \cup {read}]
        /\ \E r : Respond(r)
        /\ UNCHANGED <<config, request, filter>>
    BY <2>2, Zenon DEF ReadStorage
  <2>4. QED BY <2>3
<1> HIDE DEF read
<1>3. /\ seen'.reads = seen.reads \cup {read} /\ seen'.demands = seen.demands /\ Kept'
  BY <1>2 DEF Kept
<1> DEFINE f == [Top EXCEPT !.phase = "result", !.next = Len(Procs)]
<1>4. Shape' /\ Moves(f)
  BY <1>1, <1>2, RespondMoves
<1>5. /\ f.query = Top.query /\ f.phase = "result" /\ Top' = f /\ stack' # <<>>
  BY <1>1, <1>4, TopOfStack DEF Frame, Moves
<1> HIDE DEF f
<1>6. \A d \in seen.demands : WovenLater(d) => Woven(d)
  BY <1>1, NoneWaitsAtTheEnd DEF DemandsHold
<1>7. \A q : Selects(q)' = Selects(q) /\ Selects(q) \subseteq Selects("client")
  <2>1. \A q : Selects(q)' = Selects(q)
    BY <1>2 DEF Selects, Plan
  <2>2. \A q : Selects(q) \subseteq Selects("client")
    BY DEF Selects
  <2>3. QED BY <2>1, <2>2
<1>8. DemandsHold'
  BY <1>2, <1>3, <1>6, <1>7 DEF DemandsHold, WovenLater, Woven
<1>9. EnforcementReachesStorage'
  <2>1. ASSUME NEW d \in seen.demands, d.query \in {"client", read.query}, WovenLater(d),
               NEW s \in read.selects
        PROVE  d.matcher \in read.filter[s]
    BY <1>2, <1>6, <1>7, <2>1 DEF Woven
  <2>2. QED
    BY <1>2, <1>3, <2>1 DEF EnforcementReachesStorage, WovenLater
<1>10. ReadsFollow'
  <2>1. CASE Len(stack) = 1
    <3>1. stack'[1] = f /\ stack'[1] = Top'
      BY <1>4, <1>5, <2>1, TopOfStack DEF Moves, Top
    <3>2. QED BY <1>1, <1>5, <3>1 DEF ReadsFollow
  <2>2. CASE Len(stack) = 2
    <3>1. stack'[1] = stack[1]
      BY <1>4, <2>2 DEF Moves
    <3>2. stack[1].phase = "left" => Top.query = "lhs"
      BY <1>1, <2>2, TopOfStack DEF Inner, Callee
    <3>3. QED BY <1>1, <1>2, <1>3, <1>5, <3>1, <3>2 DEF ReadsFollow
  <2>3. QED BY <1>1, <2>1, <2>2, TopOfStack
<1>11. QED BY <1>3, <1>8, <1>9, <1>10

(* The steps of the way in that neither register nor weave anything.       *)
LEMMA ReceiveKeepsDemands ==
  ASSUME Shape, DemandsHold, ReadsFollow, EnforcementReachesStorage, Receive
  PROVE  DemandsHold' /\ ReadsFollow' /\ EnforcementReachesStorage'
<1>1. stack = <<>> /\ answer = "none" /\ answer' = "none"
      /\ UNCHANGED <<config, request, filter, seen>>
  BY DEF Receive
<1>2. \A d : ~Waiting(d)
  BY <1>1, OnlyQueriesWait
<1>3. seen'.reads = {} /\ stack' # <<>>
  BY <1>1 DEF ReadsFollow, Receive
<1>4. ReadsFollow'
  BY <1>3 DEF ReadsFollow
<1>5. QED BY <1>1, <1>2, <1>4, IdleKeepsDemands

(* An error leaves nothing to read. *)
LEMMA RefuseKeepsDemands ==
  ASSUME DemandsHold, EnforcementReachesStorage, answer = "none", NEW code, code # "none",
         Refuse(code)
  PROVE  DemandsHold' /\ ReadsFollow' /\ EnforcementReachesStorage'
<1>1. answer' # "none" /\ stack' = <<>> /\ UNCHANGED <<config, request, filter, seen>>
  BY DEF Refuse
<1>2. ReadsFollow'
  BY <1>1 DEF ReadsFollow
<1>3. QED BY <1>1, <1>2, IdleKeepsDemands

(* A move of the call on top that leaves the Selects and the history alone. *)
LEMMA MoveKeepsDemands ==
  ASSUME Shape, DemandsHold, ReadsFollow, EnforcementReachesStorage,
         NEW f, Moves(f), f.phase \notin Calling,
         f.phase \in {"validate", "query"} => Top.phase \in {"validate", "query"},
         \A d : ~Waiting(d),
         UNCHANGED <<config, request, filter, seen, answer>>
  PROVE  DemandsHold' /\ ReadsFollow' /\ EnforcementReachesStorage'
<1>1. answer = "none" /\ stack # <<>> /\ stack' # <<>> /\ Top' = f /\ f.query = Top.query
  BY TopOfStack DEF Moves
<1>2. DemandsHold' /\ EnforcementReachesStorage'
  BY IdleKeepsDemands
<1>3. CASE Len(stack) = 1
  <2>1. stack'[1] = Top'
    BY <1>1, <1>3 DEF Moves, Top
  <2>2. QED BY <1>1, <1>2, <2>1 DEF ReadsFollow, Calling
<1>4. CASE Len(stack) = 2
  BY <1>1, <1>2, <1>4 DEF ReadsFollow, Moves
<1>5. QED BY <1>1, <1>3, <1>4, TopOfStack

(* The connector passes the query on when nothing waits in the front.      *)
LEMMA NestKeepsDemands ==
  ASSUME Shape, DemandsHold, ReadsFollow, EnforcementReachesStorage,
         NEW s, NEW q, NEW phase, Nests(s, q, phase),
         \/ Top.phase = "query" /\ phase \in {"single", "left"}
         \/ Top.phase = "left" /\ phase = "right",
         \A d : ~Waiting(d),
         UNCHANGED <<config, request, filter, seen, answer>>
  PROVE  DemandsHold' /\ ReadsFollow' /\ EnforcementReachesStorage'
<1>1. /\ answer = "none" /\ stack # <<>> /\ stack' # <<>> /\ Top = stack[1]
      /\ stack'[1].phase = phase /\ Top'.query = q /\ Top'.phase = "validate"
      /\ Top.query = "client"
  BY TopOfStack DEF Nests, Outer, Frame, Top
<1>2. DemandsHold' /\ EnforcementReachesStorage'
  BY IdleKeepsDemands
<1>3. CASE Top.phase = "query"
  <2>1. seen.reads = {}
    BY <1>1, <1>3 DEF ReadsFollow
  <2>2. QED BY <1>2, <2>1 DEF ReadsFollow
<1>4. CASE Top.phase = "left" /\ phase = "right"
  <2>1. \A r \in seen.reads : r.query = "lhs"
    BY <1>1, <1>4 DEF ReadsFollow
  <2>2. q = "rhs"
    BY <1>4 DEF Nests, Callee
  <2>3. QED BY <1>1, <1>2, <1>4, <2>1, <2>2 DEF ReadsFollow
<1>5. QED BY <1>3, <1>4

Enforcement == Kept /\ DemandsHold /\ ReadsFollow /\ EnforcementReachesStorage

(* Each processor registers what it must, and no more.                     *)
LEMMA TenantKeepsDemands ==
  ASSUME Shape, DataOK, Enforcement, RunTenant, \A code : code # "none" => ~Refuse(code)
  PROVE  Enforcement'
<1>. PICK header : RunTenantWith(header)
  BY DEF RunTenant
<1>1. /\ Processing("tenant") /\ stack # <<>> /\ answer = "none" /\ Top.query \in Query
      /\ DOMAIN enforced = Query
  BY TopOfStack DEF RunTenantWith, Processing, Running, DataOK, Frame
<1>2. ~Refuse("Unauthenticated")
  OBVIOUS
<1>3. CASE /\ NextProc
           /\ UNCHANGED <<config, request, metadata, enforced, filter, left, result, answer, seen>>
  <2>1. Demanded({}) = {}
    BY DEF Demanded
  <2>2. QED BY <1>1, <1>3, <2>1, RegisterKeepsDemands DEF Enforcement, Kept
<1>4. CASE /\ NextProc
           /\ enforced' = [enforced EXCEPT ![Top.query] = @ \cup TenantMatchers(Proc, header)]
           /\ seen' = [seen EXCEPT !.demands = @ \cup Demanded(TenantMatchers(Proc, header))]
           /\ UNCHANGED <<config, request, filter, left, result, answer>>
  <2>1. PICK matchers :
           /\ enforced' = [enforced EXCEPT ![Top.query] = @ \cup matchers]
           /\ seen' = [seen EXCEPT !.demands = @ \cup Demanded(matchers)]
    BY <1>4
  <2>2. /\ seen'.demands = seen.demands \cup Demanded(matchers)
        /\ seen'.reads = seen.reads /\ Kept'
    BY <2>1 DEF Kept, Enforcement
  <2>3. matchers \subseteq enforced'[Top.query] /\ \A q \in Query : enforced[q] \subseteq enforced'[q]
    BY <1>1, <2>1
  <2>4. QED BY <1>1, <1>4, <2>2, <2>3, RegisterKeepsDemands DEF Enforcement
<1>5. QED BY <1>2, <1>3, <1>4, Zenon DEF RunTenantWith

(* The labels that a matching rule enforces are registered.                *)
LEMMA AuthzKeepsDemands ==
  ASSUME Shape, DataOK, Enforcement, RunAuthz, \A code : code # "none" => ~Refuse(code)
  PROVE  Enforcement'
<1>. PICK header : RunAuthzWith(header)
  BY DEF RunAuthz
<1>1. /\ Processing("authz") /\ stack # <<>> /\ answer = "none" /\ Top.query \in Query
      /\ DOMAIN enforced = Query
  BY TopOfStack DEF RunAuthzWith, Processing, Running, DataOK, Frame
<1>2. ~Refuse("PermissionDenied")
  OBVIOUS
<1>3. ASSUME NEW matchers, NextProc,
             enforced' = [enforced EXCEPT ![Top.query] = @ \cup matchers],
             seen' = [seen EXCEPT !.demands = @ \cup Demanded(matchers)],
             UNCHANGED <<config, request, filter, left, result, answer>>
      PROVE  Enforcement'
  <2>1. /\ seen'.demands = seen.demands \cup Demanded(matchers)
        /\ seen'.reads = seen.reads /\ Kept'
    BY <1>3 DEF Kept, Enforcement
  <2>2. matchers \subseteq enforced'[Top.query] /\ \A q \in Query : enforced[q] \subseteq enforced'[q]
    BY <1>1, <1>3
  <2>3. QED BY <1>1, <1>3, <2>1, <2>2, RegisterKeepsDemands DEF Enforcement
<1>4. QED BY <1>2, <1>3, Zenon DEF RunAuthzWith

(* A rate limit registers nothing.                                         *)
LEMMA LimitKeepsDemands ==
  ASSUME Shape, DataOK, Enforcement, RunLimit, \A code : code # "none" => ~Refuse(code)
  PROVE  Enforcement'
<1>1. ~Refuse("Unauthenticated") /\ ~Refuse("ResourceExhausted")
  OBVIOUS
<1>2. /\ Processing("limit") /\ NextProc
      /\ UNCHANGED <<config, request, query, filter, left, result, answer>>
      /\ seen' = IF Proc.limited
                 THEN [seen EXCEPT !.charges =
                         @ \cup {[pipe |-> Top.pipe, path |-> Path, at |-> Top.next,
                                  key |-> LimitKey(Proc, Tenant)]}]
                 ELSE seen
  BY <1>1, Zenon DEF RunLimit, RunLimitWith
<1>3. seen'.demands = seen.demands /\ seen'.reads = seen.reads /\ Kept'
  BY <1>2 DEF Enforcement, Kept
<1>4. Demanded({}) = {} /\ enforced' = enforced
  BY <1>2 DEF Demanded, query
<1>5. QED BY <1>2, <1>3, <1>4, RegisterKeepsDemands DEF Enforcement

(* A rewrite weaves what is registered, and its own labels, into every     *)
(* Select of the query.                                                    *)
LEMMA RewritingKeepsDemands ==
  ASSUME Shape, DataOK, Enforcement, RunRewrite, \A code : code # "none" => ~Refuse(code)
  PROVE  Enforcement'
<1>1. /\ Processing("rewrite") /\ stack # <<>> /\ answer = "none"
  BY DEF RunRewrite, Processing, Running
<1>2. ~Refuse("PermissionDenied")
  OBVIOUS
<1>3. CASE /\ ~Plan.given /\ NextProc
           /\ UNCHANGED <<config, request, query, filter, left, result, answer, seen>>
  <2>1. Demanded({}) = {}
    BY DEF Demanded
  <2>2. filter' = Composed(Top.query, enforced[Top.query] \cup {})
    <3>1. Selects(Top.query) = {} /\ DOMAIN filter = Select /\ filter' = filter
      BY <1>3 DEF Selects, DataOK
    <3>2. Composed(Top.query, enforced[Top.query] \cup {}) = [s \in Select |-> filter[s]]
      BY <3>1 DEF Composed
    <3>3. filter = [s \in Select |-> filter[s]]
      BY <3>1 DEF DataOK
    <3>4. QED BY <3>1, <3>2, <3>3
  <2>3. QED BY <1>1, <1>3, <2>1, <2>2, RewriteKeepsDemands DEF Enforcement, Kept, query
<1>4. CASE \E own : /\ NextProc
                    /\ filter' = Composed(Top.query, enforced[Top.query] \cup own)
                    /\ seen' = [seen EXCEPT !.demands = @ \cup Demanded(own)]
                    /\ UNCHANGED <<config, request, enforced, left, result, answer>>
  <2>1. PICK own : /\ NextProc
                   /\ filter' = Composed(Top.query, enforced[Top.query] \cup own)
                   /\ seen' = [seen EXCEPT !.demands = @ \cup Demanded(own)]
                   /\ UNCHANGED <<config, request, enforced, left, result, answer>>
    BY <1>4
  <2>2. /\ seen'.demands = seen.demands \cup Demanded(own)
        /\ seen'.reads = seen.reads /\ Kept'
    BY <2>1 DEF Kept, Enforcement
  <2>3. QED BY <1>1, <2>1, <2>2, RewriteKeepsDemands DEF Enforcement
<1>5. QED BY <1>2, <1>3, <1>4, Zenon DEF RunRewrite

(* No step loses a demand, or lets a read forget one.                      *)
LEMMA StepKeepsEnforcement ==
  ASSUME Shape, DataOK, Enforcement, [Next]_vars
  PROVE  Enforcement'
<1>1. CASE \E code : code # "none" /\ Refuse(code) /\ answer = "none"
  <2>1. UNCHANGED seen
    BY <1>1 DEF Refuse
  <2>2. QED BY <1>1, <2>1, RefuseKeepsDemands DEF Enforcement, Kept
<1>2. CASE UNCHANGED vars
  BY <1>2 DEF vars, query, Enforcement, Kept, DemandsHold, ReadsFollow, EnforcementReachesStorage,
              WovenLater, Woven, Waiting, Selects, Plan, Top
<1> SUFFICES ASSUME Next, ~UNCHANGED vars,
                    \A code : code # "none" /\ answer = "none" => ~Refuse(code)
             PROVE  Enforcement'
  BY <1>1, <1>2
<1> DEFINE Idle == UNCHANGED <<config, request, filter, seen, answer>>
<1>3. CASE Receive
  BY <1>3, ReceiveKeepsDemands DEF Receive, Enforcement, Kept
<1>4. answer = "none"
  BY <1>3, TopOfStack, Zenon
     DEF Next, Validate, RunTenant, RunLimit, RunAuthz, RunTenantWith, RunLimitWith,
         RunAuthzWith, RunRewrite, RunFilter, ReadStorage, ConnectRefused, ConnectSingle,
         FinishSingle, ConnectLeft, ConnectRight, Join, ProcessResult, Return, Done,
         Processing, AtEnd, Dispatching, Running, Receive
<1>5. \A code : code # "none" => ~Refuse(code)
  BY <1>4
<1>6. CASE RunTenant \/ RunLimit \/ RunAuthz \/ RunRewrite
  BY <1>5, <1>6, TenantKeepsDemands, LimitKeepsDemands, AuthzKeepsDemands, RewritingKeepsDemands
<1>7. CASE RunFilter
  <2>1. Demanded({}) = {}
    BY DEF Demanded
  <2>2. QED BY <1>7, <2>1, RegisterKeepsDemands DEF RunFilter, Enforcement, Kept, query
<1>8. CASE ReadStorage
  <2>1. answer' = "none"
    <3>1. ~Refuse("InvalidArgument") /\ ~Refuse("Unavailable")
      BY <1>5
    <3>2. QED BY <1>4, <1>8, <3>1, Zenon DEF ReadStorage
  <2>2. QED BY <1>8, <2>1, ReadKeepsDemands DEF Enforcement
<1>9. ASSUME NEW f, Moves(f), f.phase \notin Calling,
             f.phase \in {"validate", "query"} => Top.phase \in {"validate", "query"},
             Top.phase # "query", Idle
      PROVE  Enforcement'
  <2>1. \A d : ~Waiting(d)
    BY <1>9, OnlyQueriesWait
  <2>2. QED BY <1>9, <2>1, MoveKeepsDemands DEF Enforcement, Kept
<1>10. CASE Validate
  <2>1. ~Refuse("InvalidArgument")
    BY <1>5
  <2>2. /\ Running("validate") /\ Continue([Top EXCEPT !.phase = "query"]) /\ Idle
    BY <1>10, <2>1, Zenon DEF Validate
  <2>3. Moves([Top EXCEPT !.phase = "query"])
    BY <2>2, ValidateMoves
  <2>4. /\ Top.phase = "validate" /\ [Top EXCEPT !.phase = "query"].phase = "query"
    BY <2>2, TopOfStack DEF Running, Frame
  <2>5. QED BY <1>9, <2>2, <2>3, <2>4 DEF Calling
<1>11. CASE FinishSingle \/ Join
  <2>1. ~Refuse("InvalidArgument")
    BY <1>5
  <2>2. PICK r : Respond(r) /\ Idle /\ stack # <<>> /\ Top.phase \in {"single", "right"}
    BY <1>11, <2>1, Zenon DEF FinishSingle, Join, Running
  <2>3. Moves([Top EXCEPT !.phase = "result", !.next = Len(Procs)])
    BY <2>2, RespondMoves
  <2>4. [Top EXCEPT !.phase = "result", !.next = Len(Procs)].phase = "result"
    BY <2>2, TopOfStack DEF Frame
  <2>5. QED BY <1>9, <2>2, <2>3, <2>4 DEF Calling
<1>12. CASE ProcessResult
  <2>1. Moves([Top EXCEPT !.next = Top.next - 1]) /\ Idle
    BY <1>12, ProcessResultMoves DEF ProcessResult
  <2>2. Top.phase = "result" /\ [Top EXCEPT !.next = Top.next - 1].phase = "result"
    BY <1>12, TopOfStack DEF ProcessResult, Running, Frame
  <2>3. QED BY <1>9, <2>1, <2>2 DEF Calling
<1>13. CASE ConnectSingle
  <2>1. /\ AtEnd /\ Top.phase = "query" /\ Idle
        /\ \E s \in config.targets : Nests(s, "client", "single")
    BY <1>13, ConnectSingleNests DEF ConnectSingle, Dispatching, AtEnd, Running
  <2>2. QED BY <2>1, NoneWaitsAtTheEnd, NestKeepsDemands DEF Enforcement, Kept
<1>14. CASE ConnectLeft
  <2>1. /\ AtEnd /\ Top.phase = "query" /\ Idle
        /\ \E s \in config.targets : Nests(s, "lhs", "left")
    BY <1>14, ConnectLeftNests DEF ConnectLeft, Dispatching, AtEnd, Running
  <2>2. QED BY <2>1, NoneWaitsAtTheEnd, NestKeepsDemands DEF Enforcement, Kept
<1>15. CASE ConnectRight
  <2>1. /\ Top.phase = "left" /\ Idle
        /\ \E s \in config.targets : Nests(s, "rhs", "right")
    BY <1>5, <1>15, ConnectRightNests
  <2>2. QED BY <2>1, OnlyQueriesWait, NestKeepsDemands DEF Enforcement, Kept
<1>16. CASE Return
  <2>1. /\ UNCHANGED <<config, request, filter, seen>> /\ Top.phase = "result"
        /\ stack # <<>>
    BY <1>16 DEF Return, Running
  <2>2. DemandsHold' /\ EnforcementReachesStorage' /\ Kept'
    BY <1>4, <2>1, OnlyQueriesWait, IdleKeepsDemands DEF Enforcement, Kept
  <2>3. CASE Len(stack) = 1
    BY <1>16, <2>2, <2>3, ReturnKeepsShape DEF Enforcement, ReadsFollow
  <2>4. CASE Len(stack) = 2
    BY <1>16, <2>1, <2>2, <2>4, ReturnKeepsShape DEF Enforcement, ReadsFollow, Calling
  <2>5. QED BY <2>1, <2>3, <2>4, TopOfStack
<1>17. CASE ConnectRefused
  BY <1>5, <1>17 DEF ConnectRefused
<1>18. QED
  BY <1>3, <1>6, <1>7, <1>8, <1>10, <1>11, <1>12, <1>13, <1>14, <1>15, <1>16, <1>17, Zenon
     DEF Next, Done

(* What a processor demands of a query is in every Select that storage is  *)
(* asked for on behalf of the query or of a side of its join, where the    *)
(* demanding pipeline rewrites the query after it.                         *)
THEOREM EnforcementCorrect == Spec => []EnforcementReachesStorage
<1> DEFINE Inv == Shape /\ DataOK /\ Enforcement
<1>1. Init => Inv
  <2>1. Init => Shape /\ DataOK
    BY InitIsTyped
  <2>2. Init => Enforcement
    BY DEF Init, Enforcement, Kept, DemandsHold, ReadsFollow, EnforcementReachesStorage
  <2>3. QED BY <2>1, <2>2
<1>2. Inv /\ [Next]_vars => Inv'
  BY StepKeepsShape, StepKeepsData, StepKeepsEnforcement
<1>3. Inv => EnforcementReachesStorage
  BY DEF Enforcement
<1>4. QED BY <1>1, <1>2, <1>3, PTL DEF Spec

--------------------------------------------------------------------------------
(* What an answer shows.                                                   *)

(* A cell has a column, and comes from the storage of a signal.            *)
IsCell(c) ==
  /\ DOMAIN c = {"column", "value", "from"} /\ c.from \in Signal
  /\ c.column = Column(c.column.prefix, c.column.label)
IsResult(r) == DOMAIN r = {"table", "columns", "cells"} /\ \A c \in r.cells : IsCell(c)

HiddenBy(p, label, value) ==
  p.kind = "filter" /\ (label \in p.drop \/ (label \in p.mask /\ value # "masked"))

(* The processors of pipe after the first n ones hide the cell.            *)
HidesAfter(pipe, n, label, value) ==
  \E i \in n + 1 .. Len(config.procs[pipe]) : HiddenBy(config.procs[pipe][i], label, value)

(* Nothing in a result is hidden by the pipeline of its storage.           *)
Clean(r) == \A c \in r.cells : ~Hides(c.from, c.column.label, c.value)

(* A result that the processors of pipe after the first n have scrubbed.   *)
ScrubbedDownTo(pipe, n, r) ==
  /\ \A c \in r.cells :
       /\ c.from # pipe => ~Hides(c.from, c.column.label, c.value)
       /\ c.from = pipe => c.column.prefix = ""
       /\ c.column.prefix = "" => ~HidesAfter(pipe, n, c.column.label, c.value)
  /\ \A i \in n + 1 .. Len(config.procs[pipe]) :
       LET p == config.procs[pipe][i]
       IN  p.kind = "filter" => r.columns \cap {Plain(l) : l \in p.drop} = {}

ResultsAreScrubbed ==
  /\ stack # <<>> /\ stack[1].phase = "right" => Clean(left)
  /\ stack # <<>> /\ Top.phase \in Calling => Clean(result)
  /\ stack # <<>> /\ Top.phase = "result" => ScrubbedDownTo(Top.pipe, Top.next, result)

Scrubbing == IsResult(left) /\ IsResult(result) /\ ResultsAreScrubbed /\ AnswersAreScrubbed

(* What a pipeline hides is what its filters hide from the first on.       *)
LEMMA HidesAll ==
  ASSUME config \in Config, NEW pipe \in Pipe, NEW label, NEW value
  PROVE  Hides(pipe, label, value) <=> HidesAfter(pipe, 0, label, value)
<1>1. DOMAIN config.procs[pipe] = 1 .. Len(config.procs[pipe])
  BY PipelineIsList
<1>2. QED BY <1>1 DEF Hides, HidesAfter, HiddenBy

(* There is no number after the last.                                      *)
LEMMA NothingAfterTheLast ==
  ASSUME NEW n \in Nat
  PROVE  n + 1 .. n = {}
<1>1. \A i \in n + 1 .. n : n + 1 <= i /\ i <= n /\ i \in Int
  OBVIOUS
<1>2. QED BY <1>1

(* Nothing is scrubbed before the first processor of the way back.         *)
LEMMA NothingScrubbedYet ==
  ASSUME config \in Config, NEW pipe \in Pipe, NEW r,
         \A c \in r.cells :
            /\ c.from # pipe => ~Hides(c.from, c.column.label, c.value)
            /\ c.from = pipe => c.column.prefix = ""
  PROVE  ScrubbedDownTo(pipe, Len(config.procs[pipe]), r)
<1>1. Len(config.procs[pipe]) \in Nat
  BY PipelineIsList
<1>2. Len(config.procs[pipe]) + 1 .. Len(config.procs[pipe]) = {}
  BY <1>1, NothingAfterTheLast
<1>3. QED BY <1>2 DEF ScrubbedDownTo, HidesAfter

(* What all processors have scrubbed is clean. *)
LEMMA ScrubbedIsClean ==
  ASSUME config \in Config, NEW pipe \in Pipe, NEW r, ScrubbedDownTo(pipe, 0, r)
  PROVE  /\ Clean(r)
         /\ \A c \in r.cells : c.column.prefix = "" => ~Hides(pipe, c.column.label, c.value)
         /\ \A i \in DOMAIN config.procs[pipe] :
              LET p == config.procs[pipe][i]
              IN  p.kind = "filter" => r.columns \cap {Plain(l) : l \in p.drop} = {}
<1>1. DOMAIN config.procs[pipe] = 0 + 1 .. Len(config.procs[pipe])
  BY PipelineIsList
<1>2. \A c \in r.cells : c.column.prefix = "" => ~Hides(pipe, c.column.label, c.value)
  BY HidesAll DEF ScrubbedDownTo
<1>3. Clean(r)
  BY <1>2 DEF Clean, ScrubbedDownTo
<1>4. QED BY <1>1, <1>2, <1>3 DEF ScrubbedDownTo

(* A filter hides what it should, and unhides nothing. *)
LEMMA MaskingHides ==
  ASSUME NEW p, p.kind = "filter", NEW c, IsCell(c),
         c.column \notin {Plain(l) : l \in p.drop}
  PROVE  /\ IsCell(Masked(p, c)) /\ Masked(p, c).column = c.column /\ Masked(p, c).from = c.from
         /\ Masked(p, c).value \in {c.value, "masked"}
         /\ c.column.prefix = "" => ~HiddenBy(p, c.column.label, Masked(p, c).value)
<1>1. IsCell(Masked(p, c)) /\ Masked(p, c).column = c.column /\ Masked(p, c).from = c.from
  BY DEF Masked, IsCell
<1>2. Masked(p, c).value \in {c.value, "masked"}
  BY DEF Masked, IsCell
<1>3. ASSUME c.column.prefix = ""
      PROVE  ~HiddenBy(p, c.column.label, Masked(p, c).value)
  <2>1. c.column = Plain(c.column.label)
    BY <1>3 DEF IsCell, Plain
  <2>2. c.column.label \notin p.drop
    BY <2>1
  <2>3. c.column.label \in p.mask => Masked(p, c).value = "masked"
    <3>1. SUFFICES ASSUME c.column.label \in p.mask PROVE Masked(p, c).value = "masked"
      OBVIOUS
    <3>2. c.column \in {Plain(l) : l \in p.mask}
      BY <2>1, <3>1
    <3>3. QED BY <3>2 DEF Masked, IsCell
  <2>4. QED BY <2>2, <2>3 DEF HiddenBy
<1>4. QED BY <1>1, <1>2, <1>3

(* A mask is hidden only where its label is dropped.                       *)
LEMMA MaskedStaysHidden ==
  ASSUME NEW pipe, NEW n, NEW label, NEW value
  PROVE  /\ ~HidesAfter(pipe, n, label, value) => ~HidesAfter(pipe, n, label, "masked")
         /\ ~Hides(pipe, label, value) => ~Hides(pipe, label, "masked")
BY DEF HidesAfter, HiddenBy, Hides

(* A result that is scrubbed by the processors after the n-th is, after the*)
(* n-th, scrubbed by it as well.                                           *)
LEMMA ScrubbingOne ==
  ASSUME config \in Config, NEW pipe \in Pipe, NEW n \in 1 .. Len(config.procs[pipe]),
         NEW r, IsResult(r), ScrubbedDownTo(pipe, n, r),
         NEW p, p = config.procs[pipe][n], NEW s,
         s = IF p.kind = "filter" THEN Scrubbed(p, r) ELSE r
  PROVE  IsResult(s) /\ ScrubbedDownTo(pipe, n - 1, s)
<1> DEFINE ends == Len(config.procs[pipe])
<1>1. /\ ends \in Nat /\ n \in Nat
      /\ \A i \in (n - 1) + 1 .. ends : i = n \/ i \in n + 1 .. ends
  BY PipelineIsList
<1>2. ASSUME NEW label, NEW value, ~HidesAfter(pipe, n, label, value), ~HiddenBy(p, label, value)
      PROVE  ~HidesAfter(pipe, n - 1, label, value)
  BY <1>1, <1>2 DEF HidesAfter
<1>3. CASE p.kind # "filter"
  BY <1>1, <1>2, <1>3 DEF ScrubbedDownTo, HiddenBy
<1>4. CASE p.kind = "filter"
  <2> DEFINE dropped == {Plain(l) : l \in p.drop}
  <2>1. /\ DOMAIN s = {"table", "columns", "cells"}
        /\ s.columns = r.columns \ dropped
        /\ s.cells = {Masked(p, c) : c \in {d \in r.cells : d.column \notin dropped}}
    BY <1>4 DEF Scrubbed, IsResult
  <2>2. ASSUME NEW d \in s.cells
        PROVE  /\ IsCell(d)
               /\ d.from # pipe => ~Hides(d.from, d.column.label, d.value)
               /\ d.from = pipe => d.column.prefix = ""
               /\ d.column.prefix = "" => ~HidesAfter(pipe, n - 1, d.column.label, d.value)
    <3>1. PICK c \in r.cells : c.column \notin dropped /\ d = Masked(p, c)
      BY <2>1
    <3>2. /\ IsCell(d) /\ d.column = c.column /\ d.from = c.from /\ d.value \in {c.value, "masked"}
          /\ c.column.prefix = "" => ~HiddenBy(p, c.column.label, d.value)
      BY <1>4, <3>1, MaskingHides, ZenonT(60) DEF IsResult
    <3>3. /\ c.from # pipe => ~Hides(c.from, c.column.label, c.value)
          /\ c.from = pipe => c.column.prefix = ""
          /\ c.column.prefix = "" => ~HidesAfter(pipe, n, c.column.label, c.value)
      BY DEF ScrubbedDownTo
    <3>4. QED BY <1>2, <3>2, <3>3, MaskedStaysHidden
  <2>3. ASSUME NEW i \in (n - 1) + 1 .. ends, config.procs[pipe][i].kind = "filter"
        PROVE  s.columns \cap {Plain(l) : l \in config.procs[pipe][i].drop} = {}
    BY <1>1, <2>1, <2>3 DEF ScrubbedDownTo
  <2>4. IsResult(s)
    BY <2>1, <2>2 DEF IsResult
  <2>5. QED BY <2>2, <2>3, <2>4 DEF ScrubbedDownTo
<1>5. QED BY <1>3, <1>4

(* A join takes cells over, at most under another column.                  *)
LEMMA JoinedCells ==
  ASSUME IsResult(left), IsResult(result), Clean(left), Clean(result),
         NEW r, DOMAIN r = {"table", "columns", "cells"},
         \A c \in r.cells :
            \/ c \in left.cells
            \/ \E d \in result.cells : c = [d EXCEPT !.column = Renamed(d.column)]
  PROVE  IsResult(r) /\ Clean(r)
<1>1. ASSUME NEW d, IsCell(d), NEW c, c = [d EXCEPT !.column = Renamed(d.column)]
      PROVE  IsCell(c) /\ c.from = d.from /\ c.value = d.value /\ c.column.label = d.column.label
  <2>1. DOMAIN c = DOMAIN d /\ c.from = d.from /\ c.value = d.value /\ c.column = Renamed(d.column)
    BY <1>1 DEF IsCell
  <2>2. Renamed(d.column).label = d.column.label
        /\ Renamed(d.column) = Column(Renamed(d.column).prefix, Renamed(d.column).label)
    BY <1>1 DEF Renamed, Column, IsCell
  <2>3. QED BY <1>1, <2>1, <2>2 DEF IsCell
<1>2. ASSUME NEW c \in r.cells
      PROVE  IsCell(c) /\ ~Hides(c.from, c.column.label, c.value)
  BY <1>1 DEF IsResult, Clean
<1>3. QED BY <1>2 DEF IsResult, Clean

(* Whatever does not touch the results, and starts no way back.            *)
LEMMA OnwardKeepsScrubbing ==
  ASSUME Scrubbing, answer = "none", answer' # "data", UNCHANGED <<config, request, left, result>>,
         stack' # <<>> => Top'.phase \notin Calling \cup {"result"},
         stack' # <<>> /\ stack'[1].phase = "right" => stack # <<>> /\ stack[1].phase = "right"
  PROVE  Scrubbing'
<1>1. IsResult(left)' /\ IsResult(result)' /\ (Clean(left) => Clean(left)')
  BY DEF Scrubbing, IsResult, IsCell, Clean, Hides
<1>2. ResultsAreScrubbed'
  BY <1>1 DEF Scrubbing, ResultsAreScrubbed
<1>3. AnswersAreScrubbed'
  BY DEF AnswersAreScrubbed
<1>4. QED BY <1>1, <1>2, <1>3 DEF Scrubbing

(* The call on top has a result, and turns back.                           *)
LEMMA RespondKeepsScrubbing ==
  ASSUME Shape, Scrubbing, stack # <<>>, NEW r, IsResult(r), Respond(r),
         \A c \in r.cells :
            /\ c.from # Top.pipe => ~Hides(c.from, c.column.label, c.value)
            /\ c.from = Top.pipe => c.column.prefix = "",
         UNCHANGED <<config, request, left, answer>>
  PROVE  Scrubbing'
<1>1. PICK f, n : f = [Top EXCEPT !.phase = "result", !.next = Len(Procs)] /\ n = Len(Procs)
  OBVIOUS
<1>2. Shape' /\ Moves(f) /\ result' = r
  BY <1>1, RespondMoves
<1>3. /\ f.pipe = Top.pipe /\ f.phase = "result" /\ f.next = n /\ Top' = f /\ stack' # <<>>
      /\ answer = "none" /\ Top.pipe \in Pipe /\ config \in Config
      /\ n = Len(config.procs[Top.pipe])
  BY <1>1, <1>2, TopOfStack DEF Frame, Moves, Procs, Shape
<1>4. ScrubbedDownTo(Top.pipe, n, r)
  BY <1>3, NothingScrubbedYet
<1>5. ScrubbedDownTo(Top.pipe, Top.next, result)'
  BY <1>2, <1>3, <1>4 DEF ScrubbedDownTo, Hides, HidesAfter
<1>6. Clean(left)' = Clean(left) /\ IsResult(left)' /\ IsResult(result)'
  BY <1>2 DEF Clean, Hides, Scrubbing, IsResult
<1>7. stack'[1].phase = "right" => stack[1].phase = "right"
  <2>1. CASE Len(stack) = 1
    BY <1>2, <1>3, <2>1 DEF Moves, Top
  <2>2. CASE Len(stack) = 2
    BY <1>2, <2>2 DEF Moves
  <2>3. QED BY <2>1, <2>2, TopOfStack
<1>8. QED
  BY <1>3, <1>5, <1>6, <1>7 DEF Scrubbing, ResultsAreScrubbed, AnswersAreScrubbed, Calling

(* A processor of the way back scrubs its share.                           *)
LEMMA ProcessKeepsScrubbing ==
  ASSUME Shape, Scrubbing, ProcessResult
  PROVE  Scrubbing'
<1>1. PICK f, n, pipe : /\ f = [Top EXCEPT !.next = Top.next - 1] /\ n = Top.next
                        /\ pipe = Top.pipe
  OBVIOUS
<1>2. Shape' /\ Moves(f) /\ UNCHANGED <<config, request, left, answer>>
  BY <1>1, ProcessResultMoves DEF ProcessResult
<1>3. /\ f.pipe = pipe /\ f.phase = "result" /\ f.next = n - 1 /\ Top' = f /\ stack' # <<>>
      /\ answer = "none" /\ pipe \in Pipe /\ config \in Config /\ Top.phase = "result"
      /\ stack # <<>> /\ n \in 1 .. Len(config.procs[pipe]) /\ Proc = config.procs[pipe][n]
  BY <1>1, <1>2, TopOfStack
     DEF Frame, Moves, Procs, Proc, Shape, ProcessResult, Running, InBounds
<1>4. PICK p : p = config.procs[pipe][n]
  OBVIOUS
<1>5. /\ IsResult(result) /\ ScrubbedDownTo(pipe, n, result)
      /\ result' = IF p.kind = "filter" THEN Scrubbed(p, result) ELSE result
  BY <1>1, <1>3, <1>4 DEF Scrubbing, ResultsAreScrubbed, ProcessResult
<1>6. PICK s : s = result'
  OBVIOUS
<1>7. IsResult(s) /\ ScrubbedDownTo(pipe, n - 1, s)
  BY <1>3, <1>4, <1>5, <1>6, ScrubbingOne
<1>8. ScrubbedDownTo(Top.pipe, Top.next, result)'
  BY <1>2, <1>3, <1>6, <1>7 DEF ScrubbedDownTo, Hides, HidesAfter
<1>9. Clean(left)' = Clean(left) /\ IsResult(left)' /\ IsResult(result)'
  BY <1>2, <1>6, <1>7 DEF Clean, Hides, Scrubbing, IsResult
<1>10. stack'[1].phase = "right" => stack[1].phase = "right"
  <2>1. CASE Len(stack) = 1
    BY <1>2, <1>3, <2>1 DEF Moves, Top
  <2>2. CASE Len(stack) = 2
    BY <1>2, <2>2 DEF Moves
  <2>3. QED BY <1>3, <2>1, <2>2, TopOfStack
<1>11. QED
  BY <1>2, <1>3, <1>8, <1>9, <1>10 DEF Scrubbing, ResultsAreScrubbed, AnswersAreScrubbed, Calling

(* A result that all processors of its pipeline have seen is clean.        *)
LEMMA ReturnKeepsScrubbing ==
  ASSUME Shape, Scrubbing, Return
  PROVE  Scrubbing'
<1>1. /\ stack # <<>> /\ answer = "none" /\ UNCHANGED <<config, request, left, result>>
      /\ Top.phase = "result" /\ Top.next = 0
  BY DEF Return, Running
<1>2. PICK pipe \in Pipe : pipe = Top.pipe
  BY <1>1, TopOfStack DEF Frame
<1>3. config \in Config /\ ScrubbedDownTo(pipe, 0, result)
  BY <1>1, <1>2 DEF Shape, Scrubbing, ResultsAreScrubbed
<1>4. PICK r : r = result
  OBVIOUS
<1>5. /\ Clean(result)
      /\ \A c \in r.cells : c.column.prefix = "" => ~Hides(pipe, c.column.label, c.value)
      /\ \A i \in DOMAIN config.procs[pipe] :
           LET p == config.procs[pipe][i]
           IN  p.kind = "filter" => r.columns \cap {Plain(l) : l \in p.drop} = {}
  BY <1>3, <1>4, ScrubbedIsClean
<1>6. /\ Clean(left)' = Clean(left) /\ Clean(result)' = Clean(result)
      /\ IsResult(left)' /\ IsResult(result)'
  BY <1>1 DEF Clean, Hides, Scrubbing, IsResult
<1>7. CASE Len(stack) = 1
  <2>1. stack' = <<>>
    BY <1>7, ReturnKeepsShape
  <2>2. pipe = config.entry
    BY <1>1, <1>2, <1>7, TopOfStack DEF Outer
  <2>3. AnswersAreScrubbed'
    BY <1>1, <1>4, <1>5, <2>2, ZenonT(60) DEF AnswersAreScrubbed, Clean, Hides
  <2>4. QED BY <1>6, <2>1, <2>3 DEF Scrubbing, ResultsAreScrubbed
<1>8. CASE Len(stack) = 2
  <2>1. /\ stack'[1] = stack[1] /\ Top' = stack[1] /\ stack[1].phase \in Calling
        /\ answer' = "none"
    BY <1>8, ReturnKeepsShape
  <2>2. QED
    BY <1>1, <1>5, <1>6, <2>1 DEF Scrubbing, ResultsAreScrubbed, AnswersAreScrubbed, Calling
<1>9. QED BY <1>1, <1>7, <1>8, TopOfStack

(* What storage answers is scrubbed by nobody yet, and shows no pipeline's *)
(* cells but its own.                                                      *)
LEMMA ReadKeepsScrubbing ==
  ASSUME Shape, Scrubbing, ReadStorage, ~Refuse("InvalidArgument"), ~Refuse("Unavailable")
  PROVE  Scrubbing'
<1>1. PICK pipe : pipe = Top.pipe
  OBVIOUS
<1>2. /\ stack # <<>> /\ pipe \in Signal /\ UNCHANGED <<config, request, left, answer>>
      /\ \E found \in SUBSET Label :
           Respond([table |-> FALSE, columns |-> {Plain(l) : l \in found},
                    cells |-> {[column |-> Plain(l), value |-> "raw", from |-> pipe] :
                                 l \in found}])
  BY <1>1, Zenon DEF ReadStorage, AtEnd, Running
<1>3. PICK found \in SUBSET Label :
        Respond([table |-> FALSE, columns |-> {Plain(l) : l \in found},
                 cells |-> {[column |-> Plain(l), value |-> "raw", from |-> pipe] : l \in found}])
  BY <1>2
<1>4. PICK r : r = [table |-> FALSE, columns |-> {Plain(l) : l \in found},
                    cells |-> {[column |-> Plain(l), value |-> "raw", from |-> pipe] :
                                 l \in found}]
  OBVIOUS
<1>5. ASSUME NEW c \in r.cells
      PROVE  IsCell(c) /\ c.from = pipe /\ c.column.prefix = ""
  <2>1. PICK l : c = [column |-> Plain(l), value |-> "raw", from |-> pipe]
    BY <1>4
  <2>2. Plain(l) = [prefix |-> "", label |-> l]
    BY DEF Plain, Column
  <2>3. /\ DOMAIN c = {"column", "value", "from"} /\ c.from = pipe
        /\ c.column = [prefix |-> "", label |-> l]
    BY <2>1, <2>2
  <2>4. c.column.prefix = "" /\ c.column.label = l
    <3>1. [prefix |-> "", label |-> l].prefix = "" /\ [prefix |-> "", label |-> l].label = l
      OBVIOUS
    <3>2. QED BY <2>3, <3>1, Zenon
  <2>5. QED BY <1>2, <2>3, <2>4 DEF IsCell, Column
<1>6. IsResult(r)
  BY <1>4, <1>5 DEF IsResult
<1>7. QED BY <1>1, <1>2, <1>3, <1>4, <1>5, <1>6, RespondKeepsScrubbing

(* What the connector answers is clean, and comes from no front. *)
LEMMA ConnectorKeepsScrubbing ==
  ASSUME Shape, Scrubbing, stack # <<>>, Top.pipe = "front", NEW r, Respond(r),
         IsResult(r), Clean(r), UNCHANGED <<config, request, left, answer>>
  PROVE  Scrubbing'
<1>1. \A c \in r.cells : c.from # "front" /\ ~Hides(c.from, c.column.label, c.value)
  BY NamesAssumption DEF IsResult, IsCell, Clean
<1>2. QED BY <1>1, RespondKeepsScrubbing

(* The connector passes a single answer on as its pipeline scrubbed it.    *)
LEMMA SingleKeepsScrubbing ==
  ASSUME Shape, Scrubbing, FinishSingle
  PROVE  Scrubbing'
<1>1. /\ stack # <<>> /\ Top.phase = "single" /\ Respond(result)
      /\ UNCHANGED <<config, request, left, answer>>
  BY DEF FinishSingle, Running
<1>2. Top.pipe = "front" /\ Clean(result) /\ IsResult(result)
  BY <1>1, TopOfStack DEF Outer, Calling, Scrubbing, ResultsAreScrubbed
<1>3. PICK r : r = result
  OBVIOUS
<1>4. Respond(r) /\ IsResult(r) /\ Clean(r)
  BY <1>1, <1>2, <1>3
<1>5. QED BY <1>1, <1>2, <1>4, ConnectorKeepsScrubbing

(* A join only merges cells that both sides' pipelines have scrubbed.      *)
LEMMA JoinKeepsScrubbing ==
  ASSUME Shape, Scrubbing, Join, ~Refuse("InvalidArgument")
  PROVE  Scrubbing'
<1>1. /\ Running("right") /\ UNCHANGED <<config, request, left, answer>>
      /\ \E matched \in BOOLEAN :
           Respond(IF Plan.op = "and"
                   THEN IF matched THEN Merged ELSE [Merged EXCEPT !.cells = {}]
                   ELSE [table |-> TRUE, columns |-> left.columns,
                         cells |-> IF matched THEN {} ELSE left.cells])
  BY Zenon DEF Join
<1>2. /\ stack # <<>> /\ Top.pipe = "front" /\ Clean(result) /\ Clean(left)
      /\ IsResult(result) /\ IsResult(left)
  <2>1. stack # <<>> /\ Top.phase = "right"
    BY <1>1 DEF Running
  <2>2. Top.pipe = "front" /\ stack[1] = Top
    BY <2>1, TopOfStack DEF Outer, Calling, Top
  <2>3. QED BY <2>1, <2>2 DEF Scrubbing, ResultsAreScrubbed, Calling
<1>3. PICK r : Respond(r) /\ \E matched \in BOOLEAN :
                 r = IF Plan.op = "and"
                     THEN IF matched THEN Merged ELSE [Merged EXCEPT !.cells = {}]
                     ELSE [table |-> TRUE, columns |-> left.columns,
                           cells |-> IF matched THEN {} ELSE left.cells]
  BY <1>1
<1>4. /\ DOMAIN r = {"table", "columns", "cells"}
      /\ \A c \in r.cells :
            \/ c \in left.cells
            \/ \E d \in result.cells : c = [d EXCEPT !.column = Renamed(d.column)]
  BY <1>3 DEF Merged
<1>5. IsResult(r) /\ Clean(r)
  BY <1>2, <1>4, JoinedCells
<1>6. QED BY <1>1, <1>2, <1>3, <1>5, ConnectorKeepsScrubbing

(* A call of the connector keeps the left answer scrubbed.                 *)
LEMMA NestKeepsScrubbing ==
  ASSUME Shape, Scrubbing, NEW s, NEW q, NEW phase, Nests(s, q, phase), answer = "none",
         UNCHANGED <<config, request, result, answer>>,
         \/ phase # "right" /\ UNCHANGED left
         \/ Top.phase = "left" /\ left' = result
  PROVE  Scrubbing'
<1>1. /\ stack # <<>> /\ stack' # <<>> /\ Top'.phase = "validate" /\ stack'[1].phase = phase
  BY TopOfStack DEF Nests, Frame, Outer
<1>2. CASE phase # "right" /\ UNCHANGED left
  BY <1>1, <1>2, OnwardKeepsScrubbing DEF Calling
<1>3. CASE Top.phase = "left" /\ left' = result
  <2>1. Clean(result) /\ IsResult(result)
    BY <1>1, <1>3 DEF Scrubbing, ResultsAreScrubbed, Calling
  <2>2. Clean(left)' /\ IsResult(left)' /\ IsResult(result)'
    BY <1>3, <2>1 DEF Clean, Hides, IsResult
  <2>3. QED BY <1>1, <2>2 DEF Scrubbing, ResultsAreScrubbed, AnswersAreScrubbed, Calling
<1>4. QED BY <1>2, <1>3

(* A call moves on along the way in. *)
LEMMA MoveKeepsScrubbing ==
  ASSUME Shape, Scrubbing, NEW f, Moves(f), f.phase = "query",
         UNCHANGED <<config, request, left, result, answer>>
  PROVE  Scrubbing'
<1>1. answer = "none" /\ stack # <<>> /\ Top' = f
  BY TopOfStack DEF Moves
<1>2. stack'[1].phase = "right" => stack[1].phase = "right"
  <2>1. CASE Len(stack) = 1
    BY <1>1, <2>1 DEF Moves, Top
  <2>2. CASE Len(stack) = 2
    BY <2>2 DEF Moves
  <2>3. QED BY <1>1, <2>1, <2>2, TopOfStack
<1>3. QED BY <1>1, <1>2, OnwardKeepsScrubbing DEF Calling

(* No step shows what a filter that has run hides.                         *)
LEMMA StepKeepsScrubbing ==
  ASSUME Shape, Scrubbing, [Next]_vars
  PROVE  Scrubbing'
<1>1. CASE \E code : code \notin {"none", "data"} /\ Refuse(code)
  <2>1. /\ stack' = <<>> /\ answer' # "data" /\ UNCHANGED <<config, request, left, result>>
    BY <1>1 DEF Refuse
  <2>2. QED BY <2>1 DEF Scrubbing, ResultsAreScrubbed, AnswersAreScrubbed, IsResult
<1>2. CASE UNCHANGED vars
  <2>1. UNCHANGED <<config, request, stack, left, result, answer>> /\ Top' = Top
    BY <1>2 DEF vars, Top
  <2>2. Clean(left)' = Clean(left) /\ Clean(result)' = Clean(result)
    BY <2>1 DEF Clean, Hides
  <2>3. ScrubbedDownTo(Top.pipe, Top.next, result)' = ScrubbedDownTo(Top.pipe, Top.next, result)
    BY <2>1 DEF ScrubbedDownTo, Hides, HidesAfter
  <2>4. AnswersAreScrubbed'
    BY <2>1, ZenonT(60) DEF Scrubbing, AnswersAreScrubbed, Hides
  <2>5. QED BY <2>1, <2>2, <2>3, <2>4 DEF Scrubbing, ResultsAreScrubbed, IsResult
<1> SUFFICES ASSUME Next, ~UNCHANGED vars, \A code : code \notin {"none", "data"} => ~Refuse(code)
             PROVE  Scrubbing'
  BY <1>1, <1>2
<1>3. /\ ~Refuse("Unauthenticated") /\ ~Refuse("PermissionDenied") /\ ~Refuse("InvalidArgument")
      /\ ~Refuse("ResourceExhausted") /\ ~Refuse("Unavailable")
  OBVIOUS
<1>4. CASE Receive
  <2>1. /\ answer = "none" /\ UNCHANGED <<config, request, left, result, answer>>
        /\ stack' # <<>> /\ Top'.phase = "validate" /\ stack'[1].phase = "validate"
    BY <1>4 DEF Receive, Top
  <2>2. QED BY <2>1, OnwardKeepsScrubbing DEF Calling
<1>5. CASE Validate
  <2>1. /\ Running("validate") /\ Continue([Top EXCEPT !.phase = "query"])
        /\ UNCHANGED <<config, request, left, result, answer>>
    BY <1>3, <1>5, Zenon DEF Validate
  <2>2. Moves([Top EXCEPT !.phase = "query"]) /\ [Top EXCEPT !.phase = "query"].phase = "query"
    BY <2>1, ValidateMoves, TopOfStack DEF Running, Frame
  <2>3. QED BY <2>1, <2>2, MoveKeepsScrubbing
<1>6. CASE RunTenant \/ RunLimit \/ RunAuthz \/ RunRewrite \/ RunFilter
  <2>1. \E kind : /\ Processing(kind) /\ NextProc
                  /\ UNCHANGED <<config, request, left, result, answer>>
    BY <1>3, <1>6, Zenon
       DEF RunTenant, RunLimit, RunAuthz, RunTenantWith, RunLimitWith, RunAuthzWith, RunRewrite,
           RunFilter
  <2>2. /\ Moves([Top EXCEPT !.next = Top.next + 1])
        /\ [Top EXCEPT !.next = Top.next + 1].phase = "query"
    BY <2>1, NextProcMoves, TopOfStack DEF Processing, Running, Frame
  <2>3. QED BY <2>1, <2>2, MoveKeepsScrubbing
<1>7. CASE ReadStorage \/ FinishSingle \/ Join \/ ProcessResult \/ Return
  BY <1>3, <1>7, ReadKeepsScrubbing, SingleKeepsScrubbing, JoinKeepsScrubbing,
     ProcessKeepsScrubbing, ReturnKeepsScrubbing
<1>8. CASE ConnectSingle
  <2>1. PICK s : Nests(s, "client", "single")
    BY <1>8, ConnectSingleNests
  <2>2. answer = "none" /\ UNCHANGED <<config, request, left, result, answer>>
    BY <1>8, <2>1, ConnectSingleNests, TopOfStack DEF Nests
  <2>3. QED BY <2>1, <2>2, NestKeepsScrubbing
<1>9. CASE ConnectLeft
  <2>1. PICK s : Nests(s, "lhs", "left")
    BY <1>9, ConnectLeftNests
  <2>2. answer = "none" /\ UNCHANGED <<config, request, left, result, answer>>
    BY <1>9, <2>1, ConnectLeftNests, TopOfStack DEF Nests
  <2>3. QED BY <2>1, <2>2, NestKeepsScrubbing
<1>10. CASE ConnectRight
  BY <1>3, <1>10, ConnectRightNests, NestKeepsScrubbing, TopOfStack DEF Nests
<1>11. CASE ConnectRefused
  BY <1>3, <1>11 DEF ConnectRefused
<1>12. QED
  BY <1>4, <1>5, <1>6, <1>7, <1>8, <1>9, <1>10, <1>11, Zenon DEF Next, Done

(* An answer shows nothing that the filters on its way back hide, and      *)
(* declares no column that they drop.                                      *)
THEOREM ScrubbingCorrect == Spec => []AnswersAreScrubbed
<1> DEFINE Inv == Shape /\ Scrubbing
<1>1. Init => Inv
  BY DEF Init, Shape, Scrubbing, IsResult, NoResult, ResultsAreScrubbed, AnswersAreScrubbed
<1>2. Inv /\ [Next]_vars => Inv'
  BY StepKeepsShape, StepKeepsScrubbing
<1>3. Inv => AnswersAreScrubbed
  BY DEF Scrubbing
<1>4. QED BY <1>1, <1>2, <1>3, PTL DEF Spec

--------------------------------------------------------------------------------
(***************************************************************************)
(* Whose tenant storage is read for and limits are charged to, and which   *)
(* gates a read has passed.                                                *)
(***************************************************************************)

(* The chain of processors on a query's way.                               *)

Chained(pipe) == pipe # "front" /\ config.entry = "front"
ChainOf(pipe) ==
  IF Chained(pipe) THEN config.procs["front"] \o config.procs[pipe] ELSE config.procs[pipe]
Offset(pipe) == IF Chained(pipe) THEN Len(config.procs["front"]) ELSE 0

(* How many processors of its chain a call on the way in has passed.       *)
Passed(f) ==
  Offset(f.pipe) + IF f.phase \in {"validate", "query"} THEN f.next - 1
                                                        ELSE Len(config.procs[f.pipe])

(* A chain is the pipeline's processors after the ones of the front, if    *)
(* the query came through it.                                              *)
LEMMA ChainIsConcat ==
  ASSUME config \in Config, NEW pipe \in Pipe
  PROVE  /\ Offset(pipe) \in Nat
         /\ Len(ChainOf(pipe)) = Offset(pipe) + Len(config.procs[pipe])
         /\ DOMAIN ChainOf(pipe) = 1 .. Len(ChainOf(pipe))
         /\ \A i \in 1 .. Len(config.procs[pipe]) :
              ChainOf(pipe)[Offset(pipe) + i] = config.procs[pipe][i]
         /\ Chained(pipe) =>
              \A i \in 1 .. Len(config.procs["front"]) :
                ChainOf(pipe)[i] = config.procs["front"][i]
<1>1. "front" \in Pipe
  BY DEF Pipe
<1>2. CASE ~Chained(pipe)
  BY <1>2, PipelineIsList DEF ChainOf, Offset
<1>3. CASE Chained(pipe)
  <2>1. PICK a, A : a = config.procs["front"] /\ a \in Seq(A) /\ Len(a) \in Nat
    BY <1>1, PipelineIsList
  <2>2. PICK b, B : b = config.procs[pipe] /\ b \in Seq(B) /\ Len(b) \in Nat
    BY PipelineIsList
  <2>3. a \in Seq(A \cup B) /\ b \in Seq(A \cup B)
    BY <2>1, <2>2
  <2>4. /\ a \o b \in Seq(A \cup B)
        /\ Len(a \o b) = Len(a) + Len(b)
        /\ \A i \in 1 .. Len(a) + Len(b) :
             (a \o b)[i] = IF i <= Len(a) THEN a[i] ELSE b[i - Len(a)]
    BY <2>3, ConcatProperties
  <2>5. DOMAIN (a \o b) = 1 .. Len(a \o b)
    BY <2>4, LenProperties
  <2>6. /\ \A i \in 1 .. Len(b) : (a \o b)[Len(a) + i] = b[i]
        /\ \A i \in 1 .. Len(a) : (a \o b)[i] = a[i]
    <3>1. \A m, n \in Nat :
            /\ \A i \in 1 .. n : m + i \in 1 .. m + n /\ ~(m + i <= m) /\ (m + i) - m = i
            /\ \A i \in 1 .. m : i \in 1 .. m + n /\ i <= m
      OBVIOUS
    <3>2. Len(a) \in Nat /\ Len(b) \in Nat
      BY <2>1, <2>2
    <3>3. QED BY <2>4, <3>1, <3>2, Zenon
  <2>8. ChainOf(pipe) = a \o b /\ Offset(pipe) = Len(a)
    BY <1>3, <2>1, <2>2 DEF ChainOf, Offset
  <2>9. QED BY <2>1, <2>2, <2>4, <2>5, <2>6, <2>8
<1>4. QED BY <1>2, <1>3

--------------------------------------------------------------------------------
(* The tenant that a prefix of a chain resolves.                           *)

(* A tenant processor decides for itself, and any other changes nothing.   *)
LEMMA TenantAfterTenant ==
  ASSUME NEW c, NEW n \in Nat, c[n + 1].kind = "tenant"
  PROVE  TenantAfter(c, n + 1) = ResolvedTenant(c[n + 1], Header)
<1> DEFINE R == {i \in 1 .. n + 1 : c[i].kind = "tenant"}
           last == CHOOSE i \in R : \A j \in R : j <= i
<1>1. n + 1 \in R /\ \A j \in R : j <= n + 1 /\ j \in Int
  OBVIOUS
<1>2. last \in R /\ \A j \in R : j <= last
  BY <1>1
<1>3. last = n + 1
  BY <1>1, <1>2
<1>4. TenantAfter(c, n + 1) = ResolvedTenant(c[last], Header)
  BY <1>1 DEF TenantAfter
<1> HIDE DEF last
<1>5. QED BY <1>3, <1>4

(* A processor of another kind leaves the tenant as it is.                 *)
LEMMA TenantAfterOther ==
  ASSUME NEW c, NEW n \in Nat, c[n + 1].kind # "tenant"
  PROVE  TenantAfter(c, n + 1) = TenantAfter(c, n)
<1>1. {i \in 1 .. n + 1 : c[i].kind = "tenant"} = {i \in 1 .. n : c[i].kind = "tenant"}
  OBVIOUS
<1> DEFINE LastOf(R) == CHOOSE i \in R : \A j \in R : j <= i
           Of(R) == IF R = {} THEN None ELSE ResolvedTenant(c[LastOf(R)], Header)
<1>2. \A m : TenantAfter(c, m) = Of({i \in 1 .. m : c[i].kind = "tenant"})
  BY Zenon DEF TenantAfter
<1> HIDE DEF Of
<1>3. QED BY <1>1, <1>2

(* Before the first processor there is no tenant.                          *)
LEMMA TenantAfterNone ==
  ASSUME NEW c
  PROVE  TenantAfter(c, 0) = None
BY DEF TenantAfter

(* Only the processors of the prefix have a say. *)
LEMMA TenantAfterPrefix ==
  ASSUME NEW n \in Nat, NEW c, NEW d, \A i \in 1 .. n : c[i] = d[i]
  PROVE  TenantAfter(c, n) = TenantAfter(d, n)
<1> DEFINE R == {i \in 1 .. n : c[i].kind = "tenant"}
           last == CHOOSE i \in R : \A j \in R : j <= i
<1>1. R = {i \in 1 .. n : d[i].kind = "tenant"}
  OBVIOUS
<1>2. CASE R = {}
  BY <1>1, <1>2 DEF TenantAfter
<1>3. CASE R # {}
  <2>1. \E m \in R : \A j \in R : j <= m
    <3>1. R \in SUBSET (0 .. n)
      OBVIOUS
    <3> HIDE DEF R
    <3>2. QED BY <1>3, <3>1, LargestOf
  <2>2. last \in R
    BY <2>1
  <2>3. TenantAfter(c, n) = ResolvedTenant(c[last], Header)
    BY <1>3 DEF TenantAfter
  <2>4. TenantAfter(d, n) = ResolvedTenant(d[last], Header)
    BY <1>1, <1>3 DEF TenantAfter
  <2>5. c[last] = d[last]
    BY <2>2
  <2>6. QED BY <2>3, <2>4, <2>5
<1>4. QED BY <1>2, <1>3

(* Whoever the rules allow they do not forbid. *)
LEMMA AllowedIsNotForbidden ==
  ASSUME NEW p, IsList(p.rules), NEW subject, Allows(p, subject)
  PROVE  ~Forbids(p, subject)
<1> DEFINE Names(i) == p.rules[i].subjects = {} \/ subject \in p.rules[i].subjects
<1>1. DOMAIN p.rules = 1 .. Len(p.rules) /\ Len(p.rules) \in Nat
  BY LenProperties DEF IsList
<1>2. Matching(p, subject) = {i \in DOMAIN p.rules : Names(i)}
  BY DEF Matching
<1>3. CASE Matching(p, subject) = {}
  BY <1>2, <1>3 DEF Allows, Forbids
<1>4. CASE Matching(p, subject) # {}
  <2>1. PICK i \in DOMAIN p.rules : Decides(p, subject, i) /\ p.rules[i].allow
    BY <1>4 DEF Allows
  <2>2. ASSUME NEW k \in DOMAIN p.rules, Names(k), \A j \in 1 .. k - 1 : ~Names(j)
        PROVE  k = i
    <3>1. Names(i) /\ i <= k
      BY <1>2, <2>1, <2>2 DEF Decides
    <3>2. QED BY <1>1, <2>2, <3>1
  <2>3. QED BY <1>2, <1>4, <2>1, <2>2 DEF Forbids
<1>5. QED BY <1>3, <1>4

--------------------------------------------------------------------------------
(* The maps of metadata.                                                   *)

(* A query's metadata is its own map or the client's.                      *)
OwnOrClients ==
  /\ metadata["client"] \in {None, "client"}
  /\ \A q \in {"lhs", "rhs"} :
       \/ metadata[q] \in {None, q}
       \/ metadata[q] = "client" /\ metadata["client"] = "client"

(* What is written to the metadata of q is read from the metadata of r.    *)
Shares(q, r) == r = q \/ (metadata[q] # None /\ metadata[r] = metadata[q])

(* Nothing but the query in hand and those that share its map see a write. *)
LEMMA SetMapWrites ==
  ASSUME DataOK, OwnOrClients, NEW q \in Query, NEW m, SetMap(q, m)
  PROVE  /\ OwnOrClients'
         /\ q # "client" => metadata'["client"] = metadata["client"]
         /\ \A r \in Query : MapOf(r)' = IF Shares(q, r) THEN m ELSE MapOf(r)
<1>1. None \notin Query /\ Query = {"client", "lhs", "rhs"}
  BY NamesAssumption DEF Query
<1>2. /\ metadata \in [Query -> Query \cup {None}] /\ DOMAIN map = Query
      /\ metadata["client"] \in {None, "client"}
      /\ \A r \in {"lhs", "rhs"} :
            \/ metadata[r] \in {None, r}
            \/ metadata[r] = "client" /\ metadata["client"] = "client"
  BY DEF DataOK, OwnOrClients
<1>3. CASE metadata[q] = None
  <2>1. metadata' = [metadata EXCEPT ![q] = q] /\ map' = [map EXCEPT ![q] = m]
    BY <1>3 DEF SetMap
  <2>2. \A r \in Query : r # q => metadata[r] # q
    BY <1>1, <1>2, <1>3
  <2>3. OwnOrClients' /\ (q # "client" => metadata'["client"] = metadata["client"])
    BY <1>1, <1>2, <1>3, <2>1 DEF OwnOrClients
  <2>4. \A r \in Query : MapOf(r)' = IF r = q THEN m ELSE MapOf(r)
    BY <1>1, <1>2, <1>3, <2>1, <2>2 DEF MapOf
  <2>5. QED BY <1>3, <2>3, <2>4 DEF Shares
<1>4. CASE metadata[q] # None
  <2>1. metadata' = metadata /\ map' = [map EXCEPT ![metadata[q]] = m] /\ metadata[q] \in Query
    BY <1>2, <1>4 DEF SetMap
  <2>2. \A r \in Query : MapOf(r)' = IF metadata[r] = metadata[q] THEN m ELSE MapOf(r)
    BY <1>1, <1>2, <1>4, <2>1 DEF MapOf
  <2>3. OwnOrClients'
    BY <2>1 DEF OwnOrClients
  <2>4. QED BY <1>4, <2>1, <2>2, <2>3 DEF Shares
<1>5. QED BY <1>3, <1>4

(* The tenants of the queries when q's becomes id.                         *)
Writes(q, id) ==
  /\ OwnOrClients'
  /\ q # "client" => metadata'["client"] = metadata["client"]
  /\ \A r \in Query :
       MapOf(r).tenant' = IF Shares(q, r) THEN id ELSE MapOf(r).tenant

(* Setting the tenant of a query sets it for every query that shares its   *)
(* map.                                                                    *)
LEMMA SettingTenantWrites ==
  ASSUME DataOK, OwnOrClients, NEW q \in Query, NEW id,
         SetMap(q, [MapOf(q) EXCEPT !.tenant = id])
  PROVE  Writes(q, id)
<1>1. [MapOf(q) EXCEPT !.tenant = id].tenant = id
  BY MapOfFields DEF Fields
<1>2. QED BY <1>1, SetMapWrites DEF Writes

(* Setting another field leaves the tenant alone.                          *)
LEMMA SettingOtherWrites ==
  ASSUME DataOK, OwnOrClients, NEW q \in Query, NEW m, m.tenant = MapOf(q).tenant,
         SetMap(q, m)
  PROVE  Writes(q, MapOf(q).tenant)
BY SetMapWrites DEF Writes

(* So does a step that writes no map.                                      *)
LEMMA SettingNothingWrites ==
  ASSUME DataOK, OwnOrClients, NEW q \in Query, UNCHANGED <<metadata, map>>
  PROVE  Writes(q, MapOf(q).tenant)
<1>1. OwnOrClients' /\ \A r \in Query : MapOf(r)' = MapOf(r)
  BY DEF OwnOrClients, MapOf
<1>2. \A r \in Query : Shares(q, r) => MapOf(r) = MapOf(q)
  BY DEF Shares, MapOf
<1>3. QED BY <1>1, <1>2 DEF Writes

(* Deleting the tenant of a query deletes it for every query that shares   *)
(* its map.                                                                *)
LEMMA ForgettingTenantWrites ==
  ASSUME DataOK, OwnOrClients, NEW q \in Query, UNCHANGED metadata,
         map' = IF metadata[q] = None THEN map ELSE [map EXCEPT ![metadata[q]].tenant = None]
  PROVE  Writes(q, None)
<1>1. CASE metadata[q] = None
  <2>1. MapOf(q).tenant = None
    BY <1>1 DEF MapOf, NoMap
  <2>2. QED BY <1>1, <2>1, SettingNothingWrites
<1>2. CASE metadata[q] # None
  <2>1. SetMap(q, [MapOf(q) EXCEPT !.tenant = None])
    BY <1>2 DEF SetMap, MapOf, DataOK
  <2>2. QED BY <2>1, SettingTenantWrites
<1>3. QED BY <1>1, <1>2

--------------------------------------------------------------------------------
(* The invariant.                                                          *)

(* The front pipeline resolves no tenant and enforces nothing, so that its *)
(* queries have no metadata.                                               *)
Quiet ==
  \A i \in DOMAIN config.procs["front"] :
    config.procs["front"][i].kind \in {"limit", "filter"}

(* The plan is one that the connector splits: a join of two sides. *)
Splits == Plan.op \in {"and", "unless"}

FrontsTenant == TenantAfter(config.procs["front"], Len(config.procs["front"]))

(* Where a query is split, no pipeline behind the front resolves another   *)
(* tenant than the front.  Without this the two sides of a join, which     *)
(* share the metadata of their parent, would see each other's tenant.      *)
TenantsAgree ==
  config.entry = "front" /\ Splits =>
    \/ Quiet
    \/ \A s \in config.targets : \A i \in DOMAIN config.procs[s] :
         LET p == config.procs[s][i]
         IN  p.kind = "tenant" /\ ~TenantRefuses(p, Header) =>
               ResolvedTenant(p, Header) = FrontsTenant

(* A call that is on its way in, or that may yet start one.                *)
Inbound(f) == f.phase \in {"validate", "query", "left"}

(* Its query has the tenant of the processors it has passed, all of which  *)
(* let it through.                                                         *)
Resolved(f) == MapOf(f.query).tenant = TenantAfter(ChainOf(f.pipe), Passed(f))
Opened(f) ==
  \A j \in 1 .. Passed(f) : Opens(ChainOf(f.pipe)[j], TenantAfter(ChainOf(f.pipe), j - 1))
Reached(f) == Inbound(f) => Resolved(f) /\ Opened(f)

References ==
  /\ OwnOrClients
  /\ stack = <<>> /\ answer = "none" => \A q \in {"lhs", "rhs"} : metadata[q] = None
  /\ config.entry = "front" /\ Quiet /\ stack # <<>> /\ Inbound(stack[1]) =>
       metadata["client"] = None
  /\ stack # <<>> /\ stack[1].phase = "left" => Splits

TenantsResolve ==
  TenantsAgree => References /\ (stack # <<>> => Reached(stack[1]) /\ Reached(Top))

(* What depends on the configuration and the transport alone.              *)
LEMMA ChainsStay ==
  ASSUME UNCHANGED <<config, request>>
  PROVE  /\ TenantsAgree' = TenantsAgree /\ Quiet' = Quiet /\ FrontsTenant' = FrontsTenant
         /\ Splits' = Splits
         /\ \A c, n : TenantAfter(c, n)' = TenantAfter(c, n)
         /\ \A p, t : Opens(p, t)' = Opens(p, t)
         /\ \A f : Passed(f)' = Passed(f)
         /\ \A s : ChainOf(s)' = ChainOf(s) /\ Offset(s)' = Offset(s)
         /\ \A s, path : Chain(s, path)' = Chain(s, path)
         /\ \A s, path, i : Place(s, path, i)' = Place(s, path, i)
<1>1. \A c, n : TenantAfter(c, n)' = TenantAfter(c, n)
  BY DEF TenantAfter, Header
<1>2. FrontsTenant' = FrontsTenant /\ Quiet' = Quiet /\ Splits' = Splits
  BY <1>1 DEF FrontsTenant, Quiet, Splits, Plan
<1>3. TenantsAgree' = TenantsAgree
  BY <1>2 DEF TenantsAgree, Header
<1>4. \A p, t : Opens(p, t)' = Opens(p, t)
  BY DEF Opens, Header
<1>5. \A f : Passed(f)' = Passed(f)
  BY DEF Passed, Offset, Chained
<1>6. \A s : ChainOf(s)' = ChainOf(s) /\ Offset(s)' = Offset(s)
  BY DEF ChainOf, Offset, Chained
<1>7. \A s, path : Chain(s, path)' = Chain(s, path)
  BY DEF Chain
<1>8. \A s, path, i : Place(s, path, i)' = Place(s, path, i)
  BY <1>7 DEF Place
<1>9. QED BY <1>1, <1>2, <1>3, <1>4, <1>5, <1>6, <1>7, <1>8

(* A call that neither moved nor had its tenant changed.                   *)
LEMMA StaysReached ==
  ASSUME UNCHANGED <<config, request>>, NEW f, NEW g,
         Inbound(g) => Reached(f) /\ Inbound(f),
         g.pipe = f.pipe, Inbound(g) => Passed(g) = Passed(f),
         Inbound(g) => MapOf(g.query).tenant' = MapOf(f.query).tenant
  PROVE  Reached(g)'
<1> SUFFICES ASSUME Inbound(g)
             PROVE  Resolved(g)' /\ Opened(g)'
  BY DEF Reached, Inbound
<1>1. Resolved(f) /\ Opened(f) /\ Passed(g)' = Passed(f) /\ ChainOf(g.pipe)' = ChainOf(f.pipe)
  BY ChainsStay DEF Reached
<1>2. Resolved(g)'
  BY <1>1, ChainsStay DEF Resolved
<1>3. Opened(g)'
  BY <1>1, ChainsStay DEF Opened
<1>4. QED BY <1>2, <1>3

(* A processor lets the query pass, and leaves it with the tenant id.      *)
LEMMA ProcessorReaches ==
  ASSUME Shape, DataOK, TenantsAgree, TenantsResolve,
         NEW kind, Processing(kind), NextProc, UNCHANGED <<config, request, answer>>,
         NEW id, Writes(Top.query, id), Opens(Proc, Tenant),
         \/ Proc.kind = "tenant" /\ id = ResolvedTenant(Proc, Header)
         \/ Proc.kind # "tenant" /\ id = Tenant,
         Proc.kind \in {"limit", "filter"} => UNCHANGED metadata
  PROVE  TenantsResolve'
<1>1. PICK t, f : t = Top /\ f = [Top EXCEPT !.next = Top.next + 1]
  OBVIOUS
<1>2. /\ t \in Frame /\ stack # <<>> /\ answer = "none" /\ t.phase = "query"
      /\ t.next \in 1 .. Len(config.procs[t.pipe]) /\ Len(config.procs[t.pipe]) \in Nat
      /\ Proc = config.procs[t.pipe][t.next] /\ Tenant = MapOf(t.query).tenant
      /\ config \in Config
  BY <1>1, TopOfStack DEF Running, Processing, Proc, Procs, Tenant, Shape
<1>3. Shape' /\ Moves(f)
  BY <1>1, NextProcMoves
<1>4. /\ f.pipe = t.pipe /\ f.query = t.query /\ f.phase = "query" /\ f.next = t.next + 1
      /\ Top' = f /\ stack' # <<>> /\ t.query \in Query /\ t.pipe \in Pipe
      /\ t.next \in Nat
  BY <1>1, <1>2, <1>3 DEF Frame, Moves
<1>5. Reached(t) /\ Reached(stack[1]) /\ References
  BY <1>1, <1>2 DEF TenantsResolve
<1>6. /\ Inbound(t) /\ Inbound(f) /\ Passed(t) \in Nat /\ Passed(f) = Passed(t) + 1
      /\ ChainOf(t.pipe)[Passed(t) + 1] = Proc
  <2>1. /\ Offset(t.pipe) \in Nat /\ Offset(t.pipe) = Offset(f.pipe)
        /\ ChainOf(t.pipe)[Offset(t.pipe) + t.next] = config.procs[t.pipe][t.next]
    BY <1>2, <1>4, ChainIsConcat
  <2>2. /\ Passed(t) = Offset(t.pipe) + (t.next - 1)
        /\ Passed(f) = Offset(f.pipe) + ((t.next + 1) - 1)
    BY <1>2, <1>4 DEF Passed
  <2>3. Passed(t) \in Nat /\ Passed(t) + 1 = Offset(t.pipe) + t.next /\ Passed(f) = Passed(t) + 1
    BY <1>2, <1>4, <2>1, <2>2
  <2>4. QED BY <1>2, <1>4, <2>1, <2>3 DEF Inbound
<1>7. MapOf(t.query).tenant = TenantAfter(ChainOf(t.pipe), Passed(t)) /\ Opened(t)
  BY <1>5, <1>6 DEF Reached, Resolved
<1>8. id = TenantAfter(ChainOf(t.pipe), Passed(t) + 1)
  BY <1>2, <1>6, <1>7, TenantAfterTenant, TenantAfterOther
<1>9. Reached(f)'
  <2>1. MapOf(f.query).tenant' = id
    BY <1>1, <1>4 DEF Writes, Shares
  <2>2. Resolved(f)'
    BY <1>4, <1>6, <1>8, <2>1, ChainsStay DEF Resolved
  <2>3. \A j \in 1 .. Passed(f) : Opens(ChainOf(f.pipe)[j], TenantAfter(ChainOf(f.pipe), j - 1))
    <3>1. ASSUME NEW j \in 1 .. Passed(f), j # Passed(t) + 1
          PROVE  Opens(ChainOf(f.pipe)[j], TenantAfter(ChainOf(f.pipe), j - 1))
      <4>1. j \in 1 .. Passed(t)
        BY <1>6, <3>1
      <4>2. QED BY <1>4, <1>7, <4>1 DEF Opened
    <3>2. Opens(ChainOf(f.pipe)[Passed(t) + 1],
                TenantAfter(ChainOf(f.pipe), (Passed(t) + 1) - 1))
      <4>1. (Passed(t) + 1) - 1 = Passed(t)
        BY <1>6
      <4>2. QED BY <1>2, <1>4, <1>6, <1>7, <4>1
    <3>3. QED BY <3>1, <3>2
  <2>4. Opened(f)'
    BY <2>3, ChainsStay DEF Opened
  <2>5. QED BY <2>2, <2>4 DEF Reached
<1>10. /\ Reached(stack[1])' /\ References'
  <2>1. CASE Len(stack) = 1
    <3>1. stack'[1] = f /\ Top \in Outer /\ t.query = "client" /\ stack[1] = t
      BY <1>1, <1>2, <1>3, <1>4, <2>1, TopOfStack DEF Moves, Top, Outer
    <3>2. ASSUME config.entry = "front", Quiet
          PROVE  metadata'["client"] = None
      <4>1. t.pipe = "front"
        BY <1>1, <3>1, <3>2 DEF Outer
      <4>2. DOMAIN config.procs["front"] = 1 .. Len(config.procs["front"])
        BY <1>2, <1>4, <4>1, PipelineIsList
      <4>3. Proc.kind \in {"limit", "filter"}
        BY <1>2, <3>2, <4>1, <4>2 DEF Quiet
      <4>4. metadata["client"] = None
        BY <1>2, <1>5, <1>6, <3>1, <3>2 DEF References
      <4>5. QED BY <4>3, <4>4
    <3>3. References'
      BY <1>4, <3>1, <3>2, ChainsStay DEF References, Writes
    <3>4. QED BY <1>9, <3>1, <3>3
  <2>2. CASE Len(stack) = 2
    <3>1. PICK e : /\ e = stack[1] /\ stack'[1] = e /\ e.query = "client" /\ e.pipe = "front"
                   /\ e.phase \in Calling /\ config.entry = "front"
                   /\ t.pipe \in config.targets /\ t.query = Callee(e.phase)
      BY <1>1, <1>2, <1>3, <2>2, TopOfStack DEF Moves, Outer, Inner
    <3>2. ASSUME Inbound(e)
          PROVE  /\ MapOf(e.query).tenant' = MapOf(e.query).tenant
                 /\ metadata'["client"] = metadata["client"]
      <4>1. e.phase = "left" /\ t.query = "lhs"
        BY <3>1, <3>2 DEF Inbound, Calling, Callee
      <4>2. metadata'["client"] = metadata["client"]
        BY <1>1, <4>1 DEF Writes
      <4>3. CASE ~Shares("lhs", "client")
        BY <1>1, <3>1, <4>1, <4>2, <4>3 DEF Writes, Query
      <4>4. CASE Shares("lhs", "client")
        <5>1. metadata["client"] = "client" /\ MapOf("client") = MapOf("lhs")
          BY <1>5, <4>4, NamesAssumption DEF Shares, References, OwnOrClients, MapOf
        <5>2. ~Quiet
          BY <1>2, <1>5, <3>1, <3>2, <5>1, NamesAssumption DEF References, Query
        <5>3. CASE Proc.kind # "tenant"
          BY <1>1, <1>2, <3>1, <4>1, <4>2, <4>4, <5>1, <5>3 DEF Writes, Query
        <5>4. CASE Proc.kind = "tenant"
          <6>1. DOMAIN config.procs[t.pipe] = 1 .. Len(config.procs[t.pipe])
            BY <1>2, <1>4, PipelineIsList
          <6>2. ~TenantRefuses(Proc, Header)
            BY <5>4 DEF Opens
          <6>3. id = FrontsTenant
            BY <1>2, <1>5, <3>1, <4>1, <5>2, <5>4, <6>1, <6>2
            DEF TenantsAgree, References
          <6>4. MapOf(e.query).tenant = FrontsTenant
            <7>1. Passed(e) = Len(config.procs["front"]) /\ ChainOf("front") = config.procs["front"]
              <8>1. Offset("front") = 0 /\ Len(config.procs["front"]) \in Nat
                BY <1>2, PipelineIsList DEF Offset, Chained, Pipe
              <8>2. QED BY <3>1, <4>1, <8>1 DEF Passed, ChainOf, Chained
            <7>2. QED BY <1>5, <3>1, <3>2, <7>1 DEF Reached, Resolved, FrontsTenant
          <6>5. QED BY <1>1, <3>1, <4>1, <4>2, <4>4, <6>3, <6>4 DEF Writes, Query
        <5>5. QED BY <5>3, <5>4
      <4>5. QED BY <4>3, <4>4
    <3>3. Reached(e)'
      BY <1>5, <3>1, <3>2, StaysReached
    <3>4. References'
      BY <1>2, <1>4, <1>5, <3>1, <3>2, ChainsStay DEF References, Writes, Inbound
    <3>5. QED BY <3>1, <3>3, <3>4
  <2>3. QED BY <1>2, <2>1, <2>2, TopOfStack
<1>11. QED BY <1>4, <1>9, <1>10 DEF TenantsResolve

(* The processors that change no metadata. *)
LEMMA PassingReaches ==
  ASSUME Shape, DataOK, TenantsAgree, TenantsResolve,
         NEW kind, Processing(kind), NextProc, UNCHANGED <<config, request, metadata, map, answer>>,
         Opens(Proc, Tenant), kind # "tenant"
  PROVE  TenantsResolve'
<1>1. Top.query \in Query /\ OwnOrClients /\ Proc.kind = kind /\ Tenant = MapOf(Top.query).tenant
  BY TopOfStack DEF Frame, TenantsResolve, References, Processing, Running, Tenant
<1>2. PICK q \in Query : q = Top.query
  BY <1>1
<1>3. Writes(q, MapOf(q).tenant)
  BY <1>1, SettingNothingWrites
<1>4. QED BY <1>1, <1>2, <1>3, ProcessorReaches

(* What a processor may find under a name, once the acceptor has put the   *)
(* headers of the transport in: what the transport says, whatever the      *)
(* message said.                                                           *)
Ingressed == stack # <<>> => headers = Transport

LEMMA TransportIsFound ==
  ASSUME Shape, Ingressed, stack # <<>>, NEW header \in Lookups
  PROVE  header = Header
<1>1. headers = Transport /\ Header = [n \in HeaderName |-> Header[n]]
  BY RequestAssumption DEF Ingressed, Shape, Header
<1>2. ASSUME NEW n \in HeaderName PROVE Found(n) = {Header[n]}
  <2> DEFINE key == [name |-> n, spelling |-> "transport"]
             spelled == {k \in DOMAIN headers : k.name = n}
             given == {m \in HeaderName : Header[m] # None}
  <2>1. /\ DOMAIN headers = {[name |-> m, spelling |-> "transport"] : m \in given}
        /\ \A k \in DOMAIN headers : headers[k] = Header[k.name]
    BY <1>1 DEF Transport, Header
  <2>2. CASE Header[n] = None
    <3>1. spelled = {}
      BY <2>1, <2>2
    <3>2. QED BY <2>2, <3>1 DEF Found
  <2>3. CASE Header[n] # None
    <3>1. spelled = {key}
      BY <2>1, <2>3
    <3>2. headers[key] = Header[n]
      BY <2>1, <3>1
    <3>3. QED BY <3>1, <3>2, Zenon DEF Found
  <2>4. QED BY <2>2, <2>3
<1>3. /\ header = [n \in HeaderName |-> header[n]]
      /\ \A n \in HeaderName : header[n] \in Found(n)
  BY DEF Lookups
<1>4. \A n \in HeaderName : header[n] = Header[n]
  BY <1>2, <1>3
<1>5. QED BY <1>1, <1>3, <1>4

(* Only the acceptor touches the headers. *)
LEMMA StepKeepsIngressed ==
  ASSUME Shape, Ingressed, [Next]_vars
  PROVE  Ingressed'
<1>1. CASE Receive
  <2>1. Injected([key \in {} |-> None]) = Transport
    <3>1. Injected([key \in {} |-> None]) = [key \in DOMAIN Transport |-> Transport[key]]
      BY DEF Injected
    <3>2. QED BY <3>1 DEF Transport
  <2>2. Transport' = Transport
    BY <1>1 DEF Receive, Transport
  <2>3. QED BY <1>1, <2>1, <2>2 DEF Receive, Ingressed
<1>2. CASE UNCHANGED <<request, headers>> /\ (stack = <<>> => stack' = <<>>)
  BY <1>2 DEF Ingressed, Transport
<1>3. CASE Validate \/ RunTenant \/ RunLimit \/ RunAuthz \/ RunRewrite \/ RunFilter
  BY <1>2, <1>3, Zenon
     DEF Validate, RunTenant, RunLimit, RunAuthz, RunTenantWith, RunLimitWith, RunAuthzWith,
         RunRewrite, RunFilter, Refuse, Processing, Running
<1>4. CASE ReadStorage \/ ConnectRefused \/ ConnectSingle \/ FinishSingle \/ ConnectLeft
             \/ ConnectRight \/ Join \/ ProcessResult \/ Return
  BY <1>2, <1>4, Zenon
     DEF ReadStorage, ConnectRefused, ConnectSingle, FinishSingle, ConnectLeft, ConnectRight,
         ExecSide, Join, ProcessResult, Return, Refuse, Dispatching, AtEnd, Running
<1>5. CASE UNCHANGED vars
  BY <1>2, <1>5 DEF vars
<1>6. QED BY <1>1, <1>3, <1>4, <1>5 DEF Next, Done

(* A tenant processor resolves the tenant of its chain.                    *)
LEMMA TenantReaches ==
  ASSUME Shape, DataOK, TenantsAgree, TenantsResolve, Ingressed, RunTenant,
         ~Refuse("Unauthenticated")
  PROVE  TenantsResolve'
<1>0. RunTenantWith(Header)
  <2>1. PICK header \in Lookups : RunTenantWith(header)
    BY DEF RunTenant
  <2>2. stack # <<>>
    BY <2>1 DEF RunTenantWith, Processing, Running
  <2>3. QED BY <2>1, <2>2, TransportIsFound
<1>1. /\ Processing("tenant") /\ Top.query \in Query /\ OwnOrClients /\ Proc.kind = "tenant"
  BY <1>0, TopOfStack DEF Frame, TenantsResolve, References, Processing, Running, RunTenantWith
<1>2. PICK q \in Query : q = Top.query
  BY <1>1
<1>. PICK id : id = ResolvedTenant(Proc, Header)
  OBVIOUS
<1>3. /\ ~TenantRefuses(Proc, Header) /\ NextProc /\ UNCHANGED <<config, request, answer>>
      /\ Writes(q, id)
  <2>1. CASE /\ ResolvedTenant(Proc, Header) = None /\ ~TenantRefuses(Proc, Header)
             /\ NextProc
             /\ map' = IF metadata[Top.query] = None THEN map
                       ELSE [map EXCEPT ![metadata[Top.query]].tenant = None]
             /\ UNCHANGED <<config, request, metadata, enforced, filter, left, result, answer, seen>>
    BY <1>1, <1>2, <2>1, ForgettingTenantWrites
  <2>2. CASE /\ ResolvedTenant(Proc, Header) # None
             /\ NextProc
             /\ SetMap(Top.query, [MapOf(Top.query) EXCEPT !.tenant = ResolvedTenant(Proc, Header)])
             /\ UNCHANGED <<config, request, filter, left, result, answer>>
    BY <1>1, <1>2, <2>2, SettingTenantWrites DEF TenantRefuses
  <2>3. QED BY <1>0, <2>1, <2>2, Zenon DEF RunTenantWith
<1>4. Opens(Proc, Tenant)
  BY <1>1, <1>3 DEF Opens
<1>5. QED BY <1>1, <1>2, <1>3, <1>4, ProcessorReaches

(* A subject that the policy forbids goes no further. *)
LEMMA AuthzReaches ==
  ASSUME Shape, DataOK, TenantsAgree, TenantsResolve, Ingressed, RunAuthz,
         ~Refuse("PermissionDenied")
  PROVE  TenantsResolve'
<1>0. RunAuthzWith(Header)
  <2>1. PICK header \in Lookups : RunAuthzWith(header)
    BY DEF RunAuthz
  <2>2. stack # <<>>
    BY <2>1 DEF RunAuthzWith, Processing, Running
  <2>3. QED BY <2>1, <2>2, TransportIsFound
<1>1. /\ Processing("authz") /\ Top.query \in Query /\ OwnOrClients /\ Proc.kind = "authz"
      /\ Proc = config.procs[Top.pipe][Top.next] /\ Top.pipe \in Pipe
      /\ Top.next \in DOMAIN config.procs[Top.pipe] /\ config \in Config
      /\ Tenant = MapOf(Top.query).tenant
  BY <1>0, TopOfStack
     DEF Frame, TenantsResolve, References, Processing, Running, RunAuthzWith, Shape, Proc, Procs,
         Tenant
<1>2. PICK q \in Query : q = Top.query
  BY <1>1
<1>3. /\ ~AuthzRefuses(Proc, Header, Tenant) /\ NextProc /\ UNCHANGED <<config, request, answer>>
      /\ \/ UNCHANGED <<metadata, map>>
         \/ \E subject : SetMap(Top.query, [MapOf(Top.query) EXCEPT !.subject = subject])
  BY <1>0, Zenon DEF RunAuthzWith
<1>4. Writes(q, MapOf(q).tenant)
  <2>1. CASE UNCHANGED <<metadata, map>>
    BY <1>1, <2>1, SettingNothingWrites
  <2>2. ASSUME NEW subject PROVE [MapOf(q) EXCEPT !.subject = subject].tenant = MapOf(q).tenant
    BY MapOfFields DEF Fields
  <2>3. QED BY <1>1, <1>2, <1>3, <2>1, <2>2, SettingOtherWrites
<1>5. Opens(Proc, Tenant)
  <2>1. IsList(Proc.rules)
    BY <1>1, ConfigAssumption
  <2>2. Allows(Proc, ResolvedSubject(Proc, Header, Tenant))
    BY <1>3 DEF AuthzRefuses
  <2>3. QED BY <1>1, <2>1, <2>2, AllowedIsNotForbidden DEF Opens
<1>6. QED BY <1>1, <1>2, <1>3, <1>4, <1>5, ProcessorReaches

(* A rewrite opens, and resolves nothing.                                  *)
LEMMA RewriteReaches ==
  ASSUME Shape, DataOK, TenantsAgree, TenantsResolve, RunRewrite, ~Refuse("PermissionDenied")
  PROVE  TenantsResolve'
<1>1. /\ Processing("rewrite") /\ Top.query \in Query /\ OwnOrClients /\ Proc.kind = "rewrite"
      /\ Tenant = MapOf(Top.query).tenant
  BY TopOfStack DEF Frame, TenantsResolve, References, Processing, Running, RunRewrite, Tenant
<1>2. PICK q \in Query : q = Top.query
  BY <1>1
<1>3. /\ NextProc /\ UNCHANGED <<config, request, answer>>
      /\ \/ UNCHANGED <<metadata, map>>
         \/ SetMap(Top.query, MapOf(Top.query))
  <2>1. UNCHANGED query => UNCHANGED <<metadata, map>>
    BY DEF query
  <2>2. QED BY <2>1, Zenon DEF RunRewrite
<1>4. Writes(q, MapOf(q).tenant)
  BY <1>1, <1>2, <1>3, SettingNothingWrites, SettingOtherWrites
<1>5. Opens(Proc, Tenant)
  BY <1>1 DEF Opens
<1>6. QED BY <1>1, <1>2, <1>3, <1>4, <1>5, ProcessorReaches

(* A rate limit that opens knows the tenant of its chain.                  *)
LEMMA LimitReaches ==
  ASSUME Shape, DataOK, TenantsAgree, TenantsResolve, Ingressed, RunLimit,
         ~Refuse("Unauthenticated"), ~Refuse("ResourceExhausted")
  PROVE  TenantsResolve'
<1>0. RunLimitWith(Header)
  <2>1. PICK header \in Lookups : RunLimitWith(header)
    BY DEF RunLimit
  <2>2. stack # <<>>
    BY <2>1 DEF RunLimitWith, Processing, Running
  <2>3. QED BY <2>1, <2>2, TransportIsFound
<1>1. /\ Processing("limit") /\ NextProc /\ UNCHANGED <<config, request, query, answer>>
      /\ ~LimitUnauthenticated(Proc, Header, Tenant)
  BY <1>0, Zenon DEF RunLimitWith
<1>2. Opens(Proc, Tenant) /\ UNCHANGED <<metadata, map>>
  BY <1>1 DEF Opens, query, Processing
<1>3. QED BY <1>1, <1>2, PassingReaches

(* A filter opens, and resolves nothing.                                   *)
LEMMA FilterReaches ==
  ASSUME Shape, DataOK, TenantsAgree, TenantsResolve, RunFilter
  PROVE  TenantsResolve'
<1>1. Opens(Proc, Tenant) /\ Processing("filter") /\ UNCHANGED <<config, request, metadata, map, answer>>
  BY DEF Opens, Processing, RunFilter, query
<1>2. QED BY <1>1, PassingReaches DEF RunFilter

(* The call on top moves, without metadata changing.                       *)
LEMMA MoveReaches ==
  ASSUME Shape, TenantsAgree, TenantsResolve, NEW f, Moves(f),
         \/ f.phase = "query" /\ Top.phase = "validate" /\ f.next = Top.next
         \/ f.phase = "result",
         UNCHANGED <<config, request, metadata, map, answer>>
  PROVE  TenantsResolve'
<1>1. PICK t : t = Top
  OBVIOUS
<1>2. /\ stack # <<>> /\ stack' # <<>> /\ Top' = f /\ f.pipe = t.pipe /\ f.query = t.query
      /\ answer = "none" /\ Reached(t) /\ Reached(stack[1]) /\ References
  BY <1>1, TopOfStack DEF Moves, TenantsResolve
<1>3. \A q : MapOf(q).tenant' = MapOf(q).tenant
  BY DEF MapOf
<1>4. Inbound(f) => Inbound(t) /\ Passed(f) = Passed(t)
  BY <1>1, <1>2 DEF Inbound, Passed
<1>5. Reached(f)'
  BY <1>2, <1>3, <1>4, StaysReached
<1>6. OwnOrClients'
  BY <1>2 DEF References, OwnOrClients
<1>7. CASE Len(stack) = 1
  <2>1. stack'[1] = f /\ stack[1] = t
    BY <1>1, <1>2, <1>7 DEF Moves, Top
  <2>2. QED BY <1>2, <1>4, <1>5, <1>6, <2>1, ChainsStay DEF TenantsResolve, References, Inbound
<1>8. CASE Len(stack) = 2
  <2>1. PICK e : e = stack[1] /\ e = stack'[1]
    BY <1>8 DEF Moves
  <2>2. Reached(e)'
    BY <1>2, <1>3, <2>1, StaysReached
  <2>3. QED BY <1>2, <1>5, <1>6, <2>1, <2>2, ChainsStay DEF TenantsResolve, References, Inbound
<1>9. QED BY <1>2, <1>7, <1>8, TopOfStack

(* A query that reaches the connector has the front's tenant and has       *)
(* passed its gates, and so has every query the connector makes of it.     *)
LEMMA NestReaches ==
  ASSUME Shape, DataOK, TenantsAgree, TenantsResolve,
         NEW s, NEW q, NEW phase, Nests(s, q, phase),
         \/ phase = "single" /\ Top.phase = "query" /\ UNCHANGED metadata
         \/ /\ phase = "left" /\ Top.phase = "query"
            /\ metadata' = [metadata EXCEPT !["lhs"] = metadata["client"]]
         \/ /\ phase = "right" /\ Top.phase = "left"
            /\ metadata' = [metadata EXCEPT !["rhs"] = metadata["client"]],
         Top.phase = "query" => Top.next = Len(Procs) + 1, phase = "left" => Splits,
         UNCHANGED <<config, request, map, answer>>
  PROVE  TenantsResolve'
<1> DEFINE n == Len(config.procs["front"])
<1>1. PICK t, e, g : /\ t = Top /\ e = [Top EXCEPT !.phase = phase]
                     /\ g = [pipe |-> s, query |-> q, phase |-> "validate", next |-> 1]
  OBVIOUS
<1>2. /\ stack # <<>> /\ stack' # <<>> /\ Len(stack) = 1 /\ Top' = g /\ stack'[1] = e
      /\ t \in Frame /\ t.pipe = "front" /\ t.query = "client" /\ config.entry = "front"
      /\ t = stack[1] /\ s \in config.targets /\ q = Callee(phase) /\ n \in Nat
      /\ Len(Procs) = n /\ config \in Config
  BY <1>1, TopOfStack DEF Nests, Outer, Top, Procs, Shape
<1>3. /\ e.pipe = "front" /\ e.query = "client" /\ e.phase = phase
      /\ g.pipe = s /\ g.query = q /\ g.phase = "validate" /\ g.next = 1
  BY <1>1, <1>2 DEF Frame
<1>4. s \in Pipe /\ s # "front"
  BY <1>2, FrontIsNoTarget
<1>5. Inbound(t) /\ Passed(t) = n /\ ChainOf("front") = config.procs["front"] /\ Passed(g) = n
  <2>1. Offset("front") = 0 /\ Offset(s) = n
    BY <1>2, <1>4 DEF Offset, Chained
  <2>2. QED BY <1>1, <1>2, <1>3, <2>1 DEF Inbound, Passed, ChainOf, Chained
<1>6. MapOf("client").tenant = FrontsTenant /\ Opened(t) /\ References
  BY <1>1, <1>2, <1>5 DEF TenantsResolve, Reached, Resolved, FrontsTenant
<1>7. MapOf(q)' = MapOf("client") /\ MapOf("client")' = MapOf("client")
  BY <1>2 DEF MapOf, Callee, DataOK, Query
<1>8. \A i \in 1 .. n : ChainOf(s)[i] = config.procs["front"][i]
  BY <1>2, <1>4, ChainIsConcat DEF Chained
<1>9. \A k \in 0 .. n : TenantAfter(ChainOf(s), k) = TenantAfter(config.procs["front"], k)
  <2>1. ASSUME NEW k \in 0 .. n
        PROVE  k \in Nat /\ \A i \in 1 .. k : ChainOf(s)[i] = config.procs["front"][i]
    BY <1>2, <1>8
  <2>2. QED BY <2>1, TenantAfterPrefix
<1>10. Reached(g)'
  <2>1. Resolved(g)'
    <3>1. TenantAfter(ChainOf(s), n) = FrontsTenant
      BY <1>2, <1>9 DEF FrontsTenant
    <3>2. QED BY <1>3, <1>5, <1>6, <1>7, <3>1, ChainsStay DEF Resolved
  <2>2. ASSUME NEW j \in 1 .. n
        PROVE  Opens(ChainOf(s)[j], TenantAfter(ChainOf(s), j - 1))
    <3>1. Opens(config.procs["front"][j], TenantAfter(config.procs["front"], j - 1))
      BY <1>2, <1>5, <1>6 DEF Opened
    <3>2. j - 1 \in 0 .. n
      BY <1>2
    <3>3. QED BY <1>8, <1>9, <3>1, <3>2
  <2>3. Opened(g)'
    BY <1>3, <1>5, <2>2, ChainsStay DEF Opened
  <2>4. QED BY <2>1, <2>3 DEF Reached
<1>11. Reached(e)'
  <2>1. Inbound(e) => Passed(e) = Passed(t)
    <3>1. Offset("front") = 0
      BY DEF Offset, Chained
    <3>2. QED BY <1>2, <1>3, <1>5, <3>1 DEF Inbound, Passed, Nests, Calling
  <2>2. QED BY <1>2, <1>3, <1>5, <1>6, <1>7, <2>1, StaysReached DEF TenantsResolve
<1>12. References'
  <2>1. OwnOrClients'
    BY <1>2, <1>6 DEF References, OwnOrClients, DataOK, Query
  <2>2. metadata'["client"] = metadata["client"]
    BY DEF DataOK, Query
  <2>3. config.entry = "front" /\ Quiet => metadata["client"] = None
    BY <1>2, <1>5, <1>6 DEF References
  <2>4. QED BY <1>2, <1>3, <2>1, <2>2, <2>3, ChainsStay DEF References
<1>13. QED BY <1>2, <1>10, <1>11, <1>12 DEF TenantsResolve

(* The front, when its callee returns, is where it was.                    *)
LEMMA ReturnReaches ==
  ASSUME Shape, TenantsAgree, TenantsResolve, Return
  PROVE  TenantsResolve'
<1>1. stack # <<>> /\ answer = "none" /\ UNCHANGED <<config, request, metadata, map>>
  BY DEF Return, Running, query
<1>2. PICK e : e = stack[1]
  OBVIOUS
<1>3. \A q : MapOf(q).tenant' = MapOf(q).tenant
  BY <1>1 DEF MapOf
<1>4. Reached(e)'
  BY <1>1, <1>2, <1>3, StaysReached DEF TenantsResolve
<1>5. OwnOrClients' /\ References
  BY <1>1 DEF TenantsResolve, References, OwnOrClients
<1>6. CASE Len(stack) = 1
  BY <1>5, <1>6, ReturnKeepsShape DEF TenantsResolve, References
<1>7. CASE Len(stack) = 2
  BY <1>1, <1>2, <1>4, <1>5, <1>7, ReturnKeepsShape, ChainsStay
     DEF TenantsResolve, References
<1>8. QED BY <1>1, <1>6, <1>7, TopOfStack

(* A refusal leaves no call behind.                                        *)
LEMMA RefuseReaches ==
  ASSUME TenantsAgree, TenantsResolve, NEW code, code # "none", Refuse(code)
  PROVE  TenantsResolve'
<1>1. stack' = <<>> /\ answer' # "none" /\ UNCHANGED metadata
  BY DEF Refuse, query
<1>2. OwnOrClients'
  BY <1>1 DEF TenantsResolve, References, OwnOrClients
<1>3. QED BY <1>1, <1>2 DEF TenantsResolve, References

(* The acceptor starts with no tenant at all. *)
LEMMA ReceiveReaches ==
  ASSUME Shape, DataOK, TenantsAgree, TenantsResolve, Receive
  PROVE  TenantsResolve'
<1>1. PICK f : f = [pipe |-> config.entry, query |-> "client", phase |-> "validate", next |-> 1]
  OBVIOUS
<1>2. /\ stack' = <<f>> /\ answer = "none" /\ stack = <<>> /\ UNCHANGED <<config, request>>
      /\ metadata' = [metadata EXCEPT !["client"] = None]
      /\ f.pipe = config.entry /\ f.query = "client" /\ f.phase = "validate" /\ f.next = 1
  BY <1>1 DEF Receive
<1>3. stack' # <<>> /\ stack'[1] = f /\ Top' = f
  BY <1>2 DEF Top
<1>4. \A q \in Query : metadata'[q] = None
  BY <1>2 DEF TenantsResolve, References, DataOK, Query
<1>5. Passed(f) = 0
  BY <1>2 DEF Passed, Offset, Chained
<1>6. Resolved(f)'
  BY <1>2, <1>4, <1>5, ChainsStay, TenantAfterNone DEF Resolved, MapOf, NoMap, Query
<1>7. Opened(f)'
  BY <1>2, <1>5, ChainsStay DEF Opened
<1>8. References'
  BY <1>2, <1>3, <1>4 DEF References, OwnOrClients, Query
<1>9. QED BY <1>3, <1>6, <1>7, <1>8 DEF TenantsResolve, Reached

(* No step takes a call further than its chain resolves and opens.         *)
LEMMA StepReaches ==
  ASSUME Shape, DataOK, TenantsAgree, TenantsResolve, Ingressed, [Next]_vars
  PROVE  TenantsResolve'
<1>1. CASE \E code : code # "none" /\ Refuse(code)
  BY <1>1, RefuseReaches
<1>2. CASE UNCHANGED vars
  <2>1. /\ UNCHANGED <<config, request, stack, metadata, map, answer>> /\ Top' = Top
        /\ \A q : MapOf(q).tenant' = MapOf(q).tenant
    BY <1>2 DEF vars, query, Top, MapOf
  <2>2. PICK e, t : e = stack[1] /\ t = Top
    OBVIOUS
  <2>3. Reached(e) => Reached(e)'
    BY <2>1, StaysReached DEF Reached
  <2>4. Reached(t) => Reached(t)'
    BY <2>1, StaysReached DEF Reached
  <2>5. References'
    BY <2>1, ChainsStay DEF TenantsResolve, References, OwnOrClients
  <2>6. QED BY <2>1, <2>2, <2>3, <2>4, <2>5, ChainsStay DEF TenantsResolve
<1> SUFFICES ASSUME Next, ~UNCHANGED vars, \A code : code # "none" => ~Refuse(code)
             PROVE  TenantsResolve'
  BY <1>1, <1>2
<1>3. /\ ~Refuse("Unauthenticated") /\ ~Refuse("PermissionDenied") /\ ~Refuse("InvalidArgument")
      /\ ~Refuse("ResourceExhausted") /\ ~Refuse("Unavailable")
  OBVIOUS
<1>4. CASE Receive
  BY <1>4, ReceiveReaches
<1>5. CASE RunTenant \/ RunLimit \/ RunAuthz \/ RunRewrite \/ RunFilter
  BY <1>3, <1>5, TenantReaches, LimitReaches, AuthzReaches, RewriteReaches, FilterReaches
<1>6. ASSUME stack # <<>>, NEW r, Respond(r), UNCHANGED <<config, request, metadata, map, answer>>
      PROVE  TenantsResolve'
  <2>1. /\ Moves([Top EXCEPT !.phase = "result", !.next = Len(Procs)])
        /\ [Top EXCEPT !.phase = "result", !.next = Len(Procs)].phase = "result"
    BY <1>6, RespondMoves, TopOfStack DEF Frame
  <2>2. QED BY <1>6, <2>1, MoveReaches
<1>7. CASE ReadStorage \/ FinishSingle \/ Join
  <2>1. stack # <<>> /\ UNCHANGED <<config, request, query, answer>> /\ \E r : Respond(r)
    BY <1>3, <1>7, Zenon DEF ReadStorage, FinishSingle, Join, AtEnd, Running
  <2>2. UNCHANGED <<metadata, map>>
    BY <2>1 DEF query
  <2>3. QED BY <1>6, <2>1, <2>2
<1>8. CASE Validate
  <2>1. /\ Running("validate") /\ Continue([Top EXCEPT !.phase = "query"])
        /\ UNCHANGED <<config, request, query, answer>>
    BY <1>3, <1>8, Zenon DEF Validate
  <2>2. Moves([Top EXCEPT !.phase = "query"]) /\ UNCHANGED <<metadata, map>>
    BY <2>1, ValidateMoves DEF query
  <2>3. /\ Top.phase = "validate" /\ [Top EXCEPT !.phase = "query"].phase = "query"
        /\ [Top EXCEPT !.phase = "query"].next = Top.next
    BY <2>1, TopOfStack DEF Running, Frame
  <2>4. QED BY <2>1, <2>2, <2>3, MoveReaches
<1>9. CASE ProcessResult
  <2>1. Moves([Top EXCEPT !.next = Top.next - 1]) /\ UNCHANGED <<config, request, metadata, map, answer>>
    BY <1>9, ProcessResultMoves DEF ProcessResult, query
  <2>2. [Top EXCEPT !.next = Top.next - 1].phase = "result"
    BY <1>9, TopOfStack DEF ProcessResult, Running, Frame
  <2>3. QED BY <2>1, <2>2, MoveReaches
<1>10. CASE ConnectSingle
  <2>1. /\ Top.phase = "query" /\ Top.next = Len(Procs) + 1
        /\ \E s \in config.targets : Nests(s, "client", "single")
        /\ UNCHANGED <<config, request, metadata, map, answer>>
    BY <1>10, ConnectSingleNests, TopOfStack
       DEF ConnectSingle, Dispatching, AtEnd, Running, InBounds, Procs, query
  <2>2. QED BY <2>1, NestReaches
<1>11. CASE ConnectLeft
  <2>1. Splits
    BY <1>11 DEF ConnectLeft, Splits
  <2>2. QED BY <1>11, <2>1, ConnectLeftNests, NestReaches
<1>12. CASE ConnectRight
  <2>1. /\ Top.phase = "left" /\ \E s \in config.targets : Nests(s, "rhs", "right")
        /\ metadata' = [metadata EXCEPT !["rhs"] = metadata["client"]]
        /\ UNCHANGED <<config, request, map, answer>>
    BY <1>3, <1>12, ConnectRightNests
  <2>2. QED BY <2>1, NestReaches
<1>13. CASE Return
  BY <1>13, ReturnReaches
<1>14. CASE ConnectRefused
  BY <1>3, <1>14 DEF ConnectRefused
<1>15. QED
  BY <1>4, <1>5, <1>7, <1>8, <1>9, <1>10, <1>11, <1>12, <1>13, <1>14, Zenon DEF Next, Done

--------------------------------------------------------------------------------
(* What the history says of it.                                            *)

(* The chain that the history names is the one of the call in hand.        *)
LEMMA ChainInHand ==
  ASSUME Shape, stack # <<>>
  PROVE  /\ Chain(Top.pipe, Path) = ChainOf(Top.pipe)
         /\ \A at : Place(Top.pipe, Path, at) = Offset(Top.pipe) + at
<1>1. Top.pipe \in Pipe /\ config \in Config /\ stack[1].pipe = config.entry
  BY TopOfStack DEF Frame, Outer, Shape
<1>2. Top.pipe # "front" => ("front" \in Path <=> config.entry = "front")
  <2>1. CASE Len(stack) = 1
    BY <1>1, <2>1, TopOfStack DEF Path, Top
  <2>2. CASE Len(stack) = 2
    <3>1. 1 \in DOMAIN stack /\ stack[1].pipe = "front"
      BY <2>2, TopOfStack DEF Outer, Inner
    <3>2. QED BY <1>1, <3>1 DEF Path
  <2>3. QED BY <2>1, <2>2, TopOfStack
<1>3. Chain(Top.pipe, Path) = ChainOf(Top.pipe)
  BY <1>2 DEF Chain, ChainOf, Chained
<1>4. Len(Chain(Top.pipe, Path)) - Len(config.procs[Top.pipe]) = Offset(Top.pipe)
  <2>1. \A l, o \in Nat : (o + l) - l = o
    OBVIOUS
  <2>2. Len(config.procs[Top.pipe]) \in Nat /\ Offset(Top.pipe) \in Nat
    BY <1>1, PipelineIsList, ChainIsConcat
  <2>3. Len(Chain(Top.pipe, Path)) = Offset(Top.pipe) + Len(config.procs[Top.pipe])
    BY <1>1, <1>3, ChainIsConcat
  <2>4. PICK l \in Nat, o \in Nat : l = Len(config.procs[Top.pipe]) /\ o = Offset(Top.pipe)
    BY <2>2
  <2>5. Len(Chain(Top.pipe, Path)) = o + l /\ (o + l) - l = o
    BY <2>1, <2>3, <2>4
  <2>6. QED BY <2>4, <2>5
<1>5. \A at : Place(Top.pipe, Path, at) = Offset(Top.pipe) + at
  BY <1>4, Zenon DEF Place
<1>6. QED BY <1>3, <1>5

History == ReadsAsOwnTenant /\ ReadsAreAdmitted

(* What was read and charged stays as right as it was.                     *)
LEMMA HistoryStays ==
  ASSUME History, UNCHANGED <<config, request>>,
         seen'.reads = seen.reads, seen'.charges = seen.charges
  PROVE  History'
BY ChainsStay DEF History, ReadsAsOwnTenant, ReadsAreAdmitted

(* A bucket is charged in the name of the tenant resolved before.          *)
LEMMA LimitKeepsHistory ==
  ASSUME Shape, Kept, TenantsAgree, TenantsResolve, History, RunLimit
  PROVE  History'
<1>1. /\ Processing("limit") /\ stack # <<>> /\ Top.phase = "query"
      /\ Top.next \in 1 .. Len(config.procs[Top.pipe]) /\ UNCHANGED <<config, request>>
      /\ Proc = config.procs[Top.pipe][Top.next] /\ Tenant = MapOf(Top.query).tenant
      /\ Top.pipe \in Pipe /\ Top.next \in Nat /\ config \in Config
  BY TopOfStack
     DEF RunLimit, RunLimitWith, Processing, Running, Procs, Proc, Tenant, Refuse, Frame, Shape
<1>2. CASE UNCHANGED seen
  BY <1>1, <1>2, HistoryStays
<1>3. CASE seen' = [seen EXCEPT !.charges =
                      @ \cup {[pipe |-> Top.pipe, path |-> Path, at |-> Top.next,
                               key |-> LimitKey(Proc, Tenant)]}]
  <2>1. PICK c : /\ c.pipe = Top.pipe /\ c.path = Path /\ c.at = Top.next
                 /\ c.key = LimitKey(Proc, Tenant)
                 /\ seen' = [seen EXCEPT !.charges = @ \cup {c}]
    BY <1>3
  <2>2. seen'.charges = seen.charges \cup {c} /\ seen'.reads = seen.reads
    BY <2>1 DEF Kept
  <2>3. c.key = LimitKey(Chain(c.pipe, c.path)[Place(c.pipe, c.path, c.at)],
                         TenantAfter(Chain(c.pipe, c.path), Place(c.pipe, c.path, c.at) - 1))
    <3>1. /\ Chain(c.pipe, c.path) = ChainOf(Top.pipe)
          /\ Place(c.pipe, c.path, c.at) = Offset(Top.pipe) + Top.next
      BY <1>1, <2>1, ChainInHand
    <3>2. ChainOf(Top.pipe)[Offset(Top.pipe) + Top.next] = Proc
      BY <1>1, ChainIsConcat
    <3>3. (Offset(Top.pipe) + Top.next) - 1 = Passed(Top)
      <4>1. Offset(Top.pipe) \in Nat
        BY <1>1, ChainIsConcat
      <4>2. QED BY <1>1, <4>1 DEF Passed
    <3>4. Tenant = TenantAfter(ChainOf(Top.pipe), Passed(Top))
      BY <1>1 DEF TenantsResolve, Reached, Resolved, Inbound
    <3>5. QED BY <2>1, <3>1, <3>2, <3>3, <3>4
  <2>4. QED BY <1>1, <2>2, <2>3, ChainsStay DEF History, ReadsAsOwnTenant, ReadsAreAdmitted
<1>4. QED BY <1>2, <1>3, Zenon DEF RunLimit, RunLimitWith, Refuse

(* Storage is read in the name of the tenant that the whole chain resolved. *)
LEMMA ReadKeepsHistory ==
  ASSUME Shape, Kept, TenantsAgree, TenantsResolve, History, ReadStorage
  PROVE  History'
<1>1. /\ stack # <<>> /\ Top.phase = "query" /\ Top.next = Len(config.procs[Top.pipe]) + 1
      /\ UNCHANGED <<config, request>> /\ Tenant = MapOf(Top.query).tenant
      /\ Top.pipe \in Pipe /\ config \in Config /\ Len(config.procs[Top.pipe]) \in Nat
  BY TopOfStack
     DEF ReadStorage, AtEnd, Running, InBounds, Procs, Tenant, Refuse, Frame, Shape
<1>2. CASE UNCHANGED seen
  BY <1>1, <1>2, HistoryStays
<1>3. CASE seen' = [seen EXCEPT !.reads =
                      @ \cup {[pipe |-> Top.pipe, query |-> Top.query, path |-> Path,
                               tenant |-> Tenant, subject |-> Subject,
                               selects |-> Selects(Top.query), filter |-> filter]}]
  <2>1. PICK r : /\ r.pipe = Top.pipe /\ r.path = Path /\ r.tenant = Tenant
                 /\ seen' = [seen EXCEPT !.reads = @ \cup {r}]
    BY <1>3
  <2>2. seen'.charges = seen.charges /\ seen'.reads = seen.reads \cup {r}
    BY <2>1 DEF Kept
  <2>3. Chain(r.pipe, r.path) = ChainOf(Top.pipe)
    BY <1>1, <2>1, ChainInHand
  <2>4. /\ Passed(Top) = Len(ChainOf(Top.pipe))
        /\ DOMAIN ChainOf(Top.pipe) = 1 .. Len(ChainOf(Top.pipe))
    <3>1. /\ Offset(Top.pipe) \in Nat
          /\ Len(ChainOf(Top.pipe)) = Offset(Top.pipe) + Len(config.procs[Top.pipe])
          /\ DOMAIN ChainOf(Top.pipe) = 1 .. Len(ChainOf(Top.pipe))
      BY <1>1, ChainIsConcat
    <3>2. QED BY <1>1, <3>1 DEF Passed
  <2>5. Resolved(Top) /\ Opened(Top)
    BY <1>1 DEF TenantsResolve, Reached, Inbound
  <2>6. r.tenant = TenantAfter(Chain(r.pipe, r.path), Len(Chain(r.pipe, r.path)))
    BY <1>1, <2>1, <2>3, <2>4, <2>5 DEF Resolved
  <2>7. \A i \in DOMAIN Chain(r.pipe, r.path) :
          Opens(Chain(r.pipe, r.path)[i], TenantAfter(Chain(r.pipe, r.path), i - 1))
    BY <2>3, <2>4, <2>5 DEF Opened
  <2>8. QED BY <1>1, <2>2, <2>6, <2>7, ChainsStay DEF History, ReadsAsOwnTenant, ReadsAreAdmitted
<1>4. QED BY <1>2, <1>3, Zenon DEF ReadStorage, Refuse

(* No step reads, or charges, for another tenant or behind a gate that is  *)
(* closed.                                                                 *)
LEMMA StepKeepsHistory ==
  ASSUME Shape, Kept, TenantsAgree, TenantsResolve, History, [Next]_vars
  PROVE  History'
<1>1. CASE UNCHANGED <<config, request, seen>>
  BY <1>1, HistoryStays
<1>2. CASE \E d : seen' = [seen EXCEPT !.demands = d] /\ UNCHANGED <<config, request>>
  BY <1>2, HistoryStays DEF Kept
<1>3. CASE RunLimit \/ ReadStorage
  BY <1>3, LimitKeepsHistory, ReadKeepsHistory
<1>4. CASE Receive \/ Validate \/ RunTenant \/ RunAuthz \/ RunRewrite \/ RunFilter
  BY <1>1, <1>2, <1>4, Zenon
     DEF Receive, Validate, RunTenant, RunAuthz, RunTenantWith, RunAuthzWith, RunRewrite,
         RunFilter, Refuse
<1>5. CASE ConnectRefused \/ ConnectSingle \/ FinishSingle \/ ConnectLeft \/ ConnectRight
             \/ Join \/ ProcessResult \/ Return
  BY <1>1, <1>5, Zenon
     DEF ConnectRefused, ConnectSingle, FinishSingle, ConnectLeft, ConnectRight, ExecSide, Join,
         ProcessResult, Return, Refuse
<1>6. CASE UNCHANGED vars
  BY <1>1, <1>6 DEF vars
<1>7. QED BY <1>3, <1>4, <1>5, <1>6 DEF Next, Done

TenantInvariant ==
  /\ Shape /\ DataOK /\ Ingressed /\ Enforcement
  /\ TenantsAgree => TenantsResolve /\ History

(* The invariant holds of every behaviour, whatever the configuration and  *)
(* the request.                                                            *)
LEMMA TenantInvariantHolds == Spec => []TenantInvariant
<1>1. Init => TenantInvariant
  <2>1. Init => Shape /\ DataOK
    BY InitIsTyped
  <2>2. Init => Enforcement
    BY DEF Init, Enforcement, Kept, DemandsHold, ReadsFollow, EnforcementReachesStorage
  <2>3. Init => TenantsResolve
    BY NamesAssumption DEF Init, TenantsResolve, References, OwnOrClients, Query
  <2>4. Init => History
    BY DEF Init, History, ReadsAsOwnTenant, ReadsAreAdmitted
  <2>5. Init => Ingressed
    BY DEF Init, Ingressed
  <2>6. QED BY <2>1, <2>2, <2>3, <2>4, <2>5 DEF TenantInvariant
<1>2. TenantInvariant /\ [Next]_vars => TenantInvariant'
  <2> SUFFICES ASSUME TenantInvariant, [Next]_vars
               PROVE  TenantInvariant'
    OBVIOUS
  <2>1. Shape' /\ DataOK' /\ Ingressed' /\ Enforcement'
    BY StepKeepsShape, StepKeepsData, StepKeepsIngressed, StepKeepsEnforcement DEF TenantInvariant
  <2>2. UNCHANGED <<config, request>>
    BY Zenon
       DEF Next, vars, Receive, Validate, RunTenant, RunLimit, RunAuthz, RunTenantWith,
           RunLimitWith, RunAuthzWith, RunRewrite, RunFilter, ReadStorage, ConnectRefused,
           ConnectSingle, FinishSingle, ConnectLeft, ConnectRight, ExecSide, Join, ProcessResult, Return, Done, Refuse
  <2>3. TenantsAgree' = TenantsAgree
    BY <2>2, ChainsStay
  <2>4. QED
    BY <2>1, <2>3, StepReaches, StepKeepsHistory DEF TenantInvariant, Enforcement
<1>3. QED BY <1>1, <1>2, PTL DEF Spec

(* Whatever the client sends and however the query is split, storage is    *)
(* read for, and rate limits are charged to, the tenant that the query's   *)
(* own processors resolve, where the pipelines behind the front agree with *)
(* it on the tenant.                                                       *)
THEOREM TenantCorrect == Spec => [](TenantsAgree => ReadsAsOwnTenant)
<1>1. TenantInvariant => (TenantsAgree => ReadsAsOwnTenant)
  BY DEF TenantInvariant, History
<1>2. QED BY <1>1, TenantInvariantHolds, PTL

(* Likewise no gate on the way to a read should have turned it away.       *)
THEOREM AdmissionCorrect == Spec => [](TenantsAgree => ReadsAreAdmitted)
<1>1. TenantInvariant => (TenantsAgree => ReadsAreAdmitted)
  BY DEF TenantInvariant, History
<1>2. QED BY <1>1, TenantInvariantHolds, PTL

================================================================================
