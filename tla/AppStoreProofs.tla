---------------------------- MODULE AppStoreProofs ----------------------------
(***************************************************************************)
(* Until the client's timer repeats a call, a task ends only when its own  *)
(* call has been executed: for any packages, threads, JadedBus objects and *)
(* kinds of task, and however the daemon's exits and refusals interleave   *)
(* with the signals, provided that the other clients' calls carry no       *)
(* argument.  (The daemon keeps one argument for all of its workers.)      *)
(*                                                                         *)
(* The argument: of the running task there is at any time one of a call on *)
(* its way, a worker with its argument, a Finished signal with its name on *)
(* the wire, or that signal being handled, or none of them, when the       *)
(* daemon has refused or lost the call.  The worker passes the engine      *)
(* before the signal, and there is none of another task's.  The client's   *)
(* and the daemon's own invariants hold in the whole as they do alone.     *)
(***************************************************************************)
EXTENDS AppStore, FiniteSetTheorems, SequenceTheorems, TLAPS

ClientP == INSTANCE JadeTaskQueueProofs
ServiceP == INSTANCE DaemonProofs

JobOp == {"install", "remove", "upgrade"}

\* The workers that have an argument to look up, and the tasks' signals.
Active(t) ==
  worker[t].op \in Service!ArgOp /\ worker[t].pc \notin {"unlocking", "ended"}
Named(s) == s.name # NoPkg

\* The signal being handled names a task that is still there.
Handling ==
  /\ delivery.left > 0
  /\ \E i \in DOMAIN taskQueue : taskQueue[i].name = delivery.signal.name

NoWorker == \A t \in Thread : ~Active(t)
NoSignal == \A i \in DOMAIN wire : ~Named(wire[i])

\* The task t's call on its way, ...
CallAhead(call) == taskQueue # <<>> /\ call = Client!CallOf(taskQueue[1])

\* ... the worker w that has its call ...
ServesHead(w) ==
  /\ taskQueue # <<>>
  /\ MethodOf(w.op) = Client!CallOf(taskQueue[1]).op
  /\ arg = taskQueue[1].name
  /\ w.pc \in {"working", "done"} => w.target.pkg = taskQueue[1].name
  /\ w.pc = "done" => served

\* ... and the signal that ends it.
EndsHead(s) == taskQueue # <<>> /\ s.name = taskQueue[1].name /\ served

\* One of them at most.
Token ==
  /\ Len(calls) <= 1
  /\ calls # <<>> => CallAhead(calls[1]) /\ NoWorker /\ NoSignal /\ ~Handling
  /\ \A t \in Thread :
       Active(t) => /\ ServesHead(worker[t])
                    /\ \A u \in Thread : Active(u) => u = t
                    /\ NoSignal /\ ~Handling
  /\ \A i \in DOMAIN wire :
       Named(wire[i]) => /\ EndsHead(wire[i])
                         /\ \A j \in DOMAIN wire : Named(wire[j]) => j = i
                         /\ ~Handling
  /\ Handling => EndsHead(delivery.signal)

IInv ==
  /\ ClientP!IInv /\ ServiceP!IInv
  /\ wire \in Seq(Client!FinishedSignal)
  /\ served \in BOOLEAN /\ retried \in BOOLEAN
  /\ ~retried => Token

-----------------------------------------------------------------------------

\* The assumptions of the two components.
LEMMA Parameters ==
  /\ NoPkg \notin Pkg /\ NoThread \notin Thread
  /\ Instances \in Nat \ {0} /\ MaxCalls \in Nat /\ ExitAfter \in Nat
  BY NamesAssumption, BoundsAssumption

\* The components' definitions are the same in the whole and in the proofs
\* about them.
LEMMA ClientActions ==
  /\ Client!Init => ClientP!Init
  /\ \A p, a : Client!Enqueue(p, a) => ClientP!Enqueue(p, a)
  /\ \A p : Client!Cancel(p) => ClientP!Cancel(p)
  /\ Client!RunTaskTimeOut => ClientP!RunTaskTimeOut
  /\ \A s : Client!Deliver(s) => ClientP!Deliver(s)
  /\ Client!GetFinished => ClientP!GetFinished
  /\ Client!Dispatch => ClientP!Dispatch
<1>1. Client!Init => ClientP!Init
  BY DEF Client!Init, ClientP!Init, Client!NoSignal, ClientP!NoSignal
<1>2. ASSUME NEW p, NEW a, Client!Enqueue(p, a) PROVE ClientP!Enqueue(p, a)
  BY <1>2 DEF Client!Enqueue, ClientP!Enqueue, Client!Idle, ClientP!Idle,
       Client!IsTaskExist, ClientP!IsTaskExist, Client!RunTask, ClientP!RunTask,
       Client!CallOf, ClientP!CallOf
<1>3. ASSUME NEW p, Client!Cancel(p) PROVE ClientP!Cancel(p)
  BY <1>3 DEF Client!Cancel, ClientP!Cancel, Client!Idle, ClientP!Idle, Client!RemoveAt, ClientP!RemoveAt
<1>4. Client!RunTaskTimeOut => ClientP!RunTaskTimeOut
  BY DEF Client!RunTaskTimeOut, ClientP!RunTaskTimeOut, Client!Idle, ClientP!Idle,
       Client!CallOf, ClientP!CallOf
<1>5. ASSUME NEW s, Client!Deliver(s) PROVE ClientP!Deliver(s)
  BY <1>5 DEF Client!Deliver, ClientP!Deliver, Client!Idle, ClientP!Idle
<1>6. Client!GetFinished => ClientP!GetFinished
  BY DEF Client!GetFinished, ClientP!GetFinished, Client!Accepted, ClientP!Accepted,
       Client!Completes, ClientP!Completes, Client!StatusAfter, ClientP!StatusAfter,
       Client!NoSignal, ClientP!NoSignal, Client!RunTask, ClientP!RunTask,
       Client!CallOf, ClientP!CallOf
<1>7. Client!Dispatch => ClientP!Dispatch
  BY DEF Client!Dispatch, ClientP!Dispatch
<1>8. QED
  BY <1>1, <1>2, <1>3, <1>4, <1>5, <1>6, <1>7

LEMMA ServiceSteps ==
  ASSUME NEW t
  PROVE  Service!Step(t) => ServiceP!Step(t)
<1>1. Service!TryLock(t) => ServiceP!TryLock(t)
  BY DEF Service!TryLock, ServiceP!TryLock, Service!Emit, ServiceP!Emit, Service!Silent,
       ServiceP!Silent, Service!BusyStatus, ServiceP!BusyStatus, Service!Goto,
       ServiceP!Goto, Service!Ended, ServiceP!Ended, Service!NoArgument,
       ServiceP!NoArgument
<1>2. Service!CheckDB(t) => ServiceP!CheckDB(t)
  BY DEF Service!CheckDB, ServiceP!CheckDB, Service!Goto, ServiceP!Goto, Service!Silent,
       ServiceP!Silent
<1>3. Service!UpdateDone(t) => ServiceP!UpdateDone(t)
  BY DEF Service!UpdateDone, ServiceP!UpdateDone, Service!Emit, ServiceP!Emit,
       Service!Goto, ServiceP!Goto
<1>4. Service!StartEngine(t) => ServiceP!StartEngine(t)
  BY DEF Service!StartEngine, ServiceP!StartEngine, Service!ArgOp, ServiceP!ArgOp,
       Service!NoArgument, ServiceP!NoArgument, Service!Silent, ServiceP!Silent
<1>5. Service!EngineDone(t) => ServiceP!EngineDone(t)
  BY DEF Service!EngineDone, ServiceP!EngineDone, Service!Outcome, ServiceP!Outcome,
       Service!Silent, ServiceP!Silent
<1>6. Service!Reply(t) => ServiceP!Reply(t)
  BY DEF Service!Reply, ServiceP!Reply, Service!Emit, ServiceP!Emit, Service!ArgOp,
       ServiceP!ArgOp, Service!ReplyStatus, ServiceP!ReplyStatus, Service!BusyStatus,
       ServiceP!BusyStatus, Service!Ended, ServiceP!Ended, Service!NoArgument,
       ServiceP!NoArgument
<1>7. Service!Unlock(t) => ServiceP!Unlock(t)
  BY DEF Service!Unlock, ServiceP!Unlock, Service!MustExit, ServiceP!MustExit,
       Service!Ended, ServiceP!Ended, Service!NoArgument, ServiceP!NoArgument,
       Service!Silent, ServiceP!Silent
<1>8. Service!Exit(t) => ServiceP!Exit(t)
  BY DEF Service!Exit, ServiceP!Exit, Service!MustExit, ServiceP!MustExit,
       Service!Ended, ServiceP!Ended, Service!NoArgument, ServiceP!NoArgument,
       Service!Silent, ServiceP!Silent
<1>9. QED
  BY <1>1, <1>2, <1>3, <1>4, <1>5, <1>6, <1>7, <1>8 DEF Service!Step, ServiceP!Step

LEMMA ServiceActions ==
  /\ Service!Init => ServiceP!Init
  /\ \A op, a : Service!Call(op, a) => ServiceP!Call(op, a)
  /\ \A op : Service!Arguments(op) = ServiceP!Arguments(op)
  /\ Service!Activate => ServiceP!Activate
  /\ Service!NmOnline => ServiceP!NmOnline
  /\ Service!NmUpdateDone => ServiceP!NmUpdateDone
  /\ Service!BecomeStale => ServiceP!BecomeStale
<1>1. Service!Init => ServiceP!Init
  BY DEF Service!Init, ServiceP!Init, Service!Starting, ServiceP!Starting,
       Service!Spawned, ServiceP!Spawned, Service!Ended, ServiceP!Ended,
       Service!NoArgument, ServiceP!NoArgument
<1>2. ASSUME NEW op, NEW a, Service!Call(op, a) PROVE ServiceP!Call(op, a)
  BY <1>2 DEF Service!Call, ServiceP!Call, Service!Overtaken, ServiceP!Overtaken,
       Service!Spawned, ServiceP!Spawned, Service!Ended, ServiceP!Ended,
       Service!NoArgument, ServiceP!NoArgument, Service!ArgOp, ServiceP!ArgOp,
       Service!Silent, ServiceP!Silent
<1>3. ASSUME NEW op PROVE Service!Arguments(op) = ServiceP!Arguments(op)
  BY DEF Service!Arguments, ServiceP!Arguments, Service!NoArgument, ServiceP!NoArgument
<1>4. Service!Activate => ServiceP!Activate
  BY DEF Service!Activate, ServiceP!Activate, Service!Starting, ServiceP!Starting,
       Service!Spawned, ServiceP!Spawned, Service!Ended, ServiceP!Ended,
       Service!NoArgument, ServiceP!NoArgument, Service!Silent, ServiceP!Silent
<1>5. Service!NmOnline => ServiceP!NmOnline
  BY DEF Service!NmOnline, ServiceP!NmOnline, Service!Silent, ServiceP!Silent
<1>6. Service!NmUpdateDone => ServiceP!NmUpdateDone
  BY DEF Service!NmUpdateDone, ServiceP!NmUpdateDone, Service!Emit, ServiceP!Emit
<1>7. Service!BecomeStale => ServiceP!BecomeStale
  BY DEF Service!BecomeStale, ServiceP!BecomeStale, Service!Silent, ServiceP!Silent
<1>8. QED
  BY <1>1, <1>2, <1>3, <1>4, <1>5, <1>6, <1>7

-----------------------------------------------------------------------------

\* The client's variables change as the client's own steps change them, or the
\* daemon's exit takes calls with it.
LEMMA ClientInvariant == IInv /\ [Next]_vars => ClientP!IInv'
<1> SUFFICES ASSUME IInv, [Next]_vars PROVE ClientP!IInv'
  OBVIOUS
<1>0. ClientP!IInv /\ wire \in Seq(Client!FinishedSignal)
  BY DEF IInv
<1>1. ASSUME ClientP!Next \/ UNCHANGED clientVars PROVE ClientP!IInv'
  BY <1>0, <1>1, Parameters, ClientP!StepIInv DEF ClientP!vars, clientVars
<1>2. CASE Ask
  <2>1. PICK p \in Pkg, action \in Requests : Client!Enqueue(p, action)
    BY <1>2 DEF Ask
  <2>2. ClientP!Enqueue(p, action) /\ action \in ClientP!Action
    BY <2>1, ClientActions, CallsAssumption DEF Client!Action, ClientP!Action
  <2>3. QED
    BY <1>0, <2>2, Parameters, ClientP!EnqueueIInv
<1>3. CASE Withdraw
  <2>1. PICK p \in Pkg : Client!Cancel(p)
    BY <1>3 DEF Withdraw
  <2>2. QED
    BY <1>0, <2>1, Parameters, ClientActions, ClientP!CancelIInv
<1>4. CASE Retry
  <2>1. ClientP!RunTaskTimeOut
    BY <1>4, ClientActions DEF Retry
  <2>2. QED
    BY <1>1, <2>1 DEF ClientP!Next
<1>5. CASE Deliver
  <2>1. Client!Deliver(Head(wire)) /\ wire # <<>>
    BY <1>5 DEF Deliver
  <2>2. Head(wire) \in ClientP!FinishedSignal
    BY <1>0, <2>1, HeadTailProperties
    DEF Client!FinishedSignal, ClientP!FinishedSignal, Client!Status, ClientP!Status,
        Client!Accepted, ClientP!Accepted
  <2>3. QED
    BY <1>0, <2>1, <2>2, Parameters, ClientActions, ClientP!DeliverIInv
<1>6. CASE Handle
  BY <1>0, <1>6, Parameters, ClientActions, ClientP!GetFinishedIInv DEF Handle
<1>7. CASE Dispatch
  <2>1. ClientP!Dispatch
    BY <1>7, ClientActions DEF Dispatch
  <2>2. QED
    BY <1>1, <2>1 DEF ClientP!Next, ClientP!Bus
<1>8. CASE OtherCall \/ NetworkOrDate \/ Activate \/ NmUpdateDone \/ \E t \in Thread : Work(t)
  BY <1>1, <1>8 DEF OtherCall, NetworkOrDate, Activate, NmUpdateDone, Work
<1>9. ASSUME NEW t \in Thread, Exit(t) PROVE ClientP!IInv'
  <2>1. PICK n \in 0 .. Len(calls) : calls' = SubSeq(calls, n + 1, Len(calls))
    BY <1>9 DEF Exit
  <2>2. calls \in Seq(ClientP!Call) /\ pkgStatus \in [Pkg -> ClientP!PkgStatus]
    BY <1>0 DEF ClientP!IInv, ClientP!TypeOK
  <2>3. Len(calls) \in Nat /\ \A i \in 1 .. Len(calls) : calls[i] \in ClientP!Call
    BY <2>2, LenProperties, ElementOfSeq
  <2>4. calls' \in Seq(ClientP!Call)
    BY <2>1, <2>3, SubSeqProperties
  <2>5. QED
    BY <1>0, <1>9, <2>2, <2>4, Parameters, ClientP!OthersIInv DEF Exit
<1>10. CASE UNCHANGED vars
  BY <1>1, <1>10 DEF vars
<1>11. QED
  BY <1>2, <1>3, <1>4, <1>5, <1>6, <1>7, <1>8, <1>9, <1>10 DEF Next

\* The operations that the client asks for are the daemon's.
LEMMA ClientCalls ==
  ASSUME IInv, calls # <<>>
  PROVE  /\ OpOf(Head(calls).op) \in JobOp /\ Head(calls).pkg \in Pkg
         /\ MethodOf(OpOf(Head(calls).op)) = Head(calls).op
<1>1. Head(calls) \in ClientP!Call
  BY HeadTailProperties DEF IInv, ClientP!IInv, ClientP!TypeOK
<1>2. QED
  BY <1>1 DEF ClientP!Call, ClientP!Method, OpOf, MethodOf, JobOp

LEMMA ServiceInvariant == IInv /\ [Next]_vars => ServiceP!IInv'
<1> SUFFICES ASSUME IInv, [Next]_vars PROVE ServiceP!IInv'
  OBVIOUS
<1>0. ServiceP!IInv
  BY DEF IInv
<1>1. ASSUME ServiceP!Next \/ UNCHANGED daemonVars PROVE ServiceP!IInv'
  BY <1>0, <1>1, Parameters, ServiceP!StepIInv DEF ServiceP!vars, daemonVars
<1>2. CASE ClientOnly
  <2>1. /\ UNCHANGED <<alive, main, lock, arg, nodep, worker, installedNum, stale, installed>>
        /\ sent' = {}
    BY <1>2 DEF ClientOnly, Service!Silent
  <2>2. QED
    BY <1>0, <2>1 DEF ServiceP!IInv, ServiceP!TypeOK, ServiceP!OneWorker,
       ServiceP!ServesItsCall, ServiceP!ArgGiven
<1>3. ASSUME NEW op \in Service!Op, NEW a \in Service!Arguments(op), Service!Call(op, a)
      PROVE  ServiceP!IInv'
  <2>1. op \in ServiceP!Op /\ a \in ServiceP!Arguments(op) /\ ServiceP!Call(op, a)
    BY <1>3, ServiceActions DEF Service!Op, ServiceP!Op, Service!ArgOp, ServiceP!ArgOp
  <2>2. QED
    BY <1>1, <2>1 DEF ServiceP!Next, ServiceP!Environment
<1>4. CASE Dispatch
  <2> DEFINE op == OpOf(Head(calls).op)
             a == [pkg |-> Head(calls).pkg, nodep |-> FALSE]
  <2>1. op \in JobOp /\ Head(calls).pkg \in Pkg
    BY <1>4, ClientCalls DEF Dispatch, Client!Dispatch
  <2>2. op \in Service!Op /\ a \in Service!Arguments(op)
    BY <2>1 DEF JobOp, Service!Op, Service!ArgOp, Service!Arguments
  <2>3. Service!Call(op, a)
    BY <1>4 DEF Dispatch
  <2>4. QED
    BY <1>3, <2>2, <2>3
<1>5. CASE OtherCall
  BY <1>3, <1>5, CallsAssumption DEF OtherCall
<1>6. CASE NetworkOrDate \/ Activate \/ NmUpdateDone
  BY <1>1, <1>6, ServiceActions
  DEF NetworkOrDate, Activate, NmUpdateDone, ServiceP!Next, ServiceP!Environment
<1>7. ASSUME NEW t \in Thread, Work(t) PROVE ServiceP!IInv'
  BY <1>1, <1>7, ServiceSteps DEF Work, ServiceP!Next
<1>8. ASSUME NEW t \in Thread, Exit(t) PROVE ServiceP!IInv'
  <2>1. Service!Step(t)
    BY <1>8 DEF Exit, Service!Step
  <2>2. QED
    BY <1>1, <2>1, ServiceSteps DEF ServiceP!Next
<1>9. CASE UNCHANGED vars
  BY <1>1, <1>9 DEF vars
<1>10. QED
  BY <1>2, <1>4, <1>5, <1>6, <1>7, <1>8, <1>9
  DEF Next, Ask, Withdraw, Retry, Deliver, Handle
-----------------------------------------------------------------------------

\* What Send puts on the wire.
LEMMA SetToSeqEmpty == SetToSeq({}) = <<>>
<1>1. Cardinality({}) = 0 /\ 1 .. 0 = {}
  BY FS_EmptySet
<1>2. <<>> \in [1 .. 0 -> {}] /\ \A f \in [1 .. 0 -> {}] : f = <<>>
  BY <1>1
<1>3. IsInjective(<<>>)
  BY DEF IsInjective
<1>4. QED
  BY <1>1, <1>2, <1>3 DEF SetToSeq

LEMMA SetToSeqSingleton ==
  ASSUME NEW x
  PROVE  SetToSeq({x}) = <<x>>
<1>1. Cardinality({x}) = 1 /\ 1 .. 1 = {1}
  BY FS_Singleton
<1>2. <<x>> \in [1 .. 1 -> {x}] /\ \A f \in [1 .. 1 -> {x}] : f = <<x>>
  BY <1>1
<1>3. IsInjective(<<x>>)
  BY <1>1 DEF IsInjective
<1>4. QED
  BY <1>1, <1>2, <1>3 DEF SetToSeq

LEMMA SendsNone ==
  ASSUME IInv, Send, sent' = {}
  PROVE  wire' = wire
<1>1. wire \in Seq(Client!FinishedSignal)
  BY DEF IInv
<1>2. wire' = wire \o <<>>
  BY SetToSeqEmpty DEF Send
<1>3. QED
  BY <1>1, <1>2, ConcatEmptySeq

LEMMA SendsOne ==
  ASSUME IInv, Send, NEW s, sent' = {s}, ServiceP!IInv'
  PROVE  /\ wire' \in Seq(Client!FinishedSignal)
         /\ DOMAIN wire = 1 .. Len(wire) /\ Len(wire) \in Nat
         /\ DOMAIN wire' = 1 .. Len(wire) + 1
         /\ \A i \in 1 .. Len(wire) : wire'[i] = wire[i]
         /\ wire'[Len(wire) + 1] = s
<1>1. wire \in Seq(Client!FinishedSignal)
  BY DEF IInv
<1>2. s \in Client!FinishedSignal
  <2>1. s \in ServiceP!Signal
    BY DEF ServiceP!IInv, ServiceP!TypeOK
  <2>2. QED
    BY <2>1 DEF ServiceP!Signal, ServiceP!FinishedStatus, Client!FinishedSignal,
       Client!Status, Client!Accepted
<1>3. wire' = wire \o <<s>>
  BY SetToSeqSingleton DEF Send
<1>4. <<s>> \in Seq(Client!FinishedSignal) /\ Len(<<s>>) = 1 /\ <<s>>[1] = s
  BY <1>2
<1>5. /\ wire' \in Seq(Client!FinishedSignal)
      /\ Len(wire') = Len(wire) + 1
      /\ \A i \in 1 .. Len(wire) + 1 :
           wire'[i] = IF i <= Len(wire) THEN wire[i] ELSE <<s>>[i - Len(wire)]
  BY <1>1, <1>3, <1>4, ConcatProperties
<1>6. /\ Len(wire) \in Nat /\ DOMAIN wire = 1 .. Len(wire)
      /\ DOMAIN wire' = 1 .. Len(wire')
  BY <1>1, <1>5, LenProperties
<1>7. QED
  BY <1>4, <1>5, <1>6

-----------------------------------------------------------------------------

\* What a step that neither makes nor spends any of the four leaves as it was:
\* the head of the queue, the signals with a name, the workers' arguments.
HeadKept ==
  taskQueue # <<>> => taskQueue' # <<>> /\ taskQueue'[1] = taskQueue[1]

SignalsKept ==
  \E k \in Nat :
    \A i \in DOMAIN wire' :
      Named(wire'[i]) => i \in Int /\ i + k \in DOMAIN wire /\ wire'[i] = wire[i + k]

WorkersKept ==
  \A t \in Thread :
    Active(t)' => Active(t) /\ (ServesHead(worker[t]) => ServesHead(worker[t])')

HandlingKept == Handling' => Handling /\ delivery'.signal = delivery.signal

LEMMA TokenKept ==
  ASSUME Token, HeadKept, SignalsKept, WorkersKept, HandlingKept,
         calls' = calls \/ calls' = <<>>, taskQueue # <<>> /\ served => served'
  PROVE  Token'
<1>1. NoWorker => NoWorker'
  BY DEF NoWorker, WorkersKept
<1>2. NoSignal => NoSignal'
  BY DEF NoSignal, SignalsKept
<1>3. ~Handling => ~Handling'
  BY DEF HandlingKept
<1>4. ASSUME NEW s, EndsHead(s) PROVE taskQueue' # <<>> /\ s.name = taskQueue'[1].name /\ served'
  BY <1>4 DEF EndsHead, HeadKept
<1>5. (Len(calls) <= 1)'
  BY DEF Token
<1>6. (calls # <<>> => CallAhead(calls[1]) /\ NoWorker /\ NoSignal /\ ~Handling)'
  BY <1>1, <1>2, <1>3 DEF Token, CallAhead, HeadKept
<1>7. ASSUME NEW t \in Thread, Active(t)'
      PROVE  (/\ ServesHead(worker[t])
              /\ \A u \in Thread : Active(u) => u = t
              /\ NoSignal /\ ~Handling)'
  BY <1>2, <1>3, <1>7 DEF Token, WorkersKept
<1>8. ASSUME NEW i \in DOMAIN wire', Named(wire'[i])
      PROVE  (/\ EndsHead(wire[i])
              /\ \A j \in DOMAIN wire : Named(wire[j]) => j = i
              /\ ~Handling)'
  <2>0. PICK k \in Nat :
          \A j \in DOMAIN wire' :
            Named(wire'[j]) => j \in Int /\ j + k \in DOMAIN wire /\ wire'[j] = wire[j + k]
    BY DEF SignalsKept
  <2>1. i \in Int /\ i + k \in DOMAIN wire /\ wire'[i] = wire[i + k] /\ Named(wire[i + k])
    BY <1>8, <2>0
  <2>2. EndsHead(wire[i + k]) /\ ~Handling
    BY <2>1 DEF Token
  <2>3. EndsHead(wire[i])'
    BY <1>4, <2>1, <2>2 DEF EndsHead
  <2>4. ASSUME NEW j \in DOMAIN wire', Named(wire'[j]) PROVE j = i
    <3>1. j \in Int /\ j + k \in DOMAIN wire /\ Named(wire[j + k])
      BY <2>0, <2>4
    <3>2. j + k = i + k
      BY <2>1, <3>1 DEF Token
    <3>3. QED
      BY <2>1, <3>1, <3>2
  <2>5. QED
    BY <1>3, <2>2, <2>3, <2>4
<1>9. (Handling => EndsHead(delivery.signal))'
  BY <1>4 DEF Token, HandlingKept, EndsHead
<1>10. QED
  BY <1>5, <1>6, <1>7, <1>8, <1>9 DEF Token

-----------------------------------------------------------------------------

LEMMA QueueHead ==
  ASSUME taskQueue # <<>>, ClientP!IInv
  PROVE  /\ 1 \in DOMAIN taskQueue /\ Head(taskQueue) = taskQueue[1]
         /\ taskQueue[1].name \in Pkg /\ taskQueue[1].action \in ClientP!Action
         /\ Client!CallOf(taskQueue[1]).pkg = taskQueue[1].name
         /\ Client!CallOf(taskQueue[1]).op \in ClientP!Method
<1>1. taskQueue \in Seq(ClientP!Task)
  BY DEF ClientP!IInv, ClientP!TypeOK
<1>2. 1 \in DOMAIN taskQueue /\ taskQueue[1] \in ClientP!Task
  BY <1>1, EmptySeq, LenProperties, ElementOfSeq
<1>3. QED
  BY <1>1, <1>2 DEF ClientP!Task, ClientP!Action, Client!CallOf, ClientP!Method

LEMMA RunningKept ==
  ASSUME ClientP!IInv, ClientP!IInv', HeadKept, taskQueue # <<>>
  PROVE  Running = {Client!CallOf(taskQueue[1])} /\ Running' = Running
<1>1. taskQueue' # <<>> /\ taskQueue'[1] = taskQueue[1]
  BY DEF HeadKept
<1>2. Head(taskQueue) = taskQueue[1]
  BY QueueHead
<1>3. Head(taskQueue') = taskQueue'[1]
  <2>1. taskQueue' \in Seq(ClientP!Task)
    BY DEF ClientP!IInv, ClientP!TypeOK
  <2>2. QED
    BY <1>1, <2>1
<1>4. QED
  BY <1>1, <1>2, <1>3 DEF Running

\* The history follows the running task.
LEMMA TrackGrows ==
  ASSUME ClientP!IInv, ClientP!IInv', HeadKept, taskQueue # <<>>,
         NEW executed, Track(executed)
  PROVE  /\ served => served'
         /\ Client!CallOf(taskQueue[1]) \in executed => served'
  BY RunningKept DEF Track

\* A step at the client that keeps the head of the queue.
LEMMA ClientToken ==
  ASSUME IInv, Token, ClientP!IInv', ClientOnly, HeadKept, SignalsKept, HandlingKept,
         calls' = calls
  PROVE  Token'
<1>1. worker' = worker /\ arg' = arg /\ Track({})
  BY DEF ClientOnly
<1>2. taskQueue # <<>> /\ served => served'
  BY TrackGrows, <1>1 DEF IInv
<1>3. WorkersKept
  BY <1>1, <1>2 DEF WorkersKept, Active, ServesHead, HeadKept
<1>4. QED
  BY <1>2, <1>3, TokenKept

\* None of the three but perhaps the call.
LEMMA OnlyCall ==
  ASSUME NoWorker', NoSignal', ~Handling', (Len(calls) <= 1)',
         (calls # <<>> => CallAhead(calls[1]))'
  PROVE  Token'
  BY DEF Token, NoWorker, NoSignal

LEMMA WireKept ==
  ASSUME IInv, wire' = wire
  PROVE  SignalsKept
<1>1. DOMAIN wire = 1 .. Len(wire) /\ Len(wire) \in Nat
  BY LenProperties DEF IInv
<1>2. \A i \in DOMAIN wire' : i \in Int /\ i + 0 = i
  BY <1>1
<1>3. QED
  BY <1>2 DEF SignalsKept

\* A task is queued behind the running one, or handed to the daemon at once.
LEMMA AskKeepsHead ==
  ASSUME IInv, Ask
  PROVE  HeadKept /\ (taskQueue # <<>> => calls' = calls)
<1> SUFFICES ASSUME taskQueue # <<>>
             PROVE  taskQueue' # <<>> /\ taskQueue'[1] = taskQueue[1] /\ calls' = calls
  BY DEF HeadKept
<1>1. PICK p \in Pkg, action \in Requests : Client!Enqueue(p, action)
  BY DEF Ask
<1> DEFINE t == [name |-> p, action |-> action, status |-> ""]
           q == Append(taskQueue, t)
<1>2. taskQueue \in Seq(ClientP!Task) /\ t \in ClientP!Task
  BY CallsAssumption
  DEF IInv, ClientP!IInv, ClientP!TypeOK, ClientP!Task, ClientP!TaskStatus,
      ClientP!Action, Client!Action
<1>3. Len(taskQueue) \in Nat \ {0}
  BY <1>2, EmptySeq
<1>4. q # <<>> /\ Len(q) = Len(taskQueue) + 1 /\ q[1] = taskQueue[1]
  <2> HIDE DEF t
  <2>1. QED
    BY <1>2, <1>3, AppendProperties
<1>5. Len(q) # 1
  <2> HIDE DEF q
  <2>1. QED
    BY <1>3, <1>4
<1>6. taskQueue' = q /\ calls' = calls
  BY <1>1, <1>5 DEF Client!Enqueue
<1>7. QED
  BY <1>4, <1>6

LEMMA AskToken ==
  ASSUME IInv, Token, ClientP!IInv', Ask
  PROVE  Token'
<1>1. PICK p \in Pkg, action \in Requests : Client!Enqueue(p, action)
  BY DEF Ask
<1>2. /\ delivery.left = 0 /\ delivery' = delivery /\ wire' = wire
      /\ worker' = worker /\ arg' = arg /\ ClientOnly
  BY <1>1 DEF Ask, ClientOnly, Client!Enqueue, Client!Idle
<1>3. ~Handling /\ ~Handling'
  BY <1>2 DEF Handling
<1>4. CASE taskQueue # <<>>
  BY <1>2, <1>3, <1>4, AskKeepsHead, WireKept, ClientToken DEF HandlingKept
<1>5. CASE taskQueue = <<>>
  <2> DEFINE t == [name |-> p, action |-> action, status |-> ""]
             q == Append(taskQueue, t)
  <2>1. NoWorker /\ NoSignal /\ calls = <<>>
    BY <1>5 DEF Token, NoWorker, NoSignal, CallAhead, ServesHead, EndsHead
  <2>2. NoWorker' /\ NoSignal'
    BY <1>2, <2>1 DEF NoWorker, NoSignal, Active
  <2>3. t.status # "doing"
    OBVIOUS
  <2> HIDE DEF t
  <2>4. Len(q) = 1 /\ q # <<>> /\ q[1] = t /\ Head(q) = t /\ DOMAIN q = 1 .. 1
    BY <1>5
  <2>5. Client!RunTask(q, doingPkg)
    BY <1>1, <2>4 DEF Client!Enqueue, t
  <2>6. taskQueue' = [q EXCEPT ![1].status = "doing"] /\ calls' = Append(calls, Client!CallOf(t))
    <3> HIDE DEF q
    <3>1. QED
      BY <2>3, <2>4, <2>5 DEF Client!RunTask
  <2>7. taskQueue' # <<>> /\ taskQueue'[1] = [t EXCEPT !.status = "doing"]
    BY <2>4, <2>6
  <2>8. Client!CallOf(taskQueue'[1]) = Client!CallOf(t)
    BY <2>7 DEF Client!CallOf, t
  <2>9. Len(calls') = 1 /\ calls'[1] = Client!CallOf(t)
    BY <2>1, <2>6
  <2>10. QED
    BY <1>3, <2>2, <2>7, <2>8, <2>9, OnlyCall DEF CallAhead
<1>6. QED
  BY <1>4, <1>5

\* A task that waits is withdrawn: never the first.
LEMMA WithdrawKeepsHead ==
  ASSUME IInv, Withdraw
  PROVE  HeadKept
<1>1. PICK p \in Pkg : Client!Cancel(p)
  BY DEF Withdraw
<1>2. PICK i \in DOMAIN taskQueue :
        taskQueue[i].status # "doing" /\ taskQueue' = Client!RemoveAt(taskQueue, i)
  BY <1>1 DEF Client!Cancel
<1>3. taskQueue \in Seq(ClientP!Task)
  BY DEF IInv, ClientP!IInv, ClientP!TypeOK
<1>4. i # 1 /\ i \in 1 .. Len(taskQueue) /\ Len(taskQueue) \in Nat
  BY <1>2, <1>3, LenProperties DEF IInv, ClientP!IInv, ClientP!OnlyHeadRuns
<1> DEFINE before == SubSeq(taskQueue, 1, i - 1)
           after  == SubSeq(taskQueue, i + 1, Len(taskQueue))
<1>5. \A j \in 1 .. Len(taskQueue) : taskQueue[j] \in ClientP!Task
  BY <1>3, ElementOfSeq
<1>6. /\ before \in Seq(ClientP!Task) /\ Len(before) = i - 1
      /\ before[1] = taskQueue[1]
  BY <1>4, <1>5, SubSeqProperties
<1>7. after \in Seq(ClientP!Task) /\ Len(after) \in Nat
  BY <1>4, <1>5, SubSeqProperties, LenProperties
<1>8. taskQueue' = before \o after
  BY <1>2 DEF Client!RemoveAt
<1> HIDE DEF before, after
<1>9. /\ taskQueue' \in Seq(ClientP!Task)
      /\ Len(taskQueue') >= 1 /\ taskQueue'[1] = before[1]
  BY <1>4, <1>6, <1>7, <1>8, ConcatProperties
<1>10. QED
  BY <1>6, <1>9, EmptySeq DEF HeadKept

LEMMA WithdrawToken ==
  ASSUME IInv, Token, ClientP!IInv', Withdraw
  PROVE  Token'
<1>1. /\ ClientOnly /\ calls' = calls /\ wire' = wire
      /\ delivery.left = 0 /\ delivery' = delivery
  BY DEF Withdraw, Client!Cancel, Client!Idle
<1>2. HandlingKept
  BY <1>1 DEF HandlingKept, Handling
<1>3. QED
  BY <1>1, <1>2, WithdrawKeepsHead, WireKept, ClientToken

\* The oldest signal leaves the wire, and is handled if it names a task.
LEMMA DeliverToken ==
  ASSUME IInv, Token, ClientP!IInv', Deliver
  PROVE  Token'
<1>1. /\ wire # <<>> /\ wire' = Tail(wire) /\ ClientOnly
      /\ taskQueue' = taskQueue /\ calls' = calls
      /\ delivery.left = 0 /\ delivery'.left = Instances
      /\ delivery'.signal = Head(wire)
  BY DEF Deliver, Client!Deliver, Client!Idle
<1>2. wire \in Seq(Client!FinishedSignal)
  BY DEF IInv
<1>3. /\ Len(wire) \in Nat \ {0} /\ DOMAIN wire = 1 .. Len(wire)
      /\ DOMAIN wire' = 1 .. Len(wire) - 1
      /\ \A i \in 1 .. Len(wire) - 1 : wire'[i] = wire[i + 1]
  BY <1>1, <1>2, EmptySeq, LenProperties, HeadTailProperties
<1>4. Head(wire) = wire[1]
  BY <1>2, <1>3
<1>5. ~Handling /\ HeadKept
  BY <1>1 DEF Handling, HeadKept
<1>6. worker' = worker /\ arg' = arg /\ Track({})
  BY <1>1 DEF ClientOnly
<1>7. CASE Named(wire[1])
  <2>1. EndsHead(wire[1]) /\ \A j \in DOMAIN wire : Named(wire[j]) => j = 1
    BY <1>3, <1>7 DEF Token
  <2>2. NoSignal'
    BY <1>3, <2>1 DEF NoSignal
  <2>3. NoWorker' /\ calls = <<>>
    BY <1>3, <1>6, <1>7 DEF Token, NoWorker, NoSignal, Active
  <2>4. served'
    BY <1>5, <1>6, <2>1, TrackGrows DEF EndsHead, IInv
  <2>5. EndsHead(delivery.signal)'
    BY <1>1, <1>4, <2>1, <2>4 DEF EndsHead
  <2>6. QED
    BY <1>1, <2>2, <2>3, <2>5 DEF Token, NoWorker, NoSignal
<1>8. CASE ~Named(wire[1])
  <2>1. ~Handling'
    <3>1. ASSUME NEW i \in DOMAIN taskQueue PROVE taskQueue[i].name # NoPkg
      <4>1. taskQueue \in Seq(ClientP!Task)
        BY DEF IInv, ClientP!IInv, ClientP!TypeOK
      <4>2. taskQueue[i] \in ClientP!Task
        BY <4>1, LenProperties, ElementOfSeq
      <4>3. QED
        BY <4>2, NamesAssumption DEF ClientP!Task
    <3>2. delivery'.signal.name = NoPkg
      BY <1>1, <1>4, <1>8 DEF Named
    <3>3. QED
      BY <1>1, <3>1, <3>2 DEF Handling
  <2>2. SignalsKept
    <3>1. \A i \in DOMAIN wire' : i \in Int /\ i + 1 \in DOMAIN wire /\ wire'[i] = wire[i + 1]
      BY <1>3
    <3>2. QED
      BY <3>1 DEF SignalsKept
  <2>3. QED
    BY <1>1, <1>5, <2>1, <2>2, ClientToken DEF HandlingKept
<1>9. QED
  BY <1>7, <1>8

\* Only the handler of a signal that names the running task ends it.
LEMMA HandleKeepsHead ==
  ASSUME IInv, Handle, ~Handling
  PROVE  HeadKept
<1>1. ClientP!GetFinished
  BY ClientActions DEF Handle
<1>2. ASSUME NEW i \in DOMAIN taskQueue, ClientP!Completes(delivery.signal.name, i)
      PROVE  FALSE
  BY <1>1, <1>2 DEF ClientP!GetFinished, ClientP!Completes, Handling
<1>3. taskQueue' = taskQueue
  BY <1>1, <1>2 DEF ClientP!GetFinished
<1>4. QED
  BY <1>3 DEF HeadKept

\* The signal ends the running task and the next one's call goes out, or the
\* handler finds nothing to end.
LEMMA HandleToken ==
  ASSUME IInv, Token, ClientP!IInv', Handle
  PROVE  Token'
<1> DEFINE name == delivery.signal.name
           acted == delivery.signal.status \in ClientP!Accepted /\ name \in Pkg
           found == acted /\ \E i \in DOMAIN taskQueue : ClientP!Completes(name, i)
<1>1. ClientP!GetFinished /\ ClientOnly /\ wire' = wire
  BY ClientActions DEF Handle
<1>2. /\ delivery.left > 0 /\ delivery.left \in Nat /\ delivery.completed \in Nat
      /\ delivery'.signal = IF delivery.left = 1 THEN ClientP!NoSignal ELSE delivery.signal
      /\ delivery'.left = delivery.left - 1
      /\ delivery'.completed = delivery.completed + (IF found THEN 1 ELSE 0)
  BY <1>1 DEF ClientP!GetFinished, IInv, ClientP!IInv, ClientP!TypeOK
<1>3. CASE ~found
  <2>1. taskQueue' = taskQueue /\ calls' = calls
    BY <1>1, <1>3 DEF ClientP!GetFinished
  <2>2. HandlingKept
    BY <1>2, <2>1 DEF HandlingKept, Handling
  <2>3. QED
    BY <1>1, <2>1, <2>2, WireKept, ClientToken DEF HeadKept
<1>4. CASE found
  <2>1. PICK i \in DOMAIN taskQueue :
          /\ ClientP!Completes(name, i)
          /\ ClientP!RunTask(Tail([taskQueue EXCEPT ![i].status = "done"]), NoPkg)
    BY <1>1, <1>4 DEF ClientP!GetFinished
  <2>2. i = 1 /\ taskQueue # <<>> /\ taskQueue[1].name = name
    BY <2>1, Parameters, ClientP!CompletedIsHead DEF IInv, ClientP!IInv
  <2>3. Handling
    BY <1>2, <2>2, <2>1 DEF Handling
  <2>4. calls = <<>> /\ NoWorker /\ NoSignal
    BY <2>3 DEF Token, NoWorker, NoSignal
  <2>5. NoWorker' /\ NoSignal'
    BY <1>1, <2>4 DEF ClientOnly, NoWorker, NoSignal, Active
  <2>6. ~Handling'
    <3>1. delivery'.left > 0 => delivery'.completed = 1
      BY <1>2, <1>4 DEF ClientP!IInv, ClientP!SignalSpent
    <3>2. QED
      BY <3>1 DEF Handling, ClientP!IInv, ClientP!SignalSpent
  <2> DEFINE q == Tail([taskQueue EXCEPT ![1].status = "done"])
  <2>7. ClientP!Unstarted(q) /\ ClientP!RunTask(q, NoPkg)
    BY <2>1, <2>2, Parameters, ClientP!TailUnstarted DEF IInv, ClientP!IInv
  <2> HIDE DEF q
  <2>8. CASE q = <<>>
    <3>1. calls' = <<>>
      BY <2>4, <2>7, <2>8 DEF ClientP!RunTask
    <3>2. QED
      BY <2>5, <2>6, <3>1, OnlyCall
  <2>9. CASE q # <<>>
    <3>1. q \in Seq(ClientP!Task) /\ 1 \in DOMAIN q /\ 1 \in 1 .. Len(q)
      <4>1. q \in Seq(ClientP!Task)
        BY <2>7 DEF ClientP!Unstarted
      <4>2. Len(q) \in Nat \ {0} /\ DOMAIN q = 1 .. Len(q)
        BY <2>9, <4>1, EmptySeq, LenProperties
      <4>3. QED
        BY <4>1, <4>2
    <3>2. Head(q) = q[1] /\ q[1].status = "" /\ q[1] \in ClientP!Task
      <4>1. q[1].status = ""
        BY <2>7, <3>1 DEF ClientP!Unstarted
      <4>2. q[1] \in ClientP!Task
        BY <3>1, ElementOfSeq
      <4>3. Head(q) = q[1]
        BY <3>1
      <4>4. QED
        BY <4>1, <4>2, <4>3
    <3>3. /\ taskQueue' = [q EXCEPT ![1].status = "doing"]
          /\ calls' = Append(calls, ClientP!CallOf(q[1]))
      BY <2>7, <2>9, <3>2 DEF ClientP!RunTask
    <3>4. taskQueue' # <<>> /\ taskQueue'[1] = [q[1] EXCEPT !.status = "doing"]
      BY <2>9, <3>1, <3>3
    <3>5. taskQueue'[1].name = q[1].name /\ taskQueue'[1].action = q[1].action
      BY <3>2, <3>4 DEF ClientP!Task
    <3>6. ClientP!CallOf(q[1]) = Client!CallOf(taskQueue'[1])
      BY <3>5 DEF ClientP!CallOf, Client!CallOf
    <3>7. Len(calls') = 1 /\ calls'[1] = ClientP!CallOf(q[1])
      BY <2>4, <3>3
    <3>8. QED
      BY <2>5, <2>6, <3>4, <3>6, <3>7, OnlyCall DEF CallAhead
  <2>10. QED
    BY <2>8, <2>9
<1>5. QED
  BY <1>3, <1>4

-----------------------------------------------------------------------------

\* What a call makes of the workers.
LEMMA CallWorkers ==
  ASSUME ServiceP!IInv, NEW op, NEW a, Service!Call(op, a)
  PROVE  \E t \in Thread :
           /\ worker'[t].pc = "spawned" /\ worker'[t].op = op
           /\ \A u \in Thread \ {t} : /\ worker'[u].pc = worker[u].pc
                                       /\ worker'[u].op = worker[u].op
                                       /\ worker'[u].target = worker[u].target
<1>1. PICK t \in Thread : worker' = [Service!Overtaken(op) EXCEPT ![t] = Service!Spawned(op, a)]
  BY DEF Service!Call
<1>2. worker'[t] = Service!Spawned(op, a)
  BY <1>1 DEF Service!Overtaken
<1>3. worker'[t].pc = "spawned" /\ worker'[t].op = op
  BY <1>2 DEF Service!Spawned, Service!Ended
<1>4. ASSUME NEW u \in Thread \ {t}
      PROVE  /\ worker'[u].pc = worker[u].pc /\ worker'[u].op = worker[u].op
             /\ worker'[u].target = worker[u].target
  <2>1. \E b : worker'[u] = [worker[u] EXCEPT !.alone = b]
    BY <1>1 DEF Service!Overtaken
  <2>2. worker[u] \in ServiceP!Worker
    BY DEF ServiceP!IInv, ServiceP!TypeOK
  <2>3. QED
    BY <2>1, <2>2 DEF ServiceP!Worker
<1>5. QED
  BY <1>3, <1>4

\* The call becomes a worker, with its argument.
LEMMA DispatchToken ==
  ASSUME IInv, Token, ClientP!IInv', Dispatch
  PROVE  Token'
<1> DEFINE op == OpOf(Head(calls).op)
           a == [pkg |-> Head(calls).pkg, nodep |-> FALSE]
<1>1. /\ calls # <<>> /\ calls' = Tail(calls) /\ Service!Call(op, a)
      /\ UNCHANGED <<taskQueue, delivery, wire>> /\ Track({})
  BY DEF Dispatch, Client!Dispatch
<1>2. calls \in Seq(ClientP!Call) /\ Len(calls) <= 1
  BY DEF IInv, ClientP!IInv, ClientP!TypeOK, Token
<1>3. calls' = <<>> /\ Head(calls) = calls[1]
  BY <1>1, <1>2, EmptySeq, HeadTailProperties
<1>4. CallAhead(calls[1]) /\ NoWorker /\ NoSignal /\ ~Handling
  BY <1>1 DEF Token
<1>5. op \in JobOp /\ MethodOf(op) = Client!CallOf(taskQueue[1]).op
  BY <1>1, <1>3, <1>4, ClientCalls DEF CallAhead
<1>6. a.pkg = taskQueue[1].name
  BY <1>3, <1>4 DEF CallAhead, Client!CallOf
<1>7. arg' = taskQueue[1].name
  BY <1>1, <1>5, <1>6 DEF Service!Call, Service!ArgOp, JobOp
<1> HIDE DEF op, a
<1>8. PICK t \in Thread :
        /\ worker'[t].pc = "spawned" /\ worker'[t].op = op
        /\ \A u \in Thread \ {t} : /\ worker'[u].pc = worker[u].pc
                                    /\ worker'[u].op = worker[u].op
                                    /\ worker'[u].target = worker[u].target
  BY <1>1, CallWorkers DEF IInv
<1>9. \A u \in Thread : Active(u)' => u = t
  BY <1>4, <1>8 DEF Active, NoWorker
<1>10. ServesHead(worker[t])'
  BY <1>1, <1>4, <1>5, <1>7, <1>8 DEF ServesHead, CallAhead
<1>11. NoSignal' /\ ~Handling'
  BY <1>1, <1>4 DEF NoSignal, Handling
<1>12. QED
  BY <1>3, <1>9, <1>10, <1>11 DEF Token, NoSignal

\* A step of the daemon that leaves the client, the wire and the argument.
LEMMA ServiceToken ==
  ASSUME IInv, Token, ClientP!IInv', UNCHANGED clientVars, wire' = wire, arg' = arg,
         Track({}),
         \A t \in Thread :
           Active(t)' => Active(t) /\ worker'[t].pc = worker[t].pc
                         /\ worker'[t].op = worker[t].op
                         /\ worker'[t].target = worker[t].target
  PROVE  Token'
<1>1. /\ taskQueue' = taskQueue /\ calls' = calls /\ delivery' = delivery
      /\ HeadKept /\ HandlingKept
  BY DEF clientVars, HeadKept, HandlingKept, Handling
<1>2. taskQueue # <<>> /\ served => served'
  BY <1>1, TrackGrows DEF IInv
<1>3. WorkersKept
  BY <1>1, <1>2 DEF WorkersKept, ServesHead
<1>4. QED
  BY <1>1, <1>2, <1>3, WireKept, TokenKept

\* A call of another client that has no argument.
LEMMA OtherCallToken ==
  ASSUME OtherOps \cap Service!ArgOp = {}, IInv, Token, ClientP!IInv', OtherCall
  PROVE  Token'
<1>1. PICK op \in OtherOps : \E a \in Service!Arguments(op) : Service!Call(op, a)
  BY DEF OtherCall
<1>2. PICK a \in Service!Arguments(op) : Service!Call(op, a)
  BY <1>1
<1>3. op \notin Service!ArgOp /\ arg' = arg
  BY <1>2 DEF Service!Call
<1>4. PICK t \in Thread :
        /\ worker'[t].pc = "spawned" /\ worker'[t].op = op
        /\ \A u \in Thread \ {t} : /\ worker'[u].pc = worker[u].pc
                                    /\ worker'[u].op = worker[u].op
                                    /\ worker'[u].target = worker[u].target
  BY <1>2, CallWorkers DEF IInv
<1>5. \A u \in Thread :
        Active(u)' => Active(u) /\ worker'[u].pc = worker[u].pc
                      /\ worker'[u].op = worker[u].op
                      /\ worker'[u].target = worker[u].target
  BY <1>3, <1>4 DEF Active
<1>6. QED
  BY <1>3, <1>5, ServiceToken DEF OtherCall

LEMMA NetworkOrDateToken ==
  ASSUME IInv, Token, ClientP!IInv', NetworkOrDate
  PROVE  Token'
<1>1. arg' = arg /\ worker' = worker
  BY DEF NetworkOrDate, Service!NmOnline, Service!BecomeStale
<1>2. QED
  BY <1>1, ServiceToken DEF NetworkOrDate, Active

\* A process that starts has at most a worker that updates.
LEMMA ActivateToken ==
  ASSUME IInv, Token, ClientP!IInv', Activate
  PROVE  Token'
<1>1. PICK t \in Thread, reachable \in BOOLEAN : worker' = ServiceP!Starting(t, reachable)
  BY ServiceActions DEF Activate, ServiceP!Activate
<1>2. \A u \in Thread : worker'[u].op \in {"update", "list"}
  BY <1>1, Parameters, ServiceP!StartingWorkers
<1>3. \A u \in Thread : ~Active(u)'
  BY <1>2 DEF Active, Service!ArgOp
<1>4. /\ taskQueue' = taskQueue /\ calls' = calls /\ delivery' = delivery
      /\ wire' = wire /\ Track({})
  BY DEF Activate, clientVars
<1>5. HeadKept /\ HandlingKept
  BY <1>4 DEF HeadKept, HandlingKept, Handling
<1>6. taskQueue # <<>> /\ served => served'
  BY <1>4, <1>5, TrackGrows DEF IInv
<1>7. QED
  BY <1>3, <1>4, <1>5, <1>6, WireKept, TokenKept DEF WorkersKept

\* No signal, or one without a name.
Nameless(S) == S = {} \/ \E s : S = {s} /\ s.name = NoPkg

LEMMA NamelessSignal == \A st : Nameless({[name |-> NoPkg, status |-> st]})
  BY DEF Nameless

\* It goes on the wire, and nothing that has a name.
LEMMA AnonymousKept ==
  ASSUME IInv, ServiceP!IInv', Send, Nameless(sent')
  PROVE  SignalsKept
<1>1. CASE sent' = {}
  BY <1>1, SendsNone, WireKept
<1>2. ASSUME NEW s, sent' = {s}, s.name = NoPkg PROVE SignalsKept
  <2>1. /\ DOMAIN wire = 1 .. Len(wire) /\ Len(wire) \in Nat
        /\ DOMAIN wire' = 1 .. Len(wire) + 1
        /\ \A i \in 1 .. Len(wire) : wire'[i] = wire[i]
        /\ wire'[Len(wire) + 1] = s
    BY <1>2, SendsOne
  <2>2. ASSUME NEW i \in DOMAIN wire', Named(wire'[i])
        PROVE  i \in Int /\ i + 0 \in DOMAIN wire /\ wire'[i] = wire[i + 0]
    <3>1. i # Len(wire) + 1
      BY <1>2, <2>1, <2>2 DEF Named
    <3>2. QED
      BY <2>1, <3>1
  <2>3. QED
    BY <2>2 DEF SignalsKept
<1>3. QED
  BY <1>1, <1>2 DEF Nameless

LEMMA NmUpdateDoneToken ==
  ASSUME IInv, Token, ClientP!IInv', ServiceP!IInv', NmUpdateDone
  PROVE  Token'
<1>1. /\ taskQueue' = taskQueue /\ calls' = calls /\ delivery' = delivery
      /\ worker' = worker /\ arg' = arg /\ Track({}) /\ Send
      /\ sent' = {[name |-> NoPkg, status |-> "UPDATED"]}
  BY DEF NmUpdateDone, Service!NmUpdateDone, Service!Emit, clientVars
<1>2. HeadKept /\ HandlingKept /\ SignalsKept
  BY <1>1, NamelessSignal, AnonymousKept DEF HeadKept, HandlingKept, Handling
<1>3. taskQueue # <<>> /\ served => served'
  BY <1>1, <1>2, TrackGrows DEF IInv
<1>4. WorkersKept
  BY <1>1, <1>3 DEF WorkersKept, Active, ServesHead
<1>5. QED
  BY <1>1, <1>2, <1>3, <1>4, TokenKept

\* A worker's step, none of whose signals has a name, and after which the
\* worker, if it has a call to serve, still serves it.
LEMMA WorkToken ==
  ASSUME IInv, Token, ClientP!IInv', ServiceP!IInv', NEW t \in Thread, Work(t),
         arg' = arg,
         Nameless(sent'),
         NEW w, worker' = [worker EXCEPT ![t] = w],
         w.op \in Service!ArgOp /\ w.pc \notin {"unlocking", "ended"} =>
           /\ Active(t) /\ w.op = worker[t].op
           /\ w.pc = "working" => w.target.pkg = arg
           /\ w.pc = "done" => /\ worker[t].pc = "working"
                               /\ w.target.pkg = worker[t].target.pkg
  PROVE  Token'
<1>1. /\ taskQueue' = taskQueue /\ calls' = calls /\ delivery' = delivery
      /\ Track(Executed(t)) /\ Send
  BY DEF Work, clientVars
<1>2. HeadKept /\ HandlingKept /\ SignalsKept
  BY <1>1, AnonymousKept DEF HeadKept, HandlingKept, Handling
<1>3. worker'[t] = w /\ \A u \in Thread \ {t} : worker'[u] = worker[u]
  BY DEF IInv, ServiceP!IInv, ServiceP!TypeOK
<1>4. taskQueue # <<>> =>
        /\ served => served'
        /\ Client!CallOf(taskQueue[1]) \in Executed(t) => served'
  BY <1>1, <1>2, TrackGrows DEF IInv
<1>5. ASSUME NEW u \in Thread \ {t}, Active(u)'
      PROVE  Active(u) /\ (ServesHead(worker[u]) => ServesHead(worker[u])')
  BY <1>1, <1>3, <1>4, <1>5 DEF Active, ServesHead
<1>6. ASSUME Active(t)'
      PROVE  Active(t) /\ (ServesHead(worker[t]) => ServesHead(worker[t])')
  <2>1. /\ Active(t) /\ w.op = worker[t].op
        /\ w.pc = "working" => w.target.pkg = arg
        /\ w.pc = "done" => /\ worker[t].pc = "working"
                            /\ w.target.pkg = worker[t].target.pkg
    BY <1>3, <1>6 DEF Active
  <2>2. ASSUME ServesHead(worker[t]), w.pc = "done" PROVE served'
    <3>1. /\ taskQueue # <<>> /\ worker[t].target.pkg = taskQueue[1].name
          /\ MethodOf(worker[t].op) = Client!CallOf(taskQueue[1]).op
      BY <2>1, <2>2 DEF ServesHead
    <3>2. Executed(t) = {[op |-> MethodOf(worker[t].op), pkg |-> worker[t].target.pkg]}
      BY <1>3, <2>1, <2>2 DEF Executed
    <3>3. Client!CallOf(taskQueue[1]) =
            [op |-> MethodOf(worker[t].op), pkg |-> worker[t].target.pkg]
      BY <3>1 DEF Client!CallOf
    <3>4. QED
      BY <1>4, <3>1, <3>2, <3>3
  <2>3. ASSUME ServesHead(worker[t]) PROVE ServesHead(worker[t])'
    BY <1>1, <1>3, <2>1, <2>2, <2>3 DEF ServesHead
  <2>4. QED
    BY <2>1, <2>3
<1>7. WorkersKept
  BY <1>5, <1>6 DEF WorkersKept
<1>8. QED
  BY <1>1, <1>2, <1>4, <1>7, TokenKept

\* The worker that has served the head sends the signal that ends it.
LEMMA ReplyToken ==
  ASSUME IInv, Token, ClientP!IInv', ServiceP!IInv', NEW t \in Thread, Work(t),
         Service!Reply(t), worker[t].op \in Service!ArgOp
  PROVE  Token'
<1> DEFINE s == [name |-> arg, status |-> Service!ReplyStatus(worker[t])]
<1>1. /\ taskQueue' = taskQueue /\ calls' = calls /\ delivery' = delivery
      /\ Track(Executed(t)) /\ Send
  BY DEF Work, clientVars
<1>2. sent' = {s} /\ s.name = arg
  BY DEF Service!Reply, Service!Emit
<1> HIDE DEF s
<1>3. /\ Active(t) /\ worker[t].pc = "done"
  BY DEF Service!Reply, Active
<1>4. /\ ServesHead(worker[t]) /\ NoSignal /\ ~Handling
      /\ \A u \in Thread : Active(u) => u = t
  BY <1>3 DEF Token
<1>5. calls = <<>>
  BY <1>3 DEF Token, NoWorker
<1>6. worker'[t].pc = "unlocking" /\ \A u \in Thread \ {t} : worker'[u] = worker[u]
  BY DEF Service!Reply, Service!Ended, IInv, ServiceP!IInv, ServiceP!TypeOK
<1>7. NoWorker'
  BY <1>4, <1>6 DEF NoWorker, Active
<1>8. HeadKept /\ ~Handling'
  BY <1>1, <1>4 DEF HeadKept, Handling
<1>9. taskQueue' # <<>> /\ s.name = taskQueue'[1].name /\ served'
  <2>1. taskQueue # <<>> /\ served /\ arg = taskQueue[1].name
    BY <1>3, <1>4 DEF ServesHead
  <2>2. served'
    BY <1>1, <1>8, <2>1, TrackGrows DEF IInv
  <2>3. QED
    BY <1>1, <1>2, <2>1, <2>2
<1>10. /\ DOMAIN wire = 1 .. Len(wire) /\ Len(wire) \in Nat
       /\ DOMAIN wire' = 1 .. Len(wire) + 1
       /\ \A i \in 1 .. Len(wire) : wire'[i] = wire[i]
       /\ wire'[Len(wire) + 1] = s
  BY <1>1, <1>2, SendsOne
<1>11. \A i \in DOMAIN wire' : Named(wire'[i]) => i = Len(wire) + 1
  BY <1>4, <1>10 DEF NoSignal
<1>12. ASSUME NEW i \in DOMAIN wire', Named(wire'[i])
       PROVE  EndsHead(wire[i])' /\ \A j \in DOMAIN wire' : Named(wire'[j]) => j = i
  BY <1>9, <1>10, <1>11, <1>12 DEF EndsHead
<1>13. QED
  BY <1>1, <1>5, <1>7, <1>8, <1>12 DEF Token, NoWorker

\* The daemon's workers, step by step.
LEMMA WorkerToken ==
  ASSUME IInv, Token, ClientP!IInv', ServiceP!IInv', NEW t \in Thread, Work(t)
  PROVE  Token'
<1>1. worker \in [Thread -> ServiceP!Worker] /\ worker[t] \in ServiceP!Worker
  BY DEF IInv, ServiceP!IInv, ServiceP!TypeOK
<1>2. ASSUME NEW pc, worker' = [worker EXCEPT ![t].pc = pc], arg' = arg,
             worker[t].pc \in {"spawned", "checking", "updating"},
             pc \notin {"working", "done"},
             Nameless(sent')
      PROVE  Token'
  <2> DEFINE w == [worker[t] EXCEPT !.pc = pc]
  <2>1. w.pc = pc /\ w.op = worker[t].op
    BY <1>1 DEF ServiceP!Worker
  <2>2. worker' = [worker EXCEPT ![t] = w]
    BY <1>2
  <2> HIDE DEF w
  <2>3. w.op \in Service!ArgOp /\ w.pc \notin {"unlocking", "ended"} => Active(t)
    BY <1>2, <2>1 DEF Active
  <2>4. QED
    BY <1>2, <2>1, <2>2, <2>3, WorkToken
<1>3. ASSUME NEW w, worker' = [worker EXCEPT ![t] = w], arg' = arg,
             w.pc \in {"unlocking", "ended"},
             Nameless(sent')
      PROVE  Token'
  BY <1>3, WorkToken
<1>4. Service!Ended.pc = "ended" /\ Nameless({})
  BY DEF Service!Ended, Nameless
<1>5. CASE Service!TryLock(t)
  <2>1. arg' = arg /\ worker[t].pc = "spawned"
    BY <1>5 DEF Service!TryLock
  <2>2. CASE lock = NoThread
    <3>1. /\ sent' = {}
          /\ \E pc \in {"updating", "checking"} : worker' = [worker EXCEPT ![t].pc = pc]
      BY <1>5, <2>2 DEF Service!TryLock, Service!Silent, Service!Goto
    <3>2. QED
      BY <1>2, <1>4, <2>1, <3>1
  <2>3. CASE lock # NoThread
    <3>1. /\ sent' = {[name |-> NoPkg, status |-> Service!BusyStatus(worker[t].op)]}
          /\ worker' = [worker EXCEPT ![t] = Service!Ended]
      BY <1>5, <2>3 DEF Service!TryLock, Service!Emit
    <3>2. QED
      BY <1>3, <1>4, <2>1, <3>1, NamelessSignal
  <2>4. QED
    BY <2>2, <2>3
<1>6. CASE Service!CheckDB(t)
  <2>1. /\ arg' = arg /\ worker[t].pc = "checking" /\ sent' = {}
        /\ \E pc \in {"updating", "ready"} : worker' = [worker EXCEPT ![t].pc = pc]
    BY <1>6 DEF Service!CheckDB, Service!Silent, Service!Goto
  <2>2. QED
    BY <1>2, <1>4, <2>1, NamelessSignal
<1>7. CASE Service!UpdateDone(t)
  <2>1. /\ arg' = arg /\ worker[t].pc = "updating"
        /\ sent' = {[name |-> NoPkg, status |-> "UPDATED"]}
        /\ \E pc \in {"unlocking", "ready"} : worker' = [worker EXCEPT ![t].pc = pc]
    BY <1>7 DEF Service!UpdateDone, Service!Emit, Service!Goto
  <2>2. QED
    BY <1>2, <1>4, <2>1, NamelessSignal
<1>8. CASE Service!StartEngine(t)
  <2> DEFINE target == IF worker[t].op \in Service!ArgOp
                       THEN [pkg |-> arg, nodep |-> worker[t].op = "remove" /\ nodep]
                       ELSE Service!NoArgument
             w == [worker[t] EXCEPT !.pc = "working", !.target = target]
  <2>1. /\ arg' = arg /\ worker[t].pc = "ready" /\ sent' = {}
        /\ worker' = [worker EXCEPT ![t] = w]
    BY <1>8 DEF Service!StartEngine, Service!Silent
  <2>2. w.pc = "working" /\ w.op = worker[t].op /\ w.target = target
    BY <1>1 DEF ServiceP!Worker
  <2>3. worker[t].op \in Service!ArgOp => target.pkg = arg /\ Active(t)
    BY <2>1 DEF Active
  <2> HIDE DEF w, target
  <2>4. QED
    BY <1>4, <2>1, <2>2, <2>3, WorkToken
<1>9. CASE Service!EngineDone(t)
  <2>1. PICK ok \in BOOLEAN :
          /\ arg' = arg /\ worker[t].pc = "working" /\ sent' = {}
          /\ worker' = [worker EXCEPT ![t] = [@ EXCEPT !.pc = "done", !.ok = ok]]
    BY <1>9 DEF Service!EngineDone, Service!Silent
  <2> DEFINE w == [worker[t] EXCEPT !.pc = "done", !.ok = ok]
  <2>2. w.pc = "done" /\ w.op = worker[t].op /\ w.target = worker[t].target
    BY <1>1 DEF ServiceP!Worker
  <2>3. worker' = [worker EXCEPT ![t] = w]
    BY <2>1
  <2>4. worker[t].op \in Service!ArgOp => Active(t)
    BY <2>1 DEF Active
  <2> HIDE DEF w
  <2>5. QED
    BY <1>4, <2>1, <2>2, <2>3, <2>4, WorkToken
<1>10. CASE Service!Reply(t) /\ worker[t].op \in Service!ArgOp
  BY <1>10, ReplyToken
<1>11. CASE Service!Reply(t) /\ worker[t].op \notin Service!ArgOp
  <2> DEFINE w == [Service!Ended EXCEPT !.pc = "unlocking", !.op = worker[t].op]
  <2>1. /\ arg' = arg /\ worker' = [worker EXCEPT ![t] = w]
        /\ sent' = {[name |-> NoPkg, status |-> Service!ReplyStatus(worker[t])]}
    BY <1>11 DEF Service!Reply, Service!Emit
  <2>2. w.pc = "unlocking"
    BY DEF Service!Ended
  <2> HIDE DEF w
  <2>3. QED
    BY <1>3, <2>1, <2>2, NamelessSignal
<1>12. CASE Service!Unlock(t)
  <2>1. arg' = arg /\ sent' = {} /\ worker' = [worker EXCEPT ![t] = Service!Ended]
    BY <1>12 DEF Service!Unlock, Service!Silent
  <2>2. QED
    BY <1>3, <1>4, <2>1
<1>13. ~Service!Exit(t)
  BY DEF Work, Service!Exit
<1>14. QED
  BY <1>5, <1>6, <1>7, <1>8, <1>9, <1>10, <1>11, <1>12, <1>13 DEF Work, Service!Step

\* exit(0) takes the calls, the workers, and at most the last signal.
LEMMA ExitToken ==
  ASSUME IInv, Token, ClientP!IInv', NEW t \in Thread, Exit(t)
  PROVE  Token'
<1>1. /\ taskQueue' = taskQueue /\ delivery' = delivery /\ Track({})
      /\ worker' = [u \in Thread |-> Service!Ended]
      /\ wire' = wire \/ (wire # <<>> /\ wire' = Front(wire))
  BY DEF Exit, Service!Exit
<1>2. HeadKept /\ HandlingKept
  BY <1>1 DEF HeadKept, HandlingKept, Handling
<1>3. taskQueue # <<>> /\ served => served'
  BY <1>1, <1>2, TrackGrows DEF IInv
<1>4. WorkersKept
  BY <1>1 DEF WorkersKept, Active, Service!Ended
<1>5. calls' = calls \/ calls' = <<>>
  <2>1. PICK n \in 0 .. Len(calls) : calls' = SubSeq(calls, n + 1, Len(calls))
    BY DEF Exit
  <2>2. calls \in Seq(ClientP!Call) /\ Len(calls) \in Nat /\ Len(calls) <= 1
    BY LenProperties DEF IInv, ClientP!IInv, ClientP!TypeOK, Token
  <2>3. CASE n = 0
    BY <2>1, <2>2, <2>3, SubSeqFull
  <2>4. CASE n # 0
    BY <2>1, <2>2, <2>4, SubSeqEmpty
  <2>5. QED
    BY <2>3, <2>4
<1>6. SignalsKept
  <2>1. CASE wire' = wire
    BY <2>1, WireKept
  <2>2. CASE wire # <<>> /\ wire' = Front(wire)
    <3>1. /\ wire \in Seq(Client!FinishedSignal) /\ Len(wire) \in Nat \ {0}
          /\ DOMAIN wire = 1 .. Len(wire)
      BY <2>2, EmptySeq, LenProperties DEF IInv
    <3>2. \A i \in 1 .. Len(wire) - 1 : wire[i] \in Client!FinishedSignal
      BY <3>1, ElementOfSeq
    <3>3. /\ wire' \in Seq(Client!FinishedSignal) /\ Len(wire') = Len(wire) - 1
          /\ \A i \in 1 .. Len(wire) - 1 : wire'[i] = wire[i]
      BY <2>2, <3>1, <3>2, SubSeqProperties DEF Front
    <3>4. DOMAIN wire' = 1 .. Len(wire) - 1
      BY <3>3, LenProperties
    <3>5. \A i \in DOMAIN wire' : i \in Int /\ i + 0 \in DOMAIN wire /\ wire'[i] = wire[i + 0]
      BY <3>1, <3>3, <3>4
    <3>6. QED
      BY <3>5 DEF SignalsKept
  <2>3. QED
    BY <1>1, <2>1, <2>2
<1>7. QED
  BY <1>2, <1>3, <1>4, <1>5, <1>6, TokenKept

-----------------------------------------------------------------------------

LEMMA InitIInv == Init => IInv
<1> SUFFICES ASSUME Init PROVE IInv
  OBVIOUS
<1>1. ClientP!IInv
  BY Parameters, ClientActions, ClientP!InitIInv DEF Init
<1>2. ServiceP!IInv
  BY Parameters, ServiceActions, ServiceP!InitIInv DEF Init
<1>3. /\ taskQueue = <<>> /\ calls = <<>> /\ wire = <<>> /\ delivery.left = 0
  BY DEF Init, Client!Init
<1>4. /\ wire \in Seq(Client!FinishedSignal) /\ served \in BOOLEAN /\ retried \in BOOLEAN
  BY EmptySeq DEF Init
<1>5. PICK t \in Thread, reachable \in BOOLEAN : worker = ServiceP!Starting(t, reachable)
  BY ServiceActions DEF Init, ServiceP!Init
<1>6. \A u \in Thread : worker[u].op \in {"update", "list"}
  BY <1>5, Parameters, ServiceP!StartingWorkers
<1>7. \A u \in Thread : ~Active(u)
  BY <1>6 DEF Active, Service!ArgOp
<1>8. Token
  BY <1>3, <1>7 DEF Token, Handling
<1>9. QED
  BY <1>1, <1>2, <1>4, <1>8 DEF IInv

\* The types of what the whole adds to its components.
LEMMA OwnTypes ==
  ASSUME IInv, [Next]_vars, ServiceP!IInv'
  PROVE  /\ wire' \in Seq(Client!FinishedSignal)
         /\ served' \in BOOLEAN /\ retried' \in BOOLEAN
<1>1. wire \in Seq(Client!FinishedSignal) /\ served \in BOOLEAN /\ retried \in BOOLEAN
  BY DEF IInv
<1>2. ASSUME Send, sent' = {} \/ \E s : sent' = {s} PROVE wire' \in Seq(Client!FinishedSignal)
  BY <1>1, <1>2, SendsNone, SendsOne
<1>3. \A executed : Track(executed) => served' \in BOOLEAN
  BY DEF Track
<1>4. CASE Deliver
  <2>1. wire # <<>> /\ wire' = Tail(wire) /\ retried' = retried /\ Track({})
    BY <1>4 DEF Deliver, ClientOnly
  <2>2. QED
    BY <1>1, <1>3, <2>1, HeadTailProperties
<1>5. ASSUME NEW t \in Thread, Work(t)
      PROVE  /\ wire' \in Seq(Client!FinishedSignal)
             /\ served' \in BOOLEAN /\ retried' \in BOOLEAN
  <2>1. sent' = {} \/ \E s : sent' = {s}
    BY <1>5 DEF Work, Service!Step, Service!TryLock, Service!CheckDB,
       Service!UpdateDone, Service!StartEngine, Service!EngineDone, Service!Reply,
       Service!Unlock, Service!Exit, Service!Silent, Service!Emit
  <2>2. QED
    BY <1>1, <1>2, <1>3, <1>5, <2>1 DEF Work
<1>6. CASE NmUpdateDone
  <2>1. \E s : sent' = {s}
    BY <1>6 DEF NmUpdateDone, Service!NmUpdateDone, Service!Emit
  <2>2. QED
    BY <1>1, <1>2, <1>3, <1>6, <2>1 DEF NmUpdateDone
<1>7. ASSUME NEW t \in Thread, Exit(t)
      PROVE  /\ wire' \in Seq(Client!FinishedSignal)
             /\ served' \in BOOLEAN /\ retried' \in BOOLEAN
  <2>1. /\ wire' = wire \/ (wire # <<>> /\ wire' = Front(wire))
        /\ retried' = retried /\ Track({})
    BY <1>7 DEF Exit
  <2>2. Len(wire) \in Nat /\ \A i \in 1 .. Len(wire) : wire[i] \in Client!FinishedSignal
    BY <1>1, LenProperties, ElementOfSeq
  <2>3. Front(wire) \in Seq(Client!FinishedSignal)
    BY <2>2, SubSeqProperties DEF Front
  <2>4. QED
    BY <1>1, <1>3, <2>1, <2>3
<1>8. CASE Ask \/ Withdraw \/ Retry \/ Handle
  BY <1>1, <1>3, <1>8 DEF Ask, Withdraw, Retry, Handle, ClientOnly
<1>9. CASE Dispatch \/ OtherCall \/ NetworkOrDate \/ Activate
  BY <1>1, <1>3, <1>9 DEF Dispatch, OtherCall, NetworkOrDate, Activate
<1>10. CASE UNCHANGED vars
  BY <1>1, <1>10 DEF vars
<1>11. QED
  BY <1>4, <1>5, <1>6, <1>7, <1>8, <1>9, <1>10 DEF Next

\* The timer's repeated call ends what Token promises, and nothing undoes it.
LEMMA RetriedStays ==
  ASSUME IInv, [Next]_vars, ~retried'
  PROVE  ~retried /\ ~Retry
<1>1. CASE Retry
  <2>1. calls' = Append(calls, Client!CallOf(Head(taskQueue))) /\ retried' = (retried \/ calls' # calls)
    BY <1>1 DEF Retry, Client!RunTaskTimeOut
  <2>2. calls = <<>>
    BY <1>1 DEF Retry
  <2>3. calls' # calls
    BY <2>1, <2>2
  <2>4. QED
    BY <2>1, <2>3
<1>2. CASE ~Retry
  BY <1>2 DEF Next, Ask, Withdraw, Deliver, Handle, Dispatch, OtherCall, NetworkOrDate,
     Activate, NmUpdateDone, Work, Exit, vars
<1>3. QED
  BY <1>1, <1>2

LEMMA StepIInv ==
  ASSUME OtherOps \cap Service!ArgOp = {}
  PROVE  IInv /\ [Next]_vars => IInv'
<1> SUFFICES ASSUME IInv, [Next]_vars PROVE IInv'
  OBVIOUS
<1>1. ClientP!IInv' /\ ServiceP!IInv'
  BY ClientInvariant, ServiceInvariant
<1>2. ASSUME ~retried' PROVE Token'
  <2>1. Token /\ ~Retry
    BY <1>2, RetriedStays DEF IInv
  <2>2. CASE Ask \/ Withdraw \/ Deliver \/ Handle
    BY <1>1, <2>1, <2>2, AskToken, WithdrawToken, DeliverToken, HandleToken
  <2>3. CASE Dispatch \/ OtherCall \/ NetworkOrDate \/ Activate \/ NmUpdateDone
    BY <1>1, <2>1, <2>3, DispatchToken, OtherCallToken, NetworkOrDateToken, ActivateToken,
       NmUpdateDoneToken
  <2>4. ASSUME NEW t \in Thread, Work(t) \/ Exit(t) PROVE Token'
    BY <1>1, <2>1, <2>4, WorkerToken, ExitToken
  <2>5. CASE UNCHANGED vars
    BY <2>1, <2>5
    DEF vars, clientVars, daemonVars, Token, CallAhead, NoWorker, NoSignal, Handling,
        Active, ServesHead, EndsHead
  <2>6. QED
    BY <2>1, <2>2, <2>3, <2>4, <2>5 DEF Next
<1>3. QED
  BY <1>1, <1>2, OwnTypes DEF IInv

LEMMA Invariance ==
  ASSUME OtherOps \cap Service!ArgOp = {}
  PROVE  Spec => []IInv
  BY InitIInv, StepIInv, PTL DEF Spec

\* The running task changes only by a signal that ends it.
LEMMA StepServed ==
  ASSUME IInv, [Next]_vars, taskQueue # <<>>, Running' # Running, ~retried
  PROVE  served
<1>1. ~HeadKept
  BY ClientInvariant, RunningKept DEF IInv
<1>2. taskQueue' # taskQueue
  BY <1>1 DEF HeadKept
<1>3. CASE Ask \/ Withdraw
  BY <1>1, <1>3, AskKeepsHead, WithdrawKeepsHead
<1>4. CASE Handle
  BY <1>1, <1>4, HandleKeepsHead DEF IInv, Token, EndsHead
<1>5. CASE ~(Ask \/ Withdraw \/ Handle)
  BY <1>2, <1>5 DEF Next, Retry, Client!RunTaskTimeOut, Deliver, Client!Deliver, Dispatch,
     Client!Dispatch, OtherCall, NetworkOrDate, Activate, NmUpdateDone, Work, Exit, vars,
     clientVars
<1>6. QED
  BY <1>3, <1>4, <1>5

\* Until the timer first repeats a call, a task ends only when the engine has
\* executed its own call, if the other clients only list, check and update.
\* (With their searches and installations a worker may find another's name in
\* the daemon's one argument, by the time it looks it up.)
THEOREM TasksAreServed ==
  ASSUME OtherOps \cap Service!ArgOp = {}
  PROVE  Spec => TaskServedUnlessRetried
<1>1. IInv /\ [Next]_vars =>
        [taskQueue # <<>> /\ Running' # Running /\ ~retried => served]_vars
  BY StepServed
<1>2. QED
  BY <1>1, Invariance, PTL DEF Spec, TaskServedUnlessRetried

=============================================================================
