------------------------------- MODULE AppStore -------------------------------
(***************************************************************************)
(* The app store as a whole: the client's task queue (JadeTaskQueue), the  *)
(* daemon (Daemon), the D-Bus connections between them, and the other      *)
(* clients of the same daemon: the command line and the runner plugin.     *)
(*                                                                         *)
(* Calls reach the daemon in the order the client sends them, signals      *)
(* reach the client in the order the daemon sends them.  When the daemon   *)
(* leaves its process, calls routed to it and not yet dispatched are lost, *)
(* and a signal not yet written may be; a later call starts it again.      *)
(***************************************************************************)
EXTENDS Naturals, Sequences, SequencesExt

CONSTANTS
  Pkg, NoPkg, Instances, MaxCalls,  \* see JadeTaskQueue
  Thread, NoThread, ExitAfter,      \* see Daemon
  Requests,    \* the kinds of task the user asks for, among Client!Action
  OtherOps,    \* the methods other clients call
  MaxInputs    \* bound: tasks the user asks for, calls of other clients,
               \* network changes and stale caches together

VARIABLES
  taskQueue, doingPkg, pkgStatus, delivery, calls,
  alive, main, lock, arg, nodep, worker, installedNum, stale, installed, sent,
  wire,        \* Finished signals between the daemon and the client
  served,      \* history: the engine has executed the running task's call since
               \* the task was handed to the daemon
  retried,     \* history: the client's 20 s timer has sent a call again
  inputs

clientVars == <<taskQueue, doingPkg, pkgStatus, delivery, calls>>
daemonVars == <<alive, main, lock, arg, nodep, worker, installedNum, stale,
                installed, sent>>
vars == <<clientVars, daemonVars, wire, served, retried, inputs>>

Client == INSTANCE JadeTaskQueue
Service == INSTANCE Daemon

ASSUME NamesAssumption == NoPkg \notin Pkg /\ NoThread \notin Thread
ASSUME BoundsAssumption ==
  /\ Instances \in Nat \ {0} /\ MaxCalls \in Nat
  /\ ExitAfter \in Nat /\ MaxInputs \in Nat
ASSUME CallsAssumption == Requests \subseteq Client!Action /\ OtherOps \subseteq Service!Op

Init ==
  /\ Client!Init
  /\ Service!Init
  /\ wire = <<>>
  /\ served = FALSE
  /\ retried = FALSE
  /\ inputs = 0

Running == IF taskQueue = <<>> THEN {} ELSE {Client!CallOf(Head(taskQueue))}

\* The history starts again whenever another task is handed to the daemon.
Track(executed) ==
  served' = (Running' = Running /\ (served \/ Running \cap executed # {}))

ClientOnly ==
  /\ UNCHANGED <<alive, main, lock, arg, nodep, worker, installedNum, stale,
                 installed>>
  /\ Service!Silent
  /\ Track({})

Input == inputs < MaxInputs /\ inputs' = inputs + 1

Ask ==
  /\ Input
  /\ \E p \in Pkg, action \in Requests : Client!Enqueue(p, action)
  /\ ClientOnly
  /\ UNCHANGED <<wire, retried>>

Withdraw ==
  /\ \E p \in Pkg : Client!Cancel(p)
  /\ ClientOnly
  /\ UNCHANGED <<wire, retried, inputs>>

\* Mutant: the timer does not wake a daemon that has left the bus.
Retry_NotActivating ==
  /\ alive
  /\ calls = <<>>
  /\ wire = <<>>
  /\ Client!RunTaskTimeOut
  /\ retried' = (retried \/ calls' # calls)
  /\ ClientOnly
  /\ UNCHANGED <<wire, inputs>>

\* The timer's 20 s are long next to the bus (a bound): it finds neither a
\* call nor a signal in flight.
Retry ==
  /\ calls = <<>>
  /\ wire = <<>>
  /\ Client!RunTaskTimeOut
  /\ retried' = (retried \/ calls' # calls)
  /\ ClientOnly
  /\ UNCHANGED <<wire, inputs>>

Deliver ==
  /\ wire # <<>>
  /\ Client!Deliver(Head(wire))
  /\ wire' = Tail(wire)
  /\ ClientOnly
  /\ UNCHANGED <<retried, inputs>>

Handle ==
  /\ Client!GetFinished
  /\ ClientOnly
  /\ UNCHANGED <<wire, retried, inputs>>

OpOf(method) ==
  CASE method = "Install" -> "install"
    [] method = "Remove"  -> "remove"
    [] method = "Upgrade" -> "upgrade"

\* The daemon's main loop takes the client's oldest call.
Dispatch ==
  /\ Client!Dispatch
  /\ Service!Call(OpOf(Head(calls).op), [pkg |-> Head(calls).pkg, nodep |-> FALSE])
  /\ UNCHANGED <<wire, retried, inputs>>
  /\ Track({})

\* A call of another client, or of the update timer.
OtherCall ==
  /\ Input
  /\ \E op \in OtherOps : \E a \in Service!Arguments(op) : Service!Call(op, a)
  /\ UNCHANGED <<clientVars, wire, retried>>
  /\ Track({})

NetworkOrDate ==
  /\ Input
  /\ Service!NmOnline \/ Service!BecomeStale
  /\ UNCHANGED <<clientVars, wire, retried>>
  /\ Track({})

Activate ==
  /\ calls # <<>>
  /\ Service!Activate
  /\ UNCHANGED <<clientVars, wire, retried, inputs>>
  /\ Track({})

Send == wire' = wire \o SetToSeq(sent')

MethodOf(op) ==
  CASE op = "install" -> "Install"
    [] op = "remove"  -> "Remove"
    [] op = "upgrade" -> "Upgrade"
    [] OTHER          -> "none"

\* What a worker's step has the engine execute.
Executed(t) ==
  IF worker[t].pc = "working" /\ worker'[t].pc = "done"
    THEN {[op |-> MethodOf(worker[t].op), pkg |-> worker[t].target.pkg]}
    ELSE {}

Work(t) ==
  /\ Service!Step(t)
  /\ alive'
  /\ Send
  /\ UNCHANGED <<clientVars, retried, inputs>>
  /\ Track(Executed(t))

NmUpdateDone ==
  /\ Service!NmUpdateDone
  /\ Send
  /\ UNCHANGED <<clientVars, retried, inputs>>
  /\ Track({})

\* exit(0): calls already routed to the process are lost, the oldest ones, and
\* so may be the signal emitted last, if the bus thread has not written it.
Exit(t) ==
  /\ Service!Exit(t)
  /\ \E n \in 0 .. Len(calls) : calls' = SubSeq(calls, n + 1, Len(calls))
  /\ wire' = wire \/ (wire # <<>> /\ wire' = Front(wire))
  /\ UNCHANGED <<taskQueue, doingPkg, pkgStatus, delivery, retried, inputs>>
  /\ Track({})

Next ==
  \/ Ask \/ Withdraw \/ Retry \/ Deliver \/ Handle
  \/ Dispatch \/ OtherCall \/ NetworkOrDate \/ Activate
  \/ NmUpdateDone
  \/ \E t \in Thread : Work(t) \/ Exit(t)

Fairness ==
  /\ WF_vars(Retry) /\ WF_vars(Deliver) /\ WF_vars(Handle)
  /\ WF_vars(Dispatch) /\ WF_vars(Activate) /\ WF_vars(NmUpdateDone)
  /\ \A t \in Thread : WF_vars(Work(t)) /\ WF_vars(Exit(t))

Spec == Init /\ [][Next]_vars /\ Fairness

-----------------------------------------------------------------------------

\* A task ends only when the engine has executed its call, the same operation
\* on the same package, since the task was handed to the daemon.
TaskServed ==
  [][taskQueue # <<>> /\ Running' # Running => served]_vars

\* Until the timer first repeats a call, that is so, whatever the daemon's exits
\* and the others' calls lose, refuse and reorder; if those carry no argument,
\* for the daemon keeps one for all.
TaskServedUnlessRetried ==
  [][taskQueue # <<>> /\ Running' # Running /\ ~retried => served]_vars

\* Whatever is lost or refused, the task at the head of the queue ends: the
\* timer sends its call until a worker serves it.
RunningTaskEnds ==
  \A p \in Pkg : doingPkg = p ~> doingPkg # p
=============================================================================
