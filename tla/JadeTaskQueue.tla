---------------------------- MODULE JadeTaskQueue ----------------------------
(***************************************************************************)
(* The task queue of the qjade client (qjade/src/jadedbus.cpp).            *)
(*                                                                         *)
(* The user asks for packages to be installed, updated or removed; the     *)
(* client queues the tasks and hands them to the daemon one at a time.     *)
(* The daemon never answers a method call: the only news of a task is the  *)
(* broadcast signal Finished(pkgName, status), which every client of the   *)
(* daemon receives whoever asked for the work.  A 20 s timer sends the     *)
(* call of the running task again.                                         *)
(*                                                                         *)
(* The queue (m_taskQueue), the package list (AllPkgList) and the name of  *)
(* the running task (g_doingPkgName) are globals; the QML views create     *)
(* several JadedBus objects, each connected to Finished, so that one       *)
(* broadcast runs getFinished once per object.  Everything happens on the  *)
(* GUI thread: between two of those handlers no user action and no timer   *)
(* can run, and a delivery is a sequence of GetFinished steps.             *)
(***************************************************************************)
EXTENDS Naturals, Sequences, SequencesExt

CONSTANTS
  Pkg,        \* the package names
  NoPkg,      \* the empty string
  Instances,  \* how many JadedBus objects are connected to the signal
  MaxCalls    \* bound: calls on their way to the daemon

ASSUME NoPkgAssumption == NoPkg \notin Pkg
ASSUME InstancesAssumption == Instances \in Nat \ {0}
ASSUME MaxCallsAssumption == MaxCalls \in Nat

VARIABLES
  taskQueue,  \* m_taskQueue
  doingPkg,   \* g_doingPkgName
  pkgStatus,  \* AllPkgList: what the views show of each package
  delivery,   \* the Finished signal being handled, the handlers that are
              \* still to run, and how many tasks it has completed so far
  calls       \* the method calls sent and not yet dispatched by the daemon

vars == <<taskQueue, doingPkg, pkgStatus, delivery, calls>>

Action == {"install", "uninstall", "update"}

\* "" when queued, "doing" once handed to the daemon.  "done" is assigned to
\* an entry that the same handler then removes.
TaskStatus == {"", "doing", "done"}

Task == [name : Pkg, action : Action, status : TaskStatus]

Method == {"Install", "Remove", "Upgrade"}

Call == [op : Method, pkg : Pkg]

\* The statuses getFinished acts upon, and the others it may receive.
Accepted == {"REMOVED", "UPDATED", "INSTALLED", "INSTALL", "UPGRADED",
             "INSTALL_ERROR"}
Status == Accepted \cup {"SEARCHED", "UNKNOWN"}

FinishedSignal == [name : Pkg \cup {NoPkg}, status : Status]

\* A row of AllPkgList: status 1, status 2, or no row.
PkgStatus == {"installed", "available", "unlisted"}

Idle == delivery.left = 0

\* What delivery holds between two broadcasts.
NoSignal == [name |-> NoPkg, status |-> "UNKNOWN"]

-----------------------------------------------------------------------------

Init ==
  /\ taskQueue = <<>>
  /\ doingPkg = NoPkg
  /\ pkgStatus = [p \in Pkg |-> "unlisted"]
  /\ delivery = [signal |-> NoSignal, left |-> 0, completed |-> 0]
  /\ calls = <<>>

CallOf(task) ==
  [op  |-> CASE task.action = "install"   -> "Install"
             [] task.action = "update"    -> "Upgrade"
             [] task.action = "uninstall" -> "Remove",
   pkg |-> task.name]

\* Mutant: a lone task is not started ("size() <= 1" for "size() == 0").
RunTask_LoneTaskWaits(q, idleName) ==
  IF Len(q) > 1 /\ Head(q).status # "doing"
    THEN /\ taskQueue' = [q EXCEPT ![1].status = "doing"]
         /\ doingPkg' = Head(q).name
         /\ calls' = Append(calls, CallOf(Head(q)))
    ELSE taskQueue' = q /\ doingPkg' = idleName /\ UNCHANGED calls

\* m_runTask() on the queue q: start its head unless it is already running.
\* idleName is what g_doingPkgName holds when nothing is started.
RunTask(q, idleName) ==
  IF q # <<>> /\ Head(q).status # "doing"
    THEN /\ taskQueue' = [q EXCEPT ![1].status = "doing"]
         /\ doingPkg' = Head(q).name
         /\ calls' = Append(calls, CallOf(Head(q)))
    ELSE /\ taskQueue' = q
         /\ doingPkg' = idleName
         /\ UNCHANGED calls

\* Mutant: only the waiting tasks are looked at.
IsTaskExist_WaitingOnly(name) ==
  \E i \in DOMAIN taskQueue :
    taskQueue[i].name = name /\ taskQueue[i].status = ""

IsTaskExist(name) == \E i \in DOMAIN taskQueue : taskQueue[i].name = name

\* Mutant: a new task overtakes the waiting ones (insert for append).
Enqueue_Overtakes(name, action) ==
  /\ Idle
  /\ Len(calls) < MaxCalls
  /\ ~IsTaskExist(name)
  /\ LET t == [name |-> name, action |-> action, status |-> ""]
     IN IF taskQueue = <<>>
          THEN RunTask(<<t>>, doingPkg)
          ELSE /\ taskQueue' = InsertAt(taskQueue, 2, t)
               /\ UNCHANGED <<doingPkg, calls>>
  /\ UNCHANGED <<pkgStatus, delivery>>

\* The common body of install(), uninstall() and update().
Enqueue(name, action) ==
  /\ Idle
  /\ Len(calls) < MaxCalls
  /\ ~IsTaskExist(name)
  /\ LET q == Append(taskQueue,
                     [name |-> name, action |-> action, status |-> ""])
     IN IF Len(q) = 1
          THEN RunTask(q, doingPkg)
          ELSE taskQueue' = q /\ UNCHANGED <<doingPkg, calls>>
  /\ UNCHANGED <<pkgStatus, delivery>>

Install(name)   == Enqueue(name, "install")
Uninstall(name) == Enqueue(name, "uninstall")
Update(name)    == Enqueue(name, "update")

\* Mutant: the running task can be cancelled too.
Cancel_EvenRunning(name) ==
  /\ Idle
  /\ \E i \in DOMAIN taskQueue :
       taskQueue[i].name = name /\ taskQueue' = RemoveAt(taskQueue, i)
  /\ UNCHANGED <<doingPkg, pkgStatus, delivery, calls>>

\* cancel(): remove the named task unless the daemon has been asked for it.
Cancel(name) ==
  /\ Idle
  /\ \E i \in DOMAIN taskQueue :
       /\ taskQueue[i].name = name
       /\ taskQueue[i].status # "doing"
       /\ \A j \in 1 .. i - 1 :
            ~(taskQueue[j].name = name /\ taskQueue[j].status # "doing")
       /\ taskQueue' = RemoveAt(taskQueue, i)
  /\ UNCHANGED <<doingPkg, pkgStatus, delivery, calls>>

\* Mutant: the timer sends the call of the task queued last.
RunTaskTimeOut_Last ==
  /\ Idle
  /\ Len(calls) < MaxCalls
  /\ taskQueue # <<>>
  /\ Head(taskQueue).status = "doing"
  /\ calls' = Append(calls, CallOf(Last(taskQueue)))
  /\ UNCHANGED <<taskQueue, doingPkg, pkgStatus, delivery>>

\* runTaskTimeOut(): every 20 s the call of the running task is sent again.
RunTaskTimeOut ==
  /\ Idle
  /\ Len(calls) < MaxCalls
  /\ taskQueue # <<>>
  /\ Head(taskQueue).status = "doing"
  /\ calls' = Append(calls, CallOf(Head(taskQueue)))
  /\ UNCHANGED <<taskQueue, doingPkg, pkgStatus, delivery>>

-----------------------------------------------------------------------------

\* A Finished signal reaches the client: every JadedBus object will handle it.
Deliver(signal) ==
  /\ Idle
  /\ Len(calls) < MaxCalls
  /\ delivery' = [signal |-> signal, left |-> Instances, completed |-> 0]
  /\ UNCHANGED <<taskQueue, doingPkg, pkgStatus, calls>>

\* Mutant: the package list takes a status it has no meaning for.
StatusAfter_Raw(status, old) ==
  IF old = "unlisted" THEN old
  ELSE IF status = "INSTALLED" THEN "installed" ELSE status

\* What the status says of a package the list knows.
StatusAfter(status, old) ==
  IF old = "unlisted" THEN old
  ELSE CASE status = "INSTALLED"                    -> "installed"
         [] status \in {"REMOVED", "INSTALL_ERROR"} -> "available"
         [] OTHER                                   -> old

\* The running entry the signal names, if any: the loop takes the first.
Completes(name, i) ==
  /\ i \in DOMAIN taskQueue
  /\ taskQueue[i].status = "doing"
  /\ taskQueue[i].name = name
  /\ \A j \in 1 .. i - 1 :
       ~(taskQueue[j].status = "doing" /\ taskQueue[j].name = name)

\* getFinished() of one JadedBus object.  The entry found is marked done, and
\* removeFirst() then removes the FIRST entry of the queue.
GetFinished ==
  LET name   == delivery.signal.name
      status == delivery.signal.status
      acted  == status \in Accepted /\ name \in Pkg
      found  == acted /\ \E i \in DOMAIN taskQueue : Completes(name, i)
  IN
  /\ delivery.left > 0
  /\ delivery' =
       [signal    |-> IF delivery.left = 1 THEN NoSignal ELSE delivery.signal,
        left      |-> delivery.left - 1,
        completed |-> delivery.completed + (IF found THEN 1 ELSE 0)]
  /\ pkgStatus' =
       IF acted THEN [pkgStatus EXCEPT ![name] = StatusAfter(status, @)]
                ELSE pkgStatus
  /\ \/ /\ found
        /\ \E i \in DOMAIN taskQueue :
             /\ Completes(name, i)
             /\ RunTask(Tail([taskQueue EXCEPT ![i].status = "done"]), NoPkg)
     \/ /\ ~found
        /\ UNCHANGED <<taskQueue, doingPkg, calls>>

\* listChged(): the daemon lists one package.
ListChged(name, status) ==
  /\ Idle
  /\ status \in {"installed", "available"}
  /\ pkgStatus' = [pkgStatus EXCEPT ![name] = status]
  /\ UNCHANGED <<taskQueue, doingPkg, delivery, calls>>

\* getAllPkgList(): the whole list is replaced by the one the daemon sent.
GetAllPkgList(list) ==
  /\ Idle
  /\ pkgStatus' = list
  /\ UNCHANGED <<taskQueue, doingPkg, delivery, calls>>

\* The daemon takes the oldest call off the bus.
Dispatch ==
  /\ calls # <<>>
  /\ calls' = Tail(calls)
  /\ UNCHANGED <<taskQueue, doingPkg, pkgStatus, delivery>>

-----------------------------------------------------------------------------

User == \E p \in Pkg : Install(p) \/ Uninstall(p) \/ Update(p) \/ Cancel(p)

Bus ==
  \/ \E s \in FinishedSignal : Deliver(s)
  \/ \E p \in Pkg, st \in {"installed", "available"} : ListChged(p, st)
  \/ \E list \in [Pkg -> PkgStatus] : GetAllPkgList(list)
  \/ Dispatch

Next == User \/ Bus \/ GetFinished \/ RunTaskTimeOut

Spec == Init /\ [][Next]_vars

-----------------------------------------------------------------------------

TypeOK ==
  /\ taskQueue \in Seq(Task)
  /\ doingPkg \in Pkg \cup {NoPkg}
  /\ pkgStatus \in [Pkg -> PkgStatus]
  /\ delivery \in [signal : FinishedSignal, left : Nat, completed : Nat]
  /\ calls \in Seq(Call)

\* The queue is never left without a running task, and no task but the first
\* is ever handed to the daemon: a non-empty queue whose head is not "doing"
\* would be stuck for good, since only the end of a running task starts one.
OnlyHeadRuns ==
  \A i \in DOMAIN taskQueue :
    taskQueue[i].status = (IF i = 1 THEN "doing" ELSE "")

\* The comment on TaskQueue::name: names do not repeat in the queue.
NamesUnique ==
  \A i, j \in DOMAIN taskQueue :
    taskQueue[i].name = taskQueue[j].name => i = j

\* g_doingPkgName, which percentChged shows progress under, is the running
\* task's name, and empty exactly when there is none.
DoingPkgIsHead ==
  doingPkg = (IF taskQueue = <<>> THEN NoPkg ELSE Head(taskQueue).name)

\* The queue runs its head, under its name, and holds no package twice
\* (jadedbus.cpp:324-366 and 803-865).
QueueInv == OnlyHeadRuns /\ NamesUnique /\ DoingPkgIsHead

\* However many JadedBus objects handle a broadcast, it ends at most one task.
\* It would end two if the next task bore the name of the one just finished.
OneTaskPerSignal == delivery.completed <= 1

Names(q) == {q[i].name : i \in DOMAIN q}

\* A task leaves the queue only while it runs, by a signal that names it, or
\* while it waits, by its own cancel; the tasks left keep their order.
LeavesProperly ==
  [][\A i \in DOMAIN taskQueue :
       taskQueue[i].name \notin Names(taskQueue') =>
         /\ \/ /\ i = 1
               /\ delivery.left > 0
               /\ delivery.signal.name = taskQueue[1].name
            \/ /\ taskQueue[i].status = ""
               /\ delivery.left = 0
         /\ \A k \in DOMAIN taskQueue' :
              taskQueue'[k].name = taskQueue[IF k < i THEN k ELSE k + 1].name
    ]_vars

\* Whatever goes on the bus is the call of the task that runs after the step:
\* the daemon is never asked for a task that waits or has left the queue.
CallsServeHead ==
  [][Len(calls') > Len(calls) =>
       /\ taskQueue' # <<>>
       /\ calls' = Append(calls, CallOf(Head(taskQueue')))]_vars

-----------------------------------------------------------------------------

\* The task at position i as a job of the abstract queue.
JobAt(i) == [name |-> taskQueue[i].name, action |-> taskQueue[i].action]

\* The client's queue implements a serial first-come first-served queue: the
\* handlers that only repeat a call or refresh the package list are stutters.
Serial == INSTANCE SerialQueue
  WITH Job     <- [name : Pkg, action : Action],
       NoJob   <- NoPkg,
       running <- IF taskQueue = <<>> THEN NoPkg ELSE JobAt(1),
       waiting <- IF taskQueue = <<>> THEN <<>>
                  ELSE [i \in 1 .. Len(taskQueue) - 1 |-> JobAt(i + 1)]

ImplementsSerialQueue == Serial!Spec
=============================================================================
