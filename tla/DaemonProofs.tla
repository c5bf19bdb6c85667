----------------------------- MODULE DaemonProofs -----------------------------
(***************************************************************************)
(* Proofs about the daemon, for any number of threads and packages: the    *)
(* mutex serialises the engine, a worker no later call has interfered with *)
(* serves its own call, and a refusal names no package.                    *)
(***************************************************************************)
EXTENDS Daemon, TLAPS

\* The inductive invariant.  ArgGiven is needed for the type of installed, OneWorker to
\* know that the worker that leaves its critical section holds the mutex.
IInv == TypeOK /\ OneWorker /\ ServesItsCall /\ ArgGiven

LEMMA EndedIsWorker == Ended \in Worker
  BY DEF Ended, Worker, PC, Op, ArgOp, NoArgument, Argument

LEMMA SpawnedIsWorker ==
  ASSUME NEW op \in Op, NEW a \in Argument
  PROVE  /\ Spawned(op, a) \in Worker
         /\ Spawned(op, a).pc = "spawned"
         /\ Spawned(op, a).op = op
         /\ Spawned(op, a).asked = a
  BY EndedIsWorker DEF Spawned, Ended, Worker, PC, NoArgument, Argument

LEMMA NoArgumentType == NoArgument \in Argument
  BY DEF NoArgument, Argument

\* The threads of a process that starts hold nothing and ask for nothing.
LEMMA StartingWorkers ==
  ASSUME NEW t \in Thread, NEW reachable \in BOOLEAN
  PROVE  /\ Starting(t, reachable) \in [Thread -> Worker]
         /\ \A u \in Thread :
              /\ Starting(t, reachable)[u].pc \in {"spawned", "ended"}
              /\ Starting(t, reachable)[u].op \in {"update", "list"}
<1>1. "update" \in Op
  BY DEF Op
<1>2. /\ Spawned("update", NoArgument) \in Worker
      /\ Spawned("update", NoArgument).pc = "spawned"
      /\ Spawned("update", NoArgument).op = "update"
  BY <1>1, NoArgumentType, SpawnedIsWorker
<1>3. Ended \in Worker /\ Ended.pc = "ended" /\ Ended.op = "list"
  BY EndedIsWorker DEF Ended
<1>4. QED
  BY <1>2, <1>3 DEF Starting

LEMMA InitIInv == Init => IInv
<1> SUFFICES ASSUME Init
             PROVE  IInv
  OBVIOUS
<1>1. PICK t \in Thread, reachable \in BOOLEAN : worker = Starting(t, reachable)
  BY DEF Init
<1>2. /\ worker \in [Thread -> Worker]
      /\ \A u \in Thread : /\ worker[u].pc \in {"spawned", "ended"}
                           /\ worker[u].op \in {"update", "list"}
  BY <1>1, StartingWorkers
<1>3. TypeOK
  <2>1. alive \in BOOLEAN /\ nodep \in BOOLEAN
    BY Zenon DEF Init
  <2>2. installedNum \in 0 .. ExitAfter + 1
    BY ExitAfterAssumption DEF Init
  <2>3. QED
    BY <1>2, <2>1, <2>2 DEF Init, TypeOK
<1>4. OneWorker
  BY <1>2, NoThreadAssumption DEF Init, OneWorker, Critical, PC
<1>5. ServesItsCall /\ ArgGiven
  BY <1>2 DEF ServesItsCall, ArgGiven, ArgOp
<1>6. QED
  BY <1>3, <1>4, <1>5 DEF IInv

-----------------------------------------------------------------------------

\* The calls of Environment and of the timer have the types of Call's
\* parameters.
LEMMA CallIInv ==
  ASSUME IInv, NEW op \in Op, NEW a \in Argument, Call(op, a),
         op \in ArgOp => a.pkg \in Pkg
  PROVE  IInv'
<1>1. PICK t \in Thread :
        /\ worker[t].pc = "ended"
        /\ worker' = [Overtaken(op) EXCEPT ![t] = Spawned(op, a)]
  BY DEF Call
<1>2. TypeOK /\ OneWorker /\ ServesItsCall /\ ArgGiven
  BY DEF IInv
<1>3. worker \in [Thread -> Worker]
  BY <1>2 DEF TypeOK
<1> DEFINE s == Spawned(op, a)
<1>4. s \in Worker /\ s.pc = "spawned" /\ s.op = op /\ s.asked = a
  BY SpawnedIsWorker
<1> HIDE DEF s
<1>5. \A u \in Thread :
        /\ Overtaken(op)[u] \in Worker
        /\ Overtaken(op)[u].pc = worker[u].pc
        /\ Overtaken(op)[u].op = worker[u].op
        /\ Overtaken(op)[u].asked = worker[u].asked
        /\ Overtaken(op)[u].target = worker[u].target
        /\ Overtaken(op)[u].alone =>
             worker[u].alone /\ (op \in ArgOp => worker[u].pc = "ended")
  <2> TAKE u \in Thread
  <2>1. worker[u] \in Worker
    BY <1>3
  <2> QED
    BY <2>1 DEF Overtaken, Worker
<1>6. Overtaken(op) \in [Thread -> Worker]
  BY <1>5 DEF Overtaken
<1>7. worker' \in [Thread -> Worker]
  BY <1>1, <1>4, <1>6 DEF s
<1>8. \A u \in Thread : worker'[u] = IF u = t THEN s ELSE Overtaken(op)[u]
  BY <1>1, <1>6 DEF s
<1>9. TypeOK'
  BY <1>2, <1>7 DEF TypeOK, Call, Silent, Argument
<1>10. OneWorker'
  BY <1>1, <1>2, <1>4, <1>5, <1>8 DEF OneWorker, Critical, PC, Call
<1>11. ServesItsCall'
  <2> SUFFICES ASSUME NEW u \in Thread,
                      worker'[u].pc \notin {"unlocking", "ended"},
                      worker'[u].op \in ArgOp, worker'[u].alone
               PROVE  /\ Agrees(worker'[u].op, [pkg |-> arg', nodep |-> nodep'],
                                worker'[u].asked)
                      /\ worker'[u].pc \in {"working", "done"} =>
                           Agrees(worker'[u].op, worker'[u].target,
                                  worker'[u].asked)
    BY DEF ServesItsCall
  <2>1. CASE u = t
    BY <1>4, <1>8, <2>1 DEF Call, Agrees
  <2>2. CASE u # t
    <3>1. worker'[u] = Overtaken(op)[u]
      BY <1>8, <2>2
    <3>2. /\ worker[u].pc \notin {"unlocking", "ended"}
          /\ worker[u].op \in ArgOp /\ worker[u].alone
          /\ op \notin ArgOp
      BY <1>5, <3>1
    <3>3. arg' = arg /\ nodep' = nodep
      BY <3>2 DEF Call, ArgOp
    <3>4. /\ Agrees(worker[u].op, [pkg |-> arg, nodep |-> nodep], worker[u].asked)
          /\ worker[u].pc \in {"working", "done"} =>
               Agrees(worker[u].op, worker[u].target, worker[u].asked)
      BY <1>2, <3>2 DEF ServesItsCall
    <3>5. QED
      BY <1>5, <3>1, <3>3, <3>4
  <2>3. QED
    BY <2>1, <2>2
<1>12. ArgGiven'
  <2> SUFFICES ASSUME NEW u \in Thread,
                      worker'[u].pc \notin {"unlocking", "ended"},
                      worker'[u].op \in ArgOp
               PROVE  /\ arg' \in Pkg
                      /\ worker'[u].pc \in {"working", "done"} =>
                           worker'[u].target.pkg \in Pkg
    BY DEF ArgGiven
  <2>1. CASE u = t
    BY <1>4, <1>8, <2>1 DEF Call
  <2>2. CASE u # t
    BY <1>2, <1>5, <1>8, <2>2 DEF ArgGiven, Call
  <2>3. QED
    BY <2>1, <2>2
<1>13. QED
  BY <1>9, <1>10, <1>11, <1>12 DEF IInv
-----------------------------------------------------------------------------

\* ServesItsCall and ArgGiven of one worker, whatever its record.
Serves(w) ==
  w.pc \notin {"unlocking", "ended"} /\ w.op \in ArgOp =>
    /\ arg \in Pkg
    /\ w.pc \in {"working", "done"} => w.target.pkg \in Pkg
    /\ w.alone => /\ Agrees(w.op, [pkg |-> arg, nodep |-> nodep], w.asked)
                  /\ w.pc \in {"working", "done"} =>
                       Agrees(w.op, w.target, w.asked)

EachServed == \A t \in Thread : Serves(worker[t])

LEMMA ServedMeans == (ServesItsCall /\ ArgGiven <=> EachServed)
  BY DEF ServesItsCall, ArgGiven, EachServed, Serves

LEMMA ServedMeansPrime == (ServesItsCall' /\ ArgGiven' <=> EachServed')
  BY ServedMeans, PTL

\* A step of worker t alone keeps the invariant if its new record is typed,
\* served, and holds the mutex exactly when it is past the trylock.
LEMMA WorkerStep ==
  ASSUME IInv, NEW t \in Thread, NEW w \in Worker,
         worker' = [worker EXCEPT ![t] = w],
         arg' = arg, nodep' = nodep,
         w.pc \in Critical <=> lock' = t,
         \A u \in Thread \ {t} : lock' = u <=> lock = u,
         Serves(w)
  PROVE  worker' \in [Thread -> Worker] /\ OneWorker' /\ EachServed'
<1>1. /\ worker \in [Thread -> Worker]
      /\ OneWorker /\ EachServed
  BY ServedMeans DEF IInv, TypeOK
<1>2. /\ worker' \in [Thread -> Worker]
      /\ \A u \in Thread : worker'[u] = IF u = t THEN w ELSE worker[u]
  BY <1>1
<1>3. OneWorker'
  <2> SUFFICES ASSUME NEW u \in Thread
               PROVE  worker'[u].pc \in Critical <=> lock' = u
    BY DEF OneWorker
  <2>1. CASE u = t
    BY <1>2, <2>1
  <2>2. CASE u # t
    BY <1>1, <1>2, <2>2 DEF OneWorker
  <2>3. QED
    BY <2>1, <2>2
<1>4. EachServed'
  <2> SUFFICES ASSUME NEW u \in Thread
               PROVE  Serves(worker[u])'
    BY DEF EachServed
  <2>1. CASE u = t
    BY <1>2, <2>1 DEF Serves
  <2>2. CASE u # t
    BY <1>1, <1>2, <2>2 DEF EachServed, Serves
  <2>3. QED
    BY <2>1, <2>2
<1>5. QED
  BY <1>2, <1>3, <1>4

\* Moving worker t within its critical section, without touching what it was
\* asked or given, keeps the invariant.
LEMMA GotoIInv ==
  ASSUME IInv, NEW t \in Thread, NEW pc \in Critical,
         worker[t].pc \in {"checking", "updating"},
         pc \notin {"working", "done"}, Goto(t, pc),
         arg' = arg, nodep' = nodep, lock' = lock
  PROVE  worker' \in [Thread -> Worker] /\ OneWorker' /\ EachServed'
<1> DEFINE w == [worker[t] EXCEPT !.pc = pc]
<1>1. worker[t] \in Worker
  BY DEF IInv, TypeOK
<1>2. /\ w \in Worker /\ w.pc = pc /\ w.op = worker[t].op
      /\ w.asked = worker[t].asked /\ w.alone = worker[t].alone
  BY <1>1 DEF Worker, Critical
<1>3. worker' = [worker EXCEPT ![t] = w]
  BY DEF Goto
<1> HIDE DEF w
<1>4. Serves(worker[t])
  BY ServedMeans DEF IInv, EachServed
<1>5. Serves(w)
  BY <1>2, <1>4 DEF Serves
<1>6. lock = t
  BY DEF IInv, OneWorker, Critical, PC
<1>7. QED
  BY <1>2, <1>3, <1>5, <1>6, WorkerStep

LEMMA EndedServes == Serves(Ended) /\ Ended.pc = "ended" /\ Ended.pc \notin Critical
  BY DEF Serves, Ended, Critical, PC

LEMMA EmitType ==
  ASSUME NEW name \in Pkg \cup {NoPkg}, NEW status \in FinishedStatus,
         Emit(name, status)
  PROVE  sent' \in SUBSET Signal
  BY DEF Emit, Signal

LEMMA BusyStatusType == \A op \in Op : BusyStatus(op) \in FinishedStatus
  BY DEF Op, ArgOp, BusyStatus, FinishedStatus

LEMMA TryLockIInv ==
  ASSUME IInv, NEW t \in Thread, TryLock(t)
  PROVE  IInv'
<1>1. TypeOK /\ OneWorker /\ worker[t] \in Worker /\ worker[t].op \in Op
  BY DEF IInv, TypeOK, Worker
<1>2. CASE lock = NoThread
  <2> DEFINE pc == IF worker[t].op = "update" THEN "updating" ELSE "checking"
             w == [worker[t] EXCEPT !.pc = pc]
  <2>1. worker' = [worker EXCEPT ![t] = w] /\ lock' = t /\ sent' = {}
    BY <1>2 DEF TryLock, Goto, Silent
  <2>2. /\ w \in Worker /\ w.pc = pc /\ w.op = worker[t].op
        /\ w.asked = worker[t].asked /\ w.alone = worker[t].alone
        /\ pc \in Critical /\ pc \notin {"working", "done"}
    BY <1>1 DEF Worker, Critical, PC
  <2>3. Serves(worker[t]) /\ worker[t].pc = "spawned"
    BY ServedMeans DEF IInv, EachServed, TryLock
  <2> HIDE DEF w, pc
  <2>4. Serves(w)
    BY <2>2, <2>3 DEF Serves
  <2>5. \A u \in Thread \ {t} : lock' = u <=> lock = u
    BY <1>2, <2>1, NoThreadAssumption
  <2>6. arg' = arg /\ nodep' = nodep
    BY DEF TryLock
  <2>7. worker' \in [Thread -> Worker] /\ OneWorker' /\ EachServed'
    BY <2>1, <2>2, <2>4, <2>5, <2>6, WorkerStep
  <2>8. TypeOK'
    BY <1>1, <2>1, <2>7 DEF TypeOK, TryLock
  <2>9. QED
    BY <2>7, <2>8, ServedMeansPrime DEF IInv
<1>3. CASE lock # NoThread
  <2>1. /\ worker' = [worker EXCEPT ![t] = Ended] /\ lock' = lock
        /\ Emit(NoPkg, BusyStatus(worker[t].op))
        /\ arg' = arg /\ nodep' = nodep
    BY <1>3 DEF TryLock
  <2>2. lock # t
    BY <1>1 DEF TryLock, OneWorker, Critical
  <2>3. worker' \in [Thread -> Worker] /\ OneWorker' /\ EachServed'
    BY <2>1, <2>2, WorkerStep, EndedIsWorker, EndedServes
  <2>4. sent' \in SUBSET Signal
    BY <1>1, <2>1, BusyStatusType, EmitType
  <2>5. TypeOK'
    BY <1>1, <2>1, <2>3, <2>4 DEF TypeOK, TryLock
  <2>6. QED
    BY <2>3, <2>5, ServedMeansPrime DEF IInv
<1>4. QED
  BY <1>2, <1>3

LEMMA CheckDBIInv ==
  ASSUME IInv, NEW t \in Thread, CheckDB(t)
  PROVE  IInv'
<1> DEFINE pc == IF stale THEN "updating" ELSE "ready"
<1>1. pc \in Critical /\ pc \notin {"working", "done"}
  BY DEF Critical, PC
<1>2. Goto(t, pc) /\ worker[t].pc = "checking"
  BY DEF CheckDB
<1>3. arg' = arg /\ nodep' = nodep /\ lock' = lock
  BY DEF CheckDB
<1> HIDE DEF pc
<1>4. worker' \in [Thread -> Worker] /\ OneWorker' /\ EachServed'
  BY <1>1, <1>2, <1>3, GotoIInv
<1>5. TypeOK'
  BY <1>4 DEF IInv, TypeOK, CheckDB, Silent
<1>6. QED
  BY <1>4, <1>5, ServedMeansPrime DEF IInv

LEMMA UpdateDoneIInv ==
  ASSUME IInv, NEW t \in Thread, UpdateDone(t)
  PROVE  IInv'
<1> DEFINE pc == IF worker[t].op = "update" THEN "unlocking" ELSE "ready"
<1>1. pc \in Critical /\ pc \notin {"working", "done"}
  BY DEF Critical, PC
<1>2. Goto(t, pc) /\ worker[t].pc = "updating"
  BY DEF UpdateDone
<1>3. arg' = arg /\ nodep' = nodep /\ lock' = lock
  BY DEF UpdateDone
<1> HIDE DEF pc
<1>4. worker' \in [Thread -> Worker] /\ OneWorker' /\ EachServed'
  BY <1>1, <1>2, <1>3, GotoIInv
<1>5. sent' \in SUBSET Signal
  BY EmitType DEF UpdateDone, FinishedStatus
<1>6. TypeOK'
  BY <1>4, <1>5, ServedMeansPrime DEF IInv, TypeOK, UpdateDone
<1>7. QED
  BY <1>4, <1>6, ServedMeansPrime DEF IInv

LEMMA StartEngineIInv ==
  ASSUME IInv, NEW t \in Thread, StartEngine(t)
  PROVE  IInv'
<1> DEFINE target == IF worker[t].op \in ArgOp
                     THEN [pkg   |-> arg,
                           nodep |-> worker[t].op = "remove" /\ nodep]
                     ELSE NoArgument
           w == [worker[t] EXCEPT !.pc = "working", !.target = target]
<1>1. /\ worker[t] \in Worker /\ arg \in Pkg \cup {NoPkg} /\ nodep \in BOOLEAN
      /\ worker \in [Thread -> Worker]
  BY DEF IInv, TypeOK
<1>2. worker' = [worker EXCEPT ![t] = w]
  BY <1>1 DEF StartEngine, Worker
<1>3. target \in Argument
  BY <1>1, NoArgumentType DEF Argument
<1>4. worker[t].op \in ArgOp =>
        Agrees(worker[t].op, target, [pkg |-> arg, nodep |-> nodep])
  BY <1>1 DEF Agrees
<1> HIDE DEF target
<1>5. /\ w \in Worker /\ w.pc = "working" /\ w.op = worker[t].op
      /\ w.asked = worker[t].asked /\ w.alone = worker[t].alone
      /\ w.target = target
  BY <1>1, <1>3 DEF Worker, PC
<1> HIDE DEF w
<1>6. Serves(worker[t]) /\ worker[t].pc = "ready"
  BY ServedMeans DEF IInv, EachServed, StartEngine
<1>7. Serves(w)
  BY <1>4, <1>5, <1>6 DEF Serves, Agrees
<1>8. lock = t /\ lock' = lock /\ arg' = arg /\ nodep' = nodep
  BY <1>6 DEF IInv, OneWorker, Critical, PC, StartEngine
<1>9. w.pc \in Critical
  BY <1>5 DEF Critical, PC
<1>10. worker' \in [Thread -> Worker] /\ OneWorker' /\ EachServed'
  BY <1>2, <1>5, <1>7, <1>8, <1>9, WorkerStep
<1>11. TypeOK'
  BY <1>10 DEF IInv, TypeOK, StartEngine, Silent
<1>12. QED
  BY <1>10, <1>11, ServedMeansPrime DEF IInv

\* A step of worker t that leaves its op, asked, target and alone, from one
\* place of the critical section after StartEngine to the next.
LEMMA EngineDoneIInv ==
  ASSUME IInv, NEW t \in Thread, EngineDone(t)
  PROVE  IInv'
<1>1. PICK o \in [db : SUBSET Pkg, count : 0 .. 1, ok : BOOLEAN] :
        /\ installed' = o.db
        /\ installedNum' = IF installedNum + o.count > ExitAfter
                           THEN ExitAfter + 1 ELSE installedNum + o.count
        /\ worker' = [worker EXCEPT ![t] = [@ EXCEPT !.pc = "done", !.ok = o.ok]]
  BY DEF EngineDone
<1> DEFINE w == [worker[t] EXCEPT !.pc = "done", !.ok = o.ok]
<1>2. worker[t] \in Worker /\ worker \in [Thread -> Worker]
  BY DEF IInv, TypeOK
<1>3. worker' = [worker EXCEPT ![t] = w]
  BY <1>1, <1>2
<1>4. /\ w \in Worker /\ w.pc = "done" /\ w.op = worker[t].op
      /\ w.asked = worker[t].asked /\ w.alone = worker[t].alone
      /\ w.target = worker[t].target
  BY <1>2 DEF Worker, PC
<1> HIDE DEF w
<1>5. Serves(worker[t]) /\ worker[t].pc = "working"
  BY ServedMeans DEF IInv, EachServed, EngineDone
<1>6. Serves(w)
  BY <1>4, <1>5 DEF Serves
<1>7. lock = t /\ lock' = lock /\ arg' = arg /\ nodep' = nodep
  BY <1>5 DEF IInv, OneWorker, Critical, PC, EngineDone
<1>8. w.pc \in Critical
  BY <1>4 DEF Critical, PC
<1>9. worker' \in [Thread -> Worker] /\ OneWorker' /\ EachServed'
  BY <1>3, <1>4, <1>6, <1>7, <1>8, WorkerStep
<1>10. installed' \in SUBSET Pkg /\ installedNum' \in 0 .. ExitAfter + 1
  <2>1. installedNum \in 0 .. ExitAfter + 1
    BY DEF IInv, TypeOK
  <2>2. o.db \in SUBSET Pkg /\ o.count \in 0 .. 1
    OBVIOUS
  <2>3. QED
    BY <1>1, <2>1, <2>2, ExitAfterAssumption
<1>11. TypeOK'
  BY <1>9, <1>10 DEF IInv, TypeOK, EngineDone, Silent
<1>12. QED
  BY <1>9, <1>11, ServedMeansPrime DEF IInv

LEMMA ReplyIInv ==
  ASSUME IInv, NEW t \in Thread, Reply(t)
  PROVE  IInv'
<1> DEFINE w == [Ended EXCEPT !.pc = "unlocking", !.op = worker[t].op]
<1>1. /\ worker[t] \in Worker /\ worker[t].op \in Op
      /\ arg \in Pkg \cup {NoPkg}
  BY DEF IInv, TypeOK, Worker
<1>2. w \in Worker /\ w.pc = "unlocking"
  BY <1>1, EndedIsWorker DEF Ended, Worker, PC
<1>3. worker' = [worker EXCEPT ![t] = w]
  BY DEF Reply
<1> HIDE DEF w
<1>4. lock = t /\ lock' = lock /\ arg' = arg /\ nodep' = nodep
  BY DEF IInv, OneWorker, Critical, PC, Reply
<1>5. Serves(w) /\ w.pc \in Critical
  BY <1>2 DEF Serves, Critical, PC
<1>6. worker' \in [Thread -> Worker] /\ OneWorker' /\ EachServed'
  BY <1>2, <1>3, <1>4, <1>5, WorkerStep
<1>7. sent' \in SUBSET Signal
  <2>1. ReplyStatus(worker[t]) \in FinishedStatus
    BY <1>1, BusyStatusType DEF ReplyStatus, FinishedStatus
  <2>2. QED
    BY <1>1, <2>1, EmitType DEF Reply
<1>8. TypeOK'
  BY <1>6, <1>7 DEF IInv, TypeOK, Reply
<1>9. QED
  BY <1>6, <1>8, ServedMeansPrime DEF IInv

LEMMA UnlockIInv ==
  ASSUME IInv, NEW t \in Thread, Unlock(t)
  PROVE  IInv'
<1>1. worker' = [worker EXCEPT ![t] = Ended] /\ arg' = arg /\ nodep' = nodep
  BY DEF Unlock
<1>2. lock = t /\ lock' = NoThread
  BY DEF IInv, OneWorker, Critical, PC, Unlock
<1>3. worker' \in [Thread -> Worker] /\ OneWorker' /\ EachServed'
  BY <1>1, <1>2, EndedIsWorker, EndedServes, NoThreadAssumption, WorkerStep
<1>4. TypeOK'
  BY <1>2, <1>3 DEF IInv, TypeOK, Unlock, Silent
<1>5. QED
  BY <1>3, <1>4, ServedMeansPrime DEF IInv

\* exit(0) ends every worker; a new process may start one that holds nothing.
LEMMA RestartIInv ==
  ASSUME IInv, (\E t \in Thread : Exit(t)) \/ Activate
  PROVE  IInv'
<1>1. TypeOK
  BY DEF IInv
<1>2. CASE \E t \in Thread : Exit(t)
  <2>1. /\ worker' = [u \in Thread |-> Ended] /\ lock' = NoThread
        /\ alive' = FALSE /\ main' = "loop" /\ arg' = NoPkg /\ nodep' = FALSE
        /\ installedNum' = 0 /\ sent' = {}
        /\ stale' = stale /\ installed' = installed
    BY <1>2 DEF Exit, Silent
  <2>2. /\ worker' \in [Thread -> Worker]
        /\ \A u \in Thread : worker'[u].pc = "ended"
    BY <2>1, EndedIsWorker, EndedServes
  <2>3. OneWorker'
    BY <2>1, <2>2, NoThreadAssumption DEF OneWorker, Critical, PC
  <2>4. ServesItsCall' /\ ArgGiven'
    BY <2>2 DEF ServesItsCall, ArgGiven
  <2>5. alive' \in BOOLEAN /\ nodep' \in BOOLEAN
    BY <2>1, Zenon
  <2>6. 0 \in 0 .. ExitAfter + 1
    BY ExitAfterAssumption
  <2>7. TypeOK'
    BY <1>1, <2>1, <2>2, <2>5, <2>6 DEF TypeOK
  <2>8. QED
    BY <2>3, <2>4, <2>7 DEF IInv
<1>3. CASE Activate
  <2>1. PICK t \in Thread, reachable \in BOOLEAN :
          worker' = Starting(t, reachable)
    BY <1>3 DEF Activate
  <2>2. /\ worker' \in [Thread -> Worker]
        /\ \A u \in Thread : /\ worker'[u].pc \in {"spawned", "ended"}
                             /\ worker'[u].op \in {"update", "list"}
    BY <2>1, StartingWorkers
  <2>3. /\ alive' = TRUE /\ main' = "loop" /\ lock' = NoThread
        /\ arg' = NoPkg /\ nodep' = FALSE
        /\ installedNum' = 0 /\ sent' = {}
        /\ stale' = stale /\ installed' = installed
    BY <1>3 DEF Activate, Silent
  <2>4. OneWorker'
    BY <2>2, <2>3, NoThreadAssumption DEF OneWorker, Critical, PC
  <2>5. ServesItsCall' /\ ArgGiven'
    BY <2>2 DEF ServesItsCall, ArgGiven, ArgOp
  <2>6. alive' \in BOOLEAN /\ nodep' \in BOOLEAN
    BY <2>3, Zenon
  <2>7. 0 \in 0 .. ExitAfter + 1
    BY ExitAfterAssumption
  <2>8. TypeOK'
    BY <1>1, <2>2, <2>3, <2>6, <2>7 DEF TypeOK
  <2>9. QED
    BY <2>4, <2>5, <2>8 DEF IInv
<1>4. QED
  BY <1>2, <1>3
-----------------------------------------------------------------------------

\* The main loop's own steps and the environment leave the workers alone.
LEMMA MainIInv ==
  ASSUME IInv, NmOnline \/ NmUpdateDone \/ BecomeStale
  PROVE  IInv'
<1>1. UNCHANGED <<alive, lock, arg, nodep, worker, installedNum, installed>>
  BY DEF NmOnline, NmUpdateDone, BecomeStale
<1>2. stale' \in BOOLEAN
  <2>1. stale' = stale \/ stale' \in BOOLEAN \/ stale' = TRUE
    BY DEF NmOnline, NmUpdateDone, BecomeStale
  <2>2. stale \in BOOLEAN
    BY DEF IInv, TypeOK
  <2>3. QED
    BY <2>1, <2>2, Zenon
<1>3. main' \in {"loop", "updating"}
  BY DEF IInv, TypeOK, NmOnline, NmUpdateDone, BecomeStale
<1>4. sent' \in SUBSET Signal
  BY EmitType DEF NmOnline, NmUpdateDone, BecomeStale, Silent, FinishedStatus
<1>5. TypeOK'
  BY <1>1, <1>2, <1>3, <1>4 DEF IInv, TypeOK
<1>6. OneWorker' /\ ServesItsCall' /\ ArgGiven'
  BY <1>1 DEF IInv, OneWorker, ServesItsCall, ArgGiven
<1>7. QED
  BY <1>5, <1>6 DEF IInv

LEMMA ArgumentsType ==
  ASSUME NEW op \in Op, NEW a \in Arguments(op)
  PROVE  a \in Argument /\ (op \in ArgOp => a.pkg \in Pkg)
<1>1. CASE op = "remove"
  <2>1. a \in [pkg : Pkg, nodep : BOOLEAN]
    BY <1>1 DEF Arguments
  <2>2. QED
    BY <2>1 DEF Argument
<1>2. CASE op \in {"install", "upgrade", "search"}
  <2>1. a \in [pkg : Pkg, nodep : {FALSE}]
    BY <1>2 DEF Arguments
  <2>2. QED
    BY <2>1 DEF Argument
<1>3. CASE op \notin ArgOp
  <2>1. a = NoArgument
    BY <1>3 DEF Arguments, ArgOp
  <2>2. QED
    BY <1>3, <2>1, NoArgumentType
<1>4. QED
  BY <1>1, <1>2, <1>3 DEF ArgOp

LEMMA StutterIInv == IInv /\ UNCHANGED vars => IInv'
  BY DEF IInv, TypeOK, OneWorker, ServesItsCall, ArgGiven, vars

LEMMA StepIInv == IInv /\ [Next]_vars => IInv'
<1> SUFFICES ASSUME IInv, [Next]_vars
             PROVE  IInv'
  OBVIOUS
<1>1. ASSUME NEW t \in Thread, Step(t)
      PROVE  IInv'
  BY <1>1, TryLockIInv, CheckDBIInv, UpdateDoneIInv, StartEngineIInv,
     EngineDoneIInv, ReplyIInv, UnlockIInv, RestartIInv DEF Step
<1>2. CASE NmUpdateDone
  BY <1>2, MainIInv
<1>3. ASSUME NEW op \in Op, NEW a \in Arguments(op), Call(op, a)
      PROVE  IInv'
  <2>1. a \in Argument /\ (op \in ArgOp => a.pkg \in Pkg)
    BY <1>3, ArgumentsType
  <2>2. QED
    BY <1>3, <2>1, CallIInv
<1>4. CASE UpdateTimer
  <2>1. "update" \in Op /\ "update" \notin ArgOp /\ NoArgument \in Argument
    BY NoArgumentType DEF Op, ArgOp
  <2>2. QED
    BY <1>4, <2>1, CallIInv DEF UpdateTimer
<1>5. CASE Activate \/ NmOnline \/ BecomeStale
  BY <1>5, MainIInv, RestartIInv
<1>6. CASE UNCHANGED vars
  BY <1>6, StutterIInv
<1>7. QED
  BY <1>1, <1>2, <1>3, <1>4, <1>5, <1>6 DEF Next, Environment

-----------------------------------------------------------------------------

\* The inductive invariant holds in every reachable state.
THEOREM Invariance == Spec => []IInv
  BY InitIInv, StepIInv, PTL DEF Spec

\* Every variable of the daemon keeps its type.
THEOREM TypeCorrect == Spec => []TypeOK
<1>1. IInv => TypeOK
  BY DEF IInv
<1>2. QED
  BY <1>1, Invariance, PTL

\* The mutex is held exactly by the worker past its trylock, through every
\* early return of the routines and every exit and start of the process.
THEOREM MutualExclusion == Spec => []OneWorker
<1>1. IInv => OneWorker
  BY DEF IInv
<1>2. QED
  BY <1>1, Invariance, PTL

\* A worker serves the call that started it unless a later call has stored
\* its argument meanwhile, and never runs the engine on a null argument.
THEOREM CallsServed == Spec => []ArgsInv
<1>1. IInv => ArgsInv
  BY DEF IInv, ArgsInv
<1>2. QED
  BY <1>1, Invariance, PTL

\* What RefusalIsAnonymous says of one worker and one step.
Refused(t) == worker[t].pc = "spawned" /\ worker'[t].pc # "spawned"
NamesNothing == \A signal \in sent' : signal.name = NoPkg

LEMMA StepRefusal ==
  ASSUME IInv, [Next]_vars, NEW t \in Thread, Refused(t)
  PROVE  NamesNothing
<1>1. worker \in [Thread -> Worker]
  BY DEF IInv, TypeOK
<1>2. CASE TryLock(t)
  BY <1>2 DEF TryLock, Emit, Silent, NamesNothing
<1>3. ASSUME NEW u \in Thread, Step(u), ~TryLock(t)
      PROVE  NamesNothing
  <2>1. CASE Exit(u)
    BY <2>1 DEF Exit, Silent, NamesNothing
  <2>2. CASE u = t
    BY <1>3, <2>1, <2>2 DEF Step, CheckDB, UpdateDone, StartEngine, EngineDone,
       Reply, Unlock, Refused
  <2>3. CASE u # t /\ ~Exit(u)
    <3>1. \E w : worker' = [worker EXCEPT ![u] = w]
      BY <1>3, <2>3 DEF Step, TryLock, CheckDB, UpdateDone, StartEngine,
         EngineDone, Reply, Unlock, Goto
    <3>2. worker'[t] = worker[t]
      BY <1>1, <2>3, <3>1
    <3>3. QED
      BY <3>2 DEF Refused
  <2>4. QED
    BY <2>1, <2>2, <2>3
<1>4. ASSUME NEW op \in Op, NEW a \in Argument, Call(op, a)
      PROVE  NamesNothing
  BY <1>4 DEF Call, Silent, NamesNothing
<1>5. CASE UpdateTimer
  BY <1>5 DEF UpdateTimer, Call, Silent, NamesNothing
<1>6. CASE Activate \/ NmOnline \/ BecomeStale
  BY <1>6 DEF Activate, NmOnline, BecomeStale, Silent, NamesNothing
<1>7. CASE NmUpdateDone
  BY <1>7 DEF NmUpdateDone, Emit, NamesNothing
<1>8. CASE UNCHANGED vars
  BY <1>8 DEF vars, Refused
<1>9. CASE Environment
  <2>1. ASSUME NEW op \in Op, NEW a \in Arguments(op), Call(op, a)
        PROVE  NamesNothing
    BY <1>4, <2>1, ArgumentsType
  <2>2. QED
    BY <1>5, <1>6, <1>9, <2>1 DEF Environment
<1>10. QED
  BY <1>2, <1>3, <1>7, <1>8, <1>9 DEF Next

\* A worker that is refused the mutex names no package in its Finished.
THEOREM RefusalsAnonymous == Spec => RefusalIsAnonymous
<1>1. IInv /\ [Next]_vars =>
        [\A t \in Thread :
           worker[t].pc = "spawned" /\ worker'[t].pc # "spawned" =>
             \A signal \in sent' : signal.name = NoPkg]_vars
  BY StepRefusal DEF Refused, NamesNothing
<1>2. QED
  BY <1>1, Invariance, PTL DEF Spec, RefusalIsAnonymous
=============================================================================
