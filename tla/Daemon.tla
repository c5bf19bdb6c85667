-------------------------------- MODULE Daemon --------------------------------
(***************************************************************************)
(* The daemon isoftapp-daemon (src/daemon.cpp).                            *)
(*                                                                         *)
(* The main loop dispatches D-Bus calls, the 4 h update timer and          *)
(* NetworkManager's signals.  A call copies its argument into the ONE      *)
(* field priv->arg and starts a worker thread; the worker tries a mutex,   *)
(* brings the package cache up to date (checkDB), reads priv->arg, runs    *)
(* the package engine, and broadcasts Finished with the name it then finds *)
(* in priv->arg.  A worker that does not get the mutex broadcasts a        *)
(* Finished without a name and ends.  After an install the worker leaves   *)
(* the process if it has handled enough packages; D-Bus starts the daemon  *)
(* again for the next call.                                                *)
(*                                                                         *)
(* Only Finished is modelled of the signals: no client changes its state   *)
(* on the others.  The engine appears by its effect on the set of          *)
(* installed packages and by its result.                                   *)
(***************************************************************************)
EXTENDS Naturals

CONSTANTS
  Thread,      \* worker threads, started and reused by the model
  NoThread,    \* the mutex is free
  Pkg,
  NoPkg,       \* "" in a signal, the null pointer in priv->arg
  ExitAfter    \* the 50 packages after which an install ends the process

ASSUME NoThreadAssumption == NoThread \notin Thread
ASSUME NoPkgAssumption == NoPkg \notin Pkg
ASSUME ExitAfterAssumption == ExitAfter \in Nat

VARIABLES
  alive,        \* the process exists
  main,         \* the main loop: dispatching, or inside nm_signal's checkDB
  lock,         \* priv->lock: its holder
  arg, nodep,   \* priv->arg, priv->nodep
  worker,       \* the threads started by g_thread_new
  installedNum, \* g_installed_num, counted up to ExitAfter + 1
  stale,        \* needUpdate() would return true
  installed,    \* the rpm database
  sent          \* the Finished signals of the last step: none or one

vars == <<alive, main, lock, arg, nodep, worker, installedNum, stale,
          installed, sent>>

\* "list" stands for ListInstalled, ListUninstalled, ListAll, ListUpdate and
\* Check: the routines that read no argument and report no status.
ArgOp == {"install", "remove", "upgrade", "search"}
Op == ArgOp \cup {"list", "update"}

\* What a call carries and what the engine is given: the package, and for
\* Remove the nodep flag.
Argument == [pkg : Pkg \cup {NoPkg}, nodep : BOOLEAN]
NoArgument == [pkg |-> NoPkg, nodep |-> FALSE]

\* Where a worker stands: before its trylock, in checkDB's test and its
\* update, before the engine, in it, after it, and before the unlock.
PC == {"spawned", "checking", "updating", "ready", "working", "done",
       "unlocking"}
Critical == PC \ {"spawned"}

\* asked is the argument of the call that started the worker and alone tells
\* whether no later call has stored its own argument since: both are history.
Worker == [pc : PC \cup {"ended"}, op : Op, asked : Argument,
           target : Argument, ok : BOOLEAN, alone : BOOLEAN]

Ended == [pc |-> "ended", op |-> "list", asked |-> NoArgument,
          target |-> NoArgument, ok |-> FALSE, alone |-> TRUE]

FinishedStatus == {"INSTALLED", "INSTALL_ERROR", "REMOVED", "UPGRADED",
                   "UPDATED", "SEARCHED", "UNKNOWN"}
Signal == [name : Pkg \cup {NoPkg}, status : FinishedStatus]

-----------------------------------------------------------------------------

Spawned(op, a) == [Ended EXCEPT !.pc = "spawned", !.op = op, !.asked = a]

\* The threads of a process that starts: daemon_init updates a stale cache in
\* a worker.  (Not when logind cannot be reached: it returns before that.)
Starting(t, reachable) ==
  [u \in Thread |-> IF reachable /\ stale /\ u = t
                    THEN Spawned("update", NoArgument) ELSE Ended]

Init ==
  /\ alive = TRUE
  /\ main = "loop"
  /\ lock = NoThread
  /\ arg = NoPkg
  /\ nodep = FALSE
  /\ installedNum = 0
  /\ stale \in BOOLEAN
  /\ installed \in SUBSET Pkg
  /\ sent = {}
  /\ \E t \in Thread, reachable \in BOOLEAN : worker = Starting(t, reachable)

Emit(name, status) == sent' = {[name |-> name, status |-> status]}
Silent == sent' = {}

\* D-Bus activation starts the process again.
Activate ==
  /\ ~alive
  /\ alive' = TRUE
  /\ main' = "loop"
  /\ lock' = NoThread
  /\ arg' = NoPkg
  /\ nodep' = FALSE
  /\ installedNum' = 0
  /\ \E t \in Thread, reachable \in BOOLEAN : worker' = Starting(t, reachable)
  /\ UNCHANGED <<stale, installed>>
  /\ Silent

Goto(t, pc) == worker' = [worker EXCEPT ![t].pc = pc]

\* The workers, once a call has stored its argument over theirs.
Overtaken(op) ==
  [t \in Thread |->
     [worker[t] EXCEPT !.alone = @ /\ (op \notin ArgOp \/ worker[t].pc = "ended")]]

\* Mutant: Remove only ever sets the nodep flag.
Call_NodepSticky(op, a) ==
  /\ alive /\ main = "loop"
  /\ arg' = IF op \in ArgOp THEN a.pkg ELSE arg
  /\ nodep' = IF op = "remove" /\ a.nodep THEN TRUE ELSE nodep
  /\ \E t \in Thread :
       /\ worker[t].pc = "ended"
       /\ worker' = [Overtaken(op) EXCEPT ![t] = Spawned(op, a)]
  /\ UNCHANGED <<alive, main, lock, installedNum, stale, installed>>
  /\ Silent

\* A method handler: store the argument, start a worker.
Call(op, a) ==
  /\ alive /\ main = "loop"
  /\ arg' = IF op \in ArgOp THEN a.pkg ELSE arg
  /\ nodep' = IF op = "remove" THEN a.nodep ELSE nodep
  /\ \E t \in Thread :
       /\ worker[t].pc = "ended"
       /\ worker' = [Overtaken(op) EXCEPT ![t] = Spawned(op, a)]
  /\ UNCHANGED <<alive, main, lock, installedNum, stale, installed>>
  /\ Silent

\* The arguments clients send with a call.
Arguments(op) ==
  CASE op = "remove"                         -> [pkg : Pkg, nodep : BOOLEAN]
    [] op \in {"install", "upgrade", "search"} -> [pkg : Pkg, nodep : {FALSE}]
    [] OTHER                                 -> {NoArgument}

\* What the routine answers when another worker holds the mutex.
BusyStatus(op) ==
  CASE op = "install" -> "INSTALLED"
    [] op = "remove"  -> "REMOVED"
    [] op = "upgrade" -> "UPGRADED"
    [] op = "search"  -> "SEARCHED"
    [] OTHER          -> "UNKNOWN"

\* Mutant: the busy routine goes on (a missing return).
TryLock_NoReturn(t) ==
  /\ worker[t].pc = "spawned"
  /\ IF lock = NoThread THEN lock' = t /\ Silent
                        ELSE Emit(NoPkg, BusyStatus(worker[t].op)) /\ UNCHANGED lock
  /\ Goto(t, IF worker[t].op = "update" THEN "updating" ELSE "checking")
  /\ UNCHANGED <<alive, main, arg, nodep, installedNum, stale, installed>>

\* Mutant: the routine waits for the mutex.
TryLock_Waits(t) ==
  /\ worker[t].pc = "spawned"
  /\ lock = NoThread
  /\ lock' = t
  /\ Goto(t, IF worker[t].op = "update" THEN "updating" ELSE "checking")
  /\ UNCHANGED <<alive, main, arg, nodep, installedNum, stale, installed>>
  /\ Silent

\* Mutant: the refusal names the package (priv->arg for "").
TryLock_NamesArg(t) ==
  /\ worker[t].pc = "spawned"
  /\ IF lock = NoThread
       THEN /\ lock' = t
            /\ Goto(t, IF worker[t].op = "update" THEN "updating"
                                                  ELSE "checking")
            /\ Silent
       ELSE /\ Emit(arg, BusyStatus(worker[t].op))
            /\ worker' = [worker EXCEPT ![t] = Ended]
            /\ UNCHANGED lock
  /\ UNCHANGED <<alive, main, arg, nodep, installedNum, stale, installed>>

\* g_mutex_trylock, the first thing every routine does.
TryLock(t) ==
  /\ worker[t].pc = "spawned"
  /\ IF lock = NoThread
       THEN /\ lock' = t
            /\ Goto(t, IF worker[t].op = "update" THEN "updating"
                                                  ELSE "checking")
            /\ Silent
       ELSE /\ Emit(NoPkg, BusyStatus(worker[t].op))
            /\ worker' = [worker EXCEPT ![t] = Ended]
            /\ UNCHANGED lock
  /\ UNCHANGED <<alive, main, arg, nodep, installedNum, stale, installed>>

\* checkDB(): is the cache older than today's?
CheckDB(t) ==
  /\ worker[t].pc = "checking"
  /\ Goto(t, IF stale THEN "updating" ELSE "ready")
  /\ UNCHANGED <<alive, main, lock, arg, nodep, installedNum, stale,
                 installed>>
  /\ Silent

\* update() returns, having refreshed the cache or not.  For the routine
\* behind Update this is the whole work; checkDB's caller goes on.
UpdateDone(t) ==
  /\ worker[t].pc = "updating"
  /\ Emit(NoPkg, "UPDATED")
  /\ stale' \in BOOLEAN
  /\ Goto(t, IF worker[t].op = "update" THEN "unlocking" ELSE "ready")
  /\ UNCHANGED <<alive, main, lock, arg, nodep, installedNum, installed>>

\* The argument is read here, not when the worker was started.
StartEngine(t) ==
  /\ worker[t].pc = "ready"
  /\ worker' = [worker EXCEPT ![t] = [@ EXCEPT
       !.pc = "working",
       !.target = IF worker[t].op \in ArgOp
                  THEN [pkg |-> arg, nodep |-> worker[t].op = "remove" /\ nodep]
                  ELSE NoArgument]]
  /\ UNCHANGED <<alive, main, lock, arg, nodep, installedNum, stale,
                 installed>>
  /\ Silent

\* How the engine can leave the rpm database, the number of packages it has
\* handled, and what install() returns.  A failed rpm transaction changes
\* nothing and is not reported: install() returns true all the same.
Outcome(op, p, o) ==
  LET nothing == o.db = installed /\ o.count = 0
  IN CASE op = "install" /\ p \in installed -> nothing /\ o.ok
       [] op = "install" /\ p \notin installed ->
            \/ nothing /\ ~o.ok                          \* an unknown package
            \/ o.db = installed /\ o.count = 1 /\ ~o.ok  \* a bad download
            \/ o.db = installed /\ o.count = 1 /\ o.ok   \* rpm has failed
            \/ o.db = installed \cup {p} /\ o.count = 1 /\ o.ok
       [] op = "remove" ->
            o.db \in {installed, installed \ {p}} /\ o.count = 0 /\ o.ok
       [] op = "upgrade" /\ p \in installed -> o.db = installed /\ o.ok
       [] OTHER -> nothing /\ o.ok

EngineDone(t) ==
  /\ worker[t].pc = "working"
  /\ \E o \in [db : SUBSET Pkg, count : 0 .. 1, ok : BOOLEAN] :
       /\ Outcome(worker[t].op, worker[t].target.pkg, o)
       /\ installed' = o.db
       /\ installedNum' = IF installedNum + o.count > ExitAfter
                          THEN ExitAfter + 1 ELSE installedNum + o.count
       /\ worker' = [worker EXCEPT ![t] = [@ EXCEPT !.pc = "done", !.ok = o.ok]]
  /\ UNCHANGED <<alive, main, lock, arg, nodep, stale>>
  /\ Silent

\* Mutant: STATUS_INSTALL, the progress, for STATUS_INSTALLED, the end.
ReplyStatus_Progress(w) ==
  IF w.op = "install" /\ w.ok THEN "INSTALL" ELSE BusyStatus(w.op)

\* install() alone has a result; the others report success whatever happened.
ReplyStatus(w) ==
  IF w.op = "install" /\ ~w.ok THEN "INSTALL_ERROR" ELSE BusyStatus(w.op)

\* Finished is emitted with the name priv->arg holds by now.
Reply(t) ==
  /\ worker[t].pc = "done"
  /\ Emit(IF worker[t].op \in ArgOp THEN arg ELSE NoPkg, ReplyStatus(worker[t]))
  /\ worker' = [worker EXCEPT ![t] = [Ended EXCEPT !.pc = "unlocking",
                                                  !.op = worker[t].op]]
  /\ UNCHANGED <<alive, main, lock, arg, nodep, installedNum, stale, installed>>

MustExit(t) == worker[t].op = "install" /\ installedNum > ExitAfter

Unlock(t) ==
  /\ worker[t].pc = "unlocking"
  /\ ~MustExit(t)
  /\ lock' = NoThread
  /\ worker' = [worker EXCEPT ![t] = Ended]
  /\ UNCHANGED <<alive, main, arg, nodep, installedNum, stale, installed>>
  /\ Silent

\* exit(0) with the mutex held: every thread and every field is gone.
Exit(t) ==
  /\ worker[t].pc = "unlocking"
  /\ MustExit(t)
  /\ alive' = FALSE
  /\ main' = "loop"
  /\ lock' = NoThread
  /\ arg' = NoPkg
  /\ nodep' = FALSE
  /\ installedNum' = 0
  /\ worker' = [u \in Thread |-> Ended]
  /\ UNCHANGED <<stale, installed>>
  /\ Silent

-----------------------------------------------------------------------------

\* nm_signal: NetworkManager is online, and the main loop itself runs
\* checkDB, without the mutex.
NmOnline ==
  /\ alive /\ main = "loop"
  /\ main' = IF stale THEN "updating" ELSE "loop"
  /\ main' # main
  /\ UNCHANGED <<alive, lock, arg, nodep, worker, installedNum, stale,
                 installed>>
  /\ Silent

NmUpdateDone ==
  /\ alive /\ main = "updating"
  /\ Emit(NoPkg, "UPDATED")
  /\ main' = "loop"
  /\ stale' \in BOOLEAN
  /\ UNCHANGED <<alive, lock, arg, nodep, worker, installedNum, installed>>

\* daemon_update_cache_timer starts the same routine as the Update method.
UpdateTimer == Call("update", NoArgument)

\* The date changes, or the cache file is lost.
BecomeStale ==
  /\ ~stale
  /\ stale' = TRUE
  /\ UNCHANGED <<alive, main, lock, arg, nodep, worker, installedNum, installed>>
  /\ Silent

-----------------------------------------------------------------------------

Step(t) ==
  \/ TryLock(t) \/ CheckDB(t) \/ UpdateDone(t) \/ StartEngine(t)
  \/ EngineDone(t) \/ Reply(t) \/ Unlock(t) \/ Exit(t)

Environment ==
  \/ \E op \in Op : \E a \in Arguments(op) : Call(op, a)
  \/ Activate \/ NmOnline \/ UpdateTimer \/ BecomeStale

Next ==
  \/ \E t \in Thread : Step(t)
  \/ NmUpdateDone
  \/ Environment

\* The kernel runs every thread, and transfers end.
Fairness ==
  /\ \A t \in Thread : WF_vars(Step(t))
  /\ WF_vars(NmUpdateDone)

Spec == Init /\ [][Next]_vars /\ Fairness

-----------------------------------------------------------------------------

TypeOK ==
  /\ alive \in BOOLEAN
  /\ main \in {"loop", "updating"}
  /\ lock \in Thread \cup {NoThread}
  /\ arg \in Pkg \cup {NoPkg}
  /\ nodep \in BOOLEAN
  /\ worker \in [Thread -> Worker]
  /\ installedNum \in 0 .. ExitAfter + 1
  /\ stale \in BOOLEAN
  /\ installed \in SUBSET Pkg
  /\ sent \in SUBSET Signal

\* The engine and its globals belong to one worker at a time, across every
\* early return and restart of the process: whoever is past its trylock holds
\* the mutex, and a mutex that is held belongs to such a worker.
OneWorker == \A t \in Thread : worker[t].pc \in Critical <=> lock = t

\* Two arguments mean the same to op: only Remove looks at nodep.
Agrees(op, a, b) == a.pkg = b.pkg /\ (op = "remove" => a.nodep = b.nodep)

\* priv->arg is a single field, yet as long as no other call has stored an
\* argument since its own, a worker finds there the argument of its call,
\* the nodep flag included, when it reads it for the engine and for Finished.
ServesItsCall ==
  \A t \in Thread :
    LET w == worker[t] IN
    w.pc \notin {"unlocking", "ended"} /\ w.op \in ArgOp /\ w.alone =>
      /\ Agrees(w.op, [pkg |-> arg, nodep |-> nodep], w.asked)
      /\ w.pc \in {"working", "done"} => Agrees(w.op, w.target, w.asked)

\* priv->arg is null in a new process, and exit(0) may come between any two
\* steps of the others: no routine that passes it on ever finds it null.
ArgGiven ==
  \A t \in Thread :
    LET w == worker[t] IN
    w.pc \notin {"unlocking", "ended"} /\ w.op \in ArgOp =>
      /\ arg \in Pkg
      /\ w.pc \in {"working", "done"} => w.target.pkg \in Pkg

\* Every routine has its call's argument, and never none.
ArgsInv == ServesItsCall /\ ArgGiven

\* What the client's queue relies on: a Finished with a name never comes from
\* a worker that was refused the mutex, so it never ends a task unserved.
RefusalIsAnonymous ==
  [][\A t \in Thread :
       worker[t].pc = "spawned" /\ worker'[t].pc # "spawned" =>
         \A signal \in sent' : signal.name = NoPkg]_vars

\* No routine waits for another: every call's worker ends; and the mutex is
\* always given back, by an unlock or with the process.
EveryCallEnds ==
  /\ \A t \in Thread : worker[t].pc # "ended" ~> worker[t].pc = "ended"
  /\ lock # NoThread ~> lock = NoThread

\* The usage text of the command line: install installs packages, search
\* searches them, remove removes them.  A package is installed only by a
\* worker that an Install of that package started.
InstallsOnlyWhatInstallAsks ==
  [][\A p \in installed' \ installed :
       \E t \in Thread : /\ worker[t].pc = "working"
                         /\ worker[t].op = "install"
                         /\ worker[t].asked.pkg = p]_vars
=============================================================================
