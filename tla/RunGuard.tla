------------------------------- MODULE RunGuard -------------------------------
(***************************************************************************)
(* One qjade at a time (qjade/src/runguard.cpp): main() runs only if       *)
(* tryToRun() creates a shared memory segment, which exists while some     *)
(* process is attached to it.  memLock is a system-wide semaphore.         *)
(*                                                                         *)
(* System V segments outlive a process that is killed: they are removed by *)
(* the detach() that leaves nobody attached, so the constructor attaches   *)
(* and detaches once.  The kernel takes back the semaphore of the dead.    *)
(***************************************************************************)
EXTENDS Naturals, FiniteSets

CONSTANTS
  Proc,        \* processes
  MaxStarts    \* a bound on the starts of each process

ASSUME MaxStartsAssumption == MaxStarts \in Nat

VARIABLES
  segment,    \* the segment exists
  fix,        \* processes attached through the constructor's object
  sharedMem,  \* processes attached through the guard's
  memLock,    \* processes that hold the semaphore, at most one
  pc, isRunning, starts,
  ran         \* history: since they were all off, a process has run or died

vars == <<segment, fix, sharedMem, memLock, pc, isRunning, starts, ran>>

Init ==
  /\ segment = FALSE
  /\ fix = {} /\ sharedMem = {} /\ memLock = {}
  /\ pc = [p \in Proc |-> "off"]
  /\ isRunning = [p \in Proc |-> FALSE]
  /\ starts = [p \in Proc |-> 0]
  /\ ran = FALSE

Goto(p, at) == pc' = [pc EXCEPT ![p] = at]

\* The last to detach removes the segment.
Remains(users) == segment' = (segment /\ users # {})

\* The constructor attaches, if there is something to attach to.
Start(p) ==
  /\ pc[p] = "off" /\ starts[p] < MaxStarts
  /\ starts' = [starts EXCEPT ![p] = @ + 1]
  /\ fix' = IF segment THEN fix \cup {p} ELSE fix
  /\ ran' = (ran /\ \E q \in Proc : pc[q] # "off")
  /\ Goto(p, "fix")
  /\ UNCHANGED <<segment, sharedMem, memLock, isRunning>>

\* Mutant: the constructor leaves what it finds.
FixDetach_Not(p) ==
  /\ pc[p] = "fix"
  /\ fix' = fix \ {p}
  /\ Goto(p, "check")
  /\ UNCHANGED <<segment, sharedMem, memLock, isRunning, starts, ran>>

\* ... and detaches.
FixDetach(p) ==
  /\ pc[p] = "fix"
  /\ fix' = fix \ {p}
  /\ IF p \in fix THEN Remains(fix' \cup sharedMem) ELSE UNCHANGED segment
  /\ Goto(p, "check")
  /\ UNCHANGED <<sharedMem, memLock, isRunning, starts, ran>>

\* isAnotherRunning(): acquire() and attach().
CheckAttach(p) ==
  /\ pc[p] = "check" /\ memLock = {}
  /\ memLock' = {p}
  /\ isRunning' = [isRunning EXCEPT ![p] = segment]
  /\ sharedMem' = IF segment THEN sharedMem \cup {p} ELSE sharedMem
  /\ Goto(p, "attached")
  /\ UNCHANGED <<segment, fix, starts, ran>>

\* detach() and release(); main() returns if another one is running.
CheckDetach(p) ==
  /\ pc[p] = "attached"
  /\ sharedMem' = sharedMem \ {p}
  /\ IF isRunning[p] THEN Remains(fix \cup sharedMem') ELSE UNCHANGED segment
  /\ memLock' = memLock \ {p}
  /\ isRunning' = [isRunning EXCEPT ![p] = FALSE]
  /\ Goto(p, IF isRunning[p] THEN "off" ELSE "create")
  /\ UNCHANGED <<fix, starts, ran>>

\* Mutant: a segment that exists is attached to.
Create_Attaches(p) ==
  /\ pc[p] = "create" /\ memLock = {}
  /\ segment' = TRUE /\ sharedMem' = sharedMem \cup {p}
  /\ Goto(p, "running") /\ ran' = TRUE
  /\ UNCHANGED <<fix, memLock, isRunning, starts>>

\* create() under the semaphore; it fails if the segment exists.
Create(p) ==
  /\ pc[p] = "create" /\ memLock = {}
  /\ IF segment
       THEN Goto(p, "off") /\ UNCHANGED <<segment, sharedMem, ran>>
       ELSE /\ segment' = TRUE /\ sharedMem' = sharedMem \cup {p}
            /\ Goto(p, "running") /\ ran' = TRUE
  /\ UNCHANGED <<fix, memLock, isRunning, starts>>

\* The destructor's release().
Release(p) ==
  /\ pc[p] = "running" /\ memLock = {}
  /\ sharedMem' = sharedMem \ {p}
  /\ Remains(fix \cup sharedMem')
  /\ Goto(p, "off")
  /\ UNCHANGED <<fix, memLock, isRunning, starts, ran>>

\* Killed: the segment stays.
Die(p) ==
  /\ pc[p] # "off"
  /\ fix' = fix \ {p} /\ sharedMem' = sharedMem \ {p} /\ memLock' = memLock \ {p}
  /\ isRunning' = [isRunning EXCEPT ![p] = FALSE]
  /\ ran' = TRUE
  /\ Goto(p, "off")
  /\ UNCHANGED <<segment, starts>>

Step(p) ==
  FixDetach(p) \/ CheckAttach(p) \/ CheckDetach(p) \/ Create(p)

Next == \E p \in Proc : Start(p) \/ Step(p) \/ Release(p) \/ Die(p)

Spec == Init /\ [][Next]_vars

-----------------------------------------------------------------------------

TypeOK ==
  /\ segment \in BOOLEAN
  /\ fix \subseteq Proc /\ sharedMem \subseteq Proc
  /\ memLock \subseteq Proc /\ Cardinality(memLock) <= 1
  /\ pc \in [Proc -> {"off", "fix", "check", "attached", "create", "running"}]
  /\ isRunning \in [Proc -> BOOLEAN]
  /\ starts \in [Proc -> 0 .. MaxStarts]
  /\ ran \in BOOLEAN

\* However the starts of several processes interleave, and whoever is killed,
\* one process runs at most.
OneRuns == Cardinality({p \in Proc : pc[p] = "running"}) <= 1

\* Who runs is alone.
GuardInv == TypeOK /\ OneRuns

\* Processes do not all give way to one that does not run: neither to one
\* another when they start together, nor to one that was killed before they
\* started and has left its segment.
SomeoneRuns ==
  [][(\E p \in Proc : pc[p] # "off") /\ (\A p \in Proc : pc'[p] = "off")
       => ran']_vars
=============================================================================
