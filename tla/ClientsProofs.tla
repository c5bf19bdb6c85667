---------------------------- MODULE ClientsProofs ----------------------------
(***************************************************************************)
(* What the clients keep besides the task queue: the guard, for any number *)
(* of processes and of starts; the icons, for any packages; the reports of *)
(* a job's progress, for any files, packages and signals on their way; and *)
(* the catalogue, for any categories and order of the replies.             *)
(***************************************************************************)
EXTENDS RunGuard, Clients, Integers, Sequences, SequenceTheorems, FiniteSetTheorems, TLAPS

(***************************************************************************)
(* The guard.  Who runs is attached through the guard's object, and nobody *)
(* is attached to a segment that does not exist; so create() succeeds only *)
(* while none runs.  The semaphore is not needed for that.                 *)
(***************************************************************************)

PCs == {"off", "fix", "check", "attached", "create", "running"}

\* TypeOK, with the semaphore's one holder said without Cardinality.
Types ==
  /\ segment \in BOOLEAN
  /\ fix \subseteq Proc /\ sharedMem \subseteq Proc
  /\ memLock \subseteq Proc
  /\ \A p, q \in memLock : p = q
  /\ pc \in [Proc -> PCs]
  /\ isRunning \in [Proc -> BOOLEAN]
  /\ starts \in [Proc -> 0 .. MaxStarts]
  /\ ran \in BOOLEAN

\* Who is attached to what, and when.
Attached ==
  /\ fix \cup sharedMem # {} => segment
  /\ \A p \in fix : pc[p] = "fix"
  /\ \A p \in Proc : p \in sharedMem <=> pc[p] = "running" \/ (pc[p] = "attached" /\ isRunning[p])

Alone == \A p, q \in Proc : pc[p] = "running" /\ pc[q] = "running" => p = q

IInv == Types /\ Attached /\ Alone

\* A set of which all elements are the same has one at most.
LEMMA OneAtMost ==
  ASSUME NEW S, \A x, y \in S : x = y
  PROVE  Cardinality(S) <= 1
<1>1. CASE S = {}
  BY <1>1, FS_EmptySet
<1>2. ASSUME NEW x \in S PROVE Cardinality(S) <= 1
  <2>1. S = {x}
    OBVIOUS
  <2>2. QED
    BY <2>1, FS_Singleton
<1>3. QED
  BY <1>1, <1>2

LEMMA InitIInv == Init => IInv
<1> SUFFICES ASSUME Init PROVE IInv
  OBVIOUS
<1>1. 0 \in 0 .. MaxStarts
  BY MaxStartsAssumption
<1>2. Types
  BY <1>1 DEF Init, Types, PCs
<1>3. Attached /\ Alone
  BY DEF Init, Attached, Alone
<1>4. QED
  BY <1>2, <1>3 DEF IInv

LEMMA StepIInv == IInv /\ [Next]_vars => IInv'
<1> SUFFICES ASSUME IInv, [Next]_vars PROVE IInv'
  OBVIOUS
<1> USE DEF IInv, Types, Attached, Alone, PCs, Goto, Remains
<1>1. ASSUME NEW p \in Proc, Start(p) PROVE IInv'
  BY <1>1, MaxStartsAssumption DEF Start
<1>2. ASSUME NEW p \in Proc, FixDetach(p) PROVE IInv'
  BY <1>2 DEF FixDetach
<1>3. ASSUME NEW p \in Proc, CheckAttach(p) PROVE IInv'
  BY <1>3 DEF CheckAttach
<1>4. ASSUME NEW p \in Proc, CheckDetach(p) PROVE IInv'
  BY <1>4 DEF CheckDetach
<1>5. ASSUME NEW p \in Proc, Create(p) PROVE IInv'
  <2>1. CASE segment
    BY <1>5, <2>1 DEF Create
  <2>2. CASE ~segment
    <3>1. /\ segment' = TRUE /\ sharedMem' = {p} /\ pc' = [pc EXCEPT ![p] = "running"]
          /\ ran' = TRUE /\ UNCHANGED <<fix, memLock, isRunning, starts>>
      BY <1>5, <2>2 DEF Create
    <3>2. \A q \in Proc : pc[q] # "running"
      BY <2>2
    <3>3. pc[p] = "create"
      BY <1>5 DEF Create
    <3>4. Types'
      BY <3>1
    <3>5. Attached'
      BY <2>2, <3>1, <3>3
    <3>6. Alone'
      BY <3>1, <3>2
    <3>7. QED
      BY <3>4, <3>5, <3>6
  <2>3. QED
    BY <2>1, <2>2
<1>6. ASSUME NEW p \in Proc, Release(p) PROVE IInv'
  BY <1>6 DEF Release
<1>7. ASSUME NEW p \in Proc, Die(p) PROVE IInv'
  BY <1>7 DEF Die
<1>8. CASE UNCHANGED vars
  BY <1>8 DEF vars
<1>9. QED
  BY <1>1, <1>2, <1>3, <1>4, <1>5, <1>6, <1>7, <1>8 DEF Next, Step

LEMMA IInvGuard == IInv => GuardInv
<1> SUFFICES ASSUME IInv PROVE GuardInv
  OBVIOUS
<1>1. Cardinality(memLock) <= 1
  BY OneAtMost DEF IInv, Types
<1>2. OneRuns
  BY OneAtMost DEF IInv, Alone, OneRuns
<1>3. QED
  BY <1>1, <1>2 DEF IInv, Types, PCs, GuardInv, TypeOK

\* At most one process is past tryToRun() at any time, whatever the number of
\* processes, however their starts interleave and whoever is killed.
THEOREM OneInstance == Spec => []GuardInv
  BY InitIInv, StepIInv, IInvGuard, PTL DEF Spec

-----------------------------------------------------------------------------

\* Who holds the semaphore looks.
Locked ==
  \A p \in Proc : pc[p] = "attached" => memLock = {p}

\* As long as nobody has run or died, a segment has users, and whoever gives
\* way to it leaves somebody behind who has still to look.
Users ==
  /\ \A p \in Proc : pc[p] = "running" => ran
  /\ ~ran /\ segment /\ (\E p \in Proc : pc[p] # "off") => fix \cup sharedMem # {}
  /\ \A p \in Proc :
       ~ran /\ pc[p] = "attached" /\ isRunning[p] =>
         \E q \in Proc \ {p} : pc[q] \in {"fix", "check"}

JInv == IInv /\ Locked /\ Users

LEMMA InitJInv == Init => JInv
  BY InitIInv DEF Init, JInv, Locked, Users

LEMMA StepLocked == JInv /\ [Next]_vars => Locked'
  BY DEF JInv, IInv, Types, Locked, Next, Step, Start, FixDetach, CheckAttach, CheckDetach,
         Create, Release, Die, Goto, vars

LEMMA StepUsers == JInv /\ [Next]_vars => Users'
<1> SUFFICES ASSUME JInv, [Next]_vars PROVE Users'
  OBVIOUS
<1> USE DEF JInv, IInv, Types, Attached, Locked, Users, Goto, Remains
<1>1. ASSUME NEW p \in Proc, Start(p) PROVE Users'
  BY <1>1 DEF Start
<1>2. ASSUME NEW p \in Proc, FixDetach(p) PROVE Users'
  BY <1>2 DEF FixDetach
<1>3. ASSUME NEW p \in Proc, CheckAttach(p) PROVE Users'
  BY <1>3 DEF CheckAttach
<1>4. ASSUME NEW p \in Proc, CheckDetach(p) PROVE Users'
  BY <1>4 DEF CheckDetach
<1>5. ASSUME NEW p \in Proc, Create(p) PROVE Users'
  BY <1>5 DEF Create
<1>6. ASSUME NEW p \in Proc, Release(p) PROVE Users'
  BY <1>6 DEF Release
<1>7. ASSUME NEW p \in Proc, Die(p) PROVE Users'
  BY <1>7 DEF Die
<1>8. CASE UNCHANGED vars
  BY <1>8 DEF vars
<1>9. QED
  BY <1>1, <1>2, <1>3, <1>4, <1>5, <1>6, <1>7, <1>8 DEF Next, Step

LEMMA StepJInv == JInv /\ [Next]_vars => JInv'
  BY StepIInv, StepLocked, StepUsers DEF JInv

\* The last one leaves only when somebody has run or died.
LEMMA StepSomeone ==
  ASSUME JInv, Next, NEW o \in Proc, pc[o] # "off", \A p \in Proc : pc'[p] = "off"
  PROVE  ran'
<1> USE DEF JInv, IInv, Types, Attached, Locked, Users, Goto
<1>1. ASSUME NEW p \in Proc, Start(p) \/ FixDetach(p) \/ CheckAttach(p) PROVE FALSE
  BY <1>1 DEF Start, FixDetach, CheckAttach
<1>2. ASSUME NEW p \in Proc, CheckDetach(p) PROVE ran'
  BY <1>2 DEF CheckDetach
<1>3. ASSUME NEW p \in Proc, Create(p) PROVE ran'
  BY <1>3 DEF Create
<1>4. ASSUME NEW p \in Proc, Release(p) PROVE ran'
  BY <1>4 DEF Release
<1>5. ASSUME NEW p \in Proc, Die(p) PROVE ran'
  BY <1>5 DEF Die
<1>6. QED
  BY <1>1, <1>2, <1>3, <1>4, <1>5 DEF Next, Step

\* Processes that start together, or find what a killed one has left, do not
\* all give way: one of them runs, unless it is killed.
THEOREM NotAllGiveWay == Spec => SomeoneRuns
<1>1. JInv /\ [Next]_vars =>
        [(\E p \in Proc : pc[p] # "off") /\ (\A p \in Proc : pc'[p] = "off") => ran']_vars
  BY StepSomeone
<1>2. QED
  BY <1>1, InitJInv, StepJInv, PTL DEF Spec, SomeoneRuns

-----------------------------------------------------------------------------

(***************************************************************************)
(* The icons.  A .cfg is empty only while its call holds the descriptor    *)
(* with which it was created, or when something has come in between.       *)
(***************************************************************************)

IconsTypes ==
  /\ I!TypeOK
  /\ main \in [pc : {"idle", "download", "open", "write"}, name : Installed \cup {NoName},
              fd : BOOLEAN]
  /\ main.pc # "idle" => main.name \in Installed
  /\ main.fd => main.pc = "write"
  /\ requests \in Seq(Installed)

EmptyIsOpen ==
  \A n \in Installed :
    cfg[n] = "empty" => n \in cut \/ (main.pc = "write" /\ main.name = n /\ main.fd)

IconsIInv == IconsTypes /\ EmptyIsOpen

\* The missing icons are asked for one by one.
LEMMA IconsCardinality == \A S : I!Cardinality(S) = Cardinality(S)
  BY DEF I!Cardinality, Cardinality

LEMMA IconsFinite == \A S : I!IsFiniteSet(S) = IsFiniteSet(S)
  BY DEF I!IsFiniteSet, IsFiniteSet

LEMMA RequestsType == I!SetToSeq(I!Missing) \in Seq(Installed)
<1> DEFINE S == I!Missing
<1>1. S \subseteq Installed
  BY DEF I!Missing
<1>2. IsFiniteSet(S)
  BY <1>1, IconsConstants, IconsFinite, FS_Subset DEF I!ConstantsOK
<1> HIDE DEF S
<1>3. Cardinality(S) \in Nat /\ Bijection(1 .. Cardinality(S), S) # {}
  BY <1>2, FS_CardinalityType DEF ExistsBijection
<1>4. PICK f \in Bijection(1 .. Cardinality(S), S) : TRUE
  BY <1>3
<1>5. f \in [1 .. Cardinality(S) -> S] /\ I!IsInjective(f)
  BY <1>4 DEF Bijection, Injection, IsInjective, I!IsInjective
<1>6. I!SetToSeq(S) \in [1 .. Cardinality(S) -> S]
  BY <1>5, IconsCardinality DEF I!SetToSeq
<1>7. I!SetToSeq(S) \in Seq(S)
  BY <1>3, <1>6
<1>8. QED
  BY <1>1, <1>7, SeqMonotonic DEF S

LEMMA IconsInit == I!Init => IconsIInv
<1> SUFFICES ASSUME I!Init PROVE IconsIInv
  OBVIOUS
<1>1. /\ png = [n \in Installed |-> "none"] /\ cfg = [n \in Installed |-> "none"]
      /\ loaded = FALSE /\ offline \in BOOLEAN /\ g_getIconCounter = 0
      /\ m_installedList = {} /\ requests = <<>> /\ cut = {}
      /\ main = [pc |-> "idle", name |-> NoName, fd |-> FALSE]
  BY DEF I!Init, I!NoCall
<1>2. I!TypeOK
  <2>1. png \in [Installed -> {"none", "page", "image"}]
    BY <1>1
  <2>2. cfg \in [Installed -> {"none", "empty", "whole"}]
    BY <1>1
  <2>3. {loaded, offline} \subseteq BOOLEAN
    <3>1. loaded \in BOOLEAN /\ offline \in BOOLEAN
      BY <1>1
    <3>2. QED
      BY <3>1, Zenon
  <2>4. main.name \in Installed \cup {NoName} /\ g_getIconCounter \in 0 .. 9
    BY <1>1
  <2>5. QED
    BY <1>1, <2>1, <2>2, <2>3, <2>4 DEF I!TypeOK
<1>3. requests \in Seq(Installed)
  BY <1>1
<1>4. IconsTypes
  BY <1>1, <1>2, <1>3 DEF IconsTypes
<1>5. EmptyIsOpen
  BY <1>1 DEF EmptyIsOpen
<1>6. QED
  BY <1>4, <1>5 DEF IconsIInv

\* The steps of the main loop's call.
LEMMA IconsCall ==
  ASSUME IconsIInv, I!daemon_get_icons \/ I!download_file \/ I!OpenCfg \/ I!WriteCfg
  PROVE  IconsIInv'
<1> USE DEF IconsIInv, IconsTypes, EmptyIsOpen, I!TypeOK
<1>1. CASE I!daemon_get_icons
  <2>1. Head(requests) \in Installed /\ Tail(requests) \in Seq(Installed)
    BY <1>1, HeadTailProperties DEF I!daemon_get_icons
  <2>2. QED
    BY <1>1, <2>1 DEF I!daemon_get_icons, I!NoCall
<1>2. CASE I!download_file
  BY <1>2 DEF I!download_file
<1>3. CASE I!OpenCfg
  <2>1. /\ main.pc = "open" /\ main.name \in Installed
        /\ UNCHANGED <<png, loaded, offline, g_getIconCounter, m_installedList, requests, cut>>
    BY <1>3 DEF I!OpenCfg
  <2>2. CASE /\ main' = [main EXCEPT !.pc = "write", !.fd = TRUE]
             /\ cfg' = [cfg EXCEPT ![main.name] = IF @ = "none" THEN "empty" ELSE @]
    <3>1. main'.pc = "write" /\ main'.name = main.name /\ main'.fd = TRUE
      BY <2>2
    <3>2. IconsTypes'
      BY <2>1, <2>2
    <3>3. EmptyIsOpen'
      BY <2>1, <2>2, <3>1
    <3>4. QED
      BY <3>2, <3>3
  <2>3. CASE main' = I!NoCall /\ UNCHANGED cfg
    BY <2>1, <2>3 DEF I!NoCall
  <2>4. QED
    BY <1>3, <2>2, <2>3 DEF I!OpenCfg
<1>4. CASE I!WriteCfg
  BY <1>4 DEF I!WriteCfg, I!NoCall, I!Lost
<1>5. QED
  BY <1>1, <1>2, <1>3, <1>4

\* The worker that ends an installation, or the process.
LEMMA IconsEnd ==
  ASSUME IconsIInv, I!install_routine \/ I!Exit
  PROVE  IconsIInv'
<1> USE DEF IconsIInv, IconsTypes, EmptyIsOpen, I!TypeOK
<1>1. /\ UNCHANGED <<png, cfg, loaded, offline, g_getIconCounter, m_installedList>>
      /\ cut' = cut \cup I!Lost
  BY DEF I!install_routine, I!Exit
<1>2. I!Lost \subseteq Installed
  BY DEF I!Lost
<1>3. \A n \in Installed : cfg[n] = "empty" => n \in cut'
  BY <1>1 DEF I!Lost
<1>4. CASE I!install_routine
  BY <1>1, <1>2, <1>3, <1>4 DEF I!install_routine
<1>5. CASE I!Exit
  <2>1. main' = [pc |-> "idle", name |-> NoName, fd |-> FALSE] /\ requests' = <<>>
    BY <1>5 DEF I!Exit, I!NoCall
  <2>2. requests' \in Seq(Installed)
    BY <2>1
  <2>3. QED
    BY <1>1, <1>2, <1>3, <2>1, <2>2
<1>6. QED
  BY <1>4, <1>5

\* The timers.
LEMMA IconsTimers ==
  ASSUME IconsIInv, I!Load \/ I!NetworkChange \/ I!getIconTimeOut \/ I!getInstalledTimeout
  PROVE  IconsIInv'
<1> USE DEF IconsIInv, IconsTypes, EmptyIsOpen, I!TypeOK
<1>1. CASE I!Load \/ I!NetworkChange
  BY <1>1 DEF I!Load, I!NetworkChange
<1>2. CASE I!getIconTimeOut
  BY <1>2, RequestsType DEF I!getIconTimeOut
<1>3. CASE I!getInstalledTimeout
  <2>1. /\ UNCHANGED <<png, cfg, loaded, offline, g_getIconCounter, requests, main, cut>>
        /\ m_installedList' = {I!Row(n) : n \in {x \in Installed : cfg[x] # "none"}}
           \/ m_installedList' = m_installedList \cup I!Online
    BY <1>3 DEF I!getInstalledTimeout
  <2>2. \A n \in Installed : I!Row(n).name \in Installed \cup {NoName}
                             /\ I!Row(n).icon \in {"none", "image", "catalogue"}
    BY DEF I!Row
  <2>3. \A row \in I!Online : row.name \in Installed \cup {NoName} /\ row.icon = "catalogue"
    BY DEF I!Online
  <2>4. \A row \in m_installedList' :
          row.name \in Installed \cup {NoName} /\ row.icon \in {"none", "image", "catalogue"}
    BY <2>1, <2>2, <2>3
  <2>5. QED
    BY <2>1, <2>4
<1>4. QED
  BY <1>1, <1>2, <1>3

LEMMA IconsStep == IconsIInv /\ [I!Next]_(I!vars) => IconsIInv'
<1>1. IconsIInv /\ UNCHANGED I!vars => IconsIInv'
  BY DEF I!vars, IconsIInv, IconsTypes, EmptyIsOpen, I!TypeOK
<1>2. QED
  BY <1>1, IconsCall, IconsEnd, IconsTimers DEF I!Next

\* However workers close the daemon's descriptors and end its process while
\* icons are fetched, an icon's .cfg is left empty only when one of that, or a
\* failed write, came between its creation and its contents.
THEOREM IconsAreCut == I!Spec => []IconsInv
<1>1. IconsIInv => IconsInv
  BY DEF IconsIInv, IconsTypes, EmptyIsOpen, IconsInv, I!IconsInv, I!EmptyWasCut
<1>2. QED
  BY <1>1, IconsInit, IconsStep, PTL DEF I!Spec
-----------------------------------------------------------------------------

(***************************************************************************)
(* The reports.  A Finished that the console client may still hear is that *)
(* of its job or someone else's; once its job has ended, one is on its way *)
(* until it quits, or one was lost.  What was printed full before the      *)
(* first repetition counts with the repetition.                            *)
(***************************************************************************)

\* The signals: a download or a transaction goes on; the work on a package;
\* the end of a job; and a failure.
Goings == [kind : {"percent"}, status : {"DOWNLOAD", "UNKNOWN"}, file : File \cup {NoFile},
           percent : Int]
Works == [kind : {"percent"}, status : {"INSTALLED", "INSTALL"}, file : {P!AFile}, percent : Int]
Ends == [kind : {"finished"}, status : {"INSTALLED", "UPDATED"}]
Errors == [kind : {"error"}]

Signal == Goings \cup Works \cup Ends \cup Errors

Reports ==
  /\ job \in [owner : {"none", "console", "other"},
              pc : {"idle", "checkDB", "fetch", "rpm", "package", "end"}]
  /\ fd = (IF job.pc = "package" THEN 2 ELSE 0)
  /\ wire \in Seq(Signal) /\ Len(wire) <= MaxWire
  /\ bar \in Package \cup {NoName} /\ doing \in Package \cup {NoName}
  /\ alarms = 0

\* What the console client has printed.
Printed ==
  /\ g_fileName \in File \cup {NoFile}
  /\ g_finished \in BOOLEAN /\ firstFull \in BOOLEAN
  /\ full \in Nat
  /\ full <= (IF firstFull THEN 1 ELSE 0) + (IF g_finished THEN 1 ELSE 0)

FinishedOn == \E i \in 1 .. Len(wire) : wire[i].kind = "finished"

\* When the console client quits.
Quits ==
  /\ console \in {"off", "waits", "quit"}
  /\ called \in BOOLEAN /\ served \in BOOLEAN /\ foreign \in BOOLEAN /\ lost \in BOOLEAN
  /\ console = "off" => ~called /\ ~served /\ job.owner # "console"
  /\ console = "quit" => served \/ foreign
  /\ console = "waits" /\ FinishedOn => served \/ foreign
  /\ console = "waits" /\ served => lost \/ FinishedOn

ProgressIInv == Reports /\ Printed /\ Quits

\* A signal is sent, the last on the wire.
LEMMA Sending ==
  ASSUME wire \in Seq(Signal), Len(wire) <= MaxWire, NEW s \in Signal, P!Send(s)
  PROVE  /\ wire' \in Seq(Signal) /\ Len(wire') <= MaxWire
         /\ FinishedOn' <=> (FinishedOn \/ s.kind = "finished")
<1> HIDE DEF Signal
<1>1. wire' = Append(wire, s) /\ Len(wire) < MaxWire /\ MaxWire \in Nat
  BY ProgressConstants DEF P!Send, P!ConstantsOK
<1>2. /\ wire' \in Seq(Signal) /\ Len(wire') = Len(wire) + 1
      /\ \A i \in 1 .. Len(wire) : wire'[i] = wire[i]
      /\ wire'[Len(wire) + 1] = s
      /\ Len(wire) \in Nat
  BY <1>1, AppendProperties, LenProperties
<1>3. FinishedOn => FinishedOn'
  BY <1>2 DEF FinishedOn
<1>4. s.kind = "finished" => FinishedOn'
  BY <1>2 DEF FinishedOn
<1>5. FinishedOn' => FinishedOn \/ s.kind = "finished"
  <2>1. SUFFICES ASSUME NEW i \in 1 .. Len(wire'), wire'[i].kind = "finished"
                 PROVE  FinishedOn \/ s.kind = "finished"
    BY DEF FinishedOn
  <2>2. i \in 1 .. Len(wire) \/ i = Len(wire) + 1
    BY <1>2
  <2>3. QED
    BY <1>2, <2>1, <2>2 DEF FinishedOn
<1>6. QED
  BY <1>1, <1>2, <1>3, <1>4, <1>5

\* A signal that is no Finished is sent, and no more than that.
Told ==
  /\ wire' \in Seq(Signal) /\ Len(wire') <= MaxWire
  /\ FinishedOn' <=> FinishedOn
  /\ alarms' = 0
  /\ UNCHANGED <<fd, console, called, g_fileName, g_finished, bar, doing,
                 served, foreign, lost, full, firstFull>>

\* A report of a progress is sent as such.
LEMMA Telling ==
  ASSUME ProgressIInv, NEW p \in {P!NaN, 0, 100, P!Over}, NEW file, NEW status,
         P!Percent(status, file, p) \in Goings \cup Works,
         P!Tell(p, file, status, FALSE)
  PROVE  Told
<1> DEFINE s == P!Percent(status, file, p)
<1>1. P!rpm_progress_handle(p, file, status) = s
  BY DEF P!rpm_progress_handle, P!NaN, P!Over, P!Failed
<1>2. s.kind = "percent" /\ s \in Signal
  BY DEF P!Percent, Signal
<1>3. /\ P!Send(s) /\ alarms' = alarms + 0 - 0
      /\ UNCHANGED <<fd, console, called, g_fileName, g_finished, bar, doing,
                     served, foreign, lost, full, firstFull>>
  <2> HIDE DEF s
  <2>1. QED
    BY <1>1, <1>2 DEF P!Tell, P!clients
<1>4. alarms' = 0
  BY <1>3 DEF ProgressIInv, Reports
<1> HIDE DEF s
<1>5. wire \in Seq(Signal) /\ Len(wire) <= MaxWire
  BY DEF ProgressIInv, Reports
<1>6. QED
  BY <1>2, <1>3, <1>4, <1>5, Sending DEF Told

LEMMA ProgressInit == P!Init => ProgressIInv
<1> SUFFICES ASSUME P!Init PROVE ProgressIInv
  OBVIOUS
<1>1. wire \in Seq(Signal) /\ Len(wire) = 0 /\ ~FinishedOn
  BY DEF P!Init, FinishedOn
<1>2. Reports
  <2>1. fd = (IF job.pc = "package" THEN 2 ELSE 0)
    BY DEF P!Init, P!NoJob
  <2>2. QED
    BY <1>1, <2>1, ProgressConstants DEF P!Init, P!NoJob, Reports, P!ConstantsOK
<1>3. Printed
  <2>1. g_fileName = NoFile /\ ~g_finished /\ ~firstFull /\ full = 0
        /\ g_finished \in BOOLEAN /\ firstFull \in BOOLEAN
    BY DEF P!Init
  <2>2. QED
    BY <2>1 DEF Printed
<1>4. Quits
  BY <1>1 DEF P!Init, P!NoJob, Quits
<1>5. QED
  BY <1>2, <1>3, <1>4 DEF ProgressIInv
\* A step that is no end of a job, and sends no Finished.
LEMMA ProgressGoesOn ==
  ASSUME ProgressIInv,
         wire' \in Seq(Signal), Len(wire') <= MaxWire, FinishedOn' <=> FinishedOn,
         alarms' = 0,
         UNCHANGED <<console, called, g_fileName, g_finished, bar, doing, served, foreign, lost,
                     full, firstFull>>,
         job'.owner = job.owner,
         job' \in [owner : {"none", "console", "other"},
                   pc : {"idle", "checkDB", "fetch", "rpm", "package", "end"}],
         fd' = (IF job'.pc = "package" THEN 2 ELSE 0)
  PROVE  ProgressIInv'
<1> USE DEF ProgressIInv
<1>1. Reports'
  <2> HIDE DEF Signal
  <2>1. QED
    BY DEF Reports
<1>2. Printed'
  BY DEF Printed
<1>3. Quits'
  <2> HIDE DEF FinishedOn
  <2>1. QED
    BY DEF Quits
<1>4. QED
  BY <1>1, <1>2, <1>3

LEMMA ProgressTold ==
  ASSUME ProgressIInv, Told, job' = job \/ P!Goes("fetch", "end")
  PROVE  ProgressIInv'
<1> HIDE DEF Signal, FinishedOn
<1>1. /\ job \in [owner : {"none", "console", "other"},
                  pc : {"idle", "checkDB", "fetch", "rpm", "package", "end"}]
      /\ fd = (IF job.pc = "package" THEN 2 ELSE 0)
  BY DEF ProgressIInv, Reports
<1>2. CASE job' = job
  BY <1>1, <1>2, ProgressGoesOn DEF Told
<1>3. CASE P!Goes("fetch", "end")
  <2>1. job.pc = "fetch" /\ job' = [job EXCEPT !.pc = "end"]
    BY <1>3 DEF P!Goes
  <2>2. job'.owner = job.owner /\ job'.pc = "end"
    BY <1>1, <2>1
  <2>3. job' \in [owner : {"none", "console", "other"},
                  pc : {"idle", "checkDB", "fetch", "rpm", "package", "end"}]
    BY <1>1, <2>1
  <2>4. fd' = (IF job'.pc = "package" THEN 2 ELSE 0)
    BY <1>1, <2>1, <2>2 DEF Told
  <2>5. QED
    BY <2>2, <2>3, <2>4, ProgressGoesOn DEF Told
<1>4. QED
  BY <1>2, <1>3

LEMMA ProgressQuiet == ProgressIInv /\ UNCHANGED fd /\ P!Quiet => Told
<1> SUFFICES ASSUME ProgressIInv, UNCHANGED fd, P!Quiet PROVE Told
  OBVIOUS
<1>1. FinishedOn' <=> FinishedOn
  BY DEF P!Quiet, FinishedOn
<1> HIDE DEF Signal, FinishedOn
<1>2. QED
  BY <1>1 DEF P!Quiet, P!clients, P!history, Told, ProgressIInv, Reports

\* The job's reports.
LEMMA ProgressReports ==
  ASSUME ProgressIInv,
         P!NothingToDo \/ P!progress_func \/ P!TransProgress \/ P!InstProgress
  PROVE  ProgressIInv'
<1> HIDE DEF Signal, FinishedOn
<1>1. CASE P!NothingToDo
  <2>1. P!Goes("fetch", "end")
    BY <1>1 DEF P!NothingToDo
  <2>2. CASE P!Tell(0, P!AFile, "INSTALLED", FALSE)
    <3>1. P!Percent("INSTALLED", P!AFile, 0) \in Goings \cup Works
      BY DEF P!Percent, Works
    <3>2. QED
      BY <2>1, <2>2, <3>1, Telling, ProgressTold
  <2>3. CASE UNCHANGED fd /\ P!Quiet
    BY <2>1, <2>3, ProgressQuiet, ProgressTold
  <2>4. QED
    BY <1>1, <2>2, <2>3 DEF P!NothingToDo
<1>2. CASE P!progress_func
  <2>1. PICK f \in File, p \in {P!NaN, 0, 100} : P!Tell(p, f, "DOWNLOAD", FALSE)
    BY <1>2 DEF P!progress_func
  <2>2. P!Percent("DOWNLOAD", f, p) \in Goings \cup Works
    BY DEF P!Percent, Goings, P!NaN
  <2>3. job' = job
    BY <1>2 DEF P!progress_func
  <2>4. QED
    BY <2>1, <2>2, <2>3, Telling, ProgressTold
<1>3. CASE P!TransProgress
  <2>1. PICK p \in {0, 100, P!Over} : P!Tell(p, NoFile, "UNKNOWN", FALSE)
    BY <1>3 DEF P!TransProgress
  <2>2. P!Percent("UNKNOWN", NoFile, p) \in Goings \cup Works
    BY DEF P!Percent, Goings, P!Over
  <2>3. job' = job
    BY <1>3 DEF P!TransProgress
  <2>4. QED
    BY <2>1, <2>2, <2>3, Telling, ProgressTold
<1>4. CASE P!InstProgress
  <2>1. PICK p \in {0, 100, P!Over} : P!Tell(p, P!AFile, "INSTALL", FALSE)
    BY <1>4 DEF P!InstProgress
  <2>2. P!Percent("INSTALL", P!AFile, p) \in Goings \cup Works
    BY DEF P!Percent, Works, P!Over
  <2>3. job' = job
    BY <1>4 DEF P!InstProgress
  <2>4. QED
    BY <2>1, <2>2, <2>3, Telling, ProgressTold
<1>5. QED
  BY <1>1, <1>2, <1>3, <1>4

\* The steps between the reports, and the transaction's failure.
LEMMA ProgressTransaction ==
  ASSUME ProgressIInv,
         P!Transaction \/ P!InstOpenFile \/ P!InstCloseFile \/ P!rpmInstall
  PROVE  ProgressIInv'
<1> HIDE DEF Signal, FinishedOn
<1>0. /\ wire \in Seq(Signal) /\ Len(wire) <= MaxWire /\ alarms = 0
      /\ job \in [owner : {"none", "console", "other"},
                  pc : {"idle", "checkDB", "fetch", "rpm", "package", "end"}]
      /\ fd = (IF job.pc = "package" THEN 2 ELSE 0)
  BY DEF ProgressIInv, Reports
<1>1. ASSUME P!Quiet,
             job'.owner = job.owner,
             job' \in [owner : {"none", "console", "other"},
                       pc : {"idle", "checkDB", "fetch", "rpm", "package", "end"}],
             fd' = (IF job'.pc = "package" THEN 2 ELSE 0)
      PROVE  ProgressIInv'
  <2>1. FinishedOn' <=> FinishedOn
    BY <1>1 DEF P!Quiet, FinishedOn
  <2>2. QED
    BY <1>0, <1>1, <2>1, ProgressGoesOn DEF P!Quiet, P!clients, P!history
<1>2. CASE P!Transaction
  BY <1>0, <1>1, <1>2 DEF P!Transaction, P!Goes
<1>3. CASE P!InstOpenFile
  BY <1>0, <1>1, <1>3 DEF P!InstOpenFile, P!Goes
<1>4. CASE P!InstCloseFile
  BY <1>0, <1>1, <1>4 DEF P!InstCloseFile, P!Goes
<1>5. CASE P!rpmInstall
  <2>1. CASE P!Goes("rpm", "end") /\ UNCHANGED fd /\ P!Quiet
    BY <1>0, <1>1, <2>1 DEF P!Goes
  <2>2. CASE P!Goes("rpm", "fetch") /\ UNCHANGED fd /\ P!Quiet
    BY <1>0, <1>1, <2>2 DEF P!Goes
  <2>3. CASE P!Goes("rpm", "end") /\ P!Tell(P!Failed, NoFile, "INSTALL", TRUE)
    <3> DEFINE s == [kind |-> "error"]
    <3>1. P!rpm_progress_handle(P!Failed, NoFile, "INSTALL") = s
      BY DEF P!rpm_progress_handle, P!Failed
    <3>2. s.kind = "error" /\ s \in Signal
      BY DEF Signal, Errors
    <3> HIDE DEF s
    <3>3. /\ P!Send(s) /\ alarms' = alarms + 1 - 1
          /\ UNCHANGED <<fd, console, called, g_fileName, g_finished, bar, doing,
                         served, foreign, lost, full, firstFull>>
      BY <2>3, <3>1, <3>2 DEF P!Tell, P!clients
    <3>4. /\ wire' \in Seq(Signal) /\ Len(wire') <= MaxWire
          /\ FinishedOn' <=> FinishedOn
      BY <1>0, <3>2, <3>3, Sending
    <3>5. QED
      BY <1>0, <2>3, <3>3, <3>4, ProgressGoesOn DEF P!Goes
  <2>4. QED
    <3> HIDE DEF ProgressIInv
    <3>1. QED
      BY <1>5, <2>1, <2>2, <2>3, Zenon DEF P!rpmInstall
<1>6. QED
  BY <1>2, <1>3, <1>4, <1>5
\* Before anything is sent.
LEMMA ProgressTypes ==
  ASSUME ProgressIInv
  PROVE  /\ wire \in Seq(Signal) /\ Len(wire) <= MaxWire /\ alarms = 0
         /\ job \in [owner : {"none", "console", "other"},
                     pc : {"idle", "checkDB", "fetch", "rpm", "package", "end"}]
         /\ fd = (IF job.pc = "package" THEN 2 ELSE 0)
         /\ bar \in Package \cup {NoName} /\ doing \in Package \cup {NoName}
BY DEF ProgressIInv, Reports

\* What a Finished is.
LEMMA AFinished ==
  \A status \in {"INSTALLED", "UPDATED"} :
    P!Finished(status) \in Signal /\ P!Finished(status).kind = "finished"
BY DEF P!Finished, Signal, Ends

\* A call is accepted, or refused with a Finished of its own.
LEMMA ProgressCall ==
  ASSUME ProgressIInv, NEW owner \in {"console", "other"}, P!Call(owner)
  PROVE  ProgressIInv'
<1> HIDE DEF Signal, FinishedOn
<1> DEFINE s == P!Finished("INSTALLED")
<1>1. s \in Signal /\ s.kind = "finished"
  BY AFinished
<1> HIDE DEF s
<1>2. /\ owner = "console" => console # "off"
      /\ called' = (called \/ owner = "console")
      /\ UNCHANGED <<fd, console, g_fileName, g_finished, bar, doing,
                     alarms, served, lost, full, firstFull>>
  BY DEF P!Call
<1>3. Printed'
  BY <1>2 DEF ProgressIInv, Printed
<1>4. CASE job = P!NoJob
  <2>1. job' = [owner |-> owner, pc |-> "checkDB"] /\ UNCHANGED <<wire, foreign>>
    BY <1>4 DEF P!Call
  <2>2. job.pc = "idle"
    BY <1>4 DEF P!NoJob
  <2>3. job'.pc = "checkDB" /\ job'.owner = owner
    BY <2>1
  <2>4. job' \in [owner : {"none", "console", "other"},
                  pc : {"idle", "checkDB", "fetch", "rpm", "package", "end"}]
    BY <2>1
  <2>5. FinishedOn' <=> FinishedOn
    BY <2>1 DEF FinishedOn
  <2>6. Reports'
    BY <1>2, <2>1, <2>2, <2>3, <2>4, ProgressTypes DEF Reports
  <2>7. Quits'
    BY <1>2, <2>1, <2>3, <2>5 DEF ProgressIInv, Quits
  <2>8. QED
    BY <1>3, <2>6, <2>7 DEF ProgressIInv
<1>5. CASE job # P!NoJob
  <2>1. P!Send(s) /\ foreign' = (foreign \/ console # "off") /\ UNCHANGED job
    BY <1>5 DEF P!Call, s
  <2>2. wire' \in Seq(Signal) /\ Len(wire') <= MaxWire /\ FinishedOn'
    BY <1>1, <2>1, Sending, ProgressTypes
  <2>3. Reports'
    BY <1>2, <2>1, <2>2, ProgressTypes DEF Reports
  <2>4. Quits'
    BY <1>2, <2>1, <2>2 DEF ProgressIInv, Quits
  <2>5. QED
    BY <1>3, <2>3, <2>4 DEF ProgressIInv
<1>6. QED
  BY <1>4, <1>5

\* The table's update, and its Finished.
LEMMA ProgressCheckDB ==
  ASSUME ProgressIInv, P!checkDB
  PROVE  ProgressIInv'
<1> HIDE DEF Signal, FinishedOn
<1> DEFINE s == P!Finished("UPDATED")
<1>1. s \in Signal /\ s.kind = "finished"
  BY AFinished
<1> HIDE DEF s
<1>2. /\ job.pc = "checkDB" /\ job' = [job EXCEPT !.pc = "fetch"]
      /\ UNCHANGED <<fd, console, called, g_fileName, g_finished, bar, doing,
                     alarms, served, lost, full, firstFull>>
  BY DEF P!checkDB, P!Goes, P!clients
<1>3. /\ job'.pc = "fetch" /\ job'.owner = job.owner
      /\ job' \in [owner : {"none", "console", "other"},
                   pc : {"idle", "checkDB", "fetch", "rpm", "package", "end"}]
  BY <1>2, ProgressTypes
<1>4. Printed'
  BY <1>2 DEF ProgressIInv, Printed
<1>5. CASE UNCHANGED <<wire, foreign>>
  <2>1. FinishedOn' <=> FinishedOn
    BY <1>5 DEF FinishedOn
  <2>2. Reports'
    BY <1>2, <1>3, <1>5, ProgressTypes DEF Reports
  <2>3. Quits'
    BY <1>2, <1>3, <1>5, <2>1 DEF ProgressIInv, Quits
  <2>4. QED
    BY <1>4, <2>2, <2>3 DEF ProgressIInv
<1>6. CASE P!Send(s) /\ foreign' = (foreign \/ console # "off")
  <2>1. wire' \in Seq(Signal) /\ Len(wire') <= MaxWire /\ FinishedOn'
    BY <1>1, <1>6, Sending, ProgressTypes
  <2>2. Reports'
    BY <1>2, <1>3, <2>1, ProgressTypes DEF Reports
  <2>3. Quits'
    BY <1>2, <1>3, <1>6, <2>1 DEF ProgressIInv, Quits
  <2>4. QED
    BY <1>4, <2>2, <2>3 DEF ProgressIInv
<1>7. QED
  BY <1>5, <1>6 DEF P!checkDB, s

\* The end of a job, and its Finished, which may be lost.
LEMMA ProgressEndJob ==
  ASSUME ProgressIInv, P!EndJob
  PROVE  ProgressIInv'
<1> HIDE DEF Signal, FinishedOn
<1> DEFINE s == P!Finished("INSTALLED")
<1>1. s \in Signal /\ s.kind = "finished"
  BY AFinished
<1> HIDE DEF s
<1>2. /\ job.pc = "end" /\ job' = [owner |-> "none", pc |-> "idle"]
      /\ served' = (served \/ job.owner = "console")
      /\ foreign' = (foreign \/ (job.owner # "console" /\ console # "off"))
      /\ UNCHANGED <<fd, console, called, g_fileName, g_finished, bar, doing,
                     alarms, full, firstFull>>
  BY DEF P!EndJob, P!NoJob, P!clients
<1>3. /\ job'.pc = "idle" /\ job'.owner = "none"
      /\ job' \in [owner : {"none", "console", "other"},
                   pc : {"idle", "checkDB", "fetch", "rpm", "package", "end"}]
  BY <1>2
<1>4. Printed'
  BY <1>2 DEF ProgressIInv, Printed
<1>5. CASE P!Send(s) /\ UNCHANGED lost
  <2>1. wire' \in Seq(Signal) /\ Len(wire') <= MaxWire /\ FinishedOn'
    BY <1>1, <1>5, Sending, ProgressTypes
  <2>2. Reports'
    BY <1>2, <1>3, <2>1, ProgressTypes DEF Reports
  <2>3. Quits'
    BY <1>2, <1>3, <1>5, <2>1 DEF ProgressIInv, Quits
  <2>4. QED
    BY <1>4, <2>2, <2>3 DEF ProgressIInv
<1>6. CASE UNCHANGED wire /\ lost' = (console # "off")
  <2>1. FinishedOn' <=> FinishedOn
    BY <1>6 DEF FinishedOn
  <2>2. Reports'
    BY <1>2, <1>3, <1>6, ProgressTypes DEF Reports
  <2>3. Quits'
    BY <1>2, <1>3, <1>6, <2>1 DEF ProgressIInv, Quits
  <2>4. QED
    BY <1>4, <2>2, <2>3 DEF ProgressIInv
<1>7. QED
  BY <1>5, <1>6 DEF P!EndJob, s

LEMMA ProgressConnect ==
  ASSUME ProgressIInv, P!Connect
  PROVE  ProgressIInv'
<1> HIDE DEF Signal
<1>1. /\ console = "off" /\ console' = "waits" /\ wire = <<>>
      /\ foreign' = FALSE /\ lost' = FALSE
      /\ UNCHANGED <<job, fd, wire, called, g_fileName, g_finished, bar, doing,
                     alarms, served, full, firstFull>>
  BY DEF P!Connect
<1>2. Printed'
  BY <1>1 DEF ProgressIInv, Printed
<1>3. Reports'
  BY <1>1, ProgressTypes DEF Reports
<1>4. ~FinishedOn'
  BY <1>1 DEF FinishedOn
<1>5. Quits'
  <2> HIDE DEF FinishedOn
  <2>1. QED
    BY <1>1, <1>4 DEF ProgressIInv, Quits
<1>6. QED
  BY <1>2, <1>3, <1>5 DEF ProgressIInv
\* The first signal on the wire is taken off it.
LEMMA Taking ==
  ASSUME wire \in Seq(Signal), wire # <<>>, wire' = Tail(wire)
  PROVE  /\ wire' \in Seq(Signal) /\ Len(wire') <= Len(wire)
         /\ Len(wire') \in Nat /\ Len(wire) \in Nat
         /\ Head(wire) \in Signal
         /\ FinishedOn' => FinishedOn
         /\ Head(wire).kind = "finished" => FinishedOn
         /\ Head(wire).kind # "finished" /\ FinishedOn => FinishedOn'
<1> HIDE DEF Signal
<1>1. /\ Head(wire) = wire[1] /\ Head(wire) \in Signal
      /\ wire' \in Seq(Signal) /\ Len(wire') = Len(wire) - 1
      /\ Len(wire) \in Nat /\ Len(wire) > 0
      /\ \A i \in 1 .. Len(wire') : wire'[i] = wire[i + 1]
  BY HeadTailProperties, EmptySeq, LenProperties
<1>2. FinishedOn' => FinishedOn
  <2>1. SUFFICES ASSUME NEW i \in 1 .. Len(wire'), wire'[i].kind = "finished"
                 PROVE  FinishedOn
    BY DEF FinishedOn
  <2>2. i + 1 \in 1 .. Len(wire) /\ wire[i + 1].kind = "finished"
    BY <1>1, <2>1
  <2>3. QED
    BY <2>2 DEF FinishedOn
<1>3. Head(wire).kind = "finished" => FinishedOn
  BY <1>1 DEF FinishedOn
<1>4. Head(wire).kind # "finished" /\ FinishedOn => FinishedOn'
  <2>1. SUFFICES ASSUME NEW i \in 1 .. Len(wire), wire[i].kind = "finished",
                        wire[1].kind # "finished"
                 PROVE  FinishedOn'
    BY <1>1 DEF FinishedOn
  <2>2. i # 1
    BY <2>1
  <2>3. i - 1 \in 1 .. Len(wire') /\ (i - 1) + 1 = i
    BY <1>1, <2>2
  <2>4. wire'[i - 1].kind = "finished"
    BY <1>1, <2>1, <2>3
  <2>5. QED
    BY <2>3, <2>4 DEF FinishedOn
<1>5. QED
  BY <1>1, <1>2, <1>3, <1>4

\* What the console client prints of a report.
LEMMA Printing ==
  ASSUME Printed, NEW file \in File \cup {NoFile}, NEW p \in Int, P!Report(file, p)
  PROVE  Printed'
<1> DEFINE again == g_fileName = file /\ p = 100
<1>1. CASE p \notin 0 .. 100 \/ (again /\ g_finished)
  BY <1>1 DEF P!Report, Printed
<1>2. CASE ~(p \notin 0 .. 100 \/ (again /\ g_finished))
  <2>1. /\ g_finished' = (again \/ (g_finished /\ (g_fileName \in {file, NoFile})))
        /\ g_fileName' = file
        /\ full' = (IF file = g_fileName THEN full ELSE 0) + (IF p = 100 THEN 1 ELSE 0)
        /\ firstFull' = (IF file = g_fileName THEN firstFull ELSE p = 100)
    BY <1>2 DEF P!Report, P!Line
  <2>2. g_finished' \in BOOLEAN /\ firstFull' \in BOOLEAN
    BY <2>1 DEF Printed
  <2>3. CASE file = g_fileName
    <3>1. CASE p = 100
      <4>1. ~g_finished /\ g_finished' /\ firstFull' = firstFull /\ full' = full + 1
        BY <1>2, <2>1, <2>3, <3>1
      <4>2. QED
        BY <2>1, <2>2, <4>1 DEF Printed
    <3>2. CASE p # 100
      <4>1. g_finished' = g_finished /\ firstFull' = firstFull /\ full' = full + 0
        BY <2>1, <2>3, <3>2 DEF Printed
      <4>2. QED
        BY <2>1, <2>2, <4>1 DEF Printed
    <3>3. QED
      BY <3>1, <3>2
  <2>4. CASE file # g_fileName
    <3>1. CASE p = 100
      <4>1. full' = 1
        BY <2>1, <2>4, <3>1
      <4>2. firstFull' = (p = 100)
        BY <2>1, <2>4, Zenon
      <4>3. QED
        BY <2>1, <2>2, <3>1, <4>1, <4>2 DEF Printed
    <3>2. CASE p # 100
      <4>1. full' = 0
        BY <2>1, <2>4, <3>2
      <4>2. QED
        BY <2>1, <2>2, <4>1 DEF Printed
    <3>3. QED
      BY <3>1, <3>2
  <2>5. QED
    BY <2>3, <2>4
<1>3. QED
  BY <1>1, <1>2

\* Of what is reported on, only downloads and transactions are printed so.
LEMMA ReportsKind ==
  ASSUME NEW s \in Signal, s.kind = "percent", s.status \in {"DOWNLOAD", "UNKNOWN"}
  PROVE  s.file \in File \cup {NoFile} /\ s.percent \in Int
BY DEF Signal, Goings, Works, Ends, Errors

\* A signal reaches both clients.
LEMMA ProgressDeliver ==
  ASSUME ProgressIInv, P!Deliver
  PROVE  ProgressIInv'
<1> HIDE DEF Signal, FinishedOn
<1> DEFINE s == Head(wire)
<1>1. /\ wire # <<>> /\ wire' = Tail(wire)
      /\ IF s.kind = "percent" THEN P!percentChged(s) ELSE UNCHANGED bar
      /\ IF console = "waits" THEN P!Hear(s)
         ELSE UNCHANGED <<console, g_fileName, g_finished, full, firstFull>>
      /\ UNCHANGED <<job, fd, called, doing, alarms, served, foreign, lost>>
  BY DEF P!Deliver, P!bounds
<1>2. /\ wire' \in Seq(Signal) /\ Len(wire') <= MaxWire
      /\ s \in Signal
      /\ FinishedOn' => FinishedOn
      /\ s.kind = "finished" => FinishedOn
      /\ s.kind # "finished" /\ FinishedOn => FinishedOn'
  <2>1. MaxWire \in Nat
    BY ProgressConstants DEF P!ConstantsOK
  <2>2. QED
    BY <1>1, <2>1, Taking, ProgressTypes
<1> HIDE DEF s
<1>3. bar' \in Package \cup {NoName}
  BY <1>1, ProgressTypes DEF P!percentChged, P!Section
<1>4. Reports'
  BY <1>1, <1>2, <1>3, ProgressTypes DEF Reports
<1>5. Printed'
  <2>1. CASE UNCHANGED <<g_fileName, g_finished, full, firstFull>>
    BY <2>1 DEF ProgressIInv, Printed
  <2>2. CASE P!Report(s.file, s.percent) /\ s.kind = "percent" /\ s.status \in {"DOWNLOAD", "UNKNOWN"}
    BY <1>2, <2>2, ReportsKind, Printing DEF ProgressIInv
  <2>3. QED
    BY <1>1, <2>1, <2>2 DEF P!Hear
<1>6. Quits'
  <2>1. CASE console = "waits" /\ s.kind = "finished"
    <3>1. console' = "quit"
      BY <1>1, <2>1 DEF P!Hear
    <3>2. served \/ foreign
      BY <1>2, <2>1 DEF ProgressIInv, Quits
    <3>3. QED
      BY <1>1, <3>1, <3>2 DEF ProgressIInv, Quits
  <2>2. CASE console # "waits" \/ s.kind # "finished"
    <3>1. console' = console
      BY <1>1, <2>2 DEF P!Hear
    <3>2. QED
      BY <1>1, <1>2, <2>2, <3>1 DEF ProgressIInv, Quits
  <2>3. QED
    BY <2>1, <2>2
<1>7. QED
  BY <1>4, <1>5, <1>6 DEF ProgressIInv

LEMMA ProgressStep == ProgressIInv /\ [P!Next]_(P!vars) => ProgressIInv'
<1>1. ASSUME ProgressIInv, UNCHANGED P!vars PROVE ProgressIInv'
  <2>1. FinishedOn' <=> FinishedOn
    BY <1>1 DEF P!vars, FinishedOn
  <2> HIDE DEF Signal, FinishedOn
  <2>2. QED
    BY <1>1, <2>1 DEF P!vars, P!clients, P!bounds, P!history, ProgressIInv, Reports, Printed, Quits
<1> HIDE DEF ProgressIInv
<1>2. QED
  BY <1>1, ProgressCall, ProgressCheckDB, ProgressReports, ProgressTransaction, ProgressEndJob,
     ProgressConnect, ProgressDeliver DEF P!Next

LEMMA ProgressImplies == ProgressIInv => ReportsInv /\ ConsoleQuitsInTime
<1> SUFFICES ASSUME ProgressIInv PROVE ReportsInv /\ ConsoleQuitsInTime
  OBVIOUS
<1> HIDE DEF Signal
<1>1. P!TypeOK
  BY DEF ProgressIInv, Reports, Printed, Quits, P!TypeOK
<1>2. P!AlarmsAreFailures /\ P!FileIsClosed
  BY DEF ProgressIInv, Reports, P!AlarmsAreFailures, P!FileIsClosed
<1>3. P!FullOnce
  BY DEF ProgressIInv, Printed, P!FullOnce
<1>4. ConsoleQuitsInTime
  BY DEF ProgressIInv, Quits, FinishedOn, ConsoleQuitsInTime, P!ConsoleQuitsInTime
<1>5. QED
  BY <1>1, <1>2, <1>3, <1>4 DEF ReportsInv, P!ReportsInv

\* However many files, packages, jobs and refused calls: no report of a
\* progress is taken for the failure of a transaction, each file is closed with
\* both of its references, and a file is printed as complete once, or twice if
\* that was the first that was heard of it.
THEOREM ReportsAreTaken == P!Spec => []ReportsInv
BY ProgressInit, ProgressStep, ProgressImplies, PTL DEF P!Spec

\* The console client quits only when its job has ended or another Finished
\* was sent since it connected; and when its job has ended and nothing is on
\* its way any more, it has quit or a Finished was lost.
THEOREM ConsoleQuits == P!Spec => []ConsoleQuitsInTime
BY ProgressInit, ProgressStep, ProgressImplies, PTL DEF P!Spec

(***************************************************************************)
(* The catalogue. Induction is over a set of numbers: that of the lengths  *)
(* for which the claim holds is all of Nat.                                *)
(***************************************************************************)

\* A set of numbers that is not empty has a least one.
LEMMA Least ==
  ASSUME NEW N \in SUBSET Nat, N # {}
  PROVE  \E m \in N : \A k \in N : m <= k
<1>1. PICK m \in N : \A k \in N : <<k, m>> \notin OpToRel(<, Nat)
  BY WFMin, NatLessThanWellFounded
<1>2. ASSUME NEW k \in N PROVE m <= k
  <2>1. ~(k < m)
    BY <1>1 DEF OpToRel
  <2>2. k \in Nat /\ m \in Nat
    OBVIOUS
  <2>3. QED
    BY <2>1, <2>2
<1>3. QED
  BY <1>2

\* Induction, with a set of numbers for the predicate.
LEMMA SetInduction ==
  ASSUME NEW N, 0 \in N, \A k \in Nat : k \in N => k + 1 \in N
  PROVE  Nat \subseteq N
<1>1. SUFFICES ASSUME Nat \ N # {} PROVE FALSE
  OBVIOUS
<1>2. PICK m \in Nat \ N : \A k \in Nat \ N : m <= k
  BY <1>1, Least
<1>3. m - 1 \in Nat /\ m - 1 \in N
  BY <1>2
<1>4. QED
  BY <1>2, <1>3

\* The largest of a set of indices.
LEMMA Largest ==
  ASSUME NEW n \in Nat, NEW s \in SUBSET (1 .. n), s # {}
  PROVE  \E m \in s : \A k \in s : k <= m
<1> DEFINE N == {n - k : k \in s}
<1>1. N \in SUBSET Nat /\ N # {}
  <2>1. \A k \in s : n - k \in Nat
    OBVIOUS
  <2>2. QED
    BY <2>1
<1>2. PICK m \in N : \A k \in N : m <= k
  BY <1>1, Least
<1>3. PICK k \in s : m = n - k
  BY <1>2
<1>4. ASSUME NEW j \in s PROVE j <= k
  <2>1. n - k <= n - j
    BY <1>2, <1>3
  <2>2. j \in Int /\ k \in Int
    OBVIOUS
  <2>3. QED
    BY <2>1, <2>2
<1>5. QED
  BY <1>4

Top(s) == CHOOSE m \in s : \A k \in s : m >= k

\* The index that a fold takes first.
LEMMA TopIs ==
  ASSUME NEW n \in Nat, NEW s \in SUBSET (1 .. n), s # {}
  PROVE  /\ Top(s) \in s
         /\ \A k \in s : k <= Top(s)
         /\ s \ {Top(s)} \in SUBSET (1 .. n)
<1>1. PICK m \in s : \A k \in s : m >= k
  BY Largest
<1>2. Top(s) \in s /\ \A k \in s : Top(s) >= k
  BY <1>1 DEF Top
<1>3. QED
  BY <1>2

\* A fold over the first n indices has a value, whatever set of them it takes.
Folds(g, n, A, base, step) ==
  /\ g \in [SUBSET (1 .. n) -> A]
  /\ \A s \in SUBSET (1 .. n) :
       g[s] = IF s = {} THEN base ELSE step[Top(s)][g[s \ {Top(s)}]]

\* By induction over the length: the CHOOSE in a fold has something to choose.
LEMMA FoldExists ==
  ASSUME NEW A, NEW n \in Nat, NEW base \in A, NEW step \in [1 .. n -> [A -> A]]
  PROVE  \E g : Folds(g, n, A, base, step)
<1> DEFINE N == {k \in Nat : k <= n => \E g : Folds(g, k, A, base, step)}
<1>1. 0 \in N
  <2> DEFINE g == [s \in SUBSET (1 .. 0) |-> base]
  <2>1. g \in [SUBSET (1 .. 0) -> A] /\ \A s \in SUBSET (1 .. 0) : s = {} /\ g[s] = base
    OBVIOUS
  <2>2. Folds(g, 0, A, base, step)
    BY <2>1 DEF Folds
  <2>3. QED
    BY <2>2
<1>2. ASSUME NEW k \in Nat, k \in N PROVE k + 1 \in N
  <2>1. SUFFICES ASSUME k + 1 <= n PROVE \E h : Folds(h, k + 1, A, base, step)
    OBVIOUS
  <2>2. PICK g : Folds(g, k, A, base, step)
    BY <1>2, <2>1
  <2> DEFINE h == [s \in SUBSET (1 .. k + 1) |->
                     IF k + 1 \in s THEN step[k + 1][g[s \ {k + 1}]] ELSE g[s]]
  <2>3. ASSUME NEW s \in SUBSET (1 .. k + 1), k + 1 \in s
        PROVE  s \ {k + 1} \in SUBSET (1 .. k) /\ g[s \ {k + 1}] \in A /\ h[s \ {k + 1}] = g[s \ {k + 1}]
    <3>1. s \ {k + 1} \in SUBSET (1 .. k) /\ s \ {k + 1} \in SUBSET (1 .. k + 1)
      BY <2>3
    <3>2. g[s \ {k + 1}] \in A
      BY <3>1, <2>2 DEF Folds
    <3>3. QED
      BY <3>1, <3>2
  <2>4. ASSUME NEW s \in SUBSET (1 .. k + 1), k + 1 \notin s
        PROVE  s \in SUBSET (1 .. k) /\ g[s] \in A /\ h[s] = g[s]
    <3>1. s \in SUBSET (1 .. k)
      BY <2>4
    <3>2. QED
      BY <3>1, <2>2, <2>4 DEF Folds
  <2>5. ASSUME NEW s \in SUBSET (1 .. k + 1)
        PROVE  h[s] \in A /\ h[s] = IF s = {} THEN base ELSE step[Top(s)][h[s \ {Top(s)}]]
    <3>1. CASE k + 1 \in s
      <4>1. Top(s) \in s /\ Top(s) >= k + 1
        BY <3>1, TopIs
      <4>2. Top(s) = k + 1
        <5>1. Top(s) \in 1 .. k + 1
          BY <4>1
        <5>2. QED
          BY <4>1, <5>1
      <4>3. h[s] = step[k + 1][g[s \ {k + 1}]]
        BY <3>1
      <4>4. h[s] \in A
        <5>1. k + 1 \in 1 .. n
          BY <2>1
        <5>2. step[k + 1] \in [A -> A] /\ g[s \ {k + 1}] \in A
          BY <2>3, <3>1, <5>1
        <5>3. QED
          BY <4>3, <5>2
      <4>5. QED
        BY <2>3, <3>1, <4>2, <4>3, <4>4
    <3>2. CASE k + 1 \notin s
      <4>1. s \in SUBSET (1 .. k) /\ g[s] \in A /\ h[s] = g[s]
        BY <2>4, <3>2
      <4>2. g[s] = IF s = {} THEN base ELSE step[Top(s)][g[s \ {Top(s)}]]
        BY <2>2, <4>1 DEF Folds
      <4>3. k + 1 \notin s \ {Top(s)} /\ s \ {Top(s)} \in SUBSET (1 .. k + 1)
        BY <3>2
      <4>4. h[s \ {Top(s)}] = g[s \ {Top(s)}]
        BY <2>4, <4>3
      <4>5. QED
        BY <4>1, <4>2, <4>4
    <3>3. QED
      BY <3>1, <3>2
  <2>6. h \in [SUBSET (1 .. k + 1) -> A]
    BY <2>5
  <2>7. Folds(h, k + 1, A, base, step)
    BY <2>5, <2>6 DEF Folds
  <2>8. QED
    BY <2>7
<1>3. Nat \subseteq N
  <2> HIDE DEF N
  <2> QED BY <1>1, <1>2, SetInduction
<1>4. QED
  BY <1>3

Runs(r, n, A, base, step) ==
  /\ r \in [0 .. n -> A]
  /\ r[0] = base
  /\ \A k \in 1 .. n : r[k] = step[k][r[k - 1]]

FollowsSteps(g, n, A, base, step) ==
  /\ g[{}] = base
  /\ \A s \in SUBSET (1 .. n) :
       s # {} /\ g[s \ {Top(s)}] \in A => g[s] = step[Top(s)][g[s \ {Top(s)}]]

\* A fold over 1 .. n passes through n + 1 values, each got from the one before.
LEMMA RunOfFold ==
  ASSUME NEW A, NEW n \in Nat, NEW base \in A, NEW step \in [1 .. n -> [A -> A]],
         NEW g, FollowsSteps(g, n, A, base, step)
  PROVE  Runs([k \in 0 .. n |-> g[1 .. k]], n, A, base, step)
<1>1. 1 .. 0 = {}
  OBVIOUS
<1>2. ASSUME NEW k \in 1 .. n
      PROVE  /\ 1 .. k \in SUBSET (1 .. n) /\ 1 .. k # {}
             /\ Top(1 .. k) = k /\ (1 .. k) \ {k} = 1 .. k - 1
  <2>1. 1 .. k \in SUBSET (1 .. n) /\ 1 .. k # {} /\ k \in 1 .. k
    <3>1. \A i \in 1 .. k : i \in 1 .. n
      OBVIOUS
    <3>2. k \in 1 .. k
      OBVIOUS
    <3>3. QED
      BY <3>1, <3>2
  <2>2. Top(1 .. k) \in 1 .. k /\ k <= Top(1 .. k)
    BY <2>1, TopIs
  <2>3. Top(1 .. k) = k
    BY <2>2
  <2>4. QED
    BY <2>1, <2>3
<1>3. ASSUME NEW k \in 1 .. n, g[1 .. k - 1] \in A
      PROVE  g[1 .. k] \in A /\ g[1 .. k] = step[k][g[1 .. k - 1]]
  <2>1. g[1 .. k] = step[k][g[1 .. k - 1]]
    BY <1>2, <1>3 DEF FollowsSteps
  <2>2. step[k] \in [A -> A]
    OBVIOUS
  <2>3. QED
    BY <1>3, <2>1, <2>2
<1> DEFINE N == {k \in Nat : k <= n => g[1 .. k] \in A}
<1>4. 0 \in N
  BY <1>1 DEF FollowsSteps
<1>5. ASSUME NEW k \in Nat, k \in N PROVE k + 1 \in N
  <2>1. SUFFICES ASSUME k + 1 <= n PROVE g[1 .. k + 1] \in A
    OBVIOUS
  <2>2. k + 1 \in 1 .. n /\ (k + 1) - 1 = k
    BY <2>1
  <2>3. g[1 .. k] \in A
    BY <1>5, <2>1
  <2>4. QED
    BY <1>3, <2>2, <2>3
<1>6. Nat \subseteq N
  <2> HIDE DEF N
  <2> QED BY <1>4, <1>5, SetInduction
<1>7. \A k \in 0 .. n : g[1 .. k] \in A
  BY <1>6
<1>8. ASSUME NEW k \in 1 .. n
      PROVE  g[1 .. k] = step[k][g[1 .. k - 1]] /\ k - 1 \in 0 .. n /\ k \in 0 .. n
  <2>1. k - 1 \in 0 .. n /\ k \in 0 .. n
    OBVIOUS
  <2>2. QED
    BY <1>3, <1>7, <2>1
<1> DEFINE r == [k \in 0 .. n |-> g[1 .. k]]
<1>9. r \in [0 .. n -> A] /\ r[0] = base
  BY <1>1, <1>7 DEF FollowsSteps
<1>10. ASSUME NEW k \in 1 .. n PROVE r[k] = step[k][r[k - 1]]
  BY <1>8
<1>11. QED
  BY <1>9, <1>10 DEF Runs


\* One sequence after another, a sequence without one element, with one more.
LEMMA Joined ==
  ASSUME NEW S, NEW s \in Seq(S), NEW t \in Seq(S), NEW k, NEW l, Len(s) = k, Len(t) = l
  PROVE  /\ s \o t \in Seq(S) /\ Len(s \o t) = k + l
         /\ \A j \in 1 .. k + l : (s \o t)[j] = IF j <= k THEN s[j] ELSE t[j - k]
BY ConcatProperties

LEMMA RemovedIs ==
  ASSUME NEW S, NEW s \in Seq(S), NEW i \in 1 .. Len(s)
  PROVE  /\ C!RemoveAt(s, i) \in Seq(S) /\ Len(C!RemoveAt(s, i)) = Len(s) - 1
         /\ \A j \in 1 .. Len(s) - 1 : C!RemoveAt(s, i)[j] = IF j < i THEN s[j] ELSE s[j + 1]
<1> DEFINE n == Len(s)
           a == SubSeq(s, 1, i - 1)
           b == SubSeq(s, i + 1, n)
<1>1. n \in Nat /\ i \in Int /\ 1 <= i /\ i <= n /\ i - 1 \in Int /\ i + 1 \in Int
  OBVIOUS
<1>2. \A j \in 1 .. n : s[j] \in S
  OBVIOUS
<1>3. C!RemoveAt(s, i) = a \o b
  BY DEF C!RemoveAt
<1> HIDE DEF n
<1>4. /\ a \in Seq(S) /\ Len(a) = i - 1
      /\ \A j \in 1 .. i - 1 : a[j] = s[j]
  <2>1. \A j \in 1 .. i - 1 : j \in 1 .. n
    BY <1>1
  <2>2. /\ a \in Seq(S) /\ Len(a) = IF 1 <= i - 1 THEN (i - 1) - 1 + 1 ELSE 0
        /\ \A j \in 1 .. (i - 1) - 1 + 1 : a[j] = s[1 + j - 1]
    BY <1>1, <1>2, <2>1, SubSeqProperties
  <2> HIDE DEF a
  <2>3. (i - 1) - 1 + 1 = i - 1 /\ Len(a) = i - 1
    BY <1>1, <2>2
  <2>4. \A j \in 1 .. i - 1 : 1 + j - 1 = j
    BY <1>1
  <2>5. QED
    BY <2>2, <2>3, <2>4
<1>5. /\ b \in Seq(S) /\ Len(b) = n - i
      /\ \A j \in 1 .. n - i : b[j] = s[i + j]
  <2>1. \A j \in i + 1 .. n : j \in 1 .. n
    BY <1>1
  <2>2. /\ b \in Seq(S) /\ Len(b) = IF i + 1 <= n THEN n - (i + 1) + 1 ELSE 0
        /\ \A j \in 1 .. n - (i + 1) + 1 : b[j] = s[(i + 1) + j - 1]
    BY <1>1, <1>2, <2>1, SubSeqProperties
  <2> HIDE DEF b
  <2>3. n - (i + 1) + 1 = n - i /\ Len(b) = n - i
    BY <1>1, <2>2
  <2>4. \A j \in 1 .. n - i : (i + 1) + j - 1 = i + j
    BY <1>1
  <2>5. QED
    BY <2>2, <2>3, <2>4
<1> HIDE DEF a, b
<1>6. /\ a \o b \in Seq(S) /\ Len(a \o b) = (i - 1) + (n - i)
      /\ \A j \in 1 .. (i - 1) + (n - i) : (a \o b)[j] = IF j <= i - 1 THEN a[j] ELSE b[j - (i - 1)]
  BY <1>4, <1>5, Joined
<1>7. (i - 1) + (n - i) = n - 1
  BY <1>1
<1>8. ASSUME NEW j \in 1 .. n - 1 PROVE (a \o b)[j] = IF j < i THEN s[j] ELSE s[j + 1]
  <2>1. CASE j < i
    <3>1. j <= i - 1 /\ j \in 1 .. i - 1
      BY <1>1, <2>1
    <3>2. QED
      BY <1>4, <1>6, <1>7, <2>1, <3>1
  <2>2. CASE ~ (j < i)
    <3>1. ~ (j <= i - 1) /\ j - (i - 1) \in 1 .. n - i /\ i + (j - (i - 1)) = j + 1
      BY <1>1, <2>2
    <3>2. QED
      BY <1>5, <1>6, <1>7, <2>2, <3>1
  <2>3. QED
    BY <2>1, <2>2
<1>9. QED
  BY <1>3, <1>6, <1>7, <1>8 DEF n

LEMMA InsertedIs ==
  ASSUME NEW S, NEW s \in Seq(S), NEW i \in 1 .. Len(s), NEW e \in S
  PROVE  /\ C!InsertAt(s, i, e) \in Seq(S) /\ Len(C!InsertAt(s, i, e)) = Len(s) + 1
         /\ \A j \in 1 .. Len(s) + 1 :
              C!InsertAt(s, i, e)[j] = IF j < i THEN s[j] ELSE IF j = i THEN e ELSE s[j - 1]
<1> DEFINE n == Len(s)
           a == SubSeq(s, 1, i - 1)
           b == SubSeq(s, i, n)
           c == <<e>>
<1>1. n \in Nat /\ i \in Int /\ 1 <= i /\ i <= n /\ i - 1 \in Int
  OBVIOUS
<1>2. \A j \in 1 .. n : s[j] \in S
  OBVIOUS
<1>3. C!InsertAt(s, i, e) = a \o c \o b
  BY DEF C!InsertAt
<1>9. c \in Seq(S) /\ Len(c) = 1 /\ c[1] = e
  OBVIOUS
<1> HIDE DEF n
<1>4. /\ a \in Seq(S) /\ Len(a) = i - 1
      /\ \A j \in 1 .. i - 1 : a[j] = s[j]
  <2>1. \A j \in 1 .. i - 1 : j \in 1 .. n
    BY <1>1
  <2>2. /\ a \in Seq(S) /\ Len(a) = IF 1 <= i - 1 THEN (i - 1) - 1 + 1 ELSE 0
        /\ \A j \in 1 .. (i - 1) - 1 + 1 : a[j] = s[1 + j - 1]
    BY <1>1, <1>2, <2>1, SubSeqProperties
  <2> HIDE DEF a
  <2>3. (i - 1) - 1 + 1 = i - 1 /\ Len(a) = i - 1
    BY <1>1, <2>2
  <2>4. \A j \in 1 .. i - 1 : 1 + j - 1 = j
    BY <1>1
  <2>5. QED
    BY <2>2, <2>3, <2>4
<1>5. /\ b \in Seq(S) /\ Len(b) = n - i + 1
      /\ \A j \in 1 .. n - i + 1 : b[j] = s[i + j - 1]
  <2>1. \A j \in i .. n : j \in 1 .. n
    BY <1>1
  <2>2. /\ b \in Seq(S) /\ Len(b) = IF i <= n THEN n - i + 1 ELSE 0
        /\ \A j \in 1 .. n - i + 1 : b[j] = s[i + j - 1]
    BY <1>1, <1>2, <2>1, SubSeqProperties
  <2> HIDE DEF b
  <2>3. QED
    BY <1>1, <2>2
<1> HIDE DEF a, b, c
<1> DEFINE ac == a \o c
<1>6. /\ ac \in Seq(S) /\ Len(ac) = i
      /\ \A j \in 1 .. i : ac[j] = IF j < i THEN s[j] ELSE e
  <2> DEFINE k == i - 1
             l == 1
  <2>11. Len(a) = k /\ Len(c) = l /\ a \in Seq(S) /\ c \in Seq(S)
    BY <1>4, <1>9
  <2> HIDE DEF k, l
  <2>10. /\ ac \in Seq(S) /\ Len(ac) = k + l
         /\ \A j \in 1 .. k + l : ac[j] = IF j <= k THEN a[j] ELSE c[j - k]
    BY <2>11, Joined
  <2>1. /\ ac \in Seq(S) /\ Len(ac) = (i - 1) + 1
        /\ \A j \in 1 .. (i - 1) + 1 : ac[j] = IF j <= i - 1 THEN a[j] ELSE c[j - (i - 1)]
    BY <2>10 DEF k, l
  <2> HIDE DEF ac
  <2>2. (i - 1) + 1 = i
    BY <1>1
  <2>3. ASSUME NEW j \in 1 .. i PROVE ac[j] = IF j < i THEN s[j] ELSE e
    <3>1. CASE j < i
      <4>1. j <= i - 1 /\ j \in 1 .. i - 1
        BY <1>1, <3>1
      <4>2. QED
        BY <1>4, <2>1, <2>2, <3>1, <4>1
    <3>2. CASE ~ (j < i)
      <4>1. ~ (j <= i - 1) /\ j - (i - 1) = 1
        BY <1>1, <3>2
      <4>2. QED
        BY <1>9, <2>1, <2>2, <3>2, <4>1
    <3>3. QED
      BY <3>1, <3>2
  <2>4. QED
    BY <2>1, <2>2, <2>3
<1> HIDE DEF ac
<1>7. /\ ac \o b \in Seq(S) /\ Len(ac \o b) = i + (n - i + 1)
      /\ \A j \in 1 .. i + (n - i + 1) : (ac \o b)[j] = IF j <= i THEN ac[j] ELSE b[j - i]
  <2> DEFINE l == n - i + 1
  <2>1. Len(b) = l /\ b \in Seq(S) /\ Len(ac) = i /\ ac \in Seq(S)
    BY <1>5, <1>6
  <2> HIDE DEF l
  <2>2. /\ ac \o b \in Seq(S) /\ Len(ac \o b) = i + l
        /\ \A j \in 1 .. i + l : (ac \o b)[j] = IF j <= i THEN ac[j] ELSE b[j - i]
    BY <2>1, Joined
  <2>3. QED
    BY <2>2 DEF l
<1>8. i + (n - i + 1) = n + 1
  BY <1>1
<1>10. ASSUME NEW j \in 1 .. n + 1
       PROVE  (ac \o b)[j] = IF j < i THEN s[j] ELSE IF j = i THEN e ELSE s[j - 1]
  <2>1. CASE j <= i
    <3>1. j \in 1 .. i /\ (~ (j < i) => j = i)
      BY <1>1, <2>1
    <3>2. QED
      BY <1>6, <1>7, <1>8, <2>1, <3>1
  <2>2. CASE ~ (j <= i)
    <3>1. j - i \in 1 .. n - i + 1 /\ i + (j - i) - 1 = j - 1 /\ ~ (j < i) /\ j # i
      BY <1>1, <2>2
    <3>2. QED
      BY <1>5, <1>7, <1>8, <2>2, <3>1
  <2>3. QED
    BY <2>1, <2>2
<1>11. QED
  BY <1>3, <1>7, <1>8, <1>10 DEF n, ac

\* What stands on a list.
Elements(s) == {s[i] : i \in 1 .. Len(s)}

\* The names in order, none twice.
Ascending == {s \in Seq(Packages) : \A i, j \in 1 .. Len(s) : i < j => s[i] < s[j]}

\* A name that is put before the first greater one is in its place.
LEMMA InsertedKeeps ==
  ASSUME NEW s \in Ascending, NEW n \in Packages, n \notin Elements(s)
  PROVE  C!Inserted(s, n) \in Ascending /\ Elements(C!Inserted(s, n)) = Elements(s) \cup {n}
<1> DEFINE m == Len(s)
           greater == {k \in DOMAIN s : s[k] > n}
           at == CHOOSE k \in greater : \A j \in greater : k <= j
           r == C!Inserted(s, n)
<1>1. /\ s \in Seq(Packages) /\ \A i, j \in 1 .. m : i < j => s[i] < s[j]
      /\ Packages \subseteq Nat
  BY CatalogueConstants DEF Ascending, C!ConstantsOK
<1>2. m \in Nat /\ DOMAIN s = 1 .. m /\ n \in Nat
  BY <1>1
<1>3. \A i \in 1 .. m : s[i] \in Packages /\ s[i] \in Nat /\ s[i] # n
  <2>1. \A i \in 1 .. m : s[i] \in Packages
    BY <1>1
  <2>2. \A i \in 1 .. m : s[i] # n
    BY DEF Elements
  <2>3. QED
    BY <1>1, <2>1, <2>2
<1> HIDE DEF m
<1>4. CASE greater = {}
  <2>1. r = Append(s, n)
    BY <1>4 DEF C!Inserted
  <2>2. /\ r \in Seq(Packages) /\ Len(r) = m + 1
        /\ \A i \in 1 .. m : r[i] = s[i]
        /\ r[m + 1] = n
    BY <1>1, <2>1, AppendProperties DEF m
  <2>3. \A i \in 1 .. m : s[i] < n
    <3>1. \A i \in 1 .. m : i \notin greater
      BY <1>4
    <3>2. \A i \in 1 .. m : ~ (s[i] > n)
      BY <1>2, <3>1
    <3>3. QED
      BY <1>2, <1>3, <3>2
  <2> HIDE DEF r
  <2>4. ASSUME NEW i \in 1 .. m + 1, NEW j \in 1 .. m + 1, i < j PROVE r[i] < r[j]
    <3>1. i \in 1 .. m
      BY <1>2, <2>4
    <3>2. CASE j \in 1 .. m
      BY <1>1, <2>2, <2>4, <3>1, <3>2
    <3>3. CASE j = m + 1
      BY <2>2, <2>3, <3>1, <3>3
    <3>4. QED
      BY <1>2, <3>2, <3>3
  <2>5. Elements(r) = Elements(s) \cup {n}
    <3>1. ASSUME NEW i \in 1 .. m + 1 PROVE r[i] \in Elements(s) \cup {n}
      BY <1>2, <2>2 DEF Elements, m
    <3>2. n \in Elements(r)
      <4>1. m + 1 \in 1 .. Len(r)
        BY <1>2, <2>2
      <4>2. QED
        BY <2>2, <4>1 DEF Elements
    <3>3. ASSUME NEW i \in 1 .. m PROVE s[i] \in Elements(r)
      <4>1. i \in 1 .. Len(r)
        BY <1>2, <2>2
      <4>2. QED
        BY <2>2, <4>1 DEF Elements
    <3>4. QED
      BY <2>2, <3>1, <3>2, <3>3 DEF Elements, m
  <2>6. QED
    BY <2>2, <2>4, <2>5 DEF Ascending, r
<1>5. CASE greater # {}
  <2>1. at \in greater /\ \A j \in greater : at <= j
    <3>1. greater \in SUBSET Nat
      BY <1>2
    <3> HIDE DEF greater
    <3>2. \E k \in greater : \A j \in greater : k <= j
      BY <1>5, <3>1, Least
    <3>3. QED
      BY <3>2
  <2>2. at \in 1 .. m /\ s[at] > n
    BY <1>2, <2>1
  <2>3. r = C!InsertAt(s, at, n)
    BY <1>5 DEF C!Inserted
  <2>4. ASSUME NEW j \in 1 .. m, j < at PROVE s[j] < n
    <3>1. j \notin greater
      <4>1. at \in Int /\ j \in Int
        BY <2>2
      <4>2. ~ (at <= j)
        BY <2>4, <4>1
      <4> HIDE DEF at, greater
      <4>3. QED
        BY <2>1, <4>2
    <3>2. ~ (s[j] > n)
      BY <1>2, <3>1
    <3>3. QED
      BY <1>2, <1>3, <3>2
  <2> HIDE DEF at, greater
  <2>5. ASSUME NEW j \in 1 .. m, at <= j PROVE n < s[j]
    <3>1. at = j \/ at < j
      BY <2>2, <2>5
    <3>2. s[at] = s[j] \/ s[at] < s[j]
      BY <1>1, <2>2, <3>1
    <3>3. QED
      BY <1>2, <1>3, <2>2, <3>2
  <2>6. /\ r \in Seq(Packages) /\ Len(r) = m + 1
        /\ \A j \in 1 .. m + 1 : r[j] = IF j < at THEN s[j] ELSE IF j = at THEN n ELSE s[j - 1]
    BY <1>1, <2>2, <2>3, InsertedIs DEF m
  <2> HIDE DEF r
  <2>7. ASSUME NEW i \in 1 .. m + 1, NEW j \in 1 .. m + 1, i < j PROVE r[i] < r[j]
    <3>1. CASE j < at
      <4>1. i < at /\ i \in 1 .. m /\ j \in 1 .. m
        BY <1>2, <2>2, <2>7, <3>1
      <4>2. QED
        BY <1>1, <2>6, <2>7, <3>1, <4>1
    <3>2. CASE j = at
      <4>1. i < at /\ i \in 1 .. m
        BY <1>2, <2>2, <2>7, <3>2
      <4>2. r[i] = s[i] /\ r[j] = n
        BY <2>2, <2>6, <3>2, <4>1
      <4>3. QED
        BY <2>4, <4>1, <4>2
    <3>3. CASE j > at
      <4>1. r[j] = s[j - 1] /\ j - 1 \in 1 .. m /\ at <= j - 1
        BY <1>2, <2>2, <2>6, <3>3
      <4>2. CASE i < at
        <5>1. i \in 1 .. m /\ r[i] = s[i]
          BY <1>2, <2>2, <2>6, <4>2
        <5>2. s[i] < n /\ n < s[j - 1]
          BY <2>4, <2>5, <4>1, <4>2, <5>1
        <5>3. s[i] < s[j - 1]
          BY <1>2, <1>3, <4>1, <5>1, <5>2
        <5>4. QED
          BY <4>1, <5>1, <5>3
      <4>3. CASE i = at
        <5>1. r[i] = n
          BY <2>2, <2>6, <4>3
        <5>2. QED
          BY <2>5, <4>1, <5>1
      <4>4. CASE i > at
        <5>1. r[i] = s[i - 1] /\ i - 1 \in 1 .. m /\ i - 1 < j - 1
          BY <1>2, <2>2, <2>6, <2>7, <4>4
        <5>2. QED
          BY <1>1, <4>1, <5>1
      <4>5. QED
        BY <2>2, <4>2, <4>3, <4>4
    <3>4. QED
      BY <2>2, <3>1, <3>2, <3>3
  <2>8. Elements(r) = Elements(s) \cup {n}
    <3>1. ASSUME NEW j \in 1 .. m + 1 PROVE r[j] \in Elements(s) \cup {n}
      <4>1. CASE j < at
        <5>1. j \in 1 .. m /\ r[j] = s[j]
          BY <1>2, <2>2, <2>6, <4>1
        <5>2. QED
          BY <5>1 DEF Elements, m
      <4>2. CASE j = at
        BY <2>2, <2>6, <4>2
      <4>3. CASE j > at
        <5>1. j - 1 \in 1 .. m /\ r[j] = s[j - 1]
          BY <1>2, <2>2, <2>6, <4>3
        <5>2. QED
          BY <5>1 DEF Elements, m
      <4>4. QED
        BY <2>2, <4>1, <4>2, <4>3
    <3>2. n \in Elements(r)
      <4>1. at \in 1 .. Len(r) /\ r[at] = n
        BY <1>2, <2>2, <2>6
      <4>2. QED
        BY <4>1 DEF Elements
    <3>3. ASSUME NEW j \in 1 .. m PROVE s[j] \in Elements(r)
      <4>1. CASE j < at
        <5>1. j \in 1 .. Len(r) /\ r[j] = s[j]
          BY <1>2, <2>6, <4>1
        <5>2. QED
          BY <5>1 DEF Elements
      <4>2. CASE ~ (j < at)
        <5>1. j + 1 \in 1 .. Len(r) /\ j + 1 \in 1 .. m + 1 /\ ~ (j + 1 < at) /\ j + 1 # at /\ (j + 1) - 1 = j
          BY <1>2, <2>2, <2>6, <4>2
        <5>2. r[j + 1] = s[j]
          BY <2>6, <5>1
        <5>3. QED
          BY <5>1, <5>2 DEF Elements
      <4>3. QED
        BY <4>1, <4>2
    <3>4. QED
      BY <2>6, <3>1, <3>2, <3>3 DEF Elements, m
  <2>9. QED
    BY <2>6, <2>7, <2>8 DEF Ascending, r
<1>6. QED
  BY <1>4, <1>5

\* One name of an answer more.
Put(list, n) == IF n \notin known \/ C!Contains(list, n) THEN list ELSE C!Inserted(list, n)

\* A name of the answer is put once, if it is known.
LEMMA PutKeeps ==
  ASSUME NEW s \in Ascending, NEW n \in Packages
  PROVE  Put(s, n) \in Ascending /\ Elements(Put(s, n)) = Elements(s) \cup ({n} \cap known)
<1>1. C!Contains(s, n) <=> n \in Elements(s)
  BY DEF C!Contains, Elements
<1>2. CASE n \notin known \/ C!Contains(s, n)
  BY <1>1, <1>2 DEF Put
<1>3. CASE n \in known /\ ~ C!Contains(s, n)
  BY <1>1, <1>3, InsertedKeeps DEF Put
<1>4. QED
  BY <1>2, <1>3

\* A search takes the names of its answer one after the other.
LEMMA SearchRun ==
  ASSUME NEW reply \in Seq(Packages)
  PROVE  LET m == Len(reply)
             step == [k \in 1 .. m |-> [a \in Ascending |-> Put(a, reply[k])]]
         IN  /\ m \in Nat /\ <<>> \in Ascending /\ step \in [1 .. m -> [Ascending -> Ascending]]
             /\ \E r : Runs(r, m, Ascending, <<>>, step) /\ C!search(reply) = r[m]
<1> DEFINE m == Len(reply)
           A == Ascending
           base == <<>>
           step == [k \in 1 .. m |-> [a \in A |-> Put(a, reply[k])]]
           IsFold(g) == g = [t \in SUBSET (DOMAIN reply) |->
                          IF t = {} THEN base ELSE Put(g[t \ {Top(t)}], reply[Top(t)])]
<1>1. /\ m \in Nat /\ DOMAIN reply = 1 .. m
      /\ \A k \in 1 .. m : reply[k] \in Packages
  OBVIOUS
<1>2. base \in A
  <2>1. <<>> \in Seq(Packages) /\ Len(<<>>) = 0
    OBVIOUS
  <2>2. QED
    BY <2>1 DEF Ascending
<1>3. step \in [1 .. m -> [A -> A]]
  <2>1. \A k \in 1 .. m : \A a \in A : Put(a, reply[k]) \in A
    BY <1>1, PutKeeps
  <2>2. QED
    BY <2>1
<1>4. \A k \in 1 .. m : \A a \in A : step[k][a] = Put(a, reply[k])
  OBVIOUS
<1> HIDE DEF m, A, base, step
<1>5. \E g : IsFold(g)
  <2>1. PICK g : Folds(g, m, A, base, step)
    BY <1>1, <1>2, <1>3, FoldExists
  <2>2. ASSUME NEW t \in SUBSET (1 .. m)
        PROVE  g[t] = IF t = {} THEN base ELSE Put(g[t \ {Top(t)}], reply[Top(t)])
    <3>1. CASE t = {}
      BY <2>1, <3>1 DEF Folds
    <3>2. CASE t # {}
      <4>1. Top(t) \in 1 .. m /\ t \ {Top(t)} \in SUBSET (1 .. m)
        BY <1>1, <3>2, TopIs
      <4>2. g[t] = step[Top(t)][g[t \ {Top(t)}]] /\ g[t \ {Top(t)}] \in A
        BY <2>1, <3>2, <4>1 DEF Folds
      <4>3. QED
        BY <1>4, <3>2, <4>1, <4>2
    <3>3. QED
      BY <3>1, <3>2
  <2>3. g = [t \in SUBSET (1 .. m) |-> g[t]]
    BY <2>1 DEF Folds
  <2>4. IsFold(g)
    BY <1>1, <2>2, <2>3
  <2>5. QED
    BY <2>4
<1> DEFINE it == CHOOSE g : IsFold(g)
<1>6. IsFold(it)
  <2> HIDE DEF IsFold
  <2> QED BY <1>5
<1>7. C!search(reply) = it[1 .. m]
  <2>1. \A t : C!Max(t) = Top(t)
    BY DEF C!Max, Top
  <2>2. C!search(reply) = it[DOMAIN reply]
    BY <2>1 DEF C!search, C!FoldLeft, C!MapThenFoldSet, Put, base
  <2>3. QED
    BY <1>1, <2>2
<1>8. FollowsSteps(it, m, A, base, step)
  <2> HIDE DEF it
  <2>1. ASSUME NEW t \in SUBSET (1 .. m)
        PROVE  it[t] = IF t = {} THEN base ELSE Put(it[t \ {Top(t)}], reply[Top(t)])
    BY <1>1, <1>6
  <2>2. it[{}] = base
    BY <2>1
  <2>3. ASSUME NEW t \in SUBSET (1 .. m), t # {}, it[t \ {Top(t)}] \in A
        PROVE  it[t] = step[Top(t)][it[t \ {Top(t)}]]
    <3>1. Top(t) \in 1 .. m
      BY <1>1, <2>3, TopIs
    <3>2. QED
      BY <1>4, <2>1, <2>3, <3>1
  <2>4. QED
    BY <2>2, <2>3 DEF FollowsSteps
<1> DEFINE r == [k \in 0 .. m |-> it[1 .. k]]
<1>9. Runs(r, m, A, base, step)
  <2> HIDE DEF it
  <2> QED BY <1>1, <1>2, <1>3, <1>8, RunOfFold
<1>10. r[m] = it[1 .. m]
  <2> HIDE DEF it
  <2>1. m \in 0 .. m
    BY <1>1
  <2>2. QED
    BY <2>1
<1> HIDE DEF r, it
<1>11. QED
  BY <1>1, <1>2, <1>3, <1>7, <1>9, <1>10 DEF m, A, base, step

\* A search finds what is known of its answer, in order.
LEMMA SearchIs ==
  ASSUME NEW reply \in Seq(Packages)
  PROVE  C!search(reply) \in Ascending /\ Elements(C!search(reply)) = Elements(reply) \cap known
<1> DEFINE m == Len(reply)
           step == [k \in 1 .. m |-> [a \in Ascending |-> Put(a, reply[k])]]
           Upto(k) == {reply[i] : i \in 1 .. k} \cap known
<1>1. m \in Nat /\ <<>> \in Ascending /\ step \in [1 .. m -> [Ascending -> Ascending]]
  BY SearchRun
<1>2. PICK r : Runs(r, m, Ascending, <<>>, step) /\ C!search(reply) = r[m]
  BY SearchRun
<1>3. \A k \in 1 .. m : reply[k] \in Packages
  OBVIOUS
<1>4. \A k \in 1 .. m : \A a \in Ascending : step[k][a] = Put(a, reply[k])
  OBVIOUS
<1> HIDE DEF m, step
<1>5. /\ \A k \in 0 .. m : r[k] \in Ascending
      /\ r[0] = <<>> /\ \A k \in 1 .. m : r[k] = step[k][r[k - 1]]
  BY <1>2 DEF Runs
<1> DEFINE N == {k \in Nat : k <= m => Elements(r[k]) = Upto(k)}
<1>6. 0 \in N
  BY <1>5 DEF Elements
<1>7. ASSUME NEW k \in Nat, k \in N PROVE k + 1 \in N
  <2>1. SUFFICES ASSUME k + 1 <= m PROVE Elements(r[k + 1]) = Upto(k + 1)
    OBVIOUS
  <2>2. k + 1 \in 1 .. m /\ k \in 0 .. m /\ (k + 1) - 1 = k /\ k <= m
    BY <1>1, <2>1
  <2>3. Elements(r[k]) = Upto(k) /\ r[k] \in Ascending
    BY <1>5, <1>7, <2>2
  <2>4. r[k + 1] = Put(r[k], reply[k + 1])
    BY <1>4, <1>5, <2>2
  <2>5. Elements(r[k + 1]) = Elements(r[k]) \cup ({reply[k + 1]} \cap known)
    BY <1>3, <2>2, <2>3, <2>4, PutKeeps
  <2>6. {reply[i] : i \in 1 .. k + 1} = {reply[i] : i \in 1 .. k} \cup {reply[k + 1]}
    <3>1. 1 .. k + 1 = (1 .. k) \cup {k + 1}
      OBVIOUS
    <3>2. QED
      BY <3>1
  <2>7. QED
    BY <2>3, <2>5, <2>6
<1>8. Nat \subseteq N
  <2> HIDE DEF N
  <2> QED BY <1>6, <1>7, SetInduction
<1>9. Elements(r[m]) = Upto(m) /\ r[m] \in Ascending
  <2>1. m \in N /\ m <= m /\ m \in 0 .. m
    <3> HIDE DEF N
    <3> QED BY <1>1, <1>8
  <2>2. QED
    BY <1>5, <2>1
<1>10. QED
  BY <1>2, <1>9 DEF Elements, m

(***************************************************************************)
(* The invariant. A package of a category is pending (Pending) while that  *)
(* category's list is asked for, the package itself is, or a handler waits *)
(* with it; what is not pending has been handled, and is on the list if    *)
(* the daemon has it (Delivered). An entry has its right category unless   *)
(* its name is pending under it (RightCategory): it will then be listed    *)
(* anew. And while all categories have come before the first package is    *)
(* handled, the two counters differ by the number of the pending           *)
(* (Counted).                                                              *)
(***************************************************************************)

Cats == C!Range(Categories)

\* What is asked for: the categories, their packages, each package.
Requests ==
  {C!Category} \cup {C!ListOf(c) : c \in Cats}
    \cup {r \in [kind : {"package"}, category : Cats, at : Nat] : r.at \in DOMAIN PackagesOf[r.category]}

Waiting == {r \in asked : r.kind = "package"}

\* The types of the variables.
CatTypes ==
  /\ asked \subseteq Requests /\ IsFiniteSet(Waiting)
  /\ known \in {{}, Known}
  /\ catPkgList \in [Cats -> Seq(Packages)]
  /\ g_qjadePkgList \in Seq(C!Entries)
  /\ stack \in Seq(Packages)
  /\ g_cate_number \in Nat /\ g_cate_act_number \in Nat /\ failed \in Nat
  /\ handled \in BOOLEAN /\ mixed \in BOOLEAN
  /\ searched \in Seq(Packages)

\* Nothing is there before the categories are, nor is anything handled.
Opening ==
  /\ \/ g_categoryList = Categories /\ C!Category \notin asked
     \/ asked \subseteq {C!Category} /\ stack = <<>> /\ ~handled
  /\ ~handled => g_qjadePkgList = <<>> /\ g_cate_act_number = 0 /\ m_dataList = <<>>

\* A category's packages are asked for when its list has come.
Coming ==
  /\ \A c \in Cats : catPkgList[c] \in {<<>>, PackagesOf[c]}
  /\ \A r \in Waiting : C!ListOf(r.category) \notin asked /\ catPkgList[r.category] = PackagesOf[r.category]
  /\ failed = 0 /\ C!Category \notin asked =>
       \A c \in Cats : C!ListOf(c) \in asked \/ catPkgList[c] = PackagesOf[c]

FromServer ==
  /\ C!Names(g_qjadePkgList) \subseteq known \cap C!Announced
  /\ \A i \in 1 .. Len(stack) : stack[i] \in C!Announced

\* The package n of category c is still to be handled.
Pending(n, c) ==
  \/ C!ListOf(c) \in asked
  \/ \E r \in Waiting : r.category = c /\ C!NameOf(r) = n
  \/ \E i \in 1 .. Len(stack) : stack[i] = n

Delivered ==
  failed = 0 /\ C!Category \notin asked =>
    \A c \in Cats : \A n \in C!Range(PackagesOf[c]) :
      Pending(n, c) \/ (handled /\ (late \/ n \notin Known \/ n \in C!Names(g_qjadePkgList)))

\* Categories[k] is the first whose list has the title of n.
First(n, k) ==
  /\ n \in TitleIsName \cap C!Range(PackagesOf[Categories[k]])
  /\ \A j \in 1 .. k - 1 : n \notin C!Range(PackagesOf[Categories[j]])

RightCategory ==
  failed = 0 =>
    \A i \in DOMAIN g_qjadePkgList, k \in DOMAIN Categories :
      First(g_qjadePkgList[i].name, k) =>
        g_qjadePkgList[i].category = Categories[k] \/ Pending(g_qjadePkgList[i].name, Categories[k])

\* The numbers of a list of which the daemon has everything.
Numbers(list) ==
  [all |-> Cardinality(DOMAIN list),
   of  |-> [c \in Cats |-> Cardinality({i \in DOMAIN list : list[i].category = c})],
   my  |-> Cardinality(C!Names(list) \cap Dated)]

\* The counters differ by what is still to be handled.
Counted ==
  failed = 0 /\ ~mixed /\ C!Category \notin asked /\ (handled => \A c \in Cats : C!ListOf(c) \notin asked) =>
    IF handled /\ Waiting = {} /\ stack = <<>>
      THEN m_dataList = <<Numbers(g_qjadePkgList)>>
      ELSE /\ m_dataList = <<>>
           /\ g_cate_number = Cardinality(Waiting) + Len(stack) + g_cate_act_number

\* The inductive invariant of the catalogue.
CatIInv ==
  /\ CatTypes /\ Opening /\ Coming /\ FromServer /\ Delivered /\ RightCategory /\ Counted
  /\ C!ListedOnce /\ C!SearchIsSorted

\* Catalogue's FiniteSets is everybody's.
LEMMA CatalogueCardinality == \A S : C!Cardinality(S) = Cardinality(S)
BY DEF C!Cardinality, Cardinality

\* The constants, in the words of the proofs.
LEMMA CategoriesAre ==
  /\ Categories \in Seq(Cats) /\ DOMAIN Categories = 1 .. Len(Categories) /\ Len(Categories) \in Nat
  /\ \A i \in DOMAIN Categories : Categories[i] \in Cats
  /\ \A c \in Cats : \E i \in DOMAIN Categories : Categories[i] = c
  /\ \A c \in Cats : PackagesOf[c] \in Seq(Packages)
  /\ \A c \in Cats : \A n : n \in C!Range(PackagesOf[c]) <=> \E i \in 1 .. Len(PackagesOf[c]) : PackagesOf[c][i] = n
  /\ Packages \subseteq Nat /\ Known \subseteq Packages
<1>1. /\ Categories \in Seq(Cats) /\ PackagesOf \in [Cats -> Seq(Packages)]
      /\ Packages \subseteq Nat /\ Known \subseteq Packages
  BY CatalogueConstants DEF C!ConstantsOK, Cats
<1>2. DOMAIN Categories = 1 .. Len(Categories) /\ Len(Categories) \in Nat
  BY <1>1
<1>3. Cats = {Categories[i] : i \in DOMAIN Categories}
  BY DEF Cats, C!Range
<1>4. \A c \in Cats : PackagesOf[c] \in Seq(Packages)
  BY <1>1
<1>5. ASSUME NEW c \in Cats, NEW n
      PROVE  n \in C!Range(PackagesOf[c]) <=> \E i \in 1 .. Len(PackagesOf[c]) : PackagesOf[c][i] = n
  <2>1. DOMAIN PackagesOf[c] = 1 .. Len(PackagesOf[c])
    BY <1>4
  <2>2. QED
    BY <2>1 DEF C!Range
<1>6. QED
  BY <1>1, <1>2, <1>3, <1>4, <1>5

\* CategoryOf finds the first category that has the title, once its list has come.
LEMMA CategoryIs ==
  ASSUME NEW n, g_categoryList = Categories, catPkgList \in [Cats -> Seq(Packages)],
         \A c \in Cats : catPkgList[c] \in {<<>>, PackagesOf[c]}
  PROVE  /\ C!CategoryOf(n) \in Cats \cup {NoCategory}
         /\ \A k \in DOMAIN Categories :
              First(n, k) /\ catPkgList[Categories[k]] = PackagesOf[Categories[k]] =>
                C!CategoryOf(n) = Categories[k]
<1> DEFINE holds == {i \in DOMAIN Categories : n \in TitleIsName /\ C!Contains(catPkgList[Categories[i]], n)}
           least == CHOOSE i \in holds : \A j \in holds : i <= j
<1>1. C!CategoryOf(n) = IF holds = {} THEN NoCategory ELSE Categories[least]
  BY DEF C!CategoryOf
<1>2. holds \in SUBSET Nat /\ \A i \in holds : i \in DOMAIN Categories
  BY CategoriesAre
<1>3. holds # {} => least \in holds /\ \A j \in holds : least <= j
  <2> HIDE DEF holds
  <2>1. holds # {} => \E i \in holds : \A j \in holds : i <= j
    BY <1>2, Least
  <2>2. QED
    BY <2>1
<1>4. \A i : i \in holds <=>
        i \in DOMAIN Categories /\ n \in TitleIsName /\ C!Contains(catPkgList[Categories[i]], n)
  OBVIOUS
<1> HIDE DEF holds, least
<1>5. C!CategoryOf(n) \in Cats \cup {NoCategory}
  <2>1. CASE holds = {}
    BY <1>1, <2>1
  <2>2. CASE holds # {}
    <3>1. least \in DOMAIN Categories
      BY <1>2, <1>3, <2>2
    <3>2. Categories[least] \in Cats
      BY <3>1, CategoriesAre
    <3>3. QED
      BY <1>1, <2>2, <3>2
  <2>3. QED
    BY <2>1, <2>2
<1>6. ASSUME NEW k \in DOMAIN Categories, First(n, k), catPkgList[Categories[k]] = PackagesOf[Categories[k]]
      PROVE  C!CategoryOf(n) = Categories[k]
  <2>1. k \in holds
    <3>1. n \in TitleIsName /\ n \in C!Range(PackagesOf[Categories[k]]) /\ Categories[k] \in Cats
      BY <1>6, CategoriesAre DEF First
    <3>2. \E i \in 1 .. Len(PackagesOf[Categories[k]]) : PackagesOf[Categories[k]][i] = n
      BY <3>1, CategoriesAre
    <3>3. C!Contains(catPkgList[Categories[k]], n)
      BY <1>6, <3>2 DEF C!Contains
    <3>4. QED
      BY <1>4, <3>1, <3>3
  <2>2. ASSUME NEW j \in holds, j < k PROVE FALSE
    <3>1. j \in DOMAIN Categories /\ C!Contains(catPkgList[Categories[j]], n) /\ Categories[j] \in Cats
      BY <1>2, <1>4, CategoriesAre
    <3>2. j \in 1 .. k - 1
      <4>1. j \in 1 .. Len(Categories) /\ k \in 1 .. Len(Categories)
        BY <3>1, CategoriesAre
      <4>2. QED
        BY <2>2, <4>1, CategoriesAre
    <3>3. n \notin C!Range(PackagesOf[Categories[j]])
      BY <1>6, <3>2 DEF First
    <3>4. \E i \in 1 .. Len(catPkgList[Categories[j]]) : catPkgList[Categories[j]][i] = n
      BY <3>1 DEF C!Contains
    <3>5. catPkgList[Categories[j]] # <<>>
      BY <3>4
    <3>6. catPkgList[Categories[j]] = PackagesOf[Categories[j]]
      BY <3>1, <3>5
    <3>7. QED
      BY <3>1, <3>3, <3>4, <3>6, CategoriesAre
  <2>3. least = k
    <3>1. least \in holds /\ least <= k /\ least \in Nat /\ k \in Nat
      BY <1>2, <1>3, <2>1
    <3>2. ~ (least < k)
      BY <2>2, <3>1
    <3>3. QED
      BY <3>1, <3>2
  <2>4. QED
    BY <1>1, <2>1, <2>3
<1>7. QED
  BY <1>5, <1>6

\* An entry is put in the place of the one that has its name.
LEMMA ListedIs ==
  ASSUME NEW n \in Packages, g_qjadePkgList \in Seq(C!Entries), C!ListedOnce,
         C!CategoryOf(n) \in Cats \cup {NoCategory}
  PROVE  LET new == C!Listed(n)
         IN  /\ new \in Seq(C!Entries)
             /\ \A i, j \in DOMAIN new : new[i].name = new[j].name => i = j
             /\ C!Names(new) = C!Names(g_qjadePkgList) \cup {n}
             /\ \A i \in DOMAIN new :
                  \/ new[i].name = n /\ new[i].category = C!CategoryOf(n)
                  \/ new[i].name # n /\ \E j \in DOMAIN g_qjadePkgList : new[i] = g_qjadePkgList[j]
<1> DEFINE list == g_qjadePkgList
           m == Len(list)
           E == C!Entries
           same == {i \in DOMAIN list : list[i].name = n}
           at == CHOOSE i \in same : \A j \in same : i <= j
           others == IF same = {} THEN list ELSE C!RemoveAt(list, at)
           row == [name |-> n, category |-> C!CategoryOf(n)]
           new == Append(others, row)
<1>1. C!Listed(n) = new
  BY DEF C!Listed
<1>2. row \in E /\ row.name = n /\ row.category = C!CategoryOf(n)
  BY DEF C!Entries, Cats
<1> HIDE DEF E
<1>3. /\ list \in Seq(E) /\ m \in Nat /\ DOMAIN list = 1 .. m
      /\ \A i, j \in 1 .. m : list[i].name = list[j].name => i = j
  BY DEF C!ListedOnce, E
<1> HIDE DEF row, m, list
<1>4. /\ others \in Seq(E)
      /\ \A i \in 1 .. Len(others) : \E j \in 1 .. m : others[i] = list[j]
      /\ \A i, j \in 1 .. Len(others) : others[i].name = others[j].name => i = j
      /\ \A i \in 1 .. Len(others) : others[i].name # n
      /\ \A j \in 1 .. m : list[j].name # n => \E i \in 1 .. Len(others) : others[i] = list[j]
  <2>1. CASE same = {}
    <3>1. others = list /\ Len(others) = m /\ \A i \in 1 .. m : list[i].name # n
      BY <1>3, <2>1 DEF m
    <3> HIDE DEF others
    <3>2. QED
      BY <1>3, <3>1
  <2>2. CASE same # {}
    <3>1. at \in same
      <4>1. same \in SUBSET Nat
        BY <1>3
      <4> HIDE DEF same
      <4>2. \E i \in same : \A j \in same : i <= j
        BY <2>2, <4>1, Least
      <4>3. QED
        BY <4>2
    <3>2. at \in 1 .. m /\ list[at].name = n
      BY <1>3, <3>1
    <3>3. others = C!RemoveAt(list, at)
      <4> HIDE DEF same, at
      <4> QED BY <2>2
    <3> HIDE DEF at, same, others
    <3>4. /\ others \in Seq(E) /\ Len(others) = m - 1
          /\ \A j \in 1 .. m - 1 : others[j] = IF j < at THEN list[j] ELSE list[j + 1]
      <4>1. list \in Seq(E) /\ at \in 1 .. Len(list)
        BY <1>3, <3>2 DEF m
      <4>2. /\ C!RemoveAt(list, at) \in Seq(E) /\ Len(C!RemoveAt(list, at)) = Len(list) - 1
            /\ \A j \in 1 .. Len(list) - 1 :
                 C!RemoveAt(list, at)[j] = IF j < at THEN list[j] ELSE list[j + 1]
        BY <4>1, RemovedIs
      <4>3. QED
        BY <3>3, <4>2 DEF m
    <3> DEFINE from(i) == IF i < at THEN i ELSE i + 1
    <3>5. \A i \in 1 .. m - 1 : from(i) \in 1 .. m /\ others[i] = list[from(i)] /\ from(i) # at
      <4>1. ASSUME NEW i \in 1 .. m - 1
            PROVE  from(i) \in 1 .. m /\ others[i] = list[from(i)] /\ from(i) # at
        <5>1. CASE i < at
          BY <1>3, <3>2, <3>4, <5>1
        <5>2. CASE ~ (i < at)
          BY <1>3, <3>2, <3>4, <5>2
        <5>3. QED
          BY <5>1, <5>2
      <4>2. QED
        BY <4>1
    <3>6. \A i, j \in 1 .. m - 1 : from(i) = from(j) => i = j
      BY <1>3, <3>2
    <3>7. \A j \in 1 .. m : j # at => \E i \in 1 .. m - 1 : from(i) = j
      <4>1. ASSUME NEW j \in 1 .. m, j # at PROVE \E i \in 1 .. m - 1 : from(i) = j
        <5>1. CASE j < at
          <6>1. j \in 1 .. m - 1 /\ from(j) = j
            BY <1>3, <3>2, <5>1
          <6>2. QED
            BY <6>1
        <5>2. CASE j > at
          <6>1. j - 1 \in 1 .. m - 1 /\ from(j - 1) = j
            BY <1>3, <3>2, <5>2
          <6>2. QED
            BY <6>1
        <5>3. QED
          BY <3>2, <4>1, <5>1, <5>2
      <4>2. QED
        BY <4>1
    <3> HIDE DEF from
    <3>8. \A i \in 1 .. m - 1 : others[i].name # n
      BY <1>3, <3>2, <3>5
    <3>9. \A i, j \in 1 .. m - 1 : others[i].name = others[j].name => i = j
      BY <1>3, <3>5, <3>6
    <3>10. \A j \in 1 .. m : list[j].name # n => \E i \in 1 .. m - 1 : others[i] = list[j]
      <4>1. ASSUME NEW j \in 1 .. m, list[j].name # n PROVE \E i \in 1 .. m - 1 : others[i] = list[j]
        <5>1. PICK i \in 1 .. m - 1 : from(i) = j
          BY <3>2, <3>7, <4>1
        <5>2. QED
          BY <3>5, <5>1
      <4>2. QED
        BY <4>1
    <3>11. QED
      BY <3>4, <3>5, <3>8, <3>9, <3>10
  <2>3. QED
    BY <2>1, <2>2
<1> HIDE DEF others, same, at
<1> DEFINE l == Len(others)
<1>5. /\ new \in Seq(E) /\ Len(new) = l + 1 /\ l \in Nat
      /\ \A i \in 1 .. l : new[i] = others[i]
      /\ new[l + 1] = row
  BY <1>2, <1>4, AppendProperties
<1>6. DOMAIN new = 1 .. l + 1
  BY <1>5
<1> HIDE DEF new, l
<1>7. \A i \in 1 .. l + 1 : i \in 1 .. l \/ i = l + 1
  BY <1>5
<1>8. \A i, j \in DOMAIN new : new[i].name = new[j].name => i = j
  BY <1>2, <1>4, <1>5, <1>6, <1>7 DEF l
<1>9. C!Names(new) = C!Names(list) \cup {n}
  <2>1. C!Names(new) = {new[i].name : i \in 1 .. l + 1} /\ C!Names(list) = {list[i].name : i \in 1 .. m}
    BY <1>3, <1>6 DEF C!Names
  <2> DEFINE A == C!Names(new)
             B == C!Names(list)
  <2>2. /\ \A x : x \in A <=> \E i \in 1 .. l + 1 : new[i].name = x
        /\ \A x : x \in B <=> \E i \in 1 .. m : list[i].name = x
    BY <2>1
  <2> HIDE DEF A, B
  <2>3. ASSUME NEW i \in 1 .. l PROVE new[i].name \in B
    <3>1. PICK j \in 1 .. m : others[i] = list[j]
      BY <1>4, <2>3 DEF l
    <3>2. new[i].name = list[j].name
      BY <1>5, <3>1
    <3>3. QED
      BY <2>2, <3>2
  <2>4. new[l + 1].name = n /\ l + 1 \in 1 .. l + 1
    BY <1>2, <1>5
  <2>5. ASSUME NEW x \in A PROVE x \in B \cup {n}
    <3>1. PICK i \in 1 .. l + 1 : new[i].name = x
      BY <2>2, <2>5
    <3>2. QED
      BY <1>7, <2>3, <2>4, <3>1
  <2>6. ASSUME NEW x \in B, x # n PROVE x \in A
    <3>1. PICK j \in 1 .. m : list[j].name = x
      BY <2>2, <2>6
    <3>2. PICK i \in 1 .. l : others[i] = list[j]
      BY <1>4, <2>6, <3>1 DEF l
    <3>3. i \in 1 .. l + 1
      BY <1>5
    <3>4. QED
      BY <1>5, <2>2, <3>1, <3>2, <3>3
  <2>7. n \in A
    BY <2>2, <2>4
  <2>8. A = B \cup {n}
    BY <2>5, <2>6, <2>7
  <2>9. QED
    BY <2>8 DEF A, B
<1>10. \A i \in DOMAIN new :
         \/ new[i].name = n /\ new[i].category = C!CategoryOf(n)
         \/ new[i].name # n /\ \E j \in DOMAIN list : new[i] = list[j]
  <2>1. ASSUME NEW i \in 1 .. l PROVE new[i].name # n /\ \E j \in 1 .. m : new[i] = list[j]
    <3>1. new[i] = others[i] /\ i \in 1 .. Len(others)
      BY <1>5, <2>1 DEF l
    <3>2. QED
      BY <1>4, <3>1
  <2>2. new[l + 1].name = n /\ new[l + 1].category = C!CategoryOf(n)
    BY <1>2, <1>5
  <2>3. QED
    BY <1>3, <1>6, <1>7, <2>1, <2>2
<1>11. QED
  BY <1>1, <1>5, <1>8, <1>9, <1>10 DEF E, list

\* The requests are told apart by their kind.
LEMMA RequestKinds ==
  ASSUME asked \subseteq Requests
  PROVE  /\ \A c \in Cats : C!ListOf(c) # C!Category /\ C!ListOf(c).kind = "list" /\ C!ListOf(c).category = c
         /\ C!Category.kind = "categories"
         /\ \A r \in Waiting :
              /\ r.kind = "package" /\ r.category \in Cats
              /\ r.at \in DOMAIN PackagesOf[r.category]
              /\ C!NameOf(r) \in C!Range(PackagesOf[r.category])
              /\ C!NameOf(r) \in Packages /\ C!NameOf(r) \in C!Announced
<1>1. /\ \A c \in Cats : C!ListOf(c).kind = "list" /\ C!ListOf(c).category = c
      /\ C!Category.kind = "categories"
  BY DEF C!ListOf, C!Category
<1>2. \A c \in Cats : C!ListOf(c) # C!Category
  <2>1. "list" # "categories"
    OBVIOUS
  <2>2. QED
    BY <1>1, <2>1
<1>3. ASSUME NEW r \in Waiting
      PROVE  /\ r.kind = "package" /\ r.category \in Cats
             /\ r.at \in DOMAIN PackagesOf[r.category]
             /\ C!NameOf(r) \in C!Range(PackagesOf[r.category])
             /\ C!NameOf(r) \in Packages /\ C!NameOf(r) \in C!Announced
  <2>1. r \in Requests /\ r.kind = "package"
    BY <1>3 DEF Waiting
  <2>2. \A c \in Cats : r # C!ListOf(c)
    BY <1>1, <2>1
  <2>3. r # C!Category
    BY <1>1, <2>1
  <2>4. r \in [kind : {"package"}, category : Cats, at : Nat] /\ r.at \in DOMAIN PackagesOf[r.category]
    BY <2>1, <2>2, <2>3 DEF Requests
  <2>5. C!NameOf(r) \in C!Range(PackagesOf[r.category])
    BY <2>4 DEF C!NameOf, C!Range
  <2>6. PackagesOf[r.category] \in Seq(Packages)
    BY <2>4, CategoriesAre
  <2>7. C!NameOf(r) \in Packages
    BY <2>4, <2>6 DEF C!NameOf
  <2>8. C!NameOf(r) \in C!Announced
    BY <2>4, <2>5 DEF C!Announced, Cats
  <2>9. QED
    BY <2>1, <2>4, <2>5, <2>7, <2>8
<1>4. QED
  BY <1>1, <1>2, <1>3

\* Of what the daemon has, the numbers do not depend on its list.
LEMMA NumbersIs ==
  ASSUME NEW list \in Seq(C!Entries), C!Names(list) \subseteq known, known \in {{}, Known}
  PROVE  C!useCacheFinished(list) = Numbers(list)
<1>1. Dated \subseteq Known
  BY CatalogueConstants DEF C!ConstantsOK
<1>2. {i \in DOMAIN list : list[i].name \in known} = DOMAIN list
  BY DEF C!Names
<1>3. C!Names(list) \cap known \cap Dated = C!Names(list) \cap Dated
  OBVIOUS
<1>4. QED
  BY <1>2, <1>3, CatalogueCardinality DEF C!useCacheFinished, Numbers, Cats

\* A category's number is the number of its rows.
LEMMA RowsAre ==
  ASSUME g_qjadePkgList \in Seq(C!Entries), C!ListedOnce, C!Names(g_qjadePkgList) \subseteq known,
         NEW c \in Cats
  PROVE  Numbers(g_qjadePkgList).of[c] = C!Cardinality(C!setCategory(c))
<1> DEFINE list == g_qjadePkgList
           I1 == {i \in DOMAIN list : list[i].category = c}
           R == C!setCategory(c)
           f == [i \in I1 |-> list[i].name]
<1>1. DOMAIN list = 1 .. Len(list) /\ Len(list) \in Nat /\ \A i \in DOMAIN list : list[i] \in C!Entries
  OBVIOUS
<1>2. \A i \in DOMAIN list : list[i] = [name |-> list[i].name, category |-> list[i].category]
  BY <1>1 DEF C!Entries
<1>3. \A n : n \in R <=> \E i \in I1 : list[i].name = n
  <2>1. ASSUME NEW n \in R PROVE \E i \in I1 : list[i].name = n
    <3>1. PICK i \in DOMAIN list : list[i] = [name |-> n, category |-> c]
      BY <2>1 DEF C!setCategory
    <3>2. list[i].category = c /\ list[i].name = n
      BY <3>1
    <3>3. QED
      BY <3>2
  <2>2. ASSUME NEW i \in I1 PROVE list[i].name \in R
    <3>1. i \in DOMAIN list /\ list[i] = [name |-> list[i].name, category |-> c]
      BY <1>2, <2>2
    <3>2. list[i].name \in C!Names(list) \cap known
      BY <3>1 DEF C!Names
    <3>3. QED
      BY <3>1, <3>2 DEF C!setCategory
  <2>3. QED
    BY <2>1, <2>2
<1>4. \A i, j \in I1 : list[i].name = list[j].name => i = j
  BY DEF C!ListedOnce
<1>5. IsFiniteSet(I1)
  <2>1. IsFiniteSet(DOMAIN list)
    BY <1>1, FS_Interval
  <2>2. QED
    BY <2>1, FS_Subset
<1> HIDE DEF I1, R
<1>6. f \in Bijection(I1, R)
  <2>1. f \in [I1 -> R]
    BY <1>3
  <2>2. \A a, b \in I1 : f[a] = f[b] => a = b
    BY <1>4
  <2>3. \A n \in R : \E i \in I1 : f[i] = n
    BY <1>3
  <2>4. QED
    BY <2>1, <2>2, <2>3 DEF Bijection, Injection, IsInjective, Surjection
<1> HIDE DEF f
<1>7. Cardinality(R) = Cardinality(I1)
  <2>1. ExistsBijection(I1, R)
    BY <1>6 DEF ExistsBijection
  <2>2. QED
    BY <1>5, <2>1, FS_Bijection
<1>8. Numbers(g_qjadePkgList).of[c] = Cardinality(I1)
  BY DEF Numbers, I1
<1>9. QED
  BY <1>7, <1>8, CatalogueCardinality DEF R

\* A step takes one of what is pending, a package n.
Taken(n) ==
  /\ asked' \subseteq asked
  /\ \A q \in asked : q.kind # "package" => q \in asked'
  /\ stack' \in Seq(Packages) /\ \A i \in 1 .. Len(stack') : stack'[i] \in C!Announced
  /\ \A x : \A c \in Cats : Pending(x, c) /\ x # n => Pending(x, c)'
  /\ IsFiniteSet(Waiting')
  /\ Cardinality(Waiting) + Len(stack) = Cardinality(Waiting') + Len(stack') + 1

\* A reply takes its package from the requests, a handler that goes on from the stack.
LEMMA RequestIsTaken ==
  ASSUME CatTypes, FromServer, NEW r \in Waiting, asked' = asked \ {r}, stack' = stack
  PROVE  Taken(C!NameOf(r))
<1>1. r \in asked /\ r.kind = "package"
  BY DEF Waiting
<1>2. Waiting' = Waiting \ {r}
  BY DEF Waiting
<1>3. IsFiniteSet(Waiting)
  BY DEF CatTypes
<1>4. IsFiniteSet(Waiting') /\ Cardinality(Waiting') = Cardinality(Waiting) - 1
  BY <1>2, <1>3, FS_RemoveElement
<1>5. Cardinality(Waiting) + Len(stack) = Cardinality(Waiting') + Len(stack') + 1
  <2>1. Cardinality(Waiting) \in Nat /\ Cardinality(Waiting') \in Nat
    BY <1>3, <1>4, FS_CardinalityType
  <2>2. Len(stack) \in Nat
    BY DEF CatTypes
  <2>3. QED
    BY <1>4, <2>1, <2>2
<1>6. \A q \in asked : q.kind # "package" => q \in asked'
  BY <1>1
<1>7. ASSUME NEW x, NEW c \in Cats, Pending(x, c), x # C!NameOf(r) PROVE Pending(x, c)'
  <2>1. CASE C!ListOf(c) \in asked
    <3>1. C!ListOf(c) # r
      BY <1>1, RequestKinds DEF CatTypes
    <3>2. QED
      BY <2>1, <3>1 DEF Pending
  <2>2. CASE \E q \in Waiting : q.category = c /\ C!NameOf(q) = x
    <3>1. PICK q \in Waiting : q.category = c /\ C!NameOf(q) = x
      BY <2>2
    <3>2. q \in Waiting'
      BY <1>2, <1>7, <3>1
    <3>3. QED
      BY <3>1, <3>2 DEF Pending
  <2>3. CASE \E i \in 1 .. Len(stack) : stack[i] = x
    BY <2>3 DEF Pending
  <2>4. QED
    BY <1>7, <2>1, <2>2, <2>3 DEF Pending
<1>8. stack' \in Seq(Packages) /\ \A i \in 1 .. Len(stack') : stack'[i] \in C!Announced
  BY DEF CatTypes, FromServer
<1>9. QED
  BY <1>4, <1>5, <1>6, <1>7, <1>8 DEF Taken

LEMMA InnermostIsTaken ==
  ASSUME CatTypes, FromServer, stack # <<>>, stack' = C!Front(stack), asked' = asked
  PROVE  Taken(C!Last(stack)) /\ C!Last(stack) \in Packages /\ C!Last(stack) \in C!Announced
<1> DEFINE k == Len(stack)
<1>1. stack \in Seq(Packages) /\ k \in Nat
  BY DEF CatTypes
<1>2. k >= 1
  BY <1>1
<1>3. C!Front(stack) = [i \in 1 .. k - 1 |-> stack[i]] /\ C!Last(stack) = stack[k]
  BY DEF C!Front, C!Last
<1>4. \A i \in 1 .. k : stack[i] \in Packages
  BY <1>1
<1> HIDE DEF k
<1>5. /\ stack' \in Seq(Packages) /\ Len(stack') = k - 1
      /\ \A i \in 1 .. k - 1 : stack'[i] = stack[i]
  <2>1. k - 1 \in Nat /\ \A i \in 1 .. k - 1 : stack[i] \in Packages
    BY <1>1, <1>2, <1>4
  <2>2. QED
    BY <1>3, <2>1
<1>6. \A i \in 1 .. Len(stack) : stack[i] \in C!Announced
  BY DEF FromServer
<1>7. \A i \in 1 .. k - 1 : i \in 1 .. k
  BY <1>1
<1>8. k \in 1 .. k
  BY <1>1, <1>2
<1>9. C!Last(stack) \in Packages /\ C!Last(stack) \in C!Announced
  BY <1>3, <1>4, <1>6, <1>8 DEF k
<1>10. \A i \in 1 .. Len(stack') : stack'[i] \in C!Announced
  BY <1>5, <1>6, <1>7 DEF k
<1>11. Waiting' = Waiting
  BY DEF Waiting
<1>12. IsFiniteSet(Waiting') /\ Cardinality(Waiting) \in Nat
  BY <1>11, FS_CardinalityType DEF CatTypes
<1>13. Cardinality(Waiting) + Len(stack) = Cardinality(Waiting') + Len(stack') + 1
  BY <1>1, <1>5, <1>11, <1>12 DEF k
<1>14. ASSUME NEW x, NEW c \in Cats, Pending(x, c), x # C!Last(stack) PROVE Pending(x, c)'
  <2>1. CASE C!ListOf(c) \in asked
    BY <2>1 DEF Pending
  <2>2. CASE \E q \in Waiting : q.category = c /\ C!NameOf(q) = x
    BY <1>11, <2>2 DEF Pending
  <2>3. CASE \E i \in 1 .. Len(stack) : stack[i] = x
    <3>1. PICK i \in 1 .. k : stack[i] = x
      BY <2>3 DEF k
    <3>2. i # k
      BY <1>3, <1>14, <3>1
    <3>3. i \in 1 .. k - 1
      BY <1>1, <3>1, <3>2
    <3>4. i \in 1 .. Len(stack') /\ stack'[i] = x
      BY <1>5, <3>1, <3>3
    <3>5. QED
      BY <3>4 DEF Pending
  <2>4. QED
    BY <1>14, <2>1, <2>2, <2>3 DEF Pending
<1>15. QED
  BY <1>5, <1>9, <1>10, <1>12, <1>13, <1>14 DEF Taken

\* Nothing is pending if it counts nothing.
LEMMA NonePending ==
  ASSUME NEW W, NEW s \in Seq(Packages), IsFiniteSet(W)
  PROVE  /\ Cardinality(W) \in Nat /\ Len(s) \in Nat
         /\ W = {} /\ s = <<>> <=> Cardinality(W) + Len(s) = 0
<1>1. Cardinality(W) \in Nat /\ (Cardinality(W) = 0 <=> W = {})
  BY FS_CardinalityType, FS_EmptySet
<1>2. Len(s) \in Nat /\ (Len(s) = 0 <=> s = <<>>)
  OBVIOUS
<1>3. QED
  BY <1>1, <1>2

\* The numbers are made when nothing is pending, not before.
LEMMA HandleCounts ==
  ASSUME CatIInv, NEW n, Taken(n), C!Handle(n), g_categoryList = Categories,
         C!Category \notin asked, C!Names(g_qjadePkgList') \subseteq known,
         g_qjadePkgList' \in Seq(C!Entries)
  PROVE  Counted'
<1> DEFINE p == Cardinality(Waiting) + Len(stack)
           q == Cardinality(Waiting') + Len(stack')
<1>1. SUFFICES ASSUME failed' = 0, ~mixed', C!Category \notin asked',
                      handled' => \A c \in Cats : C!ListOf(c) \notin asked'
               PROVE  IF handled' /\ Waiting' = {} /\ stack' = <<>>
                        THEN m_dataList' = <<Numbers(g_qjadePkgList')>>
                        ELSE /\ m_dataList' = <<>>
                             /\ g_cate_number' = Cardinality(Waiting') + Len(stack') + g_cate_act_number'
  BY DEF Counted, Numbers
<1>2. /\ handled' = TRUE /\ g_cate_act_number' = g_cate_act_number + 1
      /\ failed = 0 /\ ~mixed /\ known' = known
      /\ IF g_cate_number # 0 /\ g_cate_number = g_cate_act_number'
           THEN /\ m_dataList' = Append(m_dataList, C!useCacheFinished(g_qjadePkgList'))
                /\ g_cate_number' = 0
           ELSE m_dataList' = m_dataList /\ g_cate_number' = g_cate_number
  BY <1>1 DEF C!Handle
<1>3. \A c \in Cats : C!ListOf(c) \notin asked
  <2>1. ASSUME NEW c \in Cats, C!ListOf(c) \in asked PROVE FALSE
    <3>1. C!ListOf(c).kind = "list"
      BY <2>1, RequestKinds DEF CatIInv, CatTypes
    <3>2. C!ListOf(c) \in asked'
      BY <2>1, <3>1 DEF Taken
    <3>3. QED
      BY <1>1, <1>2, <2>1, <3>2
  <2>2. QED
    BY <2>1
<1>4. /\ p \in Nat /\ q \in Nat /\ p = q + 1
      /\ (Waiting = {} /\ stack = <<>> <=> p = 0)
      /\ (Waiting' = {} /\ stack' = <<>> <=> q = 0)
  <2>1. /\ Cardinality(Waiting) \in Nat /\ Len(stack) \in Nat
        /\ Waiting = {} /\ stack = <<>> <=> p = 0
    BY NonePending DEF CatIInv, CatTypes
  <2>2. /\ Cardinality(Waiting') \in Nat /\ Len(stack') \in Nat
        /\ Waiting' = {} /\ stack' = <<>> <=> q = 0
    BY NonePending DEF Taken
  <2>3. p = q + 1
    BY DEF Taken
  <2> HIDE DEF p, q
  <2>4. p \in Nat /\ q \in Nat
    BY <2>1, <2>2 DEF p, q
  <2>5. QED
    BY <2>1, <2>2, <2>3, <2>4
<1>5. m_dataList = <<>> /\ g_cate_number = p + g_cate_act_number
  <2>1. IF handled /\ Waiting = {} /\ stack = <<>>
          THEN m_dataList = <<Numbers(g_qjadePkgList)>>
          ELSE m_dataList = <<>> /\ g_cate_number = Cardinality(Waiting) + Len(stack) + g_cate_act_number
    BY <1>2, <1>3 DEF CatIInv, Counted
  <2>2. ~ (Waiting = {} /\ stack = <<>>)
    <3> HIDE DEF p, q
    <3> QED BY <1>4
  <2>3. QED
    BY <2>1, <2>2
<1>6. g_cate_act_number \in Nat
  BY DEF CatIInv, CatTypes
<1>7. C!useCacheFinished(g_qjadePkgList') = Numbers(g_qjadePkgList')
  BY NumbersIs DEF CatIInv, CatTypes
<1> HIDE DEF p, q
<1>8. CASE q = 0
  <2>1. g_cate_number # 0 /\ g_cate_number = g_cate_act_number'
    BY <1>2, <1>4, <1>5, <1>6, <1>8
  <2>2. m_dataList' = <<Numbers(g_qjadePkgList')>>
    BY <1>2, <1>5, <1>7, <2>1
  <2>3. QED
    BY <1>2, <1>4, <1>8, <2>2
<1>9. CASE q # 0
  <2>1. g_cate_number # g_cate_act_number'
    BY <1>2, <1>4, <1>5, <1>6, <1>9
  <2>2. m_dataList' = <<>> /\ g_cate_number' = g_cate_number
    BY <1>2, <1>5, <2>1
  <2>3. g_cate_number' = q + g_cate_act_number'
    BY <1>2, <1>4, <1>5, <1>6, <2>2
  <2>4. ~ (Waiting' = {} /\ stack' = <<>>)
    BY <1>4, <1>9
  <2>5. QED
    BY <2>2, <2>3, <2>4 DEF q
<1>10. QED
  BY <1>8, <1>9

\* What handling a package does to the list.
LEMMA HandleLists ==
  ASSUME CatIInv, NEW n \in Packages, C!Handle(n), g_categoryList = Categories, n \in C!Announced
  PROVE  /\ g_qjadePkgList' \in Seq(C!Entries) /\ C!ListedOnce'
         /\ C!Names(g_qjadePkgList') \subseteq known \cap C!Announced
         /\ C!Names(g_qjadePkgList) \subseteq C!Names(g_qjadePkgList')
         /\ n \in known => n \in C!Names(g_qjadePkgList')
         /\ \A i \in DOMAIN g_qjadePkgList' :
              \/ g_qjadePkgList'[i].name = n /\ g_qjadePkgList'[i].category = C!CategoryOf(n)
              \/ g_qjadePkgList'[i].name # n /\ \E j \in DOMAIN g_qjadePkgList : g_qjadePkgList'[i] = g_qjadePkgList[j]
<1>1. /\ g_qjadePkgList \in Seq(C!Entries) /\ C!ListedOnce
      /\ C!Names(g_qjadePkgList) \subseteq known \cap C!Announced
      /\ catPkgList \in [Cats -> Seq(Packages)] /\ \A c \in Cats : catPkgList[c] \in {<<>>, PackagesOf[c]}
  BY DEF CatIInv, CatTypes, FromServer, Coming
<1>2. g_qjadePkgList' = IF n \in known THEN C!Listed(n) ELSE g_qjadePkgList
  BY DEF C!Handle
<1>3. CASE n \in known
  <2>1. C!CategoryOf(n) \in Cats \cup {NoCategory}
    BY <1>1, CategoryIs
  <2> DEFINE new == C!Listed(n)
  <2>2. /\ new \in Seq(C!Entries)
        /\ \A i, j \in DOMAIN new : new[i].name = new[j].name => i = j
        /\ C!Names(new) = C!Names(g_qjadePkgList) \cup {n}
        /\ \A i \in DOMAIN new :
             \/ new[i].name = n /\ new[i].category = C!CategoryOf(n)
             \/ new[i].name # n /\ \E j \in DOMAIN g_qjadePkgList : new[i] = g_qjadePkgList[j]
    BY <1>1, <2>1, ListedIs
  <2>3. g_qjadePkgList' = new
    BY <1>2, <1>3
  <2> HIDE DEF new
  <2>4. QED
    BY <1>1, <1>3, <2>2, <2>3 DEF C!ListedOnce
<1>4. CASE n \notin known
  <2>1. g_qjadePkgList' = g_qjadePkgList
    BY <1>2, <1>4
  <2>2. ASSUME NEW i \in DOMAIN g_qjadePkgList PROVE g_qjadePkgList[i].name # n
    BY <1>1, <1>4 DEF C!Names
  <2>3. QED
    BY <1>1, <1>4, <2>1, <2>2 DEF C!ListedOnce
<1>5. QED
  BY <1>3, <1>4

\* Nothing that comes later undoes what has been delivered.
LEMMA HandleDelivers ==
  ASSUME CatIInv, NEW n \in Packages, n \in C!Announced, Taken(n), C!Handle(n),
         g_categoryList = Categories, C!Category \notin asked,
         known = {} => late', late => late'
  PROVE  Delivered' /\ RightCategory'
<1>1. /\ C!Category.kind # "package" /\ \A c \in Cats : C!ListOf(c).kind # "package"
  BY RequestKinds DEF CatIInv, CatTypes
<1>2. /\ failed' = failed /\ handled' = TRUE /\ known' = known /\ catPkgList' = catPkgList
      /\ asked' \subseteq asked /\ known \in {{}, Known}
  BY DEF C!Handle, Taken, CatIInv, CatTypes
<1>3. /\ \A i \in DOMAIN g_qjadePkgList' :
           \/ g_qjadePkgList'[i].name = n /\ g_qjadePkgList'[i].category = C!CategoryOf(n)
           \/ g_qjadePkgList'[i].name # n /\ \E j \in DOMAIN g_qjadePkgList : g_qjadePkgList'[i] = g_qjadePkgList[j]
      /\ C!Names(g_qjadePkgList) \subseteq C!Names(g_qjadePkgList')
      /\ n \in known => n \in C!Names(g_qjadePkgList')
  BY HandleLists
<1>4. \A x : \A c \in Cats : Pending(x, c) /\ x # n => Pending(x, c)'
  BY DEF Taken
<1>5. ASSUME failed' = 0, NEW c \in Cats, NEW x \in C!Range(PackagesOf[c])
      PROVE  Pending(x, c)' \/ (handled' /\ (late' \/ x \notin Known \/ x \in C!Names(g_qjadePkgList')))
  <2>1. Pending(x, c) \/ (handled /\ (late \/ x \notin Known \/ x \in C!Names(g_qjadePkgList)))
    BY <1>2, <1>5 DEF CatIInv, Delivered
  <2>2. CASE handled /\ (late \/ x \notin Known \/ x \in C!Names(g_qjadePkgList))
    BY <1>2, <1>3, <2>2
  <2>3. CASE Pending(x, c) /\ x # n
    BY <1>4, <2>3
  <2>4. CASE x = n
    BY <1>2, <1>3, <2>4
  <2>5. QED
    BY <2>1, <2>2, <2>3, <2>4
<1>6. Delivered'
  BY <1>5 DEF Delivered, C!Names
<1>7. ASSUME failed' = 0, NEW i \in DOMAIN g_qjadePkgList', NEW k \in DOMAIN Categories,
             NEW x, x = g_qjadePkgList'[i].name, First(x, k)
      PROVE  g_qjadePkgList'[i].category = Categories[k] \/ Pending(x, Categories[k])'
  <2>1. Categories[k] \in Cats
    BY CategoriesAre
  <2>2. CASE g_qjadePkgList'[i].name = n /\ g_qjadePkgList'[i].category = C!CategoryOf(n)
    <3>1. C!ListOf(Categories[k]) \in asked \/ catPkgList[Categories[k]] = PackagesOf[Categories[k]]
      BY <1>2, <1>7, <2>1 DEF CatIInv, Coming
    <3>2. CASE C!ListOf(Categories[k]) \in asked
      <4>1. C!ListOf(Categories[k]) \in asked'
        BY <1>1, <2>1, <3>2 DEF Taken
      <4>2. QED
        BY <4>1 DEF Pending
    <3>3. CASE catPkgList[Categories[k]] = PackagesOf[Categories[k]]
      <4>1. First(n, k)
        BY <1>7, <2>2
      <4>2. catPkgList \in [Cats -> Seq(Packages)] /\ \A c \in Cats : catPkgList[c] \in {<<>>, PackagesOf[c]}
        BY DEF CatIInv, CatTypes, Coming
      <4>3. C!CategoryOf(n) = Categories[k]
        BY <3>3, <4>1, <4>2, CategoryIs
      <4>4. QED
        BY <2>2, <4>3
    <3>4. QED
      BY <3>1, <3>2, <3>3
  <2>3. CASE g_qjadePkgList'[i].name # n /\ \E j \in DOMAIN g_qjadePkgList : g_qjadePkgList'[i] = g_qjadePkgList[j]
    <3>1. PICK j \in DOMAIN g_qjadePkgList : g_qjadePkgList'[i] = g_qjadePkgList[j]
      BY <2>3
    <3>2. x = g_qjadePkgList[j].name /\ x # n
      BY <1>7, <2>3, <3>1
    <3>3. g_qjadePkgList[j].category = Categories[k] \/ Pending(x, Categories[k])
      BY <1>2, <1>7, <3>2 DEF CatIInv, RightCategory
    <3>4. QED
      BY <1>4, <2>1, <3>1, <3>2, <3>3
  <2>4. QED
    BY <1>3, <2>2, <2>3
<1>8. RightCategory'
  BY <1>7 DEF RightCategory, First, Pending, Waiting
<1>9. QED
  BY <1>6, <1>8

\* Handling a package that was pending keeps the invariant.
LEMMA HandleKeeps ==
  ASSUME CatIInv, NEW n \in Packages, n \in C!Announced, Taken(n), C!Handle(n),
         g_categoryList = Categories, C!Category \notin asked,
         known = {} => late', late => late'
  PROVE  CatIInv'
<1>1. /\ C!Category.kind # "package" /\ \A c \in Cats : C!ListOf(c).kind # "package"
  BY RequestKinds DEF CatIInv, CatTypes
<1>2. /\ failed' = failed /\ handled' = TRUE /\ known' = known /\ catPkgList' = catPkgList
      /\ g_categoryList' = g_categoryList /\ mixed' = mixed /\ searched' = searched /\ found' = found
      /\ g_cate_act_number' = g_cate_act_number + 1
      /\ g_cate_number' = g_cate_number \/ g_cate_number' = 0
  BY DEF C!Handle, C!views
<1>3. /\ g_qjadePkgList' \in Seq(C!Entries) /\ C!ListedOnce'
      /\ C!Names(g_qjadePkgList') \subseteq known \cap C!Announced
  BY HandleLists
<1>4. Waiting' \subseteq Waiting
  BY DEF Waiting, Taken
<1>5. CatTypes'
  BY <1>2, <1>3 DEF CatTypes, CatIInv, Taken
<1>6. Opening'
  BY <1>2 DEF Opening, Taken
<1>7. Coming'
  <2>1. \A c \in Cats : C!ListOf(c) \in asked' <=> C!ListOf(c) \in asked
    BY <1>1 DEF Taken
  <2>2. C!Category \in asked' <=> C!Category \in asked
    BY <1>1 DEF Taken
  <2>3. \A r \in Waiting : r.category \in Cats
    BY RequestKinds DEF CatIInv, CatTypes
  <2>4. QED
    BY <1>2, <1>4, <2>1, <2>2, <2>3 DEF Coming, CatIInv
<1>8. FromServer'
  BY <1>2, <1>3 DEF FromServer, Taken, C!Names
<1>9. Delivered' /\ RightCategory'
  BY HandleDelivers
<1>10. Counted'
  BY <1>3, HandleCounts
<1>11. C!SearchIsSorted'
  BY <1>2 DEF C!SearchIsSorted, C!Range, CatIInv
<1>12. QED
  BY <1>3, <1>5, <1>6, <1>7, <1>8, <1>9, <1>10, <1>11 DEF CatIInv

\* The invariant holds at first, and each action keeps it.
LEMMA CatalogueStarts == C!Init => CatIInv
<1>1. SUFFICES ASSUME C!Init PROVE CatIInv
  OBVIOUS
<1>2. /\ asked = {C!Category} /\ known = {} /\ stack = <<>> /\ g_qjadePkgList = <<>>
      /\ catPkgList = [c \in Cats |-> <<>>] /\ m_dataList = <<>> /\ searched = <<>>
      /\ g_cate_number = 0 /\ g_cate_act_number = 0 /\ failed = 0
      /\ handled = FALSE /\ mixed = FALSE /\ found = {}
  BY <1>1 DEF C!Init, Cats
<1>3. asked \subseteq Requests
  BY <1>2 DEF Requests
<1>4. Waiting = {}
  BY <1>2, <1>3, RequestKinds DEF Waiting
<1>5. CatTypes
  <2>1. IsFiniteSet(Waiting)
    BY <1>4, FS_EmptySet
  <2>2. catPkgList \in [Cats -> Seq(Packages)]
    BY <1>2
  <2>3. <<>> \in Seq(C!Entries) /\ <<>> \in Seq(Packages)
    OBVIOUS
  <2>4. QED
    BY <1>2, <1>3, <2>1, <2>2, <2>3 DEF CatTypes
<1>6. Opening
  BY <1>2 DEF Opening
<1>7. Coming
  BY <1>2, <1>4 DEF Coming
<1>8. FromServer
  BY <1>2 DEF FromServer, C!Names
<1>9. Delivered /\ RightCategory /\ Counted /\ C!ListedOnce
  BY <1>2 DEF Delivered, RightCategory, Counted, C!ListedOnce
<1>10. C!SearchIsSorted
  BY <1>2 DEF C!SearchIsSorted, C!Range
<1>11. QED
  BY <1>5, <1>6, <1>7, <1>8, <1>9, <1>10 DEF CatIInv

LEMMA FailKeeps == CatIInv /\ C!Fail => CatIInv'
<1>1. SUFFICES ASSUME CatIInv, C!Fail PROVE CatIInv'
  OBVIOUS
<1>2. PICK r \in asked : asked' = asked \ {r}
  BY <1>1 DEF C!Fail
<1>3. /\ known' = known /\ g_categoryList' = g_categoryList /\ catPkgList' = catPkgList
      /\ g_qjadePkgList' = g_qjadePkgList /\ stack' = stack /\ searched' = searched
      /\ g_cate_number' = g_cate_number /\ g_cate_act_number' = g_cate_act_number
      /\ m_dataList' = m_dataList /\ handled' = handled /\ mixed' = mixed /\ found' = found
      /\ failed' = failed + 1 /\ failed \in Nat
  BY <1>1 DEF C!Fail, C!lists, C!counters, C!views, CatIInv, CatTypes
<1>4. failed' # 0
  BY <1>3
<1>5. asked' \subseteq asked /\ Waiting' \subseteq Waiting
  BY <1>2 DEF Waiting
<1>6. IsFiniteSet(Waiting')
  BY <1>1, <1>5, FS_Subset DEF CatIInv, CatTypes
<1>7. CatTypes'
  BY <1>1, <1>3, <1>5, <1>6 DEF CatIInv, CatTypes
<1>8. Opening'
  BY <1>1, <1>3, <1>5 DEF CatIInv, Opening
<1>9. Coming'
  BY <1>1, <1>3, <1>4, <1>5 DEF CatIInv, Coming
<1>10. FromServer'
  BY <1>1, <1>3 DEF CatIInv, FromServer, C!Names
<1>11. Delivered' /\ RightCategory' /\ Counted'
  BY <1>4 DEF Delivered, RightCategory, Counted
<1>12. C!ListedOnce' /\ C!SearchIsSorted'
  BY <1>1, <1>3 DEF CatIInv, C!ListedOnce, C!SearchIsSorted, C!Range
<1>13. QED
  BY <1>7, <1>8, <1>9, <1>10, <1>11, <1>12 DEF CatIInv

LEMMA FinishedKeeps == CatIInv /\ C!finished => CatIInv'
<1>1. SUFFICES ASSUME CatIInv, C!finished PROVE CatIInv'
  OBVIOUS
<1>2. /\ C!Category \in asked
      /\ asked' = (asked \ {C!Category}) \cup {C!ListOf(c) : c \in Cats}
      /\ g_categoryList' = Categories /\ g_cate_number' = 0 /\ g_cate_act_number' = 0
      /\ known' = known /\ catPkgList' = catPkgList
      /\ g_qjadePkgList' = g_qjadePkgList /\ stack' = stack /\ searched' = searched
      /\ m_dataList' = m_dataList /\ handled' = handled /\ mixed' = mixed /\ found' = found
      /\ failed' = failed
  BY <1>1 DEF C!finished, C!views, Cats
<1>3. /\ asked \subseteq {C!Category} /\ stack = <<>> /\ ~handled
      /\ g_qjadePkgList = <<>> /\ m_dataList = <<>>
  BY <1>1, <1>2 DEF CatIInv, Opening
<1>4. asked' = {C!ListOf(c) : c \in Cats}
  BY <1>2, <1>3
<1>5. asked' \subseteq Requests
  BY <1>4 DEF Requests
<1>6. \A c \in Cats : C!ListOf(c) # C!Category /\ C!ListOf(c).kind = "list"
  BY <1>1, RequestKinds DEF CatIInv, CatTypes
<1>7. Waiting' = {} /\ C!Category \notin asked'
  BY <1>4, <1>6 DEF Waiting
<1>8. CatTypes'
  <2>1. IsFiniteSet(Waiting')
    BY <1>7, FS_EmptySet
  <2>2. QED
    BY <1>1, <1>2, <1>5, <2>1 DEF CatIInv, CatTypes
<1>9. Opening'
  BY <1>1, <1>2, <1>3, <1>7 DEF CatIInv, Opening
<1>10. Coming'
  BY <1>1, <1>2, <1>4, <1>7 DEF CatIInv, Coming
<1>11. FromServer'
  BY <1>1, <1>2 DEF CatIInv, FromServer, C!Names
<1>12. Delivered'
  BY <1>4 DEF Delivered, Pending
<1>13. RightCategory'
  BY <1>2, <1>3 DEF RightCategory
<1>14. Counted'
  <2>1. Cardinality(Waiting') = 0 /\ Len(stack') = 0
    BY <1>2, <1>3, <1>7, FS_EmptySet
  <2>2. QED
    BY <1>2, <1>3, <2>1 DEF Counted
<1>15. C!ListedOnce' /\ C!SearchIsSorted'
  BY <1>1, <1>2 DEF CatIInv, C!ListedOnce, C!SearchIsSorted, C!Range
<1>16. QED
  BY <1>8, <1>9, <1>10, <1>11, <1>12, <1>13, <1>14, <1>15 DEF CatIInv

LEMMA DaemonListKeeps == CatIInv /\ C!getAllPkgList => CatIInv'
<1>1. SUFFICES ASSUME CatIInv, C!getAllPkgList PROVE CatIInv'
  OBVIOUS
<1>2. /\ known' = Known /\ known \in {{}, Known} /\ asked' = asked
      /\ g_categoryList' = g_categoryList /\ catPkgList' = catPkgList
      /\ g_qjadePkgList' = g_qjadePkgList /\ stack' = stack /\ searched' = searched
      /\ g_cate_number' = g_cate_number /\ g_cate_act_number' = g_cate_act_number
      /\ m_dataList' = m_dataList /\ handled' = handled /\ mixed' = mixed /\ found' = found
      /\ failed' = failed /\ late' = late
  BY <1>1 DEF C!getAllPkgList, C!lists, C!counters, C!views, CatIInv, CatTypes
<1>3. Waiting' = Waiting
  BY <1>2 DEF Waiting
<1>4. CatTypes' /\ Opening'
  BY <1>1, <1>2, <1>3 DEF CatIInv, CatTypes, Opening
<1>5. Coming'
  BY <1>1, <1>2, <1>3 DEF CatIInv, Coming
<1>6. FromServer'
  BY <1>1, <1>2 DEF CatIInv, FromServer, C!Names
<1>7. \A x : \A c : Pending(x, c) => Pending(x, c)'
  BY <1>2, <1>3 DEF Pending
<1>8. Delivered'
  BY <1>1, <1>2, <1>7 DEF CatIInv, Delivered, C!Names
<1>9. RightCategory'
  BY <1>1, <1>2, <1>3 DEF CatIInv, RightCategory, Pending, First
<1>10. Counted'
  BY <1>1, <1>2, <1>3 DEF CatIInv, Counted, Numbers, C!Names
<1>11. C!ListedOnce' /\ C!SearchIsSorted'
  BY <1>1, <1>2 DEF CatIInv, C!ListedOnce, C!SearchIsSorted, C!Range
<1>12. QED
  BY <1>4, <1>5, <1>6, <1>8, <1>9, <1>10, <1>11 DEF CatIInv

LEMMA SearchKeeps ==
  ASSUME CatIInv, NEW reply \in C!Replies, C!Search(reply)
  PROVE  CatIInv'
<1>1. reply \in Seq(Packages)
  <2>1. PICK k \in 0 .. MaxReply : reply \in [1 .. k -> Packages]
    BY DEF C!Replies
  <2>2. MaxReply \in Nat
    BY CatalogueConstants DEF C!ConstantsOK
  <2>3. k \in Nat
    BY <2>2
  <2>4. QED
    BY <2>1, <2>3
<1>2. /\ searched' = C!search(reply) /\ found' = C!Range(reply) \cap known
      /\ known' = known /\ asked' = asked
      /\ g_categoryList' = g_categoryList /\ catPkgList' = catPkgList
      /\ g_qjadePkgList' = g_qjadePkgList /\ stack' = stack
      /\ g_cate_number' = g_cate_number /\ g_cate_act_number' = g_cate_act_number
      /\ m_dataList' = m_dataList /\ handled' = handled /\ mixed' = mixed
      /\ failed' = failed /\ late' = late
  BY DEF C!Search, C!lists, C!counters
<1>3. searched' \in Ascending /\ Elements(searched') = Elements(reply) \cap known
  BY <1>1, <1>2, SearchIs
<1>4. C!Range(reply) = Elements(reply)
  <2>1. DOMAIN reply = 1 .. Len(reply)
    BY <1>1
  <2>2. QED
    BY <2>1 DEF C!Range, Elements
<1>5. searched' \in Seq(Packages) /\ C!SearchIsSorted'
  <2>1. searched' \in Seq(Packages) /\ \A i, j \in 1 .. Len(searched') : i < j => searched'[i] < searched'[j]
    BY <1>3 DEF Ascending
  <2>2. DOMAIN searched' = 1 .. Len(searched')
    BY <2>1
  <2>3. C!Range(searched') = Elements(searched')
    BY <2>2 DEF C!Range, Elements
  <2>4. C!Range(searched') = found'
    BY <1>2, <1>3, <1>4, <2>3
  <2>5. QED
    BY <2>1, <2>2, <2>4 DEF C!SearchIsSorted, C!Range
<1>6. Waiting' = Waiting
  BY <1>2 DEF Waiting
<1>7. CatTypes' /\ Opening'
  BY <1>2, <1>5, <1>6 DEF CatIInv, CatTypes, Opening
<1>8. Coming' /\ FromServer'
  BY <1>2, <1>6 DEF CatIInv, Coming, FromServer, C!Names
<1>9. Delivered' /\ RightCategory'
  BY <1>2, <1>6 DEF CatIInv, Delivered, RightCategory, C!Names, Pending, First
<1>10. Counted' /\ C!ListedOnce'
  BY <1>2, <1>6 DEF CatIInv, Counted, C!ListedOnce, Numbers, C!Names
<1>11. QED
  BY <1>5, <1>7, <1>8, <1>9, <1>10 DEF CatIInv

LEMMA CatalogueStutters == CatIInv /\ UNCHANGED C!vars => CatIInv'
<1>1. SUFFICES ASSUME CatIInv, UNCHANGED C!vars PROVE CatIInv'
  OBVIOUS
<1>2. /\ known' = known /\ asked' = asked
      /\ g_categoryList' = g_categoryList /\ catPkgList' = catPkgList
      /\ g_qjadePkgList' = g_qjadePkgList /\ stack' = stack
      /\ g_cate_number' = g_cate_number /\ g_cate_act_number' = g_cate_act_number
      /\ m_dataList' = m_dataList /\ handled' = handled /\ mixed' = mixed
      /\ searched' = searched /\ found' = found
      /\ failed' = failed /\ late' = late
  BY <1>1 DEF C!vars, C!lists, C!counters, C!views
<1>3. Waiting' = Waiting
  BY <1>2 DEF Waiting
<1>4. CatTypes' /\ Opening' /\ Coming' /\ FromServer'
  BY <1>1, <1>2, <1>3 DEF CatIInv, CatTypes, Opening, Coming, FromServer, C!Names
<1>5. Delivered' /\ RightCategory'
  BY <1>1, <1>2, <1>3 DEF CatIInv, Delivered, RightCategory, C!Names, Pending, First
<1>6. Counted' /\ C!ListedOnce' /\ C!SearchIsSorted'
  BY <1>1, <1>2, <1>3 DEF CatIInv, Counted, C!ListedOnce, Numbers, C!Names, C!SearchIsSorted, C!Range
<1>7. QED
  BY <1>4, <1>5, <1>6 DEF CatIInv

\* A category's packages, once each.
LEMMA NewRequests ==
  ASSUME NEW c \in Cats
  PROVE  LET new == {C!PackageOf(c, i) : i \in DOMAIN PackagesOf[c]}
         IN  /\ IsFiniteSet(new) /\ Cardinality(new) = Len(PackagesOf[c]) /\ Len(PackagesOf[c]) \in Nat
             /\ new \subseteq Requests
             /\ \A r \in new : r.kind = "package" /\ r.category = c
             /\ \A n \in C!Range(PackagesOf[c]) : \E r \in new : r.category = c /\ C!NameOf(r) = n
<1> DEFINE m == Len(PackagesOf[c])
           new == {C!PackageOf(c, i) : i \in DOMAIN PackagesOf[c]}
           f == [i \in 1 .. m |-> C!PackageOf(c, i)]
<1>1. m \in Nat /\ DOMAIN PackagesOf[c] = 1 .. m
  <2>1. PackagesOf[c] \in Seq(Packages)
    BY CategoriesAre
  <2>2. QED
    BY <2>1
<1> HIDE DEF m
<1>2. \A i \in 1 .. m : LET r == C!PackageOf(c, i)
                        IN  /\ r.kind = "package" /\ r.category = c /\ r.at = i
                            /\ r \in [kind : {"package"}, category : Cats, at : Nat]
  BY <1>1 DEF C!PackageOf
<1>3. \A i \in 1 .. m : C!NameOf(C!PackageOf(c, i)) = PackagesOf[c][i]
  BY <1>2 DEF C!NameOf
<1>4. \A r : r \in new <=> \E i \in 1 .. m : r = C!PackageOf(c, i)
  BY <1>1
<1>5. f \in Bijection(1 .. m, new)
  <2>1. f \in [1 .. m -> new]
    BY <1>4
  <2>2. \A i, j \in 1 .. m : f[i] = f[j] => i = j
    BY <1>2
  <2>3. \A r \in new : \E i \in 1 .. m : f[i] = r
    BY <1>4
  <2> HIDE DEF f, new
  <2>4. QED
    BY <2>1, <2>2, <2>3 DEF Bijection, Injection, IsInjective, Surjection
<1> HIDE DEF f, new
<1>6. IsFiniteSet(new) /\ Cardinality(new) = m
  <2>1. IsFiniteSet(1 .. m) /\ Cardinality(1 .. m) = m
    <3>1. 1 \in Int /\ m \in Int /\ (IF 1 > m THEN 0 ELSE m - 1 + 1) = m
      BY <1>1
    <3>2. QED
      BY <3>1, FS_Interval
  <2>2. ExistsBijection(1 .. m, new)
    BY <1>5 DEF ExistsBijection
  <2>3. QED
    BY <2>1, <2>2, FS_Bijection
<1>7. new \subseteq Requests
  <2>1. ASSUME NEW r \in new PROVE r \in Requests
    <3>1. PICK i \in 1 .. m : r = C!PackageOf(c, i)
      BY <1>4, <2>1
    <3>2. r \in [kind : {"package"}, category : Cats, at : Nat] /\ r.at \in DOMAIN PackagesOf[r.category]
      BY <1>1, <1>2, <3>1
    <3>3. QED
      BY <3>2 DEF Requests
  <2>2. QED
    BY <2>1
<1>8. \A r \in new : r.kind = "package" /\ r.category = c
  BY <1>2, <1>4
<1>9. ASSUME NEW n \in C!Range(PackagesOf[c]) PROVE \E r \in new : r.category = c /\ C!NameOf(r) = n
  <2>1. PICK i \in 1 .. m : PackagesOf[c][i] = n
    BY <1>1, <1>9 DEF C!Range
  <2>2. C!PackageOf(c, i) \in new
    BY <1>4
  <2>3. QED
    BY <1>2, <1>3, <2>1, <2>2
<1>10. QED
  BY <1>1, <1>6, <1>7, <1>8, <1>9 DEF m, new

\* The packages of a category are no longer behind its list, but asked for themselves.
LEMMA CategoryListKeeps ==
  ASSUME CatIInv, NEW c \in Cats, C!getPackagesFinished(c)
  PROVE  CatIInv'
<1> DEFINE new == {C!PackageOf(c, i) : i \in DOMAIN PackagesOf[c]}
<1>1. /\ C!ListOf(c) \in asked /\ asked' = (asked \ {C!ListOf(c)}) \cup new
      /\ catPkgList' = [catPkgList EXCEPT ![c] = PackagesOf[c]]
      /\ g_cate_number' = g_cate_number + Len(PackagesOf[c])
      /\ mixed' = (mixed \/ handled)
      /\ known' = known /\ g_categoryList' = g_categoryList
      /\ g_qjadePkgList' = g_qjadePkgList /\ stack' = stack /\ searched' = searched
      /\ g_cate_act_number' = g_cate_act_number
      /\ m_dataList' = m_dataList /\ handled' = handled /\ found' = found
      /\ failed' = failed /\ late' = late
  BY DEF C!getPackagesFinished, C!views
<1>2. /\ IsFiniteSet(new) /\ Cardinality(new) = Len(PackagesOf[c]) /\ Len(PackagesOf[c]) \in Nat
      /\ new \subseteq Requests
      /\ \A r \in new : r.kind = "package" /\ r.category = c
      /\ \A n \in C!Range(PackagesOf[c]) : \E r \in new : r.category = c /\ C!NameOf(r) = n
  BY NewRequests
<1> HIDE DEF new
<1>3. /\ asked \subseteq Requests /\ IsFiniteSet(Waiting) /\ g_cate_number \in Nat
      /\ g_cate_act_number \in Nat /\ stack \in Seq(Packages)
  BY DEF CatIInv, CatTypes
<1>4. /\ \A d \in Cats : C!ListOf(d) # C!Category /\ C!ListOf(d).kind = "list" /\ C!ListOf(d).category = d
      /\ C!Category.kind = "categories"
      /\ \A r \in Waiting : r.category \in Cats
  BY <1>3, RequestKinds
<1>5. g_categoryList = Categories /\ C!Category \notin asked
  BY <1>1, <1>4 DEF CatIInv, Opening
<1>6. /\ C!Category \notin asked'
      /\ C!ListOf(c) \notin asked'
      /\ \A d \in Cats : d # c => (C!ListOf(d) \in asked' <=> C!ListOf(d) \in asked)
  BY <1>1, <1>2, <1>4, <1>5
<1>7. Waiting' = Waiting \cup new
  BY <1>1, <1>2, <1>4 DEF Waiting
<1>8. \A r \in Waiting : r.category # c
  BY <1>1 DEF CatIInv, Coming
<1>9. Waiting \cap new = {}
  BY <1>2, <1>8
<1>10. IsFiniteSet(Waiting') /\ Cardinality(Waiting') = Cardinality(Waiting) + Len(PackagesOf[c])
  <2>1. /\ IsFiniteSet(Waiting \cup new)
        /\ Cardinality(Waiting \cup new) = Cardinality(Waiting) + Cardinality(new) - Cardinality(Waiting \cap new)
    BY <1>2, <1>3, FS_Union
  <2>2. Cardinality(Waiting \cap new) = 0
    BY <1>9, FS_EmptySet
  <2>3. Cardinality(Waiting) \in Nat
    BY <1>3, FS_CardinalityType
  <2>4. QED
    BY <1>2, <1>7, <2>1, <2>2, <2>3
<1>11. /\ catPkgList \in [Cats -> Seq(Packages)] /\ PackagesOf[c] \in Seq(Packages)
  BY CategoriesAre DEF CatIInv, CatTypes
<1>12. /\ catPkgList' \in [Cats -> Seq(Packages)] /\ catPkgList'[c] = PackagesOf[c]
       /\ \A d \in Cats : d # c => catPkgList'[d] = catPkgList[d]
  BY <1>1, <1>11
<1>13. CatTypes'
  <2>1. asked' \subseteq Requests
    BY <1>1, <1>2, <1>3
  <2>2. g_cate_number' \in Nat
    BY <1>1, <1>2, <1>3
  <2>3. mixed' \in BOOLEAN
    BY <1>1 DEF CatIInv, CatTypes
  <2>4. QED
    BY <1>1, <1>10, <1>12, <2>1, <2>2, <2>3 DEF CatIInv, CatTypes
<1>14. Opening'
  BY <1>1, <1>5, <1>6 DEF CatIInv, Opening
<1>15. Coming'
  <2>1. \A d \in Cats : catPkgList'[d] \in {<<>>, PackagesOf[d]}
    BY <1>12 DEF CatIInv, Coming
  <2>2. ASSUME NEW r \in Waiting'
        PROVE  C!ListOf(r.category) \notin asked' /\ catPkgList'[r.category] = PackagesOf[r.category]
    <3>1. CASE r \in new
      BY <1>2, <1>6, <1>12, <3>1
    <3>2. CASE r \in Waiting
      <4>1. r.category \in Cats /\ r.category # c
        BY <1>4, <1>8, <3>2
      <4>2. C!ListOf(r.category) \notin asked /\ catPkgList[r.category] = PackagesOf[r.category]
        BY <3>2 DEF CatIInv, Coming
      <4>3. QED
        BY <1>6, <1>12, <4>1, <4>2
    <3>3. QED
      BY <1>7, <2>2, <3>1, <3>2
  <2>3. failed' = 0 => \A d \in Cats : C!ListOf(d) \in asked' \/ catPkgList'[d] = PackagesOf[d]
    BY <1>1, <1>5, <1>6, <1>12 DEF CatIInv, Coming
  <2>4. QED
    BY <2>1, <2>2, <2>3 DEF Coming
<1>16. FromServer'
  BY <1>1 DEF CatIInv, FromServer, C!Names
<1>17. \A d \in Cats : \A x \in C!Range(PackagesOf[d]) : Pending(x, d) => Pending(x, d)'
  <2>1. ASSUME NEW d \in Cats, NEW x \in C!Range(PackagesOf[d]), Pending(x, d) PROVE Pending(x, d)'
    <3>1. CASE C!ListOf(d) \in asked /\ d = c
      <4>1. PICK r \in new : r.category = c /\ C!NameOf(r) = x
        BY <1>2, <3>1
      <4>2. r \in Waiting'
        BY <1>7
      <4>3. QED
        BY <3>1, <4>1, <4>2 DEF Pending
    <3>2. CASE C!ListOf(d) \in asked /\ d # c
      BY <1>6, <3>2 DEF Pending
    <3>3. CASE \E q \in Waiting : q.category = d /\ C!NameOf(q) = x
      BY <1>7, <3>3 DEF Pending
    <3>4. CASE \E i \in 1 .. Len(stack) : stack[i] = x
      BY <1>1, <3>4 DEF Pending
    <3>5. QED
      BY <2>1, <3>1, <3>2, <3>3, <3>4 DEF Pending
  <2>2. QED
    BY <2>1
<1>18. Delivered'
  <2>1. ASSUME failed' = 0, NEW d \in Cats, NEW x \in C!Range(PackagesOf[d])
        PROVE  Pending(x, d)' \/ (handled' /\ (late' \/ x \notin Known \/ x \in C!Names(g_qjadePkgList')))
    <3>1. Pending(x, d) \/ (handled /\ (late \/ x \notin Known \/ x \in C!Names(g_qjadePkgList)))
      BY <1>1, <1>5, <2>1 DEF CatIInv, Delivered
    <3>2. QED
      BY <1>1, <1>17, <3>1
  <2>2. QED
    BY <2>1 DEF Delivered, C!Names
<1>19. RightCategory'
  <2>1. ASSUME failed' = 0, NEW i \in DOMAIN g_qjadePkgList', NEW k \in DOMAIN Categories,
               NEW x, x = g_qjadePkgList'[i].name, First(x, k)
        PROVE  g_qjadePkgList'[i].category = Categories[k] \/ Pending(x, Categories[k])'
    <3>1. x = g_qjadePkgList[i].name /\ i \in DOMAIN g_qjadePkgList
      BY <1>1, <2>1
    <3>2. g_qjadePkgList[i].category = Categories[k] \/ Pending(x, Categories[k])
      BY <1>1, <2>1, <3>1 DEF CatIInv, RightCategory
    <3>3. x \in C!Range(PackagesOf[Categories[k]]) /\ Categories[k] \in Cats
      BY <2>1, CategoriesAre DEF First
    <3>4. QED
      BY <1>1, <1>17, <3>2, <3>3
  <2>2. QED
    BY <2>1 DEF RightCategory, First, Pending, Waiting
<1>20. Counted'
  <2>1. SUFFICES ASSUME failed' = 0, ~mixed'
                 PROVE  /\ ~handled' /\ m_dataList' = <<>>
                        /\ g_cate_number' = Cardinality(Waiting') + Len(stack') + g_cate_act_number'
    BY DEF Counted
  <2>2. failed = 0 /\ ~mixed /\ ~handled
    BY <1>1, <2>1
  <2>3. m_dataList = <<>> /\ g_cate_number = Cardinality(Waiting) + Len(stack) + g_cate_act_number
    BY <1>5, <2>2 DEF CatIInv, Counted
  <2>4. Cardinality(Waiting) \in Nat /\ Len(stack) \in Nat
    BY <1>3, FS_CardinalityType
  <2>5. QED
    BY <1>1, <1>2, <1>3, <1>10, <2>2, <2>3, <2>4
<1>21. C!ListedOnce' /\ C!SearchIsSorted'
  BY <1>1 DEF CatIInv, C!ListedOnce, C!SearchIsSorted, C!Range
<1>22. QED
  BY <1>13, <1>14, <1>15, <1>16, <1>18, <1>19, <1>20, <1>21 DEF CatIInv

\* A package's reply is handled, or waits on the stack.
LEMMA PackageKeeps ==
  ASSUME CatIInv, NEW r \in asked, C!getPackageFinished(r)
  PROVE  CatIInv'
<1> DEFINE n == C!NameOf(r)
<1>1. r \in Waiting /\ asked' = asked \ {r}
  BY DEF C!getPackageFinished, Waiting
<1>2. /\ r.kind = "package" /\ r.category \in Cats
      /\ n \in C!Range(PackagesOf[r.category])
      /\ n \in Packages /\ n \in C!Announced
  BY <1>1, RequestKinds DEF CatIInv, CatTypes
<1>3. g_categoryList = Categories /\ C!Category \notin asked
  <2>1. r # C!Category
    BY <1>2, RequestKinds DEF CatIInv, CatTypes
  <2>2. QED
    BY <2>1 DEF CatIInv, Opening
<1> HIDE DEF n
<1>4. CASE known # {}
  <2>1. C!Handle(n) /\ stack' = stack /\ late' = late
    BY <1>4 DEF C!getPackageFinished, n
  <2>2. Taken(n)
    BY <1>1, <2>1, RequestIsTaken DEF CatIInv, n
  <2>3. QED
    BY <1>2, <1>3, <1>4, <2>1, <2>2, HandleKeeps
<1>5. CASE known = {}
  <2>1. /\ stack' = Append(stack, n)
        /\ known' = known /\ g_categoryList' = g_categoryList /\ catPkgList' = catPkgList
        /\ g_qjadePkgList' = g_qjadePkgList /\ searched' = searched
        /\ g_cate_number' = g_cate_number /\ g_cate_act_number' = g_cate_act_number
        /\ m_dataList' = m_dataList /\ handled' = handled /\ mixed' = mixed /\ found' = found
        /\ failed' = failed /\ late' = late
    BY <1>5 DEF C!getPackageFinished, C!lists, C!counters, C!views, n
  <2>2. stack \in Seq(Packages) /\ IsFiniteSet(Waiting) /\ g_cate_act_number \in Nat /\ asked \subseteq Requests
    BY DEF CatIInv, CatTypes
  <2> DEFINE k == Len(stack)
  <2>3. /\ k \in Nat /\ stack' \in Seq(Packages) /\ Len(stack') = k + 1
        /\ \A i \in 1 .. k : stack'[i] = stack[i]
        /\ stack'[k + 1] = n
    BY <1>2, <2>1, <2>2, AppendProperties
  <2>4. \A i \in 1 .. k : stack[i] \in C!Announced
    BY DEF CatIInv, FromServer
  <2> HIDE DEF k
  <2>5. \A i \in 1 .. Len(stack') : stack'[i] \in C!Announced
    <3>1. ASSUME NEW i \in 1 .. k + 1 PROVE stack'[i] \in C!Announced
      <4>1. i \in 1 .. k \/ i = k + 1
        BY <2>3
      <4>2. QED
        BY <1>2, <2>3, <2>4, <4>1
    <3>2. QED
      BY <2>3, <3>1
  <2>6. Waiting' = Waiting \ {r}
    BY <1>1 DEF Waiting
  <2>7. /\ IsFiniteSet(Waiting') /\ Cardinality(Waiting') = Cardinality(Waiting) - 1
        /\ Cardinality(Waiting) \in Nat
    BY <1>1, <2>2, <2>6, FS_RemoveElement, FS_CardinalityType
  <2>8. /\ C!Category \notin asked'
        /\ \A d \in Cats : C!ListOf(d) \in asked' <=> C!ListOf(d) \in asked
    <3>1. \A d \in Cats : C!ListOf(d) # r
      BY <1>2, <2>2, RequestKinds
    <3>2. QED
      BY <1>1, <1>3, <3>1
  <2>9. CatTypes'
    BY <1>1, <2>1, <2>3, <2>7 DEF CatIInv, CatTypes
  <2>10. Opening'
    BY <1>3, <2>1, <2>8 DEF CatIInv, Opening
  <2>11. Coming'
    <3>1. \A q \in Waiting : q.category \in Cats
      BY <2>2, RequestKinds
    <3>2. QED
      BY <1>3, <2>1, <2>6, <2>8, <3>1 DEF CatIInv, Coming
  <2>12. FromServer'
    BY <2>1, <2>5 DEF CatIInv, FromServer, C!Names
  <2>13. \A x : \A d \in Cats : Pending(x, d) => Pending(x, d)'
    <3>1. ASSUME NEW x, NEW d \in Cats, Pending(x, d) PROVE Pending(x, d)'
      <4>1. CASE C!ListOf(d) \in asked
        BY <2>8, <4>1 DEF Pending
      <4>2. CASE \E q \in Waiting : q.category = d /\ C!NameOf(q) = x
        <5>1. PICK q \in Waiting : q.category = d /\ C!NameOf(q) = x
          BY <4>2
        <5>2. CASE q = r
          <6>1. k + 1 \in 1 .. Len(stack') /\ stack'[k + 1] = x
            BY <2>3, <5>1, <5>2 DEF n
          <6>2. QED
            BY <6>1 DEF Pending
        <5>3. CASE q # r
          <6>1. q \in Waiting'
            BY <2>6, <5>1, <5>3
          <6>2. QED
            BY <5>1, <6>1 DEF Pending
        <5>4. QED
          BY <5>2, <5>3
      <4>3. CASE \E i \in 1 .. k : stack[i] = x
        <5>1. PICK i \in 1 .. k : stack[i] = x
          BY <4>3
        <5>2. i \in 1 .. Len(stack') /\ stack'[i] = x
          BY <2>3, <5>1
        <5>3. QED
          BY <5>2 DEF Pending
      <4>4. QED
        BY <3>1, <4>1, <4>2, <4>3 DEF Pending, k
    <3>2. QED
      BY <3>1
  <2>14. Delivered'
    <3>1. ASSUME failed' = 0, NEW d \in Cats, NEW x \in C!Range(PackagesOf[d])
          PROVE  Pending(x, d)' \/ (handled' /\ (late' \/ x \notin Known \/ x \in C!Names(g_qjadePkgList')))
      <4>1. Pending(x, d) \/ (handled /\ (late \/ x \notin Known \/ x \in C!Names(g_qjadePkgList)))
        BY <1>3, <2>1, <3>1 DEF CatIInv, Delivered
      <4>2. QED
        BY <2>1, <2>13, <4>1
    <3>2. QED
      BY <3>1 DEF Delivered, C!Names
  <2>15. RightCategory'
    <3>1. ASSUME failed' = 0, NEW i \in DOMAIN g_qjadePkgList', NEW c \in DOMAIN Categories,
                 NEW x, x = g_qjadePkgList'[i].name, First(x, c)
          PROVE  g_qjadePkgList'[i].category = Categories[c] \/ Pending(x, Categories[c])'
      <4>1. x = g_qjadePkgList[i].name /\ i \in DOMAIN g_qjadePkgList
        BY <2>1, <3>1
      <4>2. g_qjadePkgList[i].category = Categories[c] \/ Pending(x, Categories[c])
        BY <2>1, <3>1, <4>1 DEF CatIInv, RightCategory
      <4>3. Categories[c] \in Cats
        BY CategoriesAre
      <4>4. QED
        BY <2>1, <2>13, <4>2, <4>3
    <3>2. QED
      BY <3>1 DEF RightCategory, First, Pending, Waiting
  <2>16. Counted'
    <3>1. SUFFICES ASSUME failed' = 0, ~mixed', handled' => \A d \in Cats : C!ListOf(d) \notin asked'
                   PROVE  /\ stack' # <<>> /\ m_dataList' = <<>>
                          /\ g_cate_number' = Cardinality(Waiting') + Len(stack') + g_cate_act_number'
      BY DEF Counted
    <3>2. failed = 0 /\ ~mixed /\ (handled => \A d \in Cats : C!ListOf(d) \notin asked) /\ Waiting # {}
      BY <1>1, <2>1, <2>8, <3>1
    <3>3. m_dataList = <<>> /\ g_cate_number = Cardinality(Waiting) + k + g_cate_act_number
      BY <1>3, <3>2 DEF CatIInv, Counted, k
    <3>4. stack' # <<>>
      <4>1. Len(stack') # 0
        BY <2>3
      <4>2. QED
        BY <4>1
    <3>5. g_cate_number' = Cardinality(Waiting') + Len(stack') + g_cate_act_number'
      BY <2>1, <2>2, <2>3, <2>7, <3>3
    <3>6. QED
      BY <2>1, <3>3, <3>4, <3>5
  <2>17. C!ListedOnce' /\ C!SearchIsSorted'
    BY <2>1 DEF CatIInv, C!ListedOnce, C!SearchIsSorted, C!Range
  <2>18. QED
    BY <2>9, <2>10, <2>11, <2>12, <2>14, <2>15, <2>16, <2>17 DEF CatIInv
<1>6. QED
  BY <1>4, <1>5

\* The innermost handler goes on.
LEMMA EventsKeep == CatIInv /\ C!ProcessEvents => CatIInv'
<1>1. SUFFICES ASSUME CatIInv, C!ProcessEvents PROVE CatIInv'
  OBVIOUS
<1> DEFINE n == C!Last(stack)
<1>2. /\ stack # <<>> /\ stack' = C!Front(stack) /\ C!Handle(n) /\ asked' = asked
      /\ late' = (late \/ known = {})
  BY <1>1 DEF C!ProcessEvents
<1>3. Taken(n) /\ n \in Packages /\ n \in C!Announced
  BY <1>1, <1>2, InnermostIsTaken DEF CatIInv
<1>4. g_categoryList = Categories /\ C!Category \notin asked
  BY <1>1, <1>2 DEF CatIInv, Opening
<1> HIDE DEF n
<1>5. (known = {} => late') /\ (late => late')
  BY <1>2
<1>6. QED
  BY <1>1, <1>2, <1>3, <1>4, <1>5, HandleKeeps

\* Together.
LEMMA CatalogueKeeps == CatIInv /\ [C!Next]_C!vars => CatIInv'
<1>1. SUFFICES ASSUME CatIInv, [C!Next]_C!vars PROVE CatIInv'
  OBVIOUS
<1>2. CASE C!Fail
  BY <1>1, <1>2, FailKeeps
<1>3. CASE C!finished
  BY <1>1, <1>3, FinishedKeeps
<1>4. CASE \E c \in Cats : C!getPackagesFinished(c)
  BY <1>1, <1>4, CategoryListKeeps
<1>5. CASE \E r \in asked : C!getPackageFinished(r)
  BY <1>1, <1>5, PackageKeeps
<1>6. CASE C!ProcessEvents
  BY <1>1, <1>6, EventsKeep
<1>7. CASE C!getAllPkgList
  BY <1>1, <1>7, DaemonListKeeps
<1>8. CASE \E reply \in C!Replies : C!Search(reply)
  BY <1>1, <1>8, SearchKeeps
<1>9. CASE UNCHANGED C!vars
  BY <1>1, <1>9, CatalogueStutters
<1>10. QED
  BY <1>1, <1>2, <1>3, <1>4, <1>5, <1>6, <1>7, <1>8, <1>9 DEF C!Next, Cats

\* When nothing is pending the invariant says what was asked.
LEMMA CatalogueTells == CatIInv => CatalogueInv
<1>1. SUFFICES ASSUME CatIInv PROVE CatalogueInv
  OBVIOUS
<1>2. Known \subseteq Known /\ C!Names(g_qjadePkgList) \subseteq known /\ C!Names(g_qjadePkgList) \subseteq C!Announced
      /\ known \in {{}, Known} /\ g_qjadePkgList \in Seq(C!Entries)
  BY <1>1 DEF CatIInv, CatTypes, FromServer
<1>3. C!TypeOK
  BY <1>1, <1>2 DEF CatIInv, CatTypes, Coming, Waiting, C!TypeOK
<1>4. ASSUME asked = {}, stack = <<>>
      PROVE  /\ C!Category \notin asked /\ Waiting = {}
             /\ \A x : \A c \in Cats : ~ Pending(x, c)
  <2>1. Waiting = {} /\ C!Category \notin asked
    BY <1>4 DEF Waiting
  <2>2. 1 .. Len(stack) = {}
    BY <1>4
  <2>3. QED
    BY <1>4, <2>1, <2>2 DEF Pending
<1>5. C!OrderDoesNotMatter
  <2>1. SUFFICES ASSUME asked = {}, stack = <<>>, failed = 0, ~late
                 PROVE  /\ C!Names(g_qjadePkgList) = C!Announced \cap Known
                        /\ \A i \in DOMAIN g_qjadePkgList, k \in DOMAIN Categories :
                             First(g_qjadePkgList[i].name, k) => g_qjadePkgList[i].category = Categories[k]
    BY DEF C!OrderDoesNotMatter, C!Answered, First
  <2>2. \A c \in Cats : \A x \in C!Range(PackagesOf[c]) : x \notin Known \/ x \in C!Names(g_qjadePkgList)
    BY <1>1, <1>4, <2>1 DEF CatIInv, Delivered
  <2>3. \A x \in C!Announced : \E c \in Cats : x \in C!Range(PackagesOf[c])
    BY DEF C!Announced, Cats
  <2>4. C!Names(g_qjadePkgList) = C!Announced \cap Known
    BY <1>2, <2>2, <2>3
  <2>5. ASSUME NEW i \in DOMAIN g_qjadePkgList, NEW k \in DOMAIN Categories, First(g_qjadePkgList[i].name, k)
        PROVE  g_qjadePkgList[i].category = Categories[k]
    <3>1. Categories[k] \in Cats
      BY CategoriesAre
    <3>2. QED
      BY <1>1, <1>4, <2>1, <2>5, <3>1 DEF CatIInv, RightCategory
  <2>6. QED
    BY <2>4, <2>5
<1>6. C!NumbersAreWhole
  <2>1. SUFFICES ASSUME asked = {}, stack = <<>>, failed = 0, ~mixed, C!Announced # {}
                 PROVE  /\ m_dataList = <<C!useCacheFinished(g_qjadePkgList)>>
                        /\ \A c \in Cats : m_dataList[1].of[c] = C!Cardinality(C!setCategory(c))
    BY DEF C!NumbersAreWhole, C!Answered, Cats
  <2>2. handled
    <3>1. PICK c \in Cats : \E x : x \in C!Range(PackagesOf[c])
      BY <2>1 DEF C!Announced, Cats
    <3>2. QED
      BY <1>1, <1>4, <2>1, <3>1 DEF CatIInv, Delivered
  <2>3. m_dataList = <<Numbers(g_qjadePkgList)>>
    BY <1>1, <1>4, <2>1, <2>2 DEF CatIInv, Counted
  <2>4. C!useCacheFinished(g_qjadePkgList) = Numbers(g_qjadePkgList)
    BY <1>2, NumbersIs
  <2>5. \A c \in Cats : Numbers(g_qjadePkgList).of[c] = C!Cardinality(C!setCategory(c))
    BY <1>1, <1>2, RowsAre DEF CatIInv
  <2>6. m_dataList[1] = Numbers(g_qjadePkgList)
    BY <2>3
  <2>7. QED
    BY <2>3, <2>4, <2>5, <2>6
<1>7. QED
  BY <1>1, <1>3, <1>5, <1>6 DEF CatIInv, CatalogueInv, C!CatalogueInv

\* Whatever the order of the replies and however the handlers are nested, the catalogue
\* comes out the same: the names that the server and the daemon have, each once and under
\* its first category, and numbers that are those of the whole list
\* (categorymodel.cpp).
THEOREM CatalogueIsWhole == C!Spec => []CatalogueInv
<1>1. C!Init => CatIInv
  BY CatalogueStarts
<1>2. CatIInv /\ [C!Next]_C!vars => CatIInv'
  BY CatalogueKeeps
<1>3. CatIInv => CatalogueInv
  BY CatalogueTells
<1>4. QED
  BY <1>1, <1>2, <1>3, PTL DEF C!Spec
=============================================================================
