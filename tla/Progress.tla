-------------------------------- MODULE Progress --------------------------------
(***************************************************************************)
(* What the clients are told of a job while it runs: the reports of curl   *)
(* (src/download.cpp) and of rpm (src/rpmpm.cpp) go through one function   *)
(* of the daemon (rpm_progress_handle, src/daemon.cpp) and become signals, *)
(* which qjade shows as a bar (percentChged, qjade/src/jadedbus.cpp) and   *)
(* the console client as lines (console/main.cpp).                         *)
(*                                                                         *)
(* A report is a fraction, here in hundredths.  Without a total it is 100  *)
(* (10000 here) for rpm and 0/0 (NaN) for curl; 110 (11000) says that the  *)
(* transaction has failed.  The console client makes one call and quits at *)
(* the first Finished, whoever's.  A worker may end the process after an   *)
(* installation, and what it sent last may then be lost.                   *)
(***************************************************************************)
EXTENDS Integers, Sequences

CONSTANTS
  File,       \* rpm files
  NoFile,     \* the file name of reports on the transaction as a whole
  Package, NoName,
  MaxJobs,    \* bounds: calls the daemon accepts, refused calls and wire
  MaxRefused,
  MaxWire

ConstantsOK ==
  /\ NoFile \notin File /\ NoName \notin Package
  /\ MaxJobs \in Nat /\ MaxRefused \in Nat /\ MaxWire \in Nat

VARIABLES
  job,      \* the worker that holds the mutex
  fd,       \* references to the file that rpmShowProgress() has open
  wire,     \* signals on their way
  console,  \* the console client: off, waits, quit
  called,   \* its call has been dispatched
  g_fileName, g_finished,
  bar,      \* the package under which qjade last showed a percentage
  doing,    \* g_doingPkgName: qjade runs this task, or none, all the while
  jobs, refused,
  alarms,           \* history: Error signals sent, less transactions that failed
  served, foreign,  \* history: the console's job has ended; since it connected
                    \* another Finished was sent than that of its job
  lost,             \* history: a Finished was lost
  full, firstFull   \* history: of the reports on g_fileName since another was
                    \* reported on, how many were printed full; the first was

clients == <<console, called, g_fileName, g_finished, bar, doing>>
bounds == <<jobs, refused>>
history == <<alarms, served, foreign, lost, full, firstFull>>
vars == <<job, fd, wire, clients, bounds, history>>

NaN == -1            \* (int) NaN is the least of all integers
Over == 10000
Failed == 11000

\* The file of a report whose file makes no difference.
AFile == CHOOSE f \in File : TRUE

NoJob == [owner |-> "none", pc |-> "idle"]

Init ==
  /\ job = NoJob /\ fd = 0 /\ wire = <<>>
  /\ console = "off" /\ called = FALSE
  /\ g_fileName = NoFile /\ g_finished = FALSE
  /\ bar = NoName
  /\ doing \in Package \cup {NoName}
  /\ jobs = 0 /\ refused = 0
  /\ alarms = 0
  /\ served = FALSE /\ foreign = FALSE /\ lost = FALSE
  /\ full = 0 /\ firstFull = FALSE

Send(s) == Len(wire) < MaxWire /\ wire' = Append(wire, s)

Finished(status) == [kind |-> "finished", status |-> status]
Percent(status, file, p) == [kind |-> "percent", status |-> status, file |-> file, percent |-> p]

-----------------------------------------------------------------------------

\* Mutant: a total of nothing is near enough to the failure.
rpm_progress_handle_Wide(p, file, status) ==
  IF p > 1000
    THEN [kind |-> "error"] ELSE Percent(status, file, p)

\* A report becomes a signal: 110, give or take 0.9, an Error.
rpm_progress_handle(p, file, status) ==
  IF p \in (Failed - 89) .. (Failed + 89)
    THEN [kind |-> "error"] ELSE Percent(status, file, p)

Goes(from, to) == job.pc = from /\ job' = [job EXCEPT !.pc = to]

\* It is sent; the report may be that of a transaction that has failed.
Tell(p, file, status, failed) ==
  LET s == rpm_progress_handle(p, file, status)
  IN /\ Send(s)
     /\ alarms' = alarms + (IF s.kind = "error" THEN 1 ELSE 0) - (IF failed THEN 1 ELSE 0)
     /\ UNCHANGED <<fd, clients, bounds, served, foreign, lost, full, firstFull>>

Quiet == UNCHANGED <<wire, clients, bounds, history>>

\* A call of the console client, which has connected, or of someone else.  A
\* call is accepted, or refused with a Finished of its own.
Call(owner) ==
  /\ owner = "console" => console # "off" /\ ~called
  /\ called' = (called \/ owner = "console")
  /\ IF job = NoJob
       THEN /\ jobs < MaxJobs /\ jobs' = jobs + 1
            /\ job' = [owner |-> owner, pc |-> "checkDB"]
            /\ UNCHANGED <<wire, refused, foreign>>
       ELSE /\ refused < MaxRefused /\ refused' = refused + 1
            /\ Send(Finished("INSTALLED"))
            /\ foreign' = (foreign \/ console # "off")
            /\ UNCHANGED <<job, jobs>>
  /\ UNCHANGED <<fd, console, g_fileName, g_finished, bar, doing,
                 alarms, served, lost, full, firstFull>>

\* checkDB(): an old table is updated, and a Finished is sent for it.
checkDB ==
  /\ Goes("checkDB", "fetch")
  /\ \/ UNCHANGED <<wire, foreign>>
     \/ Send(Finished("UPDATED")) /\ foreign' = (foreign \/ console # "off")
  /\ UNCHANGED <<fd, clients, bounds, alarms, served, lost, full, firstFull>>

\* Nothing is to be done: a report of no progress, or an error's signal that
\* only prints.
NothingToDo ==
  /\ Goes("fetch", "end")
  /\ \/ Tell(0, AFile, "INSTALLED", FALSE)
     \/ UNCHANGED fd /\ Quiet

\* progress_func() of one of the job's files: dltotal is 0 at first, and what
\* an earlier download left counts as loaded.
progress_func ==
  /\ job.pc = "fetch" /\ UNCHANGED job
  /\ \E f \in File, p \in {NaN, 0, 100} : Tell(p, f, "DOWNLOAD", FALSE)

Transaction ==
  /\ Goes("fetch", "rpm")
  /\ UNCHANGED fd /\ Quiet

\* TRANS_PROGRESS: without a header, and so without a name.
TransProgress ==
  /\ job.pc = "rpm" /\ UNCHANGED job
  /\ \E p \in {0, 100, Over} : Tell(p, NoFile, "UNKNOWN", FALSE)

\* INST_OPEN_FILE: the file is opened and a second reference taken, or it
\* cannot be opened.
InstOpenFile ==
  /\ \/ Goes("rpm", "package") /\ fd' = 2
     \/ Goes("rpm", "rpm") /\ fd' = 0
  /\ Quiet

\* INST_PROGRESS, and UNINST_PROGRESS, which the clients treat alike.
InstProgress ==
  /\ job.pc = "package" /\ UNCHANGED job
  /\ \E p \in {0, 100, Over} : Tell(p, AFile, "INSTALL", FALSE)

\* INST_CLOSE_FILE: fdFree() gives up one reference, Fclose() the other.
InstCloseFile ==
  /\ Goes("package", "rpm")
  /\ fd' = LET left == fd - 1 IN IF left > 0 THEN left - 1 ELSE left
  /\ Quiet

\* The transaction ends; an upgrade may go on with another.
rpmInstall ==
  \/ /\ Goes("rpm", "end")
     /\ UNCHANGED fd /\ Quiet
  \/ /\ Goes("rpm", "fetch")
     /\ UNCHANGED fd /\ Quiet
  \/ /\ Goes("rpm", "end")
     /\ Tell(Failed, NoFile, "INSTALL", TRUE)

\* Finished, and the mutex is free; or the process ends, and the signals that
\* are not written yet are lost.
EndJob ==
  /\ job.pc = "end" /\ job' = NoJob
  /\ served' = (served \/ job.owner = "console")
  /\ foreign' = (foreign \/ (job.owner # "console" /\ console # "off"))
  /\ \/ Send(Finished("INSTALLED")) /\ UNCHANGED lost
     \/ UNCHANGED wire /\ lost' = (console # "off")
  /\ UNCHANGED <<fd, clients, bounds, alarms, full, firstFull>>

-----------------------------------------------------------------------------

\* The console client connects to the signals.
Connect ==
  /\ console = "off" /\ console' = "waits"
  /\ wire = <<>>
  /\ foreign' = FALSE /\ lost' = FALSE
  /\ UNCHANGED <<job, fd, wire, called, g_fileName, g_finished, bar, doing, bounds,
                 alarms, served, full, firstFull>>

\* What a file's name says before its first dash: a package's, or another's.
Section(file) == IF file = NoFile THEN {NoName} ELSE Package

\* percentChged(): the task's bar, or that of the package the file names.
percentChged(s) ==
  IF s.status \in {"INSTALLED", "REMOVED"}
    THEN UNCHANGED bar
    ELSE bar' \in IF doing = NoName THEN Section(s.file) ELSE {doing}

\* What the console prints of a report, and that it did.
Line(file, p) ==
  /\ full' = (IF file = g_fileName THEN full ELSE 0) + (IF p = 100 THEN 1 ELSE 0)
  /\ firstFull' = (IF file = g_fileName THEN firstFull ELSE p = 100)

\* Reports of neither INSTALL nor REMOVE: out of range they are dropped, and
\* so is the second that is full of the file that was reported on before.
Report(file, p) ==
  LET again == g_fileName = file /\ p = 100
  IN IF p \notin 0 .. 100 \/ (again /\ g_finished)
       THEN UNCHANGED <<g_fileName, g_finished, full, firstFull>>
       ELSE /\ g_finished' = (again \/ (g_finished /\ (g_fileName \in {file, NoFile})))
            /\ g_fileName' = file
            /\ Line(file, p)

\* Mutant: the client also quits when a file is full.
Hear_Full(s) ==
  /\ console' = IF s.kind = "finished" \/ (s.kind = "percent" /\ s.percent = 100)
                  THEN "quit" ELSE console
  /\ IF s.kind = "percent" /\ s.status \in {"DOWNLOAD", "UNKNOWN"}
       THEN Report(s.file, s.percent)
       ELSE UNCHANGED <<g_fileName, g_finished, full, firstFull>>

\* The console client's handlers.
Hear(s) ==
  /\ console' = IF s.kind = "finished" THEN "quit" ELSE console
  /\ IF s.kind = "percent" /\ s.status \in {"DOWNLOAD", "UNKNOWN"}
       THEN Report(s.file, s.percent)
       ELSE UNCHANGED <<g_fileName, g_finished, full, firstFull>>

\* A signal reaches both clients.
Deliver ==
  /\ wire # <<>> /\ wire' = Tail(wire)
  /\ LET s == Head(wire)
     IN /\ IF s.kind = "percent" THEN percentChged(s) ELSE UNCHANGED bar
        /\ IF console = "waits" THEN Hear(s)
           ELSE UNCHANGED <<console, g_fileName, g_finished, full, firstFull>>
  /\ UNCHANGED <<job, fd, called, doing, bounds, alarms, served, foreign, lost>>

Next ==
  \/ \E owner \in {"console", "other"} : Call(owner)
  \/ checkDB \/ NothingToDo \/ progress_func \/ Transaction
  \/ TransProgress \/ InstOpenFile \/ InstProgress \/ InstCloseFile \/ rpmInstall \/ EndJob
  \/ Connect \/ Deliver

Spec == Init /\ [][Next]_vars

-----------------------------------------------------------------------------

TypeOK ==
  /\ job.owner \in {"none", "console", "other"}
  /\ job.pc \in {"idle", "checkDB", "fetch", "rpm", "package", "end"}
  /\ fd \in 0 .. 2 /\ Len(wire) <= MaxWire
  /\ console \in {"off", "waits", "quit"}
  /\ g_fileName \in File \cup {NoFile}
  /\ {bar, doing} \subseteq Package \cup {NoName}

\* An Error says that a transaction has failed, once for each, and no report
\* of a progress is taken for one, though both come as one number.
AlarmsAreFailures == alarms = 0

\* The file that rpm reads through rpmShowProgress() is closed, with both of
\* its references, before another package's turn.
FileIsClosed == job.pc # "package" => fd = 0

\* The console client quits when its job has ended, unless someone else's
\* signal, or that of the table's update, came first; and it does quit, unless
\* the signal went down with the process.
ConsoleQuitsInTime ==
  /\ console = "quit" => served \/ foreign
  /\ console = "waits" /\ served /\ wire = <<>> => lost

\* However often curl says so, a file is printed as complete once; twice if
\* the first thing that was heard of it was that.
FullOnce == full <= (IF firstFull THEN 2 ELSE 1)

\* A report is taken for what it is, and what belongs to it ends with it.
ReportsInv == TypeOK /\ AlarmsAreFailures /\ FileIsClosed /\ FullOnce
=============================================================================
