# isoftapp: a verification project

isoftapp is the application store of iSOFT Linux: a daemon that installs,
removes and upgrades rpm packages for any client on the system bus, and its
clients, of which the Qt application store *qjade* is the largest.  This
directory holds TLA+ models of the parts in which something can go wrong that a
test would hardly reach, the TLC configurations that check them on small
instances, and theorems about all but the liveness properties with proofs that TLAPS checks.
Everything is translated from the C++ sources; PROJECT.json maps every
definition to its lines.

Contents: [the system](#the-system), [modules](#modules), [runs](#runs),
[fairness](#fairness), [proofs](#proofs), [what disagrees with the
documentation](#disagreements), [what is not modelled](#not-modelled),
[plan](#plan).

## The system

| component | sources | state | operations |
|---|---|---|---|
| qjade task queue | `qjade/src/jadedbus.cpp` | `m_taskQueue`, `g_doingPkgName`, `AllPkgList` | install, uninstall, update, cancel; getFinished, listChged, getAllPkgList; runTaskTimeOut |
| qjade bus adapter: lists, icons, settings | same, `iconmodel.cpp` | `AllPkgList`, `m_updateInfo`, `g_offline`, the polling counters | getUpdates, getPkgListTimeOut, getIconTimeOut, the handlers of the daemon's signals |
| daemon: methods, workers, mutex | `src/daemon.cpp` | `priv->arg`, `priv->nodep`, `priv->lock`, `g_installed_num` | one handler and one `*_routine` per method, the update timer, nm_signal, exit |
| daemon: settings, icons, cleaning | same, `src/isoftapp.cpp` | `g_rpmPathMode`, `rpmpathmode.cfg`, the rpm files, the icon directory | SetPathMode, GetPathMode, delete_rpm_files, GetIcons, GetDesktopName |
| engine | `src/isoftapp.cpp`, `src/rpmpm.cpp` | the global package lists, `pkgcache.db`, the rpm database, downloaded files | install, remove, upgrade and their recursion |
| package cache | `src/isoftapp.cpp` | list files, `pkgcache.db`, the timestamp | needUpdate, update, downloaded_source |
| search, listing, check | `src/isoftapp.cpp` | `g_db`, the cached list of installed packages, the lists of what is checked | Search, ListAll, ListUpdate, ListInstalled, ListUninstalled, Check |
| version comparison | `src/isoftapp.cpp` | none | compareVersion, realUpgrade, listUpdate |
| downloader | `src/download.cpp` | `<file>.st`, `<file>`, `resume_from` | download_routine |
| rpm wrapper, reports of progress | `src/rpmpm.cpp`, `src/download.cpp`, `src/daemon.cpp` | rpm's open file, the last file printed | rpmShowProgress, curl's callback, rpm_progress_handle |
| console client | `console/main.cpp` | what it has printed | one call, and the signals it waits for |
| qjade models and views | `qjade/src/categorymodel.cpp`, `packagebycategorymodel.cpp`, `mypkgmodel.cpp`, `searchmodel.cpp` | `g_qjadePkgList`, the numbers of the categories, the rows | the handlers of the web server's replies, search |
| single instance guard | `qjade/src/runguard.cpp` | a shared memory segment, a semaphore | tryToRun, release |
| runner, tray | `krunner`, `systray` | none | see [not modelled](#not-modelled) |
| repository tools, checksums, apt's support code | `src/gen*.cpp`, `md5.cpp`, `error.cpp`, ... | files | sequential tools |

**How they interact.**  Clients call methods on the system bus.  A handler
stores its argument in one field of the daemon and starts a thread; the method
returns at once and has no result.  The thread tries the mutex, brings the
package cache up to date, reads the field, and runs the engine, which uses the
downloader and rpm.  What has happened is told in signals that every client
receives; only `Finished(name, status)` changes a client's state.  The engine,
the cache and the downloader keep their state in globals and files, so the mutex
is all that keeps two workers apart; NetworkManager's signal makes the *main
loop* run the cache update as well, without the mutex.  After enough installed
packages a worker ends the process; the bus starts it again for the next call.

**What is hard, and what correctness means there.**

* *Task queue.*  The client never gets an answer, only broadcasts, which several
  `JadedBus` objects of one process handle on one global queue.  Correct: only
  the head runs, a broadcast ends one task at most and only the one it names,
  the bus is asked for nothing but the running task.
* *Daemon.*  One argument field for many workers; a refusal is broadcast to
  everyone; an exit in the middle of other workers.  Correct: one worker in the
  engine, each one serving its own call unless a later call has overwritten it,
  a refusal that nobody can take for success, no call left hanging, a mutex that
  is always given back.
* *Both together.*  Calls and signals are lost by exits, a timer repeats calls.
  Correct: a task ends because its own call was executed, and every task ends.
* *Engine.*  Circular requirements, virtual capabilities, partial transactions,
  failing downloads, kills.  Correct: the lists are closed under the
  requirements, but for names that packages bear, and minimal, only verified files reach rpm, the table never
  claims too much, a refresh repairs it, a job ends.
* *Package cache.*  Two updates at once over the same files, replacement of the
  database under an open update, in two calls anything can come between, today's
  timestamp after a failed update.  Correct: no stale rows, none lost for good, a
  table without rows is due at once, the table catches up.
* *Downloader.*  Resuming after a kill, a static shared by threads, results
  ignored.  Correct: an undisturbed download leaves the complete file; only a
  kill leaves something to resume.
* *Settings and cleaning.*  The path is written byte by byte under a worker that
  reads it; a weekly cleaning removes files an installation may need.  Correct:
  what is handed to rpm is there until rpm has read it, nothing goes that is not
  due, and what the daemon has answered survives a restart if it was saved.
* *Queries and check.*  One database handle for the worker and the main loop, a
  list that is a second old, what has been checked kept in global lists for all
  packages.  Correct: an undisturbed answer is what the table has, and a check
  tells the truth and leaves nothing to the next.
* *qjade's lists.*  Whole lists and patches by signals, failures told as
  successes, names that hold other names.  Correct: what is shown is so once
  everything has arrived, except for the causes the properties name.
* *Icons.*  Results ignored, and a worker that closes descriptors under the main
  loop.  Correct: an icon's record is empty only for one of those causes.
* *Reports and the console.*  Failure and progress in one number, 0/0, a client
  that takes any Finished for its own.  Correct: no report is taken for another, a
  file is closed before the next, the client quits in time.
* *Catalogue.*  Replies in any order, handlers within handlers, errors.  Correct:
  what comes out does not depend on the order.
* *Versions.*  Text comparison of numbers.  Correct: agrees with rpm.
* *Single instance.*  Start races and segments of dead processes.  Correct: one
  instance, and not none.

PROJECT.json lists these hazards one by one at their lines, with the
properties that cover each, what they leave out of it, or the reason why none does.

## Modules

| module | models | refines, composes |
|---|---|---|
| `SerialQueue` | what the client's queue promises: a serial, first come first served queue | |
| `JadeTaskQueue` | the client's queue | implements `SerialQueue` |
| `Daemon` | methods, workers, mutex, exits | |
| `AppStore` | client, bus and daemon | composes `JadeTaskQueue` and `Daemon` |
| `PackageEngine` | install, remove, upgrade and refreshes | |
| `PkgCache` | needUpdate, update, downloaded_source | |
| `Download` | download_routine | |
| `Settings` | SetPathMode, the directory of the rpm files and their cleaning | |
| `Queries` | search, lists, check, GetDesktopName | |
| `UpgradeCheck` | compareVersion and its use | |
| `StoreLists` | qjade's list of packages and list of updates | |
| `Icons` | GetIcons and its polling | |
| `Progress` | the reports of a job, and the console client | |
| `Catalogue` | qjade's catalogue, its numbers and searches | |
| `RunGuard` | the single instance guard | |
| `Clients` | gives `Progress`, `Icons` and `Catalogue` their variables | instantiates the three |
| `Tables` | gives `UpgradeCheck`, `Queries` and `StoreLists` theirs | instantiates the three |
| `JadeTaskQueueProofs`, `DaemonProofs`, `AppStoreProofs`, `PackageEngineProofs`, `DownloadProofs` | theorems about the module of the name | |
| `PkgCacheProofs` | theorems about `PkgCache`, `UpgradeCheck` and `Queries` | |
| `SettingsProofs` | theorems about `Settings` and `StoreLists` | |
| `ClientsProofs` | theorems about `RunGuard`, `Icons`, `Progress` and `Catalogue` | |
| `MC*` | values of the constants, initial states; `MCSettings` and `MCRunGuard` check several modules side by side | |

A definition that begins with the name of another and an underscore, under a
comment that starts with "Mutant", is that definition with a plausible bug.  No
specification uses it; PROJECT.json pairs each with the property that finds it.

**JadeTaskQueue.**  `taskQueue`, `doingPkg` and `pkgStatus` are `m_taskQueue`,
`g_doingPkgName` and the status column of `AllPkgList`.  Everything runs on the
interface's thread, so an action is a slot; a broadcast, however, runs
`getFinished` once in every `JadedBus` object, with nothing else in between:
`Deliver` puts it in `delivery` and one `GetFinished` step follows per object.
`calls` holds the asynchronous calls between `m_runTask` and the daemon.

**Daemon.**  A worker is a record with a program counter: `spawned` (before the
trylock), `checking` and `updating` (checkDB), `ready` (before it reads
`priv->arg`), `working` (in the engine), `done` (before it sends Finished),
`unlocking`.  Steps that touch shared state are separate, so that calls, other
workers and exits come between any two of them.  `asked` and `alone` are
history: the argument of the worker's own call, and whether a later call has
stored one since.  The engine appears as what it may leave behind (`Outcome`).

**AppStore.**  Instances of both over shared variables.  `wire` carries the
Finished signals.  An `Exit` loses any number of the oldest calls routed to the
process and perhaps the last signal.  `served` and `retried` are history: the
engine has executed the running task's own call, and the timer has repeated
one.  The 20 s of the timer are long next to the bus: `Retry` is taken when
nothing is in flight, which still leaves the daemon busy with the call.

**PackageEngine.**  The table is the set `Listed` of its rows and the set
`marked` of those whose Status is 1; the recursion of doInstall and doRemove is
a set of calls still to be made, taken in any order, since the order does not
change the lists.  The recursion asks for the providers of a capability, and for those
who require it, in the order of the rows (`Place`).  The code looks there for the
capability's own name where it means the row's (`isoftapp.cpp:1024`, `1237`), so
once the package of that name is on the list nobody is added after it (`Upto`).
An installation of something that requires the name of a package takes that
package and the providers with earlier rows; a removal misses the dependants behind
a package that requires its own name, which the comment above
the procedure (`isoftapp.cpp:1199`) does not have in mind.  InstallClosed and RemoveClosed
except exactly that.  rpm is external: a transaction is refused as a whole
(`CanInstall`, `CanErase`) or may fail package by package.  `Refresh`,
`RefreshRow` and `Refreshed` are the update of the table: the list of installed
packages is read before the rows are written.

**PkgCache.**  Two threads, `worker` and `loop`, go through `update()` line by
line.  A row is the version of the list it was written from.  `pkgcache.db` is a
*hard link* of its template: `rows` is what the template's file holds, and `path`
what pkgcache.db is, that link, an old table, an empty file or nothing.  unlink() and
link() are steps of their own (`Unlink`, `Link`), and so is the sqlite3_open() that
follows and makes an empty file where there is none (`Reopen`); a kill, the
other thread, or a query's own sqlite3_open() (`Query`) may come between any two, and
then link() fails, which nobody looks at.  Whatever error sqlite reports, a table
that the other thread has locked among them (`Busy`), makes a good
table an old one (`Open`).  Rows that are not seen for such a reason are still in the
template; `Visible` is what pkgcache.db shows.  A thread that still writes into
a file whose name is gone gives its list up (`Abandon`): SQLite refuses such a write.
`crossed` is history: the main loop has taken part in the updates that run
together.

**Download.**  Contents are sequences of chunks that know version and place.
Threads keep writing to a file they have open under whatever name it has by
then.

**Settings.**  `g_rpmPathMode` is written in steps (path, mode, file) while the
job copies a path from it for every file and the cleaner for every name; a
path in the middle of being written is `Torn`, a directory that is not there.
`disk` is what each directory has of each file: fresh, old, bad or nothing.
`changed` and `unsaved` are history: the global has changed under the job, and has
not reached its file.

**Queries.**  A worker's query is a record with a program counter and what it has
still to read; `ask` is GetDesktopName on the main loop.  Both open and close
`g_db`.  Names are numbers in the order in which the code sorts them, texts are
the sets of names that hold them.  `disturbed` is history: another has closed the
handle under the query, or rpm was run by hand.

**StoreLists.**  `AllPkgList`, `m_updateInfo`, `g_offline` and `m_updateList`
under the answers to ListAll and ListUpdate and the Finished signals between
them.  The task queue is reduced to the task that runs, the daemon to its argument
and the worker with the mutex; signals arrive in order.  `gone` and `untold` are
history: names whose packages changed without a signal that says so since the
last whole list.  They make the exceptions of `OfferedAreOutdated` and `RowsInv`
exact: brought along by another package, failed and told as done, told under
another name.

**Icons.**  One action per step of GetIcons (download, open, write, close) and
the timer that repeats it; a worker's end closes the descriptors from 7 to 1999
or ends the process in between.  `cut` is history: a record was opened and not
written.

**Progress.**  A transaction reports on each package and on itself; one function
turns fractions into signals, and 110 into an Error.  `fd` counts the references
to the file that rpm reads.  The console prints, and quits at the first Finished.

**Catalogue.**  `asked` holds the requests without an answer; a reply may be an
error; `stack` holds the handlers that wait in an event loop of their own, the
innermost of which goes on first.

**UpgradeCheck.**  compareVersion on the character codes of the texts the code
builds; rpm's order on the numbers as the reference.

**RunGuard.**  One action per critical section of the semaphore.  A segment
outlives a process that is killed; the kernel gives its semaphore back.

## Runs

Twelve runs.  Each ends without an error, or, for the four whose `expect` is
"violation", with the counterexample described under
[disagreements](#disagreements).

| run | instance | shows |
|---|---|---|
| `jade_task_queue` | 3 packages, 2 `JadedBus` objects, 1 call in flight | QueueInv, OneTaskPerSignal, LeavesProperly, CallsServeHead, ImplementsSerialQueue |
| `daemon` | 2 threads, 1 package, exit after the second handled package | OneWorker, ArgsInv, RefusalIsAnonymous, EveryCallEnds |
| `daemon_asks` | 2 threads, 2 packages | violates InstallsOnlyWhatInstallAsks |
| `app_store` | 2 packages, 2 threads, 2 inputs, exits | TaskServedUnlessRetried, RunningTaskEnds |
| `app_store_retry` | 1 package, two operations | violates TaskServed |
| `engine` | 4 packages, 2 extra capabilities, failures and kills | TableInv, InstallClosed, RemoveClosed, OnlyWhatIsNeeded, FilesVerified, JobEnds |
| `engine_erase` | the same, nothing fails | violates SearchTellsStatus |
| `download` | 2 threads, 2 chunks, 2 versions, 2 kills | DownloadInv, LeavesNoSt |
| `settings` | `Settings` with 2 files, 2 directories, 4 settings; `UpgradeCheck` with numbers of one digit; `Queries` with 2 packages, 3 texts; `StoreLists` with 2 packages | AnswerIsUsed, HandedOverInv, OnlyDueGo; AgreesWithRpm; AnswersInv, ChecksInv; OfferedAreOutdated, OutdatedStayOffered, RowsInv |
| `upgrade_missed` | numbers of up to three digits | violates FindsNewer |
| `run_guard` | `RunGuard` with 3 processes, 2 starts each, kills; `Progress` with 2 files, 2 jobs; `Icons` with 2 packages; `Catalogue` with 2 categories, 3 packages | GuardInv, SomeoneRuns; ReportsInv, ConsoleQuitsInTime; IconsInv; CatalogueInv |
| `pkg_cache` | 2 list versions, 2 days, 1 connection, 1 query, 1 kill | CacheInv, RowsStay, TableCatchesUp |

`settings` and `run_guard` check four modules each: `Settings` and those of
`Tables`, `RunGuard` and those of `Clients`.  These share no state: each
initial state chooses one module, which alone takes steps, so the run is the sum
of what would be one run for each.  Models that are independent say nothing new
when they are interleaved, and cost their product.

Some properties are conjunctions of named parts, each with a comment of its own:
QueueInv (OnlyHeadRuns, NamesUnique, DoingPkgIsHead), ArgsInv (ServesItsCall,
ArgGiven), TableInv (MarkedAreInstalled, RefreshRepairs), DownloadInv,
CacheInv, HandedOverInv, AnswersInv, ChecksInv, RowsInv, ReportsInv, IconsInv,
CatalogueInv and GuardInv.  The last ones hold their module's type invariant too.

**Bounds, and why they are enough.**

* *jade_task_queue.*  Three packages give a head, a task that is cancelled and
  one that has to move up; names do not repeat, so the queue has at most three
  entries.  Two objects are the least that can end two tasks by one broadcast.
  `MaxCalls` bounds the calls in flight; a full wire delays whatever would send,
  and nothing the queue decides depends on the calls sent before.  Any signal
  may arrive at any time, also one nobody has asked for.
* *daemon.*  Two threads are the worker that holds the mutex and one that is
  refused, or that overwrites its argument; a thread is reused as soon as it has
  ended.  With one package `Remove` still has two arguments to mix up (the flag
  nodep).  `ExitAfter` is 1 for the 50 of the code: some installs leave the
  process running, others end it.
* *app_store.*  `MaxInputs` bounds what the environment starts: tasks, calls of
  others, changes of the network and of the date together.  Two of them give two
  queued tasks, the second of which is cancelled or runs after the first; a task
  and another client's call that refuses it or is refused; a task and a change of
  the date, so that its worker, or the one a restarted daemon begins with, updates
  the cache.  (An update on the main loop takes both inputs; with workers around
  it, it is in the `daemon` run.)  The bound is on inputs only: exits, restarts, repetitions, losses and refusals that follow
  are unbounded.  Tasks install here; `app_store_retry` mixes operations.  The
  daemon starts with a fresh cache, which may go stale as one of the inputs.
* *engine.*  `app` requires `lib`, a name that `alt`, which has a later row, provides
  too; `lib` requires a capability that both `app` and itself provide, which closes
  a circle; `app` and, later again, `alt` require the name of `app`.  So both
  exceptions of InstallClosed and RemoveClosed are met: without them TLC refutes
  the properties.  `local` comes from no repository and requires what `lib` provides,
  so that rpm refuses removals the table allows.  Any set of packages may be installed
  at first.
* *download.*  Two chunks are the least of which one can be missing; two threads
  are the worker and the main loop; two kills resume what was resumed before.
* *settings.*  For `Settings`: two directories that exist, the default one among
  them, and the blank path, which stands for it; every mode; two files, so that
  the setting may change between them.  Two calls of SetPathMode let one overwrite
  the other; a week makes files old and a restart reads the file again.  For
  `Queries`: both packages require one capability of the
  system and one that is nowhere, which is told once, and the second requires the
  first; the desktop entry is not the first capability; the texts
  find none, one and both.  For `StoreLists`: two names, one a part of the
  other, the catalogue knows one of them; `MaxCalls` and `MaxWire` bound what is
  on its way (two let an answer and a Finished pass one another), `MaxInputs`
  three what users, other clients and the network begin.
* *settings, upgrade_missed.*  All pairs of versions of up to two numbers
  and a release.
* *run_guard.*  Three processes: one that dies, one that looks, one that creates.
  For `Progress`: two files, so that one is closed before the next; two jobs and a
  refused call, so that the console hears of another's job before and during its
  own; two signals on the wire.  For `Icons`: one icon may be begun while the
  other is done; a single end of an installation may come anywhere.  For `Catalogue`:
  three packages in two categories, one in both, one that the daemon does not
  have, one whose title is not its name, and one reply that is an error; a search's
  answer names two at most, known or not, in any order.
* *pkg_cache.*  One source with a list of two packages: a broken file lacks the
  last row.  Package `c` is in no list.  Both updates, a new version, a new day, a
  query and a kill fall between any two steps.  pkgcache.db is at first missing,
  empty, old, or the template.  `Linkable` is TRUE: the installed paths (under
  `share` and under `var/cache`) are on one file system, or no update ever shows a row; the
  proofs hold without it.

`CHECK_DEADLOCK FALSE` is set for `app_store`, `app_store_retry` and `settings`,
where the inputs are used up and everything is at rest, and for `run_guard`, where
every process has quit for good and the catalogue is complete.

## Fairness

* *Daemon, AppStore.*  Weak fairness for every worker's steps: the kernel runs
  every thread, and no routine waits for anything but transfers, which are taken
  to end (the code sets no timeout; see the hazard at `download.cpp:159`).  Weak
  fairness for the interface's loop (`Deliver`, `Handle`), for the bus
  (`Dispatch`, `Activate`) and for the repeating 20 s timer.  None for users,
  other clients, NetworkManager or the date.
* *PackageEngine.*  Weak fairness of the worker's steps; none for refreshes.
* *PkgCache.*  Weak fairness for what the threads do themselves and for the end
  of a request, with any answer.  Strong fairness for the 4 h timer, which
  repeats for as long as the process is not already updating, and for a whole
  list being among the answers to requests repeated for ever: without a server
  that ever answers nothing can catch up.
* The other modules state no liveness.

## Proofs

The provers are TLAPS's SMT, Zenon and PTL.  Eight modules hold theorems; each
holds for every value of the constants allowed by the named assumptions of the
model, and nothing else is assumed except where stated.  Every invariant below
was checked by TLC before it was proved.  What Head, Tail, Append and EXCEPT do to a
sequence comes from the library's SequenceTheorems.

**JadeTaskQueueProofs** (any packages, any number of objects, any number of calls
in flight).  `TypeCorrect`; `QueueCorrect` (QueueInv: OnlyHeadRuns, and with it NamesUnique
and DoingPkgIsHead); `BroadcastCompletesOnce` (OneTaskPerSignal).  OneTaskPerSignal is not
inductive: between two handlers of a broadcast one has to know that, once it has
ended a task, no task of the queue bears the signal's name.  `SignalSpent` says
so, and it holds because names are unique and `install()` looks for the name
before it queues.  The inductive invariant is TypeOK, OnlyHeadRuns, NamesUnique,
DoingPkgIsHead and SignalSpent.  `RunTaskStarts` and `TailUnstarted` describe
`m_runTask` and `removeFirst`, and are used by every handler that starts a task.
From the same invariant follows the refinement: `QueueIsSerial` (the queue
implements SerialQueue under the mapping that forgets the statuses; assuming that
the empty name is not itself a job), `OnlyHeadIsCalled` (CallsServeHead) and
`TasksLeaveProperly` (LeavesProperly).  Each handler is shown to be one abstract step or
a stutter; that getFinished removes the first task although it looks for the name
anywhere is right because of SignalSpent and OnlyHeadRuns.

**DaemonProofs** (any threads, packages and ExitAfter).  `TypeCorrect`;
`MutualExclusion` (OneWorker); `CallsServed` (ArgsInv: ServesItsCall and
ArgGiven); `RefusalsAnonymous` (RefusalIsAnonymous, an action
property).  The inductive invariant is TypeOK, OneWorker, ServesItsCall and
ArgGiven: without OneWorker a worker that unlocks might free another's mutex;
without ArgGiven the engine might be given no package, and the rpm database leave
its type.  An exit resets every worker together with the mutex and the field,
which is why it preserves all four.

**AppStoreProofs** (any packages and threads, any number of exits, losses, refusals
and inputs).  `TasksAreServed` (TaskServedUnlessRetried), the theorem about client, bus and
daemon together.  Its invariant has the two parts' own (proved again for the
instances, since the steps of the composition are steps of one of them, or of both) and one
more: until the timer repeats a call, the running task has at most one *token*,
which is in one place at a time: its call on its way, the argument of a queued or a running
worker, or its Finished, and it becomes a Finished only by being served
(`Token`).  A refusal names no package, so it is no token; an exit may destroy it,
and then nothing ends the task.  The theorem assumes that the calls of others carry
no argument (`OtherOps \cap Service!ArgOp = {}`: lists, checks, updates).
That is no convenience: the daemon has one field for the argument, and with
`search` among the others' calls TLC finds the task of p ended unserved.  Install(p) is dispatched,
a search for q overwrites the field before the worker reads it, another search
stores p before the worker names its Finished, and the client takes the signal for its
own.  The `app_store` run makes the same choice.

**PackageEngineProofs** (any packages, capabilities and requirements, circular or
not).  `TypeCorrect`; `InstallationsClosed` (InstallClosed); `RemovalsClosed`
(RemoveClosed); `NothingUnneeded` (OnlyWhatIsNeeded); `InstallsVerifiedFiles`
(FilesVerified); `TableNeverOverstates` (TableInv).
The closure of the list at the end of the recursion follows from an invariant of
its middle (`Closing`): what a collected package needs is collected, is
installed, or is still pending.  `Table` adds to MarkedAreInstalled and
RefreshRepairs that a refresh sees the rpm database of the moment, and that the
rows a removal has come to are unmarked before rpm erases.  `Shape` says which
lists are empty in which phase of a job, and carries the rest.  The last theorem
assumes `~MainUpdates`, as does the `engine` run: a refresh on the main loop writes
what it read before the job, and with `MainUpdates = TRUE` TLC refutes both
conjuncts.

**PkgCacheProofs.**  *PkgCache* (any sources, lists, versions, connections, days and kills; the two
threads that the code has).  `TableIsCurrent` (CacheInv) and `NoRowIsLost`
(RowsStay, an action property).  WrittenIsCurrent speaks of the moment when both
threads rest; the invariant has to carry it through the middle of two updates.  What
is under way in either (the answer it receives, the file it is about to open, the
version it has read) is not older than the offers noted when the updates that run
together began (`Carried`), and so are the rows that a thread has behind it and those
of the lists that are done, whatever the other one writes over them (`Written`,
`Done`).  An old pkgcache.db is unlinked before the first row is written and
does not come back, so that rows which are hidden are hidden by a file without rows, or by
none, which needUpdate() takes for due; and as long as the main loop takes no part, a
worker unlinks only what is not the link, so nothing that is shown (`Linked`).  With the main
loop in it a locked table is enough, and RowsStay then speaks of the template
only.  Neither theorem assumes that link() ever succeeds.

*UpgradeCheck* (versions of any length).  `UpgradesAreRpms` (AgreesWithRpm), assuming that
each number has one digit (`OneDigit`): with two digits the code is wrong, see `upgrade_missed`.
Under that assumption the text of a version has its digits at the odd positions
(`TextIs`), two texts agree as far as the numbers do (`SamePrefix`), and the first
difference is at a number, at the release, or where one version has a number more: a dot
against a dash, of which the dot is the greater character, as the longer version is the
newer one (`TextsAgree`).

*Queries* (any packages, requirements and texts).  `AnswersAreRight` (AnswersInv): the invariant says
what has been found in each phase, nothing, the first half of the table, or both
(`FoundIs`), and that a handle is open while it is used unless a change by hand or another
user of it has come between (`HandleIs`).  `ChecksTellTruth` (ChecksInv): a Check
has inspected the packages that are no longer on its list, has told what they miss and
nothing else, and remembers as looked for exactly what they require (`CheckGoes`).  The
theorem assumes that no package of the table has the name of something the system provides
(`OwnPackages`).  That, too, is needed.  Let package 1 require what
both package 2 and something of the system provide, and remove 2 with rpm before the table is
refreshed.  Check finds the dependency of 1 in the system, notes the name as there,
takes 2 for installed by that note (`chkInsPkg`, `isoftapp.cpp:691`), and tells
what 2 misses, which nobody needs (TLC finds this at once with `OsProvides` = {2}).
The run's packages and capabilities have different names.

**DownloadProofs** (any threads, versions and length of the file; assuming that the
absence of a file is not a content).  `DownloadsComplete` (DownloadInv): a download
that nothing has disturbed since its stat() appends where what it has found ends
(`Grows`), so that a beginning of the version it asks for stays one until it is the
whole; that no other download is under way (`Solo`) keeps it so.  `NoStIsLeft` (LeavesNoSt): while
there is a .st, some download under way has still to rename it (`Owned`).

**SettingsProofs.**  *Settings* (any directories, sequence of files and settings).
`HandedOverIsThere` (HandedOverInv): the mutex keeps cleaning and installation apart
(`Mutex`), the list follows the files one by one (`Follows`), and what is on
it stays (`Stay`), all from one directory unless the setting has changed (`Together`).
`NothingElseGoes` (OnlyDueGo), though a path torn between two settings may be
read: it names no directory.  `AnswersHold` (AnswerIsUsed): memory and file agree except
during a call and after a write that failed (`Agree`).

*StoreLists* (any packages, names within names, and signals on their way).
`OffersAreOutdated`, `OthersStayOffered` and `RowsTellTheTruth` (RowsInv).  The properties
speak of an empty wire; the invariant says of every state what the lists will be when the
signals on the wire have come.  For a row that is settled by the last signal that says
something of its package, or by the row itself if there is none (`RowFollows`).  For the offered
updates it is settled by the last list of updates on the wire, or by the client's; if that
still offers what is no longer outdated, the update of that package is the running task and the
*first* Finished of its name is behind that list (`OfferFollows`, `Comes`).  First,
because an earlier one would end the task, and the later one then leave the entry.

**ClientsProofs.**  *RunGuard* (any processes, any number of starts).  `OneInstance`
(GuardInv): create() succeeds only where nobody is attached, and whoever runs is
(`Attached`); the semaphore is not needed for that.  `NotAllGiveWay` (SomeoneRuns): it is
needed for this: as long as nobody has run, whoever gives way leaves one behind that
has still to look (`Users`).

*Icons* (any finite set of packages, any number of ends).  `IconsAreCut` (IconsInv).
EmptyWasCut is not inductive: that the call which writes is that package's does not say
that it still has the descriptor.  `EmptyIsOpen` says so.

*Progress* (any files, packages, jobs, refusals and length of the wire).
`ReportsAreTaken` (ReportsInv): a report is turned into an Error exactly when a transaction
has failed, so their difference stays 0; the references to the file follow
the job's program counter; and a file's full reports, but for the first, are counted by
`g_finished` (`Printed`).  `ConsoleQuits` (ConsoleQuitsInTime): a Finished on the wire of a
client that waits is that of its job or of someone else, and once its job has ended one is on
the wire or was lost (`Quits`).

*Catalogue* (any categories, packages, order of the replies and nesting of the
handlers).  `CatalogueIsWhole` (CatalogueInv).  Each of its parts speaks of the moment when all
is answered.  Before that, a package of a category is *pending*: the category's list is still
asked for, or the package is, or a handler waits with it (`Pending`).  What is not pending
has been handled, and is on the list if the daemon has it (`Delivered`).  An entry
may stand under a wrong category, because the list of an earlier one had not
come; then its name is still pending under the right one, and will be listed anew
(`RightCategory`).  The counters differ by the number of the pending packages, in requests and on
the stack, as long as all categories have come before the first is handled (`Counted`);
so they meet once, at the last.

**What a fold, a sort and a recursion return.**  The library's induction theorems take an
operator as their parameter, which the installed provers cannot instantiate; and a recursive
operator cannot be reasoned about at all.  Neither is needed.  Induction over the
length of a list is a fact about a *set* of numbers: if 0 is in it and k + 1 is whenever
k is, it contains Nat (`SetInduction`).  FoldLeft and a recursive function are a
CHOOSE of a function that satisfies an equation; `FoldExists` and `RecurrenceExists` show
that there is one, so the equation holds, and `RunOfFold` turns a fold into the
sequence of its intermediate values, about which one argues step by step.  A sort is
the one enumeration of a set of numbers (`EnumerationExists`, `EnumerationUnique`).  For this,
the models say ORDER BY, the sort by name and the removal of an entry by what they
return instead of by SelectSeq and SortSeq, which tlapm cannot expand.

Not proved, but model-checked: liveness (EveryCallEnds, RunningTaskEnds, JobEnds,
TableCatchesUp).  Fairness and ENABLED are beyond this prover.  Every other
property that a passing run checks is a theorem.

## Disagreements

Four runs find that the code does what a document or a comment of it denies.

1. `daemon_asks`.  The worker of an Install reads `priv->arg` after checkDB
   (`daemon.cpp:515`), whatever call has stored it by then.  An Install of p, with
   a Remove of q while the list downloads, installs q.
2. `app_store_retry`.  getFinished looks at the name only (`jadedbus.cpp:329`).
   The timer repeats Remove(p) while the first is served; the first ends the task;
   the user asks for p to be installed; the Finished(p, REMOVED) of the repetition
   ends the installation, which has not been executed.
3. `engine_erase`.  realRemove sets Status to 0 before rpm is asked, and ignores
   rpm's result (`isoftapp.cpp:1396`): a refused removal is shown as done until
   the next refresh.
4. `upgrade_missed`.  compareVersion reads the numbers from the first difference
   on (`isoftapp.cpp:1830`): 100 is not newer than 19.

A comment of the polling of icons says "every 30 minutes"; the code asks every
ten periods of 30 s, five minutes (`jadedbus.cpp:929`).  `Icons` counts the code's ten periods; no
property depends on how long they are.

## Not modelled

* *The tray* (`systray`): main() returns before it creates anything.  *The runner*
  (`krunner`): its constructor returns before it connects to a signal; what is
  left matches names and starts qjade.
* *External*: librpm, SQLite, libcurl, D-Bus, System V memory and semaphores, the
  web server.  They are modelled by how the code uses them.  The generated
  boilerplate and the extension mechanism of the daemon have no state of the
  program's own.
* *Time.*  A transfer has no timeout (a hazard in PROJECT.json, without a
  property); a clock set back would keep the table fresh for as long
  as it was wrong (`isoftapp.cpp:512`); the clock of the model goes on.
  `GetDesktopName().value()` blocks the interface until the daemon's
  main loop answers (`jadedbus.cpp:293`); no property tells that apart from a slow loop.
* *What the properties except.*  Some hazards are modelled as the code has them, and the
  properties name them as exceptions, so that anything else is found and they are
  not: two downloads into one file (DownloadInv), a refresh on the main loop without the mutex
  (TableInv, by `MainUpdates`), a good table that the main loop unlinks because a
  worker has it locked (RowsStay; the table is due at once, and the timer
  restores it), a handle closed under a query (AnswersInv, ChecksInv), a list that is a
  second old (AnswersInv), icon records cut off from their contents (IconsInv), names
  within names (OutdatedStayOffered), failures told as successes (RowsInv), what others update
  (OfferedAreOutdated), announcements that come late (CatalogueInv).
  PROJECT.json says so at each hazard.
* *Width.*  `resume_from` keeps 32 bits (`download.cpp:127`); the files of a
  repository stay far below 4 GiB, and a whole chunk is the unit here.
* *Descriptors.*  After close(7) to close(1999) a number may be given out again
  and a write reach another file; `Icons` has the write that fails, not the one that
  goes astray.
* *qjade.*  A second CategoryModel that is created before the first is complete;
  `getMyPkgNumTimeout`, `runCmd` and the search for an icon's file, which change
  no state that outlives them; QML, widgets, wording and translations; the
  wrappers of network requests and processes (`filedownloader`, `httpget`,
  `process`), which only forward.
* *Repository tools*, checksums and their cache, and the code taken over from apt
  (`gen*.cpp`, `countpkglist.cpp`, `md5.cpp`, `rhash.cpp`, `error.cpp`,
  `configuration.cpp`, `tagfile.cpp`, `strutl.cpp`, ...): sequential, used off the machine that runs
  the store, and in no handler of the daemon.

## Plan

The modules were written in the order of their weight: the task queue and its
refinement, the daemon, both together, the engine, the package cache and the
downloader; then settings, queries, the lists of qjade, icons, progress and the
catalogue.  The proofs followed the runs, in the same order.  What is left:

1. A composition of StoreLists with AppStore, in which the lists are patched by the
   signals of the whole daemon; each is checked alone, over the same signals.
2. That Daemon implements an abstract service which serves one call at a time and may
   refuse or lose any: the shape in which AppStoreProofs uses it.
