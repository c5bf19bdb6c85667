-------------------------------- MODULE Queries --------------------------------
(***************************************************************************)
(* What the daemon is asked (src/isoftapp.cpp): Search, ListAll,           *)
(* ListInstalled, ListUninstalled, ListUpdate and Check run in a worker    *)
(* that holds the daemon's mutex; GetDesktopName runs on the main loop     *)
(* without it.  All of them read the table of packages through one global  *)
(* handle, g_db, which each opens if it is NULL and closes when it is done *)
(* whoever has opened it.  A query through NULL fails.                     *)
(*                                                                         *)
(* Names are numbers, in the order in which the code sorts them; the text  *)
(* looked for is the set of the names that contain it.  Opening, closing   *)
(* and one SELECT are a step each: sqlite3_close() leaves the rows of a    *)
(* SELECT under way readable.  Versions, sizes and dates are left out.     *)
(***************************************************************************)
EXTENDS Naturals, FiniteSets, SequencesExt

CONSTANTS
  Names,          \* the packages of the table
  Texts,          \* what is looked for: sets of names
  Requires,       \* the capabilities each package requires, in order
  OsProvides,     \* what the operating system's rpm database provides
  Provides,       \* the capabilities of each package's row, in order
  DesktopEntries, \* those of the form application(x.desktop)
  HasUpdate,      \* packages whose row is newer than what is installed
  None            \* no name

ConstantsOK ==
  /\ Names \subseteq Nat /\ IsFiniteSet(Names)
  /\ Texts \subseteq SUBSET Names
  /\ \A n \in Names : /\ Requires[n] \in Seq(ToSet(Requires[n]))
                      /\ Provides[n] \in Seq(ToSet(Provides[n]))

VARIABLES
  appdb,       \* the packages in isoftapp's rpm database
  status,      \* the table's Status column: the packages with Status = 1
  g_db,        \* the handle is open
  job,         \* the worker's query
  instList,    \* the global list of listInstalled()
  thisSecond,  \* g_last_tm is the current second
  found,       \* searchResList
  chked,       \* chkedInsPkgList and chkedDepList
  out,         \* the signals of the query, in order
  ask,         \* the main loop's GetDesktopName
  disturbed    \* history: since the query began, another has closed g_db or
               \* rpm was run by hand

vars == <<appdb, status, g_db, job, instList, thisSecond, found, chked, out, ask, disturbed>>
world == <<appdb, status>>

Lists == [search |-> "installed", all |-> "uninstalled", installed |-> "installed",
          uninstalled |-> "uninstalled", check |-> "check", update |-> "update"]
Ops == DOMAIN Lists

NoJob == [op |-> "none", text |-> {}, list |-> "none", pc |-> "idle", todo |-> <<>>, ok |-> TRUE]
NoAsk == [pc |-> "idle", name |-> None, answer |-> None, cut |-> FALSE]
NoneChked == [ins |-> {}, dep |-> {}]

AllSeemOk == [text |-> "All seem ok."]
PrepareError == [text |-> "sqlite db prepare error!"]
SearchError == [error |-> "ERROR_SEARCH"]

Sorted(S) == CHOOSE s \in [1 .. Cardinality(S) -> S] : \A i, j \in DOMAIN s : i < j => s[i] < s[j]

\* Rows whose state the list tells, and rows whose state the table tells.
Listed(s, isInstalled) == [i \in DOMAIN s |-> [name |-> s[i], installed |-> isInstalled]]
Rows(s) == [i \in DOMAIN s |-> [name |-> s[i], installed |-> s[i] \in status]]

Init ==
  /\ appdb = {} /\ status = {}
  /\ g_db = FALSE
  /\ job = NoJob /\ ask = NoAsk
  /\ instList = <<>> /\ thisSecond = FALSE
  /\ found = <<>> /\ chked = NoneChked /\ out = <<>>
  /\ disturbed = FALSE

\* The worker has the mutex and has dealt with an old table.
Begin(op, text) ==
  /\ job = NoJob
  /\ job' = [NoJob EXCEPT !.op = op, !.text = text, !.list = Lists[op], !.pc = "open"]
  /\ UNCHANGED <<world, g_db, instList, thisSecond, found, chked, out, ask, disturbed>>

openPkgDB ==
  /\ job.pc = "open"
  /\ g_db' = TRUE
  /\ job' = [job EXCEPT !.pc = "read"]
  /\ UNCHANGED <<world, instList, thisSecond, found, chked, out, ask, disturbed>>

getAllInstalledPkgs == IF g_db THEN Sorted(status) ELSE <<>>

At(list) == job.pc = "read" /\ job.list = list

\* ListChanged, once for each package.
emit_list_changed_handle(s, isInstalled) == Listed(s, isInstalled)

\* What contains the text is in the order of the list.
Matching(s) == Sorted(ToSet(s) \cap job.text)

\* The list is read once in a second.
listInstalled ==
  /\ At("installed")
  /\ instList' = IF thisSecond THEN instList ELSE getAllInstalledPkgs
  /\ thisSecond' = TRUE
  /\ IF job.op = "installed"
       THEN /\ out' = emit_list_changed_handle(instList', TRUE)
            /\ UNCHANGED found
       ELSE /\ found' = Listed(Matching(instList'), TRUE)
            /\ UNCHANGED out
  /\ job' = [job EXCEPT !.pc = "close"]
  /\ UNCHANGED <<world, g_db, chked, ask, disturbed>>

\* Mutant: every row is taken for one that is not installed.
Selected_All == Names

\* WHERE Status = 0, or Status = 1 too for ListAll.
Selected == IF job.op = "all" THEN Names ELSE Names \ status

listUnInstalled ==
  /\ At("uninstalled")
  /\ LET rows == IF g_db THEN Sorted(Selected) ELSE <<>>
     IN CASE job.op = "uninstalled" ->
               out' = emit_list_changed_handle(rows, FALSE) /\ UNCHANGED found
          [] job.op = "all"         -> found' = found \o Rows(rows) /\ UNCHANGED out
          [] OTHER ->
               /\ found' = found \o Listed(Matching(rows), FALSE)
               /\ UNCHANGED out
  /\ job' = [job EXCEPT !.pc = "close"]
  /\ UNCHANGED <<world, g_db, instList, thisSecond, chked, ask, disturbed>>

\* A GetDesktopName that has the handle open loses it.
CutAsk == ask' = [ask EXCEPT !.cut = @ \/ ask.pc \in {"read", "close"}]

closePkgDB ==
  /\ job.pc = "close"
  /\ g_db' = FALSE
  /\ job' = IF job.op = "search" /\ job.list = "installed"
              THEN [job EXCEPT !.list = "uninstalled", !.pc = "open"]
              ELSE [job EXCEPT !.pc = IF job.op \in {"search", "all"} THEN "emit" ELSE "done"]
  /\ CutAsk
  /\ UNCHANGED <<world, instList, thisSecond, found, chked, out, disturbed>>

\* By name; what has the same name stays in the order it has.
Before(s, i, j) == s[i].name < s[j].name \/ (s[i].name = s[j].name /\ i < j)
ByName(s) ==
  LET order == CHOOSE p \in [DOMAIN s -> DOMAIN s] :
                 \A i, j \in DOMAIN s : i < j => Before(s, p[i], p[j])
  IN [i \in DOMAIN s |-> s[order[i]]]

\* The handlers that make signals of the answers: SearchChanged for each
\* package found, or the error; one ListAllChanged.
emit_search_result_handle == IF found = <<>> THEN <<SearchError>> ELSE ByName(found)
emit_search_all_result_handle == <<found>>

search ==
  /\ job.pc = "emit"
  /\ out' = IF job.op = "all" THEN emit_search_all_result_handle ELSE emit_search_result_handle
  /\ found' = <<>>
  /\ job' = [job EXCEPT !.pc = "done"]
  /\ UNCHANGED <<world, g_db, instList, thisSecond, chked, ask, disturbed>>

\* Check and ListUpdate go through the installed packages ...
ReadInstalled ==
  /\ job.pc = "read" /\ job.list \in {"check", "update"}
  /\ job' = [job EXCEPT !.todo = getAllInstalledPkgs, !.pc = "each"]
  /\ UNCHANGED <<world, g_db, instList, thisSecond, found, chked, out, ask, disturbed>>

Each(list) == job.pc = "each" /\ job.list = list /\ job.todo # <<>>

\* What is known to be installed is not looked for.
chkInsPkg(c, name) == name \in c.ins
insertChkPkgList(c, name) == [c EXCEPT !.ins = @ \cup {name}]

\* The system's database is asked for a dependency, isoftapp's for a package
\* or a dependency.
pkgIsInstalled(c, name, isApp) ==
  chkInsPkg(c, name) \/ (~isApp /\ name \in OsProvides) \/ name \in appdb

\* Mutant: what was looked for in vain passes for installed, for the package
\* that comes to need it first too.
chkedDep_Marks(c, dep) ==
  [found |-> TRUE, chked |-> [c EXCEPT !.dep = @ \cup {dep}]]

\* A dependency is looked for once.
chkedDep(c, dep) ==
  LET new == dep \notin c.dep
      here == new /\ pkgIsInstalled(c, dep, FALSE)
      marked == [c EXCEPT !.dep = @ \cup {dep}]
  IN [found |-> ~new \/ here, chked |-> IF here THEN insertChkPkgList(marked, dep) ELSE marked]

\* What has been looked for and what is missing of a package's requirements.
Look(acc, dep, n) ==
  LET r == chkedDep(acc.chked, dep)
  IN [chked |-> r.chked,
      missing |-> IF r.found THEN acc.missing
                  ELSE Append(acc.missing, [missing |-> dep, neededBy |-> n])]

Looked(n) ==
  FoldLeft(LAMBDA acc, dep : Look(acc, dep, n),
           [chked |-> insertChkPkgList(chked, n), missing |-> <<>>], Requires[n])

\* ... looking for what each of them requires ...
chkDep ==
  /\ Each("check")
  /\ LET n == Head(job.todo)
         end == Looked(n)
     IN CASE ~g_db ->
               /\ out' = Append(out, PrepareError)
               /\ job' = [job EXCEPT !.todo = Tail(@), !.ok = FALSE]
               /\ UNCHANGED chked
          [] g_db /\ pkgIsInstalled(chked, n, TRUE) ->
               /\ out' = out \o end.missing
               /\ job' = [job EXCEPT !.todo = Tail(@), !.ok = @ /\ end.missing = <<>>]
               /\ chked' = end.chked
          [] OTHER ->
               /\ job' = [job EXCEPT !.todo = Tail(@)]
               /\ UNCHANGED <<out, chked>>
  /\ UNCHANGED <<world, g_db, instList, thisSecond, found, ask, disturbed>>

\* ... or for a newer version, one string for all.
realUpgrade ==
  /\ Each("update")
  /\ LET n == Head(job.todo)
     IN found' = IF n \in appdb /\ g_db /\ n \in HasUpdate THEN Append(found, [name |-> n]) ELSE found
  /\ job' = [job EXCEPT !.todo = Tail(@)]
  /\ UNCHANGED <<world, g_db, instList, thisSecond, chked, out, ask, disturbed>>

\* One ListUpdateFinished; CheckChanged if all is well.
emit_list_update_changed_handle == <<found>>
emit_list_check_handle == IF job.ok THEN Append(out, AllSeemOk) ELSE out

End ==
  /\ job.pc = "each" /\ job.todo = <<>>
  /\ out' = IF job.op = "update" THEN emit_list_update_changed_handle ELSE emit_list_check_handle
  /\ found' = <<>> /\ chked' = NoneChked
  /\ g_db' = FALSE
  /\ job' = [job EXCEPT !.pc = "done"]
  /\ CutAsk
  /\ UNCHANGED <<world, instList, thisSecond, disturbed>>

\* Finished is emitted and the mutex unlocked.
Finish ==
  /\ job.pc = "done"
  /\ job' = NoJob /\ out' = <<>> /\ disturbed' = FALSE
  /\ UNCHANGED <<world, g_db, instList, thisSecond, found, chked, ask>>

Worker ==
  \/ openPkgDB \/ listInstalled \/ listUnInstalled \/ closePkgDB \/ search
  \/ ReadInstalled \/ chkDep \/ realUpgrade \/ End \/ Finish

-----------------------------------------------------------------------------

\* GetDesktopName, on the main loop.
Ask(n) ==
  /\ ask.pc = "idle"
  /\ ask' = [NoAsk EXCEPT !.pc = "open", !.name = n]
  /\ UNCHANGED <<world, g_db, job, instList, thisSecond, found, chked, out, disturbed>>

AskOpen ==
  /\ ask.pc = "open"
  /\ g_db' = TRUE
  /\ ask' = [ask EXCEPT !.pc = "read"]
  /\ UNCHANGED <<world, job, instList, thisSecond, found, chked, out, disturbed>>

\* The first application(x.desktop) of the row.
DesktopOf(n) ==
  LET entries == {i \in DOMAIN Provides[n] : Provides[n][i] \in DesktopEntries}
  IN IF entries = {} THEN None
     ELSE Provides[n][CHOOSE i \in entries : \A j \in entries : i <= j]

AskRead ==
  /\ ask.pc = "read"
  /\ ask' = [ask EXCEPT !.pc = "close", !.answer = IF g_db THEN DesktopOf(ask.name) ELSE None]
  /\ UNCHANGED <<world, g_db, job, instList, thisSecond, found, chked, out, disturbed>>

\* The handle is closed under a worker that uses it.
AskClose ==
  /\ ask.pc = "close"
  /\ g_db' = FALSE
  /\ disturbed' = (disturbed \/ job # NoJob)
  /\ ask' = [ask EXCEPT !.pc = "reply"]
  /\ UNCHANGED <<world, job, instList, thisSecond, found, chked, out>>

Reply ==
  /\ ask.pc = "reply"
  /\ ask' = NoAsk
  /\ UNCHANGED <<world, g_db, job, instList, thisSecond, found, chked, out, disturbed>>

MainLoop == AskOpen \/ AskRead \/ AskClose \/ Reply

\* Install and Remove change the database and the table, and close the handle.
Task(n) ==
  /\ job = NoJob
  /\ appdb' = IF n \in appdb THEN appdb \ {n} ELSE appdb \cup {n}
  /\ status' = IF n \in appdb THEN status \ {n} ELSE status \cup {n}
  /\ g_db' = FALSE
  /\ CutAsk
  /\ UNCHANGED <<job, instList, thisSecond, found, chked, out, disturbed>>

\* rpm run by hand changes the database only ...
ByHand(n) ==
  /\ appdb' = IF n \in appdb THEN appdb \ {n} ELSE appdb \cup {n}
  /\ disturbed' = (disturbed \/ job # NoJob)
  /\ UNCHANGED <<status, g_db, job, instList, thisSecond, found, chked, out, ask>>

\* ... until Update brings the table up to date.
Update ==
  /\ job = NoJob
  /\ status' = appdb
  /\ UNCHANGED <<appdb, g_db, job, instList, thisSecond, found, chked, out, ask, disturbed>>

Tick ==
  /\ thisSecond
  /\ thisSecond' = FALSE
  /\ UNCHANGED <<world, g_db, job, instList, found, chked, out, ask, disturbed>>

Next ==
  \/ \E op \in Ops \ {"search"} : Begin(op, {})
  \/ \E t \in Texts : Begin("search", t)
  \/ Worker \/ MainLoop
  \/ \E n \in Names : Ask(n) \/ Task(n) \/ ByHand(n)
  \/ Update \/ Tick

Spec == Init /\ [][Next]_vars

-----------------------------------------------------------------------------

TypeOK ==
  /\ appdb \subseteq Names /\ status \subseteq Names
  /\ g_db \in BOOLEAN /\ thisSecond \in BOOLEAN /\ disturbed \in BOOLEAN
  /\ job.op \in Ops \cup {"none"} /\ job.text \in Texts \cup {{}}
  /\ job.pc \in {"idle", "open", "read", "close", "emit", "each", "done"}
  /\ \A s \in {instList, job.todo} :
       ToSet(s) \subseteq Names /\ Len(s) = Cardinality(ToSet(s))
  /\ ask.pc \in {"idle", "open", "read", "close", "reply"}

Answered(op) == job.op = op /\ job.pc = "done" /\ ~disturbed

\* A search finds every package of the table that contains the text, once,
\* with its state in the table, though the two halves of the table are read
\* one after the other and the first from a list that may be a second old:
\* unless that list has been overtaken or a GetDesktopName came between.
SearchTellsAll ==
  /\ Answered("search") /\ ToSet(instList) = status =>
       out = IF job.text = {} THEN <<SearchError>> ELSE Rows(Sorted(job.text))
  /\ Answered("all") => out = <<Rows(Sorted(Names))>>

Missing(n) == {d \in ToSet(Requires[n]) : d \notin OsProvides /\ d \notin appdb}
Checked == status \cap appdb

\* Check says that all is well exactly if nothing that an installed package
\* requires is missing; it tells of each missing dependency once, for the
\* first of the packages that need it.
CheckTellsTruth ==
  Answered("check") =>
    LET broken == UNION {Missing(n) : n \in Checked}
    IN /\ (out = <<AllSeemOk>>) <=> (broken = {})
       /\ broken # {} =>
            /\ Len(out) = Cardinality(broken)
            /\ \A d \in broken :
                 LET first == CHOOSE n \in Checked :
                                d \in Missing(n) /\ \A m \in Checked : d \in Missing(m) => n <= m
                 IN [missing |-> d, neededBy |-> first] \in ToSet(out)

\* Between two queries the lists are empty: no answer of one finds its way
\* into the next.  The handle is closed when nobody is at work.
NothingLeft ==
  job = NoJob =>
    /\ found = <<>> /\ chked = NoneChked
    /\ ask.pc \notin {"read", "close"} => ~g_db

\* The desktop file of a package is what its row says, unless a worker has
\* closed the handle under the main loop.
DesktopNameIsRight ==
  ask.pc = "reply" /\ ~ask.cut =>
    IF \E c \in ToSet(Provides[ask.name]) : c \in DesktopEntries
      THEN \E i \in DOMAIN Provides[ask.name] :
             /\ ask.answer = Provides[ask.name][i] /\ ask.answer \in DesktopEntries
             /\ \A j \in 1 .. i - 1 : Provides[ask.name][j] \notin DesktopEntries
      ELSE ask.answer = None

\* What is listed, found and looked up is what the table has.
AnswersInv == TypeOK /\ SearchTellsAll /\ DesktopNameIsRight

\* A Check tells the truth, and goes by nothing that an earlier one has found.
ChecksInv == CheckTellsTruth /\ NothingLeft
=============================================================================
