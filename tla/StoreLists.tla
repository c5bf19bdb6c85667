------------------------------ MODULE StoreLists ------------------------------
(***************************************************************************)
(* What the views of qjade are told of the packages (qjade/src/            *)
(* jadedbus.cpp): which are installed (AllPkgList), which can be updated   *)
(* (m_updateInfo) and whether there is a network (g_offline).              *)
(*                                                                         *)
(* The lists come whole, as answers to ListAll and ListUpdate, and are     *)
(* patched by the Finished signals of the jobs in between.  An answer is   *)
(* made while its worker holds the mutex; the daemon's signals reach the   *)
(* client in order.  The task queue is in JadeTaskQueue: here is the task  *)
(* that runs.  Threads and the mutex are in Daemon: here a call is either  *)
(* the job or refused, and a refusal tells the client nothing.             *)
(***************************************************************************)
EXTENDS Naturals, Sequences, SequencesExt

CONSTANTS
  Name,      \* packages of the table
  Shown,     \* those the catalogue knows: g_qjadePkgList
  Inside,    \* pairs of names, the first a part of the second
  Mangled,   \* an entry of m_updateInfo that names no package
  NoName,
  MaxCalls,  \* bounds: calls on their way,
  MaxWire,   \* signals on their way,
  MaxInputs  \* tasks, calls of others, network changes and lists asked for

ConstantsOK ==
  /\ Shown \subseteq Name /\ Inside \subseteq Name \X Name
  /\ Mangled \notin Name /\ NoName \notin Name
  /\ MaxCalls \in Nat \ {0} /\ MaxWire \in Nat /\ MaxInputs \in Nat

VARIABLES
  AllPkgList, m_updateInfo, g_offline,
  g_updateDone,    \* the list of updates has been shown once
  m_updateList,    \* the list of updates that is shown
  doing,           \* the task that runs
  timers,          \* lists that were asked for and not looked at yet
  calls, wire,     \* to the daemon, and back
  installed, outdated, online,  \* what is so
  arg, busy,       \* priv->arg and the worker that holds the mutex
  inputs,
  answer, ended,   \* history: the last list of updates delivered, and the
                   \* names of the updates that have ended since
  gone, untold     \* history: names that changed behind the lists' back since
                   \* the last answer was made (see the properties)

client == <<AllPkgList, m_updateInfo, g_offline, g_updateDone, m_updateList, doing, timers>>
daemon == <<installed, outdated, online, arg, busy>>
history == <<answer, ended, gone, untold>>
vars == <<client, calls, wire, daemon, inputs, history>>

NoTask == [action |-> "none", name |-> NoName]
NoJob == [op |-> "none", name |-> NoName, pc |-> "idle"]
Method == {"Install", "Remove", "Upgrade"}
List == {"ListAll", "ListUpdate"}

MethodOf(action) ==
  CASE action = "install" -> "Install"
    [] action = "uninstall" -> "Remove"
    [] action = "update" -> "Upgrade"

\* A new JadedBus asks for the packages at once.  The network is there then.
Init ==
  /\ AllPkgList = [n \in Name |-> "unlisted"]
  /\ m_updateInfo = {} /\ g_offline = FALSE /\ g_updateDone = FALSE /\ m_updateList = {}
  /\ doing = NoTask /\ timers = 0
  /\ calls = <<[op |-> "ListAll", name |-> NoName]>> /\ wire = <<>>
  /\ installed \in SUBSET Name /\ outdated \in SUBSET installed /\ online = TRUE
  /\ arg = NoName /\ busy = NoJob
  /\ inputs = 0
  /\ answer = {} /\ ended = {} /\ gone = {} /\ untold = Name

Input == inputs < MaxInputs /\ inputs' = inputs + 1

Ask(op, n) == Len(calls) < MaxCalls /\ calls' = Append(calls, [op |-> op, name |-> n])

-----------------------------------------------------------------------------

\* m_runTask() of a task the user asks for.
m_runTask(action, n) ==
  /\ Input /\ doing = NoTask
  /\ doing' = [action |-> action, name |-> n]
  /\ Ask(MethodOf(action), n)
  /\ UNCHANGED <<AllPkgList, m_updateInfo, g_offline, g_updateDone, m_updateList, timers,
                 wire, daemon, history>>

runTaskTimeOut ==
  /\ Input /\ doing # NoTask
  /\ Ask(MethodOf(doing.action), doing.name)
  /\ UNCHANGED <<client, wire, daemon, history>>

\* A second at which the packages are asked for again.
getPkgListTimeOut ==
  /\ Input /\ Ask("ListAll", NoName)
  /\ UNCHANGED <<client, wire, daemon, history>>

\* A view of the updates: the daemon is asked unless a list has been shown;
\* 9 s later, or half a second, the view takes what there is.
getUpdate ==
  /\ Input
  /\ timers' = timers + 1
  /\ IF g_updateDone THEN UNCHANGED calls ELSE Ask("ListUpdate", NoName)
  /\ UNCHANGED <<AllPkgList, m_updateInfo, g_offline, g_updateDone, m_updateList, doing,
                 wire, daemon, history>>

\* Entries of the catalogue are shown.  Offline, and while the daemon has
\* said nothing, the list stays as it is and an error is shown.
getUpdateTimeout ==
  /\ timers > 0 /\ timers' = timers - 1
  /\ IF m_updateInfo = {} \/ g_offline
       THEN UNCHANGED <<m_updateList, g_updateDone>>
       ELSE /\ m_updateList' = m_updateInfo \cap Shown
            /\ g_updateDone' = (g_updateDone \/ m_updateList' # {})
  /\ UNCHANGED <<AllPkgList, m_updateInfo, g_offline, doing, calls, wire, daemon, inputs, history>>

-----------------------------------------------------------------------------

\* Entries that hold the name anywhere no longer name their package.
Hold(n) == {m \in Name : m = n \/ <<n, m>> \in Inside}

\* Mutant: the whole list is dropped.
replace_All(info, n) == IF n \in info THEN {} ELSE info

\* Mutant: the list is left alone.
replace_Not(info, n) == info

\* m_updateInfo.replace(): every occurrence of the name.
replace(info, n) ==
  (info \ Hold(n)) \cup (IF info \cap Hold(n) # {} THEN {Mangled} ELSE {})

getInfo(n) ==
  CASE AllPkgList[n] = "unlisted" -> "UnknownInfo"
    [] AllPkgList[n] = "installed" -> "InfoInstalled"
    [] OTHER -> IF doing.name = n THEN "InfoWaiting" ELSE "InfoAvailable"

Signal(kind) == wire # <<>> /\ Head(wire).kind = kind /\ wire' = Tail(wire)

\* The whole list; an empty one is taken for an error, and is not modelled.
getAllPkgList ==
  /\ Signal("all")
  /\ AllPkgList' = [n \in Name |-> IF n \in Head(wire).names THEN "installed" ELSE "available"]
  /\ UNCHANGED <<m_updateInfo, g_offline, g_updateDone, m_updateList, doing, timers, calls,
                 daemon, inputs, history>>

getUpdateFinished ==
  /\ Signal("update")
  /\ m_updateInfo' = Head(wire).names
  /\ answer' = Head(wire).names /\ ended' = {}
  /\ UNCHANGED <<AllPkgList, g_offline, g_updateDone, m_updateList, doing, timers, calls,
                 daemon, inputs, gone, untold>>

\* Mutant: a removal is not written down.
StatusAfter_NotRemoved(status, row) ==
  IF row = "unlisted" THEN row
  ELSE CASE status = "INSTALLED" -> "installed"
         [] status = "INSTALL_ERROR" -> "available"
         [] OTHER -> row

StatusAfter(status, row) ==
  IF row = "unlisted" THEN row
  ELSE CASE status = "INSTALLED" -> "installed"
         [] status \in {"REMOVED", "INSTALL_ERROR"} -> "available"
         [] OTHER -> row

\* Finished(n, status), whoever asked: the row, the task and its update.
getFinished ==
  /\ Signal("finished")
  /\ LET n == Head(wire).name
         mine == doing.name = n
         updated == mine /\ doing.action = "update"
     IN /\ AllPkgList' = [AllPkgList EXCEPT ![n] = StatusAfter(Head(wire).status, @)]
        /\ doing' = IF mine THEN NoTask ELSE doing
        /\ m_updateInfo' = IF updated THEN replace(m_updateInfo, n) ELSE m_updateInfo
        /\ ended' = IF updated THEN ended \cup {n} ELSE ended
  /\ UNCHANGED <<g_offline, g_updateDone, m_updateList, timers, calls, daemon, inputs,
                 answer, gone, untold>>

errorChged ==
  /\ Signal("network")
  /\ g_offline' = ~Head(wire).on
  /\ UNCHANGED <<AllPkgList, m_updateInfo, g_updateDone, m_updateList, doing, timers, calls,
                 daemon, inputs, history>>

Deliver == getAllPkgList \/ getUpdateFinished \/ getFinished \/ errorChged

-----------------------------------------------------------------------------

\* The job a call becomes, or nothing.
Accept(op, n) ==
  /\ arg' = IF op \in Method THEN n ELSE arg
  /\ busy' = IF busy = NoJob THEN [op |-> op, name |-> NoName, pc |-> "asked"] ELSE busy

Dispatch ==
  /\ calls # <<>> /\ calls' = Tail(calls)
  /\ Accept(Head(calls).op, Head(calls).name)
  /\ UNCHANGED <<client, wire, installed, outdated, online, inputs, history>>

OtherCall ==
  /\ Input
  /\ \E op \in Method, n \in Name : Accept(op, n)
  /\ UNCHANGED <<client, calls, wire, installed, outdated, online, history>>

\* The worker's checkDB(), which may bring newer versions, and what it reads
\* of priv->arg.
Begin ==
  /\ busy.pc = "asked"
  /\ outdated' \in {outdated, installed}
  /\ busy' = [busy EXCEPT !.pc = "works", !.name = IF busy.op \in Method THEN arg ELSE NoName]
  /\ UNCHANGED <<client, calls, wire, installed, online, arg, inputs, history>>

Send(s) == Len(wire) < MaxWire /\ wire' = Append(wire, s)

Ready(op) == busy.op = op /\ busy.pc = "works" /\ busy' = NoJob

search ==
  /\ Ready("ListAll")
  /\ \/ Send([kind |-> "all", names |-> installed]) /\ untold' = {}
     \/ UNCHANGED <<wire, untold>>  \* the table cannot be read
  /\ UNCHANGED <<client, calls, installed, outdated, online, arg, inputs, answer, ended, gone>>

listUpdate ==
  /\ Ready("ListUpdate")
  /\ Send([kind |-> "update", names |-> outdated])
  /\ gone' = {}
  /\ UNCHANGED <<client, calls, installed, outdated, online, arg, inputs, answer, ended, untold>>

\* The signal the task of this name will take for its own.
TaskOf(n) ==
  /\ doing = [action |-> "update", name |-> n]
  /\ arg = n
  /\ \A i \in DOMAIN wire : ~(wire[i].kind = "finished" /\ wire[i].name = n)

\* A job's end: what it has changed of the packages, and the signal, in the
\* name priv->arg now holds.
Finish(op, db, out, status) ==
  /\ Ready(op)
  /\ Send([kind |-> "finished", name |-> arg, status |-> status])
  /\ installed' = db /\ outdated' = out
  /\ gone' = gone \cup {n \in outdated \ out : ~TaskOf(n)}
  /\ untold' = untold \cup
       {n \in Name : LET row == IF n # arg THEN n \in installed
                                ELSE CASE status = "INSTALLED" -> TRUE
                                       [] status \in {"REMOVED", "INSTALL_ERROR"} -> FALSE
                                       [] OTHER -> n \in installed
                     IN row # (n \in db)}
  /\ UNCHANGED <<client, calls, online, arg, inputs, answer, ended>>

\* Installed already, installed with what it requires, refused for a bad
\* file; or rpm has failed, which is told as a success.
install ==
  \/ /\ busy.name \notin installed
     /\ \/ \E db \in SUBSET Name :
             installed \cup {busy.name} \subseteq db /\ Finish("Install", db, outdated, "INSTALLED")
        \/ \E status \in {"INSTALLED", "INSTALL_ERROR"} :
             Finish("Install", installed, outdated, status)
  \/ busy.name \in installed /\ Finish("Install", installed, outdated, "INSTALLED")

\* With those that require it, or not at all, which is told as a success.
remove ==
  \E db \in SUBSET installed :
    /\ busy.name \notin db \/ db = installed
    /\ Finish("Remove", db, outdated \cap db, "REMOVED")

\* With what the new version requires of new versions, or not at all, which
\* is told as a success.
upgrade ==
  \E out \in SUBSET outdated :
    /\ busy.name \notin out \/ out = outdated
    /\ busy.name \in outdated \/ out = outdated
    /\ Finish("Upgrade", installed, out, "UPGRADED")

\* The network comes, which may bring newer versions too, or goes: the clients
\* are told.
nm_signal ==
  /\ Input
  /\ online' = ~online
  /\ outdated' \in IF online' THEN {outdated, installed} ELSE {outdated}
  /\ Send([kind |-> "network", on |-> online'])
  /\ UNCHANGED <<client, calls, installed, arg, busy, history>>

Next ==
  \/ \E n \in Name, action \in {"install", "uninstall", "update"} : m_runTask(action, n)
  \/ runTaskTimeOut \/ getPkgListTimeOut \/ getUpdate \/ getUpdateTimeout
  \/ Deliver \/ Dispatch \/ OtherCall \/ Begin
  \/ search \/ listUpdate \/ install \/ remove \/ upgrade
  \/ nm_signal

Spec == Init /\ [][Next]_vars

-----------------------------------------------------------------------------

TypeOK ==
  /\ AllPkgList \in [Name -> {"unlisted", "installed", "available"}]
  /\ m_updateInfo \subseteq Name \cup {Mangled} /\ m_updateList \subseteq Shown
  /\ {g_offline, g_updateDone, online} \subseteq BOOLEAN
  /\ Len(calls) <= MaxCalls /\ Len(wire) <= MaxWire
  /\ outdated \subseteq installed /\ installed \subseteq Name
  /\ arg \in Name \cup {NoName}

\* When nothing is on its way, a package that m_updateInfo offers is outdated;
\* unless since that list was made it was brought along by another package,
\* upgraded or removed for someone else, or its signal bore another name.
OfferedAreOutdated ==
  wire = <<>> => m_updateInfo \ {Mangled} \subseteq outdated \cup gone

\* An update that ends takes its own entry from the list and those of the
\* packages whose names hold its name; every other entry stays.
OutdatedStayOffered ==
  \A n \in answer :
    (\A e \in ended : n \notin Hold(e)) => n \in m_updateInfo

\* What the views show of a package is so when nothing is on its way; unless
\* since the last list of all packages a failure was told as a success, under
\* another name, or other packages came or went with the one that is named.
RowsAreSo ==
  wire = <<>> =>
    \A n \in Name \ untold :
      getInfo(n) # "UnknownInfo" => (getInfo(n) = "InfoInstalled") = (n \in installed)

\* The views show what is so.
RowsInv == TypeOK /\ RowsAreSo
=============================================================================
