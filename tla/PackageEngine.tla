---------------------------- MODULE PackageEngine ----------------------------
(***************************************************************************)
(* The package engine (src/isoftapp.cpp): install(), remove() and          *)
(* upgrade() as a worker of the daemon runs them, one at a time.           *)
(*                                                                         *)
(* A job collects the packages it needs by following Requires and Provides *)
(* through the table Package of pkgcache.db, downloads and verifies the    *)
(* files, hands everything to rpm as one transaction and records the       *)
(* outcome in the table's Status column.  update() refreshes that table    *)
(* from the repositories and recomputes Status from the rpm database; it   *)
(* runs before a job, in its thread, or on the main loop when              *)
(* NetworkManager comes online, whatever the worker is doing then.         *)
(*                                                                         *)
(* The order in which the recursion visits packages does not matter to any *)
(* of its lists, so the packages still to be visited are a set.  One       *)
(* version of a package is newer than another or it is not; a job for a    *)
(* package that is not the newest version is an upgrade.  Obsoletes are    *)
(* not modelled: rpm installs and erases what it is given.                 *)
(***************************************************************************)
EXTENDS Naturals

CONSTANTS
  Pkg,          \* packages, installed or in a repository
  Cap,          \* capabilities; a package's name is one of them
  Requires,     \* Requires[p], Provides[p]: the capabilities of p
  Provides,
  Listed,       \* the packages the table has a row for
  Place,        \* the place of each one's row, which it keeps
  MainUpdates,  \* whether NetworkManager's signal can refresh the table
  MayFail,      \* whether downloads, transactions and verifications can fail
  MayDie        \* whether the process can be stopped in the middle

ASSUME CapAssumption ==
  /\ Pkg \subseteq Cap
  /\ Requires \in [Pkg -> SUBSET Cap]
  /\ Provides \in [Pkg -> SUBSET Cap]
  /\ \A p \in Pkg : p \in Provides[p]
ASSUME ListedAssumption == Listed \subseteq Pkg
ASSUME PlaceAssumption ==
  /\ Place \in [Listed -> Nat]
  /\ \A p, q \in Listed : Place[p] = Place[q] => p = q
ASSUME FlagsAssumption == {MainUpdates, MayFail, MayDie} \subseteq BOOLEAN

VARIABLES
  installed,   \* the rpm database
  outdated,    \* installed packages of which the table lists a newer version
  marked,      \* the rows whose Status is 1
  file,        \* the newest rpm of each package in the cache directory
  op, pc,      \* the running job and where it stands
  names,       \* what the job was asked for
  nodep,       \* Remove's flag
  pending,     \* recursive calls still to be made
  collected,   \* toInstPkgList or toRemovePkgList
  handed,      \* argv: the files the transaction is given
  left,        \* rows the job has still to update
  updating,    \* a refresh is running
  seen, rows   \* its list of installed packages, the rows it has still to write

jobVars == <<op, names, nodep, pending, collected, handed, left>>
refreshVars == <<updating, seen, rows>>
vars == <<installed, outdated, marked, file, pc, jobVars, refreshVars>>

PC == {"idle", "collect", "fetch", "transact", "mark", "unmark", "erase",
       "cleanup"}
File == {"none", "bad", "good"}

Provided(cap, db) == \E q \in db : cap \in Provides[q]

\* check_rpm_dep: some installed package provides the capability.
PkgIsInstalled(cap) == Provided(cap, installed)

\* A list of the packages S, which is filled in the order of their rows.  The
\* loop means to leave out the packages that are on the list, but it looks for
\* the name cap: once the package of that name is there, nobody is added.
Upto(S, cap) == {q \in S : cap \in S => Place[q] <= Place[cap]}

\* The packages in the table that provide the capability, or require it, and
\* those of them that are found.
Providers(cap) == {q \in Listed : cap \in Provides[q]}
Requirers(cap) == {q \in Listed : cap \in Requires[q]}
ProvidePkgs(cap) == Upto(Providers(cap), cap)
RequirePkgs(cap) == Upto(Requirers(cap), cap)

\* Mutant: the dependants of dependants are not followed.
Dependants_Direct(p) ==
  {q \in Listed : p \in Listed \cap names /\ \E c \in Provides[p] : q \in RequirePkgs(c)}

\* What a removal of p takes with it.
Dependants(p) ==
  {q \in Listed : p \in Listed /\ \E c \in Provides[p] : q \in RequirePkgs(c)}

\* Mutant: the capabilities are taken for packages.
Needs_Caps(p) == {c \in Requires[p] : ~PkgIsInstalled(c)}

\* Mutant: the requirements of requirements are not followed.
Needs_Direct(p) ==
  {q \in Listed : p \in names /\ \E c \in Requires[p] :
                    ~PkgIsInstalled(c) /\ q \in ProvidePkgs(c)}

\* What an installation of p asks for besides p.
Needs(p) ==
  {q \in Listed : \E c \in Requires[p] : ~PkgIsInstalled(c) /\ q \in ProvidePkgs(c)}

\* rpm's own checks: what the new packages require is there, and nothing that
\* stays loses what it requires.
CanInstall(new) ==
  \A p \in new : \A c \in Requires[p] : Provided(c, installed \cup new)
CanErase(old) ==
  \A p \in installed \ old : \A c \in Requires[p] :
    Provided(c, old) => Provided(c, installed \ old)

-----------------------------------------------------------------------------

Init ==
  /\ installed \in SUBSET Pkg
  /\ outdated = {}
  /\ marked = installed \cap Listed
  /\ file = [p \in Pkg |-> "none"]
  /\ op = "install" /\ pc = "idle"
  /\ names = {} /\ nodep = FALSE
  /\ pending = {} /\ collected = {} /\ handed = {} /\ left = {}
  /\ updating = FALSE /\ seen = {} /\ rows = {}

\* A worker enters the engine; it has finished its checkDB.
Start(o, asked, flag) ==
  /\ pc = "idle" /\ ~updating
  /\ op' = o /\ names' = asked /\ nodep' = flag
  /\ pending' = asked
  /\ pc' = "collect"
  /\ UNCHANGED <<installed, outdated, marked, file, collected, handed, left,
                 refreshVars>>

\* An installed package is not installed again; another one is not removed.
Install(p) == ~PkgIsInstalled(p) /\ Start("install", {p}, FALSE)
Remove(p, flag) == PkgIsInstalled(p) /\ Start("remove", {p}, flag)

\* One package, which the rpm database is asked for, or all the packages the
\* table says are installed.
Upgradable == {{p} : p \in outdated} \cup {outdated \cap marked}
Upgrade(asked) == asked # {} /\ asked \in Upgradable /\ Start("upgrade", asked, FALSE)

\* One call of doInstall().  Only the upgrade's own packages are taken
\* although they are installed.
DoInstall(p) ==
  /\ pc = "collect" /\ op \in {"install", "upgrade"}
  /\ p \in pending
  /\ IF \/ PkgIsInstalled(p) /\ ~(op = "upgrade" /\ p \in names)
        \/ p \in collected
        \/ p \notin Listed
       THEN pending' = pending \ {p} /\ UNCHANGED collected
       ELSE /\ collected' = collected \cup {p}
            /\ pending' = (pending \cup Needs(p)) \ {p}
  /\ UNCHANGED <<installed, outdated, marked, file, op, pc, names, nodep, handed,
                 left, refreshVars>>

\* Mutant: a package is not checked against toRemovePkgList.
DoRemove_NoList(p) ==
  /\ pc = "collect" /\ op = "remove"
  /\ p \in pending
  /\ IF ~PkgIsInstalled(p)
       THEN pending' = pending \ {p} /\ UNCHANGED collected
       ELSE /\ collected' = collected \cup {p}
            /\ pending' = (pending \cup Dependants(p)) \ {p}
  /\ UNCHANGED <<installed, outdated, marked, file, op, pc, names, nodep, handed,
                 left, refreshVars>>

\* One call of doRemove().
DoRemove(p) ==
  /\ pc = "collect" /\ op = "remove"
  /\ p \in pending
  /\ IF ~PkgIsInstalled(p) \/ p \in collected
       THEN pending' = pending \ {p} /\ UNCHANGED collected
       ELSE /\ collected' = collected \cup {p}
            /\ pending' = (pending \cup Dependants(p)) \ {p}
  /\ UNCHANGED <<installed, outdated, marked, file, op, pc, names, nodep, handed,
                 left, refreshVars>>

\* The recursion has returned.
Collected ==
  /\ pc = "collect" /\ pending = {}
  /\ pc' = IF collected = {} THEN "cleanup" ELSE IF op = "remove" THEN "unmark" ELSE "fetch"
  /\ left' = IF op = "remove" THEN collected ELSE {}
  /\ UNCHANGED <<installed, outdated, marked, file, op, names, nodep, pending,
                 collected, handed, refreshVars>>

\* Mutant: a downloaded file is not looked at again.
Fetch_NoRecheck(p) ==
  /\ pc = "fetch"
  /\ p \in collected \ handed
  /\ \E f \in IF file[p] = "good" \/ ~MayFail THEN {"good"} ELSE File :
       file' = [file EXCEPT ![p] = f]
  /\ handed' = handed \cup {p}
  /\ UNCHANGED <<installed, outdated, marked, op, pc, names, nodep, pending,
                 collected, left, refreshVars>>

\* realInstall() for one package: a file with the right checksum is taken as
\* it is, another is downloaded.  Only an installation then looks at the
\* checksum again, and gives up altogether if it is wrong.
Fetch(p) ==
  /\ pc = "fetch"
  /\ p \in collected \ handed
  /\ \E f \in IF file[p] = "good" \/ ~MayFail THEN {"good"} ELSE File :
       /\ file' = [file EXCEPT ![p] = f]
       /\ IF f # "good" /\ op = "install"
            THEN pc' = "cleanup" /\ UNCHANGED handed
            ELSE pc' = pc /\ handed' = handed \cup {p}
  /\ UNCHANGED <<installed, outdated, marked, op, names, nodep, pending, collected,
                 left, refreshVars>>

Fetched ==
  /\ pc = "fetch" /\ handed = collected
  /\ pc' = "transact"
  /\ UNCHANGED <<installed, outdated, marked, file, jobVars, refreshVars>>

\* rpmInstall(): one transaction, refused as a whole if a dependency or a
\* file is missing; otherwise packages may fail one by one.  Its result is
\* ignored.  mode tells whether the files are deleted afterwards.
RpmInstall(mode) ==
  /\ pc = "transact"
  /\ \E done \in SUBSET handed :
       /\ IF CanInstall(handed) /\ \A p \in handed : file[p] = "good"
            THEN MayFail \/ done = handed
            ELSE done = {}
       /\ installed' = installed \cup done
       /\ outdated' = outdated \ done
  /\ file' = IF mode = 1 THEN [p \in Pkg |-> IF p \in handed THEN "none" ELSE file[p]]
                         ELSE file
  /\ left' = collected
  /\ pc' = "mark"
  /\ UNCHANGED <<marked, op, names, nodep, pending, collected, handed, refreshVars>>

\* Mutant: the packages are recorded without asking rpm.
Mark_Unverified(p) ==
  /\ pc = "mark"
  /\ p \in left
  /\ left' = left \ {p}
  /\ marked' = marked \cup {p}
  /\ UNCHANGED <<installed, outdated, file, op, pc, names, nodep, pending, collected,
                 handed, refreshVars>>

\* Each package rpm verifies is recorded as installed.
Mark(p) ==
  /\ pc = "mark"
  /\ p \in left
  /\ left' = left \ {p}
  /\ \E verified \in IF MayFail THEN BOOLEAN ELSE {TRUE} :
       marked' = IF p \in installed /\ verified THEN marked \cup {p} ELSE marked
  /\ UNCHANGED <<installed, outdated, file, op, pc, names, nodep, pending, collected,
                 handed, refreshVars>>

\* realRemove() records every package as not installed, and then erases it.
Unmark(p) ==
  /\ pc = "unmark"
  /\ p \in left
  /\ left' = left \ {p}
  /\ marked' = marked \ {p}
  /\ UNCHANGED <<installed, outdated, file, op, pc, names, nodep, pending, collected,
                 handed, refreshVars>>

RowsDone ==
  /\ pc \in {"mark", "unmark"} /\ left = {}
  /\ pc' = IF pc = "mark" THEN "cleanup" ELSE "erase"
  /\ UNCHANGED <<installed, outdated, marked, file, jobVars, refreshVars>>

\* rpmremove(): refused as a whole if a package that stays needs one that
\* goes, or if one is not installed.  Its result is ignored.
RpmErase ==
  /\ pc = "erase"
  /\ \E gone \in SUBSET collected :
       /\ IF collected \subseteq installed /\ (nodep \/ CanErase(collected))
            THEN MayFail \/ gone = collected
            ELSE gone = {}
       /\ installed' = installed \ gone
       /\ outdated' = outdated \ gone
  /\ pc' = "cleanup"
  /\ UNCHANGED <<marked, file, jobVars, refreshVars>>

\* Mutant: the list of packages is not cleared.
Cleanup_KeepsList ==
  /\ pc = "cleanup"
  /\ pc' = "idle"
  /\ op' = "install" /\ names' = {} /\ nodep' = FALSE
  /\ pending' = {} /\ handed' = {} /\ left' = {}
  /\ UNCHANGED <<installed, outdated, marked, file, collected, refreshVars>>

\* clearInstallList(): the lists are globals.
Cleanup ==
  /\ pc = "cleanup"
  /\ pc' = "idle"
  /\ op' = "install" /\ names' = {} /\ nodep' = FALSE
  /\ pending' = {} /\ collected' = {} /\ handed' = {} /\ left' = {}
  /\ UNCHANGED <<installed, outdated, marked, file, refreshVars>>

-----------------------------------------------------------------------------

\* update(): the list of installed packages is read once, before the rows are
\* written one by one.  newer are the packages the repositories now hold a
\* newer version of, which has a file of its own.
Refresh(newer) ==
  /\ ~updating
  /\ pc = "idle" \/ MainUpdates
  /\ updating' = TRUE
  /\ seen' = installed
  /\ rows' = Listed
  /\ newer \subseteq Listed
  /\ pc = "idle" \/ newer = {}
  /\ outdated' = outdated \cup (newer \cap installed)
  /\ file' = [p \in Pkg |-> IF p \in newer THEN "none" ELSE file[p]]
  /\ UNCHANGED <<installed, marked, pc, jobVars>>

RefreshRow(p) ==
  /\ updating
  /\ p \in rows
  /\ rows' = rows \ {p}
  /\ marked' = IF p \in seen THEN marked \cup {p} ELSE marked \ {p}
  /\ UNCHANGED <<installed, outdated, file, pc, jobVars, updating, seen>>

\* A list that cannot be downloaded or parsed leaves its rows as they were.
Refreshed ==
  /\ updating
  /\ rows = {} \/ MayFail
  /\ updating' = FALSE /\ seen' = {} /\ rows' = {}
  /\ UNCHANGED <<installed, outdated, marked, file, pc, jobVars>>

\* The process is stopped, or leaves its main loop because it has lost its
\* bus name, while the worker is busy: what is on disk stays as it is.
Die ==
  /\ MayDie
  /\ pc # "idle" \/ updating
  /\ pc' = "idle"
  /\ op' = "install" /\ names' = {} /\ nodep' = FALSE
  /\ pending' = {} /\ collected' = {} /\ handed' = {} /\ left' = {}
  /\ updating' = FALSE /\ seen' = {} /\ rows' = {}
  /\ UNCHANGED <<installed, outdated, marked, file>>

-----------------------------------------------------------------------------

Step ==
  \/ \E p \in Pkg : DoInstall(p) \/ DoRemove(p) \/ Fetch(p) \/ Mark(p) \/ Unmark(p)
  \/ Collected \/ Fetched \/ RowsDone \/ RpmErase \/ Cleanup
  \/ \E mode \in 1 .. 2 : RpmInstall(mode)

Client ==
  \/ \E p \in Pkg : Install(p) \/ \E flag \in BOOLEAN : Remove(p, flag)
  \/ \E asked \in SUBSET outdated : Upgrade(asked)

Update ==
  \/ \E newer \in SUBSET Listed : Refresh(newer)
  \/ \E p \in Pkg : RefreshRow(p)
  \/ Refreshed

Next == Step \/ Client \/ Update \/ Die

\* A worker that has started is run to its end.
Fairness == WF_vars(Step)

Spec == Init /\ [][Next]_vars /\ Fairness

-----------------------------------------------------------------------------

TypeOK ==
  /\ installed \subseteq Pkg /\ outdated \subseteq Pkg /\ marked \subseteq Pkg
  /\ file \in [Pkg -> File]
  /\ op \in {"install", "remove", "upgrade"} /\ pc \in PC
  /\ names \subseteq Pkg /\ nodep \in BOOLEAN
  /\ pending \subseteq Pkg /\ collected \subseteq Pkg
  /\ handed \subseteq Pkg /\ left \subseteq Pkg
  /\ updating \in BOOLEAN /\ seen \subseteq Pkg /\ rows \subseteq Listed

\* What the table says is installed is installed, whatever fails and whenever
\* the process dies: an installation is recorded after the transaction, a
\* removal before it.
MarkedAreInstalled == marked \subseteq installed

\* When the collection of an installation or upgrade ends, every requirement
\* of every package in the list is met, or the package of that name is in the
\* list, or all who provide it are (or go by a name some installed package
\* provides).
InstallClosed ==
  pc \in {"fetch", "transact"} =>
    \A p \in collected : \A c \in Requires[p] :
      \/ PkgIsInstalled(c) \/ c \in collected
      \/ \A q \in Providers(c) : q \in collected \/ PkgIsInstalled(q)

\* When the collection of a removal ends, a package of the table that is
\* installed and stays can require something of a package that goes only under
\* the name of a package that requires its own name and has an earlier row.
RemoveClosed ==
  pc \in {"unmark", "erase"} =>
    \A p \in collected \cap Listed : \A q \in (Listed \cap installed) \ collected :
      Requires[q] \cap Provides[p] \subseteq
        {c \in Listed : c \in Requires[c] /\ Place[c] < Place[q]}

\* Neither takes more than that: the list is part of every set of packages
\* that holds those asked for and is closed under the requirements.
OnlyWhatIsNeeded ==
  \A S \in SUBSET Pkg :
    /\ names \subseteq S
    /\ \A p \in S : (IF op = "remove" THEN Dependants(p) ELSE Needs(p)) \subseteq S
    /\ pc \notin {"mark", "cleanup"}
    => collected \subseteq S

\* An installation hands rpm all it has collected, and only files whose
\* checksum is that of the table.
FilesVerified ==
  pc = "transact" /\ op = "install" =>
    handed = collected /\ \A p \in handed : file[p] = "good"

\* A refresh that has come to a row has repaired it, whatever has gone wrong
\* before: once it has written every row the table is right.
RefreshRepairs ==
  updating => \A p \in Listed \ rows : p \in marked <=> p \in installed

\* The table never says more than is so, and a refresh makes it say all
\* (isoftapp.cpp:275-305, 919-945 and 1396-1420).
TableInv == MarkedAreInstalled /\ RefreshRepairs

\* A job ends, also when packages require one another in a circle.
JobEnds == pc # "idle" ~> pc = "idle"

\* The interface says that Search returns a package's status, installed or not
\* installed: between jobs, Status is 1 for the installed packages.
SearchTellsStatus == pc = "idle" /\ ~updating => marked = installed \cap Listed
=============================================================================
