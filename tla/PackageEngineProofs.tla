------------------------- MODULE PackageEngineProofs -------------------------
(***************************************************************************)
(* What PackageEngine promises, for every set of packages and every        *)
(* relation of requirements.  What depends on the table not being          *)
(* refreshed while a worker is in the engine assumes ~MainUpdates.         *)
(***************************************************************************)
EXTENDS PackageEngine, TLAPS

\* Row order is part of no state.
Found == \A c : ProvidePkgs(c)' = ProvidePkgs(c) /\ RequirePkgs(c)' = RequirePkgs(c)

LEMMA FoundStays == Found
  BY DEF Found, ProvidePkgs, RequirePkgs, Providers, Requirers, Upto

\* Who is found is listed; who is not found although he provides or requires the
\* capability comes after the package that bears its name.
LEMMA FoundAre ==
  ASSUME NEW c
  PROVE  /\ ProvidePkgs(c) \subseteq Listed /\ RequirePkgs(c) \subseteq Listed
         /\ \A q \in Providers(c) \ ProvidePkgs(c) : c \in ProvidePkgs(c)
         /\ \A q \in Requirers(c) \ RequirePkgs(c) :
              c \in Requirers(c) /\ Place[c] < Place[q]
<1>1. \A q \in Listed : Place[q] \in Nat
  BY PlaceAssumption
<1>2. Providers(c) \subseteq Listed /\ Requirers(c) \subseteq Listed
  BY DEF Providers, Requirers
<1>3. ASSUME NEW S \in SUBSET Listed, NEW q \in S \ Upto(S, c)
      PROVE  c \in Upto(S, c) /\ Place[c] < Place[q]
  BY <1>1, <1>3 DEF Upto
<1>4. QED
  BY <1>2, <1>3 DEF ProvidePkgs, RequirePkgs, Upto

\* The type invariant is inductive by itself.
LEMMA TypeInit == Init => TypeOK
  BY CapAssumption, ListedAssumption DEF Init, TypeOK, PC, File

LEMMA NeedsType == \A p : Needs(p) \subseteq Pkg /\ Dependants(p) \subseteq Pkg
  BY ListedAssumption DEF Needs, Dependants

LEMMA TypeStep == TypeOK /\ [Next]_vars => TypeOK'
<1> SUFFICES ASSUME TypeOK, [Next]_vars PROVE TypeOK'
  OBVIOUS
<1> USE DEF TypeOK, PC
<1>1. ASSUME NEW o \in {"install", "remove", "upgrade"}, NEW asked \in SUBSET Pkg,
             NEW flag \in BOOLEAN, Start(o, asked, flag)
      PROVE TypeOK'
  BY <1>1 DEF Start, refreshVars
<1>2. CASE Client
  <2>1. CASE \E p \in Pkg : Install(p)
    BY <1>1, <2>1 DEF Install
  <2>2. CASE \E p \in Pkg : \E flag \in BOOLEAN : Remove(p, flag)
    BY <1>1, <2>2 DEF Remove
  <2>3. CASE \E asked \in SUBSET outdated : Upgrade(asked)
    BY <1>1, <2>3 DEF Upgrade, Upgradable
  <2> QED
    BY <1>2, <2>1, <2>2, <2>3 DEF Client
<1>3. ASSUME NEW p \in Pkg, DoInstall(p) PROVE TypeOK'
  BY <1>3, NeedsType DEF DoInstall, refreshVars
<1>4. ASSUME NEW p \in Pkg, DoRemove(p) PROVE TypeOK'
  BY <1>4, NeedsType DEF DoRemove, refreshVars
<1>5. ASSUME NEW p \in Pkg, Fetch(p) PROVE TypeOK'
  BY <1>5 DEF Fetch, refreshVars, File
<1>6. ASSUME NEW p \in Pkg, Mark(p) PROVE TypeOK'
  BY <1>6 DEF Mark, refreshVars
<1>7. ASSUME NEW p \in Pkg, Unmark(p) PROVE TypeOK'
  BY <1>7 DEF Unmark, refreshVars
<1>8. CASE Collected
  BY <1>8 DEF Collected, refreshVars
<1>9. CASE Fetched \/ RowsDone
  BY <1>9 DEF Fetched, RowsDone, refreshVars, jobVars
<1>10. CASE RpmErase
  BY <1>10 DEF RpmErase, refreshVars, jobVars
<1>11. CASE Cleanup
  BY <1>11 DEF Cleanup, refreshVars
<1>12. ASSUME NEW mode, RpmInstall(mode) PROVE TypeOK'
  <2>1. file' \in [Pkg -> File]
    BY <1>12 DEF RpmInstall, File
  <2> QED
    BY <1>12, <2>1 DEF RpmInstall, refreshVars
<1>13. ASSUME NEW newer \in SUBSET Listed, Refresh(newer) PROVE TypeOK'
  BY <1>13, ListedAssumption DEF Refresh, jobVars, File
<1>14. ASSUME NEW p \in Pkg, RefreshRow(p) PROVE TypeOK'
  BY <1>14 DEF RefreshRow, jobVars
<1>15. CASE Refreshed
  BY <1>15 DEF Refreshed, jobVars
<1>16. CASE Die
  BY <1>16 DEF Die
<1>17. CASE UNCHANGED vars
  BY <1>17 DEF vars, jobVars, refreshVars
<1> QED
  BY <1>2, <1>3, <1>4, <1>5, <1>6, <1>7, <1>8, <1>9, <1>10, <1>11, <1>12, <1>13,
     <1>14, <1>15, <1>16, <1>17 DEF Next, Step, Update

\* Every variable keeps its type, for any packages and requirements.
THEOREM TypeCorrect == Spec => []TypeOK
  BY TypeInit, TypeStep, PTL DEF Spec

-----------------------------------------------------------------------------

\* How the lists and the counter of the running job go together.
Shape ==
  /\ pc = "idle" => pending = {} /\ collected = {} /\ handed = {}
  /\ pc = "collect" => handed = {}
  /\ pc \in {"fetch", "transact", "mark", "unmark", "erase"} => pending = {}
  /\ pc \in {"fetch", "transact", "mark"} => op # "remove"
  /\ pc \in {"unmark", "erase"} => op = "remove"
  /\ pc = "transact" => handed = collected
  /\ op # "remove" => collected \subseteq Listed
  /\ left \subseteq collected

LEMMA ShapeInit == Init => Shape
  BY DEF Init, Shape

LEMMA ShapeStep == TypeOK /\ Shape /\ [Next]_vars => Shape'
<1> SUFFICES ASSUME TypeOK, Shape, [Next]_vars PROVE Shape'
  OBVIOUS
<1> USE DEF Shape
<1>1. CASE Client
  <2>1. ASSUME NEW o, NEW asked, NEW flag, Start(o, asked, flag) PROVE Shape'
    BY <2>1 DEF Start, TypeOK
  <2> QED
    BY <1>1, <2>1 DEF Client, Install, Remove, Upgrade, Upgradable
<1>2. ASSUME NEW p \in Pkg, DoInstall(p) PROVE Shape'
  BY <1>2 DEF DoInstall
<1>3. ASSUME NEW p \in Pkg, DoRemove(p) PROVE Shape'
  BY <1>3 DEF DoRemove
<1>4. ASSUME NEW p \in Pkg, Fetch(p) PROVE Shape'
  BY <1>4 DEF Fetch
<1>5. ASSUME NEW p \in Pkg, Mark(p) PROVE Shape'
  BY <1>5 DEF Mark
<1>6. ASSUME NEW p \in Pkg, Unmark(p) PROVE Shape'
  BY <1>6 DEF Unmark
<1>7. CASE Collected
  BY <1>7 DEF Collected
<1>8. CASE Fetched \/ RowsDone \/ RpmErase
  BY <1>8 DEF Fetched, RowsDone, RpmErase, jobVars
<1>9. ASSUME NEW mode, RpmInstall(mode) PROVE Shape'
  BY <1>9 DEF RpmInstall
<1>10. CASE Cleanup \/ Die
  BY <1>10 DEF Cleanup, Die
<1>11. CASE Update \/ UNCHANGED vars
  BY <1>11 DEF Update, Refresh, RefreshRow, Refreshed, vars, jobVars
<1> QED
  BY <1>1, <1>2, <1>3, <1>4, <1>5, <1>6, <1>7, <1>8, <1>9, <1>10, <1>11
     DEF Next, Step

-----------------------------------------------------------------------------

\* The three closure properties while the recursion still runs: whatever is
\* missing from the list is still to be visited.
InstallClosing ==
  pc \in {"collect", "fetch", "transact"} /\ op # "remove" =>
    \A p \in collected : \A c \in Requires[p] :
      \/ PkgIsInstalled(c)
      \/ \A q \in ProvidePkgs(c) :
           q \in collected \/ q \in pending \/ PkgIsInstalled(q)

RemoveClosing ==
  pc \in {"collect", "unmark", "erase"} /\ op = "remove" =>
    \A p \in collected \cap Listed : \A c \in Provides[p] :
      RequirePkgs(c) \cap installed \subseteq collected \cup pending

Closed(S) ==
  /\ names \subseteq S
  /\ \A p \in S : (IF op = "remove" THEN Dependants(p) ELSE Needs(p)) \subseteq S

Needed ==
  pc \notin {"mark", "cleanup"} =>
    \A S \in SUBSET Pkg : Closed(S) => collected \cup pending \subseteq S

Closing == InstallClosing /\ RemoveClosing /\ Needed

LEMMA InstalledProvides == \A p \in installed \cap Pkg : PkgIsInstalled(p)
  BY CapAssumption DEF PkgIsInstalled, Provided

\* Steps that leave the lists, the job and the rpm database alone.
LEMMA ClosingSame ==
  ASSUME Closing, UNCHANGED <<installed, op, names, pending, collected>>,
         pc' = pc \/ (pc = "collect" /\ pc' # "collect")
                  \/ (pc = "fetch" /\ pc' = "transact")
                  \/ (pc = "unmark" /\ pc' = "erase")
                  \/ pc' \in {"mark", "cleanup"}
  PROVE  Closing'
<1>1. /\ \A c : PkgIsInstalled(c)' <=> PkgIsInstalled(c)
      /\ \A c : ProvidePkgs(c)' = ProvidePkgs(c)
      /\ \A c : RequirePkgs(c)' = RequirePkgs(c)
  BY FoundStays DEF Found, PkgIsInstalled, Provided
<1>2. \A S : Closed(S)' <=> Closed(S)
  BY <1>1 DEF Closed, Needs, Dependants
<1>3. InstallClosing'
  BY <1>1 DEF Closing, InstallClosing
<1>4. RemoveClosing'
  BY <1>1 DEF Closing, RemoveClosing
<1>5. Needed'
  BY <1>2 DEF Closing, Needed
<1> QED
  BY <1>3, <1>4, <1>5 DEF Closing

\* An empty list of an idle job is closed.
LEMMA ClosingReset ==
  ASSUME pending' = {}, collected' = {}
  PROVE  Closing'
  BY DEF Closing, InstallClosing, RemoveClosing, Needed

LEMMA ClosingDoInstall ==
  ASSUME TypeOK, Shape, Closing, NEW p \in Pkg, DoInstall(p)
  PROVE  Closing'
<1>0. /\ \A c : PkgIsInstalled(c)' <=> PkgIsInstalled(c)
      /\ \A c : ProvidePkgs(c)' = ProvidePkgs(c) /\ RequirePkgs(c)' = RequirePkgs(c)
  BY FoundStays DEF DoInstall, Found, PkgIsInstalled, Provided
<1>1. /\ \A c : PkgIsInstalled(c)' <=> PkgIsInstalled(c)
      /\ \A c : ProvidePkgs(c)' = ProvidePkgs(c)
      /\ \A S : Closed(S)' <=> Closed(S)
  BY <1>0 DEF DoInstall, Closed, Needs, Dependants
<1>2. op' = op /\ op # "remove" /\ pc' = pc /\ pc = "collect"
  BY DEF DoInstall
<1>3. CASE pending' = pending \ {p} /\ UNCHANGED collected
  <2>1. PkgIsInstalled(p) \/ p \in collected \/ p \notin Listed
    BY <1>3 DEF DoInstall
  <2>2. \A c : p \in ProvidePkgs(c) => p \in collected \/ PkgIsInstalled(p)
    BY <2>1, FoundAre
  <2>3. InstallClosing'
    BY <1>1, <1>2, <1>3, <2>2 DEF Closing, InstallClosing
  <2>4. Needed'
    BY <1>1, <1>2, <1>3 DEF Closing, Needed
  <2> QED
    BY <1>2, <2>3, <2>4 DEF Closing, RemoveClosing
<1>4. CASE /\ collected' = collected \cup {p}
           /\ pending' = (pending \cup Needs(p)) \ {p}
  <2>1. \A q \in pending : q \in collected' \/ q \in pending'
    BY <1>4
  <2>2. \A c \in Requires[p] : ~PkgIsInstalled(c) =>
          \A q \in ProvidePkgs(c) : q \in collected' \/ q \in pending'
    BY <1>4, FoundAre DEF Needs
  <2>3. InstallClosing'
    BY <1>1, <1>2, <1>4, <2>1, <2>2 DEF Closing, InstallClosing
  <2>4. ASSUME NEW S \in SUBSET Pkg, Closed(S)
        PROVE  collected' \cup pending' \subseteq S
    <3>1. collected \cup pending \subseteq S
      BY <1>2, <2>4 DEF Closing, Needed
    <3>2. p \in S
      BY <3>1 DEF DoInstall
    <3>3. Needs(p) \subseteq S
      BY <1>2, <2>4, <3>2 DEF Closed
    <3> QED
      BY <1>4, <3>1, <3>2, <3>3
  <2>5. Needed'
    BY <1>1, <2>4 DEF Needed
  <2> QED
    BY <1>2, <2>3, <2>5 DEF Closing, RemoveClosing
<1> QED
  BY <1>3, <1>4 DEF DoInstall

LEMMA ClosingDoRemove ==
  ASSUME TypeOK, Shape, Closing, NEW p \in Pkg, DoRemove(p)
  PROVE  Closing'
<1>0. /\ \A c : PkgIsInstalled(c)' <=> PkgIsInstalled(c)
      /\ \A c : ProvidePkgs(c)' = ProvidePkgs(c) /\ RequirePkgs(c)' = RequirePkgs(c)
  BY FoundStays DEF DoRemove, Found, PkgIsInstalled, Provided
<1>1. \A S : Closed(S)' <=> Closed(S)
  BY <1>0 DEF DoRemove, Closed, Needs, Dependants
<1>2. op' = op /\ op = "remove" /\ pc' = pc /\ pc = "collect" /\ installed' = installed
  BY DEF DoRemove
<1>3. CASE pending' = pending \ {p} /\ UNCHANGED collected
  <2>1. p \in collected \/ p \notin installed
    BY <1>3, InstalledProvides DEF DoRemove, TypeOK
  <2>2. RemoveClosing'
    BY <1>0, <1>2, <1>3, <2>1 DEF Closing, RemoveClosing
  <2>3. Needed'
    BY <1>1, <1>2, <1>3 DEF Closing, Needed
  <2> QED
    BY <1>2, <2>2, <2>3 DEF Closing, InstallClosing
<1>4. CASE /\ collected' = collected \cup {p}
           /\ pending' = (pending \cup Dependants(p)) \ {p}
  <2>1. pending \cup collected \subseteq pending' \cup collected'
    BY <1>4
  <2>2. p \in Listed => \A c \in Provides[p] :
          RequirePkgs(c) \subseteq pending' \cup collected'
    BY <1>4, FoundAre DEF Dependants
  <2>3. RemoveClosing'
    BY <1>0, <1>2, <1>4, <2>1, <2>2 DEF Closing, RemoveClosing
  <2>4. ASSUME NEW S \in SUBSET Pkg, Closed(S)
        PROVE  collected' \cup pending' \subseteq S
    <3>1. collected \cup pending \subseteq S
      BY <1>2, <2>4 DEF Closing, Needed
    <3>2. p \in S
      BY <3>1 DEF DoRemove
    <3>3. Dependants(p) \subseteq S
      BY <1>2, <2>4, <3>2 DEF Closed
    <3> QED
      BY <1>4, <3>1, <3>2, <3>3
  <2>5. Needed'
    BY <1>1, <2>4 DEF Needed
  <2> QED
    BY <1>2, <2>3, <2>5 DEF Closing, InstallClosing
<1> QED
  BY <1>3, <1>4 DEF DoRemove

LEMMA ClosingStep == TypeOK /\ Shape /\ Closing /\ [Next]_vars => Closing'
<1> SUFFICES ASSUME TypeOK, Shape, Closing, [Next]_vars PROVE Closing'
  OBVIOUS
<1>1. ASSUME NEW o, NEW asked, NEW flag, Start(o, asked, flag) PROVE Closing'
  <2>1. collected' = {} /\ pending' = asked /\ names' = asked
    BY <1>1 DEF Start, Shape
  <2>2. Needed'
    BY <2>1 DEF Needed, Closed
  <2> QED
    BY <2>1, <2>2 DEF Closing, InstallClosing, RemoveClosing
<1>2. CASE Client
  BY <1>1, <1>2 DEF Client, Install, Remove, Upgrade, Upgradable
<1>3. ASSUME NEW p \in Pkg, Fetch(p) \/ Mark(p) \/ Unmark(p) PROVE Closing'
  BY <1>3, ClosingSame DEF Fetch, Mark, Unmark
<1>4. CASE Collected \/ Fetched \/ RowsDone
  BY <1>4, ClosingSame DEF Collected, Fetched, RowsDone, jobVars
<1>5. ASSUME NEW mode, RpmInstall(mode) \/ RpmErase PROVE Closing'
  BY <1>5 DEF RpmInstall, RpmErase, Closing, InstallClosing, RemoveClosing, Needed
<1>6. CASE Cleanup \/ Die
  BY <1>6, ClosingReset DEF Cleanup, Die
<1>7. CASE Update
  BY <1>7, ClosingSame DEF Update, Refresh, RefreshRow, Refreshed, jobVars
<1>8. CASE UNCHANGED vars
  BY <1>8, ClosingSame DEF vars, jobVars
<1> QED
  BY <1>2, <1>3, <1>4, <1>5, <1>6, <1>7, <1>8, ClosingDoInstall, ClosingDoRemove
     DEF Next, Step

LEMMA ClosingImplies ==
  TypeOK /\ Shape /\ Closing => InstallClosed /\ RemoveClosed /\ OnlyWhatIsNeeded
<1> SUFFICES ASSUME TypeOK, Shape, Closing
             PROVE  InstallClosed /\ RemoveClosed /\ OnlyWhatIsNeeded
  OBVIOUS
<1>1. InstallClosed
  <2> SUFFICES ASSUME pc \in {"fetch", "transact"},
                      NEW p \in collected, NEW c \in Requires[p],
                      ~PkgIsInstalled(c), c \notin collected,
                      NEW q \in Providers(c)
               PROVE  q \in collected \/ PkgIsInstalled(q)
    BY DEF InstallClosed
  <2>1. \A r \in ProvidePkgs(c) : r \in collected \/ PkgIsInstalled(r)
    BY DEF Shape, Closing, InstallClosing
  <2>2. q \in ProvidePkgs(c)
    BY <2>1, FoundAre
  <2>3. QED
    BY <2>1, <2>2
<1>2. RemoveClosed
  <2> SUFFICES ASSUME pc \in {"unmark", "erase"}, NEW p \in collected \cap Listed,
                      NEW q \in (Listed \cap installed) \ collected,
                      NEW c \in Requires[q] \cap Provides[p]
               PROVE  c \in Listed /\ c \in Requires[c] /\ Place[c] < Place[q]
    BY DEF RemoveClosed
  <2>1. q \in Requirers(c) \ RequirePkgs(c)
    BY DEF Shape, Closing, RemoveClosing, Requirers
  <2>2. c \in Requirers(c) /\ Place[c] < Place[q]
    BY <2>1, FoundAre
  <2>3. QED
    BY <2>2 DEF Requirers
<1>3. OnlyWhatIsNeeded
  BY DEF Closing, Needed, Closed, OnlyWhatIsNeeded
<1>4. QED
  BY <1>1, <1>2, <1>3

LEMMA ClosingInit == Init => Closing
  BY DEF Init, Closing, InstallClosing, RemoveClosing, Needed

\* What an installation, upgrade or removal hands rpm is closed under the
\* requirements and holds nothing more, for any repository.
THEOREM ListsClosed == Spec => [](InstallClosed /\ RemoveClosed /\ OnlyWhatIsNeeded)
<1>1. Init => TypeOK /\ Shape /\ Closing
  BY TypeInit, ShapeInit, ClosingInit
<1>2. TypeOK /\ Shape /\ Closing /\ [Next]_vars => (TypeOK /\ Shape /\ Closing)'
  BY TypeStep, ShapeStep, ClosingStep
<1> QED
  BY <1>1, <1>2, ClosingImplies, PTL DEF Spec

\* Every requirement of what an installation or upgrade takes is met, by what
\* is installed, by the package of that name or by all who provide it
\* (isoftapp.cpp, doInstall() and getEveryProvidePkgName()).
THEOREM InstallationsClosed == Spec => []InstallClosed
  BY ListsClosed, PTL

\* Nobody who stays requires anything of what a removal takes, but under the
\* name of an earlier package that requires its own name (isoftapp.cpp,
\* doRemove() and getNameByprovideName()).
THEOREM RemovalsClosed == Spec => []RemoveClosed
  BY ListsClosed, PTL

\* A job takes no more than that.
THEOREM NothingUnneeded == Spec => []OnlyWhatIsNeeded
  BY ListsClosed, PTL

-----------------------------------------------------------------------------
\* While an installation downloads, what it has put into argv is good.
FilesGood ==
  pc \in {"fetch", "transact"} /\ op = "install" => \A p \in handed : file[p] = "good"

LEMMA FilesStep == TypeOK /\ Shape /\ FilesGood /\ [Next]_vars => FilesGood'
<1> SUFFICES ASSUME TypeOK, Shape, FilesGood, [Next]_vars PROVE FilesGood'
  OBVIOUS
<1> USE DEF FilesGood
<1>1. CASE Client
  BY <1>1 DEF Client, Install, Remove, Upgrade, Upgradable, Start
<1>2. ASSUME NEW p \in Pkg, DoInstall(p) \/ DoRemove(p) \/ Mark(p) \/ Unmark(p)
      PROVE  FilesGood'
  BY <1>2 DEF DoInstall, DoRemove, Mark, Unmark
<1>3. ASSUME NEW p \in Pkg, Fetch(p) PROVE FilesGood'
  BY <1>3 DEF Fetch, TypeOK
<1>4. CASE Collected
  <2>1. handed' = {}
    BY <1>4 DEF Collected, Shape
  <2> QED
    BY <2>1
<1>5. CASE Fetched \/ RowsDone \/ RpmErase
  BY <1>5 DEF Fetched, RowsDone, RpmErase, jobVars
<1>6. ASSUME NEW mode, RpmInstall(mode) PROVE FilesGood'
  BY <1>6 DEF RpmInstall
<1>7. CASE Cleanup \/ Die
  BY <1>7 DEF Cleanup, Die
<1>8. ASSUME NEW newer \in SUBSET Listed, Refresh(newer) PROVE FilesGood'
  BY <1>8, ListedAssumption DEF Refresh, jobVars, TypeOK
<1>9. ASSUME NEW p \in Pkg, RefreshRow(p) PROVE FilesGood'
  BY <1>9 DEF RefreshRow, jobVars
<1>10. CASE Refreshed \/ UNCHANGED vars
  BY <1>10 DEF Refreshed, vars, jobVars
<1> QED
  BY <1>1, <1>2, <1>3, <1>4, <1>5, <1>6, <1>7, <1>8, <1>9, <1>10
     DEF Next, Step, Update

\* An installation hands rpm only files whose checksum is the table's, however
\* downloads end.
THEOREM InstallsVerifiedFiles == Spec => []FilesVerified
<1>1. Init => TypeOK /\ Shape /\ FilesGood
  BY TypeInit, ShapeInit DEF Init, FilesGood
<1>2. TypeOK /\ Shape /\ FilesGood /\ [Next]_vars => (TypeOK /\ Shape /\ FilesGood)'
  BY TypeStep, ShapeStep, FilesStep
<1>3. Shape /\ FilesGood => FilesVerified
  BY DEF Shape, FilesGood, FilesVerified
<1> QED
  BY <1>1, <1>2, <1>3, PTL DEF Spec

-----------------------------------------------------------------------------

\* The table while jobs and refreshes come and go: a refresh works on the
\* rpm database as it is, and what a removal erases has been unmarked.
Table ==
  /\ updating => pc = "idle" /\ seen = installed
  /\ MarkedAreInstalled
  /\ RefreshRepairs
  /\ pc = "unmark" => (collected \ left) \cap marked = {}
  /\ pc = "erase" => collected \cap marked = {}

LEMMA TableInit == Init => Table
  BY DEF Init, Table, MarkedAreInstalled, RefreshRepairs

LEMMA TableStep ==
  ASSUME ~MainUpdates
  PROVE  TypeOK /\ Shape /\ Table /\ [Next]_vars => Table'
<1> SUFFICES ASSUME TypeOK, Shape, Table, [Next]_vars PROVE Table'
  OBVIOUS
<1> USE DEF Table, MarkedAreInstalled, RefreshRepairs
<1>1. CASE Client
  <2>1. ASSUME NEW o, NEW asked, NEW flag, Start(o, asked, flag) PROVE Table'
    BY <2>1 DEF Start, refreshVars
  <2> QED
    BY <1>1, <2>1 DEF Client, Install, Remove, Upgrade, Upgradable
<1>2. ASSUME NEW p \in Pkg, DoInstall(p) \/ DoRemove(p) \/ Fetch(p) PROVE Table'
  BY <1>2 DEF DoInstall, DoRemove, Fetch, refreshVars
<1>3. ASSUME NEW p \in Pkg, Mark(p) PROVE Table'
  BY <1>3 DEF Mark, refreshVars
<1>4. ASSUME NEW p \in Pkg, Unmark(p) PROVE Table'
  BY <1>4 DEF Unmark, refreshVars
<1>5. CASE Collected
  BY <1>5 DEF Collected, refreshVars
<1>6. CASE Fetched \/ RowsDone
  BY <1>6 DEF Fetched, RowsDone, jobVars, refreshVars
<1>7. ASSUME NEW mode, RpmInstall(mode) PROVE Table'
  <2>1. installed \subseteq installed'
    BY <1>7 DEF RpmInstall
  <2> QED
    BY <1>7, <2>1 DEF RpmInstall, refreshVars
<1>8. CASE RpmErase
  <2>1. installed \ collected \subseteq installed'
    BY <1>8 DEF RpmErase
  <2> QED
    BY <1>8, <2>1 DEF RpmErase, jobVars, refreshVars
<1>9. CASE Cleanup \/ Die
  BY <1>9 DEF Cleanup, Die, refreshVars
<1>10. CASE \E newer \in SUBSET Listed : Refresh(newer)
  BY <1>10 DEF Refresh, jobVars
<1>11. ASSUME NEW p \in Pkg, RefreshRow(p) PROVE Table'
  BY <1>11 DEF RefreshRow, jobVars
<1>12. CASE Refreshed \/ UNCHANGED vars
  BY <1>12 DEF Refreshed, vars, jobVars, refreshVars
<1> QED
  BY <1>1, <1>2, <1>3, <1>4, <1>5, <1>6, <1>7, <1>8, <1>9, <1>10, <1>11, <1>12
     DEF Next, Step, Update

\* As long as NetworkManager's signal does not refresh the table while a
\* worker is in the engine, the table never says installed of a package that
\* is not, and every row a refresh has written is right.
THEOREM TableNeverOverstates ==
  ASSUME ~MainUpdates
  PROVE  Spec => []TableInv
<1>1. Init => TypeOK /\ Shape /\ Table
  BY TypeInit, ShapeInit, TableInit
<1>2. TypeOK /\ Shape /\ Table /\ [Next]_vars => (TypeOK /\ Shape /\ Table)'
  BY TypeStep, ShapeStep, TableStep
<1>3. Table => TableInv
  BY DEF Table, TableInv
<1> QED
  BY <1>1, <1>2, <1>3, PTL DEF Spec
=============================================================================
