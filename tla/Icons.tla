--------------------------------- MODULE Icons ---------------------------------
(***************************************************************************)
(* The icons that the list of installed packages shows without a network.  *)
(* A timer of qjade (qjade/src/jadedbus.cpp) asks the daemon for those it  *)
(* misses; GetIcons (src/daemon.cpp), on the daemon's main loop, fetches   *)
(* <name>.png and then writes .<name>.cfg, which names the package; the    *)
(* list is made of the .cfg files.                                         *)
(*                                                                         *)
(* Meanwhile a worker that has installed closes every descriptor from 7    *)
(* to 1999, and may end the process.                                       *)
(***************************************************************************)
EXTENDS Naturals, Sequences, FiniteSets, SequencesExt

CONSTANTS
  Package,    \* installed packages of the catalogue and of the daemon's list
  NoPackage,  \* no package; the name in a .cfg without contents
  MaxEnds     \* a bound on how often workers end an installation

ConstantsOK == IsFiniteSet(Package) /\ NoPackage \notin Package /\ MaxEnds \in Nat

VARIABLES
  png,               \* <name>.png: none, an error page, or an image
  cfg,               \* .<name>.cfg: none, empty, or whole
  loaded, g_offline, \* the catalogue has come; there is no network
  g_getIconCounter,
  m_installedList,   \* rows [name, icon] of the list last shown
  requests,          \* GetIcons calls on their way
  main,              \* the call that the main loop works at
  ends,
  cut                \* history: packages whose .cfg was opened for writing
                     \* and not written

vars == <<png, cfg, loaded, g_offline, g_getIconCounter, m_installedList, requests, main, ends, cut>>

NoCall == [pc |-> "idle", name |-> NoPackage, fd |-> FALSE]

Init ==
  /\ png = [n \in Package |-> "none"] /\ cfg = [n \in Package |-> "none"]
  /\ loaded = FALSE /\ g_offline \in BOOLEAN
  /\ g_getIconCounter = 0
  /\ m_installedList = {}
  /\ requests = <<>> /\ main = NoCall
  /\ ends = 0 /\ cut = {}

\* The catalogue's lists have come.
Load ==
  /\ ~loaded /\ loaded' = TRUE
  /\ UNCHANGED <<png, cfg, g_offline, g_getIconCounter, m_installedList, requests, main, ends, cut>>

NetworkChange ==
  /\ g_offline' = ~g_offline
  /\ UNCHANGED <<png, cfg, loaded, g_getIconCounter, m_installedList, requests, main, ends, cut>>

Missing == {n \in Package : png[n] = "none" \/ cfg[n] = "none"}

\* Every 30 s; of ten times once, when there are lists, the missing icons are
\* asked for.  (Ten times 30 s are long next to the calls.)
getIconTimeOut ==
  /\ IF g_getIconCounter = 0 /\ loaded
       THEN /\ requests = <<>> /\ main = NoCall
            /\ requests' = SetToSeq(Missing) /\ g_getIconCounter' = 1
       ELSE /\ UNCHANGED requests
            /\ g_getIconCounter' = IF g_getIconCounter \in {0, 9} THEN 0 ELSE g_getIconCounter + 1
  /\ UNCHANGED <<png, cfg, loaded, g_offline, m_installedList, main, ends, cut>>

-----------------------------------------------------------------------------

\* The main loop takes a call: it begins to download.
daemon_get_icons ==
  /\ requests # <<>> /\ main = NoCall
  /\ requests' = Tail(requests)
  /\ main' = [pc |-> "download", name |-> Head(requests), fd |-> FALSE]
  /\ UNCHANGED <<png, cfg, loaded, g_offline, g_getIconCounter, m_installedList, ends, cut>>

\* download_file(): its result is not looked at.
download_file ==
  /\ main.pc = "download"
  /\ \E got \in {png[main.name], "page", "image"} : png' = [png EXCEPT ![main.name] = got]
  /\ main' = [main EXCEPT !.pc = "open"]
  /\ UNCHANGED <<cfg, loaded, g_offline, g_getIconCounter, m_installedList, requests, ends, cut>>

\* The .cfg is created or opened as it is; it may be impossible.
OpenCfg ==
  /\ main.pc = "open"
  /\ \/ /\ main' = [main EXCEPT !.pc = "write", !.fd = TRUE]
        /\ cfg' = [cfg EXCEPT ![main.name] = IF @ = "none" THEN "empty" ELSE @]
     \/ main' = NoCall /\ UNCHANGED cfg
  /\ UNCHANGED <<png, loaded, g_offline, g_getIconCounter, m_installedList, requests, ends, cut>>

Lost == IF main.fd /\ cfg[main.name] = "empty" THEN {main.name} ELSE {}

\* Mutant: nothing is written when the download has failed.
WriteCfg_IfImage ==
  /\ main.pc = "write"
  /\ cfg' = IF main.fd /\ png[main.name] = "image" THEN [cfg EXCEPT ![main.name] = "whole"] ELSE cfg
  /\ main' = NoCall
  /\ UNCHANGED <<png, loaded, g_offline, g_getIconCounter, m_installedList, requests, ends, cut>>

\* write(), which may fail, and close(): their results are not looked at.
WriteCfg ==
  /\ main.pc = "write"
  /\ \/ /\ cfg' = IF main.fd THEN [cfg EXCEPT ![main.name] = "whole"] ELSE cfg
        /\ UNCHANGED cut
     \/ cut' = cut \cup Lost /\ UNCHANGED cfg
  /\ main' = NoCall
  /\ UNCHANGED <<png, loaded, g_offline, g_getIconCounter, m_installedList, requests, ends>>

\* A worker closes the descriptors, that of the .cfg too if it is 7 or more ...
install_routine ==
  /\ ends < MaxEnds /\ ends' = ends + 1
  /\ main' = [main EXCEPT !.fd = FALSE]
  /\ cut' = cut \cup Lost
  /\ UNCHANGED <<png, cfg, loaded, g_offline, g_getIconCounter, m_installedList, requests>>

\* ... and may end the process and the calls routed to it.
Exit ==
  /\ ends < MaxEnds /\ ends' = ends + 1
  /\ main' = NoCall /\ requests' = <<>>
  /\ cut' = cut \cup Lost
  /\ UNCHANGED <<png, cfg, loaded, g_offline, g_getIconCounter, m_installedList>>

-----------------------------------------------------------------------------

Online == {[name |-> n, icon |-> "catalogue"] : n \in IF loaded THEN Package ELSE {}}

\* What a .cfg says; the .png is shown if it is one.
Row(n) ==
  IF cfg[n] = "whole" THEN [name |-> n, icon |-> IF png[n] = "image" THEN "image" ELSE "none"]
                      ELSE [name |-> NoPackage, icon |-> "none"]

\* The view of the installed packages: what the catalogue knows is added to it,
\* but offline, or when it has nothing, it is made of the .cfg files.
getInstalledTimeout ==
  /\ m_installedList' = IF m_installedList \cup Online = {} \/ g_offline
                          THEN {Row(n) : n \in {x \in Package : cfg[x] # "none"}}
                          ELSE m_installedList \cup Online
  /\ UNCHANGED <<png, cfg, loaded, g_offline, g_getIconCounter, requests, main, ends, cut>>

Next ==
  \/ Load \/ NetworkChange \/ getIconTimeOut \/ getInstalledTimeout
  \/ daemon_get_icons \/ download_file \/ OpenCfg \/ WriteCfg
  \/ install_routine \/ Exit

Spec == Init /\ [][Next]_vars

-----------------------------------------------------------------------------

TypeOK ==
  /\ png \in [Package -> {"none", "page", "image"}]
  /\ cfg \in [Package -> {"none", "empty", "whole"}]
  /\ {loaded, g_offline} \subseteq BOOLEAN
  /\ g_getIconCounter \in 0 .. 9
  /\ \A row \in m_installedList :
       row.name \in Package \cup {NoPackage} /\ row.icon \in {"none", "image", "catalogue"}
  /\ main.name \in Package \cup {NoPackage}
  /\ cut \subseteq Package

\* A .cfg without contents, which the list shows as a row without a name, is
\* one whose call is between its open() and its write(), or was there when its
\* descriptor was closed or the process ended, or could not write.
EmptyWasCut ==
  \A n \in Package : cfg[n] = "empty" => n \in cut \/ (main.pc = "write" /\ main.name = n)

\* No icon's .cfg is left empty without a cause.
IconsInv == TypeOK /\ EmptyWasCut
=============================================================================
