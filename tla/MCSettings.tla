------------------------------ MODULE MCSettings ------------------------------
(* What is kept of packages and their files, for TLC: either the files of an *)
(* installation and the setting of their directory, or one package whose     *)
(* version is compared, or two packages that queries ask for, or two that    *)
(* qjade lists.  The parts share no state here; while one of them works the  *)
(* others rest.                                                              *)
EXTENDS Settings, Tables

CONSTANTS default, home, f, g

TwoDirs == {default, home}
TwoFiles == <<f, g>>
FourSettings == {[path |-> home, mode |-> 1], [path |-> home, mode |-> 2],
                 [path |-> default, mode |-> 2], [path |-> Blank, mode |-> 3]}

VARIABLE part

\* 10 is a library of the system, 11 is nowhere; 21 and 22 are desktop entries.
SomeTexts == {{}, {1}, {1, 2}}
RequiresOf == <<<<11, 10>>, <<10, 11, 1>>>>
ProvidesOf == <<<<20, 21, 22>>, <<20>>>>

OneIsInTwo == {<<1, 2>>}

ASSUME SettingsConstants == ConstantsOK

versions == <<inst, repo>>

queries == <<appdb, status, g_db, query, instList, thisSecond, found, chked, out, ask,
             disturbed>>

lists == <<AllPkgList, m_updateInfo, g_offline, g_updateDone, m_updateList, doing, timers,
           sent, wire, installed, outdated, online, arg, busy, inputs, updates, ended, gone,
           untold>>

MCInit ==
  /\ Init /\ U!Init /\ Q!Init /\ L!Init
  /\ part \in {"settings", "versions", "queries", "lists"}
  /\ part # "lists" => installed = {}

MCNext ==
  /\ UNCHANGED part
  /\ \/ part = "settings" /\ Next /\ UNCHANGED <<versions, queries, lists>>
     \/ part = "versions" /\ U!Next /\ UNCHANGED <<vars, queries, lists>>
     \/ part = "queries" /\ Q!Next /\ UNCHANGED <<vars, versions, lists>>
     \/ part = "lists" /\ L!Next /\ UNCHANGED <<vars, versions, queries>>

MCSpec == MCInit /\ [][MCNext]_<<part, vars, versions, queries, lists>>
=============================================================================
