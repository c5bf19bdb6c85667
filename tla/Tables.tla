-------------------------------- MODULE Tables --------------------------------
(***************************************************************************)
(* What is read of the packages besides their files: the versions that are *)
(* compared (UpgradeCheck), what the daemon is asked (Queries) and what    *)
(* qjade lists (StoreLists).  They share no state here; this module only   *)
(* gives each its variables.                                               *)
(***************************************************************************)

CONSTANTS
  Number, Release, MaxParts,                                    \* see UpgradeCheck
  Names, Texts, Requires, OsProvides, Provides, DesktopEntries,
  HasUpdate, None,                                              \* see Queries
  Name, Shown, Inside, Mangled, NoName,
  MaxCalls, MaxWire, MaxInputs                                  \* see StoreLists

VARIABLES
  \* the versions
  inst, repo,
  \* the queries
  appdb, status, g_db, query, instList, thisSecond, found, chked, out, ask, disturbed,
  \* the lists
  AllPkgList, m_updateInfo, g_offline, g_updateDone, m_updateList, doing, timers, sent,
  wire, installed, outdated, online, arg, busy, inputs, updates, ended, gone, untold

U == INSTANCE UpgradeCheck

Q == INSTANCE Queries WITH job <- query

L == INSTANCE StoreLists WITH calls <- sent, answer <- updates

ASSUME VersionsConstants == U!ConstantsOK
ASSUME QueriesConstants == Q!ConstantsOK
ASSUME ListsConstants == L!ConstantsOK

AgreesWithRpm == U!AgreesWithRpm
AnswersInv == Q!AnswersInv
ChecksInv == Q!ChecksInv
OfferedAreOutdated == L!OfferedAreOutdated
OutdatedStayOffered == L!OutdatedStayOffered
RowsInv == L!RowsInv
=============================================================================
