-------------------------------- MODULE Clients --------------------------------
(***************************************************************************)
(* What the clients keep besides the task queue: the reports of a job's    *)
(* progress (Progress), the icons (Icons) and the catalogue (Catalogue).   *)
(* They share no state here; this module only gives each its variables.    *)
(***************************************************************************)

CONSTANTS
  File, NoFile, Package, NoName, MaxJobs, MaxRefused, MaxWire,  \* see Progress
  Installed, MaxEnds,                                           \* see Icons
  Categories, PackagesOf, Packages, Known, Dated, TitleIsName, NoCategory,
  MaxFailed, MaxReply                                           \* see Catalogue

VARIABLES
  \* the reports
  job, fd, wire, console, called, g_fileName, g_finished, bar, doing, jobs, refused,
  alarms, served, foreign, lost, full, firstFull,
  \* the icons
  png, cfg, loaded, offline, g_getIconCounter, m_installedList, requests, main, ends, cut,
  \* the catalogue
  asked, known, g_categoryList, catPkgList, g_qjadePkgList, stack, g_cate_number,
  g_cate_act_number, m_dataList, searched, failed, handled, mixed, late, found

P == INSTANCE Progress

I == INSTANCE Icons WITH Package <- Installed, NoPackage <- NoName, g_offline <- offline

C == INSTANCE Catalogue WITH AllPkgList <- known

ASSUME ProgressConstants == P!ConstantsOK
ASSUME IconsConstants == I!ConstantsOK
ASSUME CatalogueConstants == C!ConstantsOK

ReportsInv == P!ReportsInv
ConsoleQuitsInTime == P!ConsoleQuitsInTime
IconsInv == I!IconsInv
CatalogueInv == C!CatalogueInv
=============================================================================
