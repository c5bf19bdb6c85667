------------------------------ MODULE MCRunGuard ------------------------------
(* The clients for TLC: qjade's guard or, in the process that runs, the icons *)
(* or the catalogue; or the reports of a job's progress.  The parts share no  *)
(* state here; while one of them works the others rest.                       *)
EXTENDS RunGuard, Clients

VARIABLE part

\* Of three packages the second is in both categories, the daemon does not have
\* the third, and the title of the first is not its name.
TwoCategories == <<1, 2>>
TheirPackages == <<<<1, 2>>, <<2, 3>>>>

theReports == <<job, fd, wire, console, called, g_fileName, g_finished, bar, doing, jobs,
                refused, alarms, served, foreign, lost, full, firstFull>>
theIcons == <<png, cfg, loaded, offline, g_getIconCounter, m_installedList, requests, main,
              ends, cut>>
theCatalogue == <<asked, known, g_categoryList, catPkgList, g_qjadePkgList, stack,
                  g_cate_number, g_cate_act_number, m_dataList, searched, failed, handled,
                  mixed, late, found>>

MCInit ==
  /\ Init /\ P!Init /\ I!Init /\ C!Init
  /\ part \in {"guard", "reports", "icons", "catalogue"}
  /\ part # "icons" => ~offline

MCNext ==
  /\ UNCHANGED part
  /\ \/ part = "guard" /\ Next /\ UNCHANGED <<theReports, theIcons, theCatalogue>>
     \/ part = "reports" /\ P!Next /\ UNCHANGED <<vars, theIcons, theCatalogue>>
     \/ part = "icons" /\ I!Next /\ UNCHANGED <<vars, theReports, theCatalogue>>
     \/ part = "catalogue" /\ C!Next /\ UNCHANGED <<vars, theReports, theIcons>>

MCSpec == MCInit /\ [][MCNext]_<<part, vars, theReports, theIcons, theCatalogue>>
=============================================================================
