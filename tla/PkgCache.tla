------------------------------- MODULE PkgCache -------------------------------
(***************************************************************************)
(* The table pkgcache.db, its package lists and its due date               *)
(* (isoftapp.cpp): needUpdate(), update(), and downloaded_source(), which  *)
(* update() hands every list to.                                           *)
(*                                                                         *)
(* update() runs in a worker, which holds the daemon's mutex, and on the   *)
(* main loop when NetworkManager reports a connection, which does not.     *)
(*                                                                         *)
(* A list is the set of packages it has, and a row the version of the list *)
(* it was written from, 0 for no row.  pkgcache.db is a hard link of its   *)
(* template, so `rows', which is what the template's file holds, outlives  *)
(* the link; the rows are to be seen only while pkgcache.db is that link.  *)
(* It can also be missing; be a file without the table, which              *)
(* sqlite3_open() makes where there is none; or have an old table, whose   *)
(* rows are not followed.  A file without rows is not larger than the      *)
(* template, 7168 bytes.  What two downloads do to the bytes of one file   *)
(* is in Download.                                                         *)
(***************************************************************************)
EXTENDS Naturals

CONSTANTS
  Pkg,
  Sources,      \* number of configured sources
  List,         \* the packages of each source's list
  Linkable,     \* whether link() can succeed: one file system for both
  MaxVersion,   \* a bound on the versions of each list
  MaxDay,       \* a bound on the days
  MaxConnects,  \* a bound on the connections NetworkManager reports
  MaxQueries,   \* a bound on the queries while an update runs
  MaxDeaths     \* a bound on the deaths of the process

Source == 1 .. Sources

ASSUME SourcesAssumption == Sources \in Nat \ {0}
ASSUME ListAssumption ==
  /\ List \in [Source -> SUBSET Pkg]
  /\ \A s \in Source : List[s] # {}
  /\ \A r, s \in Source : r # s => List[r] \cap List[s] = {}
ASSUME LinkableAssumption == Linkable \in BOOLEAN
ASSUME BoundsAssumption ==
  /\ MaxVersion \in Nat \ {0}
  /\ MaxDay \in Nat /\ MaxConnects \in Nat /\ MaxQueries \in Nat /\ MaxDeaths \in Nat

VARIABLES
  day,
  offers,      \* version of the list each source's server has
  file,        \* each source's list under <cache>/base
  path, rows,  \* what pkgcache.db is, and the rows of the template's table
  stamp,       \* days in the timestamp file, at most one
  th,          \* where each thread is in update()
  deaths, connects, queries,
  base, done,  \* what was offered when the running updates began, and the
               \* sources one of them has written every row of
  crossed      \* the main loop has taken part in them

world == <<day, offers>>
counts == <<deaths, connects, queries>>
past == <<base, done, crossed>>
vars == <<world, file, path, rows, stamp, th, counts, past>>

Thread == {"worker", "loop"}
Content == [version : 0 .. MaxVersion, whole : BOOLEAN]
NoFile == [version |-> 0, whole |-> FALSE]
Empty == [p \in Pkg |-> 0]
Idle == [pc |-> "idle", at |-> 1, got |-> NoFile, left |-> {}]
AllIdle == \A t \in Thread : th[t].pc = "idle"

\* The rows that pkgcache.db shows.
Visible == IF path = "template" THEN rows ELSE Empty

NeedUpdate ==
  \/ path # "old" /\ Visible = Empty
  \/ \A d \in stamp : d < day

\* sqlite3_open() makes a file where there is none.
Opened == IF path = "none" THEN "empty" ELSE path

\* Another thread may hold the table's lock, for rows, or a worker for its job.
Busy(t) ==
  IF t = "loop" THEN th["worker"].pc \in {"idle", "rows"} ELSE th["loop"].pc = "rows"

-----------------------------------------------------------------------------

Init ==
  /\ day = 0
  /\ offers = [s \in Source |-> 1]
  /\ file = [s \in Source |-> NoFile]
  /\ path \in {"none", "empty", "old", "template"}
  /\ rows = Empty
  /\ stamp = {}
  /\ th = [t \in Thread |-> Idle]
  /\ deaths = 0 /\ connects = 0 /\ queries = 0
  /\ base = offers /\ done = {} /\ crossed = FALSE

NextDay ==
  /\ day < MaxDay /\ day' = day + 1
  /\ UNCHANGED <<offers, file, path, rows, stamp, th, counts, past>>

Publish(s) ==
  /\ offers[s] < MaxVersion
  /\ offers' = [offers EXCEPT ![s] = @ + 1]
  /\ UNCHANGED <<day, file, path, rows, stamp, th, counts, past>>

\* The first of the updates that run together takes note of the offers.
Begin(t) ==
  /\ th[t].pc = "idle"
  /\ th' = [th EXCEPT ![t] = [Idle EXCEPT !.pc = "source"]]
  /\ base' = IF AllIdle THEN offers ELSE base
  /\ done' = IF AllIdle THEN {} ELSE done
  /\ crossed' = (t = "loop" \/ (crossed /\ ~AllIdle))
  /\ UNCHANGED <<world, file, path, rows, stamp, deaths, queries>>

\* checkDB(): by a worker before its job, and by nm_signal().
Check == NeedUpdate /\ Begin("worker") /\ UNCHANGED connects
Connected ==
  /\ connects < MaxConnects /\ connects' = connects + 1
  /\ NeedUpdate /\ Begin("loop")

\* Mutant: the timer asks needUpdate().
Update_Checks ==
  \/ NeedUpdate /\ Begin("worker") /\ UNCHANGED connects
  \/ ~NeedUpdate /\ UNCHANGED vars

\* Update() and the timer's update_routine().
Update == Begin("worker") /\ UNCHANGED connects

\* The thread goes on with record rec.
Goto(t, from, to, rec) ==
  /\ th[t].pc = from
  /\ th' = [th EXCEPT ![t] = [rec EXCEPT !.pc = to]]

NextSource(t, from) ==
  Goto(t, from, "source", [Idle EXCEPT !.at = th[t].at + 1])

\* A request for the list of the next source.
Request(t) ==
  /\ th[t].at \in Source
  /\ Goto(t, "source", "transfer",
          [th[t] EXCEPT !.got = [version |-> offers[th[t].at], whole |-> TRUE]])
  /\ UNCHANGED <<world, file, path, rows, stamp, counts, past>>

\* Mutant: a list that is there is not replaced.
Answer_KeepsFile(t, whole) ==
  /\ Goto(t, "transfer", "open", th[t])
  /\ file' = [file EXCEPT ![th[t].at] = IF @.whole THEN @
                                        ELSE [th[t].got EXCEPT !.whole = whole]]
  /\ UNCHANGED <<world, path, rows, stamp, counts, past>>

\* The answer replaces the file whatever it is.  Only after a 404 is
\* downloaded_source() not called.
Answer(t, whole) ==
  /\ Goto(t, "transfer", "open", th[t])
  /\ file' = [file EXCEPT ![th[t].at] = [th[t].got EXCEPT !.whole = whole]]
  /\ UNCHANGED <<world, path, rows, stamp, counts, past>>

NotFound(t) ==
  /\ NextSource(t, "transfer")
  /\ file' = [file EXCEPT ![th[t].at] = NoFile]
  /\ UNCHANGED <<world, path, rows, stamp, counts, past>>

\* The list is opened, if the other thread has not removed it, and then
\* pkgcache.db.  No table, an old one, or any error, as that of a table in
\* use, makes pkgcache.db old.
Open(t) ==
  /\ th[t].pc = "open"
  /\ \/ /\ file[th[t].at] = NoFile
        /\ NextSource(t, "open") /\ UNCHANGED path
     \/ /\ file[th[t].at] # NoFile
        /\ \E isNew \in BOOLEAN :
             /\ IF isNew THEN path = "template" ELSE path # "template" \/ Busy(t)
             /\ Goto(t, "open", IF isNew THEN "reopen" ELSE "unlink",
                     [th[t] EXCEPT !.got = file[th[t].at]])
        /\ path' = Opened
  /\ UNCHANGED <<world, file, rows, stamp, counts, past>>

\* Only an old pkgcache.db is unlinked and linked to the template, in two
\* calls nobody looks at the results of.
Unlink(t) ==
  /\ Goto(t, "unlink", "link", th[t])
  /\ path' = "none"
  /\ UNCHANGED <<world, file, rows, stamp, counts, past>>

\* Mutant: the template is copied.
Link_Copies(t) ==
  /\ Goto(t, "link", "reopen", th[t])
  /\ IF path = "none" /\ Linkable THEN path' = "template" /\ rows' = Empty
                                  ELSE UNCHANGED <<path, rows>>
  /\ UNCHANGED <<world, file, stamp, counts, past>>

\* link() fails where there is a file again.
Link(t) ==
  /\ Goto(t, "link", "reopen", th[t])
  /\ path' = IF path = "none" /\ Linkable THEN "template" ELSE path
  /\ UNCHANGED <<world, file, rows, stamp, counts, past>>

\* Without the table, the first statement fails and the list is dropped.
Reopen(t) ==
  /\ \/ /\ path = "template"
        /\ Goto(t, "reopen", "rows", [th[t] EXCEPT !.left = List[th[t].at]])
     \/ path # "template" /\ NextSource(t, "reopen")
  /\ path' = Opened
  /\ UNCHANGED <<world, file, rows, stamp, counts, past>>

\* The row of one package, written through the open file.  A broken list does
\* not have the last one, an error page has none.
Row(t, p) ==
  /\ p \in th[t].left
  /\ th[t].got.whole \/ th[t].left # {p}
  /\ Goto(t, "rows", "rows", [th[t] EXCEPT !.left = @ \ {p}])
  /\ rows' = [rows EXCEPT ![p] = th[t].got.version]
  /\ UNCHANGED <<world, file, path, stamp, counts, past>>

RowsEnd(t) ==
  /\ th[t].left = {}
  /\ NextSource(t, "rows")
  /\ done' = done \cup {th[t].at}
  /\ UNCHANGED <<world, file, path, rows, stamp, counts, base, crossed>>

\* The rest of the list is dropped: the list is broken, the table is in use, or
\* sqlite finds that its file has another name now.
Abandon(t) ==
  /\ th[t].left # {}
  /\ ~th[t].got.whole \/ Busy(t) \/ path # "template"
  /\ NextSource(t, "rows")
  /\ UNCHANGED <<world, file, path, rows, stamp, counts, past>>

\* Whatever became of the lists, the time is written.
Stamp(t) ==
  /\ th[t].at \notin Source
  /\ Goto(t, "source", "idle", Idle)
  /\ stamp' = {day}
  /\ UNCHANGED <<world, file, path, rows, counts, past>>

\* The main loop's GetDesktopName, or a worker's job, opens the table.  While
\* the main loop reads, the worker may fail to write a row.
Query ==
  /\ queries < MaxQueries /\ queries' = queries + 1
  /\ \/ (\E t \in Thread : th[t].pc = "idle") /\ UNCHANGED th
     \/ /\ th["loop"].pc = "idle" /\ th["worker"].left # {}
        /\ NextSource("worker", "rows")
  /\ path' = Opened
  /\ UNCHANGED <<world, file, rows, stamp, deaths, connects, past>>

\* The process is killed, exits or loses its power.
Die ==
  /\ deaths < MaxDeaths /\ ~AllIdle
  /\ deaths' = deaths + 1
  /\ th' = [t \in Thread |-> Idle]
  /\ UNCHANGED <<world, file, path, rows, stamp, connects, queries, past>>

\* What update() does of itself once the answer is there.
Continue(t) ==
  \/ Request(t) \/ Open(t) \/ Unlink(t) \/ Link(t) \/ Reopen(t)
  \/ RowsEnd(t) \/ Abandon(t) \/ Stamp(t)
  \/ \E p \in Pkg : Row(t, p)

Next ==
  \/ NextDay
  \/ \E s \in Source : Publish(s)
  \/ Update \/ Check \/ Connected
  \/ \E t \in Thread :
       \/ \E whole \in BOOLEAN : Answer(t, whole)
       \/ NotFound(t)
       \/ Continue(t)
  \/ Query \/ Die

\* Threads run and requests end.  Of the answers the server gives to the
\* requests for one list again and again, some are the whole list.  The timer
\* comes back.
AnswersFor(s) == th["worker"].at = s /\ Answer("worker", TRUE)
Fairness ==
  /\ \A t \in Thread : WF_vars(Continue(t))
  /\ \A t \in Thread : WF_vars(NotFound(t) \/ \E whole \in BOOLEAN : Answer(t, whole))
  /\ \A s \in Source : SF_vars(AnswersFor(s))
  /\ SF_vars(Update)

Spec == Init /\ [][Next]_vars /\ Fairness

-----------------------------------------------------------------------------

TypeOK ==
  /\ day \in 0 .. MaxDay
  /\ offers \in [Source -> 1 .. MaxVersion]
  /\ file \in [Source -> Content]
  /\ path \in {"none", "empty", "old", "template"}
  /\ rows \in [Pkg -> 0 .. MaxVersion]
  /\ stamp \subseteq 0 .. MaxDay /\ \A c, d \in stamp : c = d
  /\ th \in [Thread -> [pc : {"idle", "source", "transfer", "open", "unlink", "link",
                              "reopen", "rows"},
                        at : 1 .. Sources + 1, got : Content, left : SUBSET Pkg]]
  /\ \A t \in Thread :
       /\ th[t].pc \notin {"idle", "source"} => th[t].at \in Source
       /\ th[t].pc = "rows" => th[t].left \subseteq List[th[t].at]
  /\ deaths \in 0 .. MaxDeaths /\ connects \in 0 .. MaxConnects
  /\ queries \in 0 .. MaxQueries
  /\ base \in [Source -> 1 .. MaxVersion] /\ done \subseteq Source
  /\ crossed \in BOOLEAN

\* However two updates share the files and the table, also while pkgcache.db is
\* being replaced: once both have ended, by themselves or by death, no list that
\* one of them has written in full is older in the template than the first one
\* could have got.
WrittenIsCurrent ==
  AllIdle => \A s \in done : \A p \in List[s] : rows[p] >= base[s]

\* Rows that pkgcache.db does not show, because a kill, a query, a link() that
\* failed or the other thread came between unlink() and link(), are due: the
\* next needUpdate() says so, whatever the time stamp.
HiddenIsDue == rows # Empty /\ Visible = Empty => NeedUpdate

\* The table is what the lists were, or is due.
CacheInv == TypeOK /\ WrittenIsCurrent /\ HiddenIsDue

\* update() sets today's timestamp even if every list has failed, and another
\* checkDB() leaves things at that until tomorrow.  The timer does not: the
\* table comes to show all the lists that are offered, and keeps them.
TableCatchesUp ==
  <>[](\A s \in Source : \A p \in List[s] : Visible[p] = offers[s])

\* Once a pass has brought rows into the template, no later one removes them,
\* however often pkgcache.db is unlinked.  As long as the main loop takes no
\* part, nobody who looks misses them for a moment either: whatever dies or
\* opens the table in between, a worker unlinks only a file that shows none.
RowsStay ==
  [][\A p \in Pkg : /\ rows[p] > 0 => rows'[p] > 0
                    /\ Visible[p] > 0 /\ Visible'[p] = 0 => crossed]_vars
=============================================================================
