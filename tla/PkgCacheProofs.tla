---------------------------- MODULE PkgCacheProofs ----------------------------
(***************************************************************************)
(* The table and what is read from it.                                     *)
(*                                                                         *)
(* The table is what the lists were, for any packages, lists and bounds,   *)
(* however the two updates interleave and whenever the process dies; the   *)
(* upgrades that are offered are those that rpm would do; and a query      *)
(* answers with what is in the table.                                      *)
(*                                                                         *)
(* The argument for the first: a version that an update carries, and the   *)
(* file that it is about to open, are not older than what was offered when *)
(* the updates that run together began (Carried); so a row that one thread *)
(* has written for its list stays as new as that, whatever the other one   *)
(* writes over it (Written, Done).  An old pkgcache.db is unlinked before  *)
(* the first row is written, and the worker by itself unlinks no link of   *)
(* the template (Linked).                                                  *)
(***************************************************************************)
EXTENDS PkgCache, Tables, Integers, SequencesExt, SequenceTheorems, FiniteSetTheorems, TLAPS

\* Nothing that is under way is older than the offers that were taken note of.
Carried ==
  /\ \A s \in Source : base[s] <= offers[s]
  /\ \A t \in Thread :
       /\ th[t].pc = "transfer" => th[t].got.version >= base[th[t].at]
       /\ th[t].pc = "open" => \/ file[th[t].at].version >= base[th[t].at]
                               \/ file[th[t].at] = NoFile
       /\ th[t].pc \in {"unlink", "link", "reopen", "rows"} =>
            th[t].got.version >= base[th[t].at]

\* An old pkgcache.db is one that nobody has unlinked, and then the template
\* has no rows.  Only the main loop, or the worker while the main loop is in an
\* update as well, unlinks a link of the template.
Linked ==
  /\ path = "old" => /\ rows = Empty
                     /\ \A t \in Thread : th[t].pc \notin {"link", "reopen", "rows"}
  /\ ~crossed => /\ th["loop"].pc = "idle"
                 /\ th["worker"].pc = "unlink" => path # "template"

\* The rows that a thread has behind it.
Written ==
  \A t \in Thread :
    th[t].pc = "rows" => \A p \in List[th[t].at] \ th[t].left : rows[p] >= base[th[t].at]

Done == \A s \in done : \A p \in List[s] : rows[p] >= base[s]

IInv == TypeOK /\ Carried /\ Linked /\ Written /\ Done

-----------------------------------------------------------------------------

LEMMA Bounds ==
  /\ Sources \in Nat /\ Sources >= 1
  /\ MaxVersion \in Nat /\ MaxVersion >= 1
  /\ MaxDay \in Nat /\ MaxConnects \in Nat /\ MaxQueries \in Nat /\ MaxDeaths \in Nat
  BY SourcesAssumption, BoundsAssumption

\* What a thread is.
PCs == {"idle", "source", "transfer", "open", "unlink", "link", "reopen", "rows"}
Threads == [pc : PCs, at : 1 .. Sources + 1, got : Content, left : SUBSET Pkg]
Paths == {"none", "empty", "old", "template"}

Place ==
  \A t \in Thread :
    /\ th[t].pc \notin {"idle", "source"} => th[t].at \in Source
    /\ th[t].pc = "rows" => th[t].left \subseteq List[th[t].at]

LEMMA IdleIsThread == Idle \in Threads
<1>1. 0 \in 0 .. MaxVersion /\ 1 \in 1 .. Sources + 1
  BY Bounds
<1>2. QED
  BY <1>1 DEF Idle, NoFile, Content, Threads, PCs

LEMMA InitIInv == Init => IInv
<1> SUFFICES ASSUME Init PROVE IInv
  OBVIOUS
<1>1. 0 \in 0 .. MaxVersion /\ 1 \in 1 .. MaxVersion /\ 0 \in 0 .. MaxDay
      /\ 0 \in 0 .. MaxDeaths /\ 0 \in 0 .. MaxConnects /\ 0 \in 0 .. MaxQueries
  BY Bounds
<1>2. \A t \in Thread : th[t] = Idle /\ th[t].pc = "idle"
  BY DEF Init, Idle
<1>3. th \in [Thread -> Threads]
  BY IdleIsThread DEF Init
<1>4. TypeOK
  BY <1>1, <1>2, <1>3 DEF Init, TypeOK, NoFile, Content, Empty, Threads, PCs
<1>5. \A s \in Source : offers[s] = 1
  BY DEF Init
<1>6. Carried
  BY <1>2, <1>5 DEF Init, Carried
<1>7. Linked /\ Written /\ Done
  BY <1>2 DEF Init, Linked, Written, Done, Thread
<1>8. QED
  BY <1>4, <1>6, <1>7 DEF IInv

\* A step of thread t leaves the other one where it is.
LEMMA GotoTypes ==
  ASSUME TypeOK, NEW t \in Thread, NEW to \in PCs, NEW rec \in Threads,
         th' = [th EXCEPT ![t] = [rec EXCEPT !.pc = to]]
  PROVE  /\ th'[t].pc = to
         /\ th'[t].at = rec.at /\ th'[t].got = rec.got /\ th'[t].left = rec.left
         /\ \A u \in Thread : u # t => th'[u] = th[u]
         /\ th' \in [Thread -> Threads]
  BY DEF TypeOK, Threads, PCs

\* ... and leads to a source, and to rows of its list.
LEMMA GotoPlace ==
  ASSUME TypeOK, NEW t \in Thread, NEW to \in PCs, NEW rec \in Threads,
         th' = [th EXCEPT ![t] = [rec EXCEPT !.pc = to]],
         to \notin {"idle", "source"} => rec.at \in Source,
         to = "rows" => rec.left \subseteq List[rec.at]
  PROVE  Place'
<1>1. /\ th'[t].pc = to /\ th'[t].at = rec.at /\ th'[t].left = rec.left
      /\ \A u \in Thread : u # t => th'[u] = th[u]
  BY DEF TypeOK, Threads, PCs
<1>2. QED
  BY <1>1 DEF Place, TypeOK

\* The two threads go through the steps; each has one record.
LEMMA ThreadTypes ==
  ASSUME TypeOK, NEW t \in Thread
  PROVE  /\ th[t] \in Threads
         /\ th[t].pc \in PCs /\ th[t].at \in 1 .. Sources + 1
         /\ th[t].got \in Content /\ th[t].got.version \in Nat
         /\ th[t].left \subseteq Pkg
  BY DEF TypeOK, Threads, PCs, Content

\* The step to the next source.
LEMMA NextSourceTypes ==
  ASSUME TypeOK, NEW t \in Thread, NEW from \in {"transfer", "open", "reopen", "rows"},
         NextSource(t, from)
  PROVE  /\ th[t].pc = from /\ th'[t].pc = "source"
         /\ \A u \in Thread : u # t => th'[u] = th[u]
         /\ th' \in [Thread -> Threads] /\ Place'
<1>1. th[t].pc = from
  BY DEF NextSource, Goto
<1>2. th[t].at \in Source
  BY <1>1 DEF TypeOK
<1>3. th[t].at + 1 \in 1 .. Sources + 1
  BY <1>2, Bounds DEF Source
<1>4. [Idle EXCEPT !.at = th[t].at + 1] \in Threads
  BY <1>3, IdleIsThread DEF Threads
<1>5. th' = [th EXCEPT ![t] = [[Idle EXCEPT !.at = th[t].at + 1] EXCEPT !.pc = "source"]]
  BY DEF NextSource, Goto
<1>6. QED
  BY <1>1, <1>4, <1>5, GotoTypes, GotoPlace DEF PCs

\* What the steps from the list to the rows do to their thread and to
\* pkgcache.db.
LEMMA OpenMoves ==
  ASSUME TypeOK, NEW t \in Thread, Open(t)
  PROVE  /\ th[t].pc = "open" /\ th[t].at \in Source
         /\ \/ th'[t].pc = "source"
            \/ /\ th'[t].pc \in {"unlink", "reopen"}
               /\ th'[t].at = th[t].at /\ th'[t].got = file[th[t].at]
               /\ file[th[t].at] # NoFile
         /\ th'[t].pc = "unlink" => path # "template" \/ Busy(t)
         /\ th'[t].pc = "reopen" => path = "template"
         /\ path' \in {path, Opened}
         /\ \A u \in Thread : u # t => th'[u] = th[u]
         /\ th' \in [Thread -> Threads] /\ Place'
<1> DEFINE rec == [th[t] EXCEPT !.got = file[th[t].at]]
<1>1. th[t].pc = "open" /\ th[t].at \in Source
  BY DEF Open, TypeOK
<1>2. rec \in Threads /\ rec.at = th[t].at /\ rec.got = file[th[t].at] /\ rec.left = th[t].left
  BY <1>1, ThreadTypes DEF Threads, TypeOK
<1>3. CASE file[th[t].at] = NoFile
  <2>1. NextSource(t, "open") /\ path' = path
    BY <1>3 DEF Open
  <2>2. QED
    BY <1>1, <2>1, NextSourceTypes
<1>4. CASE file[th[t].at] # NoFile
  <2>1. PICK isNew \in BOOLEAN :
          /\ IF isNew THEN path = "template" ELSE path # "template" \/ Busy(t)
          /\ Goto(t, "open", IF isNew THEN "reopen" ELSE "unlink", rec)
    BY <1>4 DEF Open
  <2>2. path' = Opened
    BY <1>4 DEF Open
  <2> HIDE DEF rec
  <2>3. ASSUME NEW to \in {"unlink", "reopen"}, Goto(t, "open", to, rec)
        PROVE  /\ th'[t].pc = to /\ th'[t].at = rec.at /\ th'[t].got = rec.got
               /\ \A u \in Thread : u # t => th'[u] = th[u]
               /\ th' \in [Thread -> Threads] /\ Place'
    <3>1. th' = [th EXCEPT ![t] = [rec EXCEPT !.pc = to]]
      BY <2>3 DEF Goto
    <3>2. to \in PCs /\ to # "rows" /\ rec \in Threads /\ rec.at \in Source
      BY <1>1, <1>2 DEF PCs
    <3>3. Place'
      BY <3>1, <3>2, GotoPlace
    <3>4. th \in [Thread -> Threads]
      BY DEF TypeOK, Threads, PCs
    <3>5. th'[t] = [rec EXCEPT !.pc = to] /\ \A u \in Thread : u # t => th'[u] = th[u]
      BY <3>1, <3>4
    <3>6. [rec EXCEPT !.pc = to] \in Threads /\ th' \in [Thread -> Threads]
      BY <3>1, <3>2, <3>4 DEF Threads
    <3>7. QED
      BY <3>2, <3>3, <3>5, <3>6 DEF Threads
  <2>4. QED
    BY <1>1, <1>2, <1>4, <2>1, <2>2, <2>3
<1>5. QED
  BY <1>3, <1>4

LEMMA UnlinkMoves ==
  ASSUME TypeOK, NEW t \in Thread, Unlink(t)
  PROVE  /\ th[t].pc = "unlink" /\ th'[t].pc = "link"
         /\ th'[t].at = th[t].at /\ th'[t].got = th[t].got
         /\ path' = "none"
         /\ \A u \in Thread : u # t => th'[u] = th[u]
         /\ th' \in [Thread -> Threads] /\ Place'
<1>1. th[t].pc = "unlink" /\ th[t].at \in Source /\ th[t] \in Threads
  BY ThreadTypes DEF Unlink, Goto, TypeOK
<1>2. th' = [th EXCEPT ![t] = [th[t] EXCEPT !.pc = "link"]] /\ path' = "none"
  BY DEF Unlink, Goto
<1>3. QED
  BY <1>1, <1>2, GotoTypes, GotoPlace DEF PCs

LEMMA LinkMoves ==
  ASSUME TypeOK, NEW t \in Thread, Link(t)
  PROVE  /\ th[t].pc = "link" /\ th'[t].pc = "reopen"
         /\ th'[t].at = th[t].at /\ th'[t].got = th[t].got
         /\ path' \in {path, "template"}
         /\ \A u \in Thread : u # t => th'[u] = th[u]
         /\ th' \in [Thread -> Threads] /\ Place'
<1>1. th[t].pc = "link" /\ th[t].at \in Source /\ th[t] \in Threads
  BY ThreadTypes DEF Link, Goto, TypeOK
<1>2. th' = [th EXCEPT ![t] = [th[t] EXCEPT !.pc = "reopen"]] /\ path' \in {path, "template"}
  BY DEF Link, Goto
<1>3. QED
  BY <1>1, <1>2, GotoTypes, GotoPlace DEF PCs

LEMMA ReopenMoves ==
  ASSUME TypeOK, NEW t \in Thread, Reopen(t)
  PROVE  /\ th[t].pc = "reopen"
         /\ \/ th'[t].pc = "source"
            \/ /\ th'[t].pc = "rows" /\ path = "template"
               /\ th'[t].at = th[t].at /\ th'[t].got = th[t].got
               /\ th'[t].left = List[th[t].at]
         /\ path' = Opened
         /\ \A u \in Thread : u # t => th'[u] = th[u]
         /\ th' \in [Thread -> Threads] /\ Place'
<1>1. th[t].pc = "reopen" /\ th[t].at \in Source /\ path' = Opened
  BY DEF Reopen, NextSource, Goto, TypeOK
<1>2. CASE NextSource(t, "reopen")
  BY <1>1, <1>2, NextSourceTypes
<1>3. CASE path = "template" /\ Goto(t, "reopen", "rows", [th[t] EXCEPT !.left = List[th[t].at]])
  <2> DEFINE rec == [th[t] EXCEPT !.left = List[th[t].at]]
  <2>1. rec \in Threads /\ rec.at = th[t].at /\ rec.got = th[t].got /\ rec.left = List[th[t].at]
    BY <1>1, ThreadTypes, ListAssumption DEF Threads
  <2> HIDE DEF rec
  <2>2. th' = [th EXCEPT ![t] = [rec EXCEPT !.pc = "rows"]]
    BY <1>3 DEF Goto, rec
  <2>3. rec.at \in Source /\ rec.left \subseteq List[rec.at]
    BY <1>1, <2>1
  <2>4. /\ th'[t].pc = "rows" /\ th'[t].at = rec.at /\ th'[t].got = rec.got
        /\ th'[t].left = rec.left /\ \A u \in Thread : u # t => th'[u] = th[u]
        /\ th' \in [Thread -> Threads]
    BY <2>1, <2>2, GotoTypes DEF PCs
  <2>5. Place'
    BY <2>1, <2>2, <2>3, GotoPlace DEF PCs
  <2>6. QED
    BY <1>1, <1>3, <2>1, <2>4, <2>5
<1>4. QED
  BY <1>2, <1>3 DEF Reopen

LEMMA RowMoves ==
  ASSUME TypeOK, NEW t \in Thread, NEW p \in Pkg, Row(t, p)
  PROVE  /\ th[t].pc = "rows" /\ th[t].at \in Source /\ p \in List[th[t].at]
         /\ th'[t].pc = "rows" /\ th'[t].at = th[t].at
         /\ th'[t].got = th[t].got /\ th'[t].left = th[t].left \ {p}
         /\ \A u \in Thread : u # t => th'[u] = th[u]
         /\ th' \in [Thread -> Threads] /\ Place'
         /\ rows'[p] = th[t].got.version
         /\ \A q \in Pkg : q # p => rows'[q] = rows[q]
<1> DEFINE rec == [th[t] EXCEPT !.left = @ \ {p}]
<1>1. th[t].pc = "rows" /\ th[t].at \in Source /\ p \in List[th[t].at]
      /\ th[t].left \subseteq List[th[t].at]
  BY DEF Row, Goto, TypeOK
<1>2. rec \in Threads /\ rec.at = th[t].at /\ rec.got = th[t].got /\ rec.left = th[t].left \ {p}
  BY ThreadTypes DEF Threads
<1> HIDE DEF rec
<1>3. th' = [th EXCEPT ![t] = [rec EXCEPT !.pc = "rows"]]
  BY DEF Row, Goto, rec
<1>4. rows'[p] = th[t].got.version /\ \A q \in Pkg : q # p => rows'[q] = rows[q]
  BY DEF Row, TypeOK
<1>5. /\ th'[t].pc = "rows" /\ th'[t].at = rec.at /\ th'[t].got = rec.got
      /\ th'[t].left = rec.left /\ \A u \in Thread : u # t => th'[u] = th[u]
      /\ th' \in [Thread -> Threads]
  BY <1>2, <1>3, GotoTypes DEF PCs
<1>6. Place'
  BY <1>1, <1>2, <1>3, GotoPlace DEF PCs
<1>7. QED
  BY <1>1, <1>2, <1>4, <1>5, <1>6

\* A query makes a file where there is none, and may drop the worker's list.
LEMMA QueryMoves ==
  ASSUME TypeOK, Query
  PROVE  /\ path' = Opened
         /\ th' = th \/ /\ th'["worker"].pc = "source"
                        /\ th'["loop"] = th["loop"] /\ th["loop"].pc = "idle"
                        /\ th' \in [Thread -> Threads] /\ Place'
<1>1. path' = Opened
  BY DEF Query
<1>2. CASE NextSource("worker", "rows") /\ th["loop"].pc = "idle"
  BY <1>1, <1>2, NextSourceTypes DEF Thread
<1>3. QED
  BY <1>1, <1>2 DEF Query

-----------------------------------------------------------------------------

LEMMA StepTypeOK == TypeOK /\ [Next]_vars => TypeOK'
<1> SUFFICES ASSUME TypeOK, [Next]_vars PROVE TypeOK'
  OBVIOUS
<1> USE DEF world, counts, past
<1>1. CASE NextDay
  BY <1>1, Bounds DEF NextDay, TypeOK
<1>2. ASSUME NEW s \in Source, Publish(s) PROVE TypeOK'
  BY <1>2, Bounds DEF Publish, TypeOK
<1>3. ASSUME NEW t \in Thread, Begin(t), connects' \in 0 .. MaxConnects PROVE TypeOK'
  <2>1. th' \in [Thread -> Threads] /\ Place'
    BY <1>3, IdleIsThread DEF Begin, TypeOK, Place, Threads, PCs
  <2>2. crossed' \in BOOLEAN
    BY <1>3 DEF Begin
  <2>3. QED
    BY <1>3, <2>1, <2>2 DEF Begin, TypeOK, Place, Threads, PCs
<1>4. CASE Update \/ Check
  BY <1>3, <1>4 DEF Update, Check, Thread, TypeOK
<1>5. CASE Connected
  BY <1>3, <1>5, Bounds DEF Connected, Thread, TypeOK
<1>6. ASSUME NEW t \in Thread, NEW whole \in BOOLEAN, Answer(t, whole) PROVE TypeOK'
  <2>1. th[t] \in Threads /\ [th[t].got EXCEPT !.whole = whole] \in Content
    BY ThreadTypes DEF Content
  <2>2. th' \in [Thread -> Threads] /\ Place'
    BY <1>6, <2>1, GotoTypes, GotoPlace DEF Answer, Goto, PCs, TypeOK
  <2>3. QED
    BY <1>6, <2>1, <2>2 DEF Answer, TypeOK, Place, Threads, PCs
<1>7. ASSUME NEW t \in Thread, NotFound(t) PROVE TypeOK'
  <2>1. th' \in [Thread -> Threads] /\ Place'
    BY <1>7, NextSourceTypes DEF NotFound
  <2>2. NoFile \in Content
    BY Bounds DEF NoFile, Content
  <2>3. QED
    BY <1>7, <2>1, <2>2 DEF NotFound, TypeOK, Place, Threads, PCs
<1>8. ASSUME NEW t \in Thread, Request(t) PROVE TypeOK'
  <2> DEFINE rec == [th[t] EXCEPT !.got = [version |-> offers[th[t].at], whole |-> TRUE]]
  <2>1. offers[th[t].at] \in 0 .. MaxVersion
    BY <1>8, Bounds DEF Request, TypeOK
  <2>2. rec \in Threads /\ rec.at = th[t].at
    BY <2>1, ThreadTypes DEF Threads, Content
  <2> HIDE DEF rec
  <2>3. th' \in [Thread -> Threads] /\ Place'
    BY <1>8, <2>2, GotoTypes, GotoPlace DEF Request, Goto, PCs, TypeOK, rec
  <2>4. QED
    BY <1>8, <2>3 DEF Request, TypeOK, Place, Threads, PCs
<1>9. path \in Paths /\ Opened \in Paths
  BY DEF TypeOK, Opened, Paths
<1>10. ASSUME NEW t \in Thread, Open(t) \/ Unlink(t) \/ Link(t) \/ Reopen(t) PROVE TypeOK'
  <2>1. th' \in [Thread -> Threads] /\ Place' /\ path' \in Paths
    BY <1>9, <1>10, OpenMoves, UnlinkMoves, LinkMoves, ReopenMoves DEF Paths
  <2>2. UNCHANGED <<world, file, rows, stamp, counts, past>>
    BY <1>10 DEF Open, Unlink, Link, Reopen
  <2>3. QED
    BY <2>1, <2>2 DEF TypeOK, Place, Threads, PCs, Paths
<1>11. ASSUME NEW t \in Thread, NEW p \in Pkg, Row(t, p) PROVE TypeOK'
  <2>1. th' \in [Thread -> Threads] /\ Place'
    BY <1>11, RowMoves
  <2>2. rows' \in [Pkg -> 0 .. MaxVersion]
    BY <1>11, ThreadTypes DEF Row, TypeOK, Content
  <2>3. QED
    BY <1>11, <2>1, <2>2 DEF Row, TypeOK, Place, Threads, PCs
<1>12. ASSUME NEW t \in Thread, RowsEnd(t) \/ Abandon(t) PROVE TypeOK'
  <2>1. NextSource(t, "rows") /\ th[t].at \in Source
    BY <1>12 DEF RowsEnd, Abandon, NextSource, Goto, TypeOK
  <2>2. th' \in [Thread -> Threads] /\ Place'
    BY <2>1, NextSourceTypes
  <2>3. QED
    BY <1>12, <2>1, <2>2 DEF RowsEnd, Abandon, TypeOK, Place, Threads, PCs
<1>13. ASSUME NEW t \in Thread, Stamp(t) PROVE TypeOK'
  <2>1. th' \in [Thread -> Threads] /\ Place'
    BY <1>13, GotoTypes, GotoPlace, IdleIsThread DEF Stamp, Goto, PCs, TypeOK
  <2>2. QED
    BY <1>13, <2>1 DEF Stamp, TypeOK, Place, Threads, PCs
<1>14. CASE Query
  <2>1. th' \in [Thread -> Threads] /\ Place'
    BY <1>14, QueryMoves DEF TypeOK, Place, Threads, PCs
  <2>2. path' \in Paths /\ queries' \in 0 .. MaxQueries
    BY <1>9, <1>14, Bounds DEF Query, TypeOK
  <2>3. UNCHANGED <<world, file, rows, stamp, deaths, connects, past>>
    BY <1>14 DEF Query
  <2>4. QED
    BY <2>1, <2>2, <2>3 DEF TypeOK, Place, Threads, PCs, Paths
<1>15. CASE Die
  <2>1. th' \in [Thread -> Threads] /\ Place'
    BY <1>15, IdleIsThread DEF Die, Idle, Place
  <2>2. QED
    BY <1>15, <2>1, Bounds DEF Die, TypeOK, Place, Threads, PCs
<1>16. CASE UNCHANGED vars
  BY <1>16 DEF vars, TypeOK
<1>17. QED
  BY <1>1, <1>2, <1>4, <1>5, <1>6, <1>7, <1>8, <1>10, <1>11, <1>12, <1>13, <1>14, <1>15, <1>16
  DEF Next, Continue

\* What is carried is replaced only by an offer, by the file or by nothing.
LEMMA StepCarried == IInv /\ [Next]_vars => Carried'
<1> SUFFICES ASSUME IInv, [Next]_vars PROVE Carried'
  OBVIOUS
<1>0. /\ TypeOK /\ Carried
      /\ \A s \in Source : offers[s] \in Nat /\ base[s] \in Nat /\ file[s].version \in Nat
      /\ \A t \in Thread : th[t] \in Threads /\ th[t].got.version \in Nat
  <2>1. \A t \in Thread : th[t] \in Threads /\ th[t].got.version \in Nat
    BY ThreadTypes DEF IInv
  <2>2. QED
    BY <2>1, Bounds DEF IInv, TypeOK, Content
<1>0a. \A t \in Thread : th[t].pc \notin {"idle", "source"} => th[t].at \in Source
  BY <1>0 DEF TypeOK
<1>1. CASE UNCHANGED <<offers, file, th, base>>
  BY <1>0, <1>1 DEF Carried
<1>2. ASSUME NEW s \in Source, Publish(s) PROVE Carried'
  BY <1>0, <1>2 DEF Publish, Carried, TypeOK, past
<1>3. ASSUME NEW t \in Thread, Begin(t) PROVE Carried'
  <2>1. /\ th'[t].pc = "source" /\ \A u \in Thread : u # t => th'[u] = th[u]
        /\ UNCHANGED <<offers, file>>
    BY <1>0, <1>3 DEF Begin, Idle, TypeOK, world
  <2>2. CASE AllIdle
    BY <1>0, <1>3, <2>1, <2>2 DEF Begin, AllIdle, Carried
  <2>3. CASE ~AllIdle
    BY <1>0, <1>3, <2>1, <2>3 DEF Begin, Carried
  <2>4. QED
    BY <2>2, <2>3
<1>4. CASE Update \/ Check \/ Connected
  BY <1>3, <1>4 DEF Update, Check, Connected, Thread
<1>5. ASSUME NEW t \in Thread, NEW whole \in BOOLEAN, Answer(t, whole) PROVE Carried'
  <2>1. /\ th[t].pc = "transfer" /\ th'[t].pc = "open" /\ th'[t].at = th[t].at
        /\ \A u \in Thread : u # t => th'[u] = th[u]
    BY <1>0, <1>5, GotoTypes DEF Answer, Goto, PCs
  <2>2. file'[th[t].at].version = th[t].got.version
        /\ \A s \in Source : s # th[t].at => file'[s] = file[s]
    BY <1>0, <1>0a, <1>5, <2>1 DEF Answer, TypeOK, Threads, Content
  <2>3. UNCHANGED <<offers, base>>
    BY <1>5 DEF Answer, world, past
  <2>4. QED
    BY <1>0, <1>0a, <2>1, <2>2, <2>3 DEF Carried
<1>6. ASSUME NEW t \in Thread, NotFound(t) PROVE Carried'
  <2>1. th[t].pc = "transfer" /\ th'[t].pc = "source" /\ \A u \in Thread : u # t => th'[u] = th[u]
    BY <1>0, <1>6, NextSourceTypes DEF NotFound
  <2>2. file'[th[t].at] = NoFile /\ \A s \in Source : s # th[t].at => file'[s] = file[s]
    BY <1>0, <1>0a, <1>6, <2>1 DEF NotFound, TypeOK
  <2>3. UNCHANGED <<offers, base>>
    BY <1>6 DEF NotFound, world, past
  <2>4. QED
    BY <1>0, <1>0a, <2>1, <2>2, <2>3 DEF Carried
<1>7. ASSUME NEW t \in Thread, Request(t) PROVE Carried'
  <2> DEFINE rec == [th[t] EXCEPT !.got = [version |-> offers[th[t].at], whole |-> TRUE]]
  <2>1. th[t].at \in Source /\ offers[th[t].at] \in 0 .. MaxVersion
    BY <1>0, <1>7, Bounds DEF Request, TypeOK
  <2>2. rec \in Threads /\ rec.at = th[t].at /\ rec.got.version = offers[th[t].at]
    BY <1>0, <2>1 DEF Threads, Content
  <2> HIDE DEF rec
  <2>3. /\ th'[t].pc = "transfer" /\ th'[t].at = rec.at /\ th'[t].got = rec.got
        /\ \A u \in Thread : u # t => th'[u] = th[u]
    <3>1. th' = [th EXCEPT ![t] = [rec EXCEPT !.pc = "transfer"]]
      BY <1>7 DEF Request, Goto, rec
    <3>2. rec \in Threads
      BY <2>2
    <3>3. QED
      BY <1>0, <3>1, <3>2, GotoTypes DEF PCs
  <2>4. UNCHANGED <<offers, file, base>>
    BY <1>7 DEF Request, world, past
  <2>5. QED
    BY <1>0, <2>1, <2>2, <2>3, <2>4 DEF Carried
<1>8. ASSUME NEW t \in Thread, Open(t) PROVE Carried'
  <2>1. /\ th[t].pc = "open" /\ th[t].at \in Source
        /\ \/ th'[t].pc = "source"
           \/ /\ th'[t].pc \in {"unlink", "reopen"} /\ th'[t].at = th[t].at
              /\ th'[t].got = file[th[t].at] /\ file[th[t].at] # NoFile
        /\ \A u \in Thread : u # t => th'[u] = th[u]
    BY <1>0, <1>8, OpenMoves
  <2>2. UNCHANGED <<offers, file, base>>
    BY <1>8 DEF Open, world, past
  <2>3. QED
    BY <1>0, <2>1, <2>2 DEF Carried
<1>9. ASSUME NEW t \in Thread, Unlink(t) \/ Link(t) \/ Reopen(t) PROVE Carried'
  <2>1. /\ th[t].pc \in {"unlink", "link", "reopen"}
        /\ \/ th'[t].pc = "source"
           \/ /\ th'[t].pc \in {"link", "reopen", "rows"}
              /\ th'[t].at = th[t].at /\ th'[t].got = th[t].got
        /\ \A u \in Thread : u # t => th'[u] = th[u]
    BY <1>0, <1>9, UnlinkMoves, LinkMoves, ReopenMoves
  <2>2. UNCHANGED <<offers, file, base>>
    BY <1>9 DEF Unlink, Link, Reopen, world, past
  <2>3. QED
    BY <1>0, <2>1, <2>2 DEF Carried
<1>10. ASSUME NEW t \in Thread, NEW p \in Pkg, Row(t, p) PROVE Carried'
  <2>1. /\ th[t].pc = "rows" /\ th'[t].pc = "rows" /\ th'[t].at = th[t].at
        /\ th'[t].got = th[t].got /\ \A u \in Thread : u # t => th'[u] = th[u]
    BY <1>0, <1>10, RowMoves
  <2>2. UNCHANGED <<offers, file, base>>
    BY <1>10 DEF Row, world, past
  <2>3. QED
    BY <1>0, <2>1, <2>2 DEF Carried
<1>11. ASSUME NEW t \in Thread, RowsEnd(t) \/ Abandon(t) PROVE Carried'
  <2>1. th'[t].pc = "source" /\ \A u \in Thread : u # t => th'[u] = th[u]
    BY <1>0, <1>11, NextSourceTypes DEF RowsEnd, Abandon
  <2>2. UNCHANGED <<offers, file, base>>
    BY <1>11 DEF RowsEnd, Abandon, world, past
  <2>3. QED
    BY <1>0, <2>1, <2>2 DEF Carried
<1>12. ASSUME NEW t \in Thread, Stamp(t) PROVE Carried'
  <2>1. th'[t].pc = "idle" /\ \A u \in Thread : u # t => th'[u] = th[u]
    BY <1>0, <1>12, GotoTypes, IdleIsThread DEF Stamp, Goto, PCs
  <2>2. UNCHANGED <<offers, file, base>>
    BY <1>12 DEF Stamp, world, past
  <2>3. QED
    BY <1>0, <2>1, <2>2 DEF Carried
<1>13. CASE Query
  <2>1. \A t \in Thread : th'[t] = th[t] \/ th'[t].pc = "source"
    BY <1>0, <1>13, QueryMoves DEF Thread
  <2>2. UNCHANGED <<offers, file, base>>
    BY <1>13 DEF Query, world, past
  <2>3. QED
    BY <1>0, <2>1, <2>2 DEF Carried
<1>14. CASE Die
  BY <1>0, <1>14 DEF Die, Idle, Carried, world, past
<1>15. QED
  BY <1>1, <1>2, <1>4, <1>5, <1>6, <1>7, <1>8, <1>9, <1>10, <1>11, <1>12, <1>13, <1>14
  DEF Next, Continue, NextDay, vars, world, past

\* Who links, opens again or writes has unlinked an old pkgcache.db, and the
\* worker by itself unlinks nothing else.
LEMMA StepLinked == IInv /\ [Next]_vars => Linked'
<1> SUFFICES ASSUME IInv, [Next]_vars PROVE Linked'
  OBVIOUS
<1> USE DEF world, counts, past
<1>0. TypeOK /\ Linked /\ "worker" \in Thread /\ "loop" \in Thread
      /\ \A t \in Thread : t \in {"worker", "loop"}
  BY DEF IInv, Thread
<1>1. CASE UNCHANGED <<path, rows, th, crossed>>
  BY <1>0, <1>1 DEF Linked
<1>2. ASSUME NEW t \in Thread, Begin(t) PROVE Linked'
  <2>1. /\ th[t].pc = "idle" /\ th'[t].pc = "source"
        /\ \A u \in Thread : u # t => th'[u] = th[u]
        /\ UNCHANGED <<path, rows>>
    BY <1>0, <1>2 DEF Begin, Idle, TypeOK
  <2>2. ~crossed' => t = "worker" /\ th["loop"].pc = "idle"
    BY <1>0, <1>2 DEF Begin, AllIdle, Linked
  <2>3. QED
    BY <1>0, <2>1, <2>2 DEF Linked
<1>3. CASE Update \/ Check \/ Connected
  BY <1>2, <1>3 DEF Update, Check, Connected, Thread
<1>4. ASSUME NEW t \in Thread, th[t].pc # "idle", UNCHANGED <<rows, crossed>>,
             path' \in {path, Opened}, th'[t].pc \notin {"unlink", "link", "reopen", "rows"},
             \A u \in Thread : u # t => th'[u] = th[u]
      PROVE  Linked'
  BY <1>0, <1>4 DEF Linked, Opened
<1>5. ASSUME NEW t \in Thread, NEW whole \in BOOLEAN, Answer(t, whole) PROVE Linked'
  <2>1. th[t].pc = "transfer" /\ th'[t].pc = "open" /\ \A u \in Thread : u # t => th'[u] = th[u]
    BY <1>0, <1>5, ThreadTypes, GotoTypes DEF Answer, Goto, PCs
  <2>2. QED
    BY <1>4, <1>5, <2>1 DEF Answer
<1>6. ASSUME NEW t \in Thread, NotFound(t) \/ RowsEnd(t) \/ Abandon(t) PROVE Linked'
  <2>1. th[t].pc # "idle" /\ th'[t].pc = "source" /\ \A u \in Thread : u # t => th'[u] = th[u]
    BY <1>0, <1>6, NextSourceTypes DEF NotFound, RowsEnd, Abandon
  <2>2. QED
    BY <1>4, <1>6, <2>1 DEF NotFound, RowsEnd, Abandon
<1>7. ASSUME NEW t \in Thread, Request(t) PROVE Linked'
  <2>1. th[t].pc = "source" /\ th'[t].pc = "transfer" /\ \A u \in Thread : u # t => th'[u] = th[u]
    BY <1>0, <1>7, ThreadTypes DEF Request, Goto, TypeOK, Threads
  <2>2. QED
    BY <1>4, <1>7, <2>1 DEF Request
<1>8. ASSUME NEW t \in Thread, Open(t) PROVE Linked'
  <2>1. /\ th[t].pc = "open" /\ th'[t].pc \in {"source", "unlink", "reopen"}
        /\ th'[t].pc = "unlink" => path # "template" \/ Busy(t)
        /\ th'[t].pc = "reopen" => path = "template"
        /\ path' \in {path, Opened}
        /\ \A u \in Thread : u # t => th'[u] = th[u]
    BY <1>0, <1>8, OpenMoves
  <2>2. UNCHANGED <<rows, crossed>>
    BY <1>8 DEF Open
  <2>3. ~crossed => t = "worker" /\ ~Busy(t)
    BY <1>0, <2>1 DEF Linked, Busy
  <2>4. path' = "old" => path = "old" /\ th'[t].pc \notin {"link", "reopen", "rows"}
    BY <2>1 DEF Opened
  <2>5. path # "template" => path' # "template"
    BY <2>1 DEF Opened
  <2>6. QED
    BY <1>0, <2>1, <2>2, <2>3, <2>4, <2>5 DEF Linked
<1>9. ASSUME NEW t \in Thread, Unlink(t) PROVE Linked'
  <2>1. /\ th[t].pc = "unlink" /\ th'[t].pc = "link" /\ path' = "none"
        /\ \A u \in Thread : u # t => th'[u] = th[u]
    BY <1>0, <1>9, UnlinkMoves
  <2>2. UNCHANGED <<rows, crossed>>
    BY <1>9 DEF Unlink
  <2>3. QED
    BY <1>0, <2>1, <2>2 DEF Linked
<1>10. ASSUME NEW t \in Thread, Link(t) PROVE Linked'
  <2>1. /\ th[t].pc = "link" /\ th'[t].pc = "reopen" /\ path' \in {path, "template"}
        /\ \A u \in Thread : u # t => th'[u] = th[u]
    BY <1>0, <1>10, LinkMoves
  <2>2. UNCHANGED <<rows, crossed>>
    BY <1>10 DEF Link
  <2>3. path # "old" /\ path' # "old"
    BY <1>0, <2>1 DEF Linked
  <2>4. QED
    BY <1>0, <2>1, <2>2, <2>3 DEF Linked
<1>11. ASSUME NEW t \in Thread, Reopen(t) PROVE Linked'
  <2>1. /\ th[t].pc = "reopen" /\ th'[t].pc \in {"source", "rows"} /\ path' = Opened
        /\ \A u \in Thread : u # t => th'[u] = th[u]
    BY <1>0, <1>11, ReopenMoves
  <2>2. UNCHANGED <<rows, crossed>>
    BY <1>11 DEF Reopen
  <2>3. path' # "old" /\ (path # "template" => path' # "template")
    BY <1>0, <2>1 DEF Linked, Opened
  <2>4. QED
    BY <1>0, <2>1, <2>2, <2>3 DEF Linked
<1>12. ASSUME NEW t \in Thread, NEW p \in Pkg, Row(t, p) PROVE Linked'
  <2>1. /\ th[t].pc = "rows" /\ th'[t].pc = "rows"
        /\ \A u \in Thread : u # t => th'[u] = th[u]
    BY <1>0, <1>12, RowMoves
  <2>2. UNCHANGED <<path, crossed>>
    BY <1>12 DEF Row
  <2>3. QED
    BY <1>0, <2>1, <2>2 DEF Linked
<1>13. ASSUME NEW t \in Thread, Stamp(t) PROVE Linked'
  <2>1. th'[t].pc = "idle" /\ \A u \in Thread : u # t => th'[u] = th[u]
    BY <1>0, <1>13, GotoTypes, IdleIsThread DEF Stamp, Goto, PCs
  <2>2. th[t].pc = "source" /\ UNCHANGED <<path, rows, crossed>>
    BY <1>13 DEF Stamp, Goto
  <2>3. QED
    BY <1>4, <2>1, <2>2
<1>14. CASE Query
  <2>1. \A t \in Thread : th'[t].pc \in {th[t].pc, "source"}
    BY <1>0, <1>14, QueryMoves
  <2>2. th["loop"].pc = "idle" => th'["loop"].pc = "idle"
    BY <1>14, <1>0, QueryMoves
  <2>3. path' = Opened /\ UNCHANGED <<rows, crossed>>
    BY <1>14 DEF Query
  <2>4. (path' = "old" => path = "old") /\ (path # "template" => path' # "template")
    BY <2>3 DEF Opened
  <2>5. QED
    BY <1>0, <2>1, <2>2, <2>3, <2>4 DEF Linked
<1>15. CASE Die
  BY <1>0, <1>15 DEF Die, Idle, Linked
<1>16. QED
  BY <1>1, <1>3, <1>5, <1>6, <1>7, <1>8, <1>9, <1>10, <1>11, <1>12, <1>13, <1>14, <1>15
  DEF Next, Continue, NextDay, Publish, vars

\* A row is written with the version its thread carries.
LEMMA RowIsCarried ==
  ASSUME IInv, NEW t \in Thread, NEW p \in Pkg, Row(t, p)
  PROVE  rows'[p] \in Nat /\ rows'[p] >= base[th[t].at] /\ rows'[p] > 0
<1>1. TypeOK /\ Carried
  BY DEF IInv
<1>2. th[t].pc = "rows" /\ th[t].at \in Source /\ rows'[p] = th[t].got.version
  BY <1>1, RowMoves
<1>3. base[th[t].at] \in 1 .. MaxVersion /\ th[t].got.version \in Nat
  BY <1>1, <1>2, ThreadTypes DEF TypeOK
<1>4. th[t].got.version >= base[th[t].at]
  BY <1>1, <1>2 DEF Carried
<1>5. QED
  BY <1>2, <1>3, <1>4, Bounds

\* Only writing a row changes the rows.
LEMMA RowsChange ==
  ASSUME [Next]_vars, rows' # rows
  PROVE  \E t \in Thread, p \in Pkg : Row(t, p)
  BY DEF Next, Continue, NextDay, Publish, Update, Check, Connected, Begin, Answer, NotFound,
     Request, Open, Unlink, Link, Reopen, RowsEnd, Abandon, Stamp, Query, Die, vars

\* A row that has been written for a source is only written again for it, and
\* then with a version that is as new.
LEMMA RowsGrow ==
  ASSUME IInv, [Next]_vars, base' = base, NEW s \in Source, NEW p \in List[s],
         rows[p] >= base[s]
  PROVE  rows'[p] >= base'[s]
<1>1. TypeOK /\ p \in Pkg
  BY ListAssumption DEF IInv
<1>2. ASSUME NEW t \in Thread, NEW q \in Pkg, Row(t, q) PROVE rows'[p] >= base'[s]
  <2>1. CASE p # q
    BY <1>1, <1>2, <2>1, RowMoves
  <2>2. CASE p = q
    <3>1. th[t].at \in Source /\ p \in List[th[t].at]
      BY <1>1, <1>2, <2>2, RowMoves
    <3>2. \A r \in Source : p \in List[r] => r = s
      BY ListAssumption
    <3>3. th[t].at = s
      BY <3>1, <3>2
    <3>4. rows'[p] >= base[th[t].at]
      BY <1>2, <2>2, RowIsCarried
    <3>5. QED
      BY <3>3, <3>4
  <2>3. QED
    BY <2>1, <2>2
<1>3. QED
  BY <1>2, RowsChange

\* Only the first of the updates that run together takes note of the offers.
LEMMA BaseStays ==
  ASSUME [Next]_vars, ~AllIdle
  PROVE  base' = base /\ done \subseteq done'
  BY DEF Next, Continue, NextDay, Publish, Update, Check, Connected, Begin, Answer, NotFound,
     Request, Open, Unlink, Link, Reopen, Row, RowsEnd, Abandon, Stamp, Query, Die, vars, past

\* Who writes rows after a step did so before it, or has just begun to.
LEMMA ComesToRows ==
  ASSUME TypeOK, [Next]_vars, NEW t \in Thread, th'[t].pc = "rows"
  PROVE  th'[t] = th[t] \/ Reopen(t) \/ \E q \in Pkg : Row(t, q)
<1>1. CASE UNCHANGED th
  BY <1>1
<1>2. ASSUME NEW u \in Thread, Begin(u) PROVE th'[t] = th[t]
  BY <1>2 DEF Begin, Idle, TypeOK
<1>3. ASSUME NEW u \in Thread, NEW whole \in BOOLEAN, Answer(u, whole) PROVE th'[t] = th[t]
  <2>1. th'[u].pc = "open" /\ \A v \in Thread : v # u => th'[v] = th[v]
    BY <1>3, ThreadTypes, GotoTypes DEF Answer, Goto, PCs
  <2>2. QED
    BY <2>1
<1>4. ASSUME NEW u \in Thread, NotFound(u) \/ RowsEnd(u) \/ Abandon(u) PROVE th'[t] = th[t]
  <2>1. th'[u].pc = "source" /\ \A v \in Thread : v # u => th'[v] = th[v]
    BY <1>4, NextSourceTypes DEF NotFound, RowsEnd, Abandon
  <2>2. QED
    BY <2>1
<1>5. ASSUME NEW u \in Thread, Request(u) PROVE th'[t] = th[t]
  BY <1>5, ThreadTypes DEF Request, Goto, TypeOK, Threads
<1>6. ASSUME NEW u \in Thread, Open(u) \/ Unlink(u) \/ Link(u) PROVE th'[t] = th[t]
  <2>1. th'[u].pc # "rows" /\ \A v \in Thread : v # u => th'[v] = th[v]
    BY <1>6, OpenMoves, UnlinkMoves, LinkMoves
  <2>2. QED
    BY <2>1
<1>7. ASSUME NEW u \in Thread, Reopen(u), u # t PROVE th'[t] = th[t]
  BY <1>7, ReopenMoves
<1>8. ASSUME NEW u \in Thread, NEW q \in Pkg, Row(u, q), u # t PROVE th'[t] = th[t]
  BY <1>8, RowMoves
<1>9. ASSUME NEW u \in Thread, Stamp(u) PROVE th'[t] = th[t]
  <2>1. th'[u].pc = "idle" /\ \A v \in Thread : v # u => th'[v] = th[v]
    BY <1>9, GotoTypes, IdleIsThread DEF Stamp, Goto, PCs
  <2>2. QED
    BY <2>1
<1>10. CASE Query
  BY <1>10, QueryMoves DEF Thread
<1>11. CASE Die
  BY <1>11 DEF Die, Idle
<1>12. QED
  BY <1>1, <1>2, <1>3, <1>4, <1>5, <1>6, <1>7, <1>8, <1>9, <1>10, <1>11
  DEF Next, Continue, NextDay, Publish, Update, Check, Connected, Thread, vars

LEMMA StepWritten == IInv /\ [Next]_vars => Written'
<1> SUFFICES ASSUME IInv, [Next]_vars,
                    NEW t \in Thread, th'[t].pc = "rows",
                    NEW p \in List[th'[t].at] \ th'[t].left
             PROVE  rows'[p] >= base'[th'[t].at]
  BY DEF Written
<1>1. TypeOK /\ Written
  BY DEF IInv
<1>2. TypeOK'
  BY <1>1, StepTypeOK
<1>3. th'[t].at \in Source
  BY <1>2 DEF TypeOK
<1>4. CASE th'[t] = th[t]
  <2>1. ~AllIdle
    BY <1>4 DEF AllIdle
  <2>2. rows[p] >= base[th[t].at]
    BY <1>1, <1>4 DEF Written
  <2>3. QED
    BY <1>3, <1>4, <2>1, <2>2, RowsGrow, BaseStays
<1>5. CASE \E q \in Pkg : Row(t, q)
  <2> PICK q \in Pkg : Row(t, q)
    BY <1>5
  <2>1. th[t].pc = "rows" /\ th[t].at = th'[t].at /\ th'[t].left = th[t].left \ {q}
    BY <1>1, RowMoves
  <2>2. ~AllIdle /\ base' = base
    BY <2>1, BaseStays DEF AllIdle
  <2>3. CASE p = q
    BY <2>1, <2>2, <2>3, RowIsCarried
  <2>4. CASE p # q
    <3>1. rows[p] >= base[th[t].at]
      BY <1>1, <2>1, <2>4 DEF Written
    <3>2. QED
      BY <1>3, <2>1, <2>2, <3>1, RowsGrow
  <2>5. QED
    BY <2>3, <2>4
<1>6. CASE Reopen(t)
  BY <1>1, <1>6, ReopenMoves
<1>7. QED
  BY <1>1, <1>4, <1>5, <1>6, ComesToRows

LEMMA StepDone == IInv /\ [Next]_vars => Done'
<1> SUFFICES ASSUME IInv, [Next]_vars, NEW s \in done', NEW p \in List[s]
             PROVE  rows'[p] >= base'[s]
  BY DEF Done
<1>1. TypeOK /\ Written /\ Done
  BY DEF IInv
<1>2. CASE s \in done /\ base' = base
  <2>1. s \in Source /\ rows[p] >= base[s]
    BY <1>1, <1>2 DEF TypeOK, Done
  <2>2. QED
    BY <1>2, <2>1, RowsGrow
<1>3. ASSUME NEW t \in Thread, RowsEnd(t) PROVE rows'[p] >= base'[s]
  <2>1. th[t].pc = "rows" /\ th[t].left = {} /\ done' = done \cup {th[t].at} /\ UNCHANGED <<rows, base>>
    BY <1>3 DEF RowsEnd, NextSource, Goto
  <2>2. CASE s = th[t].at
    BY <1>1, <2>1, <2>2 DEF Written
  <2>3. CASE s # th[t].at
    BY <1>2, <2>1, <2>3
  <2>4. QED
    BY <2>2, <2>3
<1>4. ASSUME NEW t \in Thread, Begin(t) PROVE s \in done /\ base' = base
  BY <1>4 DEF Begin
<1>5. QED
  BY <1>2, <1>3, <1>4
  DEF Next, Continue, NextDay, Publish, Update, Check, Connected, Thread, Answer, NotFound,
      Request, Open, Unlink, Link, Reopen, Row, Abandon, Stamp, Query, Die, vars, past

LEMMA StepIInv == IInv /\ [Next]_vars => IInv'
  BY StepTypeOK, StepCarried, StepLinked, StepWritten, StepDone DEF IInv

LEMMA IInvCacheInv == IInv => CacheInv
<1> SUFFICES ASSUME IInv PROVE CacheInv
  OBVIOUS
<1>1. TypeOK /\ WrittenIsCurrent
  BY DEF IInv, WrittenIsCurrent, Done
<1>2. HiddenIsDue
  BY DEF IInv, Linked, HiddenIsDue, NeedUpdate
<1>3. QED
  BY <1>1, <1>2 DEF CacheInv

\* Whatever two updates do to each other's files, rows and links, no list that
\* one of them has written in full is older in the template than what the
\* servers offered when they began, and rows that pkgcache.db does not show make
\* it due (isoftapp.cpp, update(), downloaded_source() and needUpdate()).
THEOREM TableIsCurrent == Spec => []CacheInv
  BY InitIInv, StepIInv, IInvCacheInv, PTL DEF Spec

-----------------------------------------------------------------------------

\* What pkgcache.db shows goes only with its link, and the link with unlink().
LEMMA LinkGoes ==
  ASSUME TypeOK, Next, path = "template", path' # "template"
  PROVE  \E t \in Thread : Unlink(t)
<1>1. ASSUME NEW t \in Thread, Open(t) \/ Link(t) \/ Reopen(t) PROVE FALSE
  BY <1>1, OpenMoves, LinkMoves, ReopenMoves DEF Opened
<1>2. Query => FALSE
  BY QueryMoves DEF Opened
<1>3. QED
  BY <1>1, <1>2
  DEF Next, Continue, NextDay, Publish, Update, Check, Connected, Begin, Answer, NotFound,
      Request, Row, RowsEnd, Abandon, Stamp, Die

LEMMA StepRowsStay ==
  ASSUME IInv, Next, NEW p \in Pkg
  PROVE  /\ rows[p] > 0 => rows'[p] > 0
         /\ Visible[p] > 0 /\ Visible'[p] = 0 => crossed
<1>1. TypeOK /\ Linked
  BY DEF IInv
<1>2. ASSUME rows[p] > 0 PROVE rows'[p] > 0
  <2>1. ASSUME NEW t \in Thread, NEW q \in Pkg, Row(t, q) PROVE rows'[p] > 0
    <3>1. CASE p = q
      BY <2>1, <3>1, RowIsCarried
    <3>2. CASE p # q
      BY <1>1, <1>2, <2>1, <3>2, RowMoves
    <3>3. QED
      BY <3>1, <3>2
  <2>2. QED
    BY <1>2, <2>1, RowsChange
<1>3. ASSUME Visible[p] > 0, Visible'[p] = 0 PROVE crossed
  <2>1. path = "template" /\ rows[p] > 0
    BY <1>3 DEF Visible, Empty
  <2>2. path' # "template"
    <3>1. path' = "template" => Visible'[p] = rows'[p]
      BY DEF Visible
    <3>2. QED
      BY <1>2, <1>3, <2>1, <3>1
  <2>3. PICK t \in Thread : Unlink(t)
    BY <1>1, <2>1, <2>2, LinkGoes
  <2>4. th[t].pc = "unlink"
    BY <2>3 DEF Unlink, Goto
  <2>5. QED
    BY <1>1, <2>1, <2>4 DEF Linked, Thread
<1>4. QED
  BY <1>2, <1>3

\* No pass removes a row from the template; and what pkgcache.db shows is hidden
\* only while the main loop takes part in the updates, since a worker by itself
\* never unlinks a link of the template (isoftapp.cpp:219-263).
THEOREM NoRowIsLost == Spec => RowsStay
<1>1. IInv /\ [Next]_vars =>
        [\A p \in Pkg : /\ rows[p] > 0 => rows'[p] > 0
                        /\ Visible[p] > 0 /\ Visible'[p] = 0 => crossed]_vars
  BY StepRowsStay
<1>2. QED
  BY <1>1, InitIInv, StepIInv, PTL DEF Spec, RowsStay

(***************************************************************************)
(* What a recursive definition returns. Induction is over a set of         *)
(* numbers: that of the lengths for which the claim holds is all of Nat. A *)
(* fold over a sequence and a function that calls itself for a smaller     *)
(* number are both a CHOOSE of a function, so they need one that exists.   *)
(***************************************************************************)

\* A set of numbers that is not empty has a least one.
LEMMA Least ==
  ASSUME NEW N \in SUBSET Nat, N # {}
  PROVE  \E m \in N : \A k \in N : m <= k
<1>1. PICK m \in N : \A k \in N : <<k, m>> \notin OpToRel(<, Nat)
  BY WFMin, NatLessThanWellFounded
<1>2. ASSUME NEW k \in N PROVE m <= k
  <2>1. ~(k < m)
    BY <1>1 DEF OpToRel
  <2>2. k \in Nat /\ m \in Nat
    OBVIOUS
  <2>3. QED
    BY <2>1, <2>2
<1>3. QED
  BY <1>2

\* Induction, with a set of numbers for the predicate.
LEMMA SetInduction ==
  ASSUME NEW N, 0 \in N, \A k \in Nat : k \in N => k + 1 \in N
  PROVE  Nat \subseteq N
<1>1. SUFFICES ASSUME Nat \ N # {} PROVE FALSE
  OBVIOUS
<1>2. PICK m \in Nat \ N : \A k \in Nat \ N : m <= k
  BY <1>1, Least
<1>3. m - 1 \in Nat /\ m - 1 \in N
  BY <1>2
<1>4. QED
  BY <1>2, <1>3

\* The largest of a set of indices.
LEMMA Largest ==
  ASSUME NEW n \in Nat, NEW s \in SUBSET (1 .. n), s # {}
  PROVE  \E m \in s : \A k \in s : k <= m
<1> DEFINE N == {n - k : k \in s}
<1>1. N \in SUBSET Nat /\ N # {}
  <2>1. \A k \in s : n - k \in Nat
    OBVIOUS
  <2>2. QED
    BY <2>1
<1>2. PICK m \in N : \A k \in N : m <= k
  BY <1>1, Least
<1>3. PICK k \in s : m = n - k
  BY <1>2
<1>4. ASSUME NEW j \in s PROVE j <= k
  <2>1. n - k <= n - j
    BY <1>2, <1>3
  <2>2. j \in Int /\ k \in Int
    OBVIOUS
  <2>3. QED
    BY <2>1, <2>2
<1>5. QED
  BY <1>4

\* A fold takes the elements of a set from the largest index down.
Top(s) == CHOOSE m \in s : \A k \in s : m >= k

\* The index that a fold takes first.
LEMMA TopIs ==
  ASSUME NEW n \in Nat, NEW s \in SUBSET (1 .. n), s # {}
  PROVE  /\ Top(s) \in s
         /\ \A k \in s : k <= Top(s)
         /\ s \ {Top(s)} \in SUBSET (1 .. n)
<1>1. PICK m \in s : \A k \in s : m >= k
  BY Largest
<1>2. Top(s) \in s /\ \A k \in s : Top(s) >= k
  BY <1>1 DEF Top
<1>3. QED
  BY <1>2

\* A fold over the first n indices has a value, whatever set of them it takes.
Folds(g, n, A, zero, step) ==
  /\ g \in [SUBSET (1 .. n) -> A]
  /\ \A s \in SUBSET (1 .. n) :
       g[s] = IF s = {} THEN zero ELSE step[Top(s)][g[s \ {Top(s)}]]

\* By induction over the length: the CHOOSE in a fold has something to choose.
LEMMA FoldExists ==
  ASSUME NEW A, NEW n \in Nat, NEW zero \in A, NEW step \in [1 .. n -> [A -> A]]
  PROVE  \E g : Folds(g, n, A, zero, step)
<1> DEFINE N == {k \in Nat : k <= n => \E g : Folds(g, k, A, zero, step)}
<1>1. 0 \in N
  <2> DEFINE g == [s \in SUBSET (1 .. 0) |-> zero]
  <2>1. g \in [SUBSET (1 .. 0) -> A] /\ \A s \in SUBSET (1 .. 0) : s = {} /\ g[s] = zero
    OBVIOUS
  <2>2. Folds(g, 0, A, zero, step)
    BY <2>1 DEF Folds
  <2>3. QED
    BY <2>2
<1>2. ASSUME NEW k \in Nat, k \in N PROVE k + 1 \in N
  <2>1. SUFFICES ASSUME k + 1 <= n PROVE \E h : Folds(h, k + 1, A, zero, step)
    OBVIOUS
  <2>2. PICK g : Folds(g, k, A, zero, step)
    BY <1>2, <2>1
  <2> DEFINE h == [s \in SUBSET (1 .. k + 1) |->
                     IF k + 1 \in s THEN step[k + 1][g[s \ {k + 1}]] ELSE g[s]]
  <2>3. ASSUME NEW s \in SUBSET (1 .. k + 1), k + 1 \in s
        PROVE  s \ {k + 1} \in SUBSET (1 .. k) /\ g[s \ {k + 1}] \in A /\ h[s \ {k + 1}] = g[s \ {k + 1}]
    <3>1. s \ {k + 1} \in SUBSET (1 .. k) /\ s \ {k + 1} \in SUBSET (1 .. k + 1)
      BY <2>3
    <3>2. g[s \ {k + 1}] \in A
      <4>1. g \in [SUBSET (1 .. k) -> A]
        BY <2>2 DEF Folds
      <4>2. QED
        BY <3>1, <4>1
    <3>3. QED
      BY <3>1, <3>2
  <2>4. ASSUME NEW s \in SUBSET (1 .. k + 1), k + 1 \notin s
        PROVE  s \in SUBSET (1 .. k) /\ g[s] \in A /\ h[s] = g[s]
    <3>1. s \in SUBSET (1 .. k)
      BY <2>4
    <3>2. QED
      BY <3>1, <2>2, <2>4 DEF Folds
  <2>5. ASSUME NEW s \in SUBSET (1 .. k + 1)
        PROVE  h[s] \in A /\ h[s] = IF s = {} THEN zero ELSE step[Top(s)][h[s \ {Top(s)}]]
    <3>1. CASE k + 1 \in s
      <4>1. Top(s) \in s /\ Top(s) >= k + 1
        BY <3>1, TopIs
      <4>2. Top(s) = k + 1
        <5>1. Top(s) \in 1 .. k + 1
          BY <4>1
        <5>2. QED
          BY <4>1, <5>1
      <4>3. h[s] = step[k + 1][g[s \ {k + 1}]]
        BY <3>1
      <4>4. h[s] \in A
        <5>1. k + 1 \in 1 .. n
          BY <2>1
        <5>2. step[k + 1] \in [A -> A] /\ g[s \ {k + 1}] \in A
          BY <2>3, <3>1, <5>1
        <5>3. QED
          BY <4>3, <5>2
      <4>5. QED
        BY <2>3, <3>1, <4>2, <4>3, <4>4
    <3>2. CASE k + 1 \notin s
      <4>1. s \in SUBSET (1 .. k) /\ g[s] \in A /\ h[s] = g[s]
        BY <2>4, <3>2
      <4>2. g[s] = IF s = {} THEN zero ELSE step[Top(s)][g[s \ {Top(s)}]]
        BY <2>2, <4>1 DEF Folds
      <4>3. k + 1 \notin s \ {Top(s)} /\ s \ {Top(s)} \in SUBSET (1 .. k + 1)
        BY <3>2
      <4>4. h[s \ {Top(s)}] = g[s \ {Top(s)}]
        BY <2>4, <4>3
      <4>5. QED
        BY <4>1, <4>2, <4>4
    <3>3. QED
      BY <3>1, <3>2
  <2>6. h \in [SUBSET (1 .. k + 1) -> A]
    BY <2>5
  <2>7. Folds(h, k + 1, A, zero, step)
    BY <2>5, <2>6 DEF Folds
  <2>8. QED
    BY <2>7
<1>3. Nat \subseteq N
  <2> HIDE DEF N
  <2> QED BY <1>1, <1>2, SetInduction
<1>4. QED
  BY <1>3

\* A function that is defined by what it is for a smaller number, up to k.
Recurs(g, k, A, zero, step, prev) ==
  /\ g \in [0 .. k -> A]
  /\ \A n \in 0 .. k : g[n] = IF prev[n] < n THEN step[n][g[prev[n]]] ELSE zero[n]

\* The same for a function on numbers that calls itself for a smaller one,
\* such as the numeral of n for that of n \div 10.
LEMMA RecurrenceToK ==
  ASSUME NEW A, NEW zero \in [Nat -> A], NEW step \in [Nat -> [A -> A]],
         NEW prev \in [Nat -> Nat]
  PROVE  \A k \in Nat : \E g : Recurs(g, k, A, zero, step, prev)
<1> DEFINE N == {k \in Nat : \E g : Recurs(g, k, A, zero, step, prev)}
<1>1. 0 \in N
  <2>1. Recurs([n \in 0 .. 0 |-> zero[n]], 0, A, zero, step, prev)
    BY DEF Recurs
  <2>2. QED
    BY <2>1
<1>2. ASSUME NEW k \in Nat, k \in N PROVE k + 1 \in N
  <2>1. PICK g : Recurs(g, k, A, zero, step, prev)
    BY <1>2
  <2> DEFINE h == [n \in 0 .. k + 1 |-> IF n <= k THEN g[n]
                                        ELSE IF prev[n] < n THEN step[n][g[prev[n]]] ELSE zero[n]]
  <2>2. ASSUME NEW n \in 0 .. k PROVE h[n] = g[n] /\ g[n] \in A
    BY <2>1 DEF Recurs
  <2>3. ASSUME NEW n \in 0 .. k + 1
        PROVE  h[n] \in A /\ h[n] = IF prev[n] < n THEN step[n][h[prev[n]]] ELSE zero[n]
    <3> DEFINE p == prev[n]
    <3>1. n \in Nat /\ p \in Nat /\ zero[n] \in A /\ step[n] \in [A -> A]
      OBVIOUS
    <3>2. p < n => p \in 0 .. k /\ h[p] = g[p] /\ g[p] \in A
      <4> HIDE DEF p, h
      <4> QED BY <2>2, <3>1
    <3>3. n \in 0 .. k => h[n] = g[n] /\ g[n] = IF p < n THEN step[n][g[p]] ELSE zero[n]
      BY <2>1 DEF Recurs
    <3>4. n \notin 0 .. k => h[n] = IF p < n THEN step[n][g[p]] ELSE zero[n]
      OBVIOUS
    <3> HIDE DEF h, p
    <3>5. h[n] = IF p < n THEN step[n][g[p]] ELSE zero[n]
      BY <3>3, <3>4
    <3>6. QED
      BY <3>1, <3>2, <3>5 DEF p
  <2>4. Recurs(h, k + 1, A, zero, step, prev)
    <3>1. h = [n \in 0 .. k + 1 |-> h[n]]
      OBVIOUS
    <3> HIDE DEF h
    <3>2. QED
      BY <2>3, <3>1 DEF Recurs
  <2>5. QED
    BY <2>4
<1>3. Nat \subseteq N
  <2> HIDE DEF N
  <2> QED BY <1>1, <1>2, SetInduction
<1>4. QED
  BY <1>3

\* Two such functions agree where both are defined ...
LEMMA RecurrenceAgrees ==
  ASSUME NEW A, NEW zero \in [Nat -> A], NEW step \in [Nat -> [A -> A]],
         NEW prev \in [Nat -> Nat],
         NEW k \in Nat, NEW g, Recurs(g, k, A, zero, step, prev),
         NEW l \in Nat, NEW h, Recurs(h, l, A, zero, step, prev)
  PROVE  \A n \in Nat : n <= k /\ n <= l => g[n] = h[n]
<1>1. SUFFICES ASSUME {n \in Nat : n <= k /\ n <= l /\ g[n] # h[n]} # {} PROVE FALSE
  OBVIOUS
<1>2. PICK n \in Nat : /\ n <= k /\ n <= l /\ g[n] # h[n]
                       /\ \A m \in Nat : m <= k /\ m <= l /\ g[m] # h[m] => n <= m
  <2> DEFINE D == {n \in Nat : n <= k /\ n <= l /\ g[n] # h[n]}
  <2>1. D \in SUBSET Nat /\ D # {}
    BY <1>1
  <2>2. PICK m \in D : \A i \in D : m <= i
    <3> HIDE DEF D
    <3> QED BY <2>1, Least
  <2>3. QED
    BY <2>2
<1>3. /\ g[n] = IF prev[n] < n THEN step[n][g[prev[n]]] ELSE zero[n]
      /\ h[n] = IF prev[n] < n THEN step[n][h[prev[n]]] ELSE zero[n]
  <2>1. n \in 0 .. k /\ n \in 0 .. l
    BY <1>2
  <2>2. g[n] = IF prev[n] < n THEN step[n][g[prev[n]]] ELSE zero[n]
    BY <2>1 DEF Recurs
  <2>3. h[n] = IF prev[n] < n THEN step[n][h[prev[n]]] ELSE zero[n]
    BY <2>1 DEF Recurs
  <2>4. QED
    BY <2>2, <2>3
<1>4. prev[n] \in Nat /\ prev[n] < n => g[prev[n]] = h[prev[n]]
  BY <1>2
<1>5. QED
  BY <1>2, <1>3, <1>4

\* ... and for all numbers.
RecursOn(f, A, zero, step, prev) ==
  /\ f \in [Nat -> A]
  /\ \A n \in Nat : f[n] = IF prev[n] < n THEN step[n][f[prev[n]]] ELSE zero[n]

\* ... so together they define one for all numbers.
LEMMA RecurrenceExists ==
  ASSUME NEW A, NEW zero \in [Nat -> A], NEW step \in [Nat -> [A -> A]],
         NEW prev \in [Nat -> Nat]
  PROVE  \E f : RecursOn(f, A, zero, step, prev)
<1> DEFINE G(k) == CHOOSE g : Recurs(g, k, A, zero, step, prev)
<1>1. ASSUME NEW k \in Nat PROVE Recurs(G(k), k, A, zero, step, prev)
  BY RecurrenceToK
<1> HIDE DEF G
<1> DEFINE f == [n \in Nat |-> G(n)[n]]
<1>2. ASSUME NEW n \in Nat
      PROVE  f[n] \in A /\ f[n] = IF prev[n] < n THEN step[n][f[prev[n]]] ELSE zero[n]
  <2>1. /\ G(n)[n] \in A
        /\ G(n)[n] = IF prev[n] < n THEN step[n][G(n)[prev[n]]] ELSE zero[n]
    BY <1>1 DEF Recurs
  <2>2. prev[n] \in Nat /\ (prev[n] < n => G(n)[prev[n]] = G(prev[n])[prev[n]])
    <3> DEFINE p == prev[n]
    <3>1. p \in Nat
      OBVIOUS
    <3> HIDE DEF p
    <3>2. Recurs(G(n), n, A, zero, step, prev) /\ Recurs(G(p), p, A, zero, step, prev)
      BY <1>1, <3>1
    <3>3. \A i \in Nat : i <= n /\ i <= p => G(n)[i] = G(p)[i]
      BY <3>1, <3>2, RecurrenceAgrees
    <3>4. p < n => G(n)[p] = G(p)[p]
      BY <3>1, <3>3
    <3>5. QED
      BY <3>1, <3>4 DEF p
  <2>3. QED
    BY <2>1, <2>2
<1>3. f \in [Nat -> A]
  BY <1>2
<1>4. RecursOn(f, A, zero, step, prev)
  BY <1>2, <1>3 DEF RecursOn
<1>5. QED
  BY <1>4

\* Hence the equation that defines Numeral holds.
LEMMA NumeralEquation ==
  \A n \in Nat : U!Numeral[n] = IF n < 10 THEN <<48 + n>>
                                ELSE Append(U!Numeral[n \div 10], 48 + (n % 10))
<1> DEFINE P(g) == g = [i \in Nat |-> IF i < 10 THEN <<48 + i>>
                                      ELSE Append(g[i \div 10], 48 + (i % 10))]
           A == Seq(Int)
           prev == [i \in Nat |-> IF i < 10 THEN i ELSE i \div 10]
           zero == [i \in Nat |-> <<48 + i>>]
           step == [i \in Nat |-> [a \in A |-> Append(a, 48 + (i % 10))]]
<1>1. prev \in [Nat -> Nat]
  OBVIOUS
<1>1a. \A i \in Nat : /\ prev[i] < i <=> i >= 10
                      /\ i < 10 => zero[i] = <<48 + i>>
  OBVIOUS
<1>2. zero \in [Nat -> A]
  OBVIOUS
<1>3. step \in [Nat -> [A -> A]]
  <2>1. \A i \in Nat : 48 + (i % 10) \in Int
    OBVIOUS
  <2>2. QED
    BY <2>1
<1>4. PICK f \in [Nat -> A] :
        \A n \in Nat : f[n] = IF prev[n] < n THEN step[n][f[prev[n]]] ELSE zero[n]
  <2> HIDE DEF A, zero, step, prev
  <2>1. PICK f : RecursOn(f, A, zero, step, prev)
    BY <1>1, <1>2, <1>3, RecurrenceExists
  <2>2. QED
    BY <2>1 DEF RecursOn
<1>5. ASSUME NEW n \in Nat
      PROVE  f[n] = IF n < 10 THEN <<48 + n>> ELSE Append(f[n \div 10], 48 + (n % 10))
  <2>1. CASE n < 10
    <3>1. ~(prev[n] < n) /\ zero[n] = <<48 + n>>
      BY <1>1a, <2>1
    <3> HIDE DEF prev, zero, step
    <3>2. f[n] = zero[n]
      BY <1>4, <3>1
    <3>3. QED
      BY <2>1, <3>1, <3>2
  <2>2. CASE n >= 10
    <3>1. prev[n] = n \div 10 /\ prev[n] < n /\ prev[n] \in Nat
      BY <1>1, <1>1a, <2>2
    <3>2. f[prev[n]] \in A
      BY <3>1
    <3>3. f[n] = step[n][f[prev[n]]]
      BY <1>4, <3>1
    <3>4. step[n][f[prev[n]]] = Append(f[prev[n]], 48 + (n % 10))
      BY <3>2
    <3>5. QED
      BY <2>2, <3>1, <3>3, <3>4
  <2>3. QED
    BY <2>1, <2>2
<1>6. P(f)
  <2>1. f = [n \in Nat |-> f[n]]
    OBVIOUS
  <2>2. QED
    BY <1>5, <2>1
<1>7. P(U!Numeral)
  <2>1. \E g : P(g)
    BY <1>6
  <2> HIDE DEF P
  <2>2. P(CHOOSE g : P(g))
    BY <2>1
  <2>3. U!Numeral = CHOOSE g : P(g)
    BY DEF P, U!Numeral
  <2>4. QED
    BY <2>2, <2>3
<1>8. QED
  <2> DEFINE num == U!Numeral
  <2>1. P(num)
    BY <1>7
  <2> HIDE DEF num
  <2>2. \A n \in Nat : num[n] = IF n < 10 THEN <<48 + n>> ELSE Append(num[n \div 10], 48 + (n % 10))
    BY <2>1
  <2>3. QED
    BY <2>2 DEF num

\* The values that a fold goes through, element by element.
Runs(r, n, A, zero, step) ==
  /\ r \in [0 .. n -> A]
  /\ r[0] = zero
  /\ \A k \in 1 .. n : r[k] = step[k][r[k - 1]]

\* The equations of a fold, as FoldLeft has them.
FollowsSteps(g, n, A, zero, step) ==
  /\ g[{}] = zero
  /\ \A s \in SUBSET (1 .. n) :
       s # {} /\ g[s \ {Top(s)}] \in A => g[s] = step[Top(s)][g[s \ {Top(s)}]]

\* A fold over 1 .. n passes through n + 1 values, each got from the one before.
LEMMA RunOfFold ==
  ASSUME NEW A, NEW n \in Nat, NEW zero \in A, NEW step \in [1 .. n -> [A -> A]],
         NEW g, FollowsSteps(g, n, A, zero, step)
  PROVE  Runs([k \in 0 .. n |-> g[1 .. k]], n, A, zero, step)
<1>1. 1 .. 0 = {}
  OBVIOUS
<1>2. ASSUME NEW k \in 1 .. n
      PROVE  /\ 1 .. k \in SUBSET (1 .. n) /\ 1 .. k # {}
             /\ Top(1 .. k) = k /\ (1 .. k) \ {k} = 1 .. k - 1
  <2>1. 1 .. k \in SUBSET (1 .. n) /\ 1 .. k # {} /\ k \in 1 .. k
    <3>1. \A i \in 1 .. k : i \in 1 .. n
      OBVIOUS
    <3>2. k \in 1 .. k
      OBVIOUS
    <3>3. QED
      BY <3>1, <3>2
  <2>2. Top(1 .. k) \in 1 .. k /\ k <= Top(1 .. k)
    BY <2>1, TopIs
  <2>3. Top(1 .. k) = k
    BY <2>2
  <2>4. QED
    BY <2>1, <2>3
<1>3. ASSUME NEW k \in 1 .. n, g[1 .. k - 1] \in A
      PROVE  g[1 .. k] \in A /\ g[1 .. k] = step[k][g[1 .. k - 1]]
  <2>1. g[1 .. k] = step[k][g[1 .. k - 1]]
    BY <1>2, <1>3 DEF FollowsSteps
  <2>2. step[k] \in [A -> A]
    OBVIOUS
  <2>3. QED
    BY <1>3, <2>1, <2>2
<1> DEFINE N == {k \in Nat : k <= n => g[1 .. k] \in A}
<1>4. 0 \in N
  BY <1>1 DEF FollowsSteps
<1>5. ASSUME NEW k \in Nat, k \in N PROVE k + 1 \in N
  <2>1. SUFFICES ASSUME k + 1 <= n PROVE g[1 .. k + 1] \in A
    OBVIOUS
  <2>2. k + 1 \in 1 .. n /\ (k + 1) - 1 = k
    BY <2>1
  <2>3. g[1 .. k] \in A
    BY <1>5, <2>1
  <2>4. QED
    BY <1>3, <2>2, <2>3
<1>6. Nat \subseteq N
  <2> HIDE DEF N
  <2> QED BY <1>4, <1>5, SetInduction
<1>7. \A k \in 0 .. n : g[1 .. k] \in A
  BY <1>6
<1>8. ASSUME NEW k \in 1 .. n
      PROVE  g[1 .. k] = step[k][g[1 .. k - 1]] /\ k - 1 \in 0 .. n /\ k \in 0 .. n
  <2>1. k - 1 \in 0 .. n /\ k \in 0 .. n
    OBVIOUS
  <2>2. QED
    BY <1>3, <1>7, <2>1
<1> DEFINE r == [k \in 0 .. n |-> g[1 .. k]]
<1>9. r \in [0 .. n -> A] /\ r[0] = zero
  BY <1>1, <1>7 DEF FollowsSteps
<1>10. ASSUME NEW k \in 1 .. n PROVE r[k] = step[k][r[k - 1]]
  BY <1>8
<1>11. QED
  BY <1>9, <1>10 DEF Runs

\* A digit is its own numeral.
LEMMA NumeralOfDigit ==
  ASSUME NEW n \in 0 .. 9
  PROVE  U!Numeral[n] = <<48 + n>>
<1>1. n \in Nat /\ n < 10
  OBVIOUS
<1>2. QED
  BY <1>1, NumeralEquation, Zenon

\* The parts of a version, a dot before each but the first.
LEMMA PartsRun ==
  ASSUME NEW parts \in Seq(0 .. 9), parts # <<>>
  PROVE  \E r : /\ Runs(r, Len(parts) - 1, Seq(Int), <<48 + parts[1]>>,
                        [k \in 1 .. Len(parts) - 1 |->
                           [a \in Seq(Int) |-> (a \o <<46>>) \o <<48 + parts[k + 1]>>]])
                /\ U!FoldLeft(LAMBDA s, n : s \o <<U!Dot>> \o U!Numeral[n],
                              U!Numeral[Head(parts)], Tail(parts)) = r[Len(parts) - 1]
<1> DEFINE m == Len(parts) - 1
           seq == Tail(parts)
           A == Seq(Int)
           zero == <<48 + parts[1]>>
           step == [k \in 1 .. m |-> [a \in A |-> (a \o <<46>>) \o <<48 + parts[k + 1]>>]]
           P(g) == g = [s \in SUBSET (DOMAIN seq) |->
                          IF s = {} THEN U!Numeral[Head(parts)]
                          ELSE (g[s \ {Top(s)}] \o <<46>>) \o U!Numeral[seq[Top(s)]]]
           F == U!FoldLeft(LAMBDA s, n : s \o <<U!Dot>> \o U!Numeral[n],
                           U!Numeral[Head(parts)], Tail(parts))
<1>1. /\ m \in Nat /\ DOMAIN seq = 1 .. m
      /\ \A k \in 1 .. m : seq[k] = parts[k + 1] /\ parts[k + 1] \in 0 .. 9
      /\ parts[1] \in 0 .. 9 /\ Head(parts) = parts[1]
  OBVIOUS
<1>2. /\ U!Numeral[Head(parts)] = zero
      /\ \A k \in 1 .. m : U!Numeral[seq[k]] = <<48 + parts[k + 1]>>
  <2>1. \A k \in 0 .. 9 : U!Numeral[k] = <<48 + k>>
    BY NumeralOfDigit
  <2>2. QED
    BY <1>1, <2>1
<1>3. zero \in A /\ step \in [1 .. m -> [A -> A]]
  <2>1. \A k \in 1 .. m : \A a \in A : (a \o <<46>>) \o <<48 + parts[k + 1]>> \in A
    BY <1>1
  <2>2. zero \in A
    BY <1>1
  <2>3. QED
    BY <2>1, <2>2
<1>4. \E g : P(g)
  <2>1. PICK g : Folds(g, m, A, zero, step)
    <3> HIDE DEF m, A, zero, step
    <3> QED BY <1>1, <1>3, FoldExists
  <2>2. ASSUME NEW s \in SUBSET (1 .. m)
        PROVE  g[s] = IF s = {} THEN U!Numeral[Head(parts)]
                      ELSE (g[s \ {Top(s)}] \o <<46>>) \o U!Numeral[seq[Top(s)]]
    <3>1. CASE s = {}
      BY <1>2, <2>1, <3>1 DEF Folds
    <3>2. CASE s # {}
      <4>1. Top(s) \in 1 .. m /\ s \ {Top(s)} \in SUBSET (1 .. m)
        BY <1>1, <3>2, TopIs
      <4>2. g[s] = step[Top(s)][g[s \ {Top(s)}]] /\ g[s \ {Top(s)}] \in A
        BY <2>1, <3>2, <4>1 DEF Folds
      <4>3. QED
        BY <1>2, <3>2, <4>1, <4>2
    <3>3. QED
      BY <3>1, <3>2
  <2>3. g = [s \in SUBSET (1 .. m) |-> g[s]]
    BY <2>1 DEF Folds
  <2>4. P(g)
    BY <1>1, <2>2, <2>3
  <2>5. QED
    BY <2>4
<1> DEFINE it == CHOOSE g : P(g)
<1>5. P(it)
  <2> HIDE DEF P
  <2> QED BY <1>4
<1>6. F = it[1 .. m]
  <2> DEFINE Eqn(g) == g = [s \in SUBSET (DOMAIN seq) |->
                IF s = {} THEN U!Numeral[Head(parts)]
                ELSE (g[s \ {U!Max(s)}] \o <<U!Dot>>) \o U!Numeral[seq[U!Max(s)]]]
  <2>1. F = (CHOOSE g : Eqn(g))[DOMAIN seq]
    BY DEF U!FoldLeft, U!MapThenFoldSet
  <2>2. \A s : U!Max(s) = Top(s)
    BY DEF U!Max, Top
  <2>3. \A g : Eqn(g) = P(g)
    BY <1>1, <2>2 DEF U!Dot
  <2> HIDE DEF Eqn, P, F
  <2>4. (CHOOSE g : Eqn(g)) = it
    BY <2>3
  <2>5. QED
    BY <1>1, <2>1, <2>4
<1>7. FollowsSteps(it, m, A, zero, step)
  <2> HIDE DEF it
  <2>1. ASSUME NEW s \in SUBSET (1 .. m)
        PROVE  it[s] = IF s = {} THEN U!Numeral[Head(parts)]
                       ELSE (it[s \ {Top(s)}] \o <<46>>) \o U!Numeral[seq[Top(s)]]
    BY <1>1, <1>5
  <2>2. it[{}] = zero
    BY <1>2, <2>1
  <2>3. ASSUME NEW s \in SUBSET (1 .. m), s # {}, it[s \ {Top(s)}] \in A
        PROVE  it[s] = step[Top(s)][it[s \ {Top(s)}]]
    <3>1. Top(s) \in 1 .. m
      BY <1>1, <2>3, TopIs
    <3>2. QED
      BY <1>2, <2>1, <2>3, <3>1
  <2>4. QED
    BY <2>2, <2>3 DEF FollowsSteps
<1>8. Runs([k \in 0 .. m |-> it[1 .. k]], m, A, zero, step)
  <2> HIDE DEF m, A, zero, step, it
  <2> QED BY <1>1, <1>3, <1>7, RunOfFold
<1>9. [k \in 0 .. m |-> it[1 .. k]][m] = it[1 .. m]
  <2> HIDE DEF m, it
  <2>1. m \in 0 .. m
    BY <1>1
  <2>2. QED
    BY <2>1
<1>10. QED
  <2> HIDE DEF it
  <2> QED BY <1>6, <1>8, <1>9

(***************************************************************************)
(* The upgrade listing. The text of a version whose numbers have one digit *)
(* each has the digits at the odd positions, so the first difference of    *)
(* two texts is at the first number that differs, at a dot where one has   *)
(* more numbers, or at the release; atoi() of the rest reads that number.  *)
(***************************************************************************)

\* The text of a version whose numbers have one digit each.
IsText(t, parts, release) ==
  /\ t \in Seq(Int) /\ Len(t) = 2 * Len(parts) + 1
  /\ \A k \in 1 .. Len(parts) : t[2 * k - 1] = 48 + parts[k]
  /\ \A k \in 1 .. Len(parts) - 1 : t[2 * k] = 46
  /\ t[2 * Len(parts)] = 45 /\ t[2 * Len(parts) + 1] = 48 + release

\* With numbers of two digits the comparison goes wrong.
OneDigit == Number \subseteq 0 .. 9 /\ Release \subseteq 0 .. 9

\* What OneDigit says of one version.
LEMMA VersionType ==
  ASSUME OneDigit, NEW v \in U!Version
  PROVE  v.parts \in Seq(0 .. 9) /\ v.parts # <<>> /\ v.release \in 0 .. 9
<1>1. PICK n \in 1 .. MaxParts : v.parts \in [1 .. n -> Number]
  BY DEF U!Version
<1>2. Number \subseteq 0 .. 9 /\ Release \subseteq 0 .. 9
  BY DEF OneDigit
<1>3. MaxParts \in Nat
  BY VersionsConstants DEF U!ConstantsOK
<1>4. n \in Nat /\ n # 0
  BY <1>3
<1>5. v.parts \in [1 .. n -> 0 .. 9]
  BY <1>1, <1>2
<1>6. v.parts \in Seq(0 .. 9) /\ Len(v.parts) = n
  BY <1>4, <1>5
<1>7. v.parts # <<>>
  BY <1>4, <1>6
<1>8. v.release \in 0 .. 9
  BY <1>2 DEF U!Version
<1>9. QED
  BY <1>6, <1>7, <1>8

\* Two characters are appended, a dot and a digit.
LEMMA TwoMore ==
  ASSUME NEW a \in Seq(Int), NEW x \in Int, NEW y \in Int
  PROVE  LET b == (a \o <<x>>) \o <<y>>
         IN  /\ b \in Seq(Int) /\ Len(b) = Len(a) + 2
             /\ \A i \in 1 .. Len(a) : b[i] = a[i]
             /\ b[Len(a) + 1] = x /\ b[Len(a) + 2] = y
<1> DEFINE c == a \o <<x>>
           b == c \o <<y>>
<1>1. /\ c \in Seq(Int) /\ Len(c) = Len(a) + 1
      /\ \A i \in 1 .. Len(a) : c[i] = a[i]
      /\ c[Len(a) + 1] = x
  OBVIOUS
<1> HIDE DEF c
<1>2. /\ b \in Seq(Int) /\ Len(b) = Len(c) + 1
      /\ \A i \in 1 .. Len(c) : b[i] = c[i]
      /\ b[Len(c) + 1] = y
  BY <1>1
<1> HIDE DEF b
<1>3. b = (a \o <<x>>) \o <<y>>
  BY DEF b, c
<1>4. QED
  BY <1>1, <1>2, <1>3

\* The text of a version is its digits, a dot between each two, a dash and the release.
LEMMA TextIs ==
  ASSUME OneDigit, NEW v \in U!Version
  PROVE  IsText(U!Text(v), v.parts, v.release)
<1> DEFINE parts == v.parts
           m == Len(parts) - 1
           A == Seq(Int)
           zero == <<48 + parts[1]>>
           step == [k \in 1 .. m |-> [a \in A |-> (a \o <<46>>) \o <<48 + parts[k + 1]>>]]
<1>1. parts \in Seq(0 .. 9) /\ parts # <<>> /\ v.release \in 0 .. 9
  BY VersionType
<1>2. m \in Nat /\ Len(parts) = m + 1
  BY <1>1
<1>3. PICK r : /\ Runs(r, m, A, zero, step)
               /\ U!FoldLeft(LAMBDA s, n : s \o <<U!Dot>> \o U!Numeral[n],
                             U!Numeral[Head(parts)], Tail(parts)) = r[m]
  BY <1>1, PartsRun
<1> DEFINE Upto(k) == /\ r[k] \in A /\ Len(r[k]) = 2 * k + 1
                      /\ \A j \in 1 .. k + 1 : r[k][2 * j - 1] = 48 + parts[j]
                      /\ \A j \in 1 .. k : r[k][2 * j] = 46
           N == {k \in Nat : k <= m => Upto(k)}
<1>4. 0 \in N
  <2>1. r[0] = <<48 + parts[1]>>
    <3> HIDE DEF step, A, m
    <3>1. r[0] = zero
      BY <1>3 DEF Runs
    <3>2. QED
      BY <3>1
  <2>2. parts[1] \in 0 .. 9
    BY <1>1
  <2>3. Upto(0)
    BY <2>1, <2>2
  <2>4. QED
    BY <2>3
<1>5. ASSUME NEW k \in Nat, k \in N PROVE k + 1 \in N
  <2>1. SUFFICES ASSUME k + 1 <= m PROVE Upto(k + 1)
    OBVIOUS
  <2> DEFINE a == r[k]
             c == 48 + parts[k + 2]
             b == (a \o <<46>>) \o <<c>>
  <2>2. k \in 0 .. m /\ k + 1 \in 1 .. m /\ Upto(k) /\ parts[k + 2] \in 0 .. 9
    <3>1. k <= m /\ k \in 0 .. m /\ k + 1 \in 1 .. m /\ k + 2 \in 1 .. m + 1
      BY <1>2, <2>1
    <3>2. parts[k + 2] \in 0 .. 9
      <4> HIDE DEF m, Upto
      <4>1. k + 2 \in 1 .. Len(parts)
        BY <1>2, <3>1
      <4>2. QED
        BY <1>1, <4>1
    <3>3. Upto(k)
      <4> HIDE DEF Upto
      <4> QED BY <1>5, <3>1
    <3>4. QED
      BY <3>1, <3>2, <3>3
  <2>3. r[k + 1] = b
    <3>1. r[k + 1] = step[k + 1][r[k]]
      <4> HIDE DEF step, A, zero, m
      <4>1. \A i \in 1 .. m : r[i] = step[i][r[i - 1]]
        BY <1>3 DEF Runs
      <4>2. (k + 1) - 1 = k /\ k + 1 \in 1 .. m
        BY <2>2
      <4>3. r[k + 1] = step[k + 1][r[(k + 1) - 1]]
        BY <4>1, <4>2
      <4>4. QED
        BY <4>2, <4>3
    <3>2. a \in A
      BY <2>2
    <3>3. step[k + 1] = [x \in A |-> (x \o <<46>>) \o <<48 + parts[(k + 1) + 1]>>]
      BY <2>2
    <3>4. (k + 1) + 1 = k + 2
      OBVIOUS
    <3> HIDE DEF a, A
    <3>5. step[k + 1][a] = (a \o <<46>>) \o <<48 + parts[k + 2]>>
      BY <3>2, <3>3, <3>4
    <3>6. QED
      BY <3>1, <3>5 DEF a
  <2>4. a \in Seq(Int) /\ Len(a) = 2 * k + 1
    BY <2>2
  <2>5. /\ b \in A /\ Len(b) = 2 * k + 3
        /\ \A i \in 1 .. 2 * k + 1 : b[i] = a[i]
        /\ b[2 * k + 2] = 46 /\ b[2 * k + 3] = 48 + parts[k + 2]
    <3>1. parts[k + 2] \in 0 .. 9
      BY <2>2
    <3>2. c \in Int
      BY <3>1
    <3> HIDE DEF a, c
    <3>3. /\ b \in Seq(Int) /\ Len(b) = Len(a) + 2
          /\ \A i \in 1 .. Len(a) : b[i] = a[i]
          /\ b[Len(a) + 1] = 46 /\ b[Len(a) + 2] = c
      BY <2>4, <3>2, TwoMore
    <3> HIDE DEF b
    <3>4. QED
      BY <2>4, <3>3 DEF c
  <2> HIDE DEF a, b
  <2>6. ASSUME NEW j \in 1 .. k + 2 PROVE b[2 * j - 1] = 48 + parts[j]
    <3>1. CASE j \in 1 .. k + 1
      <4>1. a[2 * j - 1] = 48 + parts[j]
        BY <2>2, <3>1 DEF a
      <4>2. 2 * j - 1 \in 1 .. 2 * k + 1
        BY <3>1
      <4>3. QED
        BY <2>5, <4>1, <4>2
    <3>2. CASE j = k + 2
      <4>1. 2 * j - 1 = 2 * k + 3
        BY <3>2
      <4>2. QED
        BY <2>5, <3>2, <4>1
    <3>3. QED
      BY <3>1, <3>2
  <2>7. ASSUME NEW j \in 1 .. k + 1 PROVE b[2 * j] = 46
    <3>1. CASE j \in 1 .. k
      <4>1. a[2 * j] = 46
        BY <2>2, <3>1 DEF a
      <4>2. 2 * j \in 1 .. 2 * k + 1
        BY <3>1
      <4>3. QED
        BY <2>5, <4>1, <4>2
    <3>2. CASE j = k + 1
      <4>1. 2 * j = 2 * k + 2
        BY <3>2
      <4>2. QED
        BY <2>5, <3>2, <4>1
    <3>3. QED
      BY <3>1, <3>2
  <2>8. QED
    BY <2>3, <2>5, <2>6, <2>7
<1>6. Upto(m)
  <2>1. Nat \subseteq N
    <3> HIDE DEF N
    <3> QED BY <1>4, <1>5, SetInduction
  <2>2. m \in N
    BY <1>2, <2>1
  <2>3. m <= m
    BY <1>2
  <2>4. QED
    BY <2>2, <2>3
<1>7. U!Numeral[v.release] = <<48 + v.release>>
  BY <1>1, NumeralOfDigit
<1> DEFINE f == r[m]
           t == (f \o <<45>>) \o <<48 + v.release>>
<1>8. U!Text(v) = t
  BY <1>3, <1>7 DEF U!Text, U!Dash
<1>9. f \in Seq(Int) /\ Len(f) = 2 * m + 1
  BY <1>6
<1>10. /\ t \in Seq(Int) /\ Len(t) = 2 * m + 3
       /\ \A i \in 1 .. 2 * m + 1 : t[i] = f[i]
       /\ t[2 * m + 2] = 45 /\ t[2 * m + 3] = 48 + v.release
  <2>1. 48 + v.release \in Int
    BY <1>1
  <2> HIDE DEF f
  <2>2. /\ t \in Seq(Int) /\ Len(t) = Len(f) + 2
        /\ \A i \in 1 .. Len(f) : t[i] = f[i]
        /\ t[Len(f) + 1] = 45 /\ t[Len(f) + 2] = 48 + v.release
    <3> DEFINE y == 48 + v.release
    <3>1. f \in Seq(Int) /\ 45 \in Int /\ y \in Int
      BY <1>9, <2>1
    <3> HIDE DEF y
    <3>2. LET b == (f \o <<45>>) \o <<y>>
          IN  /\ b \in Seq(Int) /\ Len(b) = Len(f) + 2
              /\ \A i \in 1 .. Len(f) : b[i] = f[i]
              /\ b[Len(f) + 1] = 45 /\ b[Len(f) + 2] = y
      BY <3>1, TwoMore
    <3>3. QED
      BY <3>2 DEF y
  <2> HIDE DEF t
  <2>3. QED
    BY <1>2, <1>9, <2>2
<1>11. ASSUME NEW j \in 1 .. m + 1 PROVE t[2 * j - 1] = 48 + parts[j]
  <2>1. f[2 * j - 1] = 48 + parts[j] /\ 2 * j - 1 \in 1 .. 2 * m + 1
    BY <1>2, <1>6
  <2> HIDE DEF f, t
  <2>2. QED
    BY <1>10, <2>1
<1>12. ASSUME NEW j \in 1 .. m PROVE t[2 * j] = 46
  <2>1. f[2 * j] = 46 /\ 2 * j \in 1 .. 2 * m + 1
    BY <1>2, <1>6
  <2> HIDE DEF f, t
  <2>2. QED
    BY <1>10, <2>1
<1> HIDE DEF f, t
<1>13. IsText(t, parts, v.release)
  BY <1>2, <1>10, <1>11, <1>12 DEF IsText
<1>14. QED
  BY <1>8, <1>13

\* Min and Max, where there is a least or a greatest.
LEMMA LeastIsMin ==
  ASSUME NEW S \in SUBSET Int, NEW m \in S, \A k \in S : m <= k
  PROVE  U!Min(S) = m
<1>1. \E x \in S : \A y \in S : x <= y
  OBVIOUS
<1>2. U!Min(S) \in S /\ \A y \in S : U!Min(S) <= y
  BY <1>1 DEF U!Min
<1>3. U!Min(S) \in Int /\ m \in Int /\ U!Min(S) <= m /\ m <= U!Min(S)
  BY <1>2
<1>4. QED
  BY <1>3

LEMMA GreatestIsMax ==
  ASSUME NEW S \in SUBSET Int, NEW m \in S, \A k \in S : k <= m
  PROVE  U!Max(S) = m
<1>1. \E x \in S : \A y \in S : x >= y
  OBVIOUS
<1>2. U!Max(S) \in S /\ \A y \in S : U!Max(S) >= y
  BY <1>1 DEF U!Max
<1>3. U!Max(S) \in Int /\ m \in Int /\ U!Max(S) <= m /\ m <= U!Max(S)
  BY <1>2
<1>4. QED
  BY <1>3

\* Texts are compared as far as the shorter one goes.
LEMMA MinOfTwo ==
  ASSUME NEW m \in Int, NEW n \in Int
  PROVE  U!Min({m, n}) = IF m <= n THEN m ELSE n
<1>1. CASE m <= n
  <2>1. \A k \in {m, n} : m <= k
    BY <1>1
  <2>2. U!Min({m, n}) = m
    BY <2>1, LeastIsMin
  <2>3. QED
    BY <1>1, <2>2
<1>2. CASE ~(m <= n)
  <2>1. \A k \in {m, n} : n <= k
    BY <1>2
  <2>2. U!Min({m, n}) = n
    BY <2>1, LeastIsMin
  <2>3. QED
    BY <1>2, <2>2
<1>3. QED
  BY <1>1, <1>2

LEMMA MinOfLengths ==
  ASSUME NEW a \in Seq(Int), NEW b \in Seq(Int)
  PROVE  U!Min({Len(a), Len(b)}) = IF Len(a) <= Len(b) THEN Len(a) ELSE Len(b)
<1> DEFINE m == Len(a)
           n == Len(b)
<1>1. m \in Int /\ n \in Int
  OBVIOUS
<1> HIDE DEF m, n
<1>2. U!Min({m, n}) = IF m <= n THEN m ELSE n
  BY <1>1, MinOfTwo
<1>3. QED
  BY <1>2 DEF m, n

\* The position from which compareVersion() goes on.
LEMMA FirstDifference ==
  ASSUME NEW a \in Seq(Int), NEW b \in Seq(Int), NEW i \in 1 .. Len(a), i <= Len(b),
         \A j \in 1 .. i - 1 : a[j] = b[j], a[i] # b[i]
  PROVE  U!Differing(a, b) # {} /\ U!Min(U!Differing(a, b)) = i
<1> DEFINE D == U!Differing(a, b)
<1>1. U!Min({Len(a), Len(b)}) = IF Len(a) <= Len(b) THEN Len(a) ELSE Len(b)
  BY MinOfLengths
<1>2. /\ \A j \in D : j \in Int /\ j >= 1 /\ a[j] # b[j]
      /\ i \in D
  BY <1>1 DEF U!Differing
<1> HIDE DEF D
<1>3. ASSUME NEW j \in D PROVE i <= j
  <2>1. j \in Int /\ j >= 1 /\ a[j] # b[j]
    BY <1>2
  <2>2. SUFFICES ASSUME j < i PROVE FALSE
    BY <2>1
  <2>3. j \in 1 .. i - 1
    BY <2>1, <2>2
  <2>4. QED
    BY <2>1, <2>3
<1>4. D \in SUBSET Int
  BY <1>2
<1>5. U!Min(D) = i
  BY <1>2, <1>3, <1>4, LeastIsMin
<1>6. QED
  BY <1>2, <1>5 DEF D

LEMMA NoDifference ==
  ASSUME NEW a \in Seq(Int), NEW b \in Seq(Int), Len(a) = Len(b),
         \A j \in 1 .. Len(a) : a[j] = b[j]
  PROVE  U!Differing(a, b) = {}
<1>1. U!Min({Len(a), Len(b)}) = Len(a)
  BY MinOfLengths
<1>2. QED
  BY <1>1 DEF U!Differing

\* atoi() of a text: of nothing, of a digit, of what has no digit in front,
\* of a dot and of a dash.
LEMMA NoDigits == U!ValueOf(<<>>) = 0
<1> DEFINE w == <<>>
           P(g) == g = [s \in SUBSET (DOMAIN w) |->
                         IF s = {} THEN 0 ELSE 10 * g[s \ {U!Max(s)}] + w[U!Max(s)] - 48]
           it == CHOOSE g : P(g)
<1>1. U!ValueOf(w) = it[DOMAIN w]
  BY DEF U!ValueOf, U!FoldLeft, U!MapThenFoldSet
<1>2. DOMAIN w = {}
  OBVIOUS
<1> HIDE DEF w
<1>3. P([s \in SUBSET (DOMAIN w) |-> 0])
  BY <1>2
<1>4. P(it)
  <2>1. \E g : P(g)
    BY <1>3
  <2> HIDE DEF P
  <2>2. QED
    BY <2>1
<1> HIDE DEF it
<1>5. it[{}] = 0
  BY <1>4, <1>2
<1>6. QED
  BY <1>1, <1>2, <1>5 DEF w

LEMMA SingleDigit ==
  ASSUME NEW d \in 0 .. 9
  PROVE  U!ValueOf(<<48 + d>>) = d
<1> DEFINE w == <<48 + d>>
           P(g) == g = [s \in SUBSET (DOMAIN w) |->
                         IF s = {} THEN 0 ELSE 10 * g[s \ {U!Max(s)}] + w[U!Max(s)] - 48]
           it == CHOOSE g : P(g)
           h == [s \in SUBSET (DOMAIN w) |-> IF s = {} THEN 0 ELSE d]
<1>1. U!ValueOf(w) = it[DOMAIN w]
  BY DEF U!ValueOf, U!FoldLeft, U!MapThenFoldSet
<1>2. DOMAIN w = {1} /\ w[1] = 48 + d
  OBVIOUS
<1> HIDE DEF w
<1>3. \A s : U!Max(s) = Top(s)
  BY DEF U!Max, Top
<1>4. \A s \in SUBSET {1} : s # {} => s = {1} /\ U!Max(s) = 1 /\ s \ {U!Max(s)} = {}
  <2>1. Top({1}) \in {1}
    <3>1. 1 .. 1 = {1}
      OBVIOUS
    <3>2. QED
      BY <3>1, TopIs
  <2>2. U!Max({1}) = 1
    BY <1>3, <2>1
  <2>3. QED
    BY <2>2
<1>5. P(h)
  <2>1. ASSUME NEW s \in SUBSET (DOMAIN w), s # {}
        PROVE  h[s] = 10 * h[s \ {U!Max(s)}] + w[U!Max(s)] - 48
    <3>1. h[s] = d /\ h[s \ {U!Max(s)}] = 0 /\ w[U!Max(s)] = 48 + d
      BY <1>2, <1>4, <2>1
    <3> HIDE DEF h
    <3>2. QED
      BY <3>1
  <2>2. QED
    BY <2>1
<1>6. P(it)
  <2>1. \E g : P(g)
    BY <1>5
  <2> HIDE DEF P
  <2>2. QED
    BY <2>1
<1> HIDE DEF it
<1>7. it[{}] = 0 /\ it[{1}] = 10 * it[{}] + w[1] - 48
  <2>1. {1} \in SUBSET (DOMAIN w) /\ {1} # {} /\ {} \in SUBSET (DOMAIN w)
    BY <1>2
  <2>2. \A s \in SUBSET (DOMAIN w) :
          it[s] = IF s = {} THEN 0 ELSE 10 * it[s \ {U!Max(s)}] + w[U!Max(s)] - 48
    BY <1>6
  <2>3. it[{}] = 0
    BY <2>2, <2>1
  <2>4. it[{1}] = 10 * it[{1} \ {U!Max({1})}] + w[U!Max({1})] - 48
    BY <2>2, <2>1
  <2>5. QED
    BY <1>4, <2>3, <2>4
<1>8. it[{1}] = d
  BY <1>2, <1>7
<1>9. QED
  BY <1>1, <1>2, <1>8 DEF w

\* The number that a text begins with.
LEMMA LeadsWithDigit ==
  ASSUME NEW s \in Seq(Int), NEW d \in 0 .. 9, Len(s) >= 1, s[1] = 48 + d,
         Len(s) >= 2 => ~ U!IsDigit(s[2])
  PROVE  U!ValueOf(U!Leading(s)) = d
<1> DEFINE S == {n \in 0 .. Len(s) : \A i \in 1 .. n : U!IsDigit(s[i])}
<1>1. 1 \in S
  BY DEF U!IsDigit
<1>2. ASSUME NEW n \in S PROVE n <= 1
  <2>1. SUFFICES ASSUME n >= 2 PROVE FALSE
    OBVIOUS
  <2>2. 2 \in 1 .. n /\ Len(s) >= 2
    BY <2>1
  <2>3. QED
    BY <2>2
<1>3. U!Max(S) = 1
  <2>1. S \in SUBSET Int
    OBVIOUS
  <2> HIDE DEF S
  <2>2. QED
    BY <1>1, <1>2, <2>1, GreatestIsMax
<1>4. U!Leading(s) = SubSeq(s, 1, 1)
  BY <1>3 DEF U!Leading
<1>5. SubSeq(s, 1, 1) = <<48 + d>>
  <2> DEFINE f == SubSeq(s, 1, 1)
  <2>1. f \in Seq(Int) /\ Len(f) = 1 /\ f[1] = 48 + d
    OBVIOUS
  <2> HIDE DEF f
  <2>2. f = <<48 + d>>
    BY <2>1
  <2>3. QED
    BY <2>2 DEF f
<1>6. QED
  BY <1>4, <1>5, SingleDigit

LEMMA LeadsWithout ==
  ASSUME NEW s \in Seq(Int), Len(s) >= 1 => ~ U!IsDigit(s[1])
  PROVE  U!ValueOf(U!Leading(s)) = 0
<1> DEFINE S == {n \in 0 .. Len(s) : \A i \in 1 .. n : U!IsDigit(s[i])}
<1>1. 0 \in S
  OBVIOUS
<1>2. ASSUME NEW n \in S PROVE n <= 0
  <2>1. SUFFICES ASSUME n >= 1 PROVE FALSE
    OBVIOUS
  <2>2. 1 \in 1 .. n /\ Len(s) >= 1
    BY <2>1
  <2>3. QED
    BY <2>2
<1>3. U!Max(S) = 0
  <2>1. S \in SUBSET Int
    OBVIOUS
  <2> HIDE DEF S
  <2>2. QED
    BY <1>1, <1>2, <2>1, GreatestIsMax
<1>4. U!Leading(s) = SubSeq(s, 1, 0)
  BY <1>3 DEF U!Leading
<1>5. SubSeq(s, 1, 0) = <<>>
  OBVIOUS
<1>6. QED
  BY <1>4, <1>5, NoDigits

LEMMA AtoiDigit ==
  ASSUME NEW s \in Seq(Int), NEW d \in 0 .. 9, Len(s) >= 1, s[1] = 48 + d,
         Len(s) >= 2 => ~ U!IsDigit(s[2])
  PROVE  U!atoi(s) = d
<1>1. Head(s) # U!Dash
  BY DEF U!Dash
<1>2. U!ValueOf(U!Leading(s)) = d
  BY LeadsWithDigit
<1>3. QED
  BY <1>1, <1>2 DEF U!atoi

LEMMA AtoiDot ==
  ASSUME NEW s \in Seq(Int), Len(s) >= 1, s[1] = 46
  PROVE  U!atoi(s) = 0
<1>1. Head(s) # U!Dash
  BY DEF U!Dash
<1>2. U!ValueOf(U!Leading(s)) = 0
  BY LeadsWithout DEF U!IsDigit
<1>3. QED
  BY <1>1, <1>2 DEF U!atoi

LEMMA TailOf ==
  ASSUME NEW s \in Seq(Int), s # <<>>
  PROVE  /\ Tail(s) \in Seq(Int) /\ Len(Tail(s)) = Len(s) - 1
         /\ \A i \in 1 .. Len(s) - 1 : Tail(s)[i] = s[i + 1]
OBVIOUS

LEMMA AtoiDash ==
  ASSUME NEW s \in Seq(Int), NEW d \in 0 .. 9, Len(s) = 2, s[1] = 45, s[2] = 48 + d
  PROVE  U!atoi(s) = -d
<1>1. s # <<>>
  <2>1. Len(<<>>) # 2
    OBVIOUS
  <2>2. QED
    BY <2>1
<1>2. Head(s) = U!Dash
  BY <1>1 DEF U!Dash
<1> DEFINE rest == Tail(s)
<1>3. rest \in Seq(Int) /\ Len(rest) = 1 /\ rest[1] = 48 + d
  <2>1. rest \in Seq(Int) /\ Len(rest) = Len(s) - 1 /\ \A i \in 1 .. Len(s) - 1 : rest[i] = s[i + 1]
    BY <1>1, TailOf
  <2>2. 1 \in 1 .. Len(s) - 1 /\ 1 + 1 = 2 /\ Len(s) - 1 = 1
    OBVIOUS
  <2> HIDE DEF rest
  <2>3. rest[1] = s[2]
    BY <2>1, <2>2
  <2>4. QED
    BY <2>1, <2>2, <2>3
<1>4. U!ValueOf(U!Leading(rest)) = d
  <2> HIDE DEF rest
  <2>1. Len(rest) >= 1 /\ ~ (Len(rest) >= 2)
    BY <1>3
  <2>2. QED
    BY <1>3, <2>1, LeadsWithDigit
<1>5. QED
  BY <1>1, <1>2, <1>4 DEF U!atoi

\* The rest of a text from a position on, and what atoi() reads there: a number
\* of the version, the release, nothing at a dot, minus the release at the dash.
LEMMA FromAt ==
  ASSUME NEW t \in Seq(Int), NEW i \in 1 .. Len(t)
  PROVE  /\ U!From(t, i) \in Seq(Int) /\ Len(U!From(t, i)) = Len(t) - i + 1
         /\ U!From(t, i)[1] = t[i]
         /\ i + 1 <= Len(t) => U!From(t, i)[2] = t[i + 1]
<1> DEFINE f == SubSeq(t, i, Len(t))
<1>1. f \in Seq(Int) /\ Len(f) = Len(t) - i + 1
  OBVIOUS
<1>2. \A j \in 1 .. Len(t) - i + 1 : f[j] = t[i + j - 1]
  OBVIOUS
<1>3. f[1] = t[i]
  BY <1>2
<1>4. i + 1 <= Len(t) => f[2] = t[i + 1]
  <2>1. SUFFICES ASSUME i + 1 <= Len(t) PROVE f[2] = t[i + 1]
    OBVIOUS
  <2>2. 2 \in 1 .. Len(t) - i + 1 /\ i + 2 - 1 = i + 1
    BY <2>1
  <2> HIDE DEF f
  <2>3. QED
    BY <1>2, <2>2
<1>5. U!From(t, i) = f
  BY DEF U!From
<1>6. QED
  BY <1>1, <1>3, <1>4, <1>5

LEMMA AtNumber ==
  ASSUME NEW t, NEW parts \in Seq(0 .. 9), NEW release \in 0 .. 9, IsText(t, parts, release),
         NEW k \in 1 .. Len(parts)
  PROVE  U!atoi(U!From(t, 2 * k - 1)) = parts[k] /\ t[2 * k - 1] = 48 + parts[k]
<1> DEFINE f == U!From(t, 2 * k - 1)
           n == Len(parts)
<1>1. /\ t \in Seq(Int) /\ Len(t) = 2 * n + 1 /\ parts[k] \in 0 .. 9
      /\ t[2 * k - 1] = 48 + parts[k]
  <2>1. parts[k] \in 0 .. 9
    OBVIOUS
  <2>2. t \in Seq(Int) /\ Len(t) = 2 * n + 1
    BY DEF IsText
  <2>3. \A j \in 1 .. Len(parts) : t[2 * j - 1] = 48 + parts[j]
    BY DEF IsText
  <2>4. QED
    BY <2>1, <2>2, <2>3
<1>2. t[2 * k] = 46 \/ t[2 * k] = 45
  <2>1. k \in 1 .. n - 1 \/ k = n
    OBVIOUS
  <2>2. QED
    BY <2>1 DEF IsText
<1>3. 2 * k - 1 \in 1 .. Len(t) /\ (2 * k - 1) + 1 = 2 * k /\ 2 * k <= Len(t)
  BY <1>1
<1>4. /\ f \in Seq(Int) /\ Len(f) = Len(t) - (2 * k - 1) + 1 /\ f[1] = t[2 * k - 1]
      /\ f[2] = t[2 * k]
  <2> DEFINE i == 2 * k - 1
  <2>1. i \in 1 .. Len(t) /\ i + 1 = 2 * k /\ 2 * k <= Len(t)
    BY <1>3
  <2> HIDE DEF i
  <2>2. /\ U!From(t, i) \in Seq(Int) /\ Len(U!From(t, i)) = Len(t) - i + 1
        /\ U!From(t, i)[1] = t[i] /\ (i + 1 <= Len(t) => U!From(t, i)[2] = t[i + 1])
    BY <1>1, <2>1, FromAt
  <2>3. QED
    BY <2>1, <2>2 DEF i
<1> HIDE DEF f
<1>5. Len(f) >= 1
  BY <1>3, <1>4, <1>1
<1>6. f[1] = 48 + parts[k] /\ ~ U!IsDigit(f[2])
  <2>1. f[2] \in {45, 46}
    BY <1>2, <1>4
  <2>2. \A c \in {45, 46} : ~ U!IsDigit(c)
    BY DEF U!IsDigit
  <2>3. ~ U!IsDigit(f[2])
    BY <2>1, <2>2
  <2>4. QED
    BY <1>1, <1>4, <2>3
<1>7. U!atoi(f) = parts[k]
  BY <1>1, <1>4, <1>5, <1>6, AtoiDigit
<1>8. QED
  BY <1>1, <1>7 DEF f

LEMMA AtRelease ==
  ASSUME NEW t, NEW parts \in Seq(0 .. 9), NEW release \in 0 .. 9, IsText(t, parts, release)
  PROVE  /\ U!atoi(U!From(t, 2 * Len(parts) + 1)) = release
         /\ t[2 * Len(parts) + 1] = 48 + release
<1> DEFINE n == Len(parts)
           i == 2 * n + 1
           f == U!From(t, i)
<1>1. t \in Seq(Int) /\ Len(t) = i /\ t[i] = 48 + release /\ i \in 1 .. Len(t)
  BY DEF IsText
<1> HIDE DEF i
<1>2. f \in Seq(Int) /\ Len(f) = Len(t) - i + 1 /\ f[1] = t[i]
  BY <1>1, FromAt
<1> HIDE DEF f
<1>3. Len(f) = 1
  BY <1>1, <1>2
<1>4. f[1] = 48 + release /\ Len(f) >= 1 /\ ~ (Len(f) >= 2)
  BY <1>1, <1>2, <1>3
<1>5. U!atoi(f) = release
  BY <1>2, <1>4, AtoiDigit
<1>6. QED
  BY <1>1, <1>5 DEF f, i

LEMMA AtDot ==
  ASSUME NEW t, NEW parts \in Seq(0 .. 9), NEW release \in 0 .. 9, IsText(t, parts, release),
         NEW k \in 1 .. Len(parts) - 1
  PROVE  U!atoi(U!From(t, 2 * k)) = 0 /\ t[2 * k] = 46
<1> DEFINE i == 2 * k
           f == U!From(t, i)
<1>1. t \in Seq(Int) /\ t[i] = 46 /\ i \in 1 .. Len(t)
  BY DEF IsText
<1> HIDE DEF i
<1>2. f \in Seq(Int) /\ Len(f) = Len(t) - i + 1 /\ f[1] = t[i]
  BY <1>1, FromAt
<1> HIDE DEF f
<1>3. Len(f) >= 1
  BY <1>1, <1>2
<1>4. U!atoi(f) = 0
  BY <1>1, <1>2, <1>3, AtoiDot
<1>5. QED
  BY <1>1, <1>4 DEF f, i

LEMMA AtDash ==
  ASSUME NEW t, NEW parts \in Seq(0 .. 9), parts # <<>>, NEW release \in 0 .. 9,
         IsText(t, parts, release)
  PROVE  U!atoi(U!From(t, 2 * Len(parts))) = -release /\ t[2 * Len(parts)] = 45
<1> DEFINE i == 2 * Len(parts)
           f == U!From(t, i)
<1>1. /\ t \in Seq(Int) /\ Len(t) = i + 1 /\ t[i] = 45 /\ t[i + 1] = 48 + release
      /\ i \in 1 .. Len(t)
  BY DEF IsText
<1> HIDE DEF i
<1>2. f \in Seq(Int) /\ Len(f) = Len(t) - i + 1 /\ f[1] = t[i] /\ f[2] = t[i + 1]
  <2>1. i + 1 <= Len(t)
    BY <1>1
  <2>2. QED
    BY <1>1, <2>1, FromAt
<1> HIDE DEF f
<1>3. Len(f) = 2
  BY <1>1, <1>2
<1>4. U!atoi(f) = -release
  BY <1>1, <1>2, <1>3, AtoiDash
<1>5. QED
  BY <1>1, <1>4 DEF f, i

\* compareVersion() by the first difference, and without one.
LEMMA Compared ==
  ASSUME NEW new \in Seq(Int), NEW had \in Seq(Int), NEW i \in 1 .. Len(new), i <= Len(had),
         \A j \in 1 .. i - 1 : new[j] = had[j], new[i] # had[i]
  PROVE  U!compareVersion(new, had) > 0 <=>
           new[i] > had[i] \/ U!atoi(U!From(new, i)) > U!atoi(U!From(had, i))
<1>1. U!Differing(new, had) # {} /\ U!Min(U!Differing(new, had)) = i
  BY FirstDifference
<1>2. U!compareVersion(new, had) =
        IF new[i] > had[i] \/ U!atoi(U!From(new, i)) > U!atoi(U!From(had, i)) THEN 1 ELSE -1
  BY <1>1 DEF U!compareVersion
<1>3. QED
  BY <1>2

LEMMA ComparedSame ==
  ASSUME NEW new \in Seq(Int), NEW had \in Seq(Int), Len(new) = Len(had),
         \A j \in 1 .. Len(new) : new[j] = had[j]
  PROVE  ~ (U!compareVersion(new, had) > 0)
<1>1. U!Differing(new, had) = {}
  BY NoDifference
<1>2. Len(new) \in Nat /\ Len(had) \in Nat
  OBVIOUS
<1>3. U!compareVersion(new, had) = 0
  BY <1>1, <1>2 DEF U!compareVersion
<1>4. QED
  BY <1>3

\* A position is even or odd: numbers are at the odd ones, dots at the even ones.
LEMMA Halves == \A j \in Nat : \E i \in Nat : j = 2 * i \/ j = 2 * i + 1
<1> DEFINE N == {j \in Nat : \E i \in Nat : j = 2 * i \/ j = 2 * i + 1}
<1>1. 0 \in N
  BY 0 = 2 * 0
<1>2. ASSUME NEW j \in Nat, j \in N PROVE j + 1 \in N
  <2>1. PICK i \in Nat : j = 2 * i \/ j = 2 * i + 1
    BY <1>2
  <2>2. CASE j = 2 * i
    <3>1. j + 1 = 2 * i + 1
      BY <2>2
    <3>2. QED
      BY <3>1
  <2>3. CASE j = 2 * i + 1
    <3> DEFINE h == i + 1
    <3>1. j + 1 = 2 * h /\ h \in Nat
      BY <2>3
    <3> HIDE DEF h
    <3>2. \E g \in Nat : j + 1 = 2 * g \/ j + 1 = 2 * g + 1
      BY <3>1
    <3>3. QED
      BY <3>2
  <2>4. QED
    BY <2>1, <2>2, <2>3
<1>3. Nat \subseteq N
  <2> HIDE DEF N
  <2> QED BY <1>1, <1>2, SetInduction
<1>4. QED
  BY <1>3

\* Two sequences agree in their first k elements.
EqualTo(s, t, k) == \A i \in 1 .. k : s[i] = t[i]

\* Texts of versions agree as far as the numbers do.
LEMMA SamePrefix ==
  ASSUME NEW p \in Seq(0 .. 9), NEW q \in Seq(0 .. 9), NEW x \in 0 .. 9, NEW y \in 0 .. 9,
         NEW t, NEW u, IsText(t, p, x), IsText(u, q, y),
         NEW k \in Nat, k <= Len(p), k <= Len(q), EqualTo(p, q, k)
  PROVE  /\ EqualTo(t, u, 2 * k - 1)
         /\ k < Len(p) /\ k < Len(q) => EqualTo(t, u, 2 * k)
         /\ k = Len(p) /\ k = Len(q) => EqualTo(t, u, 2 * k)
<1> DEFINE n == Len(p)
           m == Len(q)
<1>0. n \in Nat /\ m \in Nat
  OBVIOUS
<1>1. ASSUME NEW i \in 1 .. k PROVE t[2 * i - 1] = u[2 * i - 1]
  <2>1. i \in 1 .. Len(p) /\ i \in 1 .. Len(q) /\ p[i] = q[i]
    BY DEF EqualTo
  <2>2. t[2 * i - 1] = 48 + p[i]
    BY <2>1 DEF IsText
  <2>3. u[2 * i - 1] = 48 + q[i]
    BY <2>1 DEF IsText
  <2>4. QED
    BY <2>1, <2>2, <2>3
<1>2. ASSUME NEW i \in 1 .. k, i < Len(p), i < Len(q) PROVE t[2 * i] = u[2 * i]
  <2>1. i \in 1 .. Len(p) - 1 /\ i \in 1 .. Len(q) - 1
    BY <1>2
  <2>2. t[2 * i] = 46
    BY <2>1 DEF IsText
  <2>3. u[2 * i] = 46
    BY <2>1 DEF IsText
  <2>4. QED
    BY <2>2, <2>3
<1>3. k = n /\ k = m => t[2 * k] = u[2 * k]
  BY DEF IsText
<1>4. ASSUME NEW j \in Nat, j >= 1, j <= 2 * k, j = 2 * k => t[2 * k] = u[2 * k]
      PROVE  t[j] = u[j]
  <2>1. PICK h \in Nat : j = 2 * h \/ j = 2 * h + 1
    BY Halves
  <2>2. CASE j = 2 * h
    <3>1. CASE h = k
      BY <1>4, <2>2, <3>1
    <3>2. CASE h # k
      <4>1. h \in 1 .. k /\ h < k
        BY <1>4, <2>2, <3>2
      <4>2. h < Len(p) /\ h < Len(q)
        BY <4>1, <1>0
      <4>3. QED
        BY <1>2, <2>2, <4>1, <4>2
    <3>3. QED
      BY <3>1, <3>2
  <2>3. CASE j = 2 * h + 1
    <3>1. h + 1 \in 1 .. k /\ 2 * (h + 1) - 1 = j
      BY <1>4, <2>3
    <3>2. QED
      BY <1>1, <3>1
  <2>4. QED
    BY <2>1, <2>2, <2>3
<1>5. ASSUME NEW j \in 1 .. 2 * k - 1 PROVE t[j] = u[j]
  <2>1. j \in Nat /\ j >= 1 /\ j <= 2 * k /\ j # 2 * k
    OBVIOUS
  <2>2. QED
    BY <1>4, <2>1
<1>6. ASSUME (k < n /\ k < m) \/ (k = n /\ k = m), NEW j \in 1 .. 2 * k
      PROVE  t[j] = u[j]
  <2>1. j \in Nat /\ j >= 1 /\ j <= 2 * k
    OBVIOUS
  <2>2. t[2 * k] = u[2 * k]
    <3>1. CASE k = n /\ k = m
      BY <1>3, <3>1
    <3>2. CASE k < n /\ k < m
      <4>1. k \in 1 .. k
        BY <2>1
      <4>2. QED
        BY <1>2, <3>2, <4>1
    <3>3. QED
      BY <1>6, <3>1, <3>2
  <2>3. QED
    BY <1>4, <2>1, <2>2
<1>7. QED
  BY <1>5, <1>6 DEF EqualTo

\* What rpm compares.
LEMMA Ranked ==
  ASSUME NEW p \in Seq(0 .. 9), NEW x \in 0 .. 9
  PROVE  LET a == p \o <<-1, x>>
         IN  /\ a \in Seq(Int) /\ Len(a) = Len(p) + 2
             /\ \A i \in 1 .. Len(p) : a[i] = p[i]
             /\ a[Len(p) + 1] = -1 /\ a[Len(p) + 2] = x
<1> DEFINE b == <<-1, x>>
           a == p \o b
<1>1. p \in Seq(Int)
  <2>1. 0 .. 9 \subseteq Int
    OBVIOUS
  <2>2. QED
    BY <2>1
<1>2. b \in Seq(Int) /\ Len(b) = 2 /\ b[1] = -1 /\ b[2] = x
  OBVIOUS
<1> HIDE DEF b
<1>3. /\ a \in Seq(Int) /\ Len(a) = Len(p) + Len(b)
      /\ \A i \in 1 .. Len(p) + Len(b) : a[i] = IF i <= Len(p) THEN p[i] ELSE b[i - Len(p)]
  BY <1>1, <1>2, ConcatProperties
<1> DEFINE n == Len(p)
<1>4. n \in Nat
  OBVIOUS
<1> HIDE DEF a
<1>5. Len(a) = n + 2 /\ \A i \in 1 .. n + 2 : a[i] = IF i <= n THEN p[i] ELSE b[i - n]
  BY <1>2, <1>3
<1>6. a \in Seq(Int)
  BY <1>3
<1> HIDE DEF n
<1>7. \A i \in 1 .. n : a[i] = p[i]
  BY <1>4, <1>5
<1>8. a[n + 1] = b[1]
  <2>1. n + 1 \in 1 .. n + 2 /\ ~ (n + 1 <= n) /\ (n + 1) - n = 1
    BY <1>4
  <2>2. QED
    BY <1>5, <2>1
<1>9. a[n + 2] = b[2]
  <2>1. n + 2 \in 1 .. n + 2 /\ ~ (n + 2 <= n) /\ (n + 2) - n = 2
    BY <1>4
  <2>2. QED
    BY <1>5, <2>1
<1>10. QED
  BY <1>2, <1>5, <1>6, <1>7, <1>8, <1>9 DEF a, b, n

\* rpm's comparison of two sequences of numbers.
NewerTexts(a, b) ==
  U!Differing(a, b) # {} /\ a[U!Min(U!Differing(a, b))] > b[U!Min(U!Differing(a, b))]

\* rpm compares number by number; the first difference decides.
LEMMA NewerIs ==
  ASSUME NEW v, NEW w
  PROVE  U!Newer(v, w) <=> NewerTexts(v.parts \o <<-1, v.release>>, w.parts \o <<-1, w.release>>)
BY DEF U!Newer, NewerTexts

LEMMA NewerAt ==
  ASSUME NEW a \in Seq(Int), NEW b \in Seq(Int), NEW i \in 1 .. Len(a), i <= Len(b),
         \A j \in 1 .. i - 1 : a[j] = b[j], a[i] # b[i]
  PROVE  NewerTexts(a, b) <=> a[i] > b[i]
BY FirstDifference DEF NewerTexts

LEMMA NewerNot ==
  ASSUME NEW a \in Seq(Int), NEW b \in Seq(Int), Len(a) = Len(b),
         \A j \in 1 .. Len(a) : a[j] = b[j]
  PROVE  ~ NewerTexts(a, b)
BY NoDifference DEF NewerTexts

\* The comparison of the texts is that of the numbers.
LEMMA TextsAgree ==
  ASSUME NEW p \in Seq(0 .. 9), p # <<>>, NEW q \in Seq(0 .. 9), q # <<>>,
         NEW x \in 0 .. 9, NEW y \in 0 .. 9,
         NEW t, NEW u, IsText(t, p, x), IsText(u, q, y)
  PROVE  U!compareVersion(t, u) > 0 <=> NewerTexts(p \o <<-1, x>>, q \o <<-1, y>>)
<1> DEFINE n == Len(p)
           m == Len(q)
           a == p \o <<-1, x>>
           b == q \o <<-1, y>>
           D == {k \in Nat : k >= 1 /\ k <= n /\ k <= m /\ p[k] # q[k]}
<1>1. /\ n \in Nat /\ m \in Nat /\ n >= 1 /\ m >= 1
      /\ \A i \in 1 .. n : p[i] \in 0 .. 9
      /\ \A i \in 1 .. m : q[i] \in 0 .. 9
  OBVIOUS
<1>2. /\ t \in Seq(Int) /\ Len(t) = 2 * n + 1
      /\ u \in Seq(Int) /\ Len(u) = 2 * m + 1
  BY DEF IsText
<1>3. /\ a \in Seq(Int) /\ Len(a) = n + 2
      /\ \A i \in 1 .. n : a[i] = p[i]
      /\ a[n + 1] = -1 /\ a[n + 2] = x
  BY Ranked
<1>4. /\ b \in Seq(Int) /\ Len(b) = m + 2
      /\ \A i \in 1 .. m : b[i] = q[i]
      /\ b[m + 1] = -1 /\ b[m + 2] = y
  BY Ranked
<1> HIDE DEF a, b
<1>5. ASSUME D # {} PROVE U!compareVersion(t, u) > 0 <=> NewerTexts(a, b)
  <2>1. PICK k \in D : \A i \in D : k <= i
    <3>1. D \in SUBSET Nat
      OBVIOUS
    <3> HIDE DEF D
    <3>2. QED
      BY <1>5, <3>1, Least
  <2>2. k \in 1 .. n /\ k \in 1 .. m /\ p[k] # q[k] /\ k - 1 \in Nat /\ k - 1 <= n /\ k - 1 <= m
    OBVIOUS
  <2>3. ASSUME NEW i \in 1 .. k - 1 PROVE p[i] = q[i]
    <3>1. i \in Nat /\ i >= 1 /\ i <= n /\ i <= m /\ ~ (k <= i)
      BY <1>1, <2>2
    <3>2. i \notin D
      BY <2>1, <3>1
    <3>3. QED
      BY <3>1, <3>2
  <2>4. NewerTexts(a, b) <=> p[k] > q[k]
    <3>1. \A i \in 1 .. k - 1 : a[i] = b[i]
      <4>1. \A i \in 1 .. k - 1 : i \in 1 .. n /\ i \in 1 .. m
        BY <1>1, <2>2
      <4>2. QED
        BY <1>3, <1>4, <2>3, <4>1
    <3>2. a[k] = p[k] /\ b[k] = q[k] /\ k \in 1 .. Len(a) /\ k <= Len(b)
      BY <1>1, <1>3, <1>4, <2>2
    <3>3. NewerTexts(a, b) <=> a[k] > b[k]
      BY <1>3, <1>4, <2>2, <3>1, <3>2, NewerAt
    <3>4. QED
      BY <3>2, <3>3
  <2> DEFINE i == 2 * k - 1
  <2>5. i \in 1 .. Len(t) /\ i <= Len(u)
    <3>1. k \in Int /\ k >= 1 /\ k <= n /\ k <= m
      BY <2>2
    <3> HIDE DEF n, m, D
    <3>2. QED
      BY <1>1, <1>2, <3>1
  <2>6. ASSUME NEW j \in 1 .. i - 1 PROVE t[j] = u[j]
    <3>1. k - 1 < n /\ k - 1 < m /\ j \in 1 .. 2 * (k - 1)
      BY <1>1, <2>2
    <3> DEFINE l == k - 1
    <3>2. l \in Nat /\ l <= Len(p) /\ l <= Len(q) /\ l < Len(p) /\ l < Len(q) /\ j \in 1 .. 2 * l
      BY <2>2, <3>1
    <3>3. EqualTo(p, q, l)
      BY <2>3 DEF EqualTo
    <3> HIDE DEF l
    <3>4. EqualTo(t, u, 2 * l)
      BY <3>2, <3>3, SamePrefix
    <3>5. QED
      BY <3>2, <3>4 DEF EqualTo
  <2>7. U!atoi(U!From(t, i)) = p[k] /\ t[i] = 48 + p[k]
    BY <2>2, AtNumber
  <2>8. U!atoi(U!From(u, i)) = q[k] /\ u[i] = 48 + q[k]
    BY <2>2, AtNumber
  <2>9. t[i] # u[i] /\ (t[i] > u[i] <=> p[k] > q[k])
    <3>1. p[k] \in Int /\ q[k] \in Int /\ p[k] # q[k]
      <4>1. k \in 1 .. n /\ k \in 1 .. m /\ p[k] # q[k]
        BY <2>2
      <4> HIDE DEF D, n, m
      <4>2. p[k] \in 0 .. 9 /\ q[k] \in 0 .. 9
        BY <1>1, <4>1
      <4>3. QED
        BY <4>1, <4>2
    <3> HIDE DEF i, n, m, D
    <3>2. QED
      BY <2>7, <2>8, <3>1
  <2> HIDE DEF i
  <2>10. U!compareVersion(t, u) > 0 <=> t[i] > u[i] \/ U!atoi(U!From(t, i)) > U!atoi(U!From(u, i))
    BY <1>2, <2>5, <2>6, <2>9, Compared
  <2>11. QED
    BY <2>4, <2>7, <2>8, <2>9, <2>10
<1>6. ASSUME D = {}, NEW k \in Nat, k <= n, k <= m PROVE \A i \in 1 .. k : p[i] = q[i]
  <2>1. SUFFICES ASSUME NEW i \in 1 .. k PROVE p[i] = q[i]
    OBVIOUS
  <2>2. i \in Nat /\ i >= 1 /\ i <= n /\ i <= m
    BY <1>1, <1>6
  <2>3. i \notin D
    BY <1>6
  <2>4. QED
    BY <2>2, <2>3
<1> HIDE DEF D, n, m
<1>7. ASSUME D = {}, n = m PROVE U!compareVersion(t, u) > 0 <=> NewerTexts(a, b)
  <2>1. \A i \in 1 .. n : p[i] = q[i]
    BY <1>1, <1>6, <1>7
  <2>2. \A j \in 1 .. 2 * n : t[j] = u[j]
    <3>1. n \in Nat /\ n <= Len(p) /\ n <= Len(q) /\ n = Len(p) /\ n = Len(q)
      BY <1>1, <1>7 DEF n, m
    <3>2. EqualTo(p, q, n)
      BY <2>1 DEF EqualTo
    <3>3. EqualTo(t, u, 2 * n)
      BY <3>1, <3>2, SamePrefix
    <3>4. QED
      BY <3>3 DEF EqualTo
  <2>3. \A i \in 1 .. n + 1 : a[i] = b[i]
    <3>1. \A i \in 1 .. n : a[i] = b[i]
      BY <1>3, <1>4, <1>7, <2>1
    <3>2. a[n + 1] = b[n + 1]
      BY <1>3, <1>4, <1>7
    <3>3. \A i \in 1 .. n + 1 : i \in 1 .. n \/ i = n + 1
      BY <1>1
    <3>4. QED
      BY <3>1, <3>2, <3>3
  <2> DEFINE i == 2 * n + 1
  <2>4. U!atoi(U!From(t, i)) = x /\ t[i] = 48 + x
    BY AtRelease DEF n
  <2>5. U!atoi(U!From(u, i)) = y /\ u[i] = 48 + y
    BY <1>7, AtRelease DEF n, m
  <2>6. CASE x = y
    <3>1. \A j \in 1 .. Len(t) : t[j] = u[j]
      <4>1. \A j \in 1 .. Len(t) : j \in 1 .. 2 * n \/ j = i
        BY <1>1, <1>2
      <4>2. t[i] = u[i]
        BY <2>4, <2>5, <2>6
      <4> HIDE DEF i
      <4>3. QED
        BY <2>2, <4>1, <4>2
    <3>2. ~ (U!compareVersion(t, u) > 0)
      BY <1>2, <1>7, <3>1, ComparedSame
    <3>3. \A j \in 1 .. Len(a) : a[j] = b[j]
      <4>1. \A j \in 1 .. Len(a) : j \in 1 .. n + 1 \/ j = n + 2
        BY <1>1, <1>3
      <4>2. a[n + 2] = b[n + 2]
        BY <1>3, <1>4, <1>7, <2>6
      <4>3. QED
        BY <2>3, <4>1, <4>2
    <3>4. ~ NewerTexts(a, b)
      BY <1>3, <1>4, <1>7, <3>3, NewerNot
    <3>5. QED
      BY <3>2, <3>4
  <2>7. CASE x # y
    <3>1. i \in 1 .. Len(t) /\ i <= Len(u) /\ i - 1 = 2 * n
      BY <1>1, <1>2, <1>7
    <3>2. t[i] # u[i] /\ (t[i] > u[i] <=> x > y)
      BY <2>4, <2>5, <2>7
    <3> HIDE DEF i
    <3>2a. \A h \in 1 .. i - 1 : t[h] = u[h]
      BY <2>2, <3>1
    <3>3. U!compareVersion(t, u) > 0 <=> t[i] > u[i] \/ U!atoi(U!From(t, i)) > U!atoi(U!From(u, i))
      BY <1>2, <3>1, <3>2, <3>2a, Compared
    <3>4. U!compareVersion(t, u) > 0 <=> x > y
      BY <2>4, <2>5, <3>2, <3>3
    <3> DEFINE j == n + 2
    <3>5. j \in 1 .. Len(a) /\ j <= Len(b) /\ j - 1 = n + 1 /\ a[j] = x /\ b[j] = y
      BY <1>1, <1>3, <1>4, <1>7
    <3> HIDE DEF j
    <3>6. NewerTexts(a, b) <=> a[j] > b[j]
      BY <1>3, <1>4, <2>3, <2>7, <3>5, NewerAt
    <3>7. QED
      BY <3>4, <3>5, <3>6
  <2>8. QED
    BY <2>6, <2>7
<1>8. ASSUME D = {}, n < m PROVE U!compareVersion(t, u) > 0 <=> NewerTexts(a, b)
  <2>1. \A i \in 1 .. n : p[i] = q[i]
    <3>1. n \in Nat /\ n <= n /\ n <= m
      BY <1>1, <1>8
    <3>2. QED
      BY <1>6, <1>8, <3>1
  <2> DEFINE i == 2 * n
  <2>2. \A j \in 1 .. i - 1 : t[j] = u[j]
    <3>1. n \in Nat /\ n <= Len(p) /\ n <= Len(q)
      BY <1>1, <1>8 DEF n, m
    <3>2. EqualTo(p, q, n)
      BY <2>1 DEF EqualTo
    <3>3. EqualTo(t, u, i - 1)
      BY <3>1, <3>2, SamePrefix
    <3>4. QED
      BY <3>3 DEF EqualTo
  <2>3. U!atoi(U!From(t, i)) = -x /\ t[i] = 45
    <3>1. U!atoi(U!From(t, 2 * Len(p))) = -x /\ t[2 * Len(p)] = 45
      <4> HIDE DEF i
      <4> QED BY AtDash
    <3>2. QED
      BY <3>1 DEF n
  <2>4. U!atoi(U!From(u, i)) = 0 /\ u[i] = 46
    <3>1. n \in 1 .. Len(q) - 1
      BY <1>1, <1>8 DEF m
    <3>2. QED
      BY <3>1, AtDot
  <2>5. i \in 1 .. Len(t) /\ i <= Len(u)
    BY <1>1, <1>2, <1>8
  <2> HIDE DEF i
  <2>6. U!compareVersion(t, u) > 0 <=> t[i] > u[i] \/ U!atoi(U!From(t, i)) > U!atoi(U!From(u, i))
    <3>1. t[i] # u[i]
      BY <2>3, <2>4
    <3>2. QED
      BY <1>2, <2>2, <2>5, <3>1, Compared
  <2>7. ~ (U!compareVersion(t, u) > 0)
    BY <2>3, <2>4, <2>6
  <2> DEFINE j == n + 1
  <2>8. j \in 1 .. Len(a) /\ j <= Len(b) /\ j - 1 = n /\ j \in 1 .. m
    BY <1>1, <1>3, <1>4, <1>8
  <2>9. a[j] = -1 /\ b[j] = q[j] /\ q[j] \in 0 .. 9
    BY <1>1, <1>3, <1>4, <2>8
  <2>10. \A k \in 1 .. n : a[k] = b[k]
    <3>1. \A k \in 1 .. n : k \in 1 .. m
      BY <1>1, <1>8
    <3>2. QED
      BY <1>3, <1>4, <2>1, <3>1
  <2> HIDE DEF j
  <2>11. NewerTexts(a, b) <=> a[j] > b[j]
    <3>1. a[j] # b[j]
      <4>1. \A d \in 0 .. 9 : d # -1
        OBVIOUS
      <4>2. QED
        BY <2>9, <4>1
    <3>2. QED
      BY <1>3, <1>4, <2>8, <2>10, <3>1, NewerAt
  <2>12. QED
    BY <2>7, <2>9, <2>11
<1>9. ASSUME D = {}, m < n PROVE U!compareVersion(t, u) > 0 <=> NewerTexts(a, b)
  <2>1. \A i \in 1 .. m : p[i] = q[i]
    <3>1. m \in Nat /\ m <= n /\ m <= m
      BY <1>1, <1>9
    <3>2. QED
      BY <1>6, <1>9, <3>1
  <2> DEFINE i == 2 * m
  <2>2. \A j \in 1 .. i - 1 : t[j] = u[j]
    <3>1. m \in Nat /\ m <= Len(p) /\ m <= Len(q)
      BY <1>1, <1>9 DEF n, m
    <3>2. EqualTo(p, q, m)
      BY <2>1 DEF EqualTo
    <3>3. EqualTo(t, u, i - 1)
      BY <3>1, <3>2, SamePrefix
    <3>4. QED
      BY <3>3 DEF EqualTo
  <2>3. u[i] = 45
    BY AtDash DEF n, m
  <2>4. t[i] = 46
    <3>1. m \in 1 .. Len(p) - 1
      BY <1>1, <1>9 DEF n
    <3>2. QED
      BY <3>1, AtDot
  <2>5. i \in 1 .. Len(t) /\ i <= Len(u)
    BY <1>1, <1>2, <1>9
  <2> HIDE DEF i
  <2>6. U!compareVersion(t, u) > 0
    <3>1. t[i] # u[i] /\ t[i] > u[i]
      BY <2>3, <2>4
    <3>2. QED
      BY <1>2, <2>2, <2>5, <3>1, Compared
  <2> DEFINE j == m + 1
  <2>8. j \in 1 .. Len(a) /\ j <= Len(b) /\ j - 1 = m /\ j \in 1 .. n
    BY <1>1, <1>3, <1>4, <1>9
  <2>9. b[j] = -1 /\ a[j] = p[j] /\ p[j] \in 0 .. 9
    BY <1>1, <1>3, <1>4, <2>8
  <2>10. \A k \in 1 .. m : a[k] = b[k]
    <3>1. \A k \in 1 .. m : k \in 1 .. n
      BY <1>1, <1>9
    <3>2. QED
      BY <1>3, <1>4, <2>1, <3>1
  <2> HIDE DEF j
  <2>11. NewerTexts(a, b)
    <3>1. a[j] # b[j] /\ a[j] > b[j]
      BY <2>9
    <3>2. QED
      BY <1>3, <1>4, <2>8, <2>10, <3>1, NewerAt
  <2>12. QED
    BY <2>6, <2>11
<1>10. QED
  BY <1>1, <1>5, <1>7, <1>8, <1>9 DEF a, b

\* While the numbers of versions have one digit each, the comparison of the
\* texts name-version-release (compareVersion(), isoftapp.cpp) offers exactly
\* the upgrades that rpm would do, whatever the length of the two versions.
THEOREM UpgradesAreRpms ==
  ASSUME OneDigit
  PROVE  U!Spec => []AgreesWithRpm
<1>1. AgreesWithRpm
  <2>1. SUFFICES ASSUME {inst, repo} \subseteq U!Version PROVE U!Upgradable <=> U!Newer(repo, inst)
    BY DEF AgreesWithRpm, U!AgreesWithRpm
  <2>2. repo \in U!Version /\ inst \in U!Version
    BY <2>1
  <2>3. /\ repo.parts \in Seq(0 .. 9) /\ repo.parts # <<>> /\ repo.release \in 0 .. 9
        /\ inst.parts \in Seq(0 .. 9) /\ inst.parts # <<>> /\ inst.release \in 0 .. 9
    BY <2>2, VersionType
  <2>4. /\ IsText(U!Text(repo), repo.parts, repo.release)
        /\ IsText(U!Text(inst), inst.parts, inst.release)
    BY <2>2, TextIs
  <2>5. U!compareVersion(U!Text(repo), U!Text(inst)) > 0 <=> U!Newer(repo, inst)
    BY <2>3, <2>4, TextsAgree, NewerIs
  <2>6. QED
    BY <2>1, <2>5 DEF U!Upgradable
<1>2. QED
  BY <1>1, PTL

(***************************************************************************)
(* The order of a list. ORDER BY and the sort by name return the           *)
(* enumeration of a finite set of numbers, of which there is exactly one.  *)
(***************************************************************************)

\* The elements of a set in increasing order.
Enumerates(s, S) ==
  /\ s \in [1 .. Cardinality(S) -> S]
  /\ \A i, j \in 1 .. Cardinality(S) : i < j => s[i] < s[j]

\* A finite set of numbers has an enumeration, found by taking out its largest
\* element ...
LEMMA EnumerationExists ==
  ASSUME NEW S \in SUBSET Nat, IsFiniteSet(S)
  PROVE  \E s : Enumerates(s, S)
<1> DEFINE N == {n \in Nat : \A T \in SUBSET S : Cardinality(T) = n => \E s : Enumerates(s, T)}
<1>1. 0 \in N
  <2>1. SUFFICES ASSUME NEW T \in SUBSET S, Cardinality(T) = 0 PROVE \E s : Enumerates(s, T)
    OBVIOUS
  <2>2. 1 .. Cardinality(T) = {}
    BY <2>1
  <2>3. Enumerates([i \in 1 .. Cardinality(T) |-> 0], T)
    BY <2>2 DEF Enumerates
  <2>4. QED
    BY <2>3
<1>2. ASSUME NEW n \in Nat, n \in N PROVE n + 1 \in N
  <2>1. SUFFICES ASSUME NEW T \in SUBSET S, Cardinality(T) = n + 1 PROVE \E s : Enumerates(s, T)
    OBVIOUS
  <2>2. IsFiniteSet(T)
    BY FS_Subset
  <2>3. T # {} /\ T \in SUBSET Nat
    BY <2>1, <2>2, FS_EmptySet
  <2>4. PICK m \in T : \A k \in T : m <= k
    BY <2>3, Least
  <2> DEFINE R == T \ {m}
  <2>5. Cardinality(R) = n /\ R \in SUBSET S
    <3>1. Cardinality(R) = Cardinality(T) - 1
      BY <2>2, FS_RemoveElement
    <3>2. R \in SUBSET S
      OBVIOUS
    <3> HIDE DEF R
    <3>3. QED
      BY <2>1, <3>1, <3>2
  <2>6. PICK r : Enumerates(r, R)
    BY <1>2, <2>5
  <2>7. /\ r \in [1 .. n -> R]
        /\ \A i, j \in 1 .. n : i < j => r[i] < r[j]
    BY <2>5, <2>6 DEF Enumerates
  <2>8. \A k \in R : k \in T /\ m < k
    BY <2>3, <2>4
  <2> HIDE DEF R
  <2> DEFINE s == [i \in 1 .. n + 1 |-> IF i = 1 THEN m ELSE r[i - 1]]
  <2>9. ASSUME NEW i \in 1 .. n + 1, i # 1 PROVE i - 1 \in 1 .. n /\ s[i] = r[i - 1] /\ s[i] \in R
    <3>1. i - 1 \in 1 .. n
      BY <2>9
    <3>2. QED
      BY <2>7, <2>9, <3>1
  <2>10. s \in [1 .. n + 1 -> T]
    <3>1. ASSUME NEW i \in 1 .. n + 1 PROVE s[i] \in T
      BY <2>8, <2>9
    <3>2. QED
      BY <3>1
  <2>11. ASSUME NEW i \in 1 .. n + 1, NEW j \in 1 .. n + 1, i < j PROVE s[i] < s[j]
    <3>1. j # 1
      BY <2>11
    <3>2. CASE i = 1
      <4>1. s[i] = m
        BY <3>2
      <4>2. s[j] \in R
        BY <2>9, <3>1
      <4>3. QED
        BY <2>8, <4>1, <4>2
    <3>3. CASE i # 1
      <4>1. i - 1 < j - 1 /\ i - 1 \in 1 .. n /\ j - 1 \in 1 .. n
        BY <2>11, <3>1, <3>3
      <4>2. r[i - 1] < r[j - 1]
        BY <2>7, <4>1
      <4>3. s[i] = r[i - 1] /\ s[j] = r[j - 1]
        BY <2>9, <3>1, <3>3
      <4>4. QED
        BY <4>2, <4>3
    <3>4. QED
      BY <3>2, <3>3
  <2>12. Enumerates(s, T)
    <3> HIDE DEF s
    <3> QED BY <2>1, <2>10, <2>11 DEF Enumerates
  <2>13. QED
    BY <2>12
<1>3. Nat \subseteq N
  <2> HIDE DEF N
  <2> QED BY <1>1, <1>2, SetInduction
<1>4. Cardinality(S) \in Nat
  BY FS_CardinalityType
<1>5. QED
  BY <1>3, <1>4

\* ... which leaves none out ...
LEMMA EnumerationOnto ==
  ASSUME NEW S \in SUBSET Nat, IsFiniteSet(S), NEW s, Enumerates(s, S)
  PROVE  \A x \in S : \E i \in 1 .. Cardinality(S) : s[i] = x
<1> DEFINE n == Cardinality(S)
<1>1. n \in Nat
  BY FS_CardinalityType
<1>2. s \in [1 .. n -> S] /\ \A i, j \in 1 .. n : i < j => s[i] < s[j]
  BY DEF Enumerates
<1> HIDE DEF n
<1>3. \A i, j \in 1 .. n : s[i] = s[j] => i = j
  <2>1. SUFFICES ASSUME NEW i \in 1 .. n, NEW j \in 1 .. n, s[i] = s[j], i # j PROVE FALSE
    OBVIOUS
  <2>2. s[i] \in Nat /\ s[j] \in Nat
    BY <1>2
  <2>3. i < j \/ j < i
    BY <2>1
  <2>4. s[i] < s[j] \/ s[j] < s[i]
    BY <1>2, <2>3
  <2>5. QED
    BY <2>1, <2>2, <2>4
<1>4. s \in Injection(1 .. n, S)
  BY <1>2, <1>3 DEF Injection, IsInjective
<1>5. Cardinality(1 .. n) = n
  BY <1>1, FS_Interval
<1>6. s \in Surjection(1 .. n, S)
  BY <1>4, <1>5, FS_Injection DEF n
<1>7. QED
  BY <1>6 DEF Surjection, n

\* ... and is the only one.
LEMMA EnumerationUnique ==
  ASSUME NEW S \in SUBSET Nat, IsFiniteSet(S),
         NEW s, Enumerates(s, S), NEW t, Enumerates(t, S)
  PROVE  s = t
<1> DEFINE n == Cardinality(S)
           D == {i \in 1 .. n : s[i] # t[i]}
<1>1. n \in Nat
  BY FS_CardinalityType
<1>2. /\ s \in [1 .. n -> S] /\ \A i, j \in 1 .. n : i < j => s[i] < s[j]
      /\ t \in [1 .. n -> S] /\ \A i, j \in 1 .. n : i < j => t[i] < t[j]
  BY DEF Enumerates
<1>3. /\ \A x \in S : \E i \in 1 .. n : s[i] = x
      /\ \A x \in S : \E i \in 1 .. n : t[i] = x
  BY EnumerationOnto
<1> HIDE DEF n
<1>4. SUFFICES ASSUME D # {} PROVE FALSE
  <2>1. D = {}
    BY <1>4
  <2>2. \A i \in 1 .. n : s[i] = t[i]
    BY <2>1
  <2>3. s = [i \in 1 .. n |-> s[i]] /\ t = [i \in 1 .. n |-> t[i]]
    BY <1>2
  <2>4. s = t
    BY <2>2, <2>3, Zenon
  <2>5. QED
    BY <2>4
<1>5. PICK i \in D : \A j \in D : i <= j
  <2>1. D \in SUBSET Nat
    BY <1>1
  <2> HIDE DEF D
  <2>2. QED
    BY <1>4, <2>1, Least
<1>6. i \in 1 .. n /\ s[i] # t[i] /\ s[i] \in S /\ t[i] \in S /\ s[i] \in Nat /\ t[i] \in Nat
  BY <1>2
<1>7. ASSUME NEW j \in 1 .. n, j < i PROVE s[j] = t[j]
  <2>1. j \notin D
    BY <1>5, <1>6, <1>7
  <2>2. QED
    BY <2>1
<1> HIDE DEF D
<1>8. ASSUME NEW j \in 1 .. n, t[j] = s[i] PROVE t[i] < s[i]
  <2>1. CASE j < i
    <3>1. s[j] < s[i] /\ s[j] = t[j]
      BY <1>2, <1>6, <1>7, <2>1
    <3>2. QED
      BY <1>6, <1>8, <3>1
  <2>2. CASE j = i
    BY <1>6, <1>8, <2>2
  <2>3. CASE i < j
    BY <1>2, <1>6, <1>8, <2>3
  <2>4. QED
    BY <1>6, <2>1, <2>2, <2>3
<1>9. ASSUME NEW j \in 1 .. n, s[j] = t[i] PROVE s[i] < t[i]
  <2>1. CASE j < i
    <3>1. t[j] < t[i] /\ s[j] = t[j]
      BY <1>2, <1>6, <1>7, <2>1
    <3>2. QED
      BY <1>6, <1>9, <3>1
  <2>2. CASE j = i
    BY <1>6, <1>9, <2>2
  <2>3. CASE i < j
    BY <1>2, <1>6, <1>9, <2>3
  <2>4. QED
    BY <1>6, <2>1, <2>2, <2>3
<1>10. t[i] < s[i] /\ s[i] < t[i]
  BY <1>3, <1>6, <1>8, <1>9
<1>11. QED
  BY <1>6, <1>10

\* Queries' FiniteSets is everybody's.
LEMMA CardinalityIs == \A S : Q!Cardinality(S) = Cardinality(S)
BY DEF Q!Cardinality, Cardinality

LEMMA FinitenessIs == \A S : Q!IsFiniteSet(S) <=> IsFiniteSet(S)
BY DEF Q!IsFiniteSet, IsFiniteSet

\* A list of elements of S in increasing order.
Rising(s, S) ==
  /\ s \in Seq(S)
  /\ \A i, j \in 1 .. Len(s) : i < j => s[i] < s[j]

\* What stands on a list.
LEMMA ElementsAre ==
  ASSUME NEW S, NEW s \in Seq(S)
  PROVE  Q!ToSet(s) = {s[i] : i \in 1 .. Len(s)} /\ Q!ToSet(s) \subseteq S
<1>1. DOMAIN s = 1 .. Len(s) /\ \A i \in 1 .. Len(s) : s[i] \in S
  OBVIOUS
<1>2. QED
  BY <1>1 DEF Q!ToSet

\* A rising list has as many elements as members.
LEMMA RisingCounts ==
  ASSUME NEW S \in SUBSET Nat, NEW s, Rising(s, S)
  PROVE  /\ Q!ToSet(s) \subseteq S
         /\ Len(s) = Q!Cardinality(Q!ToSet(s))
<1> DEFINE n == Len(s)
           R == {s[i] : i \in 1 .. n}
<1>1. /\ n \in Nat /\ s \in [1 .. n -> S]
      /\ \A i, j \in 1 .. n : i < j => s[i] < s[j]
  BY DEF Rising
<1>2. Q!ToSet(s) = R /\ R \subseteq S
  BY ElementsAre DEF Rising
<1> HIDE DEF n
<1>3. s \in [1 .. n -> R]
  BY <1>1
<1>4. \A i, j \in 1 .. n : s[i] = s[j] => i = j
  <2>1. SUFFICES ASSUME NEW i \in 1 .. n, NEW j \in 1 .. n, s[i] = s[j], i # j PROVE FALSE
    OBVIOUS
  <2>2. s[i] \in Nat /\ s[j] \in Nat
    BY <1>1
  <2>3. i < j \/ j < i
    BY <2>1
  <2>4. s[i] < s[j] \/ s[j] < s[i]
    BY <1>1, <2>3
  <2>5. QED
    BY <2>1, <2>2, <2>4
<1>5. \A x \in R : \E i \in 1 .. n : s[i] = x
  OBVIOUS
<1> HIDE DEF R
<1>6. s \in Bijection(1 .. n, R)
  BY <1>3, <1>4, <1>5 DEF Bijection, Injection, Surjection, IsInjective
<1>7. ExistsBijection(1 .. n, R)
  BY <1>6 DEF ExistsBijection
<1>8. Cardinality(R) = n
  BY <1>1, <1>7, FS_CountingElements
<1>9. QED
  BY <1>2, <1>8, CardinalityIs DEF n

\* Its head is its least element, and what is left still rises.
LEMMA RisingTail ==
  ASSUME NEW S \in SUBSET Nat, NEW s, Rising(s, S), s # <<>>
  PROVE  /\ Rising(Tail(s), S) /\ Head(s) \in S
         /\ \A x \in Q!ToSet(Tail(s)) : Head(s) < x
         /\ Q!ToSet(s) = {Head(s)} \cup Q!ToSet(Tail(s))
<1> DEFINE n == Len(s)
           t == Tail(s)
<1>1. /\ n \in Nat /\ n >= 1 /\ s \in Seq(S) /\ Head(s) = s[1] /\ s[1] \in S
      /\ \A i, j \in 1 .. n : i < j => s[i] < s[j]
  BY DEF Rising
<1>2. t \in Seq(S) /\ Len(t) = n - 1 /\ \A i \in 1 .. n - 1 : t[i] = s[i + 1]
  BY <1>1
<1>3. /\ Q!ToSet(s) = {s[i] : i \in 1 .. n}
      /\ Q!ToSet(t) = {t[i] : i \in 1 .. Len(t)}
  BY <1>1, <1>2, ElementsAre
<1> HIDE DEF n, t
<1>4. ASSUME NEW i \in 1 .. Len(t), NEW j \in 1 .. Len(t), i < j PROVE t[i] < t[j]
  <2>1. i + 1 \in 1 .. n /\ j + 1 \in 1 .. n /\ i + 1 < j + 1 /\ i \in 1 .. n - 1 /\ j \in 1 .. n - 1
    BY <1>1, <1>2, <1>4
  <2>2. QED
    BY <1>1, <1>2, <2>1
<1>5. ASSUME NEW i \in 1 .. Len(t) PROVE s[1] < t[i]
  <2>1. i + 1 \in 1 .. n /\ 1 \in 1 .. n /\ 1 < i + 1 /\ i \in 1 .. n - 1
    BY <1>1, <1>2
  <2>2. QED
    BY <1>1, <1>2, <2>1
<1>6. Q!ToSet(s) = {s[1]} \cup Q!ToSet(t)
  <2>1. ASSUME NEW i \in 1 .. n PROVE s[i] \in {s[1]} \cup Q!ToSet(t)
    <3>1. CASE i = 1
      BY <3>1
    <3>2. CASE i # 1
      <4>1. i - 1 \in 1 .. n - 1 /\ (i - 1) + 1 = i
        BY <1>1, <3>2
      <4>2. t[i - 1] = s[i] /\ i - 1 \in 1 .. Len(t)
        BY <1>2, <4>1
      <4>3. QED
        BY <1>3, <4>2
    <3>3. QED
      BY <3>1, <3>2
  <2>2. ASSUME NEW i \in 1 .. Len(t) PROVE t[i] \in Q!ToSet(s)
    <3>1. i \in 1 .. n - 1 /\ i + 1 \in 1 .. n
      BY <1>1, <1>2
    <3>2. QED
      BY <1>2, <1>3, <3>1
  <2>3. s[1] \in Q!ToSet(s)
    <3>1. 1 \in 1 .. n
      BY <1>1
    <3>2. QED
      BY <1>3, <3>1
  <2>4. QED
    BY <1>3, <2>1, <2>2, <2>3
<1>7. Rising(t, S)
  BY <1>2, <1>4 DEF Rising
<1>8. \A x \in Q!ToSet(t) : s[1] < x
  BY <1>3, <1>5
<1>9. QED
  BY <1>1, <1>6, <1>7, <1>8 DEF t

\* ORDER BY: the half in the order of the names, each once.
LEMMA SortedIs ==
  ASSUME NEW S \in SUBSET Nat, IsFiniteSet(S)
  PROVE  /\ Enumerates(Q!Sorted(S), S)
         /\ Rising(Q!Sorted(S), S)
         /\ Len(Q!Sorted(S)) = Cardinality(S)
         /\ Q!ToSet(Q!Sorted(S)) = S
<1> DEFINE n == Cardinality(S)
           s == Q!Sorted(S)
<1>1. n \in Nat
  BY FS_CardinalityType
<1>2. PICK e : Enumerates(e, S)
  BY EnumerationExists
<1>3. Q!Sorted(S) = CHOOSE t \in [1 .. n -> S] : \A i, j \in DOMAIN t : i < j => t[i] < t[j]
  BY CardinalityIs DEF Q!Sorted
<1>4. e \in [1 .. n -> S] /\ \A i, j \in DOMAIN e : i < j => e[i] < e[j]
  BY <1>2 DEF Enumerates
<1> HIDE DEF n
<1>5. s \in [1 .. n -> S] /\ \A i, j \in DOMAIN s : i < j => s[i] < s[j]
  BY <1>3, <1>4
<1> HIDE DEF s
<1>6. DOMAIN s = 1 .. n /\ s \in Seq(S) /\ Len(s) = n
  BY <1>1, <1>5
<1>7. Enumerates(s, S)
  BY <1>5, <1>6 DEF Enumerates, n
<1>8. Rising(s, S)
  BY <1>5, <1>6 DEF Rising
<1>9. Q!ToSet(s) = S
  <2>1. \A x \in S : \E i \in 1 .. n : s[i] = x
    BY <1>7, EnumerationOnto DEF n
  <2>2. Q!ToSet(s) = {s[i] : i \in 1 .. n}
    BY <1>6 DEF Q!ToSet
  <2>3. \A i \in 1 .. n : s[i] \in S
    BY <1>5
  <2>4. QED
    BY <2>1, <2>2, <2>3
<1>10. QED
  BY <1>6, <1>7, <1>8, <1>9 DEF s, n

\* The half of the names T.
RowsOf(T) == [name : T, installed : BOOLEAN]

\* What was found holds each name of T once, with its state.
Holds(f, T) ==
  /\ f \in Seq(RowsOf(T)) /\ Len(f) = Cardinality(T)
  /\ \A i, j \in 1 .. Len(f) : f[i].name = f[j].name => i = j
  /\ \A i \in 1 .. Len(f) : f[i].installed = (f[i].name \in status)

\* isoftapp's own sort of what was found: the names in order, each with its state.
LEMMA ByNameIs ==
  ASSUME NEW T \in SUBSET Nat, IsFiniteSet(T), NEW f, Holds(f, T)
  PROVE  Q!ByName(f) = Q!Rows(Q!Sorted(T))
<1> DEFINE n == Cardinality(T)
           e == Q!Sorted(T)
           P(p) == p \in [1 .. n -> 1 .. n] /\ \A i, j \in 1 .. n : i < j => Q!Before(f, p[i], p[j])
           order == CHOOSE p \in [1 .. n -> 1 .. n] : \A i, j \in 1 .. n : i < j => Q!Before(f, p[i], p[j])
<1>1. /\ n \in Nat /\ Len(f) = n /\ DOMAIN f = 1 .. n /\ f \in [1 .. n -> RowsOf(T)]
      /\ \A i, j \in 1 .. n : f[i].name = f[j].name => i = j
      /\ \A i \in 1 .. n : f[i].installed = (f[i].name \in status)
  BY FS_CardinalityType DEF Holds
<1>2. /\ Enumerates(e, T) /\ DOMAIN e = 1 .. n
      /\ e \in [1 .. n -> T] /\ \A i, j \in 1 .. n : i < j => e[i] < e[j]
  BY SortedIs DEF Enumerates
<1> HIDE DEF e
<1>3. \A i \in 1 .. n : /\ f[i].name \in T
                        /\ f[i] = [name |-> f[i].name, installed |-> f[i].name \in status]
  <2>1. SUFFICES ASSUME NEW i \in 1 .. n
                 PROVE  /\ f[i].name \in T
                        /\ f[i] = [name |-> f[i].name, installed |-> f[i].name \in status]
    OBVIOUS
  <2>2. f[i] \in [name : T, installed : BOOLEAN] /\ f[i].installed = (f[i].name \in status)
    BY <1>1 DEF RowsOf
  <2>3. f[i] = [name |-> f[i].name, installed |-> f[i].installed]
    BY <2>2
  <2>4. QED
    BY <2>2, <2>3
<1>4. \A x \in T : \E k \in 1 .. n : f[k].name = x
  <2> DEFINE names == [i \in 1 .. n |-> f[i].name]
  <2>1. names \in Injection(1 .. n, T)
    BY <1>1, <1>3 DEF Injection, IsInjective
  <2>2. Cardinality(1 .. n) = n
    BY <1>1, FS_Interval
  <2>3. names \in Surjection(1 .. n, T)
    <3> HIDE DEF names
    <3> QED BY <2>1, <2>2, FS_Injection
  <2>4. \A x \in T : \E k \in 1 .. n : names[k] = x
    <3> HIDE DEF names
    <3> QED BY <2>3 DEF Surjection
  <2>5. QED
    BY <2>4
<1> HIDE DEF n
<1>5. \E p \in [1 .. n -> 1 .. n] : \A i, j \in 1 .. n : i < j => Q!Before(f, p[i], p[j])
  <2> DEFINE p == [i \in 1 .. n |-> CHOOSE k \in 1 .. n : f[k].name = e[i]]
  <2>1. \A i \in 1 .. n : p[i] \in 1 .. n /\ f[p[i]].name = e[i]
    BY <1>2, <1>4
  <2>2. p \in [1 .. n -> 1 .. n]
    BY <2>1
  <2>3. \A i, j \in 1 .. n : i < j => Q!Before(f, p[i], p[j])
    <3> HIDE DEF p
    <3> QED BY <1>2, <2>1 DEF Q!Before
  <2> HIDE DEF p
  <2>4. QED
    BY <2>2, <2>3
<1>6. /\ order \in [1 .. n -> 1 .. n]
      /\ \A i, j \in 1 .. n : i < j => Q!Before(f, order[i], order[j])
  BY <1>5
<1>7. Q!ByName(f) = [i \in 1 .. n |-> f[order[i]]]
  BY <1>1 DEF Q!ByName
<1> HIDE DEF order
<1> DEFINE h == [i \in 1 .. n |-> f[order[i]].name]
<1>8. h \in [1 .. n -> T]
  <2>1. \A i \in 1 .. n : f[order[i]].name \in T
    BY <1>3, <1>6
  <2>2. QED
    BY <2>1
<1>9. ASSUME NEW i \in 1 .. n, NEW j \in 1 .. n, i < j PROVE h[i] < h[j]
  <2>1. order[i] \in 1 .. n /\ order[j] \in 1 .. n
    BY <1>6
  <2>2. f[order[i]].name < f[order[j]].name \/ (f[order[i]].name = f[order[j]].name /\ order[i] < order[j])
    BY <1>6, <1>9 DEF Q!Before
  <2>3. ~ (order[i] < order[j] /\ order[i] = order[j])
    BY <2>1
  <2>4. f[order[i]].name < f[order[j]].name
    BY <1>1, <2>1, <2>2, <2>3
  <2>5. QED
    BY <2>4
<1>10. h = e
  <2>1. Enumerates(h, T)
    <3> HIDE DEF h
    <3> QED BY <1>8, <1>9 DEF Enumerates, n
  <2> HIDE DEF h
  <2>2. QED
    BY <1>2, <2>1, EnumerationUnique
<1>11. ASSUME NEW i \in 1 .. n PROVE f[order[i]] = [name |-> e[i], installed |-> e[i] \in status]
  <2>1. f[order[i]].name = e[i]
    <3>1. h[i] = f[order[i]].name
      OBVIOUS
    <3> HIDE DEF h
    <3>2. QED
      BY <1>10, <3>1
  <2>2. f[order[i]] = [name |-> f[order[i]].name, installed |-> f[order[i]].name \in status]
    BY <1>3, <1>6
  <2>3. QED
    BY <2>1, <2>2
<1>12. Q!Rows(e) = [i \in 1 .. n |-> [name |-> e[i], installed |-> e[i] \in status]]
  BY <1>2 DEF Q!Rows
<1>13. QED
  BY <1>7, <1>11, <1>12 DEF e

\* The two halves of the table, one after the other.
LEMMA HalvesHold ==
  ASSUME NEW T \in SUBSET Nat, IsFiniteSet(T)
  PROVE  Holds(Q!Listed(Q!Sorted(status \cap T), TRUE) \o Q!Listed(Q!Sorted(T \ status), FALSE), T)
<1> DEFINE A == status \cap T
           B == T \ status
           a == Q!Sorted(A)
           b == Q!Sorted(B)
           x == Q!Listed(a, TRUE)
           y == Q!Listed(b, FALSE)
           f == x \o y
           k == Cardinality(A)
           l == Cardinality(B)
<1>1. IsFiniteSet(A) /\ IsFiniteSet(B) /\ A \in SUBSET Nat /\ B \in SUBSET Nat
  BY FS_Subset
<1>2. k \in Nat /\ l \in Nat /\ Cardinality(T) = k + l
  <2>1. k \in Nat /\ l \in Nat
    BY <1>1, FS_CardinalityType
  <2>2. A \cap B = {} /\ A \cup B = T
    OBVIOUS
  <2>3. Cardinality({}) = 0
    BY FS_EmptySet
  <2>4. Cardinality(A \cup B) = k + l - Cardinality(A \cap B)
    BY <1>1, FS_Union
  <2> HIDE DEF A, B, k, l
  <2>5. Cardinality(T) = k + l - 0
    BY <2>2, <2>3, <2>4
  <2>6. QED
    BY <2>1, <2>5
<1>3. /\ a \in [1 .. k -> A] /\ \A i, j \in 1 .. k : i < j => a[i] < a[j]
      /\ b \in [1 .. l -> B] /\ \A i, j \in 1 .. l : i < j => b[i] < b[j]
  <2> HIDE DEF A, B, k, l
  <2>1. Enumerates(a, A) /\ Enumerates(b, B)
    BY <1>1, SortedIs
  <2> HIDE DEF a, b
  <2>2. QED
    BY <2>1 DEF Enumerates, k, l
<1>4. \A u \in A : u \in T /\ u \in status /\ u \in Nat
  OBVIOUS
<1>5. \A u \in B : u \in T /\ u \notin status /\ u \in Nat
  OBVIOUS
<1> HIDE DEF A, B, k, l, a, b
<1>6. /\ x = [i \in 1 .. k |-> [name |-> a[i], installed |-> TRUE]]
      /\ y = [i \in 1 .. l |-> [name |-> b[i], installed |-> FALSE]]
  BY <1>3 DEF Q!Listed
<1> HIDE DEF x, y
<1>7. /\ x \in Seq(RowsOf(T)) /\ Len(x) = k
      /\ y \in Seq(RowsOf(T)) /\ Len(y) = l
  <2>1. \A i \in 1 .. k : a[i] \in T
    BY <1>3, <1>4
  <2>2. \A i \in 1 .. l : b[i] \in T
    BY <1>3, <1>5
  <2>3. x \in [1 .. k -> RowsOf(T)] /\ y \in [1 .. l -> RowsOf(T)]
    BY <1>6, <2>1, <2>2 DEF RowsOf
  <2>4. QED
    BY <1>2, <2>3
<1>8. \A i \in 1 .. k : x[i].name = a[i] /\ x[i].installed = TRUE
  BY <1>6
<1>9. \A i \in 1 .. l : y[i].name = b[i] /\ y[i].installed = FALSE
  BY <1>6
<1>10. /\ f \in Seq(RowsOf(T)) /\ Len(f) = k + l
       /\ \A i \in 1 .. k + l : f[i] = IF i <= k THEN x[i] ELSE y[i - k]
  BY <1>7, ConcatProperties
<1> HIDE DEF f
<1>11. ASSUME NEW i \in 1 .. k + l, i <= k
       PROVE  i \in 1 .. k /\ f[i].name = a[i] /\ f[i].installed = TRUE /\ a[i] \in A
  <2>1. i \in 1 .. k /\ f[i] = x[i]
    BY <1>2, <1>10, <1>11
  <2>2. QED
    BY <1>3, <1>8, <2>1
<1>12. ASSUME NEW i \in 1 .. k + l, ~ (i <= k)
       PROVE  i - k \in 1 .. l /\ f[i].name = b[i - k] /\ f[i].installed = FALSE /\ b[i - k] \in B
  <2>1. i - k \in 1 .. l /\ f[i] = y[i - k]
    BY <1>2, <1>10, <1>12
  <2>2. QED
    BY <1>3, <1>9, <2>1
<1>13. ASSUME NEW i \in 1 .. k + l, NEW j \in 1 .. k + l, i < j PROVE f[i].name # f[j].name
  <2>1. CASE j <= k
    <3>1. i <= k
      BY <1>2, <1>13, <2>1
    <3>2. a[i] < a[j] /\ a[i] \in Nat /\ a[j] \in Nat
      BY <1>3, <1>4, <1>11, <1>13, <2>1, <3>1
    <3>3. a[i] # a[j]
      BY <3>2
    <3>4. f[i].name = a[i] /\ f[j].name = a[j]
      BY <1>11, <2>1, <3>1
    <3>5. QED
      BY <3>3, <3>4
  <2>2. CASE i <= k /\ ~ (j <= k)
    BY <1>4, <1>5, <1>11, <1>12, <2>2
  <2>3. CASE ~ (i <= k)
    <3>1. ~ (j <= k) /\ i - k < j - k
      BY <1>2, <1>13, <2>3
    <3>2. i - k \in 1 .. l /\ j - k \in 1 .. l
      BY <1>12, <2>3, <3>1
    <3>3. b[i - k] < b[j - k] /\ b[i - k] \in Nat /\ b[j - k] \in Nat
      BY <1>3, <1>5, <3>1, <3>2
    <3>4. b[i - k] # b[j - k]
      BY <3>3
    <3>5. f[i].name = b[i - k] /\ f[j].name = b[j - k]
      BY <1>12, <2>3, <3>1
    <3>6. QED
      BY <3>4, <3>5
  <2>4. QED
    BY <2>1, <2>2, <2>3
<1>14. ASSUME NEW i \in 1 .. k + l, NEW j \in 1 .. k + l, f[i].name = f[j].name PROVE i = j
  <2>1. ~ (i < j) /\ ~ (j < i)
    BY <1>13, <1>14
  <2>2. QED
    BY <1>2, <2>1
<1>15. ASSUME NEW i \in 1 .. k + l PROVE f[i].installed = (f[i].name \in status)
  <2>1. CASE i <= k
    BY <1>4, <1>11, <2>1
  <2>2. CASE ~ (i <= k)
    <3>1. f[i].name \notin status
      BY <1>5, <1>12, <2>2
    <3>2. f[i].installed = FALSE
      BY <1>12, <2>2
    <3>3. (f[i].name \in status) = FALSE
      BY <3>1
    <3>4. QED
      BY <3>2, <3>3, Zenon
  <2>3. QED
    BY <2>1, <2>2
<1>16. Holds(f, T)
  BY <1>2, <1>10, <1>14, <1>15 DEF Holds
<1>17. QED
  BY <1>16 DEF f, x, y, a, b, A, B

(***************************************************************************)
(* The queries. QueryIInv says what a query has found in each of its       *)
(* phases: nothing, the half that is installed, both, or the rows of the   *)
(* packages it has gone through; what it has read is from the table as it  *)
(* is, because a change by hand comes only between two queries or marks    *)
(* them as disturbed.                                                      *)
(***************************************************************************)

\* The types of the variables.
Caps == UNION {Q!ToSet(Requires[n]) : n \in Names}
QueryPCs == {"idle", "open", "read", "close", "emit", "each", "done"}
QueryLists == {"none", "installed", "uninstalled", "check", "update"}
QueryOps == {"none", "search", "all", "installed", "uninstalled", "check", "update"}
QueryJobs ==
  [op : QueryOps, text : Texts \cup {{}}, list : QueryLists, pc : QueryPCs, todo : Seq(Names),
   ok : BOOLEAN]
AskPCs == {"idle", "open", "read", "close", "reply"}
Answers == {None} \cup UNION {Q!ToSet(Provides[n]) : n \in Names}
Asks == [pc : AskPCs, name : Names \cup {None}, answer : Answers, cut : BOOLEAN]
CheckedSets == [ins : SUBSET (Names \cup Caps), dep : SUBSET (Names \cup Caps)]

QueryTypes ==
  /\ appdb \subseteq Names /\ status \subseteq Names
  /\ g_db \in BOOLEAN /\ thisSecond \in BOOLEAN /\ disturbed \in BOOLEAN
  /\ query \in QueryJobs
  /\ Rising(instList, Names) /\ Rising(query.todo, Names)
  /\ ask \in Asks
  /\ chked \in CheckedSets

\* What a query can be doing.
QueryStages ==
  /\ query.pc = "idle" => query = Q!NoJob /\ out = <<>>
  /\ query.pc # "idle" =>
       \/ /\ query.op \in {"search", "installed"} /\ query.list = "installed"
          /\ query.pc \in {"open", "read", "close", "done"}
       \/ /\ query.op \in {"search", "all", "uninstalled"} /\ query.list = "uninstalled"
          /\ query.pc \in {"open", "read", "close", "emit", "done"}
       \/ /\ query.op \in {"check", "update"} /\ query.list = query.op
          /\ query.pc \in {"open", "read", "each", "done"}
  /\ query.op = "search" /\ query.pc = "done" => query.list = "uninstalled"
  /\ query.op = "uninstalled" => query.pc # "emit"
  /\ query.list = "check" /\ query.pc \in {"open", "read"} => out = <<>>

\* The handle is open while it is used, unless somebody comes between.
HandleIs ==
  /\ g_db => query.pc \in {"read", "close", "each"} \/ ask.pc \in {"read", "close"}
  /\ query.pc \in {"read", "close", "each"} /\ ~disturbed => g_db
  /\ ask.pc = "read" /\ ~ask.cut => g_db

FirstHalf == Q!Listed(Q!Matching(instList), TRUE)
SecondHalf == Q!Listed(Q!Sorted((Names \ status) \cap query.text), FALSE)
\* A search between the two halves of the table.
Half ==
  /\ query.op = "search"
  /\ \/ query.list = "installed" /\ query.pc = "close"
     \/ query.list = "uninstalled" /\ query.pc \in {"open", "read"}

\* What has been found so far.
FoundIs ==
  /\ Half => found = FirstHalf
  /\ query.op = "search" /\ query.list = "uninstalled" /\ query.pc \in {"close", "emit"} /\ ~disturbed =>
       found = FirstHalf \o SecondHalf
  /\ query.op = "all" /\ query.pc \in {"close", "emit"} /\ ~disturbed =>
       found = Q!Rows(Q!Sorted(Names))
  /\ \/ query.op \in {"search", "all"} /\ query.pc \in {"close", "emit"}
     \/ (query.op = "update" /\ query.pc = "each")
     \/ Half
     \/ found = <<>>
  /\ ~ (query.list = "check" /\ query.pc = "each") => chked = Q!NoneChked

\* A GetDesktopName that is not cut off has its answer.
AskIs ==
  /\ ask.pc # "idle" => ask.name \in Names
  /\ ask.pc \in {"close", "reply"} /\ ~ask.cut => ask.answer = Q!DesktopOf(ask.name)

\* The inductive invariant of the queries.
QueryIInv ==
  QueryTypes /\ QueryStages /\ HandleIs /\ FoundIs /\ AskIs /\ Q!SearchTellsAll

\* A Check has gone through the packages before those of its list.
Inspected == (status \ Q!ToSet(query.todo)) \cap appdb

\* What is there, in the database or by the system, and what is missing.
There == appdb \cup OsProvides

MissingOf(n, A) == {d \in Q!ToSet(Requires[n]) : d \notin OsProvides /\ d \notin A}

\* Each dependency that is missing of a package of C is told once, for the first.
Tells(o, C, A) ==
  /\ o \in Seq([missing : Caps, neededBy : C])
  /\ \A i, j \in 1 .. Len(o) : o[i].missing = o[j].missing => i = j
  /\ \A i \in 1 .. Len(o) :
       /\ o[i].missing \in MissingOf(o[i].neededBy, A)
       /\ \A m \in C : o[i].missing \in MissingOf(m, A) => o[i].neededBy <= m
  /\ \A m \in C : \A d \in MissingOf(m, A) : \E i \in 1 .. Len(o) : o[i].missing = d

\* Nothing is wrong before it has looked.
CheckOpens == query.list = "check" /\ query.pc \in {"open", "read"} => query.ok

\* While it goes on, it has told what is missing of what it has inspected.
CheckGoes ==
  query.list = "check" /\ query.pc = "each" /\ ~disturbed =>
    /\ Q!ToSet(query.todo) \subseteq status
    /\ \A m \in status \ Q!ToSet(query.todo), n \in Q!ToSet(query.todo) : m < n
    /\ chked.dep = UNION {Q!ToSet(Requires[n]) : n \in Inspected}
    /\ chked.ins \subseteq There
    /\ query.ok <=> out = <<>>
    /\ Tells(out, Inspected, appdb)

\* The inductive invariant of Check, beside that of the queries.
CheckIInv == CheckOpens /\ CheckGoes /\ Q!CheckTellsTruth

\* Nothing of the query changes; only what comes between may be more.
QueryRests ==
  /\ UNCHANGED <<query, instList, found, chked, out, status>>
  /\ disturbed => disturbed'

\* What does not touch the query keeps what is said of it.
LEMMA RestKeeps ==
  ASSUME QueryStages, FoundIs, Q!SearchTellsAll, QueryRests
  PROVE  QueryStages' /\ FoundIs' /\ Q!SearchTellsAll'
<1>1. QueryStages'
  BY DEF QueryStages, QueryRests
<1>2. Half' = Half /\ FirstHalf' = FirstHalf /\ SecondHalf' = SecondHalf
  BY DEF Half, FirstHalf, SecondHalf, QueryRests, Q!Matching, Q!Listed
<1>3. Q!Rows(Q!Sorted(Names))' = Q!Rows(Q!Sorted(Names)) /\ Q!Rows(Q!Sorted(query.text))' = Q!Rows(Q!Sorted(query.text))
  BY DEF QueryRests, Q!Rows
<1>4. FoundIs'
  BY <1>2, <1>3 DEF FoundIs, QueryRests
<1>5. Q!SearchTellsAll'
  BY <1>3 DEF Q!SearchTellsAll, Q!Answered, QueryRests
<1>6. QED
  BY <1>1, <1>4, <1>5

\* Each action keeps the invariant; first those of the others.
LEMMA QueryStutters ==
  ASSUME QueryIInv, UNCHANGED Q!vars
  PROVE  QueryIInv'
<1>1. QueryRests
  BY DEF QueryRests, Q!vars, Q!world
<1>2. QueryStages' /\ FoundIs' /\ Q!SearchTellsAll'
  BY <1>1, RestKeeps DEF QueryIInv
<1>3. QueryTypes'
  BY DEF QueryIInv, QueryTypes, Q!vars, Q!world, Rising
<1>4. HandleIs' /\ AskIs'
  BY DEF QueryIInv, HandleIs, AskIs, Q!vars, Q!world, Q!DesktopOf
<1>5. QED
  BY <1>2, <1>3, <1>4 DEF QueryIInv

LEMMA QueryAsks ==
  ASSUME QueryIInv, NEW n \in Names, Q!Ask(n)
  PROVE  QueryIInv'
<1>1. QueryRests
  BY DEF QueryRests, Q!Ask, Q!world
<1>2. QueryStages' /\ FoundIs' /\ Q!SearchTellsAll'
  BY <1>1, RestKeeps DEF QueryIInv
<1>3. ask' = [pc |-> "open", name |-> n, answer |-> None, cut |-> FALSE]
  BY DEF Q!Ask, Q!NoAsk
<1>4. QueryTypes'
  <2>1. ask' \in Asks
    BY <1>3 DEF Asks, AskPCs, Answers
  <2>2. QED
    BY <2>1 DEF QueryIInv, QueryTypes, Q!Ask, Q!world, Rising
<1>5. HandleIs' /\ AskIs'
  BY <1>3 DEF QueryIInv, HandleIs, AskIs, Q!Ask, Q!world
<1>6. QED
  BY <1>2, <1>4, <1>5 DEF QueryIInv

LEMMA QueryAskOpens ==
  ASSUME QueryIInv, Q!AskOpen
  PROVE  QueryIInv'
<1>1. QueryRests
  BY DEF QueryRests, Q!AskOpen, Q!world
<1>2. QueryStages' /\ FoundIs' /\ Q!SearchTellsAll'
  BY <1>1, RestKeeps DEF QueryIInv
<1>3. /\ ask \in Asks /\ ask.pc = "open" /\ ask' \in Asks /\ ask'.pc = "read" /\ ask'.name = ask.name
      /\ g_db' = TRUE
  BY DEF Q!AskOpen, QueryIInv, QueryTypes, Asks, AskPCs
<1>4. QueryTypes'
  BY <1>3 DEF QueryIInv, QueryTypes, Q!AskOpen, Q!world, Rising
<1>5. HandleIs' /\ AskIs'
  BY <1>3 DEF QueryIInv, HandleIs, AskIs, Q!AskOpen, Q!world
<1>6. QED
  BY <1>2, <1>4, <1>5 DEF QueryIInv

\* GetDesktopName takes the first desktop entry that the package provides.
LEMMA DesktopIsAnswer ==
  ASSUME Q!ConstantsOK, NEW n \in Names
  PROVE  /\ Q!DesktopOf(n) \in Answers
         /\ IF \E c \in Q!ToSet(Provides[n]) : c \in DesktopEntries
              THEN \E i \in DOMAIN Provides[n] :
                     /\ Q!DesktopOf(n) = Provides[n][i] /\ Q!DesktopOf(n) \in DesktopEntries
                     /\ \A j \in 1 .. i - 1 : Provides[n][j] \notin DesktopEntries
              ELSE Q!DesktopOf(n) = None
<1> DEFINE p == Provides[n]
           entries == {i \in DOMAIN p : p[i] \in DesktopEntries}
           first == CHOOSE i \in entries : \A j \in entries : i <= j
<1>1. p \in Seq(Q!ToSet(p))
  BY DEF Q!ConstantsOK
<1>2. DOMAIN p = 1 .. Len(p) /\ Len(p) \in Nat
  BY <1>1
<1>3. Q!ToSet(p) = {p[i] : i \in 1 .. Len(p)}
  BY <1>2 DEF Q!ToSet
<1>4. Q!ToSet(p) \subseteq Answers
  BY DEF Answers
<1>5. Q!DesktopOf(n) = IF entries = {} THEN None ELSE p[first]
  BY DEF Q!DesktopOf
<1>6. CASE entries = {}
  <2>1. ~ \E c \in Q!ToSet(p) : c \in DesktopEntries
    BY <1>2, <1>3, <1>6
  <2>2. Q!DesktopOf(n) = None /\ None \in Answers
    BY <1>5, <1>6 DEF Answers
  <2>3. QED
    BY <2>1, <2>2
<1>7. CASE entries # {}
  <2>1. entries \in SUBSET Nat
    BY <1>2
  <2>2. first \in entries /\ \A j \in entries : first <= j
    <3>1. \E i \in entries : \A j \in entries : i <= j
      <4> HIDE DEF entries
      <4> QED BY <1>7, <2>1, Least
    <3> HIDE DEF entries
    <3>2. QED
      BY <3>1
  <2> HIDE DEF first
  <2>3. first \in DOMAIN p /\ p[first] \in DesktopEntries /\ first \in 1 .. Len(p)
    BY <1>2, <2>2
  <2>4. ASSUME NEW j \in 1 .. first - 1 PROVE p[j] \notin DesktopEntries
    <3>1. j \in DOMAIN p /\ j < first
      BY <1>2, <2>3
    <3>2. j \notin entries
      BY <2>2, <2>3, <3>1
    <3>3. QED
      BY <3>1, <3>2
  <2>5. p[first] \in Q!ToSet(p)
    BY <1>3, <2>3
  <2>6. Q!DesktopOf(n) = p[first]
    BY <1>5, <1>7
  <2> HIDE DEF entries
  <2>7. QED
    BY <1>4, <2>3, <2>4, <2>5, <2>6
<1>8. QED
  BY <1>6, <1>7

LEMMA QueryAskReads ==
  ASSUME QueryIInv, Q!AskRead
  PROVE  QueryIInv'
<1>1. QueryRests
  BY DEF QueryRests, Q!AskRead, Q!world
<1>2. QueryStages' /\ FoundIs' /\ Q!SearchTellsAll'
  BY <1>1, RestKeeps DEF QueryIInv
<1>3. ask \in Asks /\ ask.pc = "read" /\ ask.name \in Names
  BY DEF Q!AskRead, QueryIInv, QueryTypes, AskIs
<1>4. Q!DesktopOf(ask.name) \in Answers /\ None \in Answers
  BY <1>3, DesktopIsAnswer, QueriesConstants DEF Answers
<1>5. /\ ask' = [ask EXCEPT !.pc = "close", !.answer = IF g_db THEN Q!DesktopOf(ask.name) ELSE None]
      /\ g_db' = g_db
  BY DEF Q!AskRead
<1>6. /\ ask' \in Asks /\ ask'.pc = "close" /\ ask'.name = ask.name /\ ask'.cut = ask.cut
      /\ ask'.answer = IF g_db THEN Q!DesktopOf(ask.name) ELSE None
  BY <1>3, <1>4, <1>5 DEF Asks, AskPCs
<1>7. QueryTypes'
  BY <1>6 DEF QueryIInv, QueryTypes, Q!AskRead, Q!world, Rising
<1>8. Q!DesktopOf(ask'.name) = Q!DesktopOf(ask.name)
  BY <1>6
<1>9. HandleIs' /\ AskIs'
  <2>1. HandleIs'
    BY <1>3, <1>6 DEF QueryIInv, HandleIs, Q!AskRead, Q!world
  <2>2. ~ ask.cut => g_db = TRUE
    BY <1>3 DEF QueryIInv, HandleIs, QueryTypes
  <2>3. AskIs'
    BY <1>3, <1>6, <2>2 DEF AskIs
  <2>4. QED
    BY <2>1, <2>3
<1>10. QED
  BY <1>2, <1>7, <1>9 DEF QueryIInv

LEMMA QueryAskCloses ==
  ASSUME QueryIInv, Q!AskClose
  PROVE  QueryIInv'
<1>1. QueryRests
  BY DEF QueryRests, Q!AskClose, Q!world
<1>2. QueryStages' /\ FoundIs' /\ Q!SearchTellsAll'
  BY <1>1, RestKeeps DEF QueryIInv
<1>3. /\ ask \in Asks /\ ask.pc = "close" /\ ask' \in Asks /\ ask'.pc = "reply" /\ ask'.name = ask.name
      /\ ask'.cut = ask.cut /\ ask'.answer = ask.answer
  BY DEF Q!AskClose, QueryIInv, QueryTypes, Asks, AskPCs
<1>4. g_db' = FALSE /\ disturbed' \in BOOLEAN /\ (disturbed' <=> disturbed \/ query # Q!NoJob)
  BY DEF Q!AskClose
<1>5. QueryTypes'
  BY <1>3, <1>4 DEF QueryIInv, QueryTypes, Q!AskClose, Q!world, Rising
<1>6. query = Q!NoJob => query.pc = "idle"
  BY DEF Q!NoJob
<1>7. HandleIs'
  BY <1>3, <1>4, <1>6 DEF QueryIInv, HandleIs, Q!AskClose, Q!world
<1>8. AskIs'
  BY <1>3 DEF QueryIInv, AskIs
<1>9. QED
  BY <1>2, <1>5, <1>7, <1>8 DEF QueryIInv

LEMMA QueryReplies ==
  ASSUME QueryIInv, Q!Reply
  PROVE  QueryIInv'
<1>1. QueryRests
  BY DEF QueryRests, Q!Reply, Q!world
<1>2. QueryStages' /\ FoundIs' /\ Q!SearchTellsAll'
  BY <1>1, RestKeeps DEF QueryIInv
<1>3. ask.pc = "reply" /\ ask' = [pc |-> "idle", name |-> None, answer |-> None, cut |-> FALSE]
  BY DEF Q!Reply, Q!NoAsk
<1>4. QueryTypes'
  BY <1>3 DEF QueryIInv, QueryTypes, Q!Reply, Q!world, Rising, Asks, AskPCs, Answers
<1>5. HandleIs' /\ AskIs'
  BY <1>3 DEF QueryIInv, HandleIs, AskIs, Q!Reply, Q!world
<1>6. QED
  BY <1>2, <1>4, <1>5 DEF QueryIInv

LEMMA QueryTicks ==
  ASSUME QueryIInv, Q!Tick
  PROVE  QueryIInv'
<1>1. QueryRests
  BY DEF QueryRests, Q!Tick, Q!world
<1>2. QueryStages' /\ FoundIs' /\ Q!SearchTellsAll'
  BY <1>1, RestKeeps DEF QueryIInv
<1>3. QueryTypes'
  BY DEF QueryIInv, QueryTypes, Q!Tick, Q!world, Rising
<1>4. HandleIs' /\ AskIs'
  BY DEF QueryIInv, HandleIs, AskIs, Q!Tick, Q!world, Q!DesktopOf
<1>5. QED
  BY <1>2, <1>3, <1>4 DEF QueryIInv

LEMMA QueryByHand ==
  ASSUME QueryIInv, NEW n \in Names, Q!ByHand(n)
  PROVE  QueryIInv'
<1>1. QueryRests
  BY DEF QueryRests, Q!ByHand, Q!world
<1>2. QueryStages' /\ FoundIs' /\ Q!SearchTellsAll'
  BY <1>1, RestKeeps DEF QueryIInv
<1>3. /\ appdb' \subseteq Names /\ disturbed' \in BOOLEAN /\ (disturbed' <=> disturbed \/ query # Q!NoJob)
      /\ UNCHANGED <<status, g_db, query, instList, thisSecond, found, chked, out, ask>>
  BY DEF Q!ByHand, QueryIInv, QueryTypes
<1>4. QueryTypes'
  BY <1>3 DEF QueryIInv, QueryTypes, Rising
<1>5. HandleIs' /\ AskIs'
  BY <1>3 DEF QueryIInv, HandleIs, AskIs, Q!DesktopOf
<1>6. QED
  BY <1>2, <1>4, <1>5 DEF QueryIInv

\* What a Check has in hand while it goes through the dependencies of n.
Lookings(n) == [chked : CheckedSets, missing : Seq([missing : Caps, neededBy : {n}])]

\* chkDep for one dependency: it is inspected, and told if it is missing and has not been
\* inspected before.
LEMMA LookIs ==
  ASSUME NEW n \in Names, NEW a \in Lookings(n), NEW dep \in Caps
  PROVE  /\ Q!Look(a, dep, n) \in Lookings(n)
         /\ Q!Look(a, dep, n).chked.dep = a.chked.dep \cup {dep}
         /\ a.chked.ins \subseteq There =>
              /\ Q!Look(a, dep, n).chked.ins \subseteq There
              /\ Q!Look(a, dep, n).missing =
                   IF dep \in a.chked.dep \/ dep \in There THEN a.missing
                   ELSE Append(a.missing, [missing |-> dep, neededBy |-> n])
<1> DEFINE c == a.chked
           r == Q!chkedDep(c, dep)
           here == dep \notin c.dep /\ Q!pkgIsInstalled(c, dep, FALSE)
           b == Q!Look(a, dep, n)
           row == [missing |-> dep, neededBy |-> n]
<1>1. /\ c \in CheckedSets /\ a.missing \in Seq([missing : Caps, neededBy : {n}])
      /\ row \in [missing : Caps, neededBy : {n}] /\ dep \in Names \cup Caps
  BY DEF Lookings
<1>2. /\ r.found = (dep \in c.dep \/ here)
      /\ r.chked = IF here THEN [c EXCEPT !.dep = @ \cup {dep}, !.ins = @ \cup {dep}]
                   ELSE [c EXCEPT !.dep = @ \cup {dep}]
  BY <1>1 DEF Q!chkedDep, Q!insertChkPkgList, CheckedSets
<1>5. c.ins \subseteq There => (here <=> dep \notin c.dep /\ dep \in There)
  BY DEF There, Q!pkgIsInstalled, Q!chkInsPkg
<1>6. /\ b.chked = r.chked
      /\ b.missing = IF r.found THEN a.missing ELSE Append(a.missing, row)
      /\ b = [chked |-> b.chked, missing |-> b.missing]
  BY DEF Q!Look
<1>7. r.found <=> dep \in c.dep \/ here
  BY <1>2
<1> HIDE DEF c, r, b, here
<1>3. /\ r.chked \in CheckedSets /\ r.chked.dep = c.dep \cup {dep}
      /\ r.chked.ins = IF here THEN c.ins \cup {dep} ELSE c.ins
  <2>1. CASE here
    <3>1. c \in [ins : SUBSET (Names \cup Caps), dep : SUBSET (Names \cup Caps)]
      BY <1>1 DEF CheckedSets
    <3>2. r.chked = [ins |-> c.ins \cup {dep}, dep |-> c.dep \cup {dep}]
      BY <1>2, <2>1, <3>1
    <3>3. c.ins \cup {dep} \subseteq Names \cup Caps /\ c.dep \cup {dep} \subseteq Names \cup Caps
      BY <1>1, <3>1
    <3>4. QED
      BY <2>1, <3>2, <3>3 DEF CheckedSets
  <2>2. CASE ~here
    BY <1>1, <1>2, <2>2 DEF CheckedSets
  <2>3. QED
    BY <2>1, <2>2
<1>8. b.missing \in Seq([missing : Caps, neededBy : {n}])
  <2> DEFINE Told == [missing : Caps, neededBy : {n}]
  <2>1. a.missing \in Seq(Told) /\ row \in Told
    BY <1>1
  <2> HIDE DEF row, Told
  <2>2. Append(a.missing, row) \in Seq(Told)
    BY <2>1
  <2>3. QED
    BY <1>6, <2>1, <2>2 DEF Told
<1>9. b \in Lookings(n)
  BY <1>3, <1>6, <1>8 DEF Lookings
<1>10. c.ins \subseteq There => b.chked.ins \subseteq There
  BY <1>3, <1>5, <1>6
<1>11. c.ins \subseteq There =>
         b.missing = IF dep \in c.dep \/ dep \in There THEN a.missing ELSE Append(a.missing, row)
  BY <1>5, <1>6, <1>7
<1>12. QED
  BY <1>3, <1>6, <1>9, <1>10, <1>11 DEF b, c

\* chkDep for the dependencies of a package, one after the other ...
LEMMA LookedRun ==
  ASSUME QueryTypes, NEW n \in Names
  PROVE  LET s == Requires[n]
             m == Len(s)
             A == Lookings(n)
             zero == [chked |-> Q!insertChkPkgList(chked, n), missing |-> <<>>]
             step == [k \in 1 .. m |-> [a \in A |-> Q!Look(a, s[k], n)]]
         IN  /\ m \in Nat /\ zero \in A /\ step \in [1 .. m -> [A -> A]]
             /\ \E r : Runs(r, m, A, zero, step) /\ Q!Looked(n) = r[m]
<1> DEFINE s == Requires[n]
           m == Len(s)
           A == Lookings(n)
           zero == [chked |-> Q!insertChkPkgList(chked, n), missing |-> <<>>]
           step == [k \in 1 .. m |-> [a \in A |-> Q!Look(a, s[k], n)]]
           P(g) == g = [t \in SUBSET (DOMAIN s) |->
                          IF t = {} THEN zero ELSE Q!Look(g[t \ {Top(t)}], s[Top(t)], n)]
<1>1. /\ m \in Nat /\ DOMAIN s = 1 .. m
      /\ \A k \in 1 .. m : s[k] \in Caps
  <2>1. s \in Seq(Q!ToSet(s))
    BY QueriesConstants DEF Q!ConstantsOK
  <2>2. Q!ToSet(s) \subseteq Caps
    BY DEF Caps
  <2> HIDE DEF s
  <2>3. QED
    BY <2>1, <2>2
<1>2. zero \in A
  <2>1. chked \in [ins : SUBSET (Names \cup Caps), dep : SUBSET (Names \cup Caps)]
    BY DEF QueryTypes, CheckedSets
  <2>2. Q!insertChkPkgList(chked, n) \in CheckedSets
    BY <2>1 DEF Q!insertChkPkgList, CheckedSets
  <2>3. <<>> \in Seq([missing : Caps, neededBy : {n}])
    OBVIOUS
  <2>4. QED
    BY <2>2, <2>3 DEF Lookings
<1>3. step \in [1 .. m -> [A -> A]]
  <2>1. \A k \in 1 .. m : \A a \in A : Q!Look(a, s[k], n) \in A
    BY <1>1, LookIs
  <2>2. QED
    BY <2>1
<1>4. \A k \in 1 .. m : \A a \in A : step[k][a] = Q!Look(a, s[k], n)
  OBVIOUS
<1> HIDE DEF s, m, A, zero, step
<1>5. \E g : P(g)
  <2>1. PICK g : Folds(g, m, A, zero, step)
    BY <1>1, <1>2, <1>3, FoldExists
  <2>2. ASSUME NEW t \in SUBSET (1 .. m)
        PROVE  g[t] = IF t = {} THEN zero ELSE Q!Look(g[t \ {Top(t)}], s[Top(t)], n)
    <3>1. CASE t = {}
      BY <2>1, <3>1 DEF Folds
    <3>2. CASE t # {}
      <4>1. Top(t) \in 1 .. m /\ t \ {Top(t)} \in SUBSET (1 .. m)
        BY <1>1, <3>2, TopIs
      <4>2. g[t] = step[Top(t)][g[t \ {Top(t)}]] /\ g[t \ {Top(t)}] \in A
        BY <2>1, <3>2, <4>1 DEF Folds
      <4>3. QED
        BY <1>4, <3>2, <4>1, <4>2
    <3>3. QED
      BY <3>1, <3>2
  <2>3. g = [t \in SUBSET (1 .. m) |-> g[t]]
    BY <2>1 DEF Folds
  <2>4. P(g)
    BY <1>1, <2>2, <2>3
  <2>5. QED
    BY <2>4
<1> DEFINE it == CHOOSE g : P(g)
<1>6. P(it)
  <2> HIDE DEF P
  <2> QED BY <1>5
<1>7. Q!Looked(n) = it[1 .. m]
  <2>1. \A t : Q!Max(t) = Top(t)
    BY DEF Q!Max, Top
  <2>2. Q!Looked(n) = it[DOMAIN s]
    BY <2>1 DEF Q!Looked, Q!FoldLeft, Q!MapThenFoldSet, s, zero
  <2>3. QED
    BY <1>1, <2>2
<1>8. FollowsSteps(it, m, A, zero, step)
  <2> HIDE DEF it
  <2>1. ASSUME NEW t \in SUBSET (1 .. m)
        PROVE  it[t] = IF t = {} THEN zero ELSE Q!Look(it[t \ {Top(t)}], s[Top(t)], n)
    BY <1>1, <1>6
  <2>2. it[{}] = zero
    BY <2>1
  <2>3. ASSUME NEW t \in SUBSET (1 .. m), t # {}, it[t \ {Top(t)}] \in A
        PROVE  it[t] = step[Top(t)][it[t \ {Top(t)}]]
    <3>1. Top(t) \in 1 .. m
      BY <1>1, <2>3, TopIs
    <3>2. QED
      BY <1>4, <2>1, <2>3, <3>1
  <2>4. QED
    BY <2>2, <2>3 DEF FollowsSteps
<1> DEFINE r == [k \in 0 .. m |-> it[1 .. k]]
<1>9. Runs(r, m, A, zero, step)
  <2> HIDE DEF it
  <2> QED BY <1>1, <1>2, <1>3, <1>8, RunOfFold
<1>10. r[m] = it[1 .. m]
  <2> HIDE DEF it
  <2>1. m \in 0 .. m
    BY <1>1
  <2>2. QED
    BY <2>1
<1> HIDE DEF r, it
<1>11. QED
  BY <1>1, <1>2, <1>3, <1>7, <1>9, <1>10 DEF s, m, A, zero, step

\* The half of o tell each of D, once, for n.
TellsOnce(o, D, n) ==
  /\ \A i, j \in 1 .. Len(o) : o[i].missing = o[j].missing => i = j
  /\ \A i \in 1 .. Len(o) : o[i].missing \in D /\ o[i].neededBy = n
  /\ \A d \in D : \E i \in 1 .. Len(o) : o[i].missing = d

\* One more that is missing.
LEMMA TellOneMore ==
  ASSUME NEW R, NEW o \in Seq(R), NEW D, NEW n, TellsOnce(o, D, n),
         NEW row \in R, row.missing \notin D, row.neededBy = n
  PROVE  TellsOnce(Append(o, row), D \cup {row.missing}, n)
<1> DEFINE p == Append(o, row)
           l == Len(o)
           E == D \cup {row.missing}
<1>1. l \in Nat /\ Len(p) = l + 1 /\ p[l + 1] = row /\ \A i \in 1 .. l : p[i] = o[i]
  OBVIOUS
<1>2. /\ \A i, j \in 1 .. l : o[i].missing = o[j].missing => i = j
      /\ \A i \in 1 .. l : o[i].missing \in D /\ o[i].neededBy = n
      /\ \A d \in D : \E i \in 1 .. l : o[i].missing = d
  BY DEF TellsOnce
<1>3. \A i \in 1 .. l + 1 : i \in 1 .. l \/ i = l + 1
  BY <1>1
<1>3a. \A i \in 1 .. l : i \in 1 .. l + 1
  BY <1>1
<1>3b. l + 1 \in 1 .. l + 1
  BY <1>1
<1> HIDE DEF p, l
<1>4. ASSUME NEW i \in 1 .. l + 1, NEW j \in 1 .. l + 1, p[i].missing = p[j].missing PROVE i = j
  <2>1. CASE i \in 1 .. l /\ j \in 1 .. l
    BY <1>1, <1>2, <1>4, <2>1
  <2>2. CASE i \in 1 .. l /\ j = l + 1
    <3>1. p[i].missing \in D /\ p[j].missing = row.missing
      BY <1>1, <1>2, <2>2
    <3>2. QED
      BY <1>4, <3>1
  <2>3. CASE i = l + 1 /\ j \in 1 .. l
    <3>1. p[j].missing \in D /\ p[i].missing = row.missing
      BY <1>1, <1>2, <2>3
    <3>2. QED
      BY <1>4, <3>1
  <2>4. QED
    BY <1>3, <2>1, <2>2, <2>3
<1>5. ASSUME NEW i \in 1 .. l + 1 PROVE p[i].missing \in E /\ p[i].neededBy = n
  BY <1>1, <1>2, <1>3
<1>6. ASSUME NEW d \in E PROVE \E i \in 1 .. l + 1 : p[i].missing = d
  <2>1. CASE d \in D
    <3>1. PICK i \in 1 .. l : o[i].missing = d
      BY <1>2, <2>1
    <3>2. i \in 1 .. l + 1 /\ p[i].missing = d
      BY <1>1, <1>3a, <3>1
    <3>3. QED
      BY <3>2
  <2>2. CASE d = row.missing
    BY <1>1, <1>3b, <2>2
  <2>3. QED
    BY <2>1, <2>2
<1> HIDE DEF E
<1>7. TellsOnce(p, E, n)
  BY <1>1, <1>4, <1>5, <1>6 DEF TellsOnce
<1>8. QED
  BY <1>7 DEF p, E

\* ... tells each that is missing, once, unless an earlier package has been asked for it.
LEMMA LookedIs ==
  ASSUME QueryTypes, NEW n \in Names
  PROVE  /\ Q!Looked(n) \in Lookings(n)
         /\ Q!Looked(n).chked.dep = chked.dep \cup Q!ToSet(Requires[n])
         /\ chked.ins \subseteq There /\ n \in There =>
              /\ Q!Looked(n).chked.ins \subseteq There
              /\ TellsOnce(Q!Looked(n).missing,
                           {d \in Q!ToSet(Requires[n]) : d \notin chked.dep /\ d \notin There}, n)
<1> DEFINE s == Requires[n]
           m == Len(s)
           A == Lookings(n)
           zero == [chked |-> Q!insertChkPkgList(chked, n), missing |-> <<>>]
           step == [k \in 1 .. m |-> [a \in A |-> Q!Look(a, s[k], n)]]
           First(k) == {s[i] : i \in 1 .. k}
           Lost(S) == {d \in S : d \notin chked.dep /\ d \notin There}
           known == chked.ins \subseteq There /\ n \in There
<1>1. m \in Nat /\ zero \in A /\ step \in [1 .. m -> [A -> A]]
  BY LookedRun
<1>2. PICK r : Runs(r, m, A, zero, step) /\ Q!Looked(n) = r[m]
  BY LookedRun
<1>3. \A k \in 1 .. m : \A a \in A : step[k][a] = Q!Look(a, s[k], n)
  OBVIOUS
<1>4. /\ zero.chked.dep = chked.dep /\ zero.missing = <<>>
      /\ known => zero.chked.ins \subseteq There
  BY DEF Q!insertChkPkgList, QueryTypes, CheckedSets
<1>5. Q!ToSet(s) = First(m) /\ \A k \in 1 .. m : s[k] \in Caps
  <2>1. s \in Seq(Q!ToSet(s))
    BY QueriesConstants DEF Q!ConstantsOK
  <2>2. Q!ToSet(s) \subseteq Caps
    BY DEF Caps
  <2>3. Q!ToSet(s) = {s[i] : i \in 1 .. m}
    BY <2>1, ElementsAre
  <2> HIDE DEF s
  <2>4. \A k \in 1 .. m : s[k] \in Caps
    BY <2>2, <2>3
  <2>5. QED
    BY <2>3, <2>4
<1> HIDE DEF s, m, A, zero, step
<1> DEFINE Upto(k) ==
             /\ r[k] \in A
             /\ r[k].chked.dep = chked.dep \cup First(k)
             /\ known => /\ r[k].chked.ins \subseteq There
                         /\ TellsOnce(r[k].missing, Lost(First(k)), n)
           N == {k \in Nat : k <= m => Upto(k)}
<1>6. 0 \in N
  <2>1. r[0] = zero
    BY <1>2 DEF Runs
  <2>2. First(0) = {}
    OBVIOUS
  <2>3. Lost(First(0)) = {}
    OBVIOUS
  <2>4. TellsOnce(<<>>, {}, n)
    BY DEF TellsOnce
  <2> HIDE DEF First, Lost, known
  <2>5. TellsOnce(r[0].missing, Lost(First(0)), n)
    BY <1>4, <2>1, <2>3, <2>4
  <2>6. Upto(0)
    BY <1>1, <1>4, <2>1, <2>2, <2>5
  <2>7. QED
    BY <2>6
<1>7. ASSUME NEW k \in Nat, k \in N PROVE k + 1 \in N
  <2>1. SUFFICES ASSUME k + 1 <= m PROVE Upto(k + 1)
    OBVIOUS
  <2> DEFINE a == r[k]
             dep == s[k + 1]
             b == r[k + 1]
  <2>2. k \in 0 .. m /\ k + 1 \in 1 .. m /\ k <= m /\ (k + 1) - 1 = k
    BY <1>1, <2>1
  <2>3. Upto(k)
    BY <1>7, <2>2
  <2>4. a \in A /\ dep \in Caps
    BY <1>5, <2>2, <2>3
  <2>5. b = Q!Look(a, dep, n)
    <3>1. \A i \in 1 .. m : r[i] = step[i][r[i - 1]]
      BY <1>2 DEF Runs
    <3>2. r[k + 1] = step[k + 1][r[k]]
      BY <2>2, <3>1
    <3>3. step[k + 1][a] = Q!Look(a, dep, n)
      BY <1>3, <2>2, <2>4
    <3>4. QED
      BY <3>2, <3>3
  <2>6. First(k + 1) = First(k) \cup {dep}
    <3>1. \A i \in 1 .. k + 1 : i \in 1 .. k \/ i = k + 1
      OBVIOUS
    <3>2. \A i \in 1 .. k : i \in 1 .. k + 1
      OBVIOUS
    <3>3. k + 1 \in 1 .. k + 1
      OBVIOUS
    <3>4. QED
      BY <3>1, <3>2, <3>3
  <2> DEFINE c == a.chked
             row == [missing |-> dep, neededBy |-> n]
  <2>7. /\ c.dep = chked.dep \cup First(k)
        /\ known => c.ins \subseteq There /\ TellsOnce(a.missing, Lost(First(k)), n)
    BY <2>3
  <2>8. /\ b \in A
        /\ b.chked.dep = c.dep \cup {dep}
        /\ c.ins \subseteq There =>
             /\ b.chked.ins \subseteq There
             /\ b.missing = IF dep \in c.dep \/ dep \in There THEN a.missing ELSE Append(a.missing, row)
    BY <2>4, <2>5, LookIs DEF A
  <2>9. a.missing \in Seq([missing : Caps, neededBy : {n}])
    BY <2>4 DEF A, Lookings
  <2>10. /\ dep \in chked.dep \/ dep \in There \/ dep \in First(k) =>
              Lost(First(k) \cup {dep}) = Lost(First(k))
         /\ ~ (dep \in chked.dep \/ dep \in There) =>
              Lost(First(k) \cup {dep}) = Lost(First(k)) \cup {dep}
         /\ dep \in First(k) \/ dep \notin Lost(First(k))
    BY DEF Lost
  <2> HIDE DEF First, Lost, a, b, dep
  <2>11. ASSUME known PROVE TellsOnce(b.missing, Lost(First(k + 1)), n)
    <3>1. CASE dep \in c.dep \/ dep \in There
      <4>1. b.missing = a.missing
        BY <2>7, <2>8, <2>11, <3>1
      <4>2. Lost(First(k + 1)) = Lost(First(k))
        BY <2>6, <2>7, <2>10, <3>1
      <4>3. QED
        BY <2>7, <2>11, <4>1, <4>2
    <3>2. CASE ~ (dep \in c.dep \/ dep \in There)
      <4>1. b.missing = Append(a.missing, row)
        BY <2>7, <2>8, <2>11, <3>2
      <4>2. /\ Lost(First(k + 1)) = Lost(First(k)) \cup {dep}
            /\ dep \notin Lost(First(k))
        BY <2>6, <2>7, <2>10, <3>2
      <4>3. row \in [missing : Caps, neededBy : {n}] /\ row.missing = dep /\ row.neededBy = n
        BY <2>4
      <4> DEFINE R == [missing : Caps, neededBy : {n}]
      <4> HIDE DEF row, c, known, R
      <4>4. TellsOnce(Append(a.missing, row), Lost(First(k)) \cup {row.missing}, n)
        <5>1. TellsOnce(a.missing, Lost(First(k)), n)
          BY <2>7, <2>11
        <5>2. a.missing \in Seq(R) /\ row \in R
          BY <2>9, <4>3 DEF R
        <5>3. row.missing \notin Lost(First(k)) /\ row.neededBy = n
          BY <4>2, <4>3
        <5>4. QED
          BY <5>1, <5>2, <5>3, TellOneMore
      <4>5. QED
        BY <4>1, <4>2, <4>3, <4>4
    <3>3. QED
      BY <3>1, <3>2
  <2>12. b.chked.dep = chked.dep \cup First(k + 1)
    BY <2>6, <2>7, <2>8
  <2>13. QED
    BY <2>7, <2>8, <2>11, <2>12 DEF b
<1>8. Upto(m)
  <2>1. Nat \subseteq N
    <3> HIDE DEF N
    <3> QED BY <1>6, <1>7, SetInduction
  <2> HIDE DEF Upto
  <2>2. m \in N /\ m <= m
    BY <1>1, <2>1
  <2>3. QED
    BY <2>2
<1>9. QED
  BY <1>2, <1>5, <1>8 DEF A, s

\* A handle that is closed cuts off the GetDesktopName that uses it.
LEMMA CutKeeps ==
  ASSUME ask \in Asks, AskIs, Q!CutAsk
  PROVE  /\ ask' \in Asks /\ AskIs' /\ ask'.pc = ask.pc
         /\ ask'.pc \in {"read", "close"} => ask'.cut
<1>1. /\ ask' = [ask EXCEPT !.cut = ask.cut \/ ask.pc \in {"read", "close"}]
      /\ ask \in [pc : AskPCs, name : Names \cup {None}, answer : Answers, cut : BOOLEAN]
  BY DEF Q!CutAsk, Asks
<1>2. /\ ask'.pc = ask.pc /\ ask'.name = ask.name /\ ask'.answer = ask.answer
      /\ ask'.cut = (ask.cut \/ ask.pc \in {"read", "close"})
  BY <1>1
<1>3. ask' \in Asks
  BY <1>1 DEF Asks
<1>4. Q!DesktopOf(ask'.name) = Q!DesktopOf(ask.name)
  BY <1>2
<1>5. ask'.cut <=> ask.cut \/ ask.pc \in {"read", "close"}
  BY <1>2
<1>6. AskIs'
  BY <1>2, <1>4, <1>5 DEF AskIs
<1>7. QED
  BY <1>2, <1>3, <1>5, <1>6

\* A search that is still under way need not have told anything.
LEMMA EarlyTellsAll ==
  ASSUME query'.pc # "done" \/ query'.op \notin {"search", "all"}
  PROVE  Q!SearchTellsAll'
BY DEF Q!SearchTellsAll, Q!Answered

\* A list of names is sorted.
LEMMA NamesSorted ==
  ASSUME NEW S \in SUBSET Names
  PROVE  /\ Rising(Q!Sorted(S), Names) /\ Rising(<<>>, Names)
         /\ Q!ToSet(Q!Sorted(S)) = S /\ IsFiniteSet(S) /\ S \in SUBSET Nat
<1>1. IsFiniteSet(Names) /\ Names \subseteq Nat
  BY QueriesConstants, FinitenessIs DEF Q!ConstantsOK
<1>2. IsFiniteSet(S) /\ S \in SUBSET Nat
  BY <1>1, FS_Subset
<1>3. Rising(Q!Sorted(S), S) /\ Q!ToSet(Q!Sorted(S)) = S
  BY <1>2, SortedIs
<1>4. Rising(Q!Sorted(S), Names)
  <2> DEFINE s == Q!Sorted(S)
  <2>1. s \in Seq(S) /\ \A i, j \in 1 .. Len(s) : i < j => s[i] < s[j]
    BY <1>3 DEF Rising
  <2> HIDE DEF s
  <2>2. s \in Seq(Names)
    BY <2>1
  <2>3. QED
    BY <2>1, <2>2 DEF Rising, s
<1>5. Rising(<<>>, Names)
  <2>1. <<>> \in Seq(Names) /\ Len(<<>>) = 0
    OBVIOUS
  <2>2. QED
    BY <2>1 DEF Rising
<1>6. QED
  BY <1>2, <1>3, <1>4, <1>5

\* The actions of a query, in the order in which it takes them.
LEMMA QueryBegins ==
  ASSUME QueryIInv, NEW op \in Q!Ops, NEW text \in Texts \cup {{}}, Q!Begin(op, text)
  PROVE  QueryIInv'
<1>1. /\ query = [op |-> "none", text |-> {}, list |-> "none", pc |-> "idle", todo |-> <<>>, ok |-> TRUE]
      /\ op \in {"search", "all", "installed", "uninstalled", "check", "update"}
      /\ Q!Lists[op] = CASE op = "search" -> "installed" [] op = "all" -> "uninstalled"
                         [] op = "installed" -> "installed" [] op = "uninstalled" -> "uninstalled"
                         [] op = "check" -> "check" [] op = "update" -> "update"
  BY DEF Q!Begin, Q!NoJob, Q!Ops, Q!Lists
<1>2. query' = [op |-> op, text |-> text, list |-> Q!Lists[op], pc |-> "open", todo |-> <<>>, ok |-> TRUE]
  BY DEF Q!Begin, Q!NoJob
<1> DEFINE list == Q!Lists[op]
<1>3. /\ list \in QueryLists
      /\ \/ op \in {"search", "installed"} /\ list = "installed"
         \/ op \in {"all", "uninstalled"} /\ list = "uninstalled"
         \/ op \in {"check", "update"} /\ list = op
  BY <1>1 DEF QueryLists
<1> HIDE DEF list
<1>4. query'.op = op /\ query'.list = list /\ query'.pc = "open" /\ query'.todo = <<>>
  BY <1>2 DEF list
<1>5. found = <<>> /\ out = <<>> /\ chked = Q!NoneChked
  BY <1>1 DEF QueryIInv, FoundIs, QueryStages, Half
<1>6. UNCHANGED <<appdb, status, g_db, instList, thisSecond, found, chked, out, ask, disturbed>>
  BY DEF Q!Begin, Q!world
<1>7. QueryTypes'
  <2>1. query' \in QueryJobs
    <3>1. <<>> \in Seq(Names)
      OBVIOUS
    <3>2. QED
      BY <1>1, <1>2, <1>3, <3>1 DEF QueryJobs, QueryOps, QueryPCs, list
  <2>2. Rising(query'.todo, Names)
    BY <1>4, NamesSorted
  <2>3. QED
    BY <1>6, <2>1, <2>2 DEF QueryIInv, QueryTypes, Rising
<1>8. QueryStages'
  BY <1>1, <1>3, <1>4, <1>5, <1>6 DEF QueryStages
<1>9. HandleIs' /\ AskIs'
  BY <1>1, <1>4, <1>6 DEF QueryIInv, HandleIs, AskIs, Q!DesktopOf
<1>10. FoundIs'
  BY <1>1, <1>3, <1>4, <1>5, <1>6 DEF FoundIs, Half
<1>11. Q!SearchTellsAll'
  BY <1>4, EarlyTellsAll
<1>12. QED
  BY <1>7, <1>8, <1>9, <1>10, <1>11 DEF QueryIInv

LEMMA QueryOpens ==
  ASSUME QueryIInv, Q!openPkgDB
  PROVE  QueryIInv'
<1>1. query \in QueryJobs /\ query.pc = "open" /\ query' = [query EXCEPT !.pc = "read"]
  BY DEF QueryIInv, QueryTypes, Q!openPkgDB
<1>2. /\ query' \in QueryJobs /\ query'.pc = "read" /\ query'.op = query.op /\ query'.list = query.list
      /\ query'.text = query.text /\ query'.todo = query.todo
  BY <1>1 DEF QueryJobs, QueryPCs
<1>3. UNCHANGED <<appdb, status, instList, thisSecond, found, chked, out, ask, disturbed>> /\ g_db' = TRUE
  BY DEF Q!openPkgDB, Q!world
<1>4. QueryTypes'
  BY <1>2, <1>3 DEF QueryIInv, QueryTypes, Rising
<1>5. QueryStages'
  BY <1>1, <1>2, <1>3 DEF QueryIInv, QueryStages
<1>6. HandleIs' /\ AskIs'
  BY <1>1, <1>2, <1>3 DEF QueryIInv, HandleIs, AskIs, Q!DesktopOf
<1>7. FirstHalf' = FirstHalf
  BY <1>2, <1>3 DEF FirstHalf, Q!Matching, Q!Listed
<1>8. Half' <=> Half
  BY <1>1, <1>2 DEF Half
<1>9. FoundIs'
  BY <1>1, <1>2, <1>3, <1>7, <1>8 DEF QueryIInv, FoundIs
<1>10. Q!SearchTellsAll'
  BY <1>2, EarlyTellsAll
<1>11. QED
  BY <1>4, <1>5, <1>6, <1>9, <1>10 DEF QueryIInv

LEMMA QueryListsInstalled ==
  ASSUME QueryIInv, Q!listInstalled
  PROVE  QueryIInv'
<1>1. /\ query \in QueryJobs /\ query.pc = "read" /\ query.list = "installed"
      /\ query' = [query EXCEPT !.pc = "close"]
  BY DEF QueryIInv, QueryTypes, Q!listInstalled, Q!At
<1>2. /\ query' \in QueryJobs /\ query'.pc = "close" /\ query'.op = query.op /\ query'.list = query.list
      /\ query'.text = query.text /\ query'.todo = query.todo
  BY <1>1 DEF QueryJobs, QueryPCs
<1>3. /\ UNCHANGED <<appdb, status, g_db, chked, ask, disturbed>> /\ thisSecond' = TRUE
      /\ instList' = IF thisSecond THEN instList ELSE Q!getAllInstalledPkgs
      /\ query.op = "installed" => found' = found
      /\ query.op # "installed" => found' = Q!Listed(Q!Matching(instList'), TRUE) /\ out' = out
  BY DEF Q!listInstalled, Q!world
<1>4. query.op \in {"search", "installed"}
  BY <1>1 DEF QueryIInv, QueryStages
<1>5. Rising(instList', Names)
  <2>1. Rising(Q!getAllInstalledPkgs, Names)
    BY NamesSorted DEF Q!getAllInstalledPkgs, QueryIInv, QueryTypes
  <2>2. QED
    BY <1>3, <2>1 DEF QueryIInv, QueryTypes
<1>6. QueryTypes'
  <2>1. Rising(instList, Names)' /\ Rising(query.todo, Names)'
    BY <1>2, <1>5 DEF QueryIInv, QueryTypes, Rising
  <2>2. QED
    BY <1>2, <1>3, <2>1 DEF QueryIInv, QueryTypes
<1>7. QueryStages'
  BY <1>1, <1>2, <1>4 DEF QueryIInv, QueryStages
<1>8. HandleIs' /\ AskIs'
  BY <1>1, <1>2, <1>3 DEF QueryIInv, HandleIs, AskIs, Q!DesktopOf
<1>9. query.op = "search" => found' = FirstHalf'
  <2>1. FirstHalf' = Q!Listed(Q!Matching(instList'), TRUE)
    BY <1>2 DEF FirstHalf, Q!Matching, Q!Listed
  <2>2. QED
    BY <1>3, <2>1
<1>10. query.op = "installed" => found' = <<>>
  BY <1>1, <1>3 DEF QueryIInv, FoundIs, Half
<1>11. FoundIs'
  BY <1>1, <1>2, <1>3, <1>4, <1>9, <1>10 DEF QueryIInv, FoundIs, Half
<1>12. Q!SearchTellsAll'
  BY <1>2, EarlyTellsAll
<1>13. QED
  BY <1>6, <1>7, <1>8, <1>11, <1>12 DEF QueryIInv

\* The second half: what is not installed.
LEMMA QueryListsUnInstalled ==
  ASSUME QueryIInv, Q!listUnInstalled
  PROVE  QueryIInv'
<1> DEFINE half == IF g_db THEN Q!Sorted(Q!Selected) ELSE <<>>
<1>1. /\ query \in QueryJobs /\ query.pc = "read" /\ query.list = "uninstalled"
      /\ query' = [query EXCEPT !.pc = "close"]
  BY DEF QueryIInv, QueryTypes, Q!listUnInstalled, Q!At
<1>2. /\ query' \in QueryJobs /\ query'.pc = "close" /\ query'.op = query.op /\ query'.list = query.list
      /\ query'.text = query.text /\ query'.todo = query.todo
  BY <1>1 DEF QueryJobs, QueryPCs
<1>3. query.op \in {"search", "all", "uninstalled"}
  BY <1>1 DEF QueryIInv, QueryStages
<1>4. /\ UNCHANGED <<appdb, status, g_db, instList, thisSecond, chked, ask, disturbed>>
      /\ query.op = "uninstalled" => found' = found
      /\ query.op = "all" => found' = found \o Q!Rows(half)
      /\ query.op = "search" => found' = found \o Q!Listed(Q!Matching(half), FALSE)
  <2>1. UNCHANGED <<appdb, status, g_db, instList, thisSecond, chked, ask, disturbed>>
    BY DEF Q!listUnInstalled, Q!world
  <2>2. CASE query.op = "uninstalled"
    BY <2>1, <2>2 DEF Q!listUnInstalled
  <2>3. CASE query.op = "all"
    BY <2>1, <2>3 DEF Q!listUnInstalled
  <2>4. CASE query.op = "search"
    BY <2>1, <2>4 DEF Q!listUnInstalled
  <2>5. QED
    BY <1>3, <2>1, <2>2, <2>3, <2>4
<1>5. QueryTypes'
  <2>1. Rising(query.todo, Names)'
    BY <1>2 DEF QueryIInv, QueryTypes, Rising
  <2>2. Rising(instList, Names)'
    BY <1>4 DEF QueryIInv, QueryTypes, Rising
  <2>3. QED
    BY <1>2, <1>4, <2>1, <2>2 DEF QueryIInv, QueryTypes
<1>6. QueryStages'
  BY <1>1, <1>2, <1>3 DEF QueryIInv, QueryStages
<1>7. HandleIs' /\ AskIs'
  BY <1>1, <1>2, <1>4 DEF QueryIInv, HandleIs, AskIs, Q!DesktopOf
<1>8. ~disturbed => g_db = TRUE
  BY <1>1 DEF QueryIInv, HandleIs, QueryTypes
<1>9. FirstHalf' = FirstHalf /\ SecondHalf' = SecondHalf
  BY <1>2, <1>4 DEF FirstHalf, SecondHalf, Q!Matching, Q!Listed
<1>10. query.op = "search" /\ ~disturbed => found' = FirstHalf \o SecondHalf
  <2>1. SUFFICES ASSUME query.op = "search", ~disturbed PROVE found' = FirstHalf \o SecondHalf
    OBVIOUS
  <2>2. found = FirstHalf
    BY <1>1, <2>1 DEF QueryIInv, FoundIs, Half
  <2>3. half = Q!Sorted(Names \ status)
    BY <1>8, <2>1 DEF Q!Selected
  <2>4. Q!ToSet(half) = Names \ status
    BY <2>3, NamesSorted
  <2>5. Q!Listed(Q!Matching(half), FALSE) = SecondHalf
    BY <2>4 DEF Q!Matching, SecondHalf
  <2>6. QED
    BY <1>4, <2>1, <2>2, <2>5
<1>11. query.op = "all" /\ ~disturbed => found' = Q!Rows(Q!Sorted(Names))
  <2>1. SUFFICES ASSUME query.op = "all", ~disturbed PROVE found' = Q!Rows(Q!Sorted(Names))
    OBVIOUS
  <2>2. found = <<>>
    BY <1>1, <2>1 DEF QueryIInv, FoundIs, Half
  <2>3. half = Q!Sorted(Names)
    BY <1>8, <2>1 DEF Q!Selected
  <2> DEFINE s == Q!Sorted(Names)
             r == Q!Rows(s)
  <2>4. s \in Seq(Names)
    BY NamesSorted DEF Rising
  <2> HIDE DEF s
  <2>5. r \in Seq([name : Names, installed : BOOLEAN])
    <3>1. \A i \in 1 .. Len(s) : [name |-> s[i], installed |-> s[i] \in status] \in [name : Names, installed : BOOLEAN]
      BY <2>4
    <3>2. r = [i \in 1 .. Len(s) |-> [name |-> s[i], installed |-> s[i] \in status]] /\ Len(s) \in Nat
      BY <2>4 DEF Q!Rows
    <3>3. r \in [1 .. Len(s) -> [name : Names, installed : BOOLEAN]]
      BY <3>1, <3>2
    <3>4. QED
      BY <3>2, <3>3
  <2> HIDE DEF r
  <2>6. <<>> \o r = r
    BY <2>5
  <2>7. QED
    BY <1>4, <2>1, <2>2, <2>3, <2>6 DEF r, s
<1>12. Q!Rows(Q!Sorted(Names))' = Q!Rows(Q!Sorted(Names))
  BY <1>4 DEF Q!Rows
<1>13. query.op = "uninstalled" => found' = <<>>
  BY <1>1, <1>4 DEF QueryIInv, FoundIs, Half
<1>14. FoundIs'
  <2>1. chked' = Q!NoneChked /\ ~ Half'
    BY <1>1, <1>2, <1>4 DEF QueryIInv, FoundIs, Half
  <2>2. (query'.op = "search" /\ ~disturbed' => found' = FirstHalf' \o SecondHalf')
    BY <1>2, <1>4, <1>9, <1>10
  <2>3. (query'.op = "all" /\ ~disturbed' => found' = Q!Rows(Q!Sorted(Names))')
    BY <1>2, <1>4, <1>11, <1>12
  <2>4. QED
    BY <1>2, <1>3, <1>13, <2>1, <2>2, <2>3 DEF FoundIs
<1>15. Q!SearchTellsAll'
  BY <1>2, EarlyTellsAll
<1>16. QED
  BY <1>5, <1>6, <1>7, <1>14, <1>15 DEF QueryIInv

\* Closing the handle may cut off the GetDesktopName that uses it.
LEMMA QueryCloses ==
  ASSUME QueryIInv, Q!closePkgDB
  PROVE  QueryIInv'
<1> DEFINE again == query.op = "search" /\ query.list = "installed"
           next == IF query.op \in {"search", "all"} THEN "emit" ELSE "done"
<1>1. /\ query \in QueryJobs /\ query.pc = "close"
      /\ query' = IF again THEN [query EXCEPT !.list = "uninstalled", !.pc = "open"]
                  ELSE [query EXCEPT !.pc = next]
  BY DEF QueryIInv, QueryTypes, Q!closePkgDB
<1>2. /\ query' \in QueryJobs /\ query'.op = query.op /\ query'.text = query.text /\ query'.todo = query.todo
      /\ query'.list = IF again THEN "uninstalled" ELSE query.list
      /\ query'.pc = IF again THEN "open" ELSE next
  <2>1. query \in [op : QueryOps, text : Texts \cup {{}}, list : QueryLists, pc : QueryPCs, todo : Seq(Names),
                   ok : BOOLEAN]
    BY <1>1 DEF QueryJobs
  <2>2. CASE again
    <3>1. query' = [op |-> query.op, text |-> query.text, list |-> "uninstalled", pc |-> "open",
                    todo |-> query.todo, ok |-> query.ok]
      BY <1>1, <2>1, <2>2
    <3>2. query' \in QueryJobs
      BY <2>1, <3>1 DEF QueryJobs, QueryPCs, QueryLists
    <3>3. QED
      BY <2>2, <3>1, <3>2
  <2>3. CASE ~again
    <3>1. query' = [op |-> query.op, text |-> query.text, list |-> query.list, pc |-> next,
                    todo |-> query.todo, ok |-> query.ok]
      BY <1>1, <2>1, <2>3
    <3>2. next \in QueryPCs
      BY DEF QueryPCs
    <3> HIDE DEF next
    <3>3. query' \in QueryJobs
      BY <2>1, <3>1, <3>2 DEF QueryJobs
    <3>4. QED
      BY <2>3, <3>1, <3>3
  <2>4. QED
    BY <2>2, <2>3
<1>3. /\ query.op \in {"search", "all", "installed", "uninstalled"}
      /\ \/ query.op \in {"search", "installed"} /\ query.list = "installed"
         \/ query.op \in {"search", "all", "uninstalled"} /\ query.list = "uninstalled"
  BY <1>1 DEF QueryIInv, QueryStages
<1>4. /\ UNCHANGED <<appdb, status, instList, thisSecond, found, chked, out, disturbed>> /\ g_db' = FALSE
      /\ Q!CutAsk
  BY DEF Q!closePkgDB, Q!world
<1>5. /\ ask' \in Asks /\ AskIs' /\ ask'.pc = ask.pc
      /\ ask'.pc \in {"read", "close"} => ask'.cut
  BY <1>4, CutKeeps DEF QueryIInv, QueryTypes
<1>6. QueryTypes'
  BY <1>2, <1>4, <1>5 DEF QueryIInv, QueryTypes, Rising
<1>7. QueryStages'
  BY <1>1, <1>2, <1>3, <1>4 DEF QueryStages
<1>8. HandleIs'
  BY <1>2, <1>4, <1>5 DEF HandleIs
<1>9. FirstHalf' = FirstHalf /\ SecondHalf' = SecondHalf
  BY <1>2, <1>4 DEF FirstHalf, SecondHalf, Q!Matching, Q!Listed
<1>10. Q!Rows(Q!Sorted(Names))' = Q!Rows(Q!Sorted(Names))
  BY <1>4 DEF Q!Rows
<1>11. FoundIs'
  BY <1>1, <1>2, <1>3, <1>4, <1>9, <1>10 DEF QueryIInv, FoundIs, Half
<1>12. Q!SearchTellsAll'
  BY <1>2, <1>3, EarlyTellsAll
<1>13. QED
  BY <1>5, <1>6, <1>7, <1>8, <1>11, <1>12 DEF QueryIInv

\* The whole table, once both halves are in.
LEMMA HalvesTell ==
  ASSUME QueryTypes, NEW T \in SUBSET Names, query.text = T, Q!ToSet(instList) = status,
         found = FirstHalf \o SecondHalf
  PROVE  Q!emit_search_result_handle = IF T = {} THEN <<Q!SearchError>> ELSE Q!Rows(Q!Sorted(T))
<1>1. T \in SUBSET Nat /\ IsFiniteSet(T)
  BY NamesSorted
<1>2. FirstHalf = Q!Listed(Q!Sorted(status \cap T), TRUE)
  BY DEF FirstHalf, Q!Matching
<1>3. SecondHalf = Q!Listed(Q!Sorted(T \ status), FALSE)
  <2>1. (Names \ status) \cap T = T \ status
    OBVIOUS
  <2>2. QED
    BY <2>1 DEF SecondHalf
<1>4. Holds(found, T)
  BY <1>1, <1>2, <1>3, HalvesHold
<1>5. CASE T = {}
  <2>1. found \in Seq(RowsOf(T)) /\ Len(found) = 0
    BY <1>4, <1>5, FS_EmptySet DEF Holds
  <2>2. found = <<>>
    BY <2>1
  <2>3. QED
    BY <1>5, <2>2 DEF Q!emit_search_result_handle
<1>6. CASE T # {}
  <2>1. Len(found) # 0
    BY <1>1, <1>4, <1>6, FS_EmptySet DEF Holds
  <2>2. found # <<>>
    BY <2>1
  <2>3. Q!ByName(found) = Q!Rows(Q!Sorted(T))
    BY <1>1, <1>4, ByNameIs
  <2>4. QED
    BY <1>6, <2>2, <2>3 DEF Q!emit_search_result_handle
<1>7. QED
  BY <1>5, <1>6

\* search() sorts what was found, and it is all.
LEMMA QuerySearches ==
  ASSUME QueryIInv, Q!search
  PROVE  QueryIInv'
<1>1. query \in QueryJobs /\ query.pc = "emit" /\ query' = [query EXCEPT !.pc = "done"]
  BY DEF QueryIInv, QueryTypes, Q!search
<1>2. /\ query' \in QueryJobs /\ query'.pc = "done" /\ query'.op = query.op /\ query'.list = query.list
      /\ query'.text = query.text /\ query'.todo = query.todo
  BY <1>1 DEF QueryJobs, QueryPCs
<1>3. query.op \in {"search", "all"} /\ query.list = "uninstalled"
  BY <1>1 DEF QueryIInv, QueryStages
<1>4. /\ UNCHANGED <<appdb, status, g_db, instList, thisSecond, chked, ask, disturbed>> /\ found' = <<>>
      /\ out' = IF query.op = "all" THEN <<found>> ELSE Q!emit_search_result_handle
  BY DEF Q!search, Q!world, Q!emit_search_all_result_handle
<1>5. QueryTypes'
  BY <1>2, <1>4 DEF QueryIInv, QueryTypes, Rising
<1>6. QueryStages'
  BY <1>2, <1>3 DEF QueryIInv, QueryStages
<1>7. HandleIs' /\ AskIs'
  BY <1>1, <1>2, <1>4 DEF QueryIInv, HandleIs, AskIs, Q!DesktopOf
<1>8. FoundIs'
  BY <1>1, <1>2, <1>3, <1>4 DEF QueryIInv, FoundIs, Half
<1>9. Q!SearchTellsAll'
  <2>1. Q!Rows(Q!Sorted(Names))' = Q!Rows(Q!Sorted(Names)) /\ Q!Rows(Q!Sorted(query.text))' = Q!Rows(Q!Sorted(query.text))
    BY <1>2, <1>4 DEF Q!Rows
  <2>2. query.op = "search" /\ ~disturbed /\ Q!ToSet(instList) = status =>
          out' = IF query.text = {} THEN <<Q!SearchError>> ELSE Q!Rows(Q!Sorted(query.text))
    <3>1. SUFFICES ASSUME query.op = "search", ~disturbed, Q!ToSet(instList) = status
                   PROVE  out' = IF query.text = {} THEN <<Q!SearchError>> ELSE Q!Rows(Q!Sorted(query.text))
      OBVIOUS
    <3>2. found = FirstHalf \o SecondHalf
      BY <1>1, <1>3, <3>1 DEF QueryIInv, FoundIs
    <3>3. query.text \in SUBSET Names
      <4>1. query.text \in Texts \cup {{}}
        BY <1>1 DEF QueryJobs
      <4>2. Texts \subseteq SUBSET Names
        BY QueriesConstants DEF Q!ConstantsOK
      <4>3. QED
        BY <4>1, <4>2
    <3>4. Q!emit_search_result_handle = IF query.text = {} THEN <<Q!SearchError>> ELSE Q!Rows(Q!Sorted(query.text))
      BY <3>1, <3>2, <3>3, HalvesTell DEF QueryIInv
    <3>5. QED
      BY <1>4, <3>1, <3>4
  <2>3. query.op = "all" /\ ~disturbed => out' = <<Q!Rows(Q!Sorted(Names))>>
    BY <1>1, <1>4 DEF QueryIInv, FoundIs
  <2>4. QED
    BY <1>2, <1>4, <2>1, <2>2, <2>3 DEF Q!SearchTellsAll, Q!Answered
<1>10. QED
  BY <1>5, <1>6, <1>7, <1>8, <1>9 DEF QueryIInv

\* Check and update read the names first ...
LEMMA QueryReads ==
  ASSUME QueryIInv, Q!ReadInstalled
  PROVE  QueryIInv'
<1> DEFINE s == Q!getAllInstalledPkgs
<1>1. /\ query \in QueryJobs /\ query.pc = "read" /\ query.list \in {"check", "update"}
      /\ query' = [query EXCEPT !.todo = s, !.pc = "each"]
  BY DEF QueryIInv, QueryTypes, Q!ReadInstalled
<1>2. Rising(s, Names)
  BY NamesSorted DEF Q!getAllInstalledPkgs, QueryIInv, QueryTypes
<1> HIDE DEF s
<1>3. /\ query' \in QueryJobs /\ query'.pc = "each" /\ query'.op = query.op /\ query'.list = query.list
      /\ query'.text = query.text /\ query'.todo = s
  <2>1. query \in [op : QueryOps, text : Texts \cup {{}}, list : QueryLists, pc : QueryPCs, todo : Seq(Names),
                   ok : BOOLEAN]
    BY <1>1 DEF QueryJobs
  <2>2. query' = [op |-> query.op, text |-> query.text, list |-> query.list, pc |-> "each", todo |-> s,
                  ok |-> query.ok]
    BY <1>1, <2>1
  <2>3. s \in Seq(Names)
    BY <1>2 DEF Rising
  <2>4. query' \in QueryJobs
    BY <2>1, <2>2, <2>3 DEF QueryJobs, QueryPCs
  <2>5. QED
    BY <2>2, <2>4
<1>4. query.op = query.list
  BY <1>1 DEF QueryIInv, QueryStages
<1>5. UNCHANGED <<appdb, status, g_db, instList, thisSecond, found, chked, out, ask, disturbed>>
  BY DEF Q!ReadInstalled, Q!world
<1>6. QueryTypes'
  <2>1. Rising(query.todo, Names)' /\ Rising(instList, Names)'
    BY <1>2, <1>3, <1>5 DEF QueryIInv, QueryTypes, Rising
  <2>2. QED
    BY <1>3, <1>5, <2>1 DEF QueryIInv, QueryTypes
<1>7. QueryStages'
  BY <1>1, <1>3, <1>4, <1>5 DEF QueryIInv, QueryStages
<1>8. HandleIs' /\ AskIs'
  BY <1>1, <1>3, <1>5 DEF QueryIInv, HandleIs, AskIs, Q!DesktopOf
<1>9. FoundIs'
  BY <1>1, <1>3, <1>4, <1>5 DEF QueryIInv, FoundIs, Half
<1>10. Q!SearchTellsAll'
  BY <1>3, EarlyTellsAll
<1>11. QED
  BY <1>6, <1>7, <1>8, <1>9, <1>10 DEF QueryIInv

\* One package less to go through.
LEMMA QueryGoesOn ==
  ASSUME QueryIInv, query.pc = "each", query.todo # <<>>, NEW ok \in BOOLEAN,
         query' = [query EXCEPT !.todo = Tail(@), !.ok = ok],
         UNCHANGED <<appdb, status, g_db, instList, thisSecond, ask, disturbed>>,
         chked' \in CheckedSets,
         query.list # "update" => found' = found,
         query.list # "check" => chked' = chked
  PROVE  /\ QueryIInv'
         /\ query'.pc = "each" /\ query'.list = query.list /\ query'.op = query.op
         /\ query'.todo = Tail(query.todo) /\ query'.ok = ok
<1>1. query \in QueryJobs /\ Rising(query.todo, Names) /\ query.op = query.list /\ query.op \in {"check", "update"}
  BY DEF QueryIInv, QueryTypes, QueryStages
<1>2. Rising(Tail(query.todo), Names)
  BY <1>1, NamesSorted, RisingTail
<1>3. /\ query' \in QueryJobs /\ query'.pc = "each" /\ query'.op = query.op /\ query'.list = query.list
      /\ query'.text = query.text /\ query'.todo = Tail(query.todo) /\ query'.ok = ok
  <2>1. query \in [op : QueryOps, text : Texts \cup {{}}, list : QueryLists, pc : QueryPCs, todo : Seq(Names),
                   ok : BOOLEAN]
    BY <1>1 DEF QueryJobs
  <2>2. query' = [op |-> query.op, text |-> query.text, list |-> query.list, pc |-> "each",
                  todo |-> Tail(query.todo), ok |-> ok]
    BY <2>1
  <2>3. Tail(query.todo) \in Seq(Names)
    BY <1>2 DEF Rising
  <2>4. query' \in QueryJobs
    BY <2>1, <2>2, <2>3 DEF QueryJobs, QueryPCs
  <2>5. QED
    BY <2>2, <2>4
<1>4. QueryTypes'
  <2>1. Rising(query.todo, Names)' /\ Rising(instList, Names)'
    BY <1>2, <1>3 DEF QueryIInv, QueryTypes, Rising
  <2>2. QED
    BY <1>3, <2>1 DEF QueryIInv, QueryTypes
<1>5. QueryStages'
  BY <1>1, <1>3 DEF QueryIInv, QueryStages
<1>6. HandleIs' /\ AskIs'
  BY <1>3 DEF QueryIInv, HandleIs, AskIs, Q!DesktopOf
<1>7. FoundIs'
  BY <1>1, <1>3 DEF QueryIInv, FoundIs, Half
<1>8. Q!SearchTellsAll'
  BY <1>3, EarlyTellsAll
<1>9. QED
  BY <1>3, <1>4, <1>5, <1>6, <1>7, <1>8 DEF QueryIInv

\* ... and then go through them.
LEMMA QueryChecks ==
  ASSUME QueryIInv, Q!chkDep
  PROVE  QueryIInv'
<1> DEFINE n == Head(query.todo)
           end == Q!Looked(n)
<1>1. /\ query.pc = "each" /\ query.list = "check" /\ query.todo # <<>> /\ query \in QueryJobs
      /\ UNCHANGED <<appdb, status, g_db, instList, thisSecond, found, ask, disturbed>>
  BY DEF Q!chkDep, Q!Each, Q!world, QueryIInv, QueryTypes
<1>2. n \in Names
  BY <1>1, NamesSorted, RisingTail DEF QueryIInv, QueryTypes
<1>3. end.chked \in CheckedSets
  <2>1. end \in Lookings(n)
    BY <1>2, LookedIs DEF QueryIInv
  <2> HIDE DEF end, n
  <2>2. QED
    BY <2>1 DEF Lookings
<1>4. chked \in CheckedSets /\ query.ok \in BOOLEAN
  BY <1>1 DEF QueryIInv, QueryTypes, QueryJobs
<1>5. CASE ~g_db
  <2>1. query' = [query EXCEPT !.todo = Tail(@), !.ok = FALSE] /\ chked' = chked
    BY <1>5 DEF Q!chkDep
  <2>2. QED
    BY <1>1, <1>4, <2>1, QueryGoesOn
<1>6. CASE g_db /\ Q!pkgIsInstalled(chked, n, TRUE)
  <2>1. query' = [query EXCEPT !.todo = Tail(@), !.ok = query.ok /\ end.missing = <<>>] /\ chked' = end.chked
    BY <1>6 DEF Q!chkDep
  <2>2. (query.ok /\ end.missing = <<>>) \in BOOLEAN
    BY <1>4
  <2> HIDE DEF end, n
  <2>3. QED
    BY <1>1, <1>3, <2>1, <2>2, QueryGoesOn
<1>7. CASE g_db /\ ~ Q!pkgIsInstalled(chked, n, TRUE)
  <2>1. query' = [query EXCEPT !.todo = Tail(@)] /\ chked' = chked
    BY <1>7 DEF Q!chkDep
  <2>2. query' = [query EXCEPT !.todo = Tail(@), !.ok = query.ok]
    BY <1>1, <2>1 DEF QueryJobs
  <2>3. QED
    BY <1>1, <1>4, <2>1, <2>2, QueryGoesOn
<1>8. QED
  BY <1>5, <1>6, <1>7

LEMMA QueryUpgrades ==
  ASSUME QueryIInv, Q!realUpgrade
  PROVE  QueryIInv'
<1>1. /\ query.pc = "each" /\ query.list = "update" /\ query.todo # <<>> /\ query \in QueryJobs
      /\ UNCHANGED <<appdb, status, g_db, instList, thisSecond, chked, ask, disturbed>>
      /\ query' = [query EXCEPT !.todo = Tail(@)]
  BY DEF Q!realUpgrade, Q!Each, Q!world, QueryIInv, QueryTypes
<1>2. query' = [query EXCEPT !.todo = Tail(@), !.ok = query.ok] /\ query.ok \in BOOLEAN
  BY <1>1 DEF QueryJobs
<1>3. chked' \in CheckedSets
  BY <1>1 DEF QueryIInv, QueryTypes
<1>4. QED
  BY <1>1, <1>2, <1>3, QueryGoesOn

\* The last of them is done.
LEMMA QueryEnds ==
  ASSUME QueryIInv, Q!End
  PROVE  QueryIInv'
<1>1. query \in QueryJobs /\ query.pc = "each" /\ query' = [query EXCEPT !.pc = "done"]
  BY DEF QueryIInv, QueryTypes, Q!End
<1>2. /\ query' \in QueryJobs /\ query'.pc = "done" /\ query'.op = query.op /\ query'.list = query.list
      /\ query'.text = query.text /\ query'.todo = query.todo
  BY <1>1 DEF QueryJobs, QueryPCs
<1>3. query.op = query.list /\ query.op \in {"check", "update"}
  BY <1>1 DEF QueryIInv, QueryStages
<1>4. /\ UNCHANGED <<appdb, status, instList, thisSecond, disturbed>> /\ g_db' = FALSE
      /\ found' = <<>> /\ chked' = Q!NoneChked /\ Q!CutAsk
  BY DEF Q!End, Q!world
<1>5. /\ ask' \in Asks /\ AskIs' /\ ask'.pc = ask.pc
      /\ ask'.pc \in {"read", "close"} => ask'.cut
  BY <1>4, CutKeeps DEF QueryIInv, QueryTypes
<1>6. QueryTypes'
  <2>1. chked' \in CheckedSets
    BY <1>4 DEF Q!NoneChked, CheckedSets
  <2>2. QED
    BY <1>2, <1>4, <1>5, <2>1 DEF QueryIInv, QueryTypes, Rising
<1>7. QueryStages'
  BY <1>1, <1>2, <1>3, <1>4 DEF QueryIInv, QueryStages
<1>8. HandleIs'
  BY <1>2, <1>4, <1>5 DEF HandleIs
<1>9. FoundIs'
  BY <1>2, <1>3, <1>4 DEF FoundIs, Half
<1>10. Q!SearchTellsAll'
  BY <1>2, <1>3, EarlyTellsAll
<1>11. QED
  BY <1>5, <1>6, <1>7, <1>8, <1>9, <1>10 DEF QueryIInv

\* No query is under way.
LEMMA QueryIdles ==
  ASSUME QueryTypes', query' = Q!NoJob, out' = <<>>, found' = <<>>, chked' = Q!NoneChked, HandleIs', AskIs'
  PROVE  QueryIInv'
<1>1. query'.pc = "idle" /\ query'.op = "none" /\ query'.list = "none"
  BY DEF Q!NoJob
<1>2. QueryStages'
  BY <1>1 DEF QueryStages, Q!NoJob
<1>3. FoundIs'
  BY <1>1 DEF FoundIs, Half
<1>4. Q!SearchTellsAll'
  BY <1>1, EarlyTellsAll
<1>5. QED
  BY <1>2, <1>3, <1>4 DEF QueryIInv

\* A query that is not there.
LEMMA IdleRising ==
  /\ Q!NoJob \in QueryJobs /\ Rising(Q!NoJob.todo, Names) /\ Q!NoJob.pc = "idle"
  /\ Q!NoneChked \in CheckedSets
<1>1. <<>> \in Seq(Names) /\ Q!NoJob.todo = <<>>
  BY DEF Q!NoJob
<1>2. QED
  BY <1>1, NamesSorted DEF Q!NoJob, Q!NoneChked, QueryJobs, QueryOps, QueryLists, QueryPCs, CheckedSets

\* Finished.
LEMMA QueryFinishes ==
  ASSUME QueryIInv, Q!Finish
  PROVE  QueryIInv'
<1>1. /\ query.pc = "done" /\ query' = Q!NoJob /\ out' = <<>> /\ disturbed' = FALSE
      /\ UNCHANGED <<appdb, status, g_db, instList, thisSecond, found, chked, ask>>
  BY DEF Q!Finish, Q!world
<1>2. found = <<>> /\ chked = Q!NoneChked
  BY <1>1 DEF QueryIInv, FoundIs, Half
<1>3. QueryTypes'
  <2>1. query' \in QueryJobs /\ Rising(query.todo, Names)'
    BY <1>1, IdleRising DEF Rising
  <2>2. QED
    BY <1>1, <2>1 DEF QueryIInv, QueryTypes, Rising
<1>4. HandleIs' /\ AskIs'
  BY <1>1, IdleRising DEF QueryIInv, HandleIs, AskIs, Q!DesktopOf
<1>5. QED
  BY <1>1, <1>2, <1>3, <1>4, QueryIdles

\* What Task and Update find when no query is under way.
LEMMA IdleIs ==
  ASSUME QueryIInv, query = Q!NoJob
  PROVE  out = <<>> /\ found = <<>> /\ chked = Q!NoneChked /\ query.pc = "idle"
<1>1. query.pc = "idle" /\ query.op = "none" /\ query.list = "none"
  BY DEF Q!NoJob
<1>2. QED
  BY <1>1 DEF QueryIInv, QueryStages, FoundIs, Half

\* A task or a refresh comes only while no query is under way.
LEMMA QueryTasks ==
  ASSUME QueryIInv, NEW n \in Names, Q!Task(n)
  PROVE  QueryIInv'
<1>1. /\ query = Q!NoJob /\ g_db' = FALSE /\ Q!CutAsk
      /\ UNCHANGED <<query, instList, thisSecond, found, chked, out, disturbed>>
      /\ appdb' \subseteq Names /\ status' \subseteq Names
  BY DEF Q!Task, QueryIInv, QueryTypes
<1>2. /\ ask' \in Asks /\ AskIs' /\ ask'.pc = ask.pc
      /\ ask'.pc \in {"read", "close"} => ask'.cut
  BY <1>1, CutKeeps DEF QueryIInv, QueryTypes
<1>3. QueryTypes'
  BY <1>1, <1>2 DEF QueryIInv, QueryTypes, Rising
<1>4. out = <<>> /\ found = <<>> /\ chked = Q!NoneChked /\ query.pc = "idle"
  BY <1>1, IdleIs
<1>5. HandleIs'
  BY <1>1, <1>2, <1>4 DEF HandleIs
<1>6. QED
  BY <1>1, <1>2, <1>3, <1>4, <1>5, QueryIdles

LEMMA QueryUpdates ==
  ASSUME QueryIInv, Q!Update
  PROVE  QueryIInv'
<1>1. /\ query = Q!NoJob /\ status' = appdb
      /\ UNCHANGED <<appdb, g_db, query, instList, thisSecond, found, chked, out, ask, disturbed>>
  BY DEF Q!Update
<1>2. QueryTypes'
  BY <1>1 DEF QueryIInv, QueryTypes, Rising
<1>3. HandleIs' /\ AskIs'
  BY <1>1 DEF QueryIInv, HandleIs, AskIs, Q!DesktopOf
<1>4. out = <<>> /\ found = <<>> /\ chked = Q!NoneChked
  BY <1>1, IdleIs
<1>5. QED
  BY <1>1, <1>2, <1>3, <1>4, QueryIdles

\* The invariant holds at first, and is kept.
LEMMA QueryStarts == Q!Init => QueryIInv
<1>1. SUFFICES ASSUME Q!Init PROVE QueryIInv
  OBVIOUS
<1>2. /\ appdb = {} /\ status = {} /\ g_db = FALSE /\ query = Q!NoJob /\ ask = Q!NoAsk
      /\ instList = <<>> /\ thisSecond = FALSE /\ found = <<>> /\ chked = Q!NoneChked
      /\ out = <<>> /\ disturbed = FALSE
  BY <1>1 DEF Q!Init
<1>3. query.pc = "idle" /\ query.op = "none" /\ query.list = "none"
  BY <1>2 DEF Q!NoJob
<1>4. ask.pc = "idle" /\ ask \in Asks
  BY <1>2 DEF Q!NoAsk, Asks, AskPCs, Answers
<1>5. QueryTypes
  BY <1>2, <1>4, IdleRising, NamesSorted DEF QueryTypes
<1>6. QueryStages /\ HandleIs /\ FoundIs /\ AskIs
  BY <1>2, <1>3, <1>4 DEF QueryStages, HandleIs, FoundIs, AskIs, Half
<1>7. Q!SearchTellsAll
  BY <1>3 DEF Q!SearchTellsAll, Q!Answered
<1>8. QED
  BY <1>5, <1>6, <1>7 DEF QueryIInv

LEMMA QuerySteps == QueryIInv /\ [Q!Next]_(Q!vars) => QueryIInv'
<1> SUFFICES ASSUME QueryIInv, [Q!Next]_(Q!vars) PROVE QueryIInv'
  OBVIOUS
<1>1. ASSUME NEW op \in Q!Ops \ {"search"}, Q!Begin(op, {}) PROVE QueryIInv'
  BY <1>1, QueryBegins
<1>2. ASSUME NEW t \in Texts, Q!Begin("search", t) PROVE QueryIInv'
  <2>1. "search" \in Q!Ops
    BY DEF Q!Ops, Q!Lists
  <2>2. QED
    BY <1>2, <2>1, QueryBegins
<1>3. CASE Q!Worker
  BY <1>3, QueryOpens, QueryListsInstalled, QueryListsUnInstalled, QueryCloses, QuerySearches, QueryReads,
     QueryChecks, QueryUpgrades, QueryEnds, QueryFinishes
     DEF Q!Worker
<1>4. CASE Q!MainLoop
  BY <1>4, QueryAskOpens, QueryAskReads, QueryAskCloses, QueryReplies DEF Q!MainLoop
<1>5. ASSUME NEW n \in Names, Q!Ask(n) \/ Q!Task(n) \/ Q!ByHand(n) PROVE QueryIInv'
  BY <1>5, QueryAsks, QueryTasks, QueryByHand
<1>6. CASE Q!Update \/ Q!Tick
  BY <1>6, QueryUpdates, QueryTicks
<1>7. CASE UNCHANGED Q!vars
  BY <1>7, QueryStutters
<1>8. QED
  BY <1>1, <1>2, <1>3, <1>4, <1>5, <1>6, <1>7 DEF Q!Next

\* What the invariant says of a query that is done is what was asked.
LEMMA QueryAnswers == QueryIInv => AnswersInv
<1>1. SUFFICES ASSUME QueryIInv PROVE AnswersInv
  OBVIOUS
<1>2. Q!TypeOK
  <2>1. /\ query \in QueryJobs /\ ask \in Asks /\ Rising(instList, Names) /\ Rising(query.todo, Names)
        /\ appdb \subseteq Names /\ status \subseteq Names
        /\ g_db \in BOOLEAN /\ thisSecond \in BOOLEAN /\ disturbed \in BOOLEAN
    BY <1>1 DEF QueryIInv, QueryTypes
  <2>2. \A s \in {instList, query.todo} :
          Q!ToSet(s) \subseteq Names /\ Len(s) = Q!Cardinality(Q!ToSet(s))
    BY <2>1, NamesSorted, RisingCounts
  <2>3. query.op \in Q!Ops \cup {"none"} /\ query.text \in Texts \cup {{}} /\ query.pc \in QueryPCs
    BY <2>1 DEF QueryJobs, QueryOps, Q!Ops, Q!Lists
  <2>4. ask.pc \in AskPCs
    BY <2>1 DEF Asks
  <2>5. QED
    BY <2>1, <2>2, <2>3, <2>4 DEF Q!TypeOK, QueryPCs, AskPCs
<1>3. Q!DesktopNameIsRight
  <2>1. SUFFICES ASSUME ask.pc = "reply", ~ask.cut
                 PROVE  IF \E c \in Q!ToSet(Provides[ask.name]) : c \in DesktopEntries
                          THEN \E i \in DOMAIN Provides[ask.name] :
                                 /\ ask.answer = Provides[ask.name][i] /\ ask.answer \in DesktopEntries
                                 /\ \A j \in 1 .. i - 1 : Provides[ask.name][j] \notin DesktopEntries
                          ELSE ask.answer = None
    BY DEF Q!DesktopNameIsRight
  <2>2. ask.name \in Names /\ ask.answer = Q!DesktopOf(ask.name)
    BY <1>1, <2>1 DEF QueryIInv, AskIs
  <2>3. QED
    BY <2>2, DesktopIsAnswer, QueriesConstants
<1>4. QED
  BY <1>1, <1>2, <1>3 DEF QueryIInv, AnswersInv, Q!AnswersInv

\* A search that nothing has disturbed, of a list that nothing has overtaken, answers with
\* every package of the table that matches, once, in order and with its state; and
\* GetDesktopName with the first desktop entry that the package provides, unless its handle
\* was closed (search() and getDesktopName(), isoftapp.cpp).
THEOREM AnswersAreRight == Q!Spec => []AnswersInv
<1>1. Q!Spec => []QueryIInv
  BY QueryStarts, QuerySteps, PTL DEF Q!Spec
<1>2. QED
  BY <1>1, QueryAnswers, PTL

(***************************************************************************)
(* Check. It tells what is missing of the packages it has gone through     *)
(* (Inspected), each dependency once, for the first package that needs it. *)
(***************************************************************************)

\* What is missing of one package more.
LEMMA TellMore ==
  ASSUME NEW A, NEW C \in SUBSET Names, NEW n \in Names, NEW o, NEW e,
         Tells(o, C, A), \A m \in C : m < n, Names \subseteq Nat,
         e \in Seq([missing : Caps, neededBy : {n}]),
         TellsOnce(e, {d \in Q!ToSet(Requires[n]) : /\ d \notin UNION {Q!ToSet(Requires[m]) : m \in C}
                                                    /\ d \notin A \cup OsProvides}, n)
  PROVE  Tells(o \o e, C \cup {n}, A)
<1> DEFINE k == Len(o)
           l == Len(e)
           f == o \o e
           B == C \cup {n}
           Known == UNION {Q!ToSet(Requires[m]) : m \in C}
           D == {d \in Q!ToSet(Requires[n]) : d \notin Known /\ d \notin A \cup OsProvides}
           R == [missing : Caps, neededBy : B]
<1>1. /\ k \in Nat /\ l \in Nat
      /\ \A i \in 1 .. k : o[i] \in [missing : Caps, neededBy : C]
      /\ \A i \in 1 .. l : e[i] \in [missing : Caps, neededBy : {n}]
  <2> DEFINE RC == [missing : Caps, neededBy : C]
             RN == [missing : Caps, neededBy : {n}]
  <2>1. o \in Seq(RC) /\ e \in Seq(RN)
    BY DEF Tells
  <2> HIDE DEF RC, RN
  <2>2. k \in Nat /\ l \in Nat /\ (\A i \in 1 .. k : o[i] \in RC) /\ (\A i \in 1 .. l : e[i] \in RN)
    BY <2>1
  <2>3. QED
    BY <2>2 DEF RC, RN
<1>2. /\ \A i \in 1 .. k : o[i] \in R /\ o[i].neededBy \in C
      /\ \A i \in 1 .. l : e[i] \in R
  BY <1>1
<1>3. \A d : d \in D <=> d \in MissingOf(n, A) /\ d \notin Known
  BY DEF MissingOf
<1>4. \A m \in C : \A d \in MissingOf(m, A) : d \in Known
  BY DEF MissingOf
<1>5. \A d : d \in Known /\ d \in MissingOf(n, A) => \E m \in C : d \in MissingOf(m, A)
  BY DEF MissingOf
<1>6. /\ \A i, j \in 1 .. l : e[i].missing = e[j].missing => i = j
      /\ \A i \in 1 .. l : e[i].missing \in D /\ e[i].neededBy = n
      /\ \A d \in D : \E i \in 1 .. l : e[i].missing = d
  BY DEF TellsOnce
<1>7. /\ \A i, j \in 1 .. k : o[i].missing = o[j].missing => i = j
      /\ \A i \in 1 .. k :
           /\ o[i].missing \in MissingOf(o[i].neededBy, A)
           /\ \A m \in C : o[i].missing \in MissingOf(m, A) => o[i].neededBy <= m
      /\ \A m \in C : \A d \in MissingOf(m, A) : \E i \in 1 .. k : o[i].missing = d
  BY DEF Tells
<1>8. \A m \in B : m \in C \/ m = n
  OBVIOUS
<1> HIDE DEF k, l, D, Known
<1>9. o \in Seq(R) /\ e \in Seq(R)
  <2>1. o \in Seq([missing : Caps, neededBy : C])
    BY DEF Tells
  <2>2. o \in [1 .. k -> R] /\ e \in [1 .. l -> R]
    <3>1. o = [i \in 1 .. k |-> o[i]] /\ e = [i \in 1 .. l |-> e[i]]
      BY <2>1 DEF k, l
    <3> HIDE DEF R
    <3>2. QED
      BY <1>2, <3>1
  <2> HIDE DEF R
  <2>3. QED
    BY <1>1, <2>2
<1> HIDE DEF R
<1>10. /\ f \in Seq(R) /\ Len(f) = k + l
       /\ \A i \in 1 .. k + l : f[i] = IF i <= k THEN o[i] ELSE e[i - k]
  BY <1>9, ConcatProperties DEF k, l
<1> HIDE DEF f, B
<1>11. \A i \in 1 .. k + l : i <= k => i \in 1 .. k /\ f[i] = o[i]
  BY <1>1, <1>10
<1>12. \A i \in 1 .. k + l : ~ (i <= k) => i - k \in 1 .. l /\ f[i] = e[i - k]
  BY <1>1, <1>10
<1>13. ASSUME NEW i \in 1 .. k + l
       PROVE  /\ i <= k => f[i].missing \in Known
              /\ ~ (i <= k) => f[i].missing \notin Known
  BY <1>2, <1>3, <1>4, <1>6, <1>7, <1>11, <1>12
<1>14. ASSUME NEW i \in 1 .. k + l, NEW j \in 1 .. k + l, f[i].missing = f[j].missing PROVE i = j
  <2>1. CASE i <= k
    <3>1. j <= k
      BY <1>13, <1>14, <2>1
    <3>2. QED
      BY <1>7, <1>11, <1>14, <2>1, <3>1
  <2>2. CASE ~ (i <= k)
    <3>1. ~ (j <= k)
      BY <1>13, <1>14, <2>2
    <3>2. i - k = j - k
      BY <1>6, <1>12, <1>14, <2>2, <3>1
    <3>3. QED
      BY <1>1, <3>2
  <2>3. QED
    BY <2>1, <2>2
<1>15. ASSUME NEW i \in 1 .. k + l
       PROVE  /\ f[i].missing \in MissingOf(f[i].neededBy, A)
              /\ \A m \in B : f[i].missing \in MissingOf(m, A) => f[i].neededBy <= m
  <2>1. CASE i <= k
    <3>1. f[i].neededBy \in C /\ f[i].neededBy < n /\ f[i].neededBy \in Nat
      BY <1>2, <1>11, <2>1
    <3>2. f[i].neededBy <= n
      BY <3>1
    <3>3. QED
      BY <1>7, <1>8, <1>11, <2>1, <3>2
  <2>2. CASE ~ (i <= k)
    <3>1. f[i].missing \in D /\ f[i].neededBy = n
      BY <1>6, <1>12, <2>2
    <3>2. \A m \in C : f[i].missing \notin MissingOf(m, A)
      BY <1>4, <1>13, <2>2
    <3>3. n <= n
      OBVIOUS
    <3>4. QED
      BY <1>3, <1>8, <3>1, <3>2, <3>3
  <2>3. QED
    BY <2>1, <2>2
<1>16. ASSUME NEW m \in B, NEW d \in MissingOf(m, A) PROVE \E i \in 1 .. k + l : f[i].missing = d
  <2>1. CASE \E q \in C : d \in MissingOf(q, A)
    <3>1. PICK i \in 1 .. k : o[i].missing = d
      BY <1>7, <2>1
    <3>2. i \in 1 .. k + l /\ i <= k
      BY <1>1
    <3>3. QED
      BY <1>11, <3>1, <3>2
  <2>2. CASE ~ \E q \in C : d \in MissingOf(q, A)
    <3>1. d \in D
      BY <1>3, <1>5, <1>8, <1>16, <2>2
    <3>2. PICK i \in 1 .. l : e[i].missing = d
      BY <1>6, <3>1
    <3>3. i + k \in 1 .. k + l /\ ~ (i + k <= k) /\ (i + k) - k = i
      BY <1>1
    <3>4. f[i + k] = e[i]
      BY <1>12, <3>3
    <3>5. QED
      BY <3>2, <3>3, <3>4
  <2>3. QED
    BY <2>1, <2>2
<1>17. Tells(f, B, A)
  BY <1>10, <1>14, <1>15, <1>16 DEF Tells, R
<1>18. QED
  BY <1>17 DEF f, B

\* What Check is to tell of the packages S when A are installed.
TruthOf(o, A, S) ==
  LET checked == S \cap A
      broken == UNION {MissingOf(n, A) : n \in checked}
  IN /\ (o = <<Q!AllSeemOk>>) <=> (broken = {})
     /\ broken # {} =>
          /\ Len(o) = Cardinality(broken)
          /\ \A d \in broken :
               LET first == CHOOSE n \in checked :
                              d \in MissingOf(n, A) /\ \A m \in checked : d \in MissingOf(m, A) => n <= m
               IN [missing |-> d, neededBy |-> first] \in Q!ToSet(o)

\* CheckTellsTruth, in these words.
LEMMA TruthIs == Q!CheckTellsTruth <=> (Q!Answered("check") => TruthOf(out, appdb, status))
<1>1. \A n : Q!Missing(n) = MissingOf(n, appdb)
  BY DEF Q!Missing, MissingOf
<1>2. Q!Checked = status \cap appdb
  BY DEF Q!Checked
<1>3. \A S : Q!Cardinality(S) = Cardinality(S)
  BY CardinalityIs
<1>4. UNION {Q!Missing(n) : n \in Q!Checked} = UNION {MissingOf(n, appdb) : n \in status \cap appdb}
  BY <1>1, <1>2
<1> DEFINE broken == UNION {MissingOf(n, appdb) : n \in status \cap appdb}
           Least1(d) == CHOOSE n \in Q!Checked :
                          d \in Q!Missing(n) /\ \A m \in Q!Checked : d \in Q!Missing(m) => n <= m
           Least2(d) == CHOOSE n \in status \cap appdb :
                          d \in MissingOf(n, appdb)
                            /\ \A m \in status \cap appdb : d \in MissingOf(m, appdb) => n <= m
<1>5. \A d : Least1(d) = Least2(d)
  BY <1>1, <1>2
<1>6. Q!CheckTellsTruth <=>
        (Q!Answered("check") =>
           /\ (out = <<Q!AllSeemOk>>) <=> (broken = {})
           /\ broken # {} =>
                /\ Len(out) = Cardinality(broken)
                /\ \A d \in broken : [missing |-> d, neededBy |-> Least1(d)] \in Q!ToSet(out))
  <2> HIDE DEF broken
  <2>1. UNION {Q!Missing(n) : n \in Q!Checked} = broken
    BY <1>4 DEF broken
  <2>2. QED
    BY <1>3, <2>1 DEF Q!CheckTellsTruth
<1>7. TruthOf(out, appdb, status) <=>
           /\ (out = <<Q!AllSeemOk>>) <=> (broken = {})
           /\ broken # {} =>
                /\ Len(out) = Cardinality(broken)
                /\ \A d \in broken : [missing |-> d, neededBy |-> Least2(d)] \in Q!ToSet(out)
  BY DEF TruthOf
<1> HIDE DEF broken, Least1, Least2
<1>8. QED
  BY <1>5, <1>6, <1>7

\* What Check has told of all its packages is the truth.
LEMMA ToldIsTruth ==
  ASSUME NEW A, NEW S \in SUBSET Names, NEW o, NEW ok, Tells(o, S \cap A, A), ok <=> o = <<>>
  PROVE  TruthOf(IF ok THEN Append(o, Q!AllSeemOk) ELSE o, A, S)
<1> DEFINE C == S \cap A
           n == Len(o)
           broken == UNION {MissingOf(m, A) : m \in C}
           first(d) == CHOOSE q \in C :
                         d \in MissingOf(q, A) /\ \A m \in C : d \in MissingOf(m, A) => q <= m
           R == [missing : Caps, neededBy : C]
<1>1. o \in Seq(R) /\ n \in Nat /\ \A i \in 1 .. n : o[i] \in R
  <2>1. o \in Seq(R)
    BY DEF Tells
  <2> HIDE DEF R
  <2>2. QED
    BY <2>1
<1>2. /\ \A i, j \in 1 .. n : o[i].missing = o[j].missing => i = j
      /\ \A i \in 1 .. n :
           /\ o[i].missing \in MissingOf(o[i].neededBy, A)
           /\ \A m \in C : o[i].missing \in MissingOf(m, A) => o[i].neededBy <= m
      /\ \A m \in C : \A d \in MissingOf(m, A) : \E i \in 1 .. n : o[i].missing = d
  BY DEF Tells
<1>3. \A i \in 1 .. n : o[i].neededBy \in C /\ o[i] = [missing |-> o[i].missing, neededBy |-> o[i].neededBy]
  BY <1>1
<1>4. C \subseteq Nat
  BY NamesSorted
<1>5. \A d : d \in broken <=> \E i \in 1 .. n : o[i].missing = d
  <2>1. \A d : d \in broken <=> \E m \in C : d \in MissingOf(m, A)
    OBVIOUS
  <2> HIDE DEF C, n, broken
  <2>2. ASSUME NEW d, NEW i \in 1 .. n, o[i].missing = d PROVE d \in broken
    <3>1. o[i].neededBy \in C /\ d \in MissingOf(o[i].neededBy, A)
      BY <1>2, <1>3, <2>2
    <3>2. QED
      BY <2>1, <3>1
  <2>3. ASSUME NEW d \in broken PROVE \E i \in 1 .. n : o[i].missing = d
    <3>1. PICK m \in C : d \in MissingOf(m, A)
      BY <2>1, <2>3
    <3>2. QED
      BY <1>2, <3>1
  <2>4. QED
    BY <2>2, <2>3
<1> HIDE DEF C, n, broken, first
<1>6. CASE o = <<>>
  <2>1. n = 0
    BY <1>6 DEF n
  <2>2. broken = {}
    BY <1>5, <2>1
  <2>3. Append(o, Q!AllSeemOk) = <<Q!AllSeemOk>>
    BY <1>6
  <2>4. QED
    BY <1>6, <2>2, <2>3 DEF TruthOf, broken, C
<1>7. CASE o # <<>>
  <2>1. 1 \in 1 .. n
    <3> HIDE DEF R
    <3> QED BY <1>1, <1>7 DEF n
  <2>2. broken # {}
    BY <1>5, <2>1
  <2>3. o # <<Q!AllSeemOk>>
    <3>1. o[1] # [text |-> "All seem ok."]
      <4>1. DOMAIN o[1] = {"missing", "neededBy"}
        BY <1>1, <2>1
      <4>2. DOMAIN [text |-> "All seem ok."] = {"text"}
        OBVIOUS
      <4>3. QED
        BY <4>1, <4>2
    <3> DEFINE well == [text |-> "All seem ok."]
    <3>2. <<well>>[1] = well /\ Q!AllSeemOk = well
      BY DEF Q!AllSeemOk
    <3> HIDE DEF well
    <3>3. QED
      BY <3>1, <3>2 DEF well
  <2>4. n = Cardinality(broken)
    <3> DEFINE f == [i \in 1 .. n |-> o[i].missing]
    <3>1. f \in [1 .. n -> broken]
      BY <1>5
    <3>2. \A i, j \in 1 .. n : f[i] = f[j] => i = j
      BY <1>2
    <3>3. \A d \in broken : \E i \in 1 .. n : f[i] = d
      BY <1>5
    <3> HIDE DEF f
    <3>4. f \in Bijection(1 .. n, broken)
      BY <3>1, <3>2, <3>3 DEF Bijection, Injection, Surjection, IsInjective
    <3>5. ExistsBijection(1 .. n, broken)
      BY <3>4 DEF ExistsBijection
    <3>6. QED
      BY <1>1, <3>5, FS_CountingElements
  <2>5. ASSUME NEW d \in broken PROVE [missing |-> d, neededBy |-> first(d)] \in Q!ToSet(o)
    <3>1. PICK i \in 1 .. n : o[i].missing = d
      BY <1>5, <2>5
    <3>2. /\ o[i].neededBy \in C /\ d \in MissingOf(o[i].neededBy, A)
          /\ \A m \in C : d \in MissingOf(m, A) => o[i].neededBy <= m
      BY <1>2, <1>3, <3>1
    <3>3. first(d) = o[i].neededBy
      <4>1. /\ first(d) \in C /\ d \in MissingOf(first(d), A)
            /\ \A m \in C : d \in MissingOf(m, A) => first(d) <= m
        BY <3>2 DEF first
      <4>2. first(d) <= o[i].neededBy /\ o[i].neededBy <= first(d)
        BY <3>2, <4>1
      <4>3. first(d) \in Nat /\ o[i].neededBy \in Nat
        BY <1>4, <3>2, <4>1
      <4>4. QED
        BY <4>2, <4>3
    <3>4. o[i] = [missing |-> d, neededBy |-> first(d)]
      BY <1>3, <3>1, <3>3
    <3>5. o[i] \in Q!ToSet(o)
      <4>1. DOMAIN o = 1 .. n
        <5> HIDE DEF R
        <5> QED BY <1>1 DEF n
      <4>2. QED
        BY <4>1 DEF Q!ToSet
    <3>6. QED
      BY <3>4, <3>5
  <2>6. ~ok
    BY <1>7
  <2>7. Len(o) = Cardinality(broken)
    BY <2>4 DEF n
  <2>8. TruthOf(o, A, S)
    BY <2>2, <2>3, <2>5, <2>7 DEF TruthOf, broken, C, first
  <2>9. QED
    BY <2>6, <2>8
<1>8. QED
  BY <1>6, <1>7

\* Nothing is said of a query that is no Check.
LEMMA CheckElse ==
  ASSUME query'.list # "check", query'.op # "check"
  PROVE  CheckIInv'
BY DEF CheckIInv, CheckOpens, CheckGoes, Q!CheckTellsTruth, Q!Answered

\* What does not touch the Check keeps what is said of it.
LEMMA CheckRests ==
  ASSUME CheckIInv, UNCHANGED <<query, chked, out, status>>,
         disturbed => disturbed', ~disturbed' => appdb' = appdb
  PROVE  CheckIInv'
<1>1. CheckOpens'
  BY DEF CheckIInv, CheckOpens
<1>2. CheckGoes'
  <2>1. CASE disturbed'
    BY <2>1 DEF CheckGoes
  <2>2. CASE ~disturbed'
    <3>1. ~disturbed /\ appdb' = appdb
      BY <2>2
    <3>2. Inspected' = Inspected /\ There' = There
      BY <3>1 DEF Inspected, There
    <3>3. CheckGoes
      BY DEF CheckIInv
    <3>4. (UNION {Q!ToSet(Requires[n]) : n \in Inspected})' = UNION {Q!ToSet(Requires[n]) : n \in Inspected}
      BY <3>2
    <3>5. Tells(out, Inspected, appdb)' <=> Tells(out, Inspected, appdb)
      BY <3>1, <3>2 DEF Tells, MissingOf
    <3>6. QED
      BY <3>1, <3>2, <3>3, <3>4, <3>5 DEF CheckGoes
  <2>3. QED
    BY <2>1, <2>2
<1>3. Q!CheckTellsTruth'
  <2>1. Q!Answered("check") => TruthOf(out, appdb, status)
    BY TruthIs DEF CheckIInv
  <2>2. (Q!Answered("check") => TruthOf(out, appdb, status))'
    BY <2>1 DEF Q!Answered
  <2>3. QED
    BY <2>2, TruthIs, PTL
<1>4. QED
  BY <1>1, <1>2, <1>3 DEF CheckIInv

\* Each action keeps the invariant of a Check.
LEMMA CheckBegins ==
  ASSUME QueryIInv, NEW op \in Q!Ops, NEW text \in Texts \cup {{}}, Q!Begin(op, text)
  PROVE  CheckIInv'
<1>1. query'.pc = "open" /\ query'.ok = TRUE
  BY DEF Q!Begin, Q!NoJob
<1>2. QED
  BY <1>1 DEF CheckIInv, CheckOpens, CheckGoes, Q!CheckTellsTruth, Q!Answered

LEMMA CheckOpensHandle ==
  ASSUME QueryIInv, CheckIInv, Q!openPkgDB
  PROVE  CheckIInv'
<1>1. query \in QueryJobs /\ query.pc = "open" /\ query' = [query EXCEPT !.pc = "read"]
  BY DEF QueryIInv, QueryTypes, Q!openPkgDB
<1>2. query'.pc = "read" /\ query'.ok = query.ok /\ query'.list = query.list
  BY <1>1 DEF QueryJobs
<1>3. QED
  BY <1>1, <1>2 DEF CheckIInv, CheckOpens, CheckGoes, Q!CheckTellsTruth, Q!Answered

\* The other queries tell nothing of what is missing.
LEMMA CheckOthers ==
  ASSUME QueryIInv,
         Q!listInstalled \/ Q!listUnInstalled \/ Q!closePkgDB \/ Q!search \/ Q!realUpgrade
  PROVE  CheckIInv'
<1>1. query \in QueryJobs /\ QueryStages
  BY DEF QueryIInv, QueryTypes
<1>2. query \in [op : QueryOps, text : Texts \cup {{}}, list : QueryLists, pc : QueryPCs, todo : Seq(Names),
                 ok : BOOLEAN]
  BY <1>1 DEF QueryJobs
<1>3. CASE Q!listInstalled
  <2>1. query.pc = "read" /\ query.list = "installed" /\ query' = [query EXCEPT !.pc = "close"]
    BY <1>3 DEF Q!listInstalled, Q!At
  <2>2. query'.op = query.op /\ query'.list = query.list /\ query.op # "check"
    BY <1>1, <1>2, <2>1 DEF QueryStages
  <2>3. QED
    BY <2>1, <2>2, CheckElse
<1>4. CASE Q!listUnInstalled
  <2>1. query.pc = "read" /\ query.list = "uninstalled" /\ query' = [query EXCEPT !.pc = "close"]
    BY <1>4 DEF Q!listUnInstalled, Q!At
  <2>2. query'.op = query.op /\ query'.list = query.list /\ query.op # "check"
    BY <1>1, <1>2, <2>1 DEF QueryStages
  <2>3. QED
    BY <2>1, <2>2, CheckElse
<1>5. CASE Q!closePkgDB
  <2> DEFINE again == query.op = "search" /\ query.list = "installed"
             next == IF query.op \in {"search", "all"} THEN "emit" ELSE "done"
  <2>1. /\ query.pc = "close"
        /\ query' = IF again THEN [query EXCEPT !.list = "uninstalled", !.pc = "open"]
                    ELSE [query EXCEPT !.pc = next]
    BY <1>5 DEF Q!closePkgDB
  <2>2. query'.op = query.op /\ query'.list \in {query.list, "uninstalled"}
    <3>1. CASE again
      <4>1. query' = [op |-> query.op, text |-> query.text, list |-> "uninstalled", pc |-> "open",
                      todo |-> query.todo, ok |-> query.ok]
        BY <1>2, <2>1, <3>1
      <4>2. QED
        BY <4>1
    <3>2. CASE ~again
      <4>1. query' = [op |-> query.op, text |-> query.text, list |-> query.list, pc |-> next,
                      todo |-> query.todo, ok |-> query.ok]
        BY <1>2, <2>1, <3>2
      <4>2. QED
        BY <4>1
    <3>3. QED
      BY <3>1, <3>2
  <2>3. query.op # "check" /\ query.list # "check"
    BY <1>1, <2>1 DEF QueryStages
  <2>4. QED
    BY <2>2, <2>3, CheckElse
<1>6. CASE Q!search
  <2>1. query.pc = "emit" /\ query' = [query EXCEPT !.pc = "done"]
    BY <1>6 DEF Q!search
  <2>2. query'.op = query.op /\ query'.list = query.list /\ query.op # "check" /\ query.list # "check"
    BY <1>1, <1>2, <2>1 DEF QueryStages
  <2>3. QED
    BY <2>2, CheckElse
<1>7. CASE Q!realUpgrade
  <2>1. query.pc = "each" /\ query.list = "update" /\ query' = [query EXCEPT !.todo = Tail(@)]
    BY <1>7 DEF Q!realUpgrade, Q!Each
  <2>2. query'.op = query.op /\ query'.list = query.list /\ query.op # "check"
    BY <1>1, <1>2, <2>1 DEF QueryStages
  <2>3. QED
    BY <2>1, <2>2, CheckElse
<1>8. QED
  BY <1>3, <1>4, <1>5, <1>6, <1>7

\* A Check starts with nothing inspected.
LEMMA CheckReads ==
  ASSUME QueryIInv, CheckIInv, Q!ReadInstalled
  PROVE  CheckIInv'
<1> DEFINE s == Q!getAllInstalledPkgs
<1>1. /\ query \in QueryJobs /\ query.pc = "read" /\ query.list \in {"check", "update"}
      /\ query' = [query EXCEPT !.todo = s, !.pc = "each"]
  BY DEF QueryIInv, QueryTypes, Q!ReadInstalled
<1> HIDE DEF s
<1>2. query'.pc = "each" /\ query'.list = query.list /\ query'.todo = s /\ query'.ok = query.ok
  <2>1. query \in [op : QueryOps, text : Texts \cup {{}}, list : QueryLists, pc : QueryPCs, todo : Seq(Names),
                   ok : BOOLEAN]
    BY <1>1 DEF QueryJobs
  <2>2. query' = [op |-> query.op, text |-> query.text, list |-> query.list, pc |-> "each", todo |-> s,
                  ok |-> query.ok]
    BY <1>1, <2>1
  <2>3. QED
    BY <2>2
<1>3. UNCHANGED <<appdb, status, g_db, chked, out, disturbed>>
  BY DEF Q!ReadInstalled, Q!world
<1>4. CheckGoes'
  <2>1. SUFFICES ASSUME query.list = "check", ~disturbed PROVE CheckGoes'
    BY <1>2, <1>3 DEF CheckGoes
  <2>2. out = <<>> /\ chked = Q!NoneChked /\ query.ok
    BY <1>1, <2>1 DEF QueryIInv, QueryStages, FoundIs, CheckIInv, CheckOpens
  <2>3. g_db
    BY <1>1, <2>1 DEF QueryIInv, HandleIs
  <2>4. Q!ToSet(s) = status
    BY <2>3, NamesSorted DEF s, Q!getAllInstalledPkgs, QueryIInv, QueryTypes
  <2>5. Q!ToSet(query'.todo) = status'
    BY <1>2, <1>3, <2>4
  <2>6. Inspected' = {}
    BY <2>5 DEF Inspected
  <2>7. chked'.dep = {} /\ chked'.ins = {}
    BY <1>3, <2>2 DEF Q!NoneChked
  <2>8. Tells(<<>>, {}, appdb')
    <3>1. <<>> \in Seq([missing : Caps, neededBy : {}]) /\ Len(<<>>) = 0
      OBVIOUS
    <3>2. QED
      BY <3>1 DEF Tells
  <2>9. Tells(out, Inspected, appdb)'
    BY <1>3, <2>2, <2>6, <2>8
  <2>10. (UNION {Q!ToSet(Requires[n]) : n \in Inspected})' = {}
    BY <2>6
  <2>11. query'.ok /\ out' = <<>>
    BY <1>2, <1>3, <2>2
  <2> HIDE DEF CheckGoes
  <2>12. QED
    BY <2>5, <2>7, <2>9, <2>10, <2>11 DEF CheckGoes
<1>5. QED
  BY <1>2, <1>4 DEF CheckIInv, CheckOpens, Q!CheckTellsTruth, Q!Answered

\* A Check that is done has inspected all its packages.
LEMMA CheckEnds ==
  ASSUME QueryIInv, CheckIInv, Q!End
  PROVE  CheckIInv'
<1>1. query \in QueryJobs /\ query.pc = "each" /\ query.todo = <<>> /\ query' = [query EXCEPT !.pc = "done"]
  BY DEF QueryIInv, QueryTypes, Q!End
<1>2. query'.pc = "done" /\ query'.op = query.op /\ query'.list = query.list
  BY <1>1 DEF QueryJobs
<1>3. UNCHANGED <<appdb, status, disturbed>>
  BY DEF Q!End, Q!world
<1>4. Q!CheckTellsTruth'
  <2>1. SUFFICES ASSUME query.op = "check", ~disturbed PROVE TruthOf(out', appdb', status')
    <3>1. (Q!Answered("check") => TruthOf(out, appdb, status))'
      BY <1>2, <1>3, <2>1 DEF Q!Answered
    <3>2. QED
      BY <3>1, TruthIs, PTL
  <2>2. query.list = "check"
    BY <1>1, <2>1 DEF QueryIInv, QueryStages
  <2>3. CheckGoes
    BY DEF CheckIInv
  <2>4. (query.ok <=> out = <<>>) /\ Tells(out, Inspected, appdb)
    BY <1>1, <2>1, <2>2, <2>3 DEF CheckGoes
  <2>5. Inspected = status \cap appdb
    <3>1. Q!ToSet(query.todo) = {}
      BY <1>1 DEF Q!ToSet
    <3>2. QED
      BY <3>1 DEF Inspected
  <2>6. status \in SUBSET Names
    BY DEF QueryIInv, QueryTypes
  <2>7. out' = IF query.ok THEN Append(out, Q!AllSeemOk) ELSE out
    BY <2>1 DEF Q!End, Q!emit_list_check_handle
  <2>8. TruthOf(out', appdb, status)
    BY <2>4, <2>5, <2>6, <2>7, ToldIsTruth
  <2>9. QED
    BY <1>3, <2>8
<1>5. QED
  BY <1>2, <1>4 DEF CheckIInv, CheckOpens, CheckGoes

\* No package of isoftapp goes by the name of something the system provides.
OwnPackages == Names \cap OsProvides = {}

\* One package is inspected.
LEMMA CheckChecks ==
  ASSUME OwnPackages, QueryIInv, CheckIInv, Q!chkDep
  PROVE  CheckIInv'
<1> DEFINE todo == query.todo
           n == Head(todo)
           end == Q!Looked(n)
           C == Inspected
<1>1. /\ query.pc = "each" /\ query.list = "check" /\ todo # <<>> /\ query \in QueryJobs
      /\ UNCHANGED <<appdb, status, g_db, disturbed>>
      /\ QueryTypes /\ Names \subseteq Nat
  BY NamesSorted DEF Q!chkDep, Q!Each, Q!world, QueryIInv, QueryTypes
<1>2. /\ Rising(Tail(todo), Names) /\ n \in Names
      /\ \A x \in Q!ToSet(Tail(todo)) : n < x
      /\ Q!ToSet(todo) = {n} \cup Q!ToSet(Tail(todo))
      /\ Q!ToSet(Tail(todo)) \subseteq Names
  <2>1. Rising(todo, Names)
    BY <1>1 DEF QueryTypes
  <2>2. QED
    BY <1>1, <2>1, RisingTail, RisingCounts
<1>3. /\ end \in Lookings(n)
      /\ end.chked.dep = chked.dep \cup Q!ToSet(Requires[n])
      /\ chked.ins \subseteq There /\ n \in There =>
           /\ end.chked.ins \subseteq There
           /\ TellsOnce(end.missing, {d \in Q!ToSet(Requires[n]) : d \notin chked.dep /\ d \notin There}, n)
  BY <1>1, <1>2, LookedIs
<1> HIDE DEF end, n
<1>4. end.missing \in Seq([missing : Caps, neededBy : {n}])
  BY <1>3 DEF Lookings
<1>5. CheckOpens' /\ Q!CheckTellsTruth'
  <2>1. \E ok : query' = [query EXCEPT !.todo = Tail(@), !.ok = ok]
    <3>1. CASE ~g_db
      BY <3>1 DEF Q!chkDep
    <3>2. CASE g_db /\ Q!pkgIsInstalled(chked, n, TRUE)
      <4>1. query' = [query EXCEPT !.todo = Tail(@), !.ok = query.ok /\ end.missing = <<>>]
        BY <3>2 DEF Q!chkDep, n, end
      <4>2. QED
        BY <4>1
    <3>3. CASE g_db /\ ~ Q!pkgIsInstalled(chked, n, TRUE)
      <4>1. query' = [query EXCEPT !.todo = Tail(@)]
        BY <3>3 DEF Q!chkDep, n, end
      <4>2. query' = [query EXCEPT !.todo = Tail(@), !.ok = query.ok]
        BY <1>1, <4>1 DEF QueryJobs
      <4>3. QED
        BY <4>2
    <3>4. QED
      BY <3>1, <3>2, <3>3
  <2>2. PICK ok : query' = [query EXCEPT !.todo = Tail(@), !.ok = ok]
    BY <2>1
  <2>3. query'.pc = "each"
    <3>1. query \in [op : QueryOps, text : Texts \cup {{}}, list : QueryLists, pc : QueryPCs, todo : Seq(Names),
                     ok : BOOLEAN]
      BY <1>1 DEF QueryJobs
    <3>2. query' = [op |-> query.op, text |-> query.text, list |-> query.list, pc |-> query.pc,
                    todo |-> Tail(query.todo), ok |-> ok]
      BY <2>2, <3>1
    <3>3. QED
      BY <1>1, <3>2
  <2>4. QED
    BY <2>3 DEF CheckOpens, Q!CheckTellsTruth, Q!Answered
<1>6. CASE disturbed
  BY <1>1, <1>5, <1>6 DEF CheckIInv, CheckGoes
<1>7. CASE ~disturbed
  <2>1. g_db
    BY <1>1, <1>7 DEF QueryIInv, HandleIs
  <2>2. /\ Q!ToSet(todo) \subseteq status
        /\ \A m \in status \ Q!ToSet(todo), q \in Q!ToSet(todo) : m < q
        /\ chked.dep = UNION {Q!ToSet(Requires[m]) : m \in C}
        /\ chked.ins \subseteq There
        /\ query.ok <=> out = <<>>
        /\ Tells(out, C, appdb)
    BY <1>1, <1>7 DEF CheckIInv, CheckGoes
  <2>3. /\ Q!ToSet(Tail(todo)) \subseteq status
        /\ status \ Q!ToSet(Tail(todo)) = (status \ Q!ToSet(todo)) \cup {n}
        /\ n \in status /\ n \notin Q!ToSet(Tail(todo))
    <3>1. n \notin Q!ToSet(Tail(todo))
      BY <1>1, <1>2
    <3>2. QED
      BY <1>2, <2>2, <3>1
  <2>4. \A m \in status \ Q!ToSet(Tail(todo)), q \in Q!ToSet(Tail(todo)) : m < q
    BY <1>2, <2>2, <2>3
  <2>5. C \subseteq Names /\ \A m \in C : m < n
    <3>1. C \subseteq status \ Q!ToSet(todo) /\ status \subseteq Names
      BY <1>1 DEF Inspected, QueryTypes
    <3>2. n \in Q!ToSet(todo)
      BY <1>2
    <3>3. QED
      BY <2>2, <3>1, <3>2
  <2>6. query.ok \in BOOLEAN /\ query \in [op : QueryOps, text : Texts \cup {{}}, list : QueryLists,
                                           pc : QueryPCs, todo : Seq(Names), ok : BOOLEAN]
    BY <1>1 DEF QueryJobs
  <2>7. There' = There
    BY <1>1 DEF There
  <2>8. CASE n \in appdb
    <3>1. Q!pkgIsInstalled(chked, n, TRUE)
      BY <2>8 DEF Q!pkgIsInstalled
    <3>2. /\ out' = out \o end.missing /\ chked' = end.chked
          /\ query' = [query EXCEPT !.todo = Tail(@), !.ok = query.ok /\ end.missing = <<>>]
      BY <2>1, <3>1 DEF Q!chkDep, n, end
    <3> DEFINE ok == query.ok /\ end.missing = <<>>
    <3>3. query'.todo = Tail(todo) /\ query'.ok = ok
      <4> HIDE DEF ok
      <4>1. query' = [op |-> query.op, text |-> query.text, list |-> query.list, pc |-> query.pc,
                      todo |-> Tail(todo), ok |-> ok]
        BY <2>6, <3>2 DEF ok
      <4>2. QED
        BY <4>1
    <3>4. Inspected' = C \cup {n}
      BY <1>1, <2>3, <2>8, <3>3 DEF Inspected
    <3>5. n \in There
      BY <2>8 DEF There
    <3>6. /\ end.chked.ins \subseteq There
          /\ TellsOnce(end.missing, {d \in Q!ToSet(Requires[n]) : d \notin chked.dep /\ d \notin There}, n)
      BY <1>3, <2>2, <3>5
    <3>7. {d \in Q!ToSet(Requires[n]) : d \notin chked.dep /\ d \notin There} =
            {d \in Q!ToSet(Requires[n]) : /\ d \notin UNION {Q!ToSet(Requires[m]) : m \in C}
                                          /\ d \notin appdb \cup OsProvides}
      BY <2>2 DEF There
    <3>8. Tells(out \o end.missing, C \cup {n}, appdb)
      <4> HIDE DEF C
      <4> QED BY <1>1, <1>2, <1>4, <2>2, <2>5, <3>6, <3>7, TellMore
    <3>9. chked'.dep = UNION {Q!ToSet(Requires[m]) : m \in C \cup {n}}
      <4> HIDE DEF C
      <4> QED BY <1>3, <2>2, <3>2
    <3>10. query'.ok <=> out' = <<>>
      <4>1. out = <<>> /\ end.missing = <<>> <=> out \o end.missing = <<>>
        <5> DEFINE R1 == [missing : Caps, neededBy : C]
                   R2 == [missing : Caps, neededBy : {n}]
        <5>1. out \in Seq(R1) /\ end.missing \in Seq(R2)
          BY <1>4, <2>2 DEF Tells
        <5> DEFINE e == end.missing
                   R == R1 \cup R2
        <5> HIDE DEF R1, R2, e
        <5>2. out \in Seq(R) /\ e \in Seq(R)
          BY <5>1 DEF e
        <5> HIDE DEF R
        <5>3. Len(out \o e) = Len(out) + Len(e) /\ Len(out) \in Nat /\ Len(e) \in Nat /\ out \o e \in Seq(R)
          BY <5>2, ConcatProperties
        <5>4. out = <<>> /\ e = <<>> <=> out \o e = <<>>
          BY <5>2, <5>3
        <5>5. QED
          BY <5>4 DEF e
      <4>2. QED
        BY <2>2, <3>2, <3>3, <4>1
    <3>11. Tells(out, Inspected, appdb)'
      BY <1>1, <3>2, <3>4, <3>8
    <3>12. (UNION {Q!ToSet(Requires[m]) : m \in Inspected})' = UNION {Q!ToSet(Requires[m]) : m \in C \cup {n}}
      BY <3>4
    <3>13. CheckGoes'
      <4>1. Q!ToSet(query.todo)' = Q!ToSet(Tail(todo))
        BY <3>3
      <4> HIDE DEF C
      <4>2. QED
        BY <1>1, <2>3, <2>4, <2>7, <3>2, <3>6, <3>9, <3>10, <3>11, <3>12, <4>1 DEF CheckGoes
    <3>14. QED
      BY <1>5, <3>13 DEF CheckIInv
  <2>9. CASE n \notin appdb
    <3>1. ~ Q!pkgIsInstalled(chked, n, TRUE)
      <4>1. n \notin There
        BY <1>2, <2>9 DEF OwnPackages, There
      <4>2. n \notin chked.ins
        BY <2>2, <4>1
      <4>3. QED
        BY <2>9, <4>2 DEF Q!pkgIsInstalled, Q!chkInsPkg
    <3>2. out' = out /\ chked' = chked /\ query' = [query EXCEPT !.todo = Tail(@)]
      BY <2>1, <3>1 DEF Q!chkDep, n, end
    <3>3. query'.todo = Tail(todo) /\ query'.ok = query.ok
      <4>1. query' = [op |-> query.op, text |-> query.text, list |-> query.list, pc |-> query.pc,
                      todo |-> Tail(todo), ok |-> query.ok]
        BY <2>6, <3>2
      <4>2. QED
        BY <4>1
    <3>4. Inspected' = C
      BY <1>1, <2>3, <2>9, <3>3 DEF Inspected
    <3>5. Tells(out, Inspected, appdb)'
      BY <1>1, <2>2, <3>2, <3>4
    <3>6. (UNION {Q!ToSet(Requires[m]) : m \in Inspected})' = UNION {Q!ToSet(Requires[m]) : m \in C}
      BY <3>4
    <3>7. CheckGoes'
      <4>1. Q!ToSet(query.todo)' = Q!ToSet(Tail(todo))
        BY <3>3
      <4> HIDE DEF C
      <4>2. QED
        BY <1>1, <2>2, <2>3, <2>4, <2>7, <3>2, <3>3, <3>5, <3>6, <4>1 DEF CheckGoes
    <3>8. QED
      BY <1>5, <3>7 DEF CheckIInv
  <2>10. QED
    BY <2>8, <2>9
<1>8. QED
  BY <1>6, <1>7

\* The invariant of a Check holds at first, and is kept.
LEMMA CheckSteps == OwnPackages /\ QueryIInv /\ CheckIInv /\ [Q!Next]_(Q!vars) => CheckIInv'
<1> SUFFICES ASSUME OwnPackages, QueryIInv, CheckIInv, [Q!Next]_(Q!vars) PROVE CheckIInv'
  OBVIOUS
<1>1. ASSUME NEW op \in Q!Ops \ {"search"}, Q!Begin(op, {}) PROVE CheckIInv'
  BY <1>1, CheckBegins
<1>2. ASSUME NEW t \in Texts, Q!Begin("search", t) PROVE CheckIInv'
  <2>1. "search" \in Q!Ops
    BY DEF Q!Ops, Q!Lists
  <2>2. QED
    BY <1>2, <2>1, CheckBegins
<1>3. ASSUME query' = Q!NoJob PROVE CheckIInv'
  <2>1. query'.list # "check" /\ query'.op # "check"
    BY <1>3 DEF Q!NoJob
  <2>2. QED
    BY <2>1, CheckElse
<1>4. CASE Q!Worker
  <2>1. ASSUME Q!Finish PROVE CheckIInv'
    BY <1>3, <2>1 DEF Q!Finish
  <2>2. QED
    BY <1>4, <2>1, CheckOpensHandle, CheckOthers, CheckReads, CheckChecks, CheckEnds DEF Q!Worker
<1>5. CASE Q!MainLoop
  <2>1. CASE Q!AskOpen \/ Q!AskRead \/ Q!Reply
    <3>1. UNCHANGED <<query, chked, out, status, appdb, disturbed>>
      BY <2>1 DEF Q!AskOpen, Q!AskRead, Q!Reply, Q!world
    <3>2. QED
      BY <3>1, CheckRests
  <2>2. CASE Q!AskClose
    <3>1. UNCHANGED <<query, chked, out, status, appdb>> /\ disturbed' = (disturbed \/ query # Q!NoJob)
      BY <2>2 DEF Q!AskClose, Q!world
    <3>2. QED
      BY <3>1, CheckRests
  <2>3. QED
    BY <1>5, <2>1, <2>2 DEF Q!MainLoop
<1>6. ASSUME NEW n \in Names, Q!Ask(n) \/ Q!Tick PROVE CheckIInv'
  BY <1>6, CheckRests DEF Q!Ask, Q!Tick, Q!world
<1>7. ASSUME NEW n \in Names, Q!Task(n) PROVE CheckIInv'
  BY <1>3, <1>7 DEF Q!Task
<1>8. ASSUME NEW n \in Names, Q!ByHand(n) PROVE CheckIInv'
  <2>1. CASE query = Q!NoJob
    BY <1>3, <1>8, <2>1 DEF Q!ByHand
  <2>2. CASE query # Q!NoJob
    BY <1>8, <2>2, CheckRests DEF Q!ByHand
  <2>3. QED
    BY <2>1, <2>2
<1>9. CASE Q!Update
  BY <1>3, <1>9 DEF Q!Update
<1>10. CASE Q!Tick
  BY <1>10, CheckRests DEF Q!Tick, Q!world
<1>11. CASE UNCHANGED Q!vars
  BY <1>11, CheckRests DEF Q!vars
<1>12. QED
  BY <1>1, <1>2, <1>4, <1>5, <1>6, <1>7, <1>8, <1>9, <1>10, <1>11 DEF Q!Next

LEMMA CheckStarts == Q!Init => CheckIInv
<1>1. SUFFICES ASSUME Q!Init PROVE CheckIInv
  OBVIOUS
<1>2. query.list = "none" /\ query.op = "none"
  BY <1>1 DEF Q!Init, Q!NoJob
<1>3. QED
  BY <1>2 DEF CheckIInv, CheckOpens, CheckGoes, Q!CheckTellsTruth, Q!Answered

\* What it says of a Check that is done is what was asked.
LEMMA CheckTells == QueryIInv /\ CheckIInv => ChecksInv
<1>1. SUFFICES ASSUME QueryIInv, CheckIInv PROVE ChecksInv
  OBVIOUS
<1>2. Q!NothingLeft
  BY <1>1, IdleIs DEF Q!NothingLeft, QueryIInv, HandleIs
<1>3. QED
  BY <1>1, <1>2 DEF CheckIInv, ChecksInv, Q!ChecksInv

\* A Check that nothing has disturbed tells each dependency that an installed package misses,
\* once and for the first that misses it, and that all is well exactly if none is missing;
\* and no list outlives its query (chkDep() and check(), isoftapp.cpp); provided that no
\* package of isoftapp has the name of something the system provides.
THEOREM ChecksTellTruth == ASSUME OwnPackages PROVE Q!Spec => []ChecksInv
<1>1. Q!Spec => []QueryIInv
  BY QueryStarts, QuerySteps, PTL DEF Q!Spec
<1>2. OwnPackages
  OBVIOUS
<1>3. Q!Spec => [](QueryIInv /\ CheckIInv)
  <2>1. QueryIInv /\ CheckIInv /\ [Q!Next]_(Q!vars) => CheckIInv'
    BY <1>2, CheckSteps
  <2>2. QED
    BY QueryStarts, QuerySteps, CheckStarts, <2>1, PTL DEF Q!Spec
<1>4. QED
  BY <1>3, CheckTells, PTL
=============================================================================
