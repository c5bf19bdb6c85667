---------------------------- MODULE DownloadProofs ----------------------------
(***************************************************************************)
(* What a download leaves, for any number of threads and versions and any  *)
(* length of the file.                                                     *)
(*                                                                         *)
(* Two arguments.  As long as there is a .st, one of the downloads under   *)
(* way has still to rename it (Owned), so the last that ends leaves none.  *)
(* And a download that has been alone since its stat() goes on where what  *)
(* it has found ends (Grows).                                              *)
(***************************************************************************)
EXTENDS Download, Integers, SequencesExt, SequenceTheorems, TLAPS

BeforeRename == {"open", "option", "transfer", "rename"}

\* A .st that is there while something is downloaded will be renamed.
Owned ==
  ~AllIdle /\ st # NoFile => \E t \in Thread : dl[t].pc \in BeforeRename

PCs == {"idle", "open", "option", "transfer", "rename", "handle"}

Downloads ==
  [pc : PCs, out : {"st", "file", "gone"}, append : BOOLEAN, pos : 0 .. Length,
   next : Nat \ {0}, version : 1 .. Versions,
   res : {"none", "ok", "error", "404", "page"}, sound : BOOLEAN, alone : BOOLEAN]

LEMMA IdleIsDownload == Idle \in Downloads /\ Idle.pc = "idle" /\ Idle.alone
  BY LengthAssumption, VersionsAssumption DEF Idle, Downloads, PCs

-----------------------------------------------------------------------------

LEMMA InitOwned == Init => Owned
  BY DEF Init, Owned, AllIdle

\* Until its rename a download is under way, and then in its handler.
LEMMA GoesOn ==
  ASSUME dl \in [Thread -> Downloads], NEW t \in Thread,
         \/ Stat(t) \/ Open(t) \/ Option(t) \/ Receive(t) \/ Received(t) \/ Fail(t)
         \/ \E res \in {"404", "page"} : ErrorPage(t, res)
  PROVE  dl'[t].pc \in BeforeRename
<1> USE DEF BeforeRename, Step, Downloads
<1>1. CASE Stat(t)
  BY <1>1 DEF Stat, Idle
<1>2. CASE Open(t)
  BY <1>2 DEF Open
<1>3. CASE Option(t)
  BY <1>3 DEF Option
<1>4. CASE Receive(t)
  BY <1>4 DEF Receive
<1>5. CASE Received(t)
  BY <1>5 DEF Received
<1>6. CASE Fail(t)
  BY <1>6 DEF Fail
<1>7. ASSUME NEW res \in {"404", "page"}, ErrorPage(t, res) PROVE dl'[t].pc \in BeforeRename
  BY <1>7 DEF ErrorPage
<1>8. QED
  BY <1>1, <1>2, <1>3, <1>4, <1>5, <1>6, <1>7

LEMMA StepOwned ==
  ASSUME dl \in [Thread -> Downloads], Owned, [Next]_vars
  PROVE  Owned'
<1> USE DEF Owned, AllIdle
<1>1. ASSUME NEW t \in Thread, dl'[t].pc \in BeforeRename PROVE Owned'
  BY <1>1
<1>2. ASSUME NEW t \in Thread, Rename(t) PROVE Owned'
  <2>1. st' = NoFile
    BY <1>2 DEF Rename
  <2>2. QED
    BY <2>1
<1>3. ASSUME NEW t \in Thread, Handle(t) PROVE Owned'
  BY <1>3, IdleIsDownload DEF Handle, BeforeRename
<1>4. CASE Die
  BY <1>4 DEF Die
<1>5. CASE Publish \/ UNCHANGED vars
  BY <1>5 DEF Publish, vars
<1>6. QED
  BY <1>1, <1>2, <1>3, <1>4, <1>5, GoesOn DEF Next

-----------------------------------------------------------------------------

\* No file is not a file.
Assumption == NoFile \notin Seq(Chunk)

Types ==
  /\ server \in 1 .. Versions
  /\ st \in File /\ file \in File
  /\ resumeFrom \in Nat /\ deaths \in 0 .. MaxDeaths
  /\ dl \in [Thread -> Downloads]

\* Who rests is Idle; what a thread has open is there; a thread asks for
\* chunks behind its stream's position.
Streams ==
  \A t \in Thread :
    /\ dl[t].pc = "idle" => dl[t] = Idle
    /\ dl[t].pc # "handle" /\ dl[t].out = "st" => st \in Seq(Chunk)
    /\ dl[t].pc # "handle" /\ dl[t].out = "file" => file \in Seq(Chunk)
    /\ dl[t].pc = "open" => dl[t].pos = 0
    /\ dl[t].pc = "option" => dl[t].pos = 0
    /\ dl[t].pc = "transfer" => dl[t].pos < dl[t].next

\* Who has been alone still is.
Solo ==
  \A t \in Thread :
    dl[t].pc # "idle" /\ dl[t].alone => \A u \in Thread \ {t} : dl[u] = Idle

\* data is the beginning of version v.
Starts(data, v) ==
  /\ Len(data) <= Length
  /\ \A i \in 1 .. Len(data) : data[i] = [version |-> v, place |-> i]

\* What a download that is alone has got so far.
Grows(t) ==
  /\ dl[t].pc = "open" => resumeFrom = IF st = NoFile THEN 0 ELSE Len(st)
  /\ dl[t].pc = "option" =>
       /\ dl[t].out = "st" /\ Len(st) = resumeFrom
       /\ ~dl[t].append => resumeFrom = 0
  /\ dl[t].pc = "transfer" /\ dl[t].sound =>
       /\ dl[t].out = "st" /\ Len(st) + 1 = dl[t].next
       /\ Starts(st, dl[t].version)
       /\ ~dl[t].append => dl[t].pos = Len(st)
  /\ dl[t].pc = "rename" /\ dl[t].res = "ok" /\ dl[t].sound => st = Content(dl[t].version)
  /\ dl[t].pc = "handle" /\ dl[t].res = "ok" /\ dl[t].sound => file = Content(dl[t].version)

AllGrow == \A t \in Thread : dl[t].pc # "idle" /\ dl[t].alone => Grows(t)

IInv == Types /\ Streams /\ Solo /\ AllGrow

-----------------------------------------------------------------------------

LEMMA ContentIsFile ==
  ASSUME NEW v \in 1 .. Versions
  PROVE  /\ Content(v) \in Seq(Chunk) /\ Len(Content(v)) = Length
         /\ \A i \in 1 .. Length : Content(v)[i] = [version |-> v, place |-> i]
         /\ \A i \in 1 .. Length : Content(v)[i] \in Chunk
<1>1. Length \in Nat
  BY LengthAssumption
<1>2. \A i \in 1 .. Length : [version |-> v, place |-> i] \in Chunk
  BY DEF Chunk
<1>3. Content(v) \in [1 .. Length -> Chunk]
  BY <1>2 DEF Content
<1>4. Content(v) \in Seq(Chunk)
  BY <1>1, <1>3, SeqDef
<1>5. Len(Content(v)) = Length
  BY <1>1, <1>3, <1>4, LenProperties
<1>6. QED
  BY <1>2, <1>4, <1>5 DEF Content

\* The whole of a version is what begins it and has its length.
LEMMA WholeIsContent ==
  ASSUME NEW data \in Seq(Chunk), NEW v \in 1 .. Versions,
         Starts(data, v), Len(data) = Length
  PROVE  data = Content(v)
<1>1. DOMAIN data = 1 .. Length /\ data = [i \in 1 .. Length |-> data[i]]
  BY LenProperties, ElementOfSeq, SeqDef
<1>2. \A i \in 1 .. Length : data[i] = [version |-> v, place |-> i]
  BY DEF Starts
<1>3. QED
  BY <1>1, <1>2 DEF Content

LEMMA PrefixStarts ==
  ASSUME NEW data \in Seq(Chunk), NEW v \in 1 .. Versions, IsPrefix(data, Content(v))
  PROVE  Starts(data, v)
<1> DEFINE c == Content(v)
           n == Len(data)
<1>1. n \in Nat /\ n <= Length /\ \A i \in 1 .. n : data[i] \in Chunk
  BY ContentIsFile, LenProperties, ElementOfSeq DEF IsPrefix
<1>2. /\ \A i \in 1 .. Length : c[i] \in Chunk
      /\ \A i \in 1 .. Length : c[i] = [version |-> v, place |-> i]
  BY ContentIsFile
<1>3. SubSeq(data, 1, n) = SubSeq(c, 1, n)
  BY DEF IsPrefix
<1> HIDE DEF c, n
<1>4. \A i \in 1 .. n : i \in 1 .. Length
  BY <1>1, LengthAssumption
<1>5. \A i \in 1 .. n - 1 + 1 : SubSeq(data, 1, n)[i] = data[1 + i - 1]
  BY <1>1, SubSeqProperties
<1>6. \A i \in 1 .. n - 1 + 1 : SubSeq(c, 1, n)[i] = c[1 + i - 1]
  BY <1>1, <1>2, <1>4, SubSeqProperties
<1>7. \A i \in 1 .. n : i \in 1 .. n - 1 + 1 /\ 1 + i - 1 = i
  BY <1>1
<1>8. \A i \in 1 .. n : data[i] = c[i]
  BY <1>3, <1>5, <1>6, <1>7
<1>9. QED
  BY <1>1, <1>2, <1>4, <1>8 DEF Starts, n

\* A chunk is written: at the end, or at the position.
LEMMA PutIsFile ==
  ASSUME NEW data \in Seq(Chunk), NEW d \in Downloads, NEW chunk \in Chunk
  PROVE  Put(data, d, chunk) \in Seq(Chunk)
<1> DEFINE n == Len(data)
           m == IF n > d.pos THEN n ELSE d.pos + 1
<1>1. n \in Nat /\ DOMAIN data = 1 .. n /\ \A i \in 1 .. n : data[i] \in Chunk
  BY LenProperties, ElementOfSeq
<1>2. d.pos \in Nat
  BY LengthAssumption DEF Downloads
<1>3. m \in Nat
  BY <1>1, <1>2
<1>4. CASE d.append
  BY <1>4, AppendProperties, LenProperties DEF Put
<1>5. CASE ~d.append
  <2> HIDE DEF m
  <2>1. Put(data, d, chunk) = [i \in 1 .. m |-> CASE i = d.pos + 1 -> chunk
                                [] i \in DOMAIN data \ {d.pos + 1} -> data[i]
                                [] OTHER -> Hole]
    BY <1>5 DEF Put, m
  <2>2. Hole \in Chunk
    BY DEF Chunk
  <2>3. Put(data, d, chunk) \in [1 .. m -> Chunk]
    BY <1>1, <2>1, <2>2
  <2>4. QED
    BY <1>3, <2>3, SeqDef
<1>6. QED
  BY <1>4, <1>5

\* The next chunk of a version, where its beginning ends.
LEMMA PutStarts ==
  ASSUME NEW data \in Seq(Chunk), NEW d \in Downloads, NEW v \in 1 .. Versions,
         Starts(data, v), Len(data) < Length, ~d.append => d.pos = Len(data)
  PROVE  LET next == Put(data, d, [version |-> v, place |-> Len(data) + 1])
         IN  Len(next) = Len(data) + 1 /\ Starts(next, v)
<1> DEFINE n == Len(data)
           chunk == [version |-> v, place |-> n + 1]
           next == Put(data, d, chunk)
<1>1. n \in Nat /\ DOMAIN data = 1 .. n /\ n < Length /\ Length \in Nat
  BY LenProperties, ElementOfSeq, LengthAssumption
<1>2. chunk \in Chunk
  <2> HIDE DEF n
  <2>1. n + 1 \in 1 .. Length
    BY <1>1
  <2>2. QED
    BY <2>1 DEF Chunk
<1>3. next \in Seq(Chunk)
  BY <1>2, PutIsFile
<1>4. \A i \in 1 .. n : data[i] = [version |-> v, place |-> i]
  BY DEF Starts
<1>5. Len(next) = n + 1 /\ next[n + 1] = chunk /\ \A i \in 1 .. n : next[i] = data[i]
  <2>1. CASE d.append
    BY <1>1, <1>2, <2>1, AppendProperties, LenProperties DEF Put
  <2>2. CASE ~d.append
    <3>1. d.pos = n
      BY <2>2
    <3>2. next = [i \in 1 .. (IF n > n THEN n ELSE n + 1) |->
                   CASE i = n + 1 -> chunk
                     [] i \in DOMAIN data \ {n + 1} -> data[i]
                     [] OTHER -> Hole]
      BY <2>2, <3>1 DEF Put
    <3> HIDE DEF n, chunk, next
    <3>3. next = [i \in 1 .. n + 1 |-> CASE i = n + 1 -> chunk
                                        [] i \in DOMAIN data \ {n + 1} -> data[i]
                                        [] OTHER -> Hole]
      BY <1>1, <3>2
    <3>4. \A i \in 1 .. n : i \in 1 .. n + 1 /\ i # n + 1
      BY <1>1
    <3>5. n + 1 \in 1 .. n + 1
      BY <1>1
    <3>6. next[n + 1] = chunk /\ \A i \in 1 .. n : next[i] = data[i]
      BY <1>1, <3>3, <3>4, <3>5
    <3>7. Len(next) = n + 1
      BY <1>1, <1>3, <3>3, LenProperties
    <3>8. QED
      BY <3>6, <3>7
  <2>3. QED
    BY <2>1, <2>2
<1> HIDE DEF n, next
<1>6. \A i \in 1 .. n + 1 : next[i] = [version |-> v, place |-> i]
  <2>1. \A i \in 1 .. n + 1 : i \in 1 .. n \/ i = n + 1
    BY <1>1
  <2>2. QED
    BY <1>4, <1>5, <2>1
<1>7. n + 1 <= Length
  BY <1>1
<1>8. QED
  BY <1>5, <1>6, <1>7 DEF Starts, n, next

-----------------------------------------------------------------------------

LEMMA InitIInv == Assumption /\ Init => IInv
<1> SUFFICES ASSUME Init PROVE IInv
  OBVIOUS
<1> USE IdleIsDownload
<1>1. \A t \in Thread : dl[t] = Idle
  BY DEF Init
<1>2. Types
  BY VersionsAssumption, MaxDeathsAssumption DEF Init, Types, File
<1>3. Streams
  BY <1>1 DEF Streams, Idle
<1> HIDE DEF Idle
<1>4. QED
  BY <1>1, <1>2, <1>3 DEF IInv, Solo, AllGrow

\* While t is in a download, only what it does can concern one that is alone.
LEMMA OthersRest ==
  ASSUME IInv, NEW t \in Thread, dl[t].pc # "idle",
         dl'[t].alone = dl[t].alone,
         dl'[t].pc # "idle" /\ dl[t].alone => Grows(t)',
         \A u \in Thread \ {t} :
           /\ dl'[u].pc = dl[u].pc /\ dl'[u].alone = dl[u].alone
           /\ dl[u] = Idle => dl'[u] = Idle
  PROVE  Solo' /\ AllGrow'
<1>1. \A v \in Thread \ {t} : dl[v].pc = "idle" \/ ~dl[v].alone
  <2> SUFFICES ASSUME NEW v \in Thread \ {t}, dl[v].pc # "idle", dl[v].alone PROVE FALSE
    OBVIOUS
  <2>1. dl[t] = Idle
    BY DEF IInv, Solo
  <2>2. QED
    BY <2>1, IdleIsDownload
<1>2. AllGrow'
  <2> HIDE DEF Grows
  <2>1. QED
    BY <1>1 DEF AllGrow
<1>3. Solo'
  BY <1>1 DEF IInv, Solo
<1>4. QED
  BY <1>2, <1>3

LEMMA StatKeeps ==
  ASSUME IInv, NEW t \in Thread, Stat(t)
  PROVE  IInv'
<1>1. /\ dl[t].pc = "idle" /\ UNCHANGED <<server, st, file, deaths>>
      /\ resumeFrom' = IF st = NoFile THEN 0 ELSE Len(st)
      /\ dl' = [u \in Thread |->
                 IF u = t
                   THEN [Idle EXCEPT !.pc = "open", !.alone = AllIdle]
                   ELSE [dl[u] EXCEPT !.alone = dl[u] = Idle]]
  BY DEF Stat
<1>2. dl \in [Thread -> Downloads]
  BY DEF IInv, Types
<1>3. AllIdle \in BOOLEAN /\ \A u \in Thread : (dl[u] = Idle) \in BOOLEAN
  BY DEF AllIdle
<1>4. /\ dl'[t] \in Downloads /\ dl'[t].pc = "open" /\ dl'[t].alone = AllIdle
      /\ dl'[t].out = "gone" /\ dl'[t].pos = 0
  BY <1>1, <1>3, IdleIsDownload DEF Downloads, PCs, Idle
<1>5. \A u \in Thread \ {t} :
        /\ dl'[u] \in Downloads /\ dl'[u] = [dl[u] EXCEPT !.alone = dl[u] = Idle]
        /\ dl'[u].pc = dl[u].pc /\ dl'[u].out = dl[u].out /\ dl'[u].pos = dl[u].pos
        /\ dl'[u].next = dl[u].next /\ (dl'[u].alone <=> dl[u] = Idle)
  BY <1>1, <1>2, <1>3 DEF Downloads
<1>6. \A u \in Thread \ {t} : dl[u] = Idle => dl'[u] = Idle
  <2> SUFFICES ASSUME NEW u \in Thread \ {t}, dl[u] = Idle PROVE dl'[u] = Idle
    OBVIOUS
  <2>1. dl'[u] = [dl[u] EXCEPT !.alone = dl[u] = Idle]
    BY <1>5
  <2>2. dl'[u] = [Idle EXCEPT !.alone = TRUE]
    BY <2>1
  <2>3. QED
    BY <2>2 DEF Idle
<1>7. Types'
  <2>1. resumeFrom' \in Nat
    BY <1>1, LenProperties, ElementOfSeq DEF IInv, Types, File
  <2>2. dl' \in [Thread -> Downloads]
    BY <1>1, <1>4, <1>5
  <2>3. QED
    BY <1>1, <2>1, <2>2 DEF IInv, Types
<1>8. Streams'
  <2> SUFFICES ASSUME NEW u \in Thread
               PROVE  /\ dl'[u].pc = "idle" => dl'[u] = Idle
                      /\ dl'[u].pc # "handle" /\ dl'[u].out = "st" => st \in Seq(Chunk)
                      /\ dl'[u].pc # "handle" /\ dl'[u].out = "file" => file \in Seq(Chunk)
                      /\ dl'[u].pc \in {"open", "option"} => dl'[u].pos = 0
                      /\ dl'[u].pc = "transfer" => dl'[u].pos < dl'[u].next
    BY <1>1 DEF Streams
  <2>1. CASE u = t
    BY <1>4, <2>1
  <2>2. CASE u # t
    <3>1. /\ dl[u].pc = "idle" => dl[u] = Idle
          /\ dl[u].pc # "handle" /\ dl[u].out = "st" => st \in Seq(Chunk)
          /\ dl[u].pc # "handle" /\ dl[u].out = "file" => file \in Seq(Chunk)
          /\ dl[u].pc \in {"open", "option"} => dl[u].pos = 0
          /\ dl[u].pc = "transfer" => dl[u].pos < dl[u].next
      BY DEF IInv, Streams
    <3>2. /\ dl'[u].pc = dl[u].pc /\ dl'[u].out = dl[u].out /\ dl'[u].pos = dl[u].pos
          /\ dl'[u].next = dl[u].next /\ (dl[u] = Idle => dl'[u] = Idle)
      BY <1>5, <1>6, <2>2
    <3>3. QED
      BY <3>1, <3>2
  <2>3. QED
    BY <2>1, <2>2
<1>9. \A u \in Thread \ {t} : dl'[u].pc # "idle" => ~dl'[u].alone
  BY <1>5, IdleIsDownload
<1>10. Solo'
  BY <1>4, <1>6, <1>9 DEF Solo, AllIdle
<1>11. Grows(t)'
  BY <1>1, <1>4 DEF Grows
<1>12. AllGrow'
  <2> HIDE DEF Grows
  <2>1. QED
    BY <1>9, <1>11 DEF AllGrow
<1>13. QED
  BY <1>7, <1>8, <1>10, <1>12 DEF IInv

\* A step that changes one thread's download to another one.
LEMMA OneChanges ==
  ASSUME IInv, NEW t \in Thread, NEW r \in Downloads, dl[t].pc # "idle", r.pc # "idle",
         r.alone = dl[t].alone, dl' = [dl EXCEPT ![t] = r],
         UNCHANGED <<server, deaths>>, resumeFrom' = resumeFrom,
         st' \in File, file' \in File,
         st \in Seq(Chunk) => st' \in Seq(Chunk),
         file \in Seq(Chunk) => file' \in Seq(Chunk),
         r.out = "st" => st' \in Seq(Chunk),
         r.out = "file" => file' \in Seq(Chunk),
         r.pc \in {"open", "option"} => r.pos = 0,
         r.pc = "transfer" => r.pos < r.next,
         r.alone => Grows(t)'
  PROVE  IInv'
<1>1. dl \in [Thread -> Downloads]
  BY DEF IInv, Types
<1>2. dl'[t] = r /\ \A u \in Thread \ {t} : dl'[u] = dl[u]
  BY <1>1
<1>3. Types'
  BY <1>1 DEF IInv, Types
<1>4. Streams'
  BY <1>2 DEF IInv, Streams
<1>5. Solo' /\ AllGrow'
  <2> HIDE DEF Grows
  <2>1. QED
    BY <1>2, OthersRest
<1>6. QED
  BY <1>3, <1>4, <1>5 DEF IInv

LEMMA OpenKeeps ==
  ASSUME Assumption, IInv, NEW t \in Thread, Open(t)
  PROVE  IInv'
<1> DEFINE b == resumeFrom > 0
           r == [[dl[t] EXCEPT !.out = "st", !.append = b] EXCEPT !.pc = "option"]
<1>1. dl[t] \in Downloads /\ st \in File /\ resumeFrom \in Nat
  BY DEF IInv, Types
<1>2. dl[t].pc = "open" /\ dl' = [dl EXCEPT ![t] = r]
  BY DEF Open, Step
<1> b \in BOOLEAN /\ (~b => resumeFrom = 0)
  BY <1>1
<1> HIDE DEF b
<1>3. /\ r \in Downloads /\ r.pc = "option" /\ r.alone = dl[t].alone /\ r.out = "st"
      /\ r.append = b /\ r.pos = dl[t].pos
  BY <1>1 DEF Downloads, PCs
<1>4. dl'[t] = r
  BY <1>2 DEF IInv, Types
<1> HIDE DEF r
<1>5. /\ UNCHANGED <<server, file, resumeFrom, deaths>>
      /\ st' = IF resumeFrom > 0 /\ st # NoFile THEN st ELSE <<>>
  BY DEF Open
<1>6. st' \in Seq(Chunk) /\ st' \in File
  BY <1>1, <1>5 DEF File
<1>7. r.pos = 0
  BY <1>2, <1>3 DEF IInv, Streams
<1>8. ASSUME r.alone PROVE Grows(t)'
  <2>1. resumeFrom = IF st = NoFile THEN 0 ELSE Len(st)
    BY <1>2, <1>3, <1>8 DEF IInv, AllGrow, Grows
  <2>2. Len(st') = resumeFrom
    <3>1. CASE resumeFrom > 0
      BY <1>5, <2>1, <3>1
    <3>2. CASE ~(resumeFrom > 0)
      BY <1>1, <1>5, <3>2
    <3>3. QED
      BY <3>1, <3>2
  <2>3. ~r.append => resumeFrom = 0
    BY <1>1, <1>3
  <2>4. QED
    BY <1>3, <1>4, <1>5, <2>2, <2>3 DEF Grows
<1>9. file' \in File
  BY <1>5 DEF IInv, Types
<1>10. QED
  BY <1>2, <1>3, <1>5, <1>6, <1>7, <1>8, <1>9, OneChanges

LEMMA OptionKeeps ==
  ASSUME Assumption, IInv, NEW t \in Thread, Option(t)
  PROVE  IInv'
<1> DEFINE r == [[dl[t] EXCEPT !.next = resumeFrom + 1, !.version = server, !.sound = Begins]
                 EXCEPT !.pc = "transfer"]
<1>1. /\ dl[t] \in Downloads /\ st \in File /\ file \in File /\ resumeFrom \in Nat
      /\ server \in 1 .. Versions
  BY DEF IInv, Types
<1>2. dl[t].pc = "option" /\ dl' = [dl EXCEPT ![t] = r]
  BY DEF Option, Step
<1>3. resumeFrom + 1 \in Nat \ {0} /\ Begins \in BOOLEAN
  BY <1>1 DEF Begins, IsPrefix
<1>4. /\ r \in Downloads /\ r.pc = "transfer" /\ r.alone = dl[t].alone /\ r.out = dl[t].out
      /\ r.append = dl[t].append /\ r.pos = dl[t].pos /\ r.next = resumeFrom + 1
      /\ r.version = server /\ r.sound = Begins
  BY <1>1, <1>3 DEF Downloads, PCs
<1>5. dl'[t] = r
  BY <1>2 DEF IInv, Types
<1> HIDE DEF r
<1>6. UNCHANGED <<server, st, file, resumeFrom, deaths>>
  BY DEF Option
<1>7. r.pos = 0 /\ (r.out = "st" => st \in Seq(Chunk)) /\ (r.out = "file" => file \in Seq(Chunk))
  BY <1>2, <1>4 DEF IInv, Streams
<1>8. ASSUME r.alone PROVE Grows(t)'
  <2>1. dl[t].out = "st" /\ Len(st) = resumeFrom /\ (~dl[t].append => resumeFrom = 0)
    BY <1>2, <1>4, <1>8 DEF IInv, AllGrow, Grows
  <2>2. Begins => Starts(st, server)
    BY <1>1, <1>4, <1>7, <2>1, PrefixStarts DEF Begins
  <2>3. QED
    BY <1>4, <1>5, <1>6, <1>7, <2>1, <2>2 DEF Grows
<1>9. r.pos < r.next
  BY <1>1, <1>4, <1>7
<1>10. QED
  BY <1>1, <1>2, <1>4, <1>6, <1>7, <1>8, <1>9, OneChanges

\* A chunk is written to what the thread has open.
LEMMA WriteIsFile ==
  ASSUME IInv, NEW t \in Thread, dl[t].pc = "transfer", NEW chunk \in Chunk, Write(t, chunk)
  PROVE  /\ st' \in File /\ file' \in File
         /\ st \in Seq(Chunk) => st' \in Seq(Chunk)
         /\ file \in Seq(Chunk) => file' \in Seq(Chunk)
         /\ dl[t].out = "st" => st' \in Seq(Chunk) /\ st' = Put(st, dl[t], chunk)
         /\ dl[t].out = "file" => file' \in Seq(Chunk)
<1>1. dl[t] \in Downloads /\ st \in File /\ file \in File
  BY DEF IInv, Types
<1>2. (dl[t].out = "st" => st \in Seq(Chunk)) /\ (dl[t].out = "file" => file \in Seq(Chunk))
  BY DEF IInv, Streams
<1>3. dl[t].out = "st" => Put(st, dl[t], chunk) \in Seq(Chunk)
  BY <1>1, <1>2, PutIsFile
<1>4. dl[t].out = "file" => Put(file, dl[t], chunk) \in Seq(Chunk)
  BY <1>1, <1>2, PutIsFile
<1>5. QED
  BY <1>1, <1>3, <1>4 DEF Write, File

LEMMA ReceiveKeeps ==
  ASSUME Assumption, IInv, NEW t \in Thread, Receive(t)
  PROVE  IInv'
<1> DEFINE r == [[dl[t] EXCEPT !.next = @ + 1, !.pos = @ + 1] EXCEPT !.pc = "transfer"]
           v == dl[t].version
           i == dl[t].next
           chunk == Content(v)[i]
<1>1. dl[t] \in Downloads
  BY DEF IInv, Types
<1>2. /\ dl[t].pc = "transfer" /\ dl' = [dl EXCEPT ![t] = r] /\ i <= Length
      /\ Write(t, chunk) /\ UNCHANGED <<server, resumeFrom, deaths>>
  BY DEF Receive, Step
<1>3. /\ v \in 1 .. Versions /\ i \in Nat \ {0} /\ dl[t].pos \in 0 .. Length /\ Length \in Nat
      /\ dl[t].pos < i
  BY <1>1, <1>2, LengthAssumption DEF Downloads, IInv, Streams
<1>4. i + 1 \in Nat \ {0} /\ dl[t].pos + 1 \in 0 .. Length /\ dl[t].pos + 1 < i + 1
  BY <1>2, <1>3
<1>5. /\ r \in Downloads /\ r.pc = "transfer" /\ r.alone = dl[t].alone /\ r.out = dl[t].out
      /\ r.append = dl[t].append /\ r.pos = dl[t].pos + 1 /\ r.next = i + 1
      /\ r.version = v /\ r.sound = dl[t].sound
  BY <1>1, <1>4 DEF Downloads, PCs
<1>6. dl'[t] = r
  BY <1>2 DEF IInv, Types
<1> HIDE DEF r
<1>7. i \in 1 .. Length
  BY <1>2, <1>3
<1>8. chunk \in Chunk /\ chunk = [version |-> v, place |-> i]
  BY <1>3, <1>7, ContentIsFile
<1> HIDE DEF chunk
<1>9. /\ st' \in File /\ file' \in File
      /\ st \in Seq(Chunk) => st' \in Seq(Chunk)
      /\ file \in Seq(Chunk) => file' \in Seq(Chunk)
      /\ dl[t].out = "st" => st' \in Seq(Chunk) /\ st' = Put(st, dl[t], chunk)
      /\ dl[t].out = "file" => file' \in Seq(Chunk)
  BY <1>2, <1>8, WriteIsFile
<1>10. ASSUME r.alone PROVE Grows(t)'
  <2> SUFFICES ASSUME r.sound
               PROVE  /\ r.out = "st" /\ Len(st') + 1 = r.next
                      /\ Starts(st', r.version)
                      /\ ~r.append => r.pos = Len(st')
    BY <1>5, <1>6 DEF Grows, Starts
  <2>1. /\ dl[t].out = "st" /\ Len(st) + 1 = i /\ Starts(st, v)
        /\ ~dl[t].append => dl[t].pos = Len(st)
    BY <1>2, <1>5, <1>10 DEF IInv, AllGrow, Grows
  <2>2. st \in Seq(Chunk) /\ Len(st) \in Nat
    BY <1>2, <2>1, LenProperties, ElementOfSeq DEF IInv, Streams
  <2>3. Len(st) < Length
    BY <1>2, <2>1, <2>2, LengthAssumption
  <2>4. chunk = [version |-> v, place |-> Len(st) + 1]
    BY <1>8, <2>1
  <2>5. Len(st') = Len(st) + 1 /\ Starts(st', v)
    BY <1>1, <1>3, <1>9, <2>1, <2>2, <2>3, <2>4, PutStarts
  <2>6. QED
    BY <1>5, <2>1, <2>5
<1>11. r.pos < r.next
  BY <1>4, <1>5
<1>12. QED
  BY <1>2, <1>5, <1>9, <1>10, <1>11, OneChanges

LEMMA TransferEndsKeeps ==
  ASSUME Assumption, IInv, NEW t \in Thread,
         Received(t) \/ Fail(t) \/ \E res \in {"404", "page"} : ErrorPage(t, res)
  PROVE  IInv'
<1>1. dl[t] \in Downloads /\ st \in File /\ file \in File /\ dl[t].pc = "transfer"
  BY DEF IInv, Types, Received, Fail, ErrorPage, Step
<1>2. ASSUME NEW res \in {"ok", "error", "404", "page"},
             dl' = [dl EXCEPT ![t] = [[dl[t] EXCEPT !.res = res] EXCEPT !.pc = "rename"]],
             UNCHANGED <<server, resumeFrom, deaths>>,
             st' \in File, file' \in File,
             st \in Seq(Chunk) => st' \in Seq(Chunk),
             file \in Seq(Chunk) => file' \in Seq(Chunk),
             res = "ok" => UNCHANGED <<st, file>> /\ dl[t].next > Length
      PROVE  IInv'
  <2> DEFINE r == [[dl[t] EXCEPT !.res = res] EXCEPT !.pc = "rename"]
  <2>1. dl' = [dl EXCEPT ![t] = r]
    BY <1>2
  <2>2. /\ r \in Downloads /\ r.pc = "rename" /\ r.alone = dl[t].alone /\ r.out = dl[t].out
        /\ r.version = dl[t].version /\ r.res = res /\ r.sound = dl[t].sound
    BY <1>1 DEF Downloads, PCs
  <2>3. dl'[t] = r
    BY <2>1 DEF IInv, Types
  <2> HIDE DEF r
  <2>4. (r.out = "st" => st' \in Seq(Chunk)) /\ (r.out = "file" => file' \in Seq(Chunk))
    BY <1>1, <1>2, <2>2 DEF IInv, Streams
  <2>5. ASSUME r.alone PROVE Grows(t)'
    <3> SUFFICES ASSUME res = "ok", r.sound PROVE st' = Content(r.version)
      BY <2>2, <2>3 DEF Grows, Content
    <3>1. /\ dl[t].out = "st" /\ Len(st) + 1 = dl[t].next /\ Starts(st, dl[t].version)
      BY <1>1, <2>2, <2>5 DEF IInv, AllGrow, Grows
    <3>2. st \in Seq(Chunk) /\ Len(st) \in Nat /\ dl[t].version \in 1 .. Versions
      BY <1>1, <3>1, LenProperties, ElementOfSeq DEF IInv, Streams, Downloads
    <3>3. Len(st) <= Length
      BY <3>1 DEF Starts
    <3>4. Len(st) = Length
      BY <1>2, <3>1, <3>2, <3>3, LengthAssumption
    <3>5. QED
      BY <1>2, <2>2, <3>1, <3>2, <3>4, WholeIsContent
  <2>6. QED
    BY <1>1, <1>2, <2>1, <2>2, <2>4, <2>5, OneChanges
<1>3. CASE Received(t)
  BY <1>1, <1>2, <1>3 DEF Received, Step
<1>4. CASE Fail(t)
  BY <1>1, <1>2, <1>4 DEF Fail, Step
<1>5. ASSUME NEW res \in {"404", "page"}, ErrorPage(t, res) PROVE IInv'
  <2>1. Page \in Chunk
    BY DEF Chunk
  <2>2. /\ st' \in File /\ file' \in File
        /\ st \in Seq(Chunk) => st' \in Seq(Chunk)
        /\ file \in Seq(Chunk) => file' \in Seq(Chunk)
    BY <1>1, <1>5, <2>1, WriteIsFile DEF ErrorPage
  <2>3. QED
    BY <1>2, <1>5, <2>2 DEF ErrorPage, Step
<1>6. QED
  BY <1>3, <1>4, <1>5

\* What is renamed is complete if the one who renames it says so.
LEMMA RenameKeeps ==
  ASSUME Assumption, IInv, NEW t \in Thread, Rename(t)
  PROVE  IInv'
<1>1. /\ dl \in [Thread -> Downloads] /\ st \in File /\ file \in File
      /\ UNCHANGED <<server, resumeFrom, deaths>> /\ dl[t].pc = "rename"
  BY DEF IInv, Types, Rename
<1>2. \A u \in Thread : dl[u].pc = "idle" => dl[u] = Idle
  BY DEF IInv, Streams
<1>3. /\ dl'[t] \in Downloads /\ dl'[t].pc = "handle" /\ dl'[t].alone = dl[t].alone
      /\ dl'[t].res = dl[t].res /\ dl'[t].sound = dl[t].sound /\ dl'[t].version = dl[t].version
  <2>1. dl'[t] = [dl[t] EXCEPT !.pc = "handle"]
    BY <1>1 DEF Rename
  <2>2. QED
    BY <1>1, <2>1 DEF Downloads, PCs
<1>4. \/ st = NoFile /\ UNCHANGED <<st, file>>
      \/ st # NoFile /\ st \in Seq(Chunk) /\ file' = st /\ st' = NoFile
  BY <1>1 DEF Rename, File
<1>5. \A u \in Thread \ {t} :
        \/ st = NoFile /\ dl'[u] = dl[u]
        \/ st # NoFile /\ dl'[u] = [dl[u] EXCEPT !.out = IF @ = "st" THEN "file" ELSE "gone"]
  BY <1>1 DEF Rename
<1>6. ASSUME NEW u \in Thread \ {t}
      PROVE  /\ dl'[u] \in Downloads /\ dl'[u].pc = dl[u].pc /\ dl'[u].alone = dl[u].alone
             /\ dl'[u].pos = dl[u].pos /\ dl'[u].next = dl[u].next
             /\ st = NoFile => dl'[u].out = dl[u].out
             /\ st # NoFile => dl'[u].out = IF dl[u].out = "st" THEN "file" ELSE "gone"
  <2> DEFINE o == IF dl[u].out = "st" THEN "file" ELSE "gone"
  <2>1. CASE st = NoFile
    BY <1>1, <1>5, <2>1
  <2>2. CASE st # NoFile
    <3>1. dl'[u] = [dl[u] EXCEPT !.out = o] /\ o \in {"file", "gone"}
      BY <1>5, <2>2
    <3> HIDE DEF o
    <3>2. /\ dl'[u] \in Downloads /\ dl'[u].pc = dl[u].pc /\ dl'[u].alone = dl[u].alone
          /\ dl'[u].pos = dl[u].pos /\ dl'[u].next = dl[u].next /\ dl'[u].out = o
      BY <1>1, <3>1 DEF Downloads
    <3>3. QED
      BY <2>2, <3>2 DEF o
  <2>3. QED
    BY <2>1, <2>2
<1>7. ASSUME NEW u \in Thread \ {t}, dl[u] = Idle PROVE dl'[u] = Idle
  <2>1. CASE dl'[u] = dl[u]
    BY <1>7, <2>1
  <2>2. CASE dl'[u] = [dl[u] EXCEPT !.out = IF @ = "st" THEN "file" ELSE "gone"]
    <3>1. Idle.out = "gone"
      BY DEF Idle
    <3>2. dl'[u] = [Idle EXCEPT !.out = "gone"]
      BY <1>7, <2>2, <3>1
    <3>3. QED
      BY <3>2 DEF Idle
  <2>3. QED
    BY <1>5, <2>1, <2>2
<1>8. Types'
  <2>1. dl' \in [Thread -> Downloads]
    <3>1. DOMAIN dl' = Thread /\ dl' = [u \in Thread |-> dl'[u]]
      BY <1>1 DEF Rename
    <3>2. \A u \in Thread : dl'[u] \in Downloads
      BY <1>3, <1>6
    <3>3. QED
      BY <3>1, <3>2
  <2>2. QED
    BY <1>1, <1>4, <2>1 DEF IInv, Types, File
<1>9. Streams'
  <2> SUFFICES ASSUME NEW u \in Thread \ {t}
               PROVE  /\ dl'[u].pc = "idle" => dl'[u] = Idle
                      /\ dl'[u].pc # "handle" /\ dl'[u].out = "st" => st' \in Seq(Chunk)
                      /\ dl'[u].pc # "handle" /\ dl'[u].out = "file" => file' \in Seq(Chunk)
                      /\ dl'[u].pc \in {"open", "option"} => dl'[u].pos = 0
                      /\ dl'[u].pc = "transfer" => dl'[u].pos < dl'[u].next
    BY <1>3 DEF Streams
  <2>1. /\ dl[u].pc # "handle" /\ dl[u].out = "st" => st \in Seq(Chunk)
        /\ dl[u].pc # "handle" /\ dl[u].out = "file" => file \in Seq(Chunk)
        /\ dl[u].pc \in {"open", "option"} => dl[u].pos = 0
        /\ dl[u].pc = "transfer" => dl[u].pos < dl[u].next
    BY DEF IInv, Streams
  <2>2. QED
    BY <1>2, <1>4, <1>6, <1>7, <2>1
<1>10. ASSUME dl[t].alone PROVE Grows(t)'
  <2> SUFFICES ASSUME dl[t].res = "ok", dl[t].sound PROVE file' = Content(dl[t].version)
    BY <1>3 DEF Grows, Content
  <2>1. st = Content(dl[t].version)
    BY <1>1, <1>10 DEF IInv, AllGrow, Grows
  <2>2. st \in Seq(Chunk)
    BY <1>1, <2>1, ContentIsFile DEF Downloads
  <2>3. QED
    BY <1>4, <2>1, <2>2 DEF Assumption
<1>11. Solo' /\ AllGrow'
  <2> HIDE DEF Grows
  <2>1. QED
    BY <1>1, <1>3, <1>6, <1>7, <1>10, OthersRest
<1>12. QED
  BY <1>8, <1>9, <1>11 DEF IInv

LEMMA HandleKeeps ==
  ASSUME Assumption, IInv, NEW t \in Thread, Handle(t)
  PROVE  IInv'
<1>1. /\ dl \in [Thread -> Downloads] /\ dl[t].pc = "handle" /\ dl' = [dl EXCEPT ![t] = Idle]
      /\ UNCHANGED <<server, st, file, resumeFrom, deaths>>
  BY DEF IInv, Types, Handle
<1> USE IdleIsDownload
<1>2. Types'
  BY <1>1 DEF IInv, Types
<1>3. Streams'
  <2>1. Idle.out = "gone"
    BY DEF Idle
  <2> HIDE DEF Idle
  <2>2. QED
    BY <1>1, <2>1 DEF IInv, Streams
<1>4. \A u \in Thread \ {t} : dl'[u] = dl[u] /\ (dl[u].pc = "idle" \/ ~dl[u].alone)
  BY <1>1 DEF IInv, Solo
<1>5. dl'[t].pc = "idle" /\ dl'[t] = Idle
  BY <1>1
<1>6. Solo' /\ AllGrow'
  BY <1>4, <1>5 DEF Solo, AllGrow
<1>7. QED
  BY <1>2, <1>3, <1>6 DEF IInv

LEMMA DieKeeps ==
  ASSUME Assumption, IInv, Die
  PROVE  IInv'
<1>1. /\ \A t \in Thread : dl'[t] = Idle
      /\ UNCHANGED <<server, st, file>>
  BY DEF Die
<1> USE IdleIsDownload
<1>2. Types'
  BY MaxDeathsAssumption DEF Die, IInv, Types
<1>3. Streams'
  <2>1. Idle.out = "gone"
    BY DEF Idle
  <2> HIDE DEF Idle
  <2>2. QED
    BY <1>1, <2>1 DEF Streams
<1>4. QED
  BY <1>1, <1>2, <1>3 DEF IInv, Solo, AllGrow

LEMMA PublishKeeps ==
  ASSUME Assumption, IInv, Publish
  PROVE  IInv'
<1>1. server' = server + 1 /\ server < Versions /\ UNCHANGED <<st, file, resumeFrom, dl, deaths>>
  BY DEF Publish
<1>2. Types'
  BY <1>1, VersionsAssumption DEF IInv, Types
<1>3. QED
  BY <1>1, <1>2 DEF IInv, Streams, Solo, AllGrow, Grows, Starts, Content

LEMMA StepIInv == Assumption /\ IInv /\ [Next]_vars => IInv'
<1> SUFFICES ASSUME Assumption, IInv, [Next]_vars PROVE IInv'
  OBVIOUS
<1>1. CASE UNCHANGED vars
  BY <1>1 DEF vars, IInv, Types, Streams, Solo, AllGrow, Grows, Starts, Content
<1>2. QED
  BY <1>1, StatKeeps, OpenKeeps, OptionKeeps, ReceiveKeeps, TransferEndsKeeps, RenameKeeps,
     HandleKeeps, DieKeeps, PublishKeeps DEF Next

LEMMA IInvDownload == IInv => DownloadInv
  BY DEF IInv, Types, Downloads, PCs, AllGrow, Grows, DownloadInv, TypeOK, UndisturbedIsComplete

\* A download that was alone and says that all is well has left the version it
\* asked for, whatever was resumed, for any length of the file.
THEOREM DownloadsComplete ==
  ASSUME Assumption
  PROVE  Spec => []DownloadInv
<1>1. Init => IInv
  BY InitIInv
<1>2. IInv /\ [Next]_vars => IInv'
  BY StepIInv
<1>3. QED
  BY <1>1, <1>2, IInvDownload, PTL DEF Spec

\* The last download that ends leaves no .st, for any number of threads.
THEOREM NoStIsLeft ==
  ASSUME Assumption
  PROVE  Spec => LeavesNoSt
<1>1. Init => IInv /\ Owned
  BY InitIInv, InitOwned
<1>2. IInv /\ Owned /\ [Next]_vars => (IInv /\ Owned)'
  BY StepIInv, StepOwned DEF IInv, Types
<1>3. IInv /\ Owned /\ [Next]_vars => [~AllIdle /\ AllIdle' /\ ~Die => st' = NoFile]_vars
  <2> SUFFICES ASSUME IInv, Owned, Next, ~AllIdle, AllIdle', ~Die PROVE st' = NoFile
    OBVIOUS
  <2>1. \A t \in Thread : dl'[t].pc = "idle"
    BY IdleIsDownload DEF AllIdle
  <2>2. dl \in [Thread -> Downloads]
    BY DEF IInv, Types
  <2>3. PICK t \in Thread : Handle(t)
    <3>1. \A t \in Thread : dl'[t].pc \notin BeforeRename
      BY <2>1 DEF BeforeRename
    <3>2. \A t \in Thread : ~Rename(t)
      BY <2>1, <2>2 DEF Rename, Downloads
    <3>3. ~Publish
      BY DEF Publish, AllIdle
    <3>4. QED
      BY <2>2, <3>1, <3>2, <3>3, GoesOn DEF Next
  <2>4. QED
    BY <2>1, <2>2, <2>3 DEF Owned, Handle, BeforeRename
<1>4. QED
  BY <1>1, <1>2, <1>3, PTL DEF Spec, LeavesNoSt
=============================================================================
