------------------------------- MODULE Download -------------------------------
(***************************************************************************)
(* The downloader (src/download.cpp): download_routine() fetches a URL     *)
(* into <file>.st and renames that to <file>.  A .st that is already there *)
(* is resumed.  How much of it there is, resume_from, is a static of the   *)
(* process, and the mutex belongs to the single download, so a worker's    *)
(* checkDB() and the one NetworkManager's signal runs on the main loop can *)
(* download the same package list at the same time.                        *)
(*                                                                         *)
(* One URL and its file are modelled.  Contents are sequences of chunks; a *)
(* chunk knows the version of the file it comes from and its place in it.  *)
(* Threads that have the same .st open write into the same file, whatever  *)
(* it has been renamed to.                                                 *)
(***************************************************************************)
EXTENDS Naturals, Sequences, SequencesExt

CONSTANTS
  Thread,     \* threads that download
  Length,     \* chunks of a version of the file
  Versions,   \* versions the server goes through
  NoFile,     \* no such file
  MayFail,    \* whether transfers can fail or bring an error page
  MaxDeaths   \* a bound on the deaths of the process

ASSUME LengthAssumption == Length \in Nat \ {0}
ASSUME VersionsAssumption == Versions \in Nat \ {0}
ASSUME MaxDeathsAssumption == MaxDeaths \in Nat
ASSUME MayFailAssumption == MayFail \in BOOLEAN

VARIABLES
  server,     \* the version the server has
  st, file,   \* <file>.st and <file>
  resumeFrom, \* resume_from
  dl,         \* the download each thread is in
  deaths

vars == <<server, st, file, resumeFrom, dl, deaths>>

Content(v) == [i \in 1 .. Length |-> [version |-> v, place |-> i]]
Page == [version |-> 0, place |-> 0]     \* the body of an error page
Hole == [version |-> 0, place |-> 1]     \* what was never written reads as zeros
Chunk == [version : 1 .. Versions, place : 1 .. Length] \cup {Page, Hole}

\* sound and alone record that what the download goes on with is the beginning
\* of the version it asks for, or nothing, and that no other one ran before its
\* end.
Idle == [pc |-> "idle", out |-> "gone", append |-> FALSE, pos |-> 0, next |-> 1,
         version |-> 1, res |-> "none", sound |-> FALSE, alone |-> TRUE]

AllIdle == \A t \in Thread : dl[t] = Idle

-----------------------------------------------------------------------------

Init ==
  /\ server = 1
  /\ st = NoFile /\ file = NoFile
  /\ resumeFrom = 0
  /\ dl = [t \in Thread |-> Idle]
  /\ deaths = 0

Step(t, from, to, rec) ==
  /\ dl[t].pc = from
  /\ dl' = [dl EXCEPT ![t] = [rec EXCEPT !.pc = to]]

\* stat() of the .st.
Stat(t) ==
  /\ dl[t].pc = "idle"
  /\ resumeFrom' = IF st = NoFile THEN 0 ELSE Len(st)
  /\ dl' = [u \in Thread |->
             IF u = t
               THEN [Idle EXCEPT !.pc = "open", !.alone = AllIdle]
               ELSE [dl[u] EXCEPT !.alone = dl[u] = Idle]]
  /\ UNCHANGED <<server, st, file, deaths>>

\* fopen() for appending or, which empties the file, for writing.
Open(t) ==
  /\ Step(t, "open", "option", [dl[t] EXCEPT !.out = "st", !.append = resumeFrom > 0])
  /\ st' = IF resumeFrom > 0 /\ st # NoFile THEN st ELSE <<>>
  /\ UNCHANGED <<server, file, resumeFrom, deaths>>

Begins == st # NoFile /\ IsPrefix(st, Content(server))

\* Mutant: the range begins one chunk late.
Option_OffByOne(t) ==
  /\ Step(t, "option", "transfer",
          [dl[t] EXCEPT !.next = IF resumeFrom > 0 THEN resumeFrom + 2 ELSE 1,
                        !.version = server, !.sound = Begins])
  /\ UNCHANGED <<server, st, file, resumeFrom, deaths>>

\* CURLOPT_RESUME_FROM_LARGE, read from the static once more, and the request.
Option(t) ==
  /\ Step(t, "option", "transfer",
          [dl[t] EXCEPT !.next = resumeFrom + 1, !.version = server,
                        !.sound = Begins])
  /\ UNCHANGED <<server, st, file, resumeFrom, deaths>>

\* fwrite() of a chunk, at the end or at the stream's own position.
Put(data, d, chunk) ==
  IF d.append THEN Append(data, chunk)
  ELSE [i \in 1 .. (IF Len(data) > d.pos THEN Len(data) ELSE d.pos + 1) |->
         CASE i = d.pos + 1  -> chunk
           [] i \in DOMAIN data \ {d.pos + 1} -> data[i]
           [] OTHER          -> Hole]

Write(t, chunk) ==
  /\ st' = IF dl[t].out = "st" THEN Put(st, dl[t], chunk) ELSE st
  /\ file' = IF dl[t].out = "file" THEN Put(file, dl[t], chunk) ELSE file

Receive(t) ==
  /\ dl[t].next <= Length
  /\ Step(t, "transfer", "transfer",
          [dl[t] EXCEPT !.next = @ + 1, !.pos = @ + 1])
  /\ Write(t, Content(dl[t].version)[dl[t].next])
  /\ UNCHANGED <<server, resumeFrom, deaths>>

\* All has been received.
Received(t) ==
  /\ dl[t].next > Length
  /\ Step(t, "transfer", "rename", [dl[t] EXCEPT !.res = "ok"])
  /\ UNCHANGED <<server, st, file, resumeFrom, deaths>>

\* curl gives up: the connection breaks, or there is nothing left to resume.
Fail(t) ==
  /\ MayFail
  /\ Step(t, "transfer", "rename", [dl[t] EXCEPT !.res = "error"])
  /\ UNCHANGED <<server, st, file, resumeFrom, deaths>>

\* The server answers with an error page, which curl takes for the file.  404
\* alone is looked for in the headers.
ErrorPage(t, res) ==
  /\ MayFail
  /\ dl[t].pos = 0
  /\ Step(t, "transfer", "rename", [dl[t] EXCEPT !.res = res])
  /\ Write(t, Page)
  /\ UNCHANGED <<server, resumeFrom, deaths>>

\* Mutant: what an error has left is not renamed.
Rename_OnlyComplete(t) ==
  /\ Step(t, "rename", "handle", dl[t])
  /\ IF dl[t].res = "ok" /\ st # NoFile
       THEN st' = NoFile /\ file' = st
       ELSE UNCHANGED <<st, file>>
  /\ UNCHANGED <<server, resumeFrom, deaths>>

\* rename(), whatever the transfer's result; whoever else has the .st open now
\* writes to the file, and who wrote to the replaced file writes to nowhere.
Rename(t) ==
  /\ dl[t].pc = "rename"
  /\ IF st = NoFile
       THEN /\ UNCHANGED <<st, file>>
            /\ dl' = [dl EXCEPT ![t].pc = "handle"]
       ELSE /\ file' = st
            /\ st' = NoFile
            /\ dl' = [u \in Thread |->
                       IF u = t THEN [dl[u] EXCEPT !.pc = "handle"]
                       ELSE [dl[u] EXCEPT !.out = IF @ = "st" THEN "file" ELSE "gone"]]
  /\ UNCHANGED <<server, resumeFrom, deaths>>

\* The handler is run, unless the server has answered 404; an error does not
\* stop it.
Handle(t) ==
  /\ dl[t].pc = "handle"
  /\ dl' = [dl EXCEPT ![t] = Idle]
  /\ UNCHANGED <<server, st, file, resumeFrom, deaths>>

\* The process exits or is killed; what is on disk stays.
Die ==
  /\ deaths < MaxDeaths
  /\ ~AllIdle
  /\ deaths' = deaths + 1
  /\ dl' = [t \in Thread |-> Idle]
  /\ resumeFrom' = 0
  /\ UNCHANGED <<server, st, file>>

\* The repository publishes another version under the same URL.
Publish ==
  /\ server < Versions
  /\ server' = server + 1
  /\ UNCHANGED <<st, file, resumeFrom, dl, deaths>>

Next ==
  \/ \E t \in Thread :
       \/ Stat(t) \/ Open(t) \/ Option(t)
       \/ Receive(t) \/ Received(t) \/ Fail(t)
       \/ \E res \in {"404", "page"} : ErrorPage(t, res)
       \/ Rename(t) \/ Handle(t)
  \/ Die \/ Publish

Spec == Init /\ [][Next]_vars

-----------------------------------------------------------------------------

File == {NoFile} \cup Seq(Chunk)

TypeOK ==
  /\ server \in 1 .. Versions
  /\ st \in File /\ file \in File
  /\ resumeFrom \in Nat /\ deaths \in 0 .. MaxDeaths
  /\ dl \in [Thread ->
       [pc : {"idle", "open", "option", "transfer", "rename", "handle"},
        out : {"st", "file", "gone"}, append : BOOLEAN, pos : 0 .. Length,
        next : Nat \ {0}, version : 1 .. Versions,
        res : {"none", "ok", "error", "404", "page"}, sound : BOOLEAN, alone : BOOLEAN]]

\* A download that no other one overlapped and that ended without an error has
\* left the file the server had, whatever was downloaded, broken off or
\* published before, unless what it resumed was of another version or a page:
\* so it is also when the .st of a process that died is resumed, and again.
UndisturbedIsComplete ==
  \A t \in Thread :
    dl[t].pc = "handle" /\ dl[t].res = "ok" /\ dl[t].sound /\ dl[t].alone =>
      file = Content(dl[t].version)

\* The file is right when its download says so.
DownloadInv == TypeOK /\ UndisturbedIsComplete

\* Downloads that end leave no .st, whatever their results and interleavings:
\* only a death leaves one, so a broken download is repaired by the next.
LeavesNoSt ==
  [][~AllIdle /\ AllIdle' /\ ~Die => st' = NoFile]_vars
=============================================================================
