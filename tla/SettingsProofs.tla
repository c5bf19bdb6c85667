---------------------------- MODULE SettingsProofs ----------------------------
(***************************************************************************)
(* What is handed to rpm is there and is complete, for any directories,    *)
(* files and settings, and however often the setting, the weeks and the    *)
(* process change.                                                         *)
(*                                                                         *)
(* The argument: the cleaning and the installation hold the mutex (Mutex), *)
(* so nothing but the job's own end removes what it has handed over; the   *)
(* path is whole whenever it is copied to the file (Whole); and the list   *)
(* follows the files until the job gives up (Follows).                     *)
(***************************************************************************)
EXTENDS Settings, Tables, Integers, SequencesExt, SequenceTheorems, TLAPS

Paths == Dirs \cup {Blank}
PathModes == [path : Paths \cup {Torn}, mode : 1 .. 3]
SetterPCs == {"idle", "path", "mode", "open", "write"}
Setters == [pc : SetterPCs, path : Paths, mode : 1 .. 3]
JobPCs == {"idle", "each", "rpm", "end"}
Kinds == {"none", "install", "upgrade"}
JobTypes == [kind : Kinds, pc : JobPCs, at : Nat, argv : Seq(Entry), done : BOOLEAN]
Cleaners == [pc : {"idle", "each"}, names : SUBSET File]
States == {"none", "bad", "fresh", "old"}

Types ==
  /\ g_rpmPathMode \in PathModes
  /\ setting \in Setting \cup {Unset, Short}
  /\ answer \in Setting \cup {Unset}
  /\ setter \in Setters
  /\ dirs \subseteq Dirs
  /\ disk \in [Dirs -> [File -> States]]
  /\ lock \in {"free", "job", "cleaner"}
  /\ job \in JobTypes
  /\ cleaner \in Cleaners
  /\ changed \in BOOLEAN

\* What a worker does to files it does under the mutex.
Mutex ==
  /\ job.pc # "idle" => lock = "job"
  /\ cleaner.pc = "each" => lock = "cleaner"
  /\ cleaner.names # {} => cleaner.pc = "each"
  /\ job.pc = "idle" => job = NoJob

\* The path is a mixture only while it is being written.
Whole == setter.pc # "path" => g_rpmPathMode.path \in Paths

\* The list holds the files up to the one that is looked at, unless the job
\* has given up.
Follows ==
  /\ job.pc = "each" =>
       /\ job.at \in 1 .. Len(Files) + 1
       /\ Len(job.argv) < job.at
       /\ \A i \in 1 .. Len(job.argv) : job.argv[i].file = Files[i]
       /\ \/ Len(job.argv) = job.at - 1
          \/ ~job.done /\ job.at = Len(Files) + 1
  /\ job.pc = "rpm" =>
       /\ Len(job.argv) = Len(Files)
       /\ \A i \in 1 .. Len(Files) : job.argv[i].file = Files[i]

Stay ==
  job.kind = "install" /\ job.pc \in {"each", "rpm"} =>
    \A i \in 1 .. Len(job.argv) : isFileExist(job.argv[i])

Together ==
  job.pc \in {"each", "rpm"} /\ ~changed =>
    \A i \in 1 .. Len(job.argv) : job.argv[i].dir = FilePath(g_rpmPathMode.path)

IInv == Types /\ Mutex /\ Whole /\ Follows /\ Stay /\ Together

\* The assumptions on the constants: the files are a sequence, and there is a
\* difference between a setting and none.
Assumptions ==
  /\ ConstantsOK
  /\ Files \in Seq(File)
  /\ Unset \notin Setting /\ Short \notin Setting

-----------------------------------------------------------------------------

LEMMA TheFiles ==
  ASSUME Assumptions
  PROVE  Len(Files) \in Nat /\ DOMAIN Files = 1 .. Len(Files)
  BY LenProperties, ElementOfSeq DEF Assumptions

LEMMA ReadSetting ==
  ASSUME Assumptions, setting \in Setting \cup {Unset, Short}
  PROVE  getRpmPathMode \in [path : Paths, mode : 1 .. 3]
  BY DEF getRpmPathMode, Setting, Paths

LEMMA NoJobIsJob == NoJob \in JobTypes /\ Len(NoJob.argv) = 0
  BY DEF NoJob, JobTypes, Kinds, JobPCs

LEMMA InitIInv == Assumptions /\ Init => IInv
<1> SUFFICES ASSUME Assumptions, Init PROVE IInv
  OBVIOUS
<1>1. setting \in Setting \cup {Unset, Short}
  BY DEF Init
<1>2. g_rpmPathMode \in [path : Paths, mode : 1 .. 3]
  BY <1>1, ReadSetting DEF Init
<1>3. FilePath(getRpmPathMode.path) \in Dirs
  BY <1>2 DEF Init, FilePath, Paths, Assumptions, ConstantsOK
<1>4. Types
  <2>1. setter \in Setters
    BY DEF Init, Setters, SetterPCs, IdleSetter, Paths
  <2>2. disk \in [Dirs -> [File -> States]]
    BY DEF Init, States
  <2>3. job \in JobTypes
    BY NoJobIsJob DEF Init
  <2>4. cleaner \in Cleaners
    BY DEF Init, Cleaners, IdleCleaner
  <2>5. dirs \subseteq Dirs
    BY <1>3 DEF Init, main
  <2>6. g_rpmPathMode \in PathModes
    BY <1>2 DEF PathModes
  <2>7. QED
    BY <1>1, <2>1, <2>2, <2>3, <2>4, <2>5, <2>6 DEF Init, Types
<1>5. Mutex /\ Whole
  BY <1>2 DEF Init, Mutex, Whole, NoJob, IdleCleaner
<1>6. Follows /\ Stay /\ Together
  BY DEF Init, Follows, Stay, Together, NoJob
<1>7. QED
  BY <1>4, <1>5, <1>6 DEF IInv

-----------------------------------------------------------------------------

\* The calls leave the workers and the files alone; what they write to the
\* path makes no list wrong, for it is noted in changed.
LEMMA CallsKeep ==
  ASSUME IInv, UNCHANGED <<dirs, disk, workers>>,
         Types', Whole',
         (UNCHANGED changed /\ g_rpmPathMode'.path = g_rpmPathMode.path) \/ changed'
  PROVE  IInv'
<1>1. UNCHANGED <<dirs, disk, lock, job, cleaner>>
  BY DEF workers
<1>2. Mutex' /\ Follows'
  BY <1>1 DEF IInv, Mutex, Follows
<1>3. Stay'
  BY <1>1 DEF IInv, Stay, isFileExist
<1>4. Together'
  BY <1>1 DEF IInv, Together, FilePath
<1>5. QED
  BY <1>2, <1>3, <1>4 DEF IInv

LEMMA SetPathModeKeeps ==
  ASSUME Assumptions, IInv, NEW s \in Chosen, daemon_set_path_mode(s)
  PROVE  IInv'
<1>1. s \in [path : Paths, mode : 1 .. 3]
  BY DEF Assumptions, ConstantsOK, Paths
<1>2. setter' \in Setters /\ setter'.pc = "path"
  BY <1>1 DEF daemon_set_path_mode, Setters, SetterPCs
<1>3. g_rpmPathMode' \in PathModes
  BY DEF daemon_set_path_mode, IInv, Types, PathModes
<1>4. Types' /\ Whole'
  BY <1>2, <1>3 DEF daemon_set_path_mode, IInv, Types, Whole, workers
<1>5. QED
  BY <1>4, CallsKeep DEF daemon_set_path_mode

LEMMA SetterKeeps ==
  ASSUME Assumptions, IInv, SetPath \/ SetMode \/ OpenSetting \/ WriteSetting
  PROVE  IInv'
<1>1. setter \in Setters /\ g_rpmPathMode \in PathModes
  BY DEF IInv, Types
<1>2. CASE SetPath
  <2>1. setter' \in Setters /\ setter'.pc = "mode"
    BY <1>1, <1>2 DEF SetPath, SetterGoes, Setters, SetterPCs
  <2>2. g_rpmPathMode' \in PathModes /\ g_rpmPathMode'.path \in Paths
    BY <1>1, <1>2 DEF SetPath, PathModes, Setters
  <2>3. Types' /\ Whole'
    BY <1>2, <2>1, <2>2 DEF SetPath, IInv, Types, Whole, workers
  <2>4. QED
    BY <1>2, <2>3, CallsKeep DEF SetPath
<1>3. CASE SetMode
  <2>1. setter' \in Setters /\ setter.pc = "mode" /\ setter'.pc = "open"
    BY <1>1, <1>3 DEF SetMode, SetterGoes, Setters, SetterPCs
  <2>2. g_rpmPathMode' \in PathModes /\ g_rpmPathMode'.path = g_rpmPathMode.path
    BY <1>1, <1>3 DEF SetMode, PathModes, Setters
  <2>3. Types' /\ Whole'
    BY <1>3, <2>1, <2>2 DEF SetMode, IInv, Types, Whole, workers
  <2>4. QED
    BY <1>3, <2>2, <2>3, CallsKeep DEF SetMode
<1>4. CASE OpenSetting
  <2>1. setter' \in Setters /\ setter.pc = "open" /\ UNCHANGED g_rpmPathMode
    BY <1>1, <1>4 DEF OpenSetting, SetterGoes, Setters, SetterPCs
  <2>2. setting' \in Setting \cup {Unset, Short}
    BY <1>4 DEF OpenSetting, IInv, Types
  <2>3. Types' /\ Whole'
    BY <1>4, <2>1, <2>2 DEF OpenSetting, IInv, Types, Whole, workers
  <2>4. QED
    BY <1>4, <2>3, CallsKeep DEF OpenSetting
<1>5. CASE WriteSetting
  <2>1. setter' \in Setters /\ setter.pc = "write" /\ UNCHANGED g_rpmPathMode
    BY <1>1, <1>5 DEF WriteSetting, SetterGoes, Setters, SetterPCs
  <2>2. g_rpmPathMode \in Setting
    BY <1>1, <2>1 DEF IInv, Whole, PathModes, Setting, Paths
  <2>3. setting' \in Setting \cup {Unset, Short}
    BY <1>5, <2>2 DEF WriteSetting, IInv, Types
  <2>4. Types' /\ Whole'
    BY <1>5, <2>1, <2>3 DEF WriteSetting, IInv, Types, Whole, workers
  <2>5. QED
    BY <1>5, <2>4, CallsKeep DEF WriteSetting
<1>6. QED
  BY <1>2, <1>3, <1>4, <1>5

LEMMA GetPathModeKeeps ==
  ASSUME Assumptions, IInv, daemon_get_path_mode
  PROVE  IInv'
<1>1. answer' \in Setting
  BY DEF daemon_get_path_mode, IInv, Types, Setting, Assumptions, ConstantsOK
<1>2. Types' /\ Whole'
  BY <1>1 DEF daemon_get_path_mode, IInv, Types, Whole, workers
<1>3. QED
  BY <1>2, CallsKeep DEF daemon_get_path_mode

-----------------------------------------------------------------------------

LEMMA StartJobKeeps ==
  ASSUME Assumptions, IInv, NEW kind \in {"install", "upgrade"}, StartJob(kind)
  PROVE  IInv'
<1>1. /\ job' = [kind |-> kind, pc |-> "each", at |-> 1, argv |-> <<>>, done |-> FALSE]
      /\ job.pc = "idle" /\ lock = "free" /\ lock' = "job"
      /\ UNCHANGED <<g_rpmPathMode, setting, setter, answer, dirs, disk, cleaner>>
      /\ changed' \in BOOLEAN
  BY DEF StartJob, NoJob, calls
<1>2. job' \in JobTypes /\ Len(job'.argv) = 0 /\ job'.at = 1 /\ job'.pc = "each" /\ ~job'.done
  BY <1>1 DEF JobTypes, Kinds, JobPCs
<1>3. Types'
  BY <1>1, <1>2 DEF IInv, Types
<1>4. Mutex' /\ Whole'
  BY <1>1, <1>2 DEF IInv, Mutex, Whole
<1>5. Follows'
  BY <1>2, TheFiles DEF Follows
<1>6. Stay' /\ Together'
  BY <1>2 DEF Stay, Together
<1>7. QED
  BY <1>3, <1>4, <1>5, <1>6 DEF IInv

\* The path of a file is in a directory, or in one that is not there.
LEMMA PathIsEntry ==
  ASSUME Assumptions, IInv, NEW f \in File
  PROVE  [dir |-> FilePath(g_rpmPathMode.path), file |-> f] \in Entry
  BY DEF Assumptions, ConstantsOK, IInv, Types, PathModes, Paths, FilePath, Entry

LEMMA JobIsTyped ==
  ASSUME NEW kind \in Kinds, NEW at \in JobPCs, NEW i \in Nat, NEW argv \in Seq(Entry),
         NEW done \in BOOLEAN
  PROVE  [kind |-> kind, pc |-> at, at |-> i, argv |-> argv, done |-> done] \in JobTypes
  BY DEF JobTypes

\* The file is there after the step.
WillExist(x) ==
  x.dir \in dirs' /\ x.file \in File /\ disk'[x.dir][x.file] \in {"fresh", "old"}

\* One more file on the list.
LEMMA AppendKeeps ==
  ASSUME Assumptions, IInv, job.pc = "each", job.at \in DOMAIN Files,
         NEW x, x = [dir |-> FilePath(g_rpmPathMode.path), file |-> Files[job.at]],
         job' = Append1(x), disk' \in [Dirs -> [File -> States]],
         job.kind = "install" =>
           WillExist(x) /\ \A y \in Entry : isFileExist(y) => WillExist(y),
         UNCHANGED <<g_rpmPathMode, setting, setter, answer, dirs, lock, cleaner, changed>>
  PROVE  IInv'
<1> DEFINE n == Len(job.argv)
           m == Len(Files)
<1>1. /\ job \in JobTypes /\ job.argv \in Seq(Entry) /\ n \in Nat /\ DOMAIN job.argv = 1 .. n
      /\ job.at \in Nat /\ job.kind \in Kinds /\ job.pc \in JobPCs
  BY LenProperties, ElementOfSeq DEF IInv, Types, JobTypes
<1>2. m \in Nat /\ DOMAIN Files = 1 .. m /\ job.at \in 1 .. m /\ Files[job.at] \in File
  BY TheFiles DEF File
<1>3. x \in Entry /\ x.file = Files[job.at]
  BY <1>2, PathIsEntry
<1>4. /\ job' = [kind |-> job.kind, pc |-> job.pc, at |-> job.at + 1,
                 argv |-> Append(job.argv, x), done |-> TRUE]
  BY <1>1 DEF Append1, JobTypes
<1> DEFINE q == Append(job.argv, x)
<1>5. /\ q \in Seq(Entry) /\ Len(q) = n + 1
      /\ \A i \in DOMAIN job.argv : q[i] = job.argv[i]
      /\ q[n + 1] = x
  BY <1>1, <1>3, AppendProperties, LenProperties
<1>6. /\ job'.kind = job.kind /\ job'.pc = "each" /\ job'.at = job.at + 1
      /\ job'.argv = q /\ job'.done
  BY <1>4
<1>7. job' \in JobTypes
  <2> HIDE DEF q
  <2>1. job' = [kind |-> job.kind, pc |-> job.pc, at |-> job.at + 1, argv |-> q, done |-> TRUE]
    BY <1>4 DEF q
  <2>2. q \in Seq(Entry) /\ job.at + 1 \in Nat /\ TRUE \in BOOLEAN
    BY <1>1, <1>5
  <2>3. job.kind \in Kinds /\ job.pc \in JobPCs
    BY <1>1
  <2>4. [kind |-> job.kind, pc |-> job.pc, at |-> job.at + 1, argv |-> q, done |-> TRUE]
          \in JobTypes
    BY <2>2, <2>3, JobIsTyped
  <2>5. QED
    BY <2>1, <2>4
<1>8. n = job.at - 1 /\ \A i \in 1 .. n : job.argv[i].file = Files[i]
  <2>1. job.at # m + 1
    <3> HIDE DEF m
    <3>1. QED
      BY <1>2
  <2>2. QED
    BY <2>1 DEF IInv, Follows
<1> HIDE DEF q, n, m
<1>9. \A i \in 1 .. n + 1 : i \in 1 .. n \/ i = n + 1
  BY <1>1
<1>10. Follows'
  <2>1. job.at = n + 1 /\ n + 1 \in 1 .. m /\ n \in Nat /\ m \in Nat
    BY <1>1, <1>2, <1>8
  <2>2. Len(q) = job'.at - 1 /\ Len(q) < job'.at /\ job'.at \in 1 .. m + 1
    <3>1. Len(q) = n + 1 /\ job'.at = (n + 1) + 1
      BY <1>5, <1>6, <2>1
    <3>2. QED
      BY <2>1, <3>1
  <2>3. \A i \in 1 .. n + 1 : q[i].file = Files[i]
    <3>1. \A i \in 1 .. n : q[i].file = Files[i]
      BY <1>1, <1>5, <1>8
    <3>2. q[n + 1].file = Files[n + 1]
      BY <1>3, <1>5, <2>1
    <3>3. QED
      BY <1>9, <3>1, <3>2
  <2>4. QED
    BY <1>5, <1>6, <2>2, <2>3 DEF Follows, m
<1>11. Stay'
  <2>1. CASE job.kind # "install"
    BY <1>6, <2>1 DEF Stay
  <2>2. CASE job.kind = "install"
    <3>1. \A i \in 1 .. n : isFileExist(job.argv[i])
      BY <2>2 DEF IInv, Stay, n
    <3> HIDE DEF isFileExist, WillExist
    <3>2. \A i \in 1 .. n : q[i] = job.argv[i] /\ job.argv[i] \in Entry
      BY <1>1, <1>5, LenProperties, ElementOfSeq
    <3>3. \A i \in 1 .. n + 1 : WillExist(q[i])
      BY <1>5, <1>9, <2>2, <3>1, <3>2
    <3>4. QED
      BY <1>5, <1>6, <3>3 DEF Stay, WillExist, isFileExist
  <2>3. QED
    BY <2>1, <2>2
<1>12. Together'
  <2>1. ~changed => \A i \in 1 .. n : job.argv[i].dir = FilePath(g_rpmPathMode.path)
    BY DEF IInv, Together, n
  <2>2. x.dir = FilePath(g_rpmPathMode.path)
    OBVIOUS
  <2> HIDE DEF FilePath
  <2>3. ~changed => \A i \in 1 .. n + 1 : q[i].dir = FilePath(g_rpmPathMode.path)
    BY <1>1, <1>5, <1>9, <2>1, <2>2
  <2>4. FilePath(g_rpmPathMode.path)' = FilePath(g_rpmPathMode.path)
    BY DEF FilePath
  <2>5. QED
    BY <1>5, <1>6, <2>3, <2>4 DEF Together
<1>13. Types'
  BY <1>7 DEF IInv, Types
<1>14. Mutex' /\ Whole'
  BY <1>6 DEF IInv, Mutex, Whole
<1>15. QED
  BY <1>10, <1>11, <1>12, <1>13, <1>14 DEF IInv

LEMMA RealInstallKeeps ==
  ASSUME Assumptions, IInv, realInstall
  PROVE  IInv'
<1> DEFINE y == [dir |-> FilePath(g_rpmPathMode.path), file |-> Files[job.at]]
<1>1. PICK x : x = y
  OBVIOUS
<1>2. Files[job.at] \in File
  BY DEF realInstall, File
<1>3. x \in Entry
  BY <1>1, <1>2, PathIsEntry
<1>4. /\ job.pc = "each" /\ job.at \in DOMAIN Files
      /\ UNCHANGED <<g_rpmPathMode, setting, setter, answer, dirs, lock, cleaner, changed>>
  BY DEF realInstall, calls
<1>5. \/ isFileExist(x) /\ job' = Append1(x) /\ UNCHANGED disk
      \/ /\ ~isFileExist(x)
         /\ \E got \in download_file(x) :
              /\ disk' = IF x.dir \in dirs /\ got # "none"
                           THEN [disk EXCEPT ![x.dir][x.file] = got] ELSE disk
              /\ job' = IF got = "fresh" \/ job.kind = "upgrade" THEN Append1(x)
                        ELSE [job EXCEPT !.done = FALSE, !.at = Len(Files) + 1]
  BY <1>1 DEF realInstall
<1>6. disk \in [Dirs -> [File -> States]] /\ dirs \subseteq Dirs /\ job \in JobTypes
  BY DEF IInv, Types
<1> HIDE DEF y
<1>7. CASE isFileExist(x) /\ job' = Append1(x) /\ UNCHANGED disk
  <2>1. WillExist(x) /\ \A z \in Entry : isFileExist(z) => WillExist(z)
    BY <1>4, <1>7 DEF isFileExist, WillExist
  <2>2. QED
    BY <1>1, <1>4, <1>6, <1>7, <2>1, AppendKeeps DEF y
<1>8. ASSUME ~isFileExist(x), NEW got \in download_file(x),
             disk' = IF x.dir \in dirs /\ got # "none"
                       THEN [disk EXCEPT ![x.dir][x.file] = got] ELSE disk,
             job' = IF got = "fresh" \/ job.kind = "upgrade" THEN Append1(x)
                    ELSE [job EXCEPT !.done = FALSE, !.at = Len(Files) + 1]
      PROVE  IInv'
  <2>1. disk' \in [Dirs -> [File -> States]]
    BY <1>6, <1>8 DEF download_file, States
  <2>2. \A z \in Entry : isFileExist(z) => WillExist(z)
    BY <1>4, <1>6, <1>8, <1>3 DEF isFileExist, WillExist, Entry
  <2>3. CASE got = "fresh" \/ job.kind = "upgrade"
    <3>1. job.kind = "install" => WillExist(x)
      <4> SUFFICES ASSUME job.kind = "install" PROVE WillExist(x)
        OBVIOUS
      <4>1. got = "fresh" /\ x.dir \in dirs
        BY <1>8, <2>3 DEF download_file
      <4>2. x.file \in File
        BY <1>3 DEF Entry
      <4>3. QED
        BY <1>4, <1>6, <1>8, <4>1, <4>2 DEF WillExist
    <3>2. job' = Append1(x)
      BY <1>8, <2>3
    <3>3. QED
      BY <1>1, <1>4, <2>1, <2>2, <3>1, <3>2, AppendKeeps DEF y
  <2>4. CASE ~(got = "fresh" \/ job.kind = "upgrade")
    <3>1. job' = [job EXCEPT !.done = FALSE, !.at = Len(Files) + 1]
      BY <1>8, <2>4
    <3>2. /\ job' \in JobTypes /\ job'.kind = job.kind /\ job'.pc = "each"
          /\ job'.argv = job.argv /\ ~job'.done /\ job'.at = Len(Files) + 1
      <4> DEFINE m == Len(Files) + 1
      <4>1. m \in Nat
        BY TheFiles
      <4>2. job' = [job EXCEPT !.done = FALSE, !.at = m]
        BY <3>1
      <4> HIDE DEF m
      <4>3. /\ job' \in JobTypes /\ job'.kind = job.kind /\ job'.pc = "each"
            /\ job'.argv = job.argv /\ ~job'.done /\ job'.at = m
        BY <1>4, <1>6, <4>1, <4>2 DEF JobTypes
      <4>4. QED
        BY <4>3 DEF m
    <3>3. Follows'
      <4> DEFINE n == Len(job.argv)
                 m == Len(Files)
      <4>1. n < job.at /\ job.at \in 1 .. m /\ m \in Nat /\ n \in Nat
        BY <1>4, <1>6, TheFiles, LenProperties, ElementOfSeq DEF IInv, Follows, JobTypes
      <4>2. \A i \in 1 .. n : job.argv[i].file = Files[i]
        BY <1>4 DEF IInv, Follows
      <4> HIDE DEF n, m
      <4>3. n < m + 1 /\ m + 1 \in 1 .. m + 1
        BY <4>1
      <4>4. QED
        BY <3>2, <4>2, <4>3 DEF Follows, n, m
    <3>4. Stay'
      <4> SUFFICES ASSUME job.kind = "install", NEW i \in 1 .. Len(job.argv)
                   PROVE  WillExist(job.argv[i])
        BY <3>2 DEF Stay, WillExist, isFileExist
      <4>1. isFileExist(job.argv[i])
        BY <1>4 DEF IInv, Stay
      <4>2. job.argv[i] \in Entry
        BY <1>6, LenProperties, ElementOfSeq DEF JobTypes
      <4>3. QED
        BY <2>2, <4>1, <4>2
    <3>5. Together'
      BY <1>4, <3>2 DEF IInv, Together, FilePath
    <3>6. Types' /\ Mutex' /\ Whole'
      BY <1>4, <2>1, <3>2 DEF IInv, Types, Mutex, Whole
    <3>7. QED
      BY <3>3, <3>4, <3>5, <3>6 DEF IInv
  <2>5. QED
    BY <2>3, <2>4
<1>9. QED
  BY <1>5, <1>7, <1>8

LEMMA RpmInstallKeeps ==
  ASSUME Assumptions, IInv, rpmInstall
  PROVE  IInv'
<1>1. /\ job.pc = "each" /\ job.at \notin DOMAIN Files
      /\ job' = [job EXCEPT !.pc = IF job.done THEN "rpm" ELSE "end"]
      /\ UNCHANGED <<g_rpmPathMode, setting, setter, answer, dirs, disk, lock, cleaner, changed>>
  BY DEF rpmInstall, calls
<1>2. job \in JobTypes
  BY DEF IInv, Types
<1>3. /\ job' \in JobTypes /\ job'.kind = job.kind /\ job'.argv = job.argv
      /\ job'.pc = IF job.done THEN "rpm" ELSE "end"
  BY <1>1, <1>2 DEF JobTypes, JobPCs
<1>4. Follows'
  <2> DEFINE n == Len(job.argv)
             m == Len(Files)
  <2>1. /\ n \in Nat /\ m \in Nat /\ job.at \in 1 .. m + 1 /\ job.at \notin 1 .. m
        /\ job.done => n = job.at - 1
        /\ \A i \in 1 .. n : job.argv[i].file = Files[i]
    BY <1>1, <1>2, TheFiles, LenProperties, ElementOfSeq DEF IInv, Follows, JobTypes
  <2> HIDE DEF n, m
  <2>2. job.done => n = m
    BY <2>1
  <2>3. QED
    BY <1>3, <2>1, <2>2 DEF Follows, n, m
<1>5. Stay' /\ Together'
  BY <1>1, <1>3 DEF IInv, Stay, Together, isFileExist, FilePath
<1>6. Types' /\ Mutex' /\ Whole'
  BY <1>1, <1>3 DEF IInv, Types, Mutex, Whole
<1>7. QED
  BY <1>4, <1>5, <1>6 DEF IInv

\* Removing files leaves files.
LEMMA WithoutIsDisk ==
  ASSUME IInv, NEW removed
  PROVE  Without(removed) \in [Dirs -> [File -> States]]
  BY DEF IInv, Types, Without, States

LEMMA EndOfJobKeeps ==
  ASSUME Assumptions, IInv, DeleteNow \/ EndJob
  PROVE  IInv'
<1>1. job \in JobTypes /\ disk \in [Dirs -> [File -> States]]
  BY DEF IInv, Types
<1>2. CASE DeleteNow
  <2>1. disk' \in [Dirs -> [File -> States]]
    BY <1>1, <1>2, WithoutIsDisk DEF DeleteNow
  <2>2. job.pc = "rpm" /\ job' \in JobTypes /\ job'.pc = "end"
    BY <1>1, <1>2 DEF DeleteNow, JobTypes, JobPCs
  <2>3. UNCHANGED <<g_rpmPathMode, setting, setter, answer, dirs, lock, cleaner, changed>>
    BY <1>2 DEF DeleteNow, calls
  <2>4. QED
    BY <2>1, <2>2, <2>3 DEF IInv, Types, Mutex, Whole, Follows, Stay, Together
<1>3. CASE EndJob
  <2>1. /\ job.pc = "end" /\ job' = NoJob /\ lock' = "free" /\ changed' = FALSE
        /\ UNCHANGED <<g_rpmPathMode, setting, setter, answer, dirs, disk, cleaner>>
    BY <1>3 DEF EndJob, calls
  <2>2. NoJob.pc = "idle"
    BY DEF NoJob
  <2>3. Types'
    BY <2>1, NoJobIsJob DEF IInv, Types
  <2>4. QED
    BY <2>1, <2>2, <2>3 DEF IInv, Mutex, Whole, Follows, Stay, Together
<1>4. QED
  BY <1>2, <1>3

\* The cleaning works while there is no job.
LEMMA CleaningKeeps ==
  ASSUME Assumptions, IInv, update_routine \/ EndClean \/ \E f \in File : delete_rpm_files(f)
  PROVE  IInv'
<1>1. /\ UNCHANGED <<g_rpmPathMode, setting, setter, answer, dirs, job, changed>>
      /\ cleaner \in Cleaners /\ disk \in [Dirs -> [File -> States]]
  BY DEF IInv, Types, update_routine, EndClean, delete_rpm_files, calls
<1>2. /\ disk' \in [Dirs -> [File -> States]] /\ cleaner' \in Cleaners
      /\ lock' \in {"free", "job", "cleaner"}
  <2>1. CASE update_routine
    BY <1>1, <2>1 DEF update_routine, Cleaners, NamesIn
  <2>2. CASE EndClean
    BY <1>1, <2>2 DEF EndClean, Cleaners, IdleCleaner, IInv, Types
  <2>3. ASSUME NEW f \in File, delete_rpm_files(f)
        PROVE  /\ disk' \in [Dirs -> [File -> States]] /\ cleaner' \in Cleaners
               /\ lock' \in {"free", "job", "cleaner"}
    <3>1. disk' \in [Dirs -> [File -> States]]
      BY <1>1, <2>3, WithoutIsDisk DEF delete_rpm_files
    <3>2. cleaner' \in Cleaners /\ lock' = lock
      BY <1>1, <2>3 DEF delete_rpm_files, Cleaners
    <3>3. QED
      BY <3>1, <3>2 DEF IInv, Types
  <2>4. QED
    BY <2>1, <2>2, <2>3
<1>3. job.pc = "idle"
  BY DEF IInv, Mutex, update_routine, EndClean, delete_rpm_files
<1>4. Mutex'
  <2>1. CASE update_routine
    BY <1>1, <1>3, <2>1 DEF update_routine, IInv, Mutex
  <2>2. CASE EndClean
    BY <1>1, <1>3, <2>2 DEF EndClean, IdleCleaner, IInv, Mutex
  <2>3. ASSUME NEW f \in File, delete_rpm_files(f) PROVE Mutex'
    <3>1. cleaner'.pc = cleaner.pc /\ f \in cleaner.names /\ lock' = lock
      BY <1>1, <2>3 DEF delete_rpm_files, Cleaners
    <3>2. QED
      BY <1>1, <1>3, <3>1 DEF IInv, Mutex
  <2>4. QED
    BY <2>1, <2>2, <2>3
<1>5. QED
  BY <1>1, <1>2, <1>3, <1>4 DEF IInv, Types, Whole, Follows, Stay, Together

LEMMA RestartKeeps ==
  ASSUME Assumptions, IInv, daemon_init
  PROVE  IInv'
<1>1. getRpmPathMode \in [path : Paths, mode : 1 .. 3]
  BY ReadSetting DEF IInv, Types
<1>2. disk' \in [Dirs -> [File -> States]]
  BY WithoutIsDisk DEF daemon_init, IInv, Types
<1>3. dirs' \subseteq Dirs
  BY <1>1 DEF daemon_init, main, FilePath, Paths, Assumptions, ConstantsOK, IInv, Types
<1>4. g_rpmPathMode' \in PathModes /\ g_rpmPathMode'.path \in Paths
  BY <1>1 DEF daemon_init, PathModes
<1>5. setter' \in Setters
  BY DEF daemon_init, IdleSetter, Setters, SetterPCs, Paths
<1>6. cleaner' \in Cleaners /\ cleaner'.pc = "idle" /\ cleaner'.names = {}
  BY DEF daemon_init, IdleCleaner, Cleaners
<1>7. job' \in JobTypes /\ job' = NoJob /\ job'.pc = "idle"
  BY NoJobIsJob DEF daemon_init, NoJob
<1>8. Types'
  BY <1>2, <1>3, <1>4, <1>5, <1>6, <1>7 DEF daemon_init, IInv, Types
<1>9. QED
  BY <1>4, <1>6, <1>7, <1>8 DEF IInv, Mutex, Whole, Follows, Stay, Together

\* A file of a week is still a file that is there.
LEMMA WeekKeeps ==
  ASSUME Assumptions, IInv, Week
  PROVE  IInv'
<1>1. /\ UNCHANGED <<g_rpmPathMode, setting, setter, answer, dirs, lock, job, cleaner, changed>>
      /\ disk' = [d \in Dirs |-> [f \in File |-> IF disk[d][f] = "fresh" THEN "old" ELSE disk[d][f]]]
  BY DEF Week, calls, workers
<1>2. Types'
  BY <1>1 DEF IInv, Types, States
<1>3. Stay'
  BY <1>1 DEF IInv, Types, Stay, isFileExist
<1>4. Together'
  BY <1>1 DEF IInv, Together, FilePath
<1>5. QED
  BY <1>1, <1>2, <1>3, <1>4 DEF IInv, Mutex, Whole, Follows

LEMMA StutterKeeps ==
  ASSUME Assumptions, IInv, UNCHANGED vars
  PROVE  IInv'
<1>1. UNCHANGED <<g_rpmPathMode, setting, setter, answer, dirs, disk, lock, job, cleaner, changed>>
  BY DEF vars
<1>2. QED
  BY <1>1
     DEF IInv, Types, Mutex, Whole, Follows, Stay, Together, isFileExist, FilePath

LEMMA StepIInv == Assumptions /\ IInv /\ [Next]_vars => IInv'
  BY SetPathModeKeeps, SetterKeeps, GetPathModeKeeps, StartJobKeeps, RealInstallKeeps,
     RpmInstallKeeps, EndOfJobKeeps, CleaningKeeps, RestartKeeps, WeekKeeps, StutterKeeps
     DEF Next, MainLoop

LEMMA IInvHandedOver ==
  ASSUME Assumptions, IInv
  PROVE  HandedOverInv
<1> DEFINE n == Len(job.argv)
<1>1. /\ job \in JobTypes /\ job.argv \in Seq(Entry) /\ DOMAIN job.argv = 1 .. n
      /\ \A i \in 1 .. n : job.argv[i] \in Entry
  BY LenProperties, ElementOfSeq DEF IInv, Types, JobTypes
<1> HIDE DEF n
<1>2. HandedOver = {job.argv[i] : i \in 1 .. n}
  BY <1>1 DEF HandedOver
<1>3. TypeOK
  <2>1. HandedOver \subseteq Entry
    BY <1>1, <1>2
  <2>2. QED
    BY <2>1 DEF IInv, Types, TypeOK, PathModes, Paths, Setters, SetterPCs, States, JobTypes,
                Kinds, Cleaners
<1>4. HandedOverStay
  BY <1>2 DEF IInv, Stay, HandedOverStay, n
<1>5. HandedOverTogether
  <2> SUFFICES ASSUME job.pc = "rpm" PROVE HandedOverTogether
    BY DEF HandedOverTogether
  <2>1. n = Len(Files) /\ \A i \in 1 .. n : job.argv[i].file = Files[i]
    BY DEF IInv, Follows, n
  <2>2. Files = [i \in 1 .. n |-> Files[i]]
    BY <2>1, TheFiles DEF Assumptions
  <2>3. [i \in DOMAIN job.argv |-> job.argv[i].file] = Files
    BY <1>1, <2>1, <2>2
  <2>4. ~changed => \A i \in 1 .. n : job.argv[i].dir = FilePath(g_rpmPathMode.path)
    BY DEF IInv, Together, n
  <2>5. QED
    BY <1>2, <2>3, <2>4 DEF HandedOverTogether
<1>6. QED
  BY <1>3, <1>4, <1>5 DEF HandedOverInv

\* Whatever an installation hands to rpm is there until rpm has read it, all
\* of it and in order, for any files, directories and settings.
THEOREM HandedOverIsThere ==
  ASSUME Assumptions
  PROVE  Spec => []HandedOverInv
<1>1. Init => IInv
  BY InitIInv
<1>2. IInv /\ [Next]_vars => IInv'
  BY StepIInv
<1>3. IInv => HandedOverInv
  BY IInvHandedOver
<1>4. QED
  BY <1>1, <1>2, <1>3, PTL DEF Spec

-----------------------------------------------------------------------------

\* A file that goes is one of a week, or of the job that ends.
Goes(d, f) ==
  disk[d][f] # "none" /\ disk'[d][f] = "none" =>
    \/ disk[d][f] = "old"
    \/ job.pc = "rpm" /\ [dir |-> d, file |-> f] \in HandedOver

LEMMA StepGoes ==
  ASSUME Assumptions, IInv, [Next]_vars, NEW d \in Dirs, NEW f \in File
  PROVE  Goes(d, f)
<1>1. disk \in [Dirs -> [File -> States]]
  BY DEF IInv, Types
<1>2. CASE realInstall
  <2> DEFINE y == [dir |-> FilePath(g_rpmPathMode.path), file |-> Files[job.at]]
  <2>1. PICK x : x = y
    OBVIOUS
  <2>2. \/ UNCHANGED disk
        \/ \E got : got # "none" /\ disk' = [disk EXCEPT ![x.dir][x.file] = got]
    BY <1>2, <2>1 DEF realInstall
  <2>3. ASSUME NEW got, got # "none", disk' = [disk EXCEPT ![x.dir][x.file] = got]
        PROVE  disk'[d][f] \in {got, disk[d][f]}
    BY <1>1, <2>3
  <2>4. QED
    BY <2>2, <2>3 DEF Goes
<1>3. CASE DeleteNow
  <2>1. job.pc = "rpm" /\ (disk' = disk \/ disk' = Without(HandedOver))
    BY <1>3 DEF DeleteNow, HandedOver
  <2>2. QED
    BY <1>1, <2>1 DEF Goes, Without
<1>4. ASSUME NEW g \in File, delete_rpm_files(g) PROVE Goes(d, f)
  <2>1. disk' = disk \/ (g \in OldIn(g_rpmPathMode.path)
                        /\ disk' = Without({[dir |-> g_rpmPathMode.path, file |-> g]}))
    BY <1>4 DEF delete_rpm_files
  <2>2. QED
    BY <1>1, <2>1 DEF Goes, Without, OldIn
<1>5. CASE daemon_init
  <2>1. \/ UNCHANGED disk
        \/ \E p : disk' = Without({[dir |-> p, file |-> g] : g \in OldIn(p)})
    BY <1>5 DEF daemon_init
  <2>2. ASSUME NEW p, disk' = Without({[dir |-> p, file |-> g] : g \in OldIn(p)}),
               disk'[d][f] # disk[d][f]
        PROVE  disk[d][f] = "old"
    <3>1. [dir |-> d, file |-> f] \in {[dir |-> p, file |-> g] : g \in OldIn(p)}
      BY <2>2 DEF Without
    <3>2. p = d /\ f \in OldIn(p)
      BY <3>1
    <3>3. QED
      BY <3>2 DEF OldIn
  <2>3. QED
    BY <2>1, <2>2 DEF Goes
<1>6. CASE Week
  BY <1>1, <1>6 DEF Week, Goes
<1>7. CASE UNCHANGED disk
  BY <1>7 DEF Goes
<1>8. QED
  BY <1>2, <1>3, <1>4, <1>5, <1>6, <1>7
     DEF Next, MainLoop, daemon_set_path_mode, SetPath, SetMode, OpenSetting, WriteSetting,
         daemon_get_path_mode, StartJob, rpmInstall, EndJob, update_routine, EndClean, vars

\* Files go when they are a week old, or with the job that has handed them to
\* rpm, wherever the setting points meanwhile.
THEOREM NothingElseGoes ==
  ASSUME Assumptions
  PROVE  Spec => OnlyDueGo
<1>1. IInv /\ [Next]_vars =>
        [\A d \in Dirs : \A f \in File :
           disk[d][f] # "none" /\ disk'[d][f] = "none" =>
             \/ disk[d][f] = "old"
             \/ job.pc = "rpm" /\ [dir |-> d, file |-> f] \in HandedOver]_vars
  BY StepGoes DEF Goes
<1>2. Init => IInv
  BY InitIInv
<1>3. IInv /\ [Next]_vars => IInv'
  BY StepIInv
<1>4. QED
  BY <1>1, <1>2, <1>3, PTL DEF Spec, OnlyDueGo

-----------------------------------------------------------------------------

\* The file follows the global but while it is written, and an answer follows
\* the file.
Agree ==
  /\ setter.pc # "idle" => answer = Unset /\ unsaved
  /\ ~unsaved => g_rpmPathMode = getRpmPathMode
  /\ answer # Unset =>
       /\ FilePath(answer.path) = FilePath(getRpmPathMode.path)
       /\ Removes(answer) = Removes(getRpmPathMode)

LEMMA StepAgree ==
  ASSUME Assumptions, IInv, Agree, [Next]_vars
  PROVE  Agree'
<1>1. ASSUME NEW s \in Chosen, daemon_set_path_mode(s) PROVE Agree'
  BY <1>1 DEF daemon_set_path_mode, Agree
<1>2. CASE SetPath \/ SetMode
  BY <1>2 DEF SetPath, SetMode, SetterGoes, Agree
<1>3. CASE OpenSetting
  BY <1>3 DEF OpenSetting, SetterGoes, Agree
<1>4. CASE WriteSetting
  <2>1. setter.pc = "write" /\ UNCHANGED <<g_rpmPathMode, answer>> /\ setter'.pc = "idle"
    BY <1>4 DEF WriteSetting, SetterGoes, IInv, Types, Setters
  <2>2. answer' = Unset
    BY <2>1 DEF Agree
  <2>3. g_rpmPathMode \in Setting
    BY <2>1 DEF IInv, Types, Whole, PathModes, Setting, Paths
  <2>4. unsaved' = unsaved \/ setting' = g_rpmPathMode
    BY <1>4 DEF WriteSetting
  <2>5. ~unsaved' => g_rpmPathMode' = getRpmPathMode'
    BY <2>1, <2>3, <2>4 DEF Agree, Assumptions, getRpmPathMode
  <2>6. QED
    BY <2>1, <2>2, <2>5 DEF Agree
<1>5. CASE daemon_get_path_mode
  <2>1. UNCHANGED <<g_rpmPathMode, setting, setter, unsaved>> /\ setter.pc = "idle"
    BY <1>5 DEF daemon_get_path_mode
  <2>2. getRpmPathMode' = getRpmPathMode
    BY <2>1 DEF getRpmPathMode
  <2>3. FilePath(answer'.path) = FilePath(getRpmPathMode.path) /\ Removes(answer') = Removes(getRpmPathMode)
    BY <1>5 DEF daemon_get_path_mode, getRpmPathMode, FilePath, Removes, IInv, Types, Setting,
                Assumptions, ConstantsOK
  <2>4. QED
    BY <2>1, <2>2, <2>3 DEF Agree, FilePath, Removes
<1>6. CASE daemon_init
  <2>1. UNCHANGED <<setting, answer>> /\ g_rpmPathMode' = getRpmPathMode /\ setter'.pc = "idle"
    BY <1>6 DEF daemon_init, IdleSetter
  <2>2. getRpmPathMode' = getRpmPathMode
    BY <2>1 DEF getRpmPathMode
  <2>3. QED
    BY <2>1, <2>2 DEF Agree, FilePath, Removes
<1>7. CASE UNCHANGED <<g_rpmPathMode, setting, setter, answer, unsaved>>
  BY <1>7 DEF Agree, getRpmPathMode, FilePath, Removes
<1>8. QED
  BY <1>1, <1>2, <1>3, <1>4, <1>5, <1>6, <1>7
     DEF Next, MainLoop, StartJob, realInstall, rpmInstall, DeleteNow, EndJob, update_routine,
         EndClean, delete_rpm_files, Week, calls, vars

\* The workers go by what GetPathMode has answered, over any restarts, if it
\* could be saved.
THEOREM AnswersHold ==
  ASSUME Assumptions
  PROVE  Spec => []AnswerIsUsed
<1>1. Init => IInv /\ Agree
  <2>1. Init => Agree
    BY DEF Init, Agree, IdleSetter
  <2>2. QED
    BY <2>1, InitIInv
<1>2. IInv /\ Agree /\ [Next]_vars => (IInv /\ Agree)'
  BY StepIInv, StepAgree
<1>3. IInv /\ Agree => AnswerIsUsed
  BY DEF Agree, AnswerIsUsed
<1>4. QED
  BY <1>1, <1>2, <1>3, PTL DEF Spec
-----------------------------------------------------------------------------

(***************************************************************************)
(* The lists of qjade.  What a list will be when the signals on the wire   *)
(* have come is settled by the last of them that says something of the     *)
(* package, or by the list itself if none does.  For the installed that is *)
(* so at once (RowFollows).  The update that ends is taken out of the list *)
(* of updates by the first Finished of its name, which is behind the last  *)
(* list of updates that still has it (OfferFollows).                       *)
(***************************************************************************)

ListSignal ==
  [kind : {"all", "update"}, names : SUBSET Name]
  \cup [kind : {"finished"}, name : Name,
        status : {"INSTALLED", "INSTALL_ERROR", "REMOVED", "UPGRADED"}]
  \cup [kind : {"network"}, on : BOOLEAN]

ListCall == [op : L!Method, name : Name] \cup [op : L!List, name : {NoName}]

Tasks == {L!NoTask} \cup [action : {"install", "uninstall", "update"}, name : Name]

OnTheWire == wire \in Seq(ListSignal) /\ Len(wire) <= MaxWire

ClientTypes ==
  /\ AllPkgList \in [Name -> {"unlisted", "installed", "available"}]
  /\ m_updateInfo \subseteq Name \cup {Mangled} /\ m_updateList \subseteq Shown
  /\ g_offline \in BOOLEAN /\ g_updateDone \in BOOLEAN
  /\ doing \in Tasks
  /\ sent \in Seq(ListCall) /\ Len(sent) <= MaxCalls

\* A job that will send a Finished has a name to send.
DaemonTypes ==
  /\ outdated \subseteq installed /\ installed \subseteq Name
  /\ online \in BOOLEAN
  /\ arg \in Name \cup {NoName}
  /\ busy \in [op : L!Method \cup L!List \cup {"none"}, name : Name \cup {NoName},
               pc : {"idle", "asked", "works"}]
  /\ busy.op \in L!Method => arg \in Name
  /\ busy.op \in L!Method /\ busy.pc = "works" => busy.name \in Name

ListTypes == OnTheWire /\ ClientTypes /\ DaemonTypes

\* A signal after which a listed package is known to be installed, or not.
Speaks(s, n) ==
  s.kind = "all" \/ (s.kind = "finished" /\ s.name = n
                     /\ s.status \in {"INSTALLED", "REMOVED", "INSTALL_ERROR"})

Says(s, n) == IF s.kind = "all" THEN n \in s.names ELSE s.status = "INSTALLED"

Silent(n, i) == \A j \in 1 .. Len(wire) : j > i => ~Speaks(wire[j], n)

RowFollows(n) ==
  /\ \A i \in 1 .. Len(wire) :
       Speaks(wire[i], n) /\ Silent(n, i) => (Says(wire[i], n) <=> n \in installed)
  /\ Silent(n, 0) =>
       AllPkgList[n] = "unlisted" \/ (AllPkgList[n] = "installed" <=> n \in installed)

NoUpdate(i) == \A j \in 1 .. Len(wire) : j > i => wire[j].kind # "update"

Ending(s, n) == s.kind = "finished" /\ s.name = n

\* The update of n runs, and the first Finished of its name is behind i.
Comes(n, i) ==
  /\ doing = [action |-> "update", name |-> n]
  /\ \E j \in 1 .. Len(wire) :
       /\ j > i /\ Ending(wire[j], n)
       /\ \A k \in 1 .. Len(wire) : k < j => ~Ending(wire[k], n)

OfferFollows(n) ==
  /\ \A i \in 1 .. Len(wire) :
       wire[i].kind = "update" /\ n \in wire[i].names /\ NoUpdate(i) => Comes(n, i)
  /\ NoUpdate(0) /\ n \in m_updateInfo => Comes(n, 0)

ListIInv ==
  /\ ListTypes
  /\ \A n \in Name \ untold : RowFollows(n)
  /\ \A n \in Name \ (outdated \cup gone) : OfferFollows(n)
  /\ OutdatedStayOffered

\* What is put on the wire, and what is taken off it.
Put(s) ==
  /\ s \in ListSignal
  /\ Len(wire) \in Nat /\ Len(wire') = Len(wire) + 1
  /\ \A i \in 1 .. Len(wire) : wire'[i] = wire[i]
  /\ wire'[Len(wire) + 1] = s

Taken(s) ==
  /\ s \in ListSignal /\ s = wire[1]
  /\ Len(wire) \in Nat /\ Len(wire) > 0 /\ Len(wire') = Len(wire) - 1
  /\ \A i \in 1 .. Len(wire') : wire'[i] = wire[i + 1]

LEMMA ListSend ==
  ASSUME OnTheWire, NEW s \in ListSignal, L!Send(s)
  PROVE  Put(s) /\ OnTheWire'
<1> USE DEF OnTheWire
<1> HIDE DEF ListSignal
<1>1. wire' = Append(wire, s) /\ Len(wire) < MaxWire /\ MaxWire \in Nat
  BY ListsConstants DEF L!Send, L!ConstantsOK
<1>2. /\ wire' \in Seq(ListSignal) /\ Len(wire') = Len(wire) + 1
      /\ \A i \in 1 .. Len(wire) : wire'[i] = wire[i]
      /\ wire'[Len(wire) + 1] = s
      /\ Len(wire) \in Nat
  BY <1>1, AppendProperties, LenProperties
<1>3. QED
  BY <1>1, <1>2 DEF Put

LEMMA ListTake ==
  ASSUME OnTheWire, wire # <<>>, wire' = Tail(wire)
  PROVE  Taken(Head(wire)) /\ OnTheWire'
<1> USE DEF OnTheWire
<1> HIDE DEF ListSignal
<1>1. /\ Head(wire) = wire[1] /\ Head(wire) \in ListSignal
      /\ wire' \in Seq(ListSignal) /\ Len(wire') = Len(wire) - 1
      /\ Len(wire) \in Nat /\ Len(wire) > 0
      /\ \A i \in 1 .. Len(wire') : wire'[i] = wire[i + 1]
  BY HeadTailProperties, EmptySeq, LenProperties
<1>2. MaxWire \in Nat
  BY ListsConstants DEF L!ConstantsOK
<1>3. QED
  BY <1>1, <1>2 DEF Taken

\* A signal that says nothing of n is sent, and nothing changes for n.
LEMMA RowPut ==
  ASSUME NEW n, NEW s, RowFollows(n), Put(s), ~Speaks(s, n),
         UNCHANGED AllPkgList, n \in installed' <=> n \in installed
  PROVE  RowFollows(n)'
<1> USE DEF Put
<1> HIDE DEF Speaks, Says
<1>1. ~Speaks(wire'[Len(wire) + 1], n)
  OBVIOUS
<1>2. \A i \in 0 .. Len(wire') : Silent(n, i)' /\ i <= Len(wire) => Silent(n, i)
  BY DEF Silent
<1>3. ASSUME NEW i \in 1 .. Len(wire'), Speaks(wire'[i], n), Silent(n, i)'
      PROVE  Says(wire'[i], n) <=> n \in installed'
  <2>1. i \in 1 .. Len(wire) /\ Speaks(wire[i], n) /\ wire'[i] = wire[i]
    BY <1>1, <1>3
  <2>2. Silent(n, i)
    BY <1>2, <1>3, <2>1
  <2>3. QED
    BY <2>1, <2>2 DEF RowFollows
<1>4. Silent(n, 0)' => Silent(n, 0)
  BY <1>2
<1>5. QED
  BY <1>3, <1>4 DEF RowFollows

\* One that says what is so is sent.
LEMMA RowSaid ==
  ASSUME NEW n, NEW s, Put(s), Speaks(s, n), Says(s, n) <=> n \in installed'
  PROVE  RowFollows(n)'
<1> USE DEF Put
<1> HIDE DEF Speaks, Says
<1>1. Speaks(wire'[Len(wire) + 1], n) /\ Len(wire) + 1 \in 1 .. Len(wire')
  OBVIOUS
<1>2. \A i \in 0 .. Len(wire) : ~Silent(n, i)'
  BY <1>1 DEF Silent
<1>3. ASSUME NEW i \in 1 .. Len(wire'), Silent(n, i)'
      PROVE  i = Len(wire) + 1
  BY <1>2, <1>3
<1>4. QED
  BY <1>1, <1>2, <1>3 DEF RowFollows

\* A signal comes.
LEMMA RowTaken ==
  ASSUME NEW n, NEW s, RowFollows(n), Taken(s), UNCHANGED installed,
         IF Speaks(s, n)
           THEN AllPkgList'[n] = "unlisted" \/ (AllPkgList'[n] = "installed" <=> Says(s, n))
           ELSE AllPkgList'[n] = AllPkgList[n]
  PROVE  RowFollows(n)'
<1> USE DEF Taken
<1> HIDE DEF Speaks, Says
<1>1. ASSUME NEW i \in 0 .. Len(wire'), Silent(n, i)'
      PROVE  Silent(n, i + 1)
  <2>1. SUFFICES ASSUME NEW j \in 1 .. Len(wire), j > i + 1
                 PROVE  ~Speaks(wire[j], n)
    BY DEF Silent
  <2>2. j - 1 \in 1 .. Len(wire') /\ j - 1 > i /\ (j - 1) + 1 = j
    BY <2>1
  <2>3. wire'[j - 1] = wire[j]
    BY <2>2
  <2>4. QED
    BY <1>1, <2>2, <2>3 DEF Silent
<1>2. ASSUME NEW i \in 1 .. Len(wire'), Speaks(wire'[i], n), Silent(n, i)'
      PROVE  Says(wire'[i], n) <=> n \in installed'
  <2>1. i + 1 \in 1 .. Len(wire) /\ wire'[i] = wire[i + 1]
    OBVIOUS
  <2>2. QED
    BY <1>1, <1>2, <2>1 DEF RowFollows
<1>3. ASSUME Silent(n, 0)'
      PROVE  AllPkgList'[n] = "unlisted" \/ (AllPkgList'[n] = "installed" <=> n \in installed')
  <2>1. Silent(n, 1)
    BY <1>1, <1>3
  <2>2. CASE Speaks(s, n)
    <3>1. Says(s, n) <=> n \in installed
      BY <2>1, <2>2 DEF RowFollows
    <3>2. QED
      BY <2>2, <3>1
  <2>3. CASE ~Speaks(s, n)
    <3>1. Silent(n, 0)
      BY <2>1, <2>3 DEF Silent
    <3>2. QED
      BY <2>3, <3>1 DEF RowFollows
  <2>4. QED
    BY <2>2, <2>3
<1>4. QED
  BY <1>2, <1>3 DEF RowFollows
\* A signal that is no list of updates is sent, or one without n.
LEMMA OfferPut ==
  ASSUME NEW n, NEW s, OfferFollows(n), Put(s), s.kind = "update" => n \notin s.names,
         UNCHANGED <<m_updateInfo, doing>>
  PROVE  OfferFollows(n)'
<1> USE DEF Put
<1> HIDE DEF Ending
<1>1. Len(wire) + 1 \in 1 .. Len(wire')
  OBVIOUS
<1>2. ASSUME NEW i \in 0 .. Len(wire), NoUpdate(i)' PROVE NoUpdate(i)
  BY <1>2 DEF NoUpdate
<1>3. ASSUME NEW i \in 0 .. Len(wire), Comes(n, i) PROVE Comes(n, i)'
  <2>1. PICK j \in 1 .. Len(wire) :
               /\ j > i /\ Ending(wire[j], n)
               /\ \A k \in 1 .. Len(wire) : k < j => ~Ending(wire[k], n)
    BY <1>3 DEF Comes
  <2>2. j \in 1 .. Len(wire') /\ j > i /\ Ending(wire'[j], n)
    BY <2>1
  <2>3. \A k \in 1 .. Len(wire') : k < j => ~Ending(wire'[k], n)
    BY <2>1
  <2>4. doing' = [action |-> "update", name |-> n]
    BY <1>3 DEF Comes
  <2>5. QED
    BY <2>2, <2>3, <2>4 DEF Comes
<1>4. ASSUME NEW i \in 1 .. Len(wire'), wire'[i].kind = "update", n \in wire'[i].names,
             NoUpdate(i)'
      PROVE  Comes(n, i)'
  <2>1. i \in 1 .. Len(wire) /\ wire'[i] = wire[i]
    BY <1>4
  <2>2. QED
    BY <1>2, <1>3, <1>4, <2>1 DEF OfferFollows
<1>5. ASSUME NoUpdate(0)', n \in m_updateInfo' PROVE Comes(n, 0)'
  <2>1. 0 \in 0 .. Len(wire)
    OBVIOUS
  <2>2. QED
    BY <1>2, <1>3, <1>5, <2>1 DEF OfferFollows
<1>6. QED
  BY <1>4, <1>5 DEF OfferFollows

\* A list of updates without n is sent.
LEMMA OfferNot ==
  ASSUME NEW n, NEW s, Put(s), s.kind = "update", n \notin s.names
  PROVE  OfferFollows(n)'
<1> USE DEF Put
<1>1. \A i \in 0 .. Len(wire) : ~NoUpdate(i)'
  <2>1. Len(wire) + 1 \in 1 .. Len(wire') /\ wire'[Len(wire) + 1].kind = "update"
    OBVIOUS
  <2>2. QED
    BY <2>1 DEF NoUpdate
<1>2. \A i \in 1 .. Len(wire') : i \in 0 .. Len(wire) \/ n \notin wire'[i].names
  OBVIOUS
<1>3. QED
  BY <1>1, <1>2 DEF OfferFollows

\* The Finished of the update of n is sent, the first of its name.
LEMMA OfferEnds ==
  ASSUME NEW n, NEW s, Put(s), Ending(s, n), UNCHANGED doing,
         doing = [action |-> "update", name |-> n],
         \A i \in 1 .. Len(wire) : ~Ending(wire[i], n)
  PROVE  OfferFollows(n)'
<1> USE DEF Put
<1>1. \A i \in 0 .. Len(wire) : Comes(n, i)'
  <2>1. Len(wire) + 1 \in 1 .. Len(wire') /\ Ending(wire'[Len(wire) + 1], n)
    OBVIOUS
  <2>2. \A k \in 1 .. Len(wire') : k < Len(wire) + 1 => ~Ending(wire'[k], n)
    BY DEF Ending
  <2>3. QED
    BY <2>1, <2>2 DEF Comes
<1>2. \A i \in 1 .. Len(wire') : wire'[i].kind = "update" => i \in 0 .. Len(wire)
  BY DEF Ending
<1>3. QED
  BY <1>1, <1>2 DEF OfferFollows

\* A signal comes.
LEMMA OfferTaken ==
  ASSUME NEW n, NEW s, OfferFollows(n), Taken(s),
         Ending(s, n) \/ UNCHANGED doing \/ doing # [action |-> "update", name |-> n],
         s.kind = "update" => m_updateInfo' = s.names,
         s.kind # "update" /\ n \in m_updateInfo' =>
           n \in m_updateInfo /\ ~(Ending(s, n) /\ doing = [action |-> "update", name |-> n])
  PROVE  OfferFollows(n)'
<1> USE DEF Taken
<1> HIDE DEF Ending
<1>1. ASSUME NEW i \in 0 .. Len(wire'), NoUpdate(i)' PROVE NoUpdate(i + 1)
  <2>1. SUFFICES ASSUME NEW j \in 1 .. Len(wire), j > i + 1 PROVE wire[j].kind # "update"
    BY DEF NoUpdate
  <2>2. j - 1 \in 1 .. Len(wire') /\ j - 1 > i /\ (j - 1) + 1 = j
    BY <2>1
  <2>3. wire'[j - 1] = wire[j]
    BY <2>2
  <2>4. QED
    BY <1>1, <2>2, <2>3 DEF NoUpdate
<1>2. ASSUME NEW i \in 0 .. Len(wire'), Comes(n, i + 1) PROVE Comes(n, i)'
  <2>1. PICK j \in 1 .. Len(wire) :
               /\ j > i + 1 /\ Ending(wire[j], n)
               /\ \A k \in 1 .. Len(wire) : k < j => ~Ending(wire[k], n)
    BY <1>2 DEF Comes
  <2>2. j - 1 \in 1 .. Len(wire') /\ j - 1 > i /\ wire'[j - 1] = wire[j]
    BY <2>1
  <2>3. ASSUME NEW k \in 1 .. Len(wire'), k < j - 1 PROVE ~Ending(wire'[k], n)
    <3>1. k + 1 \in 1 .. Len(wire) /\ k + 1 < j /\ wire'[k] = wire[k + 1]
      BY <2>3
    <3>2. QED
      BY <2>1, <3>1
  <2>4. ~Ending(s, n) /\ doing = [action |-> "update", name |-> n]
    BY <1>2, <2>1 DEF Comes
  <2>5. doing' = [action |-> "update", name |-> n]
    BY <2>4
  <2>6. QED
    BY <2>1, <2>2, <2>3, <2>5 DEF Comes
<1>3. ASSUME NEW i \in 1 .. Len(wire'), wire'[i].kind = "update", n \in wire'[i].names,
             NoUpdate(i)'
      PROVE  Comes(n, i)'
  <2>1. i + 1 \in 1 .. Len(wire) /\ wire'[i] = wire[i + 1] /\ i \in 0 .. Len(wire')
    OBVIOUS
  <2>2. NoUpdate(i + 1)
    BY <1>1, <1>3, <2>1
  <2>3. Comes(n, i + 1)
    BY <1>3, <2>1, <2>2 DEF OfferFollows
  <2>4. QED
    BY <1>2, <2>1, <2>3
<1>4. ASSUME NoUpdate(0)', n \in m_updateInfo' PROVE Comes(n, 0)'
  <2>1. NoUpdate(1) /\ 0 \in 0 .. Len(wire') /\ 1 \in 1 .. Len(wire)
    BY <1>1, <1>4
  <2>2. CASE s.kind = "update"
    <3>1. Comes(n, 1)
      BY <1>4, <2>1, <2>2 DEF OfferFollows
    <3>2. QED
      BY <1>2, <2>1, <3>1
  <2>3. CASE s.kind # "update"
    <3>1. NoUpdate(0)
      BY <2>1, <2>3 DEF NoUpdate
    <3>2. Comes(n, 0)
      BY <1>4, <2>3, <3>1 DEF OfferFollows
    <3>3. PICK j \in 1 .. Len(wire) :
                 /\ Ending(wire[j], n)
                 /\ \A k \in 1 .. Len(wire) : k < j => ~Ending(wire[k], n)
      BY <3>2 DEF Comes
    <3>4. j # 1
      BY <1>4, <2>3, <3>2, <3>3 DEF Comes
    <3>5. Comes(n, 1)
      BY <3>2, <3>3, <3>4 DEF Comes
    <3>6. QED
      BY <1>2, <2>1, <3>5
  <2>4. QED
    BY <2>2, <2>3
<1>5. QED
  BY <1>3, <1>4 DEF OfferFollows
\* Neither on the wire nor in the lists anything is done.
LEMMA RowStays ==
  ASSUME NEW n, RowFollows(n), UNCHANGED wire,
         UNCHANGED AllPkgList, n \in installed' <=> n \in installed
  PROVE  RowFollows(n)'
BY DEF RowFollows, Silent

LEMMA OfferStays ==
  ASSUME NEW n, OfferFollows(n), UNCHANGED wire, UNCHANGED m_updateInfo,
         doing = [action |-> "update", name |-> n] => UNCHANGED doing
  PROVE  OfferFollows(n)'
BY DEF OfferFollows, NoUpdate, Comes

LEMMA ListsInit == L!Init => ListIInv
<1> SUFFICES ASSUME L!Init PROVE ListIInv
  OBVIOUS
<1>1. /\ AllPkgList = [n \in Name |-> "unlisted"]
      /\ m_updateInfo = {} /\ g_offline = FALSE /\ g_updateDone = FALSE /\ m_updateList = {}
      /\ doing = L!NoTask
      /\ sent = <<[op |-> "ListAll", name |-> NoName]>> /\ wire = <<>>
      /\ installed \subseteq Name /\ outdated \subseteq installed /\ online = TRUE
      /\ arg = NoName /\ busy = [op |-> "none", name |-> NoName, pc |-> "idle"]
      /\ updates = {} /\ gone = {} /\ untold = Name
  BY DEF L!Init, L!NoJob
<1>2. OnTheWire
  BY <1>1, ListsConstants DEF OnTheWire, L!ConstantsOK
<1>3. ClientTypes
  <2> DEFINE c == [op |-> "ListAll", name |-> NoName]
  <2>1. c \in ListCall
    BY DEF ListCall, L!List
  <2> HIDE DEF c
  <2>2. <<c>> \in Seq(ListCall) /\ Len(<<c>>) = 1
    BY <2>1
  <2>3. sent \in Seq(ListCall) /\ Len(sent) <= MaxCalls
    BY <1>1, <2>2, ListsConstants DEF c, L!ConstantsOK
  <2> HIDE DEF ListCall
  <2>4. QED
    BY <1>1, <2>3 DEF ClientTypes, Tasks
<1>4. DaemonTypes
  BY <1>1 DEF DaemonTypes, L!Method
<1>5. \A n \in Name : OfferFollows(n)
  BY <1>1 DEF OfferFollows
<1>6. OutdatedStayOffered
  BY <1>1 DEF OutdatedStayOffered, L!OutdatedStayOffered
<1>7. QED
  BY <1>1, <1>2, <1>3, <1>4, <1>5, <1>6 DEF ListIInv, ListTypes

\* A call on its way.
LEMMA ListAsk ==
  ASSUME sent \in Seq(ListCall), NEW op, NEW n, [op |-> op, name |-> n] \in ListCall,
         L!Ask(op, n)
  PROVE  sent' \in Seq(ListCall) /\ Len(sent') <= MaxCalls
<1> DEFINE c == [op |-> op, name |-> n]
<1>1. c \in ListCall /\ Len(sent) < MaxCalls /\ sent' = Append(sent, c) /\ MaxCalls \in Nat
  BY ListsConstants DEF L!Ask, L!ConstantsOK
<1> HIDE DEF c, ListCall
<1>2. QED
  BY <1>1, AppendProperties, LenProperties

\* What the user and the timers do: the packages and the wire stay.
LEMMA ListsAsk ==
  ASSUME ListIInv,
         \/ \E n \in Name, action \in {"install", "uninstall", "update"} : L!m_runTask(action, n)
         \/ L!runTaskTimeOut \/ L!getPkgListTimeOut \/ L!getUpdate \/ L!getUpdateTimeout
  PROVE  ListIInv'
<1>1. OnTheWire /\ ClientTypes /\ DaemonTypes
  BY DEF ListIInv, ListTypes
<1>2. /\ UNCHANGED <<wire, AllPkgList, m_updateInfo, g_offline,
                     installed, outdated, online, arg, busy, updates, ended, gone, untold>>
      /\ doing = L!NoTask \/ UNCHANGED doing
  BY DEF L!m_runTask, L!runTaskTimeOut, L!getPkgListTimeOut, L!getUpdate, L!getUpdateTimeout,
         L!daemon, L!history, L!client
<1>3. OnTheWire' /\ DaemonTypes'
  BY <1>1, <1>2 DEF OnTheWire, DaemonTypes
<1>4. ClientTypes'
  <2> USE DEF ClientTypes
  <2> HIDE DEF ListCall
  <2>1. ASSUME NEW n \in Name, NEW action \in {"install", "uninstall", "update"},
               L!m_runTask(action, n)
        PROVE  ClientTypes'
    <3>1. [op |-> L!MethodOf(action), name |-> n] \in ListCall
      BY DEF L!MethodOf, ListCall, L!Method
    <3>2. sent' \in Seq(ListCall) /\ Len(sent') <= MaxCalls
      BY <1>1, <2>1, <3>1, ListAsk DEF L!m_runTask
    <3>3. doing' \in Tasks
      BY <2>1 DEF L!m_runTask, Tasks
    <3>4. QED
      BY <1>1, <2>1, <3>2, <3>3 DEF L!m_runTask
  <2>2. ASSUME L!runTaskTimeOut PROVE ClientTypes'
    <3>1. doing # L!NoTask /\ UNCHANGED L!client /\ L!Ask(L!MethodOf(doing.action), doing.name)
      BY <2>2 DEF L!runTaskTimeOut
    <3>2. [op |-> L!MethodOf(doing.action), name |-> doing.name] \in ListCall
      BY <1>1, <3>1 DEF Tasks, L!MethodOf, ListCall, L!Method
    <3>3. sent' \in Seq(ListCall) /\ Len(sent') <= MaxCalls
      BY <1>1, <3>1, <3>2, ListAsk
    <3>4. QED
      BY <1>1, <3>1, <3>3 DEF L!client
  <2>3. ASSUME L!getPkgListTimeOut PROVE ClientTypes'
    <3>1. [op |-> "ListAll", name |-> NoName] \in ListCall
      BY DEF ListCall, L!List
    <3>2. sent' \in Seq(ListCall) /\ Len(sent') <= MaxCalls
      BY <1>1, <2>3, <3>1, ListAsk DEF L!getPkgListTimeOut
    <3>3. QED
      BY <1>1, <2>3, <3>2 DEF L!getPkgListTimeOut, L!client
  <2>4. ASSUME L!getUpdate PROVE ClientTypes'
    <3>1. [op |-> "ListUpdate", name |-> NoName] \in ListCall
      BY DEF ListCall, L!List
    <3>2. sent' \in Seq(ListCall) /\ Len(sent') <= MaxCalls
      BY <1>1, <2>4, <3>1, ListAsk DEF L!getUpdate
    <3>3. QED
      BY <1>1, <2>4, <3>2 DEF L!getUpdate
  <2>5. ASSUME L!getUpdateTimeout PROVE ClientTypes'
    <3>1. g_updateDone' \in BOOLEAN
      BY <1>1, <2>5 DEF L!getUpdateTimeout
    <3>2. m_updateList' \subseteq Shown
      BY <1>1, <2>5 DEF L!getUpdateTimeout
    <3>3. UNCHANGED <<AllPkgList, m_updateInfo, g_offline, doing, sent>>
      BY <2>5 DEF L!getUpdateTimeout
    <3>4. QED
      BY <1>1, <3>1, <3>2, <3>3
  <2>6. QED
    BY <2>1, <2>2, <2>3, <2>4, <2>5
<1>5. \A n \in Name \ untold' : RowFollows(n)'
  BY <1>2, RowStays DEF ListIInv
<1>6. \A n \in Name \ (outdated' \cup gone') : OfferFollows(n)'
  <2>1. \A n : doing = [action |-> "update", name |-> n] => UNCHANGED doing
    BY <1>2 DEF L!NoTask
  <2>2. QED
    BY <1>2, <2>1, OfferStays DEF ListIInv
<1>7. OutdatedStayOffered'
  BY <1>2 DEF ListIInv, OutdatedStayOffered, L!OutdatedStayOffered, L!Hold
<1>8. QED
  BY <1>3, <1>4, <1>5, <1>6, <1>7 DEF ListIInv, ListTypes
\* A signal comes: what it says of the rows and of the updates.
LEMMA ListsDeliver ==
  ASSUME ListIInv, L!getAllPkgList \/ L!getUpdateFinished \/ L!getFinished \/ L!errorChged
  PROVE  ListIInv'
<1> HIDE DEF ListSignal
<1> DEFINE s == Head(wire)
<1>1. OnTheWire /\ ClientTypes /\ DaemonTypes
  BY DEF ListIInv, ListTypes
<1>2. /\ wire # <<>> /\ wire' = Tail(wire)
      /\ UNCHANGED <<g_updateDone, m_updateList, sent, installed, outdated, online, arg, busy,
                     gone, untold>>
  BY DEF L!getAllPkgList, L!getUpdateFinished, L!getFinished, L!errorChged, L!Signal, L!daemon,
         L!history
<1>3. Taken(s) /\ OnTheWire'
  BY <1>1, <1>2, ListTake
<1>4. s \in ListSignal
  BY <1>3 DEF Taken
<1>5. DaemonTypes'
  BY <1>1, <1>2 DEF DaemonTypes
<1> HIDE DEF s
<1>6. CASE L!getAllPkgList
  <2>1. /\ s.kind = "all"
        /\ AllPkgList' = [n \in Name |-> IF n \in s.names THEN "installed" ELSE "available"]
        /\ UNCHANGED <<m_updateInfo, g_offline, doing, updates, ended>>
    BY <1>6 DEF L!getAllPkgList, L!Signal, L!history, s
  <2>2. ClientTypes'
    BY <1>1, <1>2, <2>1 DEF ClientTypes
  <2>3. ASSUME NEW n \in Name \ untold' PROVE RowFollows(n)'
    <3>1. AllPkgList'[n] = (IF n \in s.names THEN "installed" ELSE "available")
      BY <2>1
    <3>2. Speaks(s, n) /\ (AllPkgList'[n] = "installed" <=> Says(s, n))
      BY <2>1, <3>1 DEF Speaks, Says
    <3>3. RowFollows(n)
      BY <1>2 DEF ListIInv
    <3>4. QED
      BY <1>2, <1>3, <3>2, <3>3, RowTaken
  <2>4. ASSUME NEW n \in Name \ (outdated' \cup gone') PROVE OfferFollows(n)'
    <3>1. OfferFollows(n) /\ ~Ending(s, n)
      BY <1>2, <2>1 DEF ListIInv, Ending
    <3>2. QED
      BY <1>3, <2>1, <3>1, OfferTaken
  <2>5. OutdatedStayOffered'
    BY <2>1 DEF ListIInv, OutdatedStayOffered, L!OutdatedStayOffered, L!Hold
  <2>6. QED
    BY <1>3, <1>5, <2>2, <2>3, <2>4, <2>5 DEF ListIInv, ListTypes
<1>7. CASE L!getUpdateFinished
  <2>1. /\ s.kind = "update"
        /\ m_updateInfo' = s.names /\ updates' = s.names /\ ended' = {}
        /\ UNCHANGED <<AllPkgList, g_offline, doing>>
    BY <1>7 DEF L!getUpdateFinished, L!Signal, s
  <2>2. s.names \subseteq Name
    BY <1>4, <2>1 DEF ListSignal
  <2>3. ClientTypes'
    BY <1>1, <1>2, <2>1, <2>2 DEF ClientTypes
  <2>4. ASSUME NEW n \in Name \ untold' PROVE RowFollows(n)'
    <3>1. RowFollows(n) /\ ~Speaks(s, n)
      BY <1>2, <2>1 DEF ListIInv, Speaks
    <3>2. QED
      BY <1>2, <1>3, <2>1, <3>1, RowTaken
  <2>5. ASSUME NEW n \in Name \ (outdated' \cup gone') PROVE OfferFollows(n)'
    <3>1. OfferFollows(n) /\ ~Ending(s, n)
      BY <1>2, <2>1 DEF ListIInv, Ending
    <3>2. QED
      BY <1>3, <2>1, <3>1, OfferTaken
  <2>6. OutdatedStayOffered'
    BY <2>1 DEF OutdatedStayOffered, L!OutdatedStayOffered
  <2>7. QED
    BY <1>3, <1>5, <2>3, <2>4, <2>5, <2>6 DEF ListIInv, ListTypes
<1>8. CASE L!getFinished
  <2> DEFINE m == s.name
             updated == doing.name = m /\ doing.action = "update"
  <2>1. /\ s.kind = "finished"
        /\ AllPkgList' = [AllPkgList EXCEPT ![m] = L!StatusAfter(s.status, @)]
        /\ doing' = IF doing.name = m THEN L!NoTask ELSE doing
        /\ m_updateInfo' = IF updated THEN L!replace(m_updateInfo, m) ELSE m_updateInfo
        /\ ended' = IF updated THEN ended \cup {m} ELSE ended
        /\ UNCHANGED <<g_offline, updates>>
    BY <1>8 DEF L!getFinished, L!Signal, s
  <2>2. m \in Name /\ s.status \in {"INSTALLED", "INSTALL_ERROR", "REMOVED", "UPGRADED"}
    BY <1>4, <2>1 DEF ListSignal
  <2>3. m_updateInfo' \subseteq m_updateInfo \cup {Mangled}
        /\ (updated => m \notin m_updateInfo')
    <3>1. Mangled \notin Name
      BY ListsConstants DEF L!ConstantsOK
    <3>2. QED
      BY <2>1, <2>2, <3>1 DEF L!replace, L!Hold
  <2>4. ClientTypes'
    <3>1. AllPkgList' \in [Name -> {"unlisted", "installed", "available"}]
      BY <1>1, <2>1, <2>2 DEF ClientTypes, L!StatusAfter
    <3>2. doing' \in Tasks
      BY <1>1, <2>1 DEF ClientTypes, Tasks
    <3>3. QED
      BY <1>1, <1>2, <2>1, <2>3, <3>1, <3>2 DEF ClientTypes
  <2>5. ASSUME NEW n \in Name \ untold' PROVE RowFollows(n)'
    <3>1. RowFollows(n)
      BY <1>2 DEF ListIInv
    <3>2. CASE n = m
      <4>1. AllPkgList'[n] = L!StatusAfter(s.status, AllPkgList[n])
        BY <1>1, <2>1, <3>2 DEF ClientTypes
      <4>2. IF Speaks(s, n)
              THEN AllPkgList'[n] = "unlisted" \/ (AllPkgList'[n] = "installed" <=> Says(s, n))
              ELSE AllPkgList'[n] = AllPkgList[n]
        BY <2>1, <2>2, <3>2, <4>1 DEF Speaks, Says, L!StatusAfter
      <4>3. QED
        BY <1>2, <1>3, <3>1, <4>2, RowTaken
    <3>3. CASE n # m
      <4>1. AllPkgList'[n] = AllPkgList[n] /\ ~Speaks(s, n)
        BY <1>1, <2>1, <3>3 DEF ClientTypes, Speaks
      <4>2. QED
        BY <1>2, <1>3, <3>1, <4>1, RowTaken
    <3>4. QED
      BY <3>2, <3>3
  <2>6. ASSUME NEW n \in Name \ (outdated' \cup gone') PROVE OfferFollows(n)'
    <3>1. OfferFollows(n)
      BY <1>2 DEF ListIInv
    <3>2. Ending(s, n) <=> n = m
      BY <2>1 DEF Ending
    <3>3. Ending(s, n) \/ UNCHANGED doing \/ doing # [action |-> "update", name |-> n]
      BY <2>1, <3>2
    <3>4. n # Mangled
      BY ListsConstants DEF L!ConstantsOK
    <3>5. n \in m_updateInfo' =>
            n \in m_updateInfo /\ ~(Ending(s, n) /\ doing = [action |-> "update", name |-> n])
      BY <2>3, <3>2, <3>4
    <3>6. QED
      BY <1>3, <2>1, <3>1, <3>3, <3>5, OfferTaken
  <2>7. OutdatedStayOffered'
    <3> SUFFICES ASSUME NEW n \in updates, \A e \in ended' : n \notin L!Hold(e)
                 PROVE  n \in m_updateInfo'
      BY <2>1 DEF OutdatedStayOffered, L!OutdatedStayOffered, L!Hold
    <3>1. n \in m_updateInfo
      BY <2>1 DEF ListIInv, OutdatedStayOffered, L!OutdatedStayOffered
    <3>2. QED
      BY <2>1, <3>1 DEF L!replace
  <2>8. QED
    BY <1>3, <1>5, <2>4, <2>5, <2>6, <2>7 DEF ListIInv, ListTypes
<1>9. CASE L!errorChged
  <2>1. /\ s.kind = "network" /\ g_offline' = ~s.on
        /\ UNCHANGED <<AllPkgList, m_updateInfo, doing, updates, ended>>
    BY <1>9 DEF L!errorChged, L!Signal, L!history, s
  <2>2. ClientTypes'
    BY <1>1, <1>2, <2>1 DEF ClientTypes
  <2>3. ASSUME NEW n \in Name \ untold' PROVE RowFollows(n)'
    <3>1. RowFollows(n) /\ ~Speaks(s, n)
      BY <1>2, <2>1 DEF ListIInv, Speaks
    <3>2. QED
      BY <1>2, <1>3, <2>1, <3>1, RowTaken
  <2>4. ASSUME NEW n \in Name \ (outdated' \cup gone') PROVE OfferFollows(n)'
    <3>1. OfferFollows(n) /\ ~Ending(s, n)
      BY <1>2, <2>1 DEF ListIInv, Ending
    <3>2. QED
      BY <1>3, <2>1, <3>1, OfferTaken
  <2>5. OutdatedStayOffered'
    BY <2>1 DEF ListIInv, OutdatedStayOffered, L!OutdatedStayOffered, L!Hold
  <2>6. QED
    BY <1>3, <1>5, <2>2, <2>3, <2>4, <2>5 DEF ListIInv, ListTypes
<1>10. QED
  BY <1>6, <1>7, <1>8, <1>9

\* A step of the daemon that sends nothing: what is outdated may grow.
LEMMA ListsQuiet ==
  ASSUME ListIInv, OnTheWire', ClientTypes', DaemonTypes',
         UNCHANGED <<wire, AllPkgList, m_updateInfo, doing, installed, updates, ended, gone,
                     untold>>,
         outdated \subseteq outdated'
  PROVE  ListIInv'
<1>1. \A n \in Name \ untold' : RowFollows(n)'
  BY RowStays DEF ListIInv
<1>2. \A n \in Name \ (outdated' \cup gone') : OfferFollows(n)'
  BY OfferStays DEF ListIInv
<1>3. OutdatedStayOffered'
  BY DEF ListIInv, OutdatedStayOffered, L!OutdatedStayOffered, L!Hold
<1>4. QED
  BY <1>1, <1>2, <1>3 DEF ListIInv, ListTypes
\* A call is accepted, by the daemon's one argument, or refused.
LEMMA ListAccept ==
  ASSUME DaemonTypes, NEW op, NEW n, [op |-> op, name |-> n] \in ListCall, L!Accept(op, n),
         UNCHANGED <<installed, outdated, online>>
  PROVE  DaemonTypes'
<1>1. /\ op \in L!Method \cup L!List /\ (op \in L!Method => n \in Name)
      /\ arg' = (IF op \in L!Method THEN n ELSE arg)
      /\ busy' = IF busy = L!NoJob THEN [op |-> op, name |-> NoName, pc |-> "asked"] ELSE busy
  BY DEF ListCall, L!Method, L!List, L!Accept
<1>2. arg' \in Name \cup {NoName} /\ (arg \in Name => arg' \in Name)
  BY <1>1 DEF DaemonTypes
<1>3. CASE busy = L!NoJob
  <2>1. busy'.op = op /\ busy'.pc = "asked" /\ (op \in L!Method => arg' \in Name)
    BY <1>1, <1>3
  <2>2. busy' \in [op : L!Method \cup L!List \cup {"none"}, name : Name \cup {NoName},
                   pc : {"idle", "asked", "works"}]
    BY <1>1, <1>3
  <2>3. QED
    BY <1>2, <2>1, <2>2 DEF DaemonTypes
<1>4. CASE busy # L!NoJob
  BY <1>1, <1>2, <1>4 DEF DaemonTypes
<1>5. QED
  BY <1>3, <1>4

\* The daemon takes calls, and the worker begins.
LEMMA ListsDispatch ==
  ASSUME ListIInv, L!Dispatch \/ L!OtherCall \/ L!Begin
  PROVE  ListIInv'
<1>1. OnTheWire /\ ClientTypes /\ DaemonTypes
  BY DEF ListIInv, ListTypes
<1>2. UNCHANGED <<wire, AllPkgList, m_updateInfo, m_updateList, g_offline, g_updateDone, doing,
                  installed, online, updates, ended, gone, untold>>
  BY DEF L!Dispatch, L!OtherCall, L!Begin, L!client, L!history
<1>3. OnTheWire'
  BY <1>1, <1>2 DEF OnTheWire
<1>4. CASE L!Dispatch
  <2> DEFINE c == Head(sent)
  <2>1. /\ sent # <<>> /\ sent' = Tail(sent) /\ UNCHANGED outdated
        /\ L!Accept(c.op, c.name)
    BY <1>4 DEF L!Dispatch
  <2>2. /\ c \in ListCall /\ sent' \in Seq(ListCall) /\ Len(sent') <= MaxCalls
    <3>1. MaxCalls \in Nat
      BY ListsConstants DEF L!ConstantsOK
    <3> HIDE DEF ListCall
    <3>2. QED
      BY <1>1, <2>1, <3>1, HeadTailProperties, EmptySeq, LenProperties DEF ClientTypes
  <2> HIDE DEF c
  <2>3. [op |-> c.op, name |-> c.name] \in ListCall
    BY <2>2 DEF ListCall
  <2>4. DaemonTypes'
    BY <1>1, <1>2, <2>1, <2>3, ListAccept
  <2>5. ClientTypes'
    BY <1>1, <1>2, <2>2 DEF ClientTypes
  <2>6. QED
    BY <1>2, <1>3, <2>1, <2>4, <2>5, ListsQuiet
<1>5. CASE L!OtherCall
  <2>1. PICK op \in L!Method, n \in Name : L!Accept(op, n)
    BY <1>5 DEF L!OtherCall
  <2>2. [op |-> op, name |-> n] \in ListCall /\ UNCHANGED <<sent, outdated>>
    BY <1>5 DEF L!OtherCall, ListCall
  <2>3. DaemonTypes'
    BY <1>1, <1>2, <2>1, <2>2, ListAccept
  <2>4. ClientTypes'
    BY <1>1, <1>2, <2>2 DEF ClientTypes
  <2>5. QED
    BY <1>2, <1>3, <2>2, <2>3, <2>4, ListsQuiet
<1>6. CASE L!Begin
  <2>1. /\ UNCHANGED <<sent, arg>> /\ outdated' \in {outdated, installed}
        /\ busy' = [busy EXCEPT !.pc = "works",
                                !.name = IF busy.op \in L!Method THEN arg ELSE NoName]
    BY <1>6 DEF L!Begin
  <2>2. outdated \subseteq outdated' /\ outdated' \subseteq installed
    BY <1>1, <2>1 DEF DaemonTypes
  <2>3. DaemonTypes'
    <3>1. /\ busy'.op = busy.op /\ busy'.pc = "works"
          /\ busy'.name = IF busy.op \in L!Method THEN arg ELSE NoName
      BY <1>1, <2>1 DEF DaemonTypes
    <3>2. busy' \in [op : L!Method \cup L!List \cup {"none"}, name : Name \cup {NoName},
                     pc : {"idle", "asked", "works"}]
      BY <1>1, <2>1 DEF DaemonTypes
    <3>3. QED
      BY <1>1, <1>2, <2>1, <2>2, <3>1, <3>2 DEF DaemonTypes
  <2>4. ClientTypes'
    BY <1>1, <1>2, <2>1 DEF ClientTypes
  <2>5. QED
    BY <1>2, <1>3, <2>2, <2>3, <2>4, ListsQuiet
<1>7. QED
  BY <1>4, <1>5, <1>6

\* The client's part of a step of the daemon.
LEMMA ClientRests ==
  ASSUME ListIInv, UNCHANGED L!client, UNCHANGED sent, UNCHANGED <<updates, ended>>
  PROVE  ClientTypes' /\ OutdatedStayOffered'
<1>1. UNCHANGED <<AllPkgList, m_updateInfo, g_offline, g_updateDone, m_updateList, doing>>
  BY DEF L!client
<1>2. ClientTypes'
  BY <1>1 DEF ListIInv, ListTypes, ClientTypes
<1>3. OutdatedStayOffered'
  BY <1>1 DEF ListIInv, OutdatedStayOffered, L!OutdatedStayOffered, L!Hold
<1>4. QED
  BY <1>2, <1>3

\* The job is over, and its name free.
LEMMA JobIsOver ==
  ASSUME DaemonTypes, busy' = L!NoJob, UNCHANGED <<online, arg>>,
         installed' \subseteq Name, outdated' \subseteq installed'
  PROVE  DaemonTypes'
<1>1. busy' = [op |-> "none", name |-> NoName, pc |-> "idle"]
  BY DEF L!NoJob
<1>2. QED
  BY <1>1 DEF DaemonTypes, L!Method

\* The lists, and the network's signal.
LEMMA ListsAnswer ==
  ASSUME ListIInv, L!search \/ L!listUpdate \/ L!nm_signal
  PROVE  ListIInv'
<1> HIDE DEF ListSignal
<1>1. OnTheWire /\ ClientTypes /\ DaemonTypes
  BY DEF ListIInv, ListTypes
<1>2. ClientTypes' /\ OutdatedStayOffered'
  BY ClientRests DEF L!search, L!listUpdate, L!nm_signal, L!history
<1>3. UNCHANGED <<AllPkgList, m_updateInfo, doing, installed, arg>>
  BY DEF L!search, L!listUpdate, L!nm_signal, L!client
<1>4. CASE L!search
  <2> DEFINE s == [kind |-> "all", names |-> installed]
  <2>1. /\ busy' = L!NoJob /\ UNCHANGED <<outdated, online, gone>>
        /\ (L!Send(s) /\ untold' = {}) \/ UNCHANGED <<wire, untold>>
    BY <1>4 DEF L!search, L!Ready
  <2>2. DaemonTypes'
    BY <1>1, <1>3, <2>1, JobIsOver DEF DaemonTypes
  <2>3. CASE L!Send(s) /\ untold' = {}
    <3>1. s \in ListSignal
      BY <1>1 DEF ListSignal, DaemonTypes
    <3>2. Put(s) /\ OnTheWire'
      BY <1>1, <2>3, <3>1, ListSend
    <3>3. ASSUME NEW n \in Name PROVE RowFollows(n)'
      <4>1. Speaks(s, n) /\ (Says(s, n) <=> n \in installed')
        BY <1>3 DEF Speaks, Says
      <4> HIDE DEF s
      <4>2. QED
        BY <3>2, <4>1, RowSaid
    <3>4. ASSUME NEW n \in Name \ (outdated' \cup gone') PROVE OfferFollows(n)'
      <4>1. OfferFollows(n) /\ s.kind # "update"
        BY <2>1 DEF ListIInv
      <4> HIDE DEF s
      <4>2. QED
        BY <1>3, <3>2, <4>1, OfferPut
    <3>5. QED
      BY <1>2, <2>2, <3>2, <3>3, <3>4 DEF ListIInv, ListTypes
  <2>4. CASE UNCHANGED <<wire, untold>>
    <3>1. OnTheWire' /\ UNCHANGED <<updates, ended>>
      BY <1>1, <1>4, <2>4 DEF OnTheWire, L!search
    <3>2. QED
      BY <1>2, <1>3, <2>1, <2>2, <2>4, <3>1, ListsQuiet
  <2>5. QED
    BY <2>1, <2>3, <2>4
<1>5. CASE L!listUpdate
  <2> DEFINE s == [kind |-> "update", names |-> outdated]
  <2>1. /\ busy' = L!NoJob /\ UNCHANGED <<outdated, online, untold>>
        /\ L!Send(s) /\ gone' = {}
    BY <1>5 DEF L!listUpdate, L!Ready
  <2>2. DaemonTypes'
    BY <1>1, <1>3, <2>1, JobIsOver DEF DaemonTypes
  <2>3. s \in ListSignal
    BY <1>1 DEF ListSignal, DaemonTypes
  <2>4. Put(s) /\ OnTheWire'
    BY <1>1, <2>1, <2>3, ListSend
  <2>5. ASSUME NEW n \in Name \ untold' PROVE RowFollows(n)'
    <3>1. RowFollows(n) /\ ~Speaks(s, n)
      BY <2>1 DEF ListIInv, Speaks
    <3> HIDE DEF s
    <3>2. QED
      BY <1>3, <2>4, <3>1, RowPut
  <2>6. ASSUME NEW n \in Name \ (outdated' \cup gone') PROVE OfferFollows(n)'
    <3>1. n \notin s.names /\ s.kind = "update"
      BY <2>1
    <3> HIDE DEF s
    <3>2. QED
      BY <1>3, <2>4, <3>1, OfferNot
  <2>7. QED
    BY <1>2, <2>2, <2>4, <2>5, <2>6 DEF ListIInv, ListTypes
<1>6. CASE L!nm_signal
  <2> DEFINE s == [kind |-> "network", on |-> online']
  <2>1. /\ online' = ~online
        /\ outdated' \in IF online' THEN {outdated, installed} ELSE {outdated}
        /\ L!Send(s) /\ UNCHANGED <<busy, gone, untold>>
    BY <1>6 DEF L!nm_signal, L!history
  <2>2. outdated \subseteq outdated' /\ outdated' \subseteq installed /\ online' \in BOOLEAN
    BY <1>1, <2>1 DEF DaemonTypes
  <2>3. DaemonTypes'
    BY <1>1, <1>3, <2>1, <2>2 DEF DaemonTypes
  <2>4. s \in ListSignal
    BY <2>2 DEF ListSignal
  <2>5. Put(s) /\ OnTheWire'
    BY <1>1, <2>1, <2>4, ListSend
  <2>6. ASSUME NEW n \in Name \ untold' PROVE RowFollows(n)'
    <3>1. RowFollows(n) /\ ~Speaks(s, n)
      BY <2>1 DEF ListIInv, Speaks
    <3> HIDE DEF s
    <3>2. QED
      BY <1>3, <2>5, <3>1, RowPut
  <2>7. ASSUME NEW n \in Name \ (outdated' \cup gone') PROVE OfferFollows(n)'
    <3>1. OfferFollows(n) /\ s.kind # "update"
      BY <2>1, <2>2 DEF ListIInv
    <3> HIDE DEF s
    <3>2. QED
      BY <1>3, <2>5, <3>1, OfferPut
  <2>8. QED
    BY <1>2, <2>3, <2>5, <2>6, <2>7 DEF ListIInv, ListTypes
<1>7. QED
  BY <1>4, <1>5, <1>6
\* A job ends, with what it has changed of the packages and its Finished.
LEMMA ListsFinish ==
  ASSUME ListIInv, NEW op \in L!Method, NEW db, NEW rest,
         NEW st \in {"INSTALLED", "INSTALL_ERROR", "REMOVED", "UPGRADED"},
         L!Finish(op, db, rest, st), db \subseteq Name, rest \subseteq db, rest \subseteq outdated
  PROVE  ListIInv'
<1> HIDE DEF ListSignal
<1> DEFINE s == [kind |-> "finished", name |-> arg, status |-> st]
           row(n) == IF n # arg THEN n \in installed
                     ELSE CASE st = "INSTALLED" -> TRUE
                            [] st \in {"REMOVED", "INSTALL_ERROR"} -> FALSE
                            [] OTHER -> n \in installed
<1>1. OnTheWire /\ ClientTypes /\ DaemonTypes
  BY DEF ListIInv, ListTypes
<1>2. /\ busy.op = op /\ busy' = L!NoJob /\ L!Send(s)
      /\ installed' = db /\ outdated' = rest
      /\ gone' = gone \cup {n \in outdated \ rest : ~L!TaskOf(n)}
      /\ untold' = untold \cup {n \in Name : row(n) # (n \in db)}
      /\ UNCHANGED L!client /\ UNCHANGED <<sent, online, arg, updates, ended>>
  BY DEF L!Finish, L!Ready
<1>3. ClientTypes' /\ OutdatedStayOffered'
  BY <1>2, ClientRests
<1>4. UNCHANGED <<AllPkgList, m_updateInfo, doing>>
  BY <1>2 DEF L!client
<1>5. DaemonTypes'
  BY <1>1, <1>2, JobIsOver
<1>6. arg \in Name /\ s \in ListSignal
  BY <1>1, <1>2 DEF DaemonTypes, ListSignal
<1>7. Put(s) /\ OnTheWire'
  BY <1>1, <1>2, <1>6, ListSend
<1>8. ASSUME NEW n \in Name \ untold' PROVE RowFollows(n)'
  <2>1. RowFollows(n) /\ row(n) = (n \in installed')
    BY <1>2 DEF ListIInv
  <2>2. CASE n = arg /\ st \in {"INSTALLED", "REMOVED", "INSTALL_ERROR"}
    <3>1. Speaks(s, n) /\ (Says(s, n) <=> n \in installed')
      BY <2>1, <2>2 DEF Speaks, Says
    <3> HIDE DEF s
    <3>2. QED
      BY <1>7, <3>1, RowSaid
  <2>3. CASE n # arg \/ st = "UPGRADED"
    <3>1. ~Speaks(s, n)
      BY <2>3 DEF Speaks
    <3>2. n \in installed' <=> n \in installed
      BY <2>1, <2>3
    <3> HIDE DEF s, row
    <3>3. QED
      BY <1>4, <1>7, <2>1, <3>1, <3>2, RowPut
  <2>4. QED
    BY <2>2, <2>3
<1>9. ASSUME NEW n \in Name \ (outdated' \cup gone') PROVE OfferFollows(n)'
  <2>1. CASE n \in outdated
    <3>1. L!TaskOf(n)
      BY <1>2, <2>1
    <3>2. /\ doing = [action |-> "update", name |-> n] /\ Ending(s, n)
          /\ \A i \in 1 .. Len(wire) : ~Ending(wire[i], n)
      BY <1>7, <3>1 DEF L!TaskOf, Ending, OnTheWire
    <3> HIDE DEF s
    <3>3. QED
      BY <1>4, <1>7, <3>2, OfferEnds
  <2>2. CASE n \notin outdated
    <3>1. OfferFollows(n) /\ s.kind # "update"
      BY <1>2, <2>2 DEF ListIInv
    <3> HIDE DEF s
    <3>2. QED
      BY <1>4, <1>7, <3>1, OfferPut
  <2>3. QED
    BY <2>1, <2>2
<1>10. QED
  BY <1>3, <1>5, <1>7, <1>8, <1>9 DEF ListIInv, ListTypes

\* The three jobs.
LEMMA ListsJobs ==
  ASSUME ListIInv, L!install \/ L!remove \/ L!upgrade
  PROVE  ListIInv'
<1>1. /\ outdated \subseteq installed /\ installed \subseteq Name
      /\ {"Install", "Remove", "Upgrade"} = L!Method
  BY DEF ListIInv, ListTypes, DaemonTypes, L!Method
<1>2. CASE L!install
  <2>1. PICK db \in SUBSET Name, st \in {"INSTALLED", "INSTALL_ERROR"} :
               installed \subseteq db /\ L!Finish("Install", db, outdated, st)
    BY <1>1, <1>2 DEF L!install
  <2>2. QED
    BY <1>1, <2>1, ListsFinish
<1>3. CASE L!remove
  <2>1. PICK db \in SUBSET installed : L!Finish("Remove", db, outdated \cap db, "REMOVED")
    BY <1>3 DEF L!remove
  <2>2. db \subseteq Name /\ outdated \cap db \subseteq db /\ outdated \cap db \subseteq outdated
    BY <1>1
  <2>3. QED
    BY <1>1, <2>1, <2>2, ListsFinish
<1>4. CASE L!upgrade
  <2>1. PICK rest \in SUBSET outdated : L!Finish("Upgrade", installed, rest, "UPGRADED")
    BY <1>4 DEF L!upgrade
  <2>2. rest \subseteq installed
    BY <1>1
  <2>3. QED
    BY <1>1, <2>1, <2>2, ListsFinish
<1>5. QED
  BY <1>2, <1>3, <1>4

LEMMA ListsStep == ListIInv /\ [L!Next]_(L!vars) => ListIInv'
<1>1. ASSUME ListIInv, UNCHANGED L!vars PROVE ListIInv'
  <2>1. /\ UNCHANGED L!client /\ UNCHANGED <<sent, updates, ended, gone, untold>>
        /\ UNCHANGED <<wire, AllPkgList, m_updateInfo, doing, installed, outdated, online,
                       arg, busy>>
    BY <1>1 DEF L!vars, L!client, L!daemon, L!history
  <2>2. ClientTypes'
    BY <1>1, <2>1, ClientRests
  <2>3. OnTheWire' /\ DaemonTypes'
    BY <1>1, <2>1 DEF ListIInv, ListTypes, OnTheWire, DaemonTypes
  <2>4. QED
    BY <1>1, <2>1, <2>2, <2>3, ListsQuiet
<1>2. QED
  BY <1>1, ListsAsk, ListsDeliver, ListsDispatch, ListsAnswer, ListsJobs DEF L!Next, L!Deliver

\* When nothing is on its way, the lists are what they will be.
LEMMA ListsSettled == ListIInv => OfferedAreOutdated /\ OutdatedStayOffered /\ RowsInv
<1> SUFFICES ASSUME ListIInv PROVE OfferedAreOutdated /\ RowsInv
  BY DEF ListIInv
<1>1. OnTheWire /\ ClientTypes /\ DaemonTypes
  BY DEF ListIInv, ListTypes
<1>2. OfferedAreOutdated
  <2> SUFFICES ASSUME wire = <<>>, NEW n \in m_updateInfo \ {Mangled}, n \notin outdated \cup gone
               PROVE  FALSE
    BY DEF OfferedAreOutdated, L!OfferedAreOutdated
  <2>1. n \in Name /\ OfferFollows(n)
    BY <1>1 DEF ListIInv, ClientTypes
  <2>2. NoUpdate(0) /\ ~Comes(n, 0)
    BY DEF NoUpdate, Comes
  <2>3. QED
    BY <2>1, <2>2 DEF OfferFollows
<1>3. L!RowsAreSo
  <2> SUFFICES ASSUME wire = <<>>, NEW n \in Name \ untold, L!getInfo(n) # "UnknownInfo"
               PROVE  (L!getInfo(n) = "InfoInstalled") = (n \in installed)
    BY DEF L!RowsAreSo
  <2>1. RowFollows(n) /\ Silent(n, 0)
    BY DEF ListIInv, Silent
  <2>2. AllPkgList[n] # "unlisted" /\ (L!getInfo(n) = "InfoInstalled" <=> AllPkgList[n] = "installed")
    BY DEF L!getInfo
  <2>3. QED
    BY <2>1, <2>2 DEF RowFollows
<1>4. L!TypeOK
  <2>1. {g_offline, g_updateDone, online} \subseteq BOOLEAN
    BY <1>1, Zenon DEF ClientTypes, DaemonTypes
  <2>2. QED
    BY <1>1, <2>1 DEF L!TypeOK, OnTheWire, ClientTypes, DaemonTypes
<1>5. QED
  BY <1>2, <1>3, <1>4 DEF RowsInv, L!RowsInv

\* When nothing is on its way, a package that qjade offers to update is
\* outdated, unless it went with another, for someone else, or under another
\* name since that list was made: for any packages, calls and signals.
THEOREM OffersAreOutdated == L!Spec => []OfferedAreOutdated
BY ListsInit, ListsStep, ListsSettled, PTL DEF L!Spec

\* An update that ends takes nothing from the list but its own entry and those
\* whose names hold its name.
THEOREM OthersStayOffered == L!Spec => []OutdatedStayOffered
BY ListsInit, ListsStep, ListsSettled, PTL DEF L!Spec

\* When nothing is on its way, a row says whether its package is installed,
\* unless since the last whole list a Finished did not tell.
THEOREM RowsTellTheTruth == L!Spec => []RowsInv
BY ListsInit, ListsStep, ListsSettled, PTL DEF L!Spec
=============================================================================
