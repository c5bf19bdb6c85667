-------------------------------- MODULE Settings --------------------------------
(***************************************************************************)
(* Where the daemon keeps the rpm files and when it removes them: the      *)
(* global g_rpmPathMode and its copy rpmpathmode.cfg (src/daemon.cpp,      *)
(* src/isoftapp.cpp).                                                      *)
(*                                                                         *)
(* SetPathMode writes the global on the main loop, byte by byte, while a   *)
(* worker that installs takes a path from it for every file, and the       *)
(* cleaning does for every name of the directory it has opened.  Workers   *)
(* exclude one another by the mutex.  Mode 1 removes the files after the   *)
(* installation, mode 2 after a week, any other never.                     *)
(*                                                                         *)
(* A file is "fresh", "old" (of more than a week), "bad" (not what the     *)
(* table's checksum says) or "none".  Bytes of a path that is being        *)
(* written are Torn, a directory that is not there.                        *)
(***************************************************************************)
EXTENDS Naturals, Sequences, FiniteSets

CONSTANTS
  Dirs,      \* directories that may be chosen, Default among them
  Default,   \* <cache>/rpms
  Blank,     \* the path without a character
  Torn,      \* a mixture of two paths
  Chosen,    \* the settings the user may choose
  Files,     \* the files of an installation, in order
  Unset,     \* no file rpmpathmode.cfg, or no answer
  Short,     \* one without contents
  MaxSets,   \* a bound on the calls of SetPathMode
  MaxWeeks,  \* a bound on the weeks
  MaxStops   \* a bound on the restarts

ConstantsOK ==
  /\ Default \in Dirs
  /\ Blank \notin Dirs /\ Torn \notin Dirs /\ Torn # Blank
  /\ Chosen \subseteq [path : Dirs \cup {Blank}, mode : 1 .. 3]
  /\ MaxSets \in Nat /\ MaxWeeks \in Nat /\ MaxStops \in Nat

VARIABLES
  g_rpmPathMode, \* the global: path and mode
  setting,       \* rpmpathmode.cfg
  setter,        \* the SetPathMode under way on the main loop
  answer,        \* what SettingsChanged last said of the setting in force
  dirs,          \* the directories that are there
  disk,          \* the files
  lock,          \* whose the mutex is
  job,           \* the installation
  cleaner,       \* the timer's worker
  sets, weeks, stops,
  changed,       \* history: the global has changed since the job began
  unsaved        \* history: the global has not been written to the file

vars == <<g_rpmPathMode, setting, setter, answer, dirs, disk, lock, job, cleaner,
          sets, weeks, stops, changed, unsaved>>
calls == <<g_rpmPathMode, setting, setter, answer, sets, unsaved>>
workers == <<lock, job, cleaner>>

File == {Files[i] : i \in DOMAIN Files}
Setting == [path : Dirs \cup {Blank}, mode : 1 .. 3]
IdleSetter == [pc |-> "idle", path |-> Blank, mode |-> 3]
NoJob == [kind |-> "none", pc |-> "idle", at |-> 1, argv |-> <<>>, done |-> FALSE]
IdleCleaner == [pc |-> "idle", names |-> {}]

\* Without the file, or with a short one, the path is blank and the mode -1:
\* one of those that never remove.
getRpmPathMode == IF setting \in {Unset, Short} THEN [path |-> Blank, mode |-> 3] ELSE setting

FilePath(path) == IF path = Blank THEN Default ELSE path

\* main() makes the directory that is in force.
main(there) == there \cup {FilePath(getRpmPathMode.path)}

Init ==
  /\ setting = Unset
  /\ g_rpmPathMode = getRpmPathMode
  /\ setter = IdleSetter /\ answer = Unset
  /\ dirs = main({})
  /\ disk = [d \in Dirs |-> [f \in File |-> "none"]]
  /\ lock = "free" /\ job = NoJob /\ cleaner = IdleCleaner
  /\ sets = 0 /\ weeks = 0 /\ stops = 0
  /\ changed = FALSE /\ unsaved = FALSE

-----------------------------------------------------------------------------

\* SetPathMode, without "file://", begins to write the path ...
daemon_set_path_mode(s) ==
  /\ setter.pc = "idle" /\ sets < MaxSets
  /\ sets' = sets + 1
  /\ setter' = [pc |-> "path", path |-> s.path, mode |-> s.mode]
  /\ g_rpmPathMode' = [g_rpmPathMode EXCEPT !.path = Torn]
  /\ answer' = Unset
  /\ changed' = TRUE /\ unsaved' = TRUE
  /\ UNCHANGED <<setting, dirs, disk, workers, weeks, stops>>

SetterGoes(from, to) == setter.pc = from /\ setter' = [setter EXCEPT !.pc = to]

\* ... has written it ...
SetPath ==
  /\ SetterGoes("path", "mode")
  /\ g_rpmPathMode' = [g_rpmPathMode EXCEPT !.path = setter.path]
  /\ changed' = TRUE
  /\ UNCHANGED <<setting, answer, dirs, disk, workers, sets, weeks, stops, unsaved>>

\* ... and the mode; atoi() of the mode's text.
SetMode ==
  /\ SetterGoes("mode", "open")
  /\ g_rpmPathMode' = [g_rpmPathMode EXCEPT !.mode = setter.mode]
  /\ changed' = TRUE
  /\ UNCHANGED <<setting, answer, dirs, disk, workers, sets, weeks, stops, unsaved>>

\* The file is made if need be; it may be impossible to open.
OpenSetting ==
  /\ \/ /\ SetterGoes("open", "write")
        /\ setting' = IF setting = Unset THEN Short ELSE setting
     \/ SetterGoes("open", "idle") /\ UNCHANGED setting
  /\ UNCHANGED <<g_rpmPathMode, answer, dirs, disk, workers, sets, weeks, stops, changed, unsaved>>

\* Mutant: what is written is what was set before.
WriteSetting_Path ==
  /\ SetterGoes("write", "idle")
  /\ setting' = [path |-> g_rpmPathMode.path, mode |-> 3]
  /\ unsaved' = FALSE
  /\ UNCHANGED <<g_rpmPathMode, answer, dirs, disk, workers, sets, weeks, stops, changed>>

\* The result of write() is not looked at.
WriteSetting ==
  /\ SetterGoes("write", "idle")
  /\ \/ setting' = g_rpmPathMode /\ unsaved' = FALSE
     \/ UNCHANGED <<setting, unsaved>>
  /\ UNCHANGED <<g_rpmPathMode, answer, dirs, disk, workers, sets, weeks, stops, changed>>

\* GetPathMode reads the file, not the global.
daemon_get_path_mode ==
  /\ setter.pc = "idle"
  /\ answer' = CASE setting = Unset -> [path |-> Default, mode |-> 3]
                 [] setting = Short -> [path |-> Blank, mode |-> 3]
                 [] OTHER           -> setting
  /\ UNCHANGED <<g_rpmPathMode, setting, setter, dirs, disk, workers, sets, weeks, stops,
                 changed, unsaved>>

MainLoop ==
  \/ \E s \in Chosen : daemon_set_path_mode(s)
  \/ SetPath \/ SetMode \/ OpenSetting \/ WriteSetting \/ daemon_get_path_mode

-----------------------------------------------------------------------------

\* A worker takes the mutex and installs or upgrades the files.
StartJob(kind) ==
  /\ lock = "free" /\ job = NoJob
  /\ lock' = "job"
  /\ job' = [NoJob EXCEPT !.kind = kind, !.pc = "each"]
  /\ changed' = (setter.pc \notin {"idle", "open", "write"})
  /\ UNCHANGED <<calls, dirs, disk, cleaner, weeks, stops>>

isFileExist(x) ==
  x.dir \in dirs /\ x.file \in File /\ disk[x.dir][x.file] \in {"fresh", "old"}

Append1(x) == [job EXCEPT !.argv = Append(@, x), !.done = TRUE, !.at = @ + 1]

\* What download_file() and download_routine() may leave at a path: nothing
\* where there is no directory.
download_file(x) == IF x.dir \in dirs THEN {"none", "bad", "fresh"} ELSE {"none"}

\* One file: its path is made from the global; it is fetched if it is not
\* there with the right checksum.  An installation ends at a bad file.
realInstall ==
  /\ job.pc = "each" /\ job.at \in DOMAIN Files
  /\ LET x == [dir |-> FilePath(g_rpmPathMode.path), file |-> Files[job.at]]
     IN IF isFileExist(x)
          THEN job' = Append1(x) /\ UNCHANGED disk
          ELSE \E got \in download_file(x) :
                 /\ disk' = IF x.dir \in dirs /\ got # "none"
                              THEN [disk EXCEPT ![x.dir][x.file] = got] ELSE disk
                 /\ job' = IF got = "fresh" \/ job.kind = "upgrade" THEN Append1(x)
                           ELSE [job EXCEPT !.done = FALSE, !.at = Len(Files) + 1]
  /\ UNCHANGED <<calls, dirs, lock, cleaner, weeks, stops, changed>>

\* rpmInstall() reads what it is handed over.
rpmInstall ==
  /\ job.pc = "each" /\ job.at \notin DOMAIN Files
  /\ job' = [job EXCEPT !.pc = IF job.done THEN "rpm" ELSE "end"]
  /\ UNCHANGED <<calls, dirs, disk, lock, cleaner, weeks, stops, changed>>

Without(gone) ==
  [d \in Dirs |-> [f \in File |-> IF [dir |-> d, file |-> f] \in gone THEN "none" ELSE disk[d][f]]]

\* Mutant: the directory in force is used, not the one of each file.
DeleteNow_Global ==
  /\ job.pc = "rpm"
  /\ disk' = IF g_rpmPathMode.mode = 1
               THEN Without({[dir |-> g_rpmPathMode.path, file |-> job.argv[i].file] :
                             i \in DOMAIN job.argv})
               ELSE disk
  /\ job' = [job EXCEPT !.pc = "end"]
  /\ UNCHANGED <<calls, dirs, lock, cleaner, weeks, stops, changed>>

\* Mode 1, as it is by now: what was handed over is removed.
DeleteNow ==
  /\ job.pc = "rpm"
  /\ disk' = IF g_rpmPathMode.mode = 1
               THEN Without({job.argv[i] : i \in DOMAIN job.argv})
               ELSE disk
  /\ job' = [job EXCEPT !.pc = "end"]
  /\ UNCHANGED <<calls, dirs, lock, cleaner, weeks, stops, changed>>

EndJob ==
  /\ job.pc = "end"
  /\ job' = NoJob /\ lock' = "free" /\ changed' = FALSE
  /\ UNCHANGED <<calls, dirs, disk, cleaner, weeks, stops>>

-----------------------------------------------------------------------------

\* g_dir_open(): the names of the files of a directory, if there is one.
NamesIn(path) == IF path \in dirs THEN {f \in File : disk[path][f] # "none"} ELSE {}

\* Mutant: the timer's worker does not ask for the mutex.
update_routine_NoLock ==
  /\ cleaner = IdleCleaner
  /\ g_rpmPathMode.mode = 2
  /\ lock' = lock
  /\ cleaner' = [pc |-> "each", names |-> NamesIn(g_rpmPathMode.path)]
  /\ UNCHANGED <<calls, dirs, disk, job, weeks, stops, changed>>

\* Update's or the timer's worker, after update(), in mode 2.
update_routine ==
  /\ lock = "free" /\ cleaner = IdleCleaner
  /\ g_rpmPathMode.mode = 2
  /\ lock' = "cleaner"
  /\ cleaner' = [pc |-> "each", names |-> NamesIn(g_rpmPathMode.path)]
  /\ UNCHANGED <<calls, dirs, disk, job, weeks, stops, changed>>

OldIn(path) == IF path \in dirs THEN {f \in File : disk[path][f] = "old"} ELSE {}

\* One name: its path is made from the global again.
delete_rpm_files(f) ==
  /\ f \in cleaner.names
  /\ disk' = IF f \in OldIn(g_rpmPathMode.path)
               THEN Without({[dir |-> g_rpmPathMode.path, file |-> f]}) ELSE disk
  /\ cleaner' = [cleaner EXCEPT !.names = @ \ {f}]
  /\ UNCHANGED <<calls, dirs, lock, job, weeks, stops, changed>>

EndClean ==
  /\ cleaner.pc = "each" /\ cleaner.names = {}
  /\ cleaner' = IdleCleaner
  /\ lock' = IF lock = "cleaner" THEN "free" ELSE lock
  /\ UNCHANGED <<calls, dirs, disk, job, weeks, stops, changed>>

\* The process stops anywhere, and is started again: main() reads the file
\* and daemon_init() cleans before any job can be asked for.
daemon_init ==
  /\ stops < MaxStops /\ stops' = stops + 1
  /\ g_rpmPathMode' = getRpmPathMode
  /\ dirs' = main(dirs)
  /\ disk' = IF getRpmPathMode.mode = 2
               THEN Without({[dir |-> getRpmPathMode.path, file |-> f] :
                             f \in OldIn(getRpmPathMode.path)})
               ELSE disk
  /\ setter' = IdleSetter /\ lock' = "free" /\ job' = NoJob /\ cleaner' = IdleCleaner
  /\ changed' = FALSE /\ unsaved' = FALSE
  /\ UNCHANGED <<setting, answer, sets, weeks>>

Week ==
  /\ weeks < MaxWeeks /\ weeks' = weeks + 1
  /\ disk' = [d \in Dirs |-> [f \in File |-> IF disk[d][f] = "fresh" THEN "old" ELSE disk[d][f]]]
  /\ UNCHANGED <<calls, dirs, workers, stops, changed>>

Next ==
  \/ MainLoop
  \/ \E kind \in {"install", "upgrade"} : StartJob(kind)
  \/ realInstall \/ rpmInstall \/ DeleteNow \/ EndJob
  \/ update_routine \/ EndClean
  \/ \E f \in File : delete_rpm_files(f)
  \/ daemon_init \/ Week

Spec == Init /\ [][Next]_vars

-----------------------------------------------------------------------------

Entry == [dir : Dirs \cup {Torn}, file : File]
HandedOver == {job.argv[i] : i \in DOMAIN job.argv}

TypeOK ==
  /\ g_rpmPathMode.path \in Dirs \cup {Blank, Torn} /\ g_rpmPathMode.mode \in 1 .. 3
  /\ setting \in Setting \cup {Unset, Short}
  /\ answer \in Setting \cup {Unset}
  /\ setter.pc \in {"idle", "path", "mode", "open", "write"}
  /\ dirs \subseteq Dirs
  /\ disk \in [Dirs -> [File -> {"none", "bad", "fresh", "old"}]]
  /\ lock \in {"free", "job", "cleaner"}
  /\ job.kind \in {"none", "install", "upgrade"} /\ HandedOver \subseteq Entry
  /\ cleaner.names \subseteq File

Removes(s) == IF s.mode \in {1, 2} THEN s.mode ELSE 3

\* What GetPathMode has answered is what the workers go by until the setting
\* is changed, over any number of restarts and though the one reads the file
\* and the others the global; unless that could not be saved.
AnswerIsUsed ==
  answer # Unset /\ setter.pc = "idle" /\ ~unsaved =>
    /\ FilePath(answer.path) = FilePath(g_rpmPathMode.path)
    /\ Removes(answer) = Removes(g_rpmPathMode)

\* A file that an installation has looked at or fetched and will hand to rpm
\* stays until rpm has read it, whatever the cleaning, the timer and
\* SetPathMode do meanwhile.
HandedOverStay ==
  job.kind = "install" /\ job.pc \in {"each", "rpm"} =>
    \A x \in HandedOver : isFileExist(x)

\* Every file is handed over, once and in order; all from one directory
\* unless SetPathMode comes between.
HandedOverTogether ==
  job.pc = "rpm" =>
    /\ [i \in DOMAIN job.argv |-> job.argv[i].file] = Files
    /\ ~changed => \A x \in HandedOver : x.dir = FilePath(g_rpmPathMode.path)

\* What is handed to rpm is there, all of it.
HandedOverInv == TypeOK /\ HandedOverStay /\ HandedOverTogether

\* A file disappears when its week is over or because the job that handed it
\* to rpm removes it, even if SetPathMode moves the cleaning, or the end of the
\* job, to another directory.
OnlyDueGo ==
  [][\A d \in Dirs : \A f \in File :
       disk[d][f] # "none" /\ disk'[d][f] = "none" =>
         \/ disk[d][f] = "old"
         \/ job.pc = "rpm" /\ [dir |-> d, file |-> f] \in HandedOver]_vars
=============================================================================
