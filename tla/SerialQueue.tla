----------------------------- MODULE SerialQueue -----------------------------
(***************************************************************************)
(* What a queue of tasks promises its user: one task runs at a time, tasks *)
(* run in the order they were asked for, a waiting task can be withdrawn,  *)
(* a package has at most one task, and nothing waits while nothing runs.   *)
(* JadeTaskQueue implements it.                                            *)
(***************************************************************************)
EXTENDS Naturals, Sequences, SequencesExt

CONSTANTS Job,       \* records with a field name: the tasks one may ask for
          NoJob      \* not a job: nothing is running

VARIABLES running, waiting

vars == <<running, waiting>>

Init == running = NoJob /\ waiting = <<>>

Busy(name) ==
  \/ running # NoJob /\ running.name = name
  \/ \E i \in DOMAIN waiting : waiting[i].name = name

Submit(job) ==
  /\ ~Busy(job.name)
  /\ IF running = NoJob
       THEN running' = job /\ waiting' = waiting
       ELSE running' = running /\ waiting' = Append(waiting, job)

Withdraw(i) ==
  /\ waiting' = RemoveAt(waiting, i)
  /\ UNCHANGED running

Finish ==
  /\ running # NoJob
  /\ IF waiting = <<>>
       THEN running' = NoJob /\ waiting' = <<>>
       ELSE running' = Head(waiting) /\ waiting' = Tail(waiting)

Next ==
  \/ \E job \in Job : Submit(job)
  \/ \E i \in DOMAIN waiting : Withdraw(i)
  \/ Finish

Spec == Init /\ [][Next]_vars
=============================================================================
