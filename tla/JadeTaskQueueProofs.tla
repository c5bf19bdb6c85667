------------------------- MODULE JadeTaskQueueProofs --------------------------
(***************************************************************************)
(* Proofs about the client's task queue, for any packages and any number   *)
(* of JadedBus objects: the facts about sequences they rest on; the        *)
(* inductive invariant and what follows from it at every state; and, from  *)
(* the same invariant, what no step may do: that the queue implements a    *)
(* serial queue, that a task leaves it properly, and that only calls of    *)
(* its head go on the bus.                                                 *)
(***************************************************************************)
EXTENDS JadeTaskQueue, Integers, SequenceTheorems, TLAPS

\* A sequence is a function on 1 .. Len with values in its element set.
LEMMA SeqIsFunction ==
  ASSUME NEW S, NEW s \in Seq(S)
  PROVE  /\ Len(s) \in Nat
         /\ DOMAIN s = 1 .. Len(s)
         /\ \A i \in 1 .. Len(s) : s[i] \in S
  BY LenProperties, ElementOfSeq

\* A sequence that is not empty has a first element, its head.
LEMMA NonEmpty ==
  ASSUME NEW S, NEW s \in Seq(S), s # <<>>
  PROVE  /\ Len(s) \in Nat \ {0}
         /\ 1 \in DOMAIN s
         /\ Head(s) = s[1]
         /\ s[1] \in S
<1>1. Len(s) \in Nat \ {0}
  BY EmptySeq
<1>2. DOMAIN s = 1 .. Len(s)
  BY LenProperties
<1>3. s[1] \in S
  BY <1>1, ElementOfSeq
<1>4. QED
  BY <1>1, <1>2, <1>3

\* A sequence of positive length is not empty.
LEMMA LenPositive ==
  ASSUME NEW S, NEW s \in Seq(S), Len(s) # 0
  PROVE  s # <<>>
  OBVIOUS

\* Replacing one element changes nothing else.
LEMMA Replaced ==
  ASSUME NEW S, NEW s \in Seq(S), NEW i \in DOMAIN s, NEW e \in S
  PROVE  /\ [s EXCEPT ![i] = e] \in Seq(S)
         /\ Len([s EXCEPT ![i] = e]) = Len(s)
         /\ DOMAIN [s EXCEPT ![i] = e] = DOMAIN s
         /\ \A j \in DOMAIN s :
              [s EXCEPT ![i] = e][j] = IF j = i THEN e ELSE s[j]
  BY ExceptSeq, LenProperties

\* Removing the head shifts the others by one.
LEMMA HeadRemoved ==
  ASSUME NEW S, NEW s \in Seq(S), s # <<>>
  PROVE  /\ Tail(s) \in Seq(S)
         /\ Len(Tail(s)) = Len(s) - 1
         /\ DOMAIN Tail(s) = 1 .. Len(s) - 1
         /\ \A i \in DOMAIN Tail(s) : i + 1 \in DOMAIN s /\ Tail(s)[i] = s[i + 1]
<1>1. /\ Tail(s) \in Seq(S)
      /\ Len(Tail(s)) = Len(s) - 1
      /\ \A i \in 1 .. Len(Tail(s)) : Tail(s)[i] = s[i + 1]
  BY HeadTailProperties
<1>2. DOMAIN Tail(s) = 1 .. Len(s) - 1
  BY <1>1, LenProperties
<1>3. Len(s) \in Nat /\ DOMAIN s = 1 .. Len(s)
  BY LenProperties
<1>4. QED
  BY <1>1, <1>2, <1>3

\* Appending leaves the old elements where they were.
LEMMA Appended ==
  ASSUME NEW S, NEW s \in Seq(S), NEW e \in S
  PROVE  /\ Append(s, e) \in Seq(S)
         /\ Len(Append(s, e)) = Len(s) + 1
         /\ DOMAIN Append(s, e) = 1 .. Len(s) + 1
         /\ \A i \in DOMAIN s : Append(s, e)[i] = s[i]
         /\ Append(s, e)[Len(s) + 1] = e
<1>1. /\ Append(s, e) \in Seq(S)
      /\ Len(Append(s, e)) = Len(s) + 1
      /\ \A i \in 1 .. Len(s) : Append(s, e)[i] = s[i]
      /\ Append(s, e)[Len(s) + 1] = e
  BY AppendProperties
<1>2. QED
  BY <1>1, LenProperties

\* Removing the element at i shifts the later ones by one.
LEMMA Removed ==
  ASSUME NEW S, NEW s \in Seq(S), NEW i \in DOMAIN s
  PROVE  /\ RemoveAt(s, i) \in Seq(S)
         /\ Len(RemoveAt(s, i)) = Len(s) - 1
         /\ DOMAIN RemoveAt(s, i) = 1 .. Len(s) - 1
         /\ \A k \in DOMAIN RemoveAt(s, i) :
              /\ (IF k < i THEN k ELSE k + 1) \in DOMAIN s
              /\ RemoveAt(s, i)[k] = s[IF k < i THEN k ELSE k + 1]
<1>1. /\ Len(s) \in Nat /\ DOMAIN s = 1 .. Len(s) /\ i \in 1 .. Len(s)
      /\ \A j \in 1 .. Len(s) : s[j] \in S
  BY SeqIsFunction
<1> DEFINE a == SubSeq(s, 1, i - 1)
           b == SubSeq(s, i + 1, Len(s))
<1>2. /\ a \in Seq(S) /\ Len(a) = i - 1
      /\ \A k \in 1 .. i - 1 : a[k] = s[k]
  BY <1>1, SubSeqProperties
<1>3. /\ b \in Seq(S) /\ Len(b) = Len(s) - i
      /\ \A k \in 1 .. Len(s) - i : b[k] = s[i + k]
  <2> DEFINE n == Len(s)
  <2>1. n \in Nat /\ i \in 1 .. n /\ \A j \in i + 1 .. n : s[j] \in S
    BY <1>1
  <2>2. /\ b \in Seq(S)
        /\ Len(b) = IF i + 1 <= n THEN n - (i + 1) + 1 ELSE 0
        /\ \A k \in 1 .. n - (i + 1) + 1 : b[k] = s[(i + 1) + k - 1]
    BY <1>1, <2>1, SubSeqProperties
  <2> HIDE DEF a, b, n
  <2>3. Len(b) = n - i
    BY <2>1, <2>2
  <2>4. ASSUME NEW k \in 1 .. n - i
        PROVE  b[k] = s[i + k]
    <3>1. k \in 1 .. n - (i + 1) + 1 /\ (i + 1) + k - 1 = i + k
      BY <2>1
    <3>2. b[k] = s[(i + 1) + k - 1]
      BY <2>2, <3>1
    <3>3. QED
      BY <3>1, <3>2
  <2>5. QED
    BY <2>2, <2>3, <2>4 DEF n
<1>4. RemoveAt(s, i) = a \o b
  BY DEF RemoveAt
<1> HIDE DEF a, b
<1>5. /\ a \o b \in Seq(S)
      /\ Len(a \o b) = Len(a) + Len(b)
      /\ \A k \in 1 .. Len(a) + Len(b) :
           (a \o b)[k] = IF k <= Len(a) THEN a[k] ELSE b[k - Len(a)]
  BY <1>2, <1>3, ConcatProperties
<1>6. Len(a \o b) = Len(s) - 1 /\ DOMAIN (a \o b) = 1 .. Len(s) - 1
  <2>1. Len(a \o b) = Len(s) - 1
    BY <1>1, <1>2, <1>3, <1>5
  <2>2. DOMAIN (a \o b) = 1 .. Len(a \o b)
    BY <1>5, LenProperties
  <2>3. QED
    BY <2>1, <2>2
<1>7. \A k \in 1 .. Len(s) - 1 :
        /\ (IF k < i THEN k ELSE k + 1) \in DOMAIN s
        /\ (a \o b)[k] = s[IF k < i THEN k ELSE k + 1]
  <2> TAKE k \in 1 .. Len(s) - 1
  <2>1. (IF k < i THEN k ELSE k + 1) \in DOMAIN s
    BY <1>1
  <2>2. CASE k < i
    BY <1>1, <1>2, <1>3, <1>5, <2>1, <2>2
  <2>3. CASE ~(k < i)
    <3>1. k - (i - 1) \in 1 .. Len(s) - i
      BY <1>1, <2>3
    <3>2. (a \o b)[k] = b[k - (i - 1)]
      BY <1>1, <1>2, <1>3, <1>5, <2>3
    <3>3. b[k - (i - 1)] = s[i + (k - (i - 1))] /\ i + (k - (i - 1)) = k + 1
      BY <1>1, <1>3, <3>1
    <3>4. QED
      BY <2>1, <2>3, <3>2, <3>3
  <2>4. QED
    BY <2>2, <2>3
<1>8. \A r : r = a \o b =>
        /\ r \in Seq(S) /\ Len(r) = Len(s) - 1 /\ DOMAIN r = 1 .. Len(s) - 1
        /\ \A k \in DOMAIN r :
             /\ (IF k < i THEN k ELSE k + 1) \in DOMAIN s
             /\ r[k] = s[IF k < i THEN k ELSE k + 1]
  BY <1>5, <1>6, <1>7
<1>9. QED
  BY <1>4, <1>8

-----------------------------------------------------------------------------

\* A signal that has completed a task names no task of the queue any more, so
\* that the handlers still to run find nothing to complete.
SignalSpent ==
  /\ delivery.completed <= 1
  /\ delivery.left > 0 /\ delivery.completed = 1 =>
       \A i \in DOMAIN taskQueue : taskQueue[i].name # delivery.signal.name

\* The inductive invariant.
IInv ==
  /\ TypeOK
  /\ OnlyHeadRuns
  /\ NamesUnique
  /\ DoingPkgIsHead
  /\ SignalSpent

\* A queue nothing of which has been handed to the daemon.
Unstarted(q) ==
  /\ q \in Seq(Task)
  /\ \A i \in DOMAIN q : q[i].status = ""
  /\ \A i, j \in DOMAIN q : q[i].name = q[j].name => i = j

-----------------------------------------------------------------------------

\* The call built for a task is one of the daemon's methods on its package.
LEMMA CallOfType == \A t \in Task : CallOf(t) \in Call
  BY DEF Task, Action, Call, Method, CallOf

\* m_runTask() on an unstarted queue leaves exactly its head running, keeps
\* every name where it was, and sends at most one well-formed call.
LEMMA RunTaskStarts ==
  ASSUME NEW q, Unstarted(q), calls \in Seq(Call), RunTask(q, NoPkg)
  PROVE  /\ taskQueue' \in Seq(Task)
         /\ doingPkg' \in Pkg \cup {NoPkg}
         /\ calls' \in Seq(Call)
         /\ OnlyHeadRuns'
         /\ NamesUnique'
         /\ DoingPkgIsHead'
         /\ Len(taskQueue') = Len(q)
         /\ \A i \in DOMAIN q : taskQueue'[i].name = q[i].name
<1>1. CASE q = <<>>
  <2>1. taskQueue' = <<>> /\ doingPkg' = NoPkg /\ calls' = calls
    BY <1>1 DEF RunTask
  <2>2. QED
    BY <1>1, <2>1 DEF OnlyHeadRuns, NamesUnique, DoingPkgIsHead
<1>2. CASE q # <<>>
  <2>1. /\ q \in Seq(Task) /\ Len(q) \in Nat \ {0} /\ 1 \in DOMAIN q
        /\ DOMAIN q = 1 .. Len(q)
        /\ Head(q) = q[1] /\ q[1] \in Task /\ q[1].status = ""
    <3>1. q \in Seq(Task) /\ \A i \in DOMAIN q : q[i].status = ""
      BY DEF Unstarted
    <3>2. QED
      BY <1>2, <3>1, NonEmpty, SeqIsFunction
  <2>2. /\ taskQueue' = [q EXCEPT ![1].status = "doing"]
        /\ doingPkg' = q[1].name
        /\ calls' = Append(calls, CallOf(q[1]))
    BY <1>2, <2>1 DEF RunTask
  <2> DEFINE e == [q[1] EXCEPT !.status = "doing"]
  <2>3. e \in Task /\ e.name = q[1].name /\ e.status = "doing"
    BY <2>1 DEF Task, TaskStatus
  <2>4. taskQueue' = [q EXCEPT ![1] = e]
    BY <2>1, <2>2
  <2> HIDE DEF e
  <2>5. /\ taskQueue' \in Seq(Task)
        /\ Len(taskQueue') = Len(q)
        /\ DOMAIN taskQueue' = DOMAIN q
        /\ \A i \in DOMAIN q : taskQueue'[i] = IF i = 1 THEN e ELSE q[i]
    BY <2>1, <2>3, <2>4, Replaced
  <2>6. /\ \A i \in DOMAIN q : taskQueue'[i].name = q[i].name
        /\ \A i \in DOMAIN q :
             taskQueue'[i].status = (IF i = 1 THEN "doing" ELSE "")
    <3>1. \A i \in DOMAIN q : q[i].status = ""
      BY DEF Unstarted
    <3>2. QED
      BY <2>3, <2>5, <3>1
  <2>7. calls' \in Seq(Call)
    <3>1. CallOf(q[1]) \in Call
      BY <2>1, CallOfType
    <3>2. QED
      BY <2>2, <3>1, Appended
  <2>8. NamesUnique'
    <3>1. \A i, j \in DOMAIN q : q[i].name = q[j].name => i = j
      BY DEF Unstarted
    <3>2. \A i, j \in DOMAIN taskQueue' :
            taskQueue'[i].name = taskQueue'[j].name => i = j
      BY <2>5, <2>6, <3>1
    <3>3. QED
      BY <3>2 DEF NamesUnique
  <2>9. DoingPkgIsHead'
    <3>1. taskQueue' # <<>>
      BY <2>1, <2>5, LenPositive
    <3>2. Head(taskQueue') = taskQueue'[1]
      BY <2>5, <3>1, NonEmpty
    <3>3. QED
      BY <2>1, <2>2, <2>6, <3>1, <3>2 DEF DoingPkgIsHead
  <2>10. OnlyHeadRuns'
    BY <2>5, <2>6 DEF OnlyHeadRuns
  <2>11. doingPkg' \in Pkg
    BY <2>1, <2>2 DEF Task
  <2>12. QED
    BY <2>5, <2>6, <2>7, <2>8, <2>9, <2>10, <2>11
<1>3. QED
  BY <1>1, <1>2

\* Only the head can be the running entry a signal names, so removeFirst()
\* removes the entry that was marked done.
LEMMA CompletedIsHead ==
  ASSUME TypeOK, OnlyHeadRuns, NEW name, NEW i, Completes(name, i)
  PROVE  i = 1 /\ taskQueue # <<>> /\ taskQueue[1].name = name
  <1>1. i = 1 /\ taskQueue[1].name = name
    BY DEF Completes, OnlyHeadRuns
  <1>2. taskQueue # <<>>
    BY DEF Completes
  <1>3. QED
    BY <1>1, <1>2

\* What is left when the head of a well-formed queue is removed.
LEMMA TailUnstarted ==
  ASSUME TypeOK, OnlyHeadRuns, NamesUnique, taskQueue # <<>>
  PROVE  LET q == Tail([taskQueue EXCEPT ![1].status = "done"])
         IN /\ Unstarted(q)
            /\ Len(q) = Len(taskQueue) - 1
            /\ \A i \in DOMAIN q : q[i].name = taskQueue[i + 1].name
            /\ \A i \in DOMAIN q : q[i].name # taskQueue[1].name
<1> DEFINE e == [taskQueue[1] EXCEPT !.status = "done"]
           d == [taskQueue EXCEPT ![1] = e]
           q == Tail(d)
<1>1. /\ taskQueue \in Seq(Task) /\ Len(taskQueue) \in Nat \ {0}
      /\ DOMAIN taskQueue = 1 .. Len(taskQueue)
      /\ 1 \in DOMAIN taskQueue /\ taskQueue[1] \in Task
  <2>1. taskQueue \in Seq(Task)
    BY DEF TypeOK
  <2>2. QED
    BY <2>1, NonEmpty, SeqIsFunction
<1>2. [taskQueue EXCEPT ![1].status = "done"] = d
  BY <1>1
<1>3. e \in Task
  BY <1>1 DEF Task, TaskStatus
<1> HIDE DEF e
<1>4. /\ d \in Seq(Task) /\ Len(d) = Len(taskQueue)
      /\ DOMAIN d = DOMAIN taskQueue
      /\ \A i \in DOMAIN taskQueue : i # 1 => d[i] = taskQueue[i]
  BY <1>1, <1>3, Replaced
<1>5. d # <<>>
  BY <1>1, <1>4, LenPositive
<1> HIDE DEF d
<1>6. /\ q \in Seq(Task) /\ Len(q) = Len(taskQueue) - 1
      /\ DOMAIN q = 1 .. Len(taskQueue) - 1
      /\ \A i \in DOMAIN q : q[i] = d[i + 1]
  BY <1>4, <1>5, HeadRemoved
<1> HIDE DEF q
<1>7. \A i \in DOMAIN q :
        /\ q[i] = taskQueue[i + 1]
        /\ i + 1 \in DOMAIN taskQueue /\ i + 1 # 1
  BY <1>1, <1>4, <1>6
<1>8. \A i \in DOMAIN q : q[i].status = ""
  <2> TAKE i \in DOMAIN q
  <2>1. taskQueue[i + 1].status = ""
    BY <1>7 DEF OnlyHeadRuns
  <2>2. QED
    BY <1>7, <2>1
<1>9. \A i, j \in DOMAIN q : q[i].name = q[j].name => i = j
  <2> TAKE i, j \in DOMAIN q
  <2>1. q[i].name = q[j].name => i + 1 = j + 1
    BY <1>7 DEF NamesUnique
  <2>2. QED
    BY <1>1, <1>6, <2>1
<1>10. \A i \in DOMAIN q : q[i].name # taskQueue[1].name
  BY <1>1, <1>7 DEF NamesUnique
<1>11. Unstarted(q)
  BY <1>6, <1>8, <1>9 DEF Unstarted
<1>12. QED
  BY <1>2, <1>6, <1>7, <1>10, <1>11 DEF q

-----------------------------------------------------------------------------

LEMMA InitIInv == Init => IInv
<1> SUFFICES ASSUME Init PROVE IInv
  OBVIOUS
<1>1. taskQueue = <<>> /\ taskQueue \in Seq(Task)
  BY DEF Init
<1>2. calls \in Seq(Call)
  BY DEF Init
<1>3. pkgStatus \in [Pkg -> PkgStatus]
  BY DEF Init, PkgStatus
<1>4. delivery \in [signal : FinishedSignal, left : Nat, completed : Nat]
  BY DEF Init, NoSignal, FinishedSignal, Status
<1>5. TypeOK
  BY <1>1, <1>2, <1>3, <1>4 DEF Init, TypeOK
<1>6. SignalSpent
  BY DEF Init, SignalSpent
<1>7. QED
  BY <1>1, <1>5, <1>6
     DEF Init, IInv, OnlyHeadRuns, NamesUnique, DoingPkgIsHead

\* install(), uninstall() and update() keep the queue well formed.
LEMMA EnqueueIInv ==
  ASSUME IInv, NEW p \in Pkg, NEW a \in Action, Enqueue(p, a)
  PROVE  IInv'
<1> DEFINE t == [name |-> p, action |-> a, status |-> ""]
           q == Append(taskQueue, t)
<1>1. t \in Task /\ t.name = p /\ t.status = ""
  BY DEF Task, TaskStatus
<1>2. taskQueue \in Seq(Task) /\ calls \in Seq(Call)
  BY DEF IInv, TypeOK
<1> HIDE DEF t
<1> DEFINE n == Len(taskQueue)
<1>3. n \in Nat /\ DOMAIN taskQueue = 1 .. n
  BY <1>2, SeqIsFunction
<1>4. /\ q \in Seq(Task)
      /\ Len(q) = n + 1
      /\ DOMAIN q = 1 .. n + 1
      /\ \A i \in DOMAIN taskQueue : q[i] = taskQueue[i]
      /\ q[n + 1] = t
  BY <1>1, <1>2, Appended
<1> HIDE DEF n
<1>5. /\ DOMAIN q = 1 .. n + 1
      /\ \A i \in DOMAIN taskQueue : q[i] = taskQueue[i]
      /\ q[n + 1] = t
  BY <1>4
<1>6. Len(q) = n + 1
  BY <1>4
<1>7. /\ IF Len(q) = 1 THEN RunTask(q, doingPkg)
         ELSE taskQueue' = q /\ UNCHANGED <<doingPkg, calls>>
      /\ UNCHANGED <<pkgStatus, delivery>>
      /\ delivery.left = 0
      /\ \A i \in DOMAIN taskQueue : taskQueue[i].name # p
  BY DEF Enqueue, t, Idle, IsTaskExist
<1> HIDE DEF q
<1>8. \A i, j \in DOMAIN q : q[i].name = q[j].name => i = j
  <2>1. \A i, j \in DOMAIN taskQueue :
          taskQueue[i].name = taskQueue[j].name => i = j
    BY DEF IInv, NamesUnique
  <2>2. \A i \in DOMAIN q :
          \/ i \in DOMAIN taskQueue /\ q[i] = taskQueue[i] /\ q[i].name # p
          \/ i = n + 1 /\ q[i].name = p
    <3> TAKE i \in DOMAIN q
    <3>1. i \in DOMAIN taskQueue \/ i = n + 1
      BY <1>3, <1>5
    <3>2. i \in DOMAIN taskQueue => taskQueue[i].name # p
      BY <1>7
    <3>3. i \in DOMAIN taskQueue => q[i] = taskQueue[i]
      BY <1>5
    <3>4. i = n + 1 => q[i] = t
      BY <1>5
    <3>5. QED
      BY <1>1, <3>1, <3>2, <3>3, <3>4
  <2>3. QED
    BY <2>1, <2>2
<1>9. SignalSpent'
  BY <1>7 DEF IInv, SignalSpent
<1>10. CASE Len(q) = 1
  <2>1. taskQueue = <<>>
    <3>1. n = 0
      BY <1>3, <1>10, <1>6
    <3>2. QED
      BY <1>2, <3>1, NonEmpty DEF n
  <2>2. doingPkg = NoPkg
    BY <2>1 DEF IInv, DoingPkgIsHead
  <2>3. \A i \in DOMAIN q : q[i].status = ""
    <3>1. n = 0
      BY <1>3, <1>10, <1>6
    <3>2. DOMAIN q = 1 .. n + 1
      BY <1>5
    <3>3. \A i \in DOMAIN q : i = n + 1
      BY <3>1, <3>2
    <3>4. q[n + 1] = t
      BY <1>5
    <3>5. QED
      BY <1>1, <3>3, <3>4
  <2>4. Unstarted(q) /\ RunTask(q, NoPkg)
    BY <1>4, <1>7, <1>8, <1>10, <2>2, <2>3 DEF Unstarted
  <2>5. /\ taskQueue' \in Seq(Task) /\ doingPkg' \in Pkg \cup {NoPkg}
        /\ calls' \in Seq(Call)
        /\ OnlyHeadRuns' /\ NamesUnique' /\ DoingPkgIsHead'
    BY <1>2, <2>4, RunTaskStarts
  <2>6. QED
    BY <1>7, <1>9, <2>5 DEF IInv, TypeOK
<1>11. CASE Len(q) # 1
  <2>1. taskQueue' = q /\ UNCHANGED <<doingPkg, calls>>
    BY <1>7, <1>11
  <2>2. taskQueue # <<>>
    <3>1. n # 0
      BY <1>3, <1>4, <1>11
    <3>2. QED
      BY <1>2, <3>1, LenPositive DEF n
  <2>3. taskQueue[1] = Head(taskQueue) /\ 1 \in DOMAIN taskQueue
    BY <1>2, <2>2, NonEmpty
  <2>4. q # <<>>
    <3>1. Len(q) # 0
      BY <1>3, <1>4
    <3>2. QED
      BY <1>4, <3>1, LenPositive
  <2>5. Head(q) = q[1]
    BY <1>4, <2>4, NonEmpty
  <2>6. OnlyHeadRuns'
    <3>1. \A i \in DOMAIN taskQueue :
            taskQueue[i].status = (IF i = 1 THEN "doing" ELSE "")
      BY DEF IInv, OnlyHeadRuns
    <3>2. \A i \in DOMAIN q : q[i].status = (IF i = 1 THEN "doing" ELSE "")
      <4>1. n + 1 # 1
        BY <1>3, <1>4, <1>11
      <4>2. \A i \in DOMAIN q : i \in DOMAIN taskQueue \/ i = n + 1
        BY <1>3, <1>4
      <4>3. QED
        BY <1>1, <1>4, <3>1, <4>1, <4>2
    <3>3. QED
      BY <2>1, <3>2 DEF OnlyHeadRuns
  <2>7. DoingPkgIsHead'
    BY <1>4, <2>1, <2>2, <2>3, <2>4, <2>5 DEF IInv, DoingPkgIsHead
  <2>8. NamesUnique'
    BY <1>8, <2>1 DEF NamesUnique
  <2>9. TypeOK'
    BY <1>4, <1>7, <2>1 DEF IInv, TypeOK
  <2>10. QED
    BY <1>9, <2>6, <2>7, <2>8, <2>9 DEF IInv
<1>12. QED
  BY <1>10, <1>11

\* cancel() removes a waiting task, never the head.
LEMMA CancelIInv ==
  ASSUME IInv, NEW p \in Pkg, Cancel(p)
  PROVE  IInv'
<1>1. taskQueue \in Seq(Task)
  BY DEF IInv, TypeOK
<1>2. PICK i \in DOMAIN taskQueue :
        taskQueue[i].status # "doing" /\ taskQueue' = RemoveAt(taskQueue, i)
  BY DEF Cancel
<1>3. UNCHANGED <<doingPkg, pkgStatus, delivery, calls>> /\ delivery.left = 0
  BY DEF Cancel, Idle
<1>4. i # 1
  BY <1>2 DEF IInv, OnlyHeadRuns
<1>5. /\ Len(taskQueue) \in Nat /\ DOMAIN taskQueue = 1 .. Len(taskQueue)
      /\ i \in 1 .. Len(taskQueue)
  BY <1>1, SeqIsFunction
<1>6. /\ taskQueue' \in Seq(Task)
      /\ Len(taskQueue') = Len(taskQueue) - 1
      /\ DOMAIN taskQueue' = 1 .. Len(taskQueue) - 1
      /\ \A k \in DOMAIN taskQueue' :
           /\ (IF k < i THEN k ELSE k + 1) \in DOMAIN taskQueue
           /\ taskQueue'[k] = taskQueue[IF k < i THEN k ELSE k + 1]
  BY <1>1, <1>2, Removed
<1>7. OnlyHeadRuns'
  <2>1. \A k \in DOMAIN taskQueue :
          taskQueue[k].status = (IF k = 1 THEN "doing" ELSE "")
    BY DEF IInv, OnlyHeadRuns
  <2>2. \A k \in DOMAIN taskQueue' :
          taskQueue'[k].status = (IF k = 1 THEN "doing" ELSE "")
    <3> TAKE k \in DOMAIN taskQueue'
    <3>1. /\ (IF k < i THEN k ELSE k + 1) \in DOMAIN taskQueue
          /\ (IF k < i THEN k ELSE k + 1) = 1 <=> k = 1
      BY <1>4, <1>5, <1>6
    <3>2. QED
      BY <1>6, <2>1, <3>1
  <2>3. QED
    BY <2>2 DEF OnlyHeadRuns
<1>8. NamesUnique'
  <2> SUFFICES ASSUME NEW k \in DOMAIN taskQueue', NEW l \in DOMAIN taskQueue',
                      taskQueue'[k].name = taskQueue'[l].name
               PROVE  k = l
    BY DEF NamesUnique
  <2>1. (IF k < i THEN k ELSE k + 1) = (IF l < i THEN l ELSE l + 1)
    BY <1>6 DEF IInv, NamesUnique
  <2>2. QED
    BY <1>5, <1>6, <2>1
<1>9. DoingPkgIsHead'
  <2>1. taskQueue # <<>> /\ Head(taskQueue) = taskQueue[1]
    BY <1>1, <1>2, NonEmpty
  <2>2. taskQueue' # <<>>
    BY <1>4, <1>5, <1>6, LenPositive
  <2>3. Head(taskQueue') = taskQueue'[1] /\ 1 \in DOMAIN taskQueue'
    BY <1>6, <2>2, NonEmpty
  <2>4. taskQueue'[1] = taskQueue[1]
    BY <1>4, <1>5, <1>6, <2>3
  <2>5. QED
    BY <1>3, <2>1, <2>2, <2>3, <2>4 DEF IInv, DoingPkgIsHead
<1>10. SignalSpent'
  BY <1>3 DEF IInv, SignalSpent
<1>11. QED
  BY <1>3, <1>6, <1>7, <1>8, <1>9, <1>10 DEF IInv, TypeOK

\* getFinished() removes the entry the signal names, if it runs, and starts
\* the next: the handlers that follow find nothing more to complete.
LEMMA GetFinishedIInv ==
  ASSUME IInv, GetFinished
  PROVE  IInv'
<1> DEFINE name  == delivery.signal.name
           acted == delivery.signal.status \in Accepted /\ name \in Pkg
           found == acted /\ \E i \in DOMAIN taskQueue : Completes(name, i)
<1>1. /\ delivery.left \in Nat /\ delivery.left > 0
      /\ delivery.completed \in Nat
      /\ delivery.signal \in FinishedSignal
      /\ delivery = [signal |-> delivery.signal, left |-> delivery.left,
                     completed |-> delivery.completed]
  BY DEF IInv, TypeOK, GetFinished
<1>2. /\ delivery'.left > 0 => delivery'.signal = delivery.signal
      /\ delivery'.left = delivery.left - 1
      /\ delivery'.completed = IF found THEN delivery.completed + 1
                               ELSE delivery.completed
      /\ delivery' \in [signal : FinishedSignal, left : Nat, completed : Nat]
  <2>1. delivery' =
          [signal    |-> IF delivery.left = 1 THEN NoSignal ELSE delivery.signal,
           left      |-> delivery.left - 1,
           completed |-> delivery.completed + (IF found THEN 1 ELSE 0)]
    BY DEF GetFinished
  <2>2. NoSignal \in FinishedSignal
    BY DEF NoSignal, FinishedSignal, Status
  <2>3. QED
    BY <1>1, <2>1, <2>2
<1>3. pkgStatus' \in [Pkg -> PkgStatus]
  <2>1. pkgStatus \in [Pkg -> PkgStatus]
    BY DEF IInv, TypeOK
  <2>2. CASE acted
    <3>1. pkgStatus' = [pkgStatus EXCEPT ![name] =
                          StatusAfter(delivery.signal.status, pkgStatus[name])]
      BY <2>2 DEF GetFinished
    <3>2. StatusAfter(delivery.signal.status, pkgStatus[name]) \in PkgStatus
      BY <2>1, <2>2 DEF StatusAfter, PkgStatus
    <3>3. QED
      BY <2>1, <3>1, <3>2
  <2>3. CASE ~acted
    BY <2>1, <2>3 DEF GetFinished
  <2>4. QED
    BY <2>2, <2>3
<1>4. CASE found
  <2>1. PICK i \in DOMAIN taskQueue :
          /\ Completes(name, i)
          /\ RunTask(Tail([taskQueue EXCEPT ![i].status = "done"]), NoPkg)
    BY <1>4 DEF GetFinished
  <2>2. i = 1 /\ taskQueue # <<>> /\ taskQueue[1].name = name
    BY <2>1, CompletedIsHead DEF IInv
  <2> DEFINE q == Tail([taskQueue EXCEPT ![1].status = "done"])
  <2>3. Unstarted(q) /\ \A k \in DOMAIN q : q[k].name # taskQueue[1].name
    BY <2>2, TailUnstarted DEF IInv
  <2>4. RunTask(q, NoPkg)
    BY <2>1, <2>2
  <2>5. calls \in Seq(Call)
    BY DEF IInv, TypeOK
  <2> HIDE DEF q
  <2>6. /\ taskQueue' \in Seq(Task) /\ doingPkg' \in Pkg \cup {NoPkg}
        /\ calls' \in Seq(Call)
        /\ OnlyHeadRuns' /\ NamesUnique' /\ DoingPkgIsHead'
        /\ Len(taskQueue') = Len(q)
        /\ \A k \in DOMAIN q : taskQueue'[k].name = q[k].name
    BY <2>3, <2>4, <2>5, RunTaskStarts
  <2>7. DOMAIN taskQueue' = DOMAIN q
    <3>1. DOMAIN q = 1 .. Len(q)
      BY <2>3, SeqIsFunction DEF Unstarted
    <3>2. DOMAIN taskQueue' = 1 .. Len(taskQueue')
      BY <2>6, SeqIsFunction
    <3>3. QED
      BY <2>6, <3>1, <3>2
  <2>8. delivery'.left > 0 =>
          \A k \in DOMAIN taskQueue' :
             taskQueue'[k].name # delivery'.signal.name
    BY <1>2, <2>2, <2>3, <2>6, <2>7
  <2>9. delivery.completed = 0
    <3>1. 1 \in DOMAIN taskQueue
      BY <2>1, <2>2
    <3>2. ~(delivery.completed = 1)
      BY <1>1, <2>2, <3>1 DEF IInv, SignalSpent
    <3>3. delivery.completed <= 1
      BY DEF IInv, SignalSpent
    <3>4. QED
      BY <1>1, <3>2, <3>3
  <2>10. SignalSpent'
    BY <1>2, <1>4, <2>8, <2>9 DEF SignalSpent
  <2>11. QED
    BY <1>2, <1>3, <2>6, <2>10 DEF IInv, TypeOK
<1>5. CASE ~found
  <2>1. UNCHANGED <<taskQueue, doingPkg, calls>>
    BY <1>5 DEF GetFinished
  <2>2. SignalSpent'
    BY <1>1, <1>2, <1>5, <2>1 DEF IInv, SignalSpent
  <2>3. TypeOK'
    BY <1>2, <1>3, <2>1 DEF IInv, TypeOK
  <2>4. QED
    BY <2>1, <2>2, <2>3
       DEF IInv, OnlyHeadRuns, NamesUnique, DoingPkgIsHead
<1>6. QED
  BY <1>4, <1>5

\* The steps that leave the queue and the signal alone.
LEMMA OthersIInv ==
  ASSUME IInv, UNCHANGED <<taskQueue, doingPkg, delivery>>,
         (pkgStatus \in [Pkg -> PkgStatus])', (calls \in Seq(Call))'
  PROVE  IInv'
<1>1. TypeOK'
  BY DEF IInv, TypeOK
<1>2. QED
  BY <1>1 DEF IInv, OnlyHeadRuns, NamesUnique, DoingPkgIsHead, SignalSpent

\* Deliver: nothing of the queue changes, and nothing is completed yet.
LEMMA DeliverIInv ==
  ASSUME IInv, NEW s \in FinishedSignal, Deliver(s)
  PROVE  IInv'
<1>1. /\ delivery' = [signal |-> s, left |-> Instances, completed |-> 0]
      /\ UNCHANGED <<taskQueue, doingPkg, pkgStatus, calls>>
  BY DEF Deliver
<1>2. TypeOK' /\ SignalSpent'
  BY <1>1, InstancesAssumption DEF IInv, TypeOK, SignalSpent
<1>3. QED
  BY <1>1, <1>2 DEF IInv, OnlyHeadRuns, NamesUnique, DoingPkgIsHead

-----------------------------------------------------------------------------

\* Every step of the client keeps the inductive invariant.
LEMMA StepIInv == IInv /\ [Next]_vars => IInv'
<1> SUFFICES ASSUME IInv, [Next]_vars PROVE IInv'
  OBVIOUS
<1>1. (pkgStatus \in [Pkg -> PkgStatus]) /\ calls \in Seq(Call)
  BY DEF IInv, TypeOK
<1>2. ASSUME NEW p \in Pkg, Install(p) \/ Uninstall(p) \/ Update(p)
      PROVE  IInv'
  BY <1>2, EnqueueIInv DEF Install, Uninstall, Update, Action
<1>3. ASSUME NEW p \in Pkg, Cancel(p) PROVE IInv'
  BY <1>3, CancelIInv
<1>4. CASE RunTaskTimeOut
  <2>1. taskQueue # <<>> /\ taskQueue \in Seq(Task)
    BY <1>4 DEF RunTaskTimeOut, IInv, TypeOK
  <2>2. CallOf(Head(taskQueue)) \in Call
    BY <2>1, NonEmpty, CallOfType
  <2>3. calls' = Append(calls, CallOf(Head(taskQueue)))
    BY <1>4 DEF RunTaskTimeOut
  <2>4. calls' \in Seq(Call)
    BY <1>1, <2>2, <2>3, Appended
  <2>5. QED
    BY <1>1, <1>4, <2>4, OthersIInv DEF RunTaskTimeOut
<1>5. ASSUME NEW s \in FinishedSignal, Deliver(s) PROVE IInv'
  BY <1>5, DeliverIInv
<1>6. CASE GetFinished
  BY <1>6, GetFinishedIInv
<1>7. ASSUME NEW p \in Pkg, NEW st \in {"installed", "available"},
             ListChged(p, st)
      PROVE  IInv'
  <2>1. (pkgStatus \in [Pkg -> PkgStatus])'
    BY <1>1, <1>7 DEF ListChged, PkgStatus
  <2>2. QED
    BY <1>1, <1>7, <2>1, OthersIInv DEF ListChged
<1>8. ASSUME NEW list \in [Pkg -> PkgStatus], GetAllPkgList(list)
      PROVE  IInv'
  BY <1>1, <1>8, OthersIInv DEF GetAllPkgList
<1>9. CASE Dispatch
  <2>1. (calls \in Seq(Call))'
    BY <1>1, <1>9, HeadRemoved DEF Dispatch
  <2>2. QED
    BY <1>1, <1>9, <2>1, OthersIInv DEF Dispatch
<1>10. CASE UNCHANGED vars
  BY <1>1, <1>10, OthersIInv DEF vars
<1>11. QED
  BY <1>2, <1>3, <1>4, <1>5, <1>6, <1>7, <1>8, <1>9, <1>10
     DEF Next, User, Bus

\* The inductive invariant holds in every reachable state.
THEOREM Invariance == Spec => []IInv
  BY InitIInv, StepIInv, PTL DEF Spec

\* Every variable keeps its type.
THEOREM TypeCorrect == Spec => []TypeOK
<1>1. IInv => TypeOK
  BY DEF IInv
<1>2. QED
  BY <1>1, Invariance, PTL

\* The client never stalls with work queued and never runs two tasks: the
\* head of the queue, and only the head, is with the daemon, under the name
\* that g_doingPkgName holds, and no package is queued twice.
THEOREM QueueCorrect == Spec => []QueueInv
<1>1. IInv => QueueInv
  BY DEF IInv, QueueInv
<1>2. QED
  BY <1>1, Invariance, PTL

\* A broadcast completes at most one task, however many JadedBus objects the
\* views have created to receive it.
THEOREM BroadcastCompletesOnce == Spec => []OneTaskPerSignal
<1>1. IInv => OneTaskPerSignal
  BY DEF IInv, SignalSpent, OneTaskPerSignal
<1>2. QED
  BY <1>1, Invariance, PTL

-----------------------------------------------------------------------------

\* A task without its status, and a queue as the abstract queue sees it.
Jobs == [name : Pkg, action : Action]
JobOf(t) == [name |-> t.name, action |-> t.action]
Running(q) == IF q = <<>> THEN NoPkg ELSE JobOf(q[1])
Waiting(q) == IF q = <<>> THEN <<>> ELSE [i \in 1 .. Len(q) - 1 |-> JobOf(q[i + 1])]

\* Two queues of the same tasks, whatever their statuses.
SameTasks(q, r) ==
  /\ Len(r) = Len(q)
  /\ \A i \in DOMAIN q : r[i].name = q[i].name /\ r[i].action = q[i].action

LEMMA JobOfType == \A t \in Task : JobOf(t) \in Jobs
  BY DEF Task, JobOf, Jobs

\* A function on 1 .. n is a sequence of length n.
LEMMA FunctionIsSeq ==
  ASSUME NEW S, NEW n \in Nat, NEW f \in [1 .. n -> S]
  PROVE  f \in Seq(S) /\ Len(f) = n
<1>1. f \in Seq(S)
  BY SeqDef
<1>2. Len(f) \in Nat /\ DOMAIN f = 1 .. Len(f)
  BY <1>1, LenProperties
<1>3. DOMAIN f = 1 .. n
  OBVIOUS
<1>4. QED
  BY <1>1, <1>2, <1>3

\* The jobs that wait are those of the tasks after the head.
LEMMA WaitingShape ==
  ASSUME NEW q \in Seq(Task), q # <<>>
  PROVE  /\ Waiting(q) \in Seq(Jobs)
         /\ Len(Waiting(q)) = Len(q) - 1
         /\ \A i \in 1 .. Len(q) - 1 : Waiting(q)[i] = JobOf(q[i + 1])
<1> DEFINE n == Len(q) - 1
<1>1. n \in Nat /\ Len(q) = n + 1
  BY NonEmpty
<1>2. \A i \in 1 .. n : i + 1 \in 1 .. Len(q)
  BY <1>1
<1>3. \A i \in 1 .. n : q[i + 1] \in Task
  BY <1>2, SeqIsFunction
<1>4. \A i \in 1 .. n : JobOf(q[i + 1]) \in Jobs
  BY <1>3, JobOfType
<1>5. Waiting(q) = [i \in 1 .. n |-> JobOf(q[i + 1])]
  BY DEF Waiting
<1>6. Waiting(q) \in [1 .. n -> Jobs]
  BY <1>4, <1>5
<1>7. \A i \in 1 .. n : Waiting(q)[i] = JobOf(q[i + 1])
  BY <1>5
<1> HIDE DEF n
<1>8. Waiting(q) \in Seq(Jobs) /\ Len(Waiting(q)) = n
  BY <1>1, <1>6, FunctionIsSeq
<1>9. QED
  BY <1>7, <1>8 DEF n

\* Whatever happens to the statuses, the abstract queue stays.
LEMMA SameTasksSameJobs ==
  ASSUME NEW q \in Seq(Task), NEW r \in Seq(Task), SameTasks(q, r)
  PROVE  Running(r) = Running(q) /\ Waiting(r) = Waiting(q)
<1>1. CASE q = <<>>
  <2>1. Len(r) = 0
    BY <1>1 DEF SameTasks
  <2>2. r = <<>>
    BY <2>1, NonEmpty
  <2>3. QED
    BY <1>1, <2>2
<1>2. CASE q # <<>>
  <2>1. Len(q) \in Nat \ {0} /\ Len(r) = Len(q) /\ DOMAIN q = 1 .. Len(q)
    BY <1>2, NonEmpty, SeqIsFunction DEF SameTasks
  <2>2. r # <<>>
    BY <2>1, LenPositive
  <2>3. \A i \in 1 .. Len(q) : JobOf(r[i]) = JobOf(q[i])
    BY <2>1 DEF SameTasks, JobOf
  <2>4. Running(r) = Running(q)
    BY <1>2, <2>1, <2>2, <2>3 DEF Running
  <2>5. /\ Waiting(q) \in Seq(Jobs) /\ Len(Waiting(q)) = Len(q) - 1
        /\ \A i \in 1 .. Len(q) - 1 : Waiting(q)[i] = JobOf(q[i + 1])
    BY <1>2, WaitingShape
  <2>6. /\ Waiting(r) \in Seq(Jobs) /\ Len(Waiting(r)) = Len(q) - 1
        /\ \A i \in 1 .. Len(q) - 1 : Waiting(r)[i] = JobOf(r[i + 1])
    BY <2>1, <2>2, WaitingShape
  <2>7. \A i \in 1 .. Len(q) - 1 : i + 1 \in 1 .. Len(q)
    BY <2>1
  <2>8. \A i \in 1 .. Len(Waiting(r)) : Waiting(r)[i] = Waiting(q)[i]
    BY <2>3, <2>5, <2>6, <2>7
  <2>9. Waiting(r) = Waiting(q)
    BY <2>5, <2>6, <2>8, SeqEqual
  <2>10. QED
    BY <2>4, <2>9
<1>3. QED
  BY <1>1, <1>2

-----------------------------------------------------------------------------

\* m_runTask() starts the head of the queue it is given: the tasks stay, and
\* what it sends is the call of the new head.
LEMMA RunTaskKeeps ==
  ASSUME NEW q \in Seq(Task), NEW idle, RunTask(q, idle)
  PROVE  /\ taskQueue' \in Seq(Task) /\ SameTasks(q, taskQueue')
         /\ \/ UNCHANGED calls
            \/ taskQueue' # <<>> /\ calls' = Append(calls, CallOf(Head(taskQueue')))
<1>1. CASE q = <<>> \/ Head(q).status = "doing"
  BY <1>1 DEF RunTask, SameTasks
<1>2. CASE q # <<>> /\ Head(q).status # "doing"
  <2>1. 1 \in DOMAIN q /\ Head(q) = q[1] /\ q[1] \in Task /\ Len(q) \in Nat \ {0}
    BY <1>2, NonEmpty
  <2>2. /\ taskQueue' = [q EXCEPT ![1].status = "doing"]
        /\ calls' = Append(calls, CallOf(q[1]))
    BY <1>2, <2>1 DEF RunTask
  <2> DEFINE e == [q[1] EXCEPT !.status = "doing"]
  <2>3. e \in Task /\ e.name = q[1].name /\ e.action = q[1].action
    BY <2>1 DEF Task, TaskStatus
  <2>4. taskQueue' = [q EXCEPT ![1] = e]
    BY <2>1, <2>2
  <2>5. CallOf(e) = CallOf(q[1])
    BY <2>3 DEF CallOf
  <2> HIDE DEF e
  <2>6. /\ taskQueue' \in Seq(Task) /\ Len(taskQueue') = Len(q)
        /\ DOMAIN taskQueue' = DOMAIN q
        /\ \A i \in DOMAIN q : taskQueue'[i] = IF i = 1 THEN e ELSE q[i]
    BY <2>1, <2>3, <2>4, Replaced
  <2>7. SameTasks(q, taskQueue')
    BY <2>3, <2>6 DEF SameTasks
  <2>8. taskQueue' # <<>>
    BY <2>1, <2>6, LenPositive
  <2>9. Head(taskQueue') = taskQueue'[1] /\ taskQueue'[1] = e
    BY <2>1, <2>6, <2>8, NonEmpty
  <2>10. QED
    BY <2>2, <2>5, <2>6, <2>7, <2>8, <2>9
<1>3. QED
  BY <1>1, <1>2

\* What is left of the queue when its head is removed has the tasks after it.
LEMMA TailTasks ==
  ASSUME NEW q \in Seq(Task), q # <<>>
  PROVE  LET r == Tail([q EXCEPT ![1].status = "done"])
         IN /\ r \in Seq(Task) /\ Len(r) = Len(q) - 1
            /\ \A i \in 1 .. Len(q) - 1 : r[i] = q[i + 1]
<1> DEFINE e == [q[1] EXCEPT !.status = "done"]
           d == [q EXCEPT ![1] = e]
<1>1. Len(q) \in Nat \ {0} /\ 1 \in DOMAIN q /\ q[1] \in Task /\ DOMAIN q = 1 .. Len(q)
  BY NonEmpty, SeqIsFunction
<1>2. [q EXCEPT ![1].status = "done"] = d
  BY <1>1
<1>3. e \in Task
  BY <1>1 DEF Task, TaskStatus
<1> HIDE DEF e
<1>4. /\ d \in Seq(Task) /\ Len(d) = Len(q)
      /\ \A i \in DOMAIN q : i # 1 => d[i] = q[i]
  BY <1>1, <1>3, Replaced
<1>5. d # <<>>
  BY <1>1, <1>4, LenPositive
<1> HIDE DEF d
<1>6. /\ Tail(d) \in Seq(Task) /\ Len(Tail(d)) = Len(q) - 1
      /\ \A i \in 1 .. Len(q) - 1 : Tail(d)[i] = d[i + 1]
  BY <1>4, <1>5, HeadRemoved
<1>7. \A i \in 1 .. Len(q) - 1 : i + 1 \in DOMAIN q /\ i + 1 # 1
  BY <1>1
<1>8. \A i \in 1 .. Len(q) - 1 : Tail(d)[i] = q[i + 1]
  BY <1>4, <1>6, <1>7
<1>9. QED
  BY <1>2, <1>6, <1>8

-----------------------------------------------------------------------------

\* The steps of the serial queue, in the words of this module.
LEMMA SubmitStep ==
  ASSUME NEW job \in Jobs,
         Running(taskQueue) # NoPkg => Running(taskQueue).name # job.name,
         \A i \in DOMAIN Waiting(taskQueue) : Waiting(taskQueue)[i].name # job.name,
         IF Running(taskQueue) = NoPkg
           THEN Running(taskQueue') = job /\ Waiting(taskQueue') = Waiting(taskQueue)
           ELSE /\ Running(taskQueue') = Running(taskQueue)
                /\ Waiting(taskQueue') = Append(Waiting(taskQueue), job)
  PROVE  Serial!Submit(job)
  BY DEF Serial!Submit, Serial!Busy, Running, Waiting, JobAt, JobOf

LEMMA WithdrawStep ==
  ASSUME NEW i \in DOMAIN Waiting(taskQueue),
         Running(taskQueue') = Running(taskQueue),
         Waiting(taskQueue') = RemoveAt(Waiting(taskQueue), i)
  PROVE  \E k \in DOMAIN Waiting(taskQueue) : Serial!Withdraw(k)
  BY DEF Serial!Withdraw, Serial!RemoveAt, RemoveAt, Running, Waiting, JobAt, JobOf

LEMMA FinishStep ==
  ASSUME Running(taskQueue) # NoPkg,
         IF Waiting(taskQueue) = <<>>
           THEN Running(taskQueue') = NoPkg /\ Waiting(taskQueue') = <<>>
           ELSE /\ Running(taskQueue') = Head(Waiting(taskQueue))
                /\ Waiting(taskQueue') = Tail(Waiting(taskQueue))
  PROVE  Serial!Finish
  BY DEF Serial!Finish, Running, Waiting, JobAt, JobOf

LEMMA StutterStep ==
  ASSUME Running(taskQueue') = Running(taskQueue), Waiting(taskQueue') = Waiting(taskQueue)
  PROVE  UNCHANGED Serial!vars
  BY DEF Serial!vars, Running, Waiting, JobAt, JobOf

LEMMA SerialNext ==
  ASSUME \/ \E job \in Jobs : Serial!Submit(job)
         \/ \E k \in DOMAIN Waiting(taskQueue) : Serial!Withdraw(k)
         \/ Serial!Finish
         \/ UNCHANGED Serial!vars
  PROVE  [Serial!Next]_(Serial!vars)
  BY DEF Serial!Next, Waiting, JobAt, JobOf, Jobs


-----------------------------------------------------------------------------

\* install(), uninstall() and update() submit a job.
LEMMA EnqueueSubmits ==
  ASSUME NoPkg \notin Jobs, IInv, NEW p \in Pkg, NEW a \in Action, Enqueue(p, a)
  PROVE  \E job \in Jobs : Serial!Submit(job)
<1> DEFINE t == [name |-> p, action |-> a, status |-> ""]
           q == Append(taskQueue, t)
           n == Len(taskQueue)
<1>1. t \in Task /\ t.name = p /\ t.action = a /\ JobOf(t) = [name |-> p, action |-> a]
  BY DEF Task, TaskStatus, JobOf
<1>2. taskQueue \in Seq(Task)
  BY DEF IInv, TypeOK
<1>3. IF Len(q) = 1 THEN RunTask(q, doingPkg) ELSE taskQueue' = q
  BY DEF Enqueue
<1>4. \A i \in DOMAIN taskQueue : taskQueue[i].name # p
  BY DEF Enqueue, IsTaskExist
<1> HIDE DEF t
<1>5. /\ q \in Seq(Task) /\ Len(q) = n + 1 /\ DOMAIN q = 1 .. n + 1
      /\ \A i \in DOMAIN taskQueue : q[i] = taskQueue[i]
      /\ q[n + 1] = t
  BY <1>1, <1>2, Appended
<1> HIDE DEF q
<1>6. n \in Nat /\ DOMAIN taskQueue = 1 .. n /\ n = Len(taskQueue)
  BY <1>2, SeqIsFunction
<1> HIDE DEF n
<1>7. taskQueue' \in Seq(Task) /\ SameTasks(q, taskQueue')
  <2>1. CASE Len(q) = 1
    BY <1>3, <1>5, <2>1, RunTaskKeeps
  <2>2. CASE Len(q) # 1
    BY <1>3, <1>5, <2>2 DEF SameTasks
  <2>3. QED
    BY <2>1, <2>2
<1>8. Running(taskQueue') = Running(q) /\ Waiting(taskQueue') = Waiting(q)
  BY <1>5, <1>7, SameTasksSameJobs
<1>9. q # <<>>
  BY <1>5, <1>6, LenPositive
<1>10. JobOf(t) \in Jobs /\ JobOf(t).name = p
  BY <1>1, JobOfType
<1>11. Running(taskQueue) # NoPkg => Running(taskQueue).name # p
  <2>1. CASE taskQueue = <<>>
    BY <2>1 DEF Running
  <2>2. CASE taskQueue # <<>>
    BY <1>2, <1>4, <2>2, NonEmpty DEF Running, JobOf
  <2>3. QED
    BY <2>1, <2>2
<1>12. CASE taskQueue = <<>>
  <2>1. n = 0
    BY <1>6, <1>12, EmptySeq
  <2>2. Running(taskQueue) = NoPkg /\ Waiting(taskQueue) = <<>>
    BY <1>12 DEF Running, Waiting
  <2>3. Running(q) = JobOf(t)
    BY <1>5, <1>9, <2>1 DEF Running
  <2>4. Waiting(q) = <<>>
    <3>1. Waiting(q) \in Seq(Jobs) /\ Len(Waiting(q)) = 0
      BY <1>5, <1>9, <2>1, WaitingShape
    <3>2. QED
      BY <3>1, NonEmpty
  <2>5. \A i \in DOMAIN Waiting(taskQueue) : Waiting(taskQueue)[i].name # p
    BY <2>2
  <2>6. QED
    BY <1>8, <1>10, <1>11, <2>2, <2>3, <2>4, <2>5, SubmitStep
<1>13. CASE taskQueue # <<>>
  <2> DEFINE w == Waiting(taskQueue)
  <2>1. n \in Nat \ {0} /\ taskQueue[1] \in Task /\ 1 \in DOMAIN taskQueue
    BY <1>2, <1>6, <1>13, NonEmpty
  <2>2. Running(taskQueue) = JobOf(taskQueue[1]) /\ Running(q) = JobOf(q[1])
    BY <1>9, <1>13 DEF Running
  <2>3. Running(q) = Running(taskQueue) /\ Running(taskQueue) # NoPkg
    BY <1>5, <2>1, <2>2, JobOfType
  <2>4. /\ w \in Seq(Jobs) /\ Len(w) = n - 1
        /\ \A i \in 1 .. n - 1 : w[i] = JobOf(taskQueue[i + 1])
    BY <1>2, <1>6, <1>13, WaitingShape
  <2>5. /\ Waiting(q) \in Seq(Jobs) /\ Len(Waiting(q)) = n
        /\ \A i \in 1 .. n : Waiting(q)[i] = JobOf(q[i + 1])
    <3>1. Len(q) - 1 = n
      BY <1>5, <1>6
    <3>2. QED
      BY <1>5, <1>9, <3>1, WaitingShape
  <2> HIDE DEF w
  <2>6. /\ Append(w, JobOf(t)) \in Seq(Jobs) /\ Len(Append(w, JobOf(t))) = n
        /\ \A i \in 1 .. n - 1 : Append(w, JobOf(t))[i] = w[i]
        /\ Append(w, JobOf(t))[n] = JobOf(t)
    <3>1. DOMAIN w = 1 .. n - 1 /\ Len(w) + 1 = n
      BY <2>1, <2>4, LenProperties
    <3>2. QED
      BY <1>10, <2>4, <3>1, Appended
  <2>7. \A i \in 1 .. n : Append(w, JobOf(t))[i] = Waiting(q)[i]
    <3> TAKE i \in 1 .. n
    <3>1. CASE i = n
      BY <1>5, <2>5, <2>6, <3>1
    <3>2. CASE i # n
      <4>1. n \in Nat /\ i \in 1 .. n /\ i # n
        BY <2>1, <3>2
      <4>2. i \in 1 .. n - 1 /\ i + 1 \in 1 .. n
        BY <4>1
      <4>3. i + 1 \in DOMAIN taskQueue
        BY <1>6, <4>2
      <4>4. QED
        BY <1>5, <2>4, <2>5, <2>6, <4>2, <4>3
    <3>3. QED
      BY <3>1, <3>2
  <2>8. Waiting(q) = Append(w, JobOf(t))
    BY <2>5, <2>6, <2>7, SeqEqual
  <2>9. \A i \in DOMAIN w : w[i].name # p
    <3> TAKE i \in DOMAIN w
    <3>1. i \in 1 .. n - 1 /\ i + 1 \in DOMAIN taskQueue
      BY <1>6, <2>1, <2>4, LenProperties
    <3>2. w[i] = JobOf(taskQueue[i + 1])
      BY <2>4, <3>1
    <3>3. taskQueue[i + 1].name # p
      BY <1>4, <3>1
    <3>4. QED
      BY <3>2, <3>3 DEF JobOf
  <2>10. QED
    BY <1>8, <1>10, <1>11, <2>3, <2>8, <2>9, SubmitStep DEF w
<1>14. QED
  BY <1>12, <1>13


\* What cancel() removes: one waiting task, the others keep their places.
LEMMA CancelRemoves ==
  ASSUME IInv, NEW p \in Pkg, Cancel(p)
  PROVE  \E i \in 2 .. Len(taskQueue) :
           /\ taskQueue[i].status = "" /\ delivery.left = 0
           /\ taskQueue' \in Seq(Task) /\ Len(taskQueue') = Len(taskQueue) - 1
           /\ \A k \in 1 .. Len(taskQueue) - 1 :
                taskQueue'[k] = taskQueue[IF k < i THEN k ELSE k + 1]
<1> DEFINE n == Len(taskQueue)
<1>1. taskQueue \in Seq(Task)
  BY DEF IInv, TypeOK
<1>2. PICK i \in DOMAIN taskQueue :
        taskQueue[i].status # "doing" /\ taskQueue' = RemoveAt(taskQueue, i)
  BY DEF Cancel
<1>3. i # 1 /\ taskQueue[i].status = ""
  BY <1>2 DEF IInv, OnlyHeadRuns
<1>4. n \in Nat /\ DOMAIN taskQueue = 1 .. n
  BY <1>1, SeqIsFunction
<1>5. /\ taskQueue' \in Seq(Task)
      /\ Len(taskQueue') = n - 1
      /\ \A k \in 1 .. n - 1 :
           taskQueue'[k] = taskQueue[IF k < i THEN k ELSE k + 1]
  BY <1>1, <1>2, Removed
<1> HIDE DEF n
<1>6. i \in 1 .. n /\ i # 1
  BY <1>3, <1>4
<1>7. i \in 2 .. n
  BY <1>4, <1>6
<1>8. delivery.left = 0
  BY DEF Cancel, Idle
<1>9. QED
  BY <1>3, <1>5, <1>7, <1>8 DEF n

\* cancel() withdraws a job.
LEMMA CancelWithdraws ==
  ASSUME IInv, NEW p \in Pkg, Cancel(p)
  PROVE  \E k \in DOMAIN Waiting(taskQueue) : Serial!Withdraw(k)
<1> DEFINE n == Len(taskQueue)
           w == Waiting(taskQueue)
           v == Waiting(taskQueue')
<1>1. PICK i \in 2 .. n :
        /\ taskQueue' \in Seq(Task) /\ Len(taskQueue') = n - 1
        /\ \A k \in 1 .. n - 1 : taskQueue'[k] = taskQueue[IF k < i THEN k ELSE k + 1]
  BY CancelRemoves
<1>2. taskQueue \in Seq(Task) /\ n \in Nat
  BY SeqIsFunction DEF IInv, TypeOK
<1>3. n - 1 \in Nat \ {0} /\ i - 1 \in 1 .. n - 1 /\ n # 0
  BY <1>1, <1>2
<1>4. taskQueue # <<>> /\ taskQueue' # <<>>
  BY <1>1, <1>2, <1>3, LenPositive
<1>5. /\ w \in Seq(Jobs) /\ Len(w) = n - 1
      /\ \A k \in 1 .. n - 1 : w[k] = JobOf(taskQueue[k + 1])
  BY <1>2, <1>4, WaitingShape
<1>6. /\ v \in Seq(Jobs) /\ Len(v) = n - 1 - 1
      /\ \A k \in 1 .. n - 1 - 1 : v[k] = JobOf(taskQueue'[k + 1])
  BY <1>1, <1>4, WaitingShape
<1>7. Running(taskQueue') = Running(taskQueue)
  <2>1. taskQueue'[1] = taskQueue[1]
    BY <1>1, <1>2
  <2>2. QED
    BY <1>4, <2>1 DEF Running
<1> HIDE DEF n, w, v
<1>8. DOMAIN w = 1 .. n - 1
  BY <1>5, LenProperties
<1>9. i - 1 \in DOMAIN w
  BY <1>3, <1>8
<1>10. /\ RemoveAt(w, i - 1) \in Seq(Jobs) /\ Len(RemoveAt(w, i - 1)) = n - 1 - 1
       /\ \A k \in 1 .. n - 1 - 1 :
            RemoveAt(w, i - 1)[k] = w[IF k < i - 1 THEN k ELSE k + 1]
  <2>1. /\ RemoveAt(w, i - 1) \in Seq(Jobs) /\ Len(RemoveAt(w, i - 1)) = Len(w) - 1
        /\ DOMAIN RemoveAt(w, i - 1) = 1 .. Len(w) - 1
        /\ \A k \in DOMAIN RemoveAt(w, i - 1) :
             RemoveAt(w, i - 1)[k] = w[IF k < i - 1 THEN k ELSE k + 1]
    BY <1>5, <1>9, Removed
  <2>2. QED
    BY <1>5, <2>1
<1>11. \A k \in 1 .. n - 1 - 1 : v[k] = RemoveAt(w, i - 1)[k]
  <2> TAKE k \in 1 .. n - 1 - 1
  <2>1. k + 1 \in 1 .. n - 1 /\ k \in 1 .. n - 1
    BY <1>2
  <2>2. CASE k < i - 1
    <3>1. k + 1 < i
      BY <1>2, <1>3, <2>2
    <3>2. taskQueue'[k + 1] = taskQueue[k + 1]
      BY <1>1, <2>1, <3>1
    <3>3. QED
      BY <1>5, <1>6, <1>10, <2>1, <2>2, <3>2
  <2>3. CASE ~(k < i - 1)
    <3>1. ~(k + 1 < i)
      BY <1>2, <1>3, <2>3
    <3>2. taskQueue'[k + 1] = taskQueue[k + 1 + 1]
      BY <1>1, <2>1, <3>1
    <3>3. QED
      BY <1>5, <1>6, <1>10, <2>1, <2>3, <3>2
  <2>4. QED
    BY <2>2, <2>3
<1>12. v = RemoveAt(w, i - 1)
  BY <1>6, <1>10, <1>11, SeqEqual
<1>13. QED
  BY <1>7, <1>9, <1>12, WithdrawStep DEF w, v

\* What getFinished() does to a queue whose running task the signal names.
LEMMA FinishedRemoves ==
  ASSUME IInv, GetFinished
  PROVE  \/ UNCHANGED <<taskQueue, calls>>
         \/ /\ taskQueue # <<>> /\ delivery.left > 0
            /\ delivery.signal.name = taskQueue[1].name
            /\ \E r \in Seq(Task) :
                 /\ Len(r) = Len(taskQueue) - 1
                 /\ \A k \in 1 .. Len(taskQueue) - 1 : r[k] = taskQueue[k + 1]
                 /\ RunTask(r, NoPkg)
<1>1. CASE UNCHANGED <<taskQueue, doingPkg, calls>>
  BY <1>1
<1>2. ASSUME NEW i \in DOMAIN taskQueue, Completes(delivery.signal.name, i),
             RunTask(Tail([taskQueue EXCEPT ![i].status = "done"]), NoPkg)
      PROVE  /\ taskQueue # <<>> /\ delivery.signal.name = taskQueue[1].name
             /\ \E r \in Seq(Task) :
                  /\ Len(r) = Len(taskQueue) - 1
                  /\ \A k \in 1 .. Len(taskQueue) - 1 : r[k] = taskQueue[k + 1]
                  /\ RunTask(r, NoPkg)
  <2>1. i = 1 /\ taskQueue # <<>> /\ taskQueue[1].name = delivery.signal.name
    BY <1>2, CompletedIsHead DEF IInv
  <2> DEFINE r == Tail([taskQueue EXCEPT ![1].status = "done"])
  <2>2. taskQueue \in Seq(Task)
    BY DEF IInv, TypeOK
  <2>3. /\ r \in Seq(Task) /\ Len(r) = Len(taskQueue) - 1
        /\ \A k \in 1 .. Len(taskQueue) - 1 : r[k] = taskQueue[k + 1]
    BY <2>1, <2>2, TailTasks
  <2>4. RunTask(r, NoPkg)
    BY <1>2, <2>1
  <2> HIDE DEF r
  <2>5. QED
    BY <2>1, <2>3, <2>4
<1>3. delivery.left > 0
  BY DEF GetFinished
<1>4. QED
  BY <1>1, <1>2, <1>3 DEF GetFinished


\* getFinished() finishes the running job, or is a stutter.
LEMMA FinishedFinishes ==
  ASSUME NoPkg \notin Jobs, IInv, GetFinished
  PROVE  Serial!Finish \/ UNCHANGED Serial!vars
<1> DEFINE n == Len(taskQueue)
           w == Waiting(taskQueue)
<1>1. taskQueue \in Seq(Task)
  BY DEF IInv, TypeOK
<1>2. CASE UNCHANGED <<taskQueue, calls>>
  BY <1>2, StutterStep
<1>3. ASSUME taskQueue # <<>>, NEW r \in Seq(Task), Len(r) = n - 1,
             \A k \in 1 .. n - 1 : r[k] = taskQueue[k + 1],
             RunTask(r, NoPkg)
      PROVE  Serial!Finish
  <2>1. taskQueue' \in Seq(Task) /\ SameTasks(r, taskQueue')
    BY <1>3, RunTaskKeeps
  <2>2. Running(taskQueue') = Running(r) /\ Waiting(taskQueue') = Waiting(r)
    BY <2>1, SameTasksSameJobs
  <2>3. n \in Nat \ {0} /\ taskQueue[1] \in Task
    BY <1>1, <1>3, NonEmpty
  <2>4. Running(taskQueue) # NoPkg
    BY <1>3, <2>3, JobOfType DEF Running
  <2>5. /\ w \in Seq(Jobs) /\ Len(w) = n - 1
        /\ \A k \in 1 .. n - 1 : w[k] = JobOf(taskQueue[k + 1])
    BY <1>1, <1>3, WaitingShape
  <2> HIDE DEF n, w
  <2>6. CASE n = 1
    <3>1. w = <<>>
      BY <2>5, <2>6, NonEmpty
    <3>2. Len(r) = 0
      BY <1>3, <2>6
    <3>3. r = <<>>
      BY <3>2, NonEmpty
    <3>4. Running(r) = NoPkg /\ Waiting(r) = <<>>
      BY <3>3 DEF Running, Waiting
    <3>5. QED
      BY <2>2, <2>4, <3>1, <3>4, FinishStep DEF w
  <2>7. CASE n # 1
    <3>1. n - 1 \in Nat \ {0} /\ 1 \in 1 .. n - 1
      BY <2>3, <2>7
    <3>2. r # <<>> /\ w # <<>>
      BY <1>3, <2>5, <3>1, LenPositive
    <3>3. Head(w) = w[1]
      BY <2>5, <3>2, NonEmpty
    <3>4. Running(r) = Head(w)
      <4>1. r[1] = taskQueue[1 + 1] /\ w[1] = JobOf(taskQueue[1 + 1])
        BY <1>3, <2>5, <3>1
      <4>2. QED
        BY <3>2, <3>3, <4>1 DEF Running
    <3>5. /\ Waiting(r) \in Seq(Jobs) /\ Len(Waiting(r)) = n - 1 - 1
          /\ \A k \in 1 .. n - 1 - 1 : Waiting(r)[k] = JobOf(r[k + 1])
      BY <1>3, <3>2, WaitingShape
    <3>6. /\ Tail(w) \in Seq(Jobs) /\ Len(Tail(w)) = n - 1 - 1
          /\ \A k \in 1 .. n - 1 - 1 : Tail(w)[k] = w[k + 1]
      BY <2>5, <3>2, HeadRemoved
    <3>7. \A k \in 1 .. n - 1 - 1 : Waiting(r)[k] = Tail(w)[k]
      <4> TAKE k \in 1 .. n - 1 - 1
      <4>1. k + 1 \in 1 .. n - 1
        BY <2>3
      <4>2. QED
        BY <1>3, <2>5, <3>5, <3>6, <4>1
    <3>8. Waiting(r) = Tail(w)
      BY <3>5, <3>6, <3>7, SeqEqual
    <3>9. QED
      BY <2>2, <2>4, <3>2, <3>4, <3>8, FinishStep DEF w
  <2>8. QED
    BY <2>6, <2>7
<1>4. QED
  BY <1>2, <1>3, FinishedRemoves

\* Every step of the client is a step of the serial queue, or a stutter.
LEMMA StepSerial ==
  ASSUME NoPkg \notin Jobs, IInv, [Next]_vars
  PROVE  [Serial!Next]_(Serial!vars)
<1>1. ASSUME NEW p \in Pkg, Install(p) \/ Uninstall(p) \/ Update(p)
      PROVE  \E job \in Jobs : Serial!Submit(job)
  BY <1>1, EnqueueSubmits DEF Install, Uninstall, Update, Action
<1>2. ASSUME NEW p \in Pkg, Cancel(p)
      PROVE  \E k \in DOMAIN Waiting(taskQueue) : Serial!Withdraw(k)
  BY <1>2, CancelWithdraws
<1>3. ASSUME GetFinished PROVE Serial!Finish \/ UNCHANGED Serial!vars
  BY <1>3, FinishedFinishes
<1>4. CASE Bus \/ RunTaskTimeOut \/ UNCHANGED vars
  <2>1. taskQueue' = taskQueue
    BY <1>4 DEF Bus, Deliver, ListChged, GetAllPkgList, Dispatch, RunTaskTimeOut, vars
  <2>2. QED
    BY <2>1, StutterStep
<1>5. QED
  BY <1>1, <1>2, <1>3, <1>4, SerialNext DEF Next, User

\* The client's queue implements the serial queue, for any packages and any
\* number of JadedBus objects, if the empty name is not itself a job.
THEOREM QueueIsSerial ==
  ASSUME NoPkg \notin Jobs
  PROVE  Spec => ImplementsSerialQueue
<1>1. Init => Serial!Init
  BY DEF Init, Serial!Init
<1>2. IInv /\ [Next]_vars => [Serial!Next]_(Serial!vars)
  BY StepSerial
<1>3. QED
  BY <1>1, <1>2, Invariance, PTL DEF Spec, ImplementsSerialQueue, Serial!Spec

-----------------------------------------------------------------------------

\* Every step that sends a call sends that of the task that then runs.
LEMMA StepCallsServe ==
  ASSUME IInv, [Next]_vars, Len(calls') > Len(calls)
  PROVE  taskQueue' # <<>> /\ calls' = Append(calls, CallOf(Head(taskQueue')))
<1>1. calls \in Seq(Call) /\ taskQueue \in Seq(Task)
  BY DEF IInv, TypeOK
<1>2. Len(calls) \in Nat
  BY <1>1, SeqIsFunction
<1>3. calls' # calls
  BY <1>2
<1>4. ASSUME NEW p \in Pkg, NEW a \in Action, Enqueue(p, a)
      PROVE  taskQueue' # <<>> /\ calls' = Append(calls, CallOf(Head(taskQueue')))
  <2> DEFINE t == [name |-> p, action |-> a, status |-> ""]
             q == Append(taskQueue, t)
  <2>1. t \in Task
    BY DEF Task, TaskStatus
  <2>2. q \in Seq(Task)
    BY <1>1, <2>1, Appended
  <2>3. RunTask(q, doingPkg)
    BY <1>3, <1>4 DEF Enqueue
  <2> HIDE DEF q
  <2>4. QED
    BY <1>3, <2>2, <2>3, RunTaskKeeps
<1>5. CASE GetFinished
  <2>1. PICK r \in Seq(Task) : RunTask(r, NoPkg)
    BY <1>3, <1>5, FinishedRemoves
  <2>2. QED
    BY <1>3, <2>1, RunTaskKeeps
<1>6. CASE RunTaskTimeOut
  BY <1>6 DEF RunTaskTimeOut
<1>7. ~Dispatch
  <2> SUFFICES ASSUME Dispatch PROVE FALSE
    OBVIOUS
  <2>1. Len(calls') = Len(calls) - 1
    BY <1>1, HeadRemoved DEF Dispatch
  <2>2. QED
    BY <1>2, <2>1
<1>8. QED
  BY <1>3, <1>4, <1>5, <1>6, <1>7
     DEF Next, User, Bus, Install, Uninstall, Update, Action, Cancel, Deliver, ListChged,
         GetAllPkgList, vars

\* Only calls of the running task go on the bus.
THEOREM OnlyHeadIsCalled == Spec => CallsServeHead
<1>1. IInv /\ [Next]_vars =>
        [Len(calls') > Len(calls) =>
           /\ taskQueue' # <<>>
           /\ calls' = Append(calls, CallOf(Head(taskQueue')))]_vars
  BY StepCallsServe
<1>2. QED
  BY <1>1, Invariance, PTL DEF Spec, CallsServeHead


-----------------------------------------------------------------------------

\* What LeavesProperly says of the task at position i and one step.
LeftByEnd(i) ==
  i = 1 /\ delivery.left > 0 /\ delivery.signal.name = taskQueue[1].name

LeftByCancel(i) == taskQueue[i].status = "" /\ delivery.left = 0

InOrder(i) ==
  \A k \in DOMAIN taskQueue' :
    taskQueue'[k].name = taskQueue[IF k < i THEN k ELSE k + 1].name

\* A step that keeps the names, at their places, lets none go.
LEMMA NamesStay ==
  ASSUME NEW q \in Seq(Task), taskQueue' \in Seq(Task), SameTasks(q, taskQueue'),
         NEW k \in DOMAIN q
  PROVE  q[k].name \in Names(taskQueue')
<1>1. DOMAIN q = 1 .. Len(q) /\ DOMAIN taskQueue' = 1 .. Len(taskQueue')
  BY SeqIsFunction
<1>2. k \in DOMAIN taskQueue' /\ taskQueue'[k].name = q[k].name
  BY <1>1 DEF SameTasks
<1>3. QED
  BY <1>2 DEF Names

LEMMA StepLeaves ==
  ASSUME IInv, [Next]_vars, NEW i \in DOMAIN taskQueue,
         taskQueue[i].name \notin Names(taskQueue')
  PROVE  (LeftByEnd(i) \/ LeftByCancel(i)) /\ InOrder(i)
<1> DEFINE n == Len(taskQueue)
<1>1. taskQueue \in Seq(Task) /\ n \in Nat /\ DOMAIN taskQueue = 1 .. n
  BY SeqIsFunction DEF IInv, TypeOK
<1>2. ASSUME NEW p \in Pkg, NEW a \in Action, Enqueue(p, a) PROVE FALSE
  <2> DEFINE t == [name |-> p, action |-> a, status |-> ""]
             q == Append(taskQueue, t)
  <2>1. t \in Task
    BY DEF Task, TaskStatus
  <2>2. IF Len(q) = 1 THEN RunTask(q, doingPkg) ELSE taskQueue' = q
    BY <1>2 DEF Enqueue
  <2> HIDE DEF t
  <2>3. /\ q \in Seq(Task) /\ DOMAIN q = 1 .. n + 1
        /\ \A k \in DOMAIN taskQueue : q[k] = taskQueue[k]
    BY <1>1, <2>1, Appended
  <2> HIDE DEF q, n
  <2>4. q \in Seq(Task) /\ q[i] = taskQueue[i] /\ DOMAIN q = 1 .. n + 1
    BY <2>3
  <2>5. taskQueue' \in Seq(Task) /\ SameTasks(q, taskQueue')
    BY <2>4, <2>2, RunTaskKeeps DEF SameTasks
  <2>6. i \in DOMAIN q
    BY <1>1, <2>4
  <2>7. QED
    BY <2>4, <2>5, <2>6, NamesStay
<1>3. ASSUME NEW p \in Pkg, Cancel(p) PROVE LeftByCancel(i) /\ InOrder(i)
  <2>1. PICK j \in 2 .. n :
          /\ taskQueue[j].status = "" /\ delivery.left = 0
          /\ taskQueue' \in Seq(Task) /\ Len(taskQueue') = n - 1
          /\ \A k \in 1 .. n - 1 : taskQueue'[k] = taskQueue[IF k < j THEN k ELSE k + 1]
    BY <1>3, CancelRemoves
  <2>2. DOMAIN taskQueue' = 1 .. n - 1
    BY <2>1, LenProperties
  <2> HIDE DEF n
  <2>3. i = j
    <3> SUFFICES ASSUME i # j PROVE FALSE
      OBVIOUS
    <3> DEFINE k == IF i < j THEN i ELSE i - 1
    <3>1. i \in 1 .. n /\ j \in 2 .. n /\ n \in Nat
      BY <1>1
    <3>2. k \in 1 .. n - 1 /\ (IF k < j THEN k ELSE k + 1) = i
      BY <3>1
    <3> HIDE DEF k
    <3>3. k \in DOMAIN taskQueue' /\ taskQueue'[k] = taskQueue[i]
      BY <2>1, <2>2, <3>2
    <3>4. QED
      BY <3>3 DEF Names
  <2>4. InOrder(i)
    BY <2>1, <2>2, <2>3 DEF InOrder
  <2>5. QED
    BY <2>1, <2>3, <2>4 DEF LeftByCancel
<1>4. CASE taskQueue' = taskQueue
  BY <1>4 DEF Names
<1>5. ASSUME GetFinished PROVE LeftByEnd(i) /\ InOrder(i)
  <2>1. /\ taskQueue # <<>> /\ delivery.left > 0
        /\ delivery.signal.name = taskQueue[1].name
        /\ \E r \in Seq(Task) :
             /\ Len(r) = n - 1
             /\ \A k \in 1 .. n - 1 : r[k] = taskQueue[k + 1]
             /\ RunTask(r, NoPkg)
    BY <1>4, <1>5, FinishedRemoves DEF Names
  <2>2. PICK r \in Seq(Task) :
          /\ Len(r) = n - 1
          /\ \A k \in 1 .. n - 1 : r[k] = taskQueue[k + 1]
          /\ RunTask(r, NoPkg)
    BY <2>1
  <2>3. taskQueue' \in Seq(Task) /\ SameTasks(r, taskQueue')
    BY <2>2, RunTaskKeeps
  <2>4. DOMAIN r = 1 .. n - 1 /\ DOMAIN taskQueue' = 1 .. Len(taskQueue')
    BY <2>2, <2>3, LenProperties
  <2>5. DOMAIN taskQueue' = 1 .. n - 1
    BY <2>2, <2>3, <2>4 DEF SameTasks
  <2> HIDE DEF n
  <2>6. \A k \in 1 .. n - 1 : taskQueue'[k].name = taskQueue[k + 1].name
    BY <2>2, <2>3, <2>4 DEF SameTasks
  <2>7. i = 1
    <3> SUFFICES ASSUME i # 1 PROVE FALSE
      OBVIOUS
    <3>1. i - 1 \in 1 .. n - 1 /\ i - 1 + 1 = i
      BY <1>1
    <3>2. taskQueue'[i - 1].name = taskQueue[i].name
      BY <2>6, <3>1
    <3>3. QED
      BY <2>5, <3>1, <3>2 DEF Names
  <2>8. InOrder(i)
    <3>1. \A k \in 1 .. n - 1 : ~(k < 1)
      BY <1>1
    <3>2. QED
      BY <2>5, <2>6, <2>7, <3>1 DEF InOrder
  <2>9. QED
    BY <2>1, <2>7, <2>8 DEF LeftByEnd
<1>6. QED
  BY <1>2, <1>3, <1>4, <1>5
     DEF Next, User, Bus, Install, Uninstall, Update, Action, Deliver, ListChged,
         GetAllPkgList, Dispatch, RunTaskTimeOut, vars

\* A task leaves the queue by its end or by its own cancel, and the others
\* keep their order.
THEOREM TasksLeaveProperly == Spec => LeavesProperly
<1>1. IInv /\ [Next]_vars =>
        [\A i \in DOMAIN taskQueue :
           taskQueue[i].name \notin Names(taskQueue') =>
             /\ \/ /\ i = 1
                   /\ delivery.left > 0
                   /\ delivery.signal.name = taskQueue[1].name
                \/ /\ taskQueue[i].status = ""
                   /\ delivery.left = 0
             /\ \A k \in DOMAIN taskQueue' :
                  taskQueue'[k].name = taskQueue[IF k < i THEN k ELSE k + 1].name]_vars
  BY StepLeaves DEF LeftByEnd, LeftByCancel, InOrder
<1>2. QED
  BY <1>1, Invariance, PTL DEF Spec, LeavesProperly
=============================================================================
