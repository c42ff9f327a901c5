-------------------------- MODULE RunQueue_proofs --------------------------
(***************************************************************************)
(* What every component built on RunQueue may rely on: a coroutine is in   *)
(* one place only, queued once, running, or blocked.                       *)
(***************************************************************************)
EXTENDS RunQueue, SequenceTheorems, TLAPS

Queue == {queue[i] : i \in 1..Len(queue)}

OnePlace ==
  /\ queue \in Seq(Tasks) /\ cur \in Tasks \cup {None} /\ blocked \subseteq Tasks
  /\ \A i, j \in 1..Len(queue) : queue[i] = queue[j] => i = j
  /\ Queue \cap blocked = {}
  /\ cur # None => cur \notin Queue /\ cur \notin blocked

\* A coroutine goes to the back.
LEMMA Pushed ==
  ASSUME OnePlace, NEW t \in Tasks, t \notin Queue, queue' = Append(queue, t)
  PROVE  /\ queue' \in Seq(Tasks) /\ Queue' = Queue \cup {t}
         /\ \A i, j \in 1..Len(queue') : queue'[i] = queue'[j] => i = j
<1>1. /\ queue' \in Seq(Tasks) /\ Len(queue') = Len(queue) + 1 /\ Len(queue) \in Nat
      /\ \A i \in 1..Len(queue) : queue'[i] = queue[i]
      /\ queue'[Len(queue) + 1] = t
  BY AppendProperties, LenProperties DEF OnePlace
<1>2. 1..Len(queue') = (1..Len(queue)) \cup {Len(queue) + 1}
  BY <1>1
<1>3. Queue' = Queue \cup {t}
  BY <1>1, <1>2 DEF Queue
<1>4. ASSUME NEW i \in 1..Len(queue'), NEW j \in 1..Len(queue'), queue'[i] = queue'[j]
      PROVE  i = j
  BY <1>1, <1>2, <1>4 DEF Queue, OnePlace
<1> QED
  BY <1>1, <1>3, <1>4

\* The one at the front leaves.
LEMMA Popped ==
  ASSUME OnePlace, queue # <<>>, queue' = Tail(queue)
  PROVE  /\ queue' \in Seq(Tasks) /\ Head(queue) \in Tasks
         /\ Queue = Queue' \cup {Head(queue)} /\ Head(queue) \notin Queue'
         /\ \A i, j \in 1..Len(queue') : queue'[i] = queue'[j] => i = j
<1>1. /\ queue' \in Seq(Tasks) /\ Head(queue) \in Tasks /\ Head(queue) = queue[1]
      /\ Len(queue) \in Nat \ {0} /\ Len(queue') = Len(queue) - 1
      /\ \A i \in 1..Len(queue') : queue'[i] = queue[i + 1]
  BY HeadTailProperties, EmptySeq DEF OnePlace
<1>2. \A i \in 1..Len(queue') : i + 1 \in 1..Len(queue) /\ i + 1 # 1
  BY <1>1
<1>3. Queue' \cup {Head(queue)} \subseteq Queue
  BY <1>1, <1>2 DEF Queue
<1>4. ASSUME NEW i \in 1..Len(queue) PROVE queue[i] \in Queue' \cup {Head(queue)}
  <2>1. i # 1 => i - 1 \in 1..Len(queue') /\ queue'[i - 1] = queue[i]
    BY <1>1
  <2> QED
    BY <1>1, <2>1 DEF Queue
<1>5. Head(queue) \notin Queue'
  BY <1>1, <1>2 DEF Queue, OnePlace
<1>6. ASSUME NEW i \in 1..Len(queue'), NEW j \in 1..Len(queue'), queue'[i] = queue'[j]
      PROVE  i = j
  <2>1. i + 1 = j + 1
    BY <1>1, <1>2, <1>6 DEF OnePlace
  <2> QED
    BY <1>1, <2>1
<1> QED
  BY <1>1, <1>3, <1>4, <1>5, <1>6, SMTT(30) DEF Queue

LEMMA InitPlaces == Init => OnePlace
BY EmptySeq DEF Init, OnePlace, Queue

LEMMA StepPlaces ==
  ASSUME None \notin Tasks, OnePlace, [Next]_vars
  PROVE  OnePlace'
<1>1. CASE Resume
  BY <1>1, Popped DEF Resume, OnePlace
<1>2. CASE Block \/ Retire
  BY <1>2 DEF Block, Retire, OnePlace, Queue
<1>3. ASSUME NEW t \in Tasks, Admit(t) PROVE OnePlace'
  <2>1. t \notin Queue
    BY <1>3 DEF Admit, InQueue, Queue
  <2> QED
    BY <1>3, <2>1, Pushed DEF Admit, OnePlace
<1>4. ASSUME NEW t \in Tasks, Wake(t) PROVE OnePlace'
  <2>1. t \notin Queue
    BY <1>4 DEF Wake, OnePlace
  <2> QED
    BY <1>4, <2>1, Pushed DEF Wake, OnePlace
<1>5. CASE UNCHANGED vars
  BY <1>5 DEF vars, OnePlace, Queue
<1> QED
  BY <1>1, <1>2, <1>3, <1>4, <1>5 DEF Next

\* The run queue resumes nobody twice: no coroutine is in two places.  IoLoop
\* implements the queue (scheduled_ and the batch of step(), waiter.hpp:150-170).
THEOREM InOnePlace == ASSUME None \notin Tasks PROVE Spec => []OnePlace
<1>1. OnePlace /\ [Next]_vars => OnePlace'
  BY StepPlaces
<1> QED
  BY <1>1, InitPlaces, PTL DEF Spec
=============================================================================
