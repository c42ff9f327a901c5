---------------------------- MODULE IoLoop_proofs ----------------------------
(***************************************************************************)
(* Proofs about IoLoop, for every set of tasks, leaves, combinators and    *)
(* descriptors: completion_count_ never wraps (part of TypeOK), a coroutine*)
(* is never resumed twice for one suspension (NoDoubleResume), and step()  *)
(* never resumes one that is gone (NoDeadHandle), until stop() has ended   *)
(* run().  IInv is the inductive invariant up to then, Quit the one that   *)
(* is left afterwards.  And a loop whose clients neither call stop() nor   *)
(* reset a promise that a coroutine is suspended in is a FIFO run queue:   *)
(* IoLoop implements RunQueue.                                             *)
(***************************************************************************)
EXTENDS IoLoop, FiniteSetTheorems, SequenceTheorems, TLAPS

-----------------------------------------------------------------------------
(* Sequences of handles.                                                   *)

\* Appending a handle that is not there yet.
LEMMA AppendHandles ==
  ASSUME NEW S, NEW q \in Seq(S), NEW t \in S
  PROVE  /\ Append(q, t) \in Seq(S)
         /\ Handles(Append(q, t)) = Handles(q) \cup {t}
         /\ Unique(q) /\ t \notin Handles(q) => Unique(Append(q, t))
<1>1. /\ Append(q, t) \in Seq(S) /\ Len(Append(q, t)) = Len(q) + 1
      /\ \A i \in 1..Len(q) : Append(q, t)[i] = q[i]
      /\ Append(q, t)[Len(q) + 1] = t /\ Len(q) \in Nat
  BY AppendProperties
<1>2. 1..Len(q) + 1 = (1..Len(q)) \cup {Len(q) + 1}
  BY <1>1
<1>3. Handles(Append(q, t)) = Handles(q) \cup {t}
  BY <1>1, <1>2 DEF Handles
<1>4. ASSUME Unique(q), t \notin Handles(q)
      PROVE  Unique(Append(q, t))
  BY <1>1, <1>2, <1>4 DEF Unique, Handles
<1> QED
  BY <1>1, <1>3, <1>4

\* Taking the first handle off.
LEMMA TailHandles ==
  ASSUME NEW S, NEW q \in Seq(S), q # <<>>
  PROVE  /\ Head(q) \in S /\ Tail(q) \in Seq(S)
         /\ Head(q) \in Handles(q) /\ Handles(Tail(q)) \subseteq Handles(q)
         /\ Unique(q) => Unique(Tail(q)) /\ Head(q) \notin Handles(Tail(q))
<1>1. /\ Head(q) = q[1] /\ Tail(q) \in Seq(S) /\ Len(q) \in Nat /\ Len(q) > 0
      /\ Len(Tail(q)) = Len(q) - 1
      /\ \A i \in 1..Len(Tail(q)) : Tail(q)[i] = q[i + 1]
  BY HeadTailProperties, EmptySeq, LenProperties
<1>2. Head(q) \in S /\ Head(q) \in Handles(q)
  BY <1>1, ElementOfSeq DEF Handles
<1>3. Handles(Tail(q)) \subseteq Handles(q)
  BY <1>1 DEF Handles
<1>4. ASSUME Unique(q)
      PROVE  Unique(Tail(q)) /\ Head(q) \notin Handles(Tail(q))
  BY <1>1, <1>4 DEF Unique, Handles
<1> QED
  BY <1>1, <1>2, <1>3, <1>4

\* schedule(coro) adds the handle and no duplicate.
LEMMA EnqueueHandles ==
  ASSUME NEW S, NEW q \in Seq(S), NEW t \in S
  PROVE  /\ Enqueue(q, t) \in Seq(S)
         /\ Handles(Enqueue(q, t)) = Handles(q) \cup {t}
         /\ Unique(q) => Unique(Enqueue(q, t))
<1>1. InSeq(t, q) <=> t \in Handles(q)
  BY DEF InSeq, Handles
<1> QED
  BY <1>1, AppendHandles DEF Enqueue

\* The empty vector.
LEMMA EmptyHandles == Handles(<<>>) = {} /\ Unique(<<>>) /\ <<>> \in Seq(Tasks)
BY EmptySeq DEF Handles, Unique

\* remove_waiter's erasure from scheduled_ never finds the handle: it is cleared
\* from the waiter when it is scheduled.
LEMMA NothingToDeschedule ==
  ASSUME TypeOK, Places, NEW R \in SUBSET Waiters
  PROVE  Descheduled(scheduled, {coro[w] : w \in R}) = scheduled
<1>1. ASSUME NEW w \in R PROVE ~InSeq(coro[w], scheduled)
  <2>1. \A i \in 1..Len(scheduled) : scheduled[i] \in Queued
    BY DEF Queued, Handles
  <2> QED
    BY <1>1, <2>1 DEF Places, InSeq
<1> QED
  BY <1>1 DEF Descheduled

\* Writing a value of the range at some places of a function keeps its type.
LEMMA PutTypes ==
  ASSUME NEW S, NEW T, NEW f \in [S -> T], NEW D, NEW v \in T
  PROVE  Put(f, D, v) \in [S -> T]
BY DEF Put

-----------------------------------------------------------------------------
(* io_waiter::complete keeps the invariant, whoever calls it.              *)

\* Scheduling the coroutine stored in a waiter moves the handle from the waiter
\* to scheduled_: it stays in one place.
LEMMA WakePlaces ==
  ASSUME IInv, NEW v \in Waiters, coro[v] # None,
         scheduled' = Enqueue(scheduled, coro[v]),
         coro' = [coro EXCEPT ![v] = None],
         UNCHANGED <<loopVars, taskVars, batch, cur>>
  PROVE  Places' /\ scheduled' \in Seq(Tasks)
<1>1. coro[v] \in Tasks /\ coro[v] \in live \ finished
  BY DEF IInv, TypeOK, Places
<1>2. \A x \in Waiters : coro'[x] # None => coro'[x] = coro[x] /\ x # v
  BY DEF IInv, TypeOK
<1>3. /\ Handles(scheduled') = Handles(scheduled) \cup {coro[v]}
      /\ Unique(scheduled') /\ scheduled' \in Seq(Tasks)
  BY <1>1, EnqueueHandles DEF IInv, TypeOK, Places
<1>4. /\ coro[v] \notin Queued /\ coro[v] # cur
      /\ \A x \in Waiters : x # v => coro[x] # coro[v]
  BY DEF IInv, Places
<1>5. Queued' = Queued \cup {coro[v]}
  BY <1>3 DEF Queued
<1>6. Handles(scheduled') \cap Handles(batch') = {}
  BY <1>3, <1>4 DEF IInv, Places, Queued
<1>7. \A t \in Queued' : t \in live' \ finished' /\ t # cur'
  BY <1>1, <1>4, <1>5 DEF IInv, Places, taskVars
<1>8. \A t \in Queued', x \in Waiters : coro'[x] # t
  <2> SUFFICES ASSUME NEW t \in Queued', NEW x \in Waiters, coro'[x] = t
               PROVE  FALSE
    OBVIOUS
  <2>1. t \in Tasks
    BY <1>1, <1>5 DEF IInv, TypeOK, Places, Queued, Handles
  <2>2. coro[x] = t /\ x # v
    BY <1>2, <2>1, WaiterAssumption
  <2> QED
    BY <1>4, <1>5, <2>2 DEF IInv, Places
<1> QED
  BY <1>2, <1>3, <1>6, <1>7, <1>8 DEF IInv, Places, taskVars, loopVars

\* What complete() changes keeps its type.
WakeTypes ==
  /\ scheduled \in Seq(Tasks)
  /\ result \in [Waiters -> Results]
  /\ coro \in [Waiters -> Tasks \cup {None}]
  /\ count \in [Waiters -> Nat] /\ sched \in [Waiters -> BOOLEAN]

\* complete() keeps the counts and the places of the handles.
LEMMA CompleteKeeps ==
  ASSUME IInv, NEW w \in Waiters, NEW r \in Results, r # "waiting",
         Complete(w, r), UNCHANGED <<loopVars, taskVars, batch, cur, susp>>
  PROVE  WakeTypes' /\ Counts' /\ Places'
<1> DEFINE p       == parent[w]
           v       == IF p = None THEN w ELSE p
           reached == p = None \/ count[p] <= 1
           awaited == coro[v] # None
           wakes   == reached /\ awaited /\ ~sched[v]
<1>1. v \in Waiters /\ (v # w => v \in Combos /\ v = p)
  BY DEF IInv, TypeOK, Waiters
<1>2. /\ result' = [x \in Waiters |-> IF x = w THEN r
                                      ELSE IF x = v /\ reached THEN "done"
                                      ELSE result[x]]
      /\ count' = IF reached => awaited THEN [count EXCEPT ![v] = @ - 1]
                                        ELSE count
      /\ sched' = IF wakes THEN [sched EXCEPT ![v] = TRUE] ELSE sched
      /\ coro' = IF wakes THEN [coro EXCEPT ![v] = None] ELSE coro
      /\ scheduled' = IF wakes THEN Enqueue(scheduled, coro[v]) ELSE scheduled
  BY DEF Complete
<1> HIDE DEF p, v, reached, awaited, wakes
<1>3. awaited => count[v] >= 1 /\ ~sched[v]
  BY <1>1 DEF IInv, Counts, awaited
<1>4. ~reached => count[v] > 1
  BY <1>1 DEF IInv, TypeOK, reached, v, p
<1>5. awaited => coro[v] \in Tasks /\ coro[v] \in live \ finished
  BY <1>1 DEF IInv, TypeOK, Places, awaited
<1>6. WakeTypes'
  <2>1. scheduled' \in Seq(Tasks)
    BY <1>2, <1>5, EnqueueHandles DEF IInv, TypeOK, wakes
  <2>2. count' \in [Waiters -> Nat]
    BY <1>1, <1>2, <1>3, <1>4 DEF IInv, TypeOK
  <2>3. coro' \in [Waiters -> Tasks \cup {None}] /\ sched' \in [Waiters -> BOOLEAN]
    BY <1>1, <1>2 DEF IInv, TypeOK
  <2>4. result' \in [Waiters -> Results]
    BY <1>2 DEF IInv, TypeOK, Results
  <2> QED
    BY <2>1, <2>2, <2>3, <2>4 DEF WakeTypes
<1>7. Counts'
  <2>1. \A x \in Waiters : x # v => coro'[x] = coro[x] /\ count'[x] = count[x]
                                    /\ sched'[x] = sched[x]
    BY <1>1, <1>2 DEF IInv, TypeOK
  <2>2. coro'[v] # None => ~reached /\ count'[v] >= 1 /\ ~sched'[v]
                           /\ coro'[v] = coro[v]
    BY <1>1, <1>2, <1>3, <1>4 DEF IInv, TypeOK, wakes, awaited
  <2>3. \A x \in Waiters : coro'[x] # None => count'[x] >= 1 /\ ~sched'[x]
    BY <2>1, <2>2 DEF IInv, Counts
  <2>4. \A x \in Leaves : result'[x] = "waiting" => x # v \/ v # w
    BY <1>2 DEF Waiters
  <2>5. \A x \in Leaves : result'[x] = "waiting" => x # v /\ result[x] = "waiting"
    BY <1>1, <1>2, <2>4, WaiterAssumption DEF Waiters, IInv, TypeOK
  <2>6. \A x \in Leaves : result'[x] = "waiting" => count'[x] >= 1 /\ ~sched'[x]
    BY <2>1, <2>5 DEF IInv, Counts, Waiters
  <2>7. \A c \in Combos : Idle(c)' <=> Idle(c)
    BY DEF Idle, taskVars
  <2>8. ASSUME NEW c \in Combos, Idle(c) PROVE count'[c] >= 1 /\ ~sched'[c]
    <3>1. coro[c] = None
      BY <2>8 DEF IInv, Counts, Idle
    <3>2. count'[c] = count[c] \/ count'[c] >= 1
      BY <1>1, <1>2, <1>4, <2>1, <3>1 DEF IInv, TypeOK, awaited, Waiters
    <3>3. sched'[c] = sched[c]
      BY <1>1, <1>2, <2>1, <3>1 DEF IInv, TypeOK, awaited, wakes, Waiters
    <3> QED
      BY <2>8, <3>2, <3>3 DEF IInv, Counts
  <2>9. \A c \in Combos :
          coro'[c] # None => coro'[c] \in live' /\ susp'[coro'[c]] = c
    BY <2>1, <2>2 DEF IInv, Counts, taskVars, Waiters
  <2> QED
    BY <2>3, <2>6, <2>7, <2>8, <2>9 DEF Counts, IInv, taskVars
<1>8. Places'
  <2>1. CASE wakes
    BY <1>1, <1>2, <2>1, WakePlaces DEF IInv, TypeOK, wakes, awaited
  <2>2. CASE ~wakes
    BY <1>2, <2>2 DEF IInv, Places, Queued, taskVars, loopVars
  <2> QED
    BY <2>1, <2>2
<1> QED
  BY <1>6, <1>7, <1>8

-----------------------------------------------------------------------------
(* The steps of the loop.                                                  *)

\* Actions of which the invariant reads nothing that changes but pc, time and
\* the poller's sets.
LEMMA QuietKeeps ==
  ASSUME IInv, NEW P \in PcValues, pc' = P, P = "off" => pc = "off",
         loopState' = loopState \/ loopState' = "running",
         pc = "off" => pc' = "off" \/ loopState' = "running",
         left' \in [Waiters -> {Never, -1} \cup Nat],
         ready' \subseteq Waiters, evq' \subseteq Waiters, hot' \subseteq Fds,
         UNCHANGED <<taskVars, runVars, listVars, linkVars, wakeVars>>
  PROVE  IInv'
<1>1. TypeOK'
  BY DEF IInv, TypeOK, taskVars, runVars, listVars, linkVars, wakeVars
<1>2. Counts'
  BY DEF IInv, Counts, Idle, taskVars, runVars, wakeVars
<1>3. Places'
  BY DEF IInv, Places, Queued, taskVars, runVars, wakeVars
<1> QED
  BY <1>1, <1>2, <1>3 DEF IInv

\* The loop's control steps and the environment's.
LEMMA QuietSteps ==
  ASSUME IInv,
         \/ Run \/ PollEvents \/ PollTimeout \/ PollInterrupted \/ LoopAgain
         \/ Tick \/ \E f \in Fds : FdReady(f) \/ FdIdle(f)
  PROVE  IInv'
<1> USE DEF PcValues
<1>1. CASE Run
  BY <1>1, QuietKeeps DEF Run, IInv, TypeOK, pollVars
<1>2. CASE PollEvents
  <2>1. Pending \subseteq Waiters
    BY DEF Pending, IInv, TypeOK, Waiters
  <2> QED
    BY <1>2, <2>1, QuietKeeps DEF PollEvents, IInv, TypeOK
<1>3. CASE PollTimeout \/ PollInterrupted \/ LoopAgain
  BY <1>3, QuietKeeps
     DEF PollTimeout, PollInterrupted, LoopAgain, IInv, TypeOK, pollVars
<1>4. CASE Tick
  <2>1. left' \in [Waiters -> {Never, -1} \cup Nat]
    BY <1>4 DEF Tick, IInv, TypeOK
  <2> QED
    BY <1>4, <2>1, QuietKeeps DEF Tick, IInv, TypeOK, pollVars, loopVars
<1>5. ASSUME NEW f \in Fds, FdReady(f) \/ FdIdle(f) PROVE IInv'
  BY <1>5, QuietKeeps DEF FdReady, FdIdle, IInv, TypeOK, loopVars
<1> QED
  BY <1>1, <1>2, <1>3, <1>4, <1>5

\* The swap moves all handles of one vector to the other.
LEMMA SwapBatchKeeps ==
  ASSUME IInv, SwapBatch PROVE IInv'
<1> USE DEF SwapBatch, taskVars, runVars, pollVars, listVars, linkVars, wakeVars, loopVars
<1>1. /\ Handles(scheduled') = {} /\ Handles(batch) = {}
      /\ Handles(batch') = Handles(scheduled)
  BY EmptyHandles
<1>2. TypeOK'
  BY EmptyHandles DEF IInv, TypeOK
<1>3. Counts'
  BY DEF IInv, Counts, Idle
<1>4. Places'
  BY <1>1, EmptyHandles DEF IInv, Places, Queued
<1> QED
  BY <1>2, <1>3, <1>4 DEF IInv

\* Taking a handle out of the batch makes it the running coroutine.
LEMMA DispatchPlaces ==
  ASSUME IInv, NEW t \in Tasks, Dispatch(t), UNCHANGED <<loopVars, taskVars>>,
         scheduled' = scheduled,
         \A w \in Waiters : coro'[w] \in {coro[w], None}
  PROVE  Places' /\ batch' \in Seq(Tasks) /\ cur' \in Tasks
<1>1. /\ batch' \in Seq(Tasks) /\ t \in Handles(batch)
      /\ Handles(batch') \subseteq Handles(batch)
      /\ Unique(batch') /\ t \notin Handles(batch') /\ cur' = t
  BY TailHandles DEF Dispatch, IInv, TypeOK, Places
<1>2. Queued' \subseteq Queued /\ t \in Queued /\ t \notin Queued'
  BY <1>1 DEF Queued, IInv, Places
<1>3. \A w \in Waiters : coro'[w] # None => coro'[w] = coro[w]
  BY DEF IInv, TypeOK
<1>4. Places'
  <2>1. Handles(scheduled') \cap Handles(batch') = {} /\ Unique(scheduled')
    BY <1>1 DEF IInv, Places
  <2>2. \A x \in Queued' : x \in live' \ finished' /\ x # cur'
    BY <1>1, <1>2 DEF IInv, Places, taskVars
  <2>3. \A x \in Queued', w \in Waiters : coro'[w] # x
    <3>1. None \notin Queued'
      BY <1>1, WaiterAssumption DEF IInv, TypeOK, Queued, Handles
    <3> QED
      BY <1>2, <1>3, <3>1 DEF IInv, Places
  <2>4. cur' \in live' \ finished' /\ \A w \in Waiters : coro'[w] # cur'
    BY <1>1, <1>2, <1>3, WaiterAssumption DEF IInv, Places, taskVars
  <2> QED
    BY <1>1, <1>3, <2>1, <2>2, <2>3, <2>4 DEF IInv, Places, taskVars, loopVars
<1> QED
  BY <1>1, <1>4

\* io_waiter::remove: the lists change, scheduled_ does not.
LEMMA RemoveTypes ==
  ASSUME IInv, NEW R \in SUBSET Waiters, Remove(R)
  PROVE  /\ scheduled' = scheduled
         /\ waiters' \subseteq Waiters /\ added' \in [Waiters -> BOOLEAN]
         /\ reg' \in [Fds -> Leaves \cup {None}]
<1>1. scheduled' = scheduled
  BY NothingToDeschedule DEF Remove, IInv
<1>2. waiters' \subseteq Waiters /\ added' \in [Waiters -> BOOLEAN]
  BY DEF Remove, Put, IInv, TypeOK
<1>3. reg' \in [Fds -> Leaves \cup {None}]
  BY DEF Remove, Unregistered, IInv, TypeOK
<1> QED
  BY <1>1, <1>2, <1>3

\* Every await_resume leaves a running coroutine that nothing else holds.
LEMMA ResumeKeeps ==
  ASSUME IInv, NEW t \in Tasks, Resume(t) PROVE IInv'
<1>1. /\ Dispatch(t) /\ UNCHANGED <<loopVars, taskVars, pollVars>>
      /\ susp' = [susp EXCEPT ![t] = None]
  BY DEF Resume, ResumeStart, ResumeLeaf, ResumeAny, ResumeAll, IInv, TypeOK,
         wakeVars
<1>2. susp' \in [Tasks -> Waiters \cup {None}]
  BY <1>1 DEF IInv, TypeOK
<1>3. cur' = t /\ t \in live \ finished
  BY <1>1 DEF Dispatch
<1>4. CASE ResumeStart(t)
  <2> USE <1>4 DEF ResumeStart, loopVars, taskVars, pollVars, listVars,
                   linkVars, wakeVars
  <2>1. Places' /\ batch' \in Seq(Tasks) /\ cur' \in Tasks
    BY <1>1, DispatchPlaces
  <2>2. TypeOK'
    BY <2>1 DEF IInv, TypeOK
  <2>3. Counts'
    BY <1>3 DEF IInv, Counts, Idle
  <2> QED
    BY <2>1, <2>2, <2>3 DEF IInv
<1>5. CASE ResumeLeaf(t)
  <2> USE <1>5 DEF ResumeLeaf, loopVars, taskVars, pollVars, wakeVars
  <2> DEFINE w == susp[t]
             R == {w} \cap {x \in Leaves : added[x]}
  <2>1. w \in Leaves /\ w \in Waiters /\ Remove(R) /\ R \subseteq Waiters
    BY DEF Waiters
  <2>2. /\ scheduled' = scheduled
        /\ waiters' \subseteq Waiters /\ added' \in [Waiters -> BOOLEAN]
        /\ reg' \in [Fds -> Leaves \cup {None}]
    BY <2>1, RemoveTypes
  <2>3. Places' /\ batch' \in Seq(Tasks) /\ cur' \in Tasks
    BY <1>1, <2>2, DispatchPlaces
  <2>4. /\ parent' \in [Waiters -> Combos \cup {None}]
        /\ kids' \in [Waiters -> SUBSET Leaves]
    BY <2>1 DEF IInv, TypeOK
  <2>5. TypeOK'
    BY <1>2, <2>2, <2>3, <2>4 DEF IInv, TypeOK
  <2>6. Counts'
    <3>1. \A c \in Combos : Idle(c)' => Idle(c)
      BY <1>1, <2>1, WaiterAssumption DEF Idle, IInv, TypeOK
    <3>2. \A c \in Combos :
            coro[c] # None => coro[c] \in live /\ susp[coro[c]] = c /\ coro[c] # t
      BY <2>1, WaiterAssumption DEF IInv, Counts
    <3>3. \A x \in finished' : susp'[x] = None
      BY <1>1 DEF IInv, Counts, TypeOK
    <3> QED
      BY <1>1, <1>3, <3>1, <3>2, <3>3 DEF IInv, Counts, TypeOK, Waiters
  <2> QED
    BY <2>3, <2>5, <2>6 DEF IInv
<1>6. CASE ResumeAny(t) \/ ResumeAll(t)
  <2> DEFINE a == susp[t]
  <2>1. PICK R \in SUBSET Waiters : Remove(R)
    BY <1>6 DEF ResumeAny, ResumeAll, Skipped, IInv, TypeOK, Waiters, Combos
  <2>2. PICK K \in SUBSET Leaves : parent' = Put(parent, K, None)
    BY <1>6 DEF ResumeAny, ResumeAll, Skipped, IInv, TypeOK, Waiters, Combos
  <2>3. PICK F \in SUBSET Leaves :
          result' = [Put(result, F, "timeout") EXCEPT ![a] = "waiting"]
    <3>1. CASE ResumeAny(t)
      <4>1. Put(result, {}, "timeout") = result
        BY DEF Put, IInv, TypeOK
      <4> QED
        BY <3>1, <4>1 DEF ResumeAny
    <3>2. CASE ResumeAll(t)
      BY <3>2 DEF ResumeAll, IInv, TypeOK, Waiters, Combos
    <3> QED
      BY <1>6, <3>1, <3>2
  <2>4. a \in Combos /\ a \in Waiters /\ Destroyed({a})
    BY <1>6 DEF ResumeAny, ResumeAll, Combos, Waiters
  <2>5. /\ scheduled' = scheduled
        /\ waiters' \subseteq Waiters /\ added' \in [Waiters -> BOOLEAN]
        /\ reg' \in [Fds -> Leaves \cup {None}]
    BY <2>1, RemoveTypes
  <2>6. /\ coro'[a] = None /\ count'[a] = 1 /\ ~sched'[a]
        /\ \A w \in Waiters : w # a => /\ coro'[w] = coro[w]
                                      /\ count'[w] = count[w]
                                      /\ sched'[w] = sched[w]
    BY <2>4 DEF Destroyed, Put, IInv, TypeOK
  <2>7. Places' /\ batch' \in Seq(Tasks) /\ cur' \in Tasks
    BY <1>1, <2>5, <2>6, DispatchPlaces
  <2>8. TypeOK'
    <3>1. /\ parent' \in [Waiters -> Combos \cup {None}]
          /\ result' \in [Waiters -> Results]
      BY <2>2, <2>3 DEF Put, Results, IInv, TypeOK
    <3>2. /\ coro' \in [Waiters -> Tasks \cup {None}]
          /\ kids' \in [Waiters -> SUBSET Leaves]
          /\ count' \in [Waiters -> Nat] /\ sched' \in [Waiters -> BOOLEAN]
          /\ left' \in [Waiters -> {Never, -1} \cup Nat]
      BY <2>4 DEF Destroyed, Put, IInv, TypeOK
    <3> QED
      BY <1>1, <1>2, <2>5, <2>7, <3>1, <3>2
         DEF IInv, TypeOK, loopVars, taskVars, pollVars
  <2>9. Counts'
    <3>1. \A c \in Combos : Idle(c)' => Idle(c) \/ c = a
      BY <1>1 DEF Idle, IInv, TypeOK, taskVars
    <3>2. \A c \in Combos : c # a /\ coro[c] # None =>
            coro[c] \in live /\ susp[coro[c]] = c /\ coro[c] # t
      BY DEF IInv, Counts
    <3>3. \A w \in Leaves : w # a /\ (result'[w] = "waiting" => result[w] = "waiting")
      BY <2>3, <2>4, WaiterAssumption DEF Put, IInv, TypeOK, Waiters
    <3>4. \A x \in finished' : susp'[x] = None
      BY <1>1 DEF IInv, Counts, TypeOK, taskVars
    <3>5. \A w \in Waiters : coro'[w] # None => count'[w] >= 1 /\ ~sched'[w]
      BY <2>6 DEF IInv, Counts
    <3>6. \A w \in Leaves : result'[w] = "waiting" => count'[w] >= 1 /\ ~sched'[w]
      BY <2>6, <3>3 DEF IInv, Counts, Waiters
    <3>7. ASSUME NEW c \in Combos, Idle(c)' PROVE count'[c] >= 1 /\ ~sched'[c]
      <4>1. Idle(c) \/ c = a
        BY <3>1, <3>7
      <4> QED
        BY <2>6, <4>1 DEF IInv, Counts, Waiters
    <3>8. \A c \in Combos :
            coro'[c] # None => coro'[c] \in live' /\ susp'[coro'[c]] = c
      BY <1>1, <2>6, <3>2 DEF IInv, TypeOK, Waiters, taskVars
    <3>9. cur' # None => susp'[cur'] = None
      BY <1>1, <1>3 DEF IInv, TypeOK
    <3> QED
      BY <3>4, <3>5, <3>6, <3>7, <3>8, <3>9 DEF Counts
  <2> QED
    BY <2>7, <2>8, <2>9 DEF IInv
<1> QED
  BY <1>4, <1>5, <1>6 DEF Resume

\* The rest of step() and run(): the finished tasks are dropped.
LEMMA StepDoneKeeps ==
  ASSUME IInv, StepDone PROVE IInv'
<1> USE DEF StepDone, NothingLeft, runVars, pollVars, listVars, linkVars, wakeVars
<1>1. Queued = {} /\ Queued' = {}
  BY EmptyHandles DEF Queued
<1>2. TypeOK'
  BY DEF IInv, TypeOK, PcValues
<1>3. Counts'
  <2>1. ASSUME NEW c \in Combos, Idle(c)' PROVE Idle(c)
    BY <2>1, WaiterAssumption DEF Idle, IInv, Counts, Waiters
  <2>2. \A c \in Combos : coro[c] # None => coro[c] \in live'
    BY DEF IInv, Places, Waiters
  <2> QED
    BY <2>1, <2>2 DEF IInv, Counts
<1>4. Places'
  BY <1>1 DEF IInv, Places
<1> QED
  BY <1>2, <1>3, <1>4 DEF IInv

\* Actions that wake, suspend and resume nobody, but give waiters results and
\* move them in and out of the loop.
LEMMA ResultsKeep ==
  ASSUME IInv, pc' \in PcValues, pc # "off", loopState' = loopState,
         scheduled' = scheduled,
         UNCHANGED <<taskVars, batch, cur, susp, coro, count, sched, left>>,
         result' \in [Waiters -> Results],
         \A w \in Leaves : result'[w] = "waiting" => result[w] = "waiting",
         waiters' \subseteq Waiters, added' \in [Waiters -> BOOLEAN],
         reg' \in [Fds -> Leaves \cup {None}],
         parent' \in [Waiters -> Combos \cup {None}],
         kids' \in [Waiters -> SUBSET Leaves],
         ready' \subseteq Waiters, evq' \subseteq Waiters, hot' \subseteq Fds
  PROVE  IInv'
<1>1. TypeOK'
  BY DEF IInv, TypeOK, taskVars
<1>2. Counts'
  BY DEF IInv, Counts, Idle, taskVars
<1>3. Places'
  BY DEF IInv, Places, Queued, taskVars
<1> QED
  BY <1>1, <1>2, <1>3 DEF IInv

\* The timeout loop of run().
LEMMA ExpireKeeps ==
  ASSUME IInv, Expire PROVE IInv'
<1>1. Expired \subseteq Waiters
  BY DEF Expired, IInv, TypeOK
<1>2. /\ result' \in [Waiters -> Results]
      /\ \A w \in Leaves : result'[w] = "waiting" => result[w] = "waiting"
  BY DEF Expire, Put, Results, IInv, TypeOK, Waiters
<1> QED
  BY <1>1, <1>2, ResultsKeep
     DEF Expire, IInv, TypeOK, PcValues, taskVars, runVars, listVars, linkVars

\* Completions by the poller, by run() and by clients.
LEMMA CompleteSteps ==
  ASSUME IInv,
         \/ \E w \in Leaves, r \in {"done", "error"} : DispatchEvent(w, r)
         \/ \E w \in Waiters : ProcessReady(w)
         \/ \E w \in Leaves, r \in {"done", "error", "cancelled"} :
              ClientComplete(w, r)
  PROVE  IInv'
<1> USE DEF loopVars, taskVars, listVars, linkVars
<1>1. ASSUME NEW w \in Waiters, NEW r \in Results, r # "waiting",
             Complete(w, r),
             UNCHANGED <<loopVars, taskVars, batch, cur, susp, hot, listVars,
                         linkVars, left>>,
             ready' \subseteq Waiters, evq' \subseteq Waiters
      PROVE  IInv'
  <2>1. WakeTypes' /\ Counts' /\ Places'
    BY <1>1, CompleteKeeps
  <2> QED
    BY <1>1, <2>1 DEF IInv, TypeOK, WakeTypes
<1>2. ASSUME NEW w \in Leaves, NEW r \in {"done", "error"}, DispatchEvent(w, r)
      PROVE  IInv'
  BY <1>1, <1>2 DEF DispatchEvent, IInv, TypeOK, Waiters, Results
<1>3. ASSUME NEW w \in Waiters, ProcessReady(w)
      PROVE  IInv'
  <2>1. CASE result[w] = "waiting"
    BY <1>3, <2>1, ResultsKeep
       DEF ProcessReady, IInv, TypeOK, PcValues, wakeVars
  <2>2. CASE result[w] # "waiting"
    <3>1. result[w] \in Results
      BY DEF IInv, TypeOK
    <3> QED
      BY <1>1, <1>3, <2>2, <3>1 DEF ProcessReady, IInv, TypeOK
  <2> QED
    BY <2>1, <2>2
<1>4. ASSUME NEW w \in Leaves, NEW r \in {"done", "error", "cancelled"},
             ClientComplete(w, r)
      PROVE  IInv'
  BY <1>1, <1>4 DEF ClientComplete, IInv, TypeOK, Waiters, Results, pollVars
<1> QED
  BY <1>2, <1>3, <1>4

-----------------------------------------------------------------------------
(* What coroutines do.                                                     *)

\* A new task is queued once and is nowhere else.
LEMMA SpawnKeeps ==
  ASSUME IInv, NEW t \in Tasks, Spawn(t) PROVE IInv'
<1> USE DEF Spawn, loopVars, pollVars, listVars, linkVars, wakeVars
<1>1. /\ scheduled' \in Seq(Tasks) /\ Unique(scheduled')
      /\ Handles(scheduled') = Handles(scheduled) \cup {t}
  <2>1. /\ scheduled \in Seq(Tasks) /\ Unique(scheduled)
        /\ scheduled' = Enqueue(scheduled, t)
    BY DEF IInv, TypeOK, Places
  <2> QED
    BY <2>1, EnqueueHandles
<1>2. /\ t \notin Queued /\ t \notin finished /\ t # cur /\ t # None
      /\ \A w \in Waiters : coro[w] # t
  BY WaiterAssumption DEF IInv, Places
<1>3. Queued' = Queued \cup {t}
  BY <1>1 DEF Queued
<1>4. TypeOK'
  BY <1>1 DEF IInv, TypeOK
<1>5. Counts'
  BY DEF IInv, Counts, Idle
<1>6. Places'
  <2>1. Handles(scheduled') \cap Handles(batch') = {}
    BY <1>1, <1>2 DEF IInv, Places, Queued
  <2>2. \A x \in Queued' : x \in live' \ finished' /\ x # cur'
    BY <1>2, <1>3 DEF IInv, Places
  <2> QED
    BY <1>1, <1>2, <1>3, <2>1, <2>2 DEF IInv, Places
<1> QED
  BY <1>4, <1>5, <1>6 DEF IInv

\* A coroutine that returns is stored nowhere.
LEMMA FinishKeeps ==
  ASSUME IInv, NEW t \in Tasks, Finish(t) PROVE IInv'
<1> USE DEF Finish, Running, loopVars, pollVars, listVars, linkVars, wakeVars
<1>1. t = cur /\ t # None /\ Queued' = Queued
  BY WaiterAssumption DEF Queued
<1>2. TypeOK'
  BY DEF IInv, TypeOK
<1>3. Counts'
  BY <1>1 DEF IInv, Counts, Idle
<1>4. Places'
  <2>1. None \notin Queued
    BY WaiterAssumption DEF IInv, TypeOK, Queued, Handles
  <2> QED
    BY <1>1, <2>1 DEF IInv, Places
<1> QED
  BY <1>2, <1>3, <1>4 DEF IInv

\* The running coroutine t suspends in w, which has a count and is not scheduled.
LEMMA SuspendKeeps ==
  ASSUME IInv, NEW t \in Tasks, Running(t), NEW w \in Waiters,
         w \in Combos => Idle(w),
         coro' = [coro EXCEPT ![w] = t], susp' = [susp EXCEPT ![t] = w],
         cur' = None,
         UNCHANGED <<loopVars, taskVars, scheduled, batch, sched>>,
         ~sched[w], count'[w] >= 1,
         \A x \in Waiters : x # w => count'[x] = count[x],
         \A x \in Leaves : result'[x] = "waiting" => result[x] = "waiting"
  PROVE  Counts' /\ Places'
<1> USE DEF loopVars, taskVars
<1>1. t = cur /\ t # None /\ Queued' = Queued /\ susp[t] = None
  BY WaiterAssumption DEF Queued, Running, IInv, Counts
<1>2. /\ coro'[w] = t /\ susp'[t] = w
      /\ \A x \in Waiters : x # w => coro'[x] = coro[x]
      /\ \A x \in Tasks : x # t => susp'[x] = susp[x]
  BY DEF IInv, TypeOK
<1>3. /\ t \in live \ finished /\ t \notin Queued
      /\ \A x \in Waiters : coro[x] # t
  BY <1>1 DEF IInv, Places
<1>4. Counts'
  <2>1. \A x \in Waiters : coro'[x] # None => count'[x] >= 1 /\ ~sched'[x]
    BY <1>2 DEF IInv, Counts
  <2>2. \A x \in Leaves : result'[x] = "waiting" => count'[x] >= 1 /\ ~sched'[x]
    BY DEF IInv, Counts, Waiters
  <2>3. ASSUME NEW c \in Combos, Idle(c)' PROVE count'[c] >= 1 /\ ~sched'[c]
    <3>1. c # w
      BY <1>2, <1>3, <2>3 DEF Idle
    <3>2. Idle(c)
      BY <1>1, <1>2, <2>3, WaiterAssumption DEF Idle, IInv, TypeOK, Waiters
    <3> QED
      BY <3>1, <3>2 DEF IInv, Counts, Waiters
  <2>4. ASSUME NEW c \in Combos, coro'[c] # None
        PROVE  coro'[c] \in live' /\ susp'[coro'[c]] = c
    <3>1. CASE c = w
      BY <1>2, <1>3, <3>1
    <3>2. CASE c # w
      <4>1. /\ coro'[c] = coro[c] /\ coro[c] \in live /\ susp[coro[c]] = c
            /\ coro[c] # t
        BY <1>2, <1>3, <2>4, <3>2 DEF IInv, Counts, Waiters
      <4> QED
        BY <1>2, <4>1 DEF IInv, TypeOK
    <3> QED
      BY <3>1, <3>2
  <2>5. \A x \in finished' : susp'[x] = None
    BY <1>2, <1>3 DEF IInv, Counts, TypeOK
  <2> QED
    BY <2>1, <2>2, <2>3, <2>4, <2>5 DEF Counts
<1>5. Places'
  <2>1. None \notin Queued
    BY WaiterAssumption DEF IInv, TypeOK, Queued, Handles
  <2>2. \A x \in Queued', v \in Waiters : coro'[v] # x
    BY <1>1, <1>2, <1>3 DEF IInv, Places
  <2>3. \A v \in Waiters : coro'[v] # None => coro'[v] \in live' \ finished'
    BY <1>2, <1>3 DEF IInv, Places
  <2>4. \A v, x \in Waiters : coro'[v] # None /\ coro'[v] = coro'[x] => v = x
    BY <1>2, <1>3 DEF IInv, Places
  <2> QED
    BY <1>1, <2>1, <2>2, <2>3, <2>4 DEF IInv, Places
<1> QED
  BY <1>4, <1>5

\* A coroutine awaits a leaf or a combinator and is suspended.
LEMMA SuspendSteps ==
  ASSUME IInv, NEW t \in Tasks, Suspend(t) PROVE IInv'
<1> USE DEF loopVars, taskVars, pollVars, linkVars
<1>0. ASSUME NEW W \in SUBSET Leaves, NEW g \in Registered(W)
      PROVE  g \in [Fds -> Leaves \cup {None}]
  BY <1>0 DEF Registered
<1>1. ASSUME NEW w \in Leaves, AwaitLeaf(t, w) PROVE IInv'
  <2>1. w \in Waiters /\ ~(w \in Combos)
    BY WaiterAssumption DEF Waiters
  <2>2. Counts' /\ Places'
    BY <1>1, <2>1, SuspendKeeps DEF AwaitLeaf, IInv, Counts
  <2>3. reg' \in [Fds -> Leaves \cup {None}]
    BY <1>0, <1>1 DEF AwaitLeaf
  <2>4. /\ coro' \in [Waiters -> Tasks \cup {None}]
        /\ susp' \in [Tasks -> Waiters \cup {None}]
        /\ waiters' \subseteq Waiters /\ added' \in [Waiters -> BOOLEAN]
    BY <1>1, <2>1 DEF AwaitLeaf, IInv, TypeOK
  <2>5. TypeOK'
    BY <1>1, <2>3, <2>4 DEF AwaitLeaf, IInv, TypeOK
  <2> QED
    BY <2>2, <2>5 DEF IInv
<1>2. ASSUME NEW a \in Combos, NEW K \in SUBSET Leaves, Running(t), Idle(a),
             NEW linked \in SUBSET Leaves, NEW n \in Nat, n >= 1,
             parent' = Put(parent, linked, a),
             kids' = [kids EXCEPT ![a] = linked],
             added' \in [Waiters -> BOOLEAN], waiters' \subseteq Waiters,
             reg' \in Registered(linked),
             result' = [result EXCEPT ![a] = "waiting"],
             count' = [count EXCEPT ![a] = n],
             coro' = [coro EXCEPT ![a] = t],
             left' \in [Waiters -> {Never, -1} \cup Nat],
             susp' = [susp EXCEPT ![t] = a], cur' = None,
             UNCHANGED <<loopVars, taskVars, scheduled, batch, pollVars, sched>>
      PROVE  IInv'
  <2>1. a \in Waiters /\ ~sched[a] /\ \A x \in Leaves : x # a
    BY <1>2, WaiterAssumption DEF Waiters, IInv, Counts
  <2>2. /\ count' \in [Waiters -> Nat] /\ count'[a] >= 1
        /\ \A x \in Waiters : x # a => count'[x] = count[x]
    BY <1>2, <2>1 DEF IInv, TypeOK
  <2>3. /\ result' \in [Waiters -> Results]
        /\ \A x \in Leaves : result'[x] = result[x]
    BY <1>2, <2>1 DEF IInv, TypeOK, Results, Waiters
  <2>4. Counts' /\ Places'
    BY <1>2, <2>1, <2>2, <2>3, SuspendKeeps, ZenonT(60)
  <2>5. /\ parent' \in [Waiters -> Combos \cup {None}]
        /\ kids' \in [Waiters -> SUBSET Leaves]
        /\ coro' \in [Waiters -> Tasks \cup {None}]
        /\ susp' \in [Tasks -> Waiters \cup {None}]
        /\ reg' \in [Fds -> Leaves \cup {None}]
    BY <1>0, <1>2, <2>1 DEF IInv, TypeOK, Put
  <2>6. TypeOK'
    BY <1>2, <2>2, <2>3, <2>5, WaiterAssumption DEF IInv, TypeOK
  <2> QED
    BY <2>4, <2>6 DEF IInv
<1>3. ASSUME NEW a \in Anys, NEW K \in SUBSET Leaves, NEW d \in AnyWaits,
             AwaitAny(t, a, K, d)
      PROVE  IInv'
  <2>1. a \in Combos /\ Linked(K) \in SUBSET Leaves /\ Idle(a) /\ a \in Waiters
    BY <1>3 DEF AwaitAny, Combos, Linked, Waiters
  <2>2. /\ added' \in [Waiters -> BOOLEAN] /\ waiters' \subseteq Waiters
        /\ left' \in [Waiters -> {Never, -1} \cup Nat]
    BY <1>3, <2>1, TimeAssumption DEF AwaitAny, IInv, TypeOK, Put, Waiters
  <2>3. /\ count[a] \in Nat /\ count[a] >= 1
        /\ count' = [count EXCEPT ![a] = count[a]]
    BY <1>3, <2>1 DEF AwaitAny, IInv, TypeOK, Counts
  <2> QED
    BY <1>2, <1>3, <2>1, <2>2, <2>3 DEF AwaitAny
<1>4. ASSUME NEW a \in Alls, NEW K \in SUBSET Leaves, NEW d \in AllWaits,
             AwaitAll(t, a, K, d)
      PROVE  IInv'
  <2>1. a \in Combos /\ Linked(K) \in SUBSET Leaves /\ Idle(a) /\ a \in Waiters
    BY <1>4 DEF AwaitAll, Combos, Linked, Waiters
  <2>2. /\ added' \in [Waiters -> BOOLEAN] /\ waiters' \subseteq Waiters
        /\ left' \in [Waiters -> {Never, -1} \cup Nat]
    BY <1>4, <2>1, TimeAssumption DEF AwaitAll, IInv, TypeOK, Put, Waiters
  <2>3. OpenCount(Linked(K)) \in Nat /\ OpenCount(Linked(K)) >= 1
    <3> DEFINE open == {k \in Linked(K) : result[k] = "waiting"}
    <3>1. IsFiniteSet(open) /\ open # {}
      BY <1>4, <2>1, WaiterAssumption, FS_Subset DEF AwaitAll
    <3>2. Cardinality(open) \in Nat /\ Cardinality(open) # 0
      BY <3>1, FS_CardinalityType, FS_EmptySet
    <3> QED
      BY <3>2 DEF OpenCount
  <2> QED
    BY <1>2, <1>4, <2>1, <2>2, <2>3 DEF AwaitAll
<1> QED
  BY <1>1, <1>3, <1>4 DEF Suspend

\* A co_await that does not suspend.
LEMMA ReadySteps ==
  ASSUME IInv, NEW t \in Tasks,
         \/ \E w \in Leaves : LeafReady(t, w)
         \/ \E a \in Anys, K \in SUBSET Leaves, d \in AnyWaits : AnyReady(t, a, K, d)
         \/ \E K \in SUBSET Leaves, d \in AllWaits : AllReady(t, K, d)
  PROVE  IInv'
<1> USE DEF loopVars, taskVars, pollVars, Running
<1>0. ASSUME NEW W \in SUBSET Leaves, NEW g \in Registered(W),
             NEW U \in SUBSET Leaves
      PROVE  Unregistered(g, U) \in [Fds -> Leaves \cup {None}]
  BY <1>0 DEF Registered, Unregistered
<1>1. ASSUME NEW w \in Leaves, LeafReady(t, w) PROVE IInv'
  <2> DEFINE R == {w} \cap {x \in Leaves : added[x]}
  <2>1. /\ scheduled' = scheduled
        /\ waiters' \subseteq Waiters /\ added' \in [Waiters -> BOOLEAN]
        /\ reg' \in [Fds -> Leaves \cup {None}]
    BY <1>1, RemoveTypes DEF LeafReady, Waiters
  <2>2. /\ result' \in [Waiters -> Results]
        /\ \A x \in Leaves : result'[x] = "waiting" => result[x] = "waiting"
        /\ parent' \in [Waiters -> Combos \cup {None}]
    BY <1>1 DEF LeafReady, IInv, TypeOK, Results, Waiters
  <2> QED
    BY <1>1, <2>1, <2>2, ResultsKeep DEF LeafReady, IInv, TypeOK
<1>2. ASSUME NEW a \in Anys, NEW K \in SUBSET Leaves, NEW d \in AnyWaits,
             AnyReady(t, a, K, d)
      PROVE  IInv'
  <2> DEFINE linked  == Linked(K)
             polled  == Put(result, {k \in linked : TimedOut(left[k])}, "timeout")
             skipped == Skipped(linked, polled, d)
             freed   == linked \ skipped
  <2>1. /\ linked \subseteq Leaves /\ skipped \subseteq Leaves
        /\ freed \subseteq Leaves /\ freed \subseteq Waiters /\ a \in Combos
    BY DEF Linked, Skipped, Waiters, Combos
  <2>2. /\ result' = polled
        /\ added' = Put(added, skipped, TRUE)
        /\ waiters' = waiters \cup skipped
        /\ \E g \in Registered(linked) : reg' = Unregistered(g, freed)
        /\ scheduled' = Descheduled(scheduled, {coro[k] : k \in freed})
        /\ parent' = Put(Put(parent, freed, None), skipped, a)
    BY <1>2 DEF AnyReady
  <2>3. /\ polled \in [Waiters -> Results]
        /\ \A x \in Leaves : polled[x] = "waiting" => result[x] = "waiting"
    BY DEF Put, IInv, TypeOK, Results, Waiters
  <2> HIDE DEF polled, linked, skipped, freed
  <2>4. /\ added' \in [Waiters -> BOOLEAN] /\ waiters' \subseteq Waiters
        /\ parent' \in [Waiters -> Combos \cup {None}]
        /\ reg' \in [Fds -> Leaves \cup {None}]
    <3>1. added' \in [Waiters -> BOOLEAN]
      BY <2>2, PutTypes DEF IInv, TypeOK
    <3>2. waiters' \subseteq Waiters
      BY <2>1, <2>2 DEF IInv, TypeOK, Waiters
    <3>3. parent' \in [Waiters -> Combos \cup {None}]
      <4>1. Put(parent, freed, None) \in [Waiters -> Combos \cup {None}]
        BY PutTypes DEF IInv, TypeOK
      <4> QED
        BY <2>1, <2>2, <4>1, PutTypes
    <3>4. reg' \in [Fds -> Leaves \cup {None}]
      BY <1>0, <2>1, <2>2
    <3> QED
      BY <3>1, <3>2, <3>3, <3>4
  <2>5. scheduled' = scheduled
    BY <2>1, <2>2, NothingToDeschedule DEF IInv
  <2> QED
    BY <1>2, <2>2, <2>3, <2>4, <2>5, ResultsKeep DEF AnyReady, IInv, TypeOK
<1>3. ASSUME NEW K \in SUBSET Leaves, NEW d \in AllWaits, AllReady(t, K, d)
      PROVE  IInv'
  <2> DEFINE linked == Linked(K)
             forced == {k \in linked : result[k] = "waiting"}
  <2>1. linked \subseteq Leaves /\ linked \subseteq Waiters
    BY DEF Linked, Waiters
  <2>2. /\ result' = Put(result, forced, "timeout")
        /\ \E g \in Registered(linked) : reg' = Unregistered(g, linked)
        /\ scheduled' = Descheduled(scheduled, {coro[k] : k \in linked})
        /\ parent' = Put(parent, linked, None)
    BY <1>3 DEF AllReady
  <2>3. /\ result' \in [Waiters -> Results]
        /\ \A x \in Leaves : result'[x] = "waiting" => result[x] = "waiting"
    BY <2>2 DEF Put, IInv, TypeOK, Results, Waiters
  <2> HIDE DEF linked, forced
  <2>4. /\ parent' \in [Waiters -> Combos \cup {None}]
        /\ reg' \in [Fds -> Leaves \cup {None}]
    <3>1. parent' \in [Waiters -> Combos \cup {None}]
      BY <2>2, PutTypes DEF IInv, TypeOK
    <3>2. reg' \in [Fds -> Leaves \cup {None}]
      BY <1>0, <2>1, <2>2
    <3> QED
      BY <3>1, <3>2
  <2>5. scheduled' = scheduled
    BY <2>1, <2>2, NothingToDeschedule DEF IInv
  <2> QED
    BY <1>3, <2>3, <2>4, <2>5, ResultsKeep DEF AllReady, IInv, TypeOK
<1> QED
  BY <1>1, <1>2, <1>3

\* cancel() of a combinator: its coroutine is scheduled once, whatever the
\* completions of the children do to the count.
LEMMA CancelKeeps ==
  ASSUME IInv, NEW c \in Combos, CancelCombo(c) PROVE IInv'
<1> USE DEF loopVars, taskVars, pollVars, listVars, linkVars
<1> DEFINE n   == Cardinality(kids[c])
           own == count[c] - (IF coro[c] # None THEN 1 ELSE 0)
<1>1. c \in Waiters /\ \A x \in Leaves : x # c
  BY WaiterAssumption DEF Waiters
<1>2. n \in Nat
  <2>1. IsFiniteSet(kids[c])
    BY <1>1, WaiterAssumption, FS_Subset DEF IInv, TypeOK
  <2> QED
    BY <2>1, FS_CardinalityType
<1>3. own \in Nat
  BY <1>1 DEF IInv, TypeOK, Counts
<1>4. /\ count' = [count EXCEPT ![c] = IF own <= 1 THEN own
                                      ELSE IF n >= own THEN 1 ELSE own - n]
      /\ UNCHANGED <<loopVars, taskVars, batch, cur, susp, pollVars, listVars,
                     linkVars, left>>
      /\ ~Idle(c)
  BY DEF CancelCombo
<1>5. /\ result' \in [Waiters -> Results]
      /\ \A x \in Leaves : result'[x] = "waiting" => result[x] = "waiting"
  <2>1. PICK v \in {"done", "cancelled"} :
          result' = [Put(result, kids[c], "cancelled") EXCEPT ![c] = v]
    BY DEF CancelCombo
  <2> QED
    BY <1>1, <2>1 DEF Put, Results, IInv, TypeOK, Waiters
<1>6. coro[c] # None => ~sched[c]
  BY <1>1 DEF IInv, Counts
<1>7. IF coro[c] # None
      THEN /\ scheduled' = Enqueue(scheduled, coro[c])
           /\ sched' = [sched EXCEPT ![c] = TRUE]
           /\ coro' = [coro EXCEPT ![c] = None]
      ELSE UNCHANGED <<scheduled, sched, coro>>
  BY <1>6 DEF CancelCombo
<1> HIDE DEF own, n
<1>8. count' \in [Waiters -> Nat] /\ \A x \in Waiters : x # c => count'[x] = count[x]
  BY <1>1, <1>2, <1>3, <1>4 DEF IInv, TypeOK
<1>9. Places' /\ scheduled' \in Seq(Tasks)
  <2>1. CASE coro[c] # None
    BY <1>1, <1>4, <1>7, <2>1, WakePlaces
  <2>2. CASE coro[c] = None
    BY <1>4, <1>7, <2>2 DEF IInv, TypeOK, Places, Queued
  <2> QED
    BY <2>1, <2>2
<1>10. /\ coro' \in [Waiters -> Tasks \cup {None}] /\ coro'[c] = None
       /\ sched' \in [Waiters -> BOOLEAN]
       /\ \A x \in Waiters : x # c => coro'[x] = coro[x] /\ sched'[x] = sched[x]
  BY <1>1, <1>7 DEF IInv, TypeOK
<1>11. TypeOK'
  BY <1>4, <1>5, <1>8, <1>9, <1>10 DEF IInv, TypeOK
<1>12. Counts'
  <2>1. \A x \in Waiters : coro'[x] # None => count'[x] >= 1 /\ ~sched'[x]
    BY <1>8, <1>10 DEF IInv, Counts
  <2>2. \A x \in Leaves : result'[x] = "waiting" => count'[x] >= 1 /\ ~sched'[x]
    BY <1>1, <1>5, <1>8, <1>10 DEF IInv, Counts, Waiters
  <2>3. ASSUME NEW x \in Combos, Idle(x)' PROVE count'[x] >= 1 /\ ~sched'[x]
    <3>1. Idle(x) /\ x # c
      BY <1>4, <2>3 DEF Idle
    <3> QED
      BY <1>8, <1>10, <3>1 DEF IInv, Counts, Waiters
  <2>4. \A x \in Combos :
          coro'[x] # None => coro'[x] \in live' /\ susp'[coro'[x]] = x
    BY <1>4, <1>10 DEF IInv, Counts, Waiters
  <2> QED
    BY <1>4, <2>1, <2>2, <2>3, <2>4 DEF IInv, Counts
<1> QED
  BY <1>9, <1>11, <1>12 DEF IInv

\* reset() forgets the coroutine that awaits the leaf, it does not schedule it.
LEMMA ResetKeeps ==
  ASSUME IInv, NEW w \in Leaves, NEW d \in Waits, Reset(w, d) PROVE IInv'
<1> USE DEF loopVars, taskVars, pollVars
<1>1. w \in Waiters /\ w \notin Combos
  BY WaiterAssumption DEF Waiters
<1>2. /\ scheduled' = scheduled
      /\ waiters' \subseteq Waiters /\ added' \in [Waiters -> BOOLEAN]
      /\ reg' \in [Fds -> Leaves \cup {None}]
  BY <1>1, RemoveTypes DEF Reset
<1>3. /\ coro'[w] = None /\ count'[w] = 1 /\ ~sched'[w]
      /\ \A x \in Waiters : x # w => /\ coro'[x] = coro[x]
                                    /\ count'[x] = count[x]
                                    /\ sched'[x] = sched[x]
                                    /\ result'[x] = result[x]
  BY <1>1 DEF Reset, IInv, TypeOK
<1>4. /\ coro' \in [Waiters -> Tasks \cup {None}]
      /\ count' \in [Waiters -> Nat] /\ sched' \in [Waiters -> BOOLEAN]
      /\ result' \in [Waiters -> Results]
      /\ parent' \in [Waiters -> Combos \cup {None}]
      /\ kids' \in [Waiters -> SUBSET Leaves]
  BY <1>1 DEF Reset, IInv, TypeOK, Results
<1>5. left' \in [Waiters -> {Never, -1} \cup Nat]
  BY TimeAssumption DEF Reset, IInv, TypeOK
<1>6. UNCHANGED <<loopVars, taskVars, batch, cur, susp, pollVars>>
  BY DEF Reset
<1>7. TypeOK'
  BY <1>2, <1>4, <1>5, <1>6 DEF IInv, TypeOK
<1>8. Counts'
  <2>1. \A x \in Waiters : coro'[x] # None => count'[x] >= 1 /\ ~sched'[x]
    BY <1>3 DEF IInv, Counts
  <2>2. \A x \in Leaves : result'[x] = "waiting" => count'[x] >= 1 /\ ~sched'[x]
    BY <1>3 DEF IInv, Counts, Waiters
  <2>3. ASSUME NEW c \in Combos, Idle(c)' PROVE count'[c] >= 1 /\ ~sched'[c]
    <3>1. Idle(c) /\ c # w
      BY <1>1, <1>6, <2>3 DEF Idle
    <3> QED
      BY <1>3, <3>1 DEF IInv, Counts, Waiters
  <2>4. \A c \in Combos :
          coro'[c] # None => coro'[c] \in live' /\ susp'[coro'[c]] = c
    BY <1>1, <1>3, <1>6 DEF IInv, Counts, Waiters
  <2> QED
    BY <1>6, <2>1, <2>2, <2>3, <2>4 DEF IInv, Counts
<1>9. Places'
  <2>1. \A x \in Waiters : coro'[x] # None => coro'[x] = coro[x]
    BY <1>3
  <2>2. None \notin Queued
    BY WaiterAssumption DEF IInv, TypeOK, Queued, Handles
  <2>3. \A t \in Queued', x \in Waiters : coro'[x] # t
    BY <1>2, <1>6, <2>1, <2>2 DEF IInv, Places, Queued
  <2> QED
    BY <1>2, <1>6, <2>1, <2>3 DEF IInv, Places, Queued
<1> QED
  BY <1>7, <1>8, <1>9 DEF IInv

-----------------------------------------------------------------------------
(* The theorems.                                                           *)

\* Every initial state has the invariant.
LEMMA InitIInv == Init => IInv
<1> SUFFICES ASSUME Init PROVE IInv
  OBVIOUS
<1> USE DEF Init
<1>1. TypeOK
  <2>1. left \in [Waiters -> {Never, -1} \cup Nat]
    BY TimeAssumption
  <2> QED
    BY <2>1, EmptyHandles DEF TypeOK, PcValues, Results
<1>2. Counts
  BY DEF Counts, Waiters, Combos
<1>3. Places
  BY EmptyHandles DEF Places, Queued
<1> QED
  BY <1>1, <1>2, <1>3 DEF IInv

\* Every step keeps it, up to the end of run() after stop().
LEMMA NextIInv ==
  ASSUME IInv, [Next]_vars, ~ExitLoop PROVE IInv'
<1>1. CASE \/ Run \/ PollEvents \/ PollTimeout \/ PollInterrupted \/ LoopAgain
           \/ Tick \/ \E f \in Fds : FdReady(f) \/ FdIdle(f)
  BY <1>1, QuietSteps
<1>2. CASE SwapBatch \/ StepDone \/ Expire
  BY <1>2, SwapBatchKeeps, StepDoneKeeps, ExpireKeeps
<1>3. CASE Stop
  <2>1. UNCHANGED <<pc, scheduled, batch, finished, live, cur, susp,
                    waiters, ready, evq, hot, reg, result, coro, parent, kids,
                    count, sched, added, left>>
    BY <1>3 DEF Stop, taskVars, runVars, pollVars, listVars, linkVars, wakeVars
  <2>2. loopState' = "stop" /\ "stop" \in Allow
    BY <1>3 DEF Stop
  <2> QED
    BY <2>1, <2>2 DEF IInv, TypeOK, Counts, Idle, Places, Queued
<1>4. CASE \/ \E w \in Leaves, r \in {"done", "error"} : DispatchEvent(w, r)
           \/ \E w \in Waiters : ProcessReady(w)
           \/ \E w \in Leaves, r \in {"done", "error", "cancelled"} :
                ClientComplete(w, r)
  BY <1>4, CompleteSteps
<1>5. ASSUME NEW t \in Tasks, Resume(t) \/ Spawn(t) \/ CoroutineStep(t)
      PROVE  IInv'
  BY <1>5, ResumeKeeps, SpawnKeeps, FinishKeeps, SuspendSteps, ReadySteps
     DEF CoroutineStep
<1>6. ASSUME NEW c \in Combos, CancelCombo(c) PROVE IInv'
  BY <1>6, CancelKeeps
<1>7. ASSUME NEW w \in Leaves, NEW d \in Waits, Reset(w, d) PROVE IInv'
  BY <1>7, ResetKeeps
<1>8. CASE UNCHANGED vars
  <2>1. UNCHANGED <<loopState, pc, scheduled, batch, finished, live, cur, susp,
                    waiters, ready, evq, hot, reg, result, coro, parent, kids,
                    count, sched, added, left>>
    BY <1>8 DEF vars, loopVars, taskVars, runVars, pollVars, listVars, linkVars,
                wakeVars
  <2> QED
    BY <2>1 DEF IInv, TypeOK, Counts, Idle, Places, Queued
<1> QED
  BY <1>1, <1>2, <1>3, <1>4, <1>5, <1>6, <1>7, <1>8 DEF Next, LoopStep, SharedStep

\* run() is not called again after stop(), which destroys coroutines whose handles
\* stay in scheduled_ and in waiters.
StopIsFinal == "stop" \in Allow => "restart" \notin Allow

\* run() has returned for good.
Quit == pc = "off" /\ loopState = "stop" /\ "restart" \notin Allow /\ TypeOK

\* stop() ends run() with the fields of every waiter in their types.
LEMMA ExitQuits ==
  ASSUME StopIsFinal, IInv, ExitLoop PROVE Quit'
<1> DEFINE gone    == {susp[t] : t \in live} \cap Combos
           orphans == UNION {kids[c] : c \in gone}
<1>1. "restart" \notin Allow
  BY DEF StopIsFinal, ExitLoop, IInv, Places
<1>2. /\ pc' = "off" /\ loopState' = "stop" /\ live' = {} /\ finished' = {}
      /\ susp' = [t \in Tasks |-> None]
      /\ UNCHANGED <<batch, cur, pollVars, reg>>
      /\ Destroyed(gone) /\ parent' = Put(parent, orphans, None)
      /\ added' = Put(added, gone, FALSE) /\ result' = Put(result, gone, "waiting")
      /\ waiters' = waiters \ gone
      /\ scheduled' = Descheduled(scheduled, {coro[c] : c \in gone})
  BY DEF ExitLoop
<1>3. gone \subseteq Combos
  OBVIOUS
<1> HIDE DEF gone, orphans
<1>4. /\ coro' \in [Waiters -> Tasks \cup {None}]
      /\ kids' \in [Waiters -> SUBSET Leaves] /\ count' \in [Waiters -> Nat]
      /\ sched' \in [Waiters -> BOOLEAN]
      /\ left' \in [Waiters -> {Never, -1} \cup Nat]
  BY <1>2 DEF Destroyed, Put, IInv, TypeOK
<1>5. /\ parent' \in [Waiters -> Combos \cup {None}]
      /\ added' \in [Waiters -> BOOLEAN] /\ result' \in [Waiters -> Results]
  BY <1>2 DEF Put, Results, IInv, TypeOK
<1>6. scheduled' \in Seq(Tasks)
  <2>1. gone \in SUBSET Waiters
    BY <1>3 DEF Waiters
  <2> QED
    BY <1>2, <2>1, NothingToDeschedule DEF IInv, TypeOK
<1> QED
  BY <1>1, <1>2, <1>4, <1>5, <1>6 DEF Quit, TypeOK, IInv, PcValues, pollVars

\* After that, coroutines can be handed to the loop, but none runs.
LEMMA NextQuit ==
  ASSUME Quit, [Next]_vars
  PROVE  /\ Quit'
         /\ UNCHANGED <<pc, susp, coro, parent, kids, count, sched, added, waiters,
                        result, reg>>
<1> USE DEF taskVars, runVars, pollVars, listVars, linkVars, wakeVars, loopVars
<1>1. pc = "off" /\ loopState = "stop" /\ "restart" \notin Allow
  BY DEF Quit
<1>2. ASSUME NEW t \in Tasks, Spawn(t)
      PROVE  /\ Quit'
             /\ UNCHANGED <<pc, susp, coro, parent, kids, count, sched, added, waiters,
                            result, reg>>
  BY <1>2, EnqueueHandles DEF Spawn, Quit, TypeOK
<1>3. CASE Tick
  <2>1. left' \in [Waiters -> {Never, -1} \cup Nat]
    BY <1>3 DEF Tick, Quit, TypeOK
  <2> QED
    BY <1>3, <2>1 DEF Tick, Quit, TypeOK
<1>4. CASE \E f \in Fds : FdReady(f) \/ FdIdle(f)
  BY <1>4 DEF FdReady, FdIdle, Quit, TypeOK
<1>5. CASE UNCHANGED vars
  BY <1>5 DEF vars, Quit, TypeOK
<1>6. ~Run /\ ~PollInterrupted /\ ~Stop
  BY <1>1 DEF Run, PollInterrupted, Stop
<1>7. ~LoopStep
  BY <1>1 DEF LoopStep, SwapBatch, StepDone, LoopAgain, ExitLoop, PollEvents,
              PollTimeout, Expire, ProcessReady, DispatchEvent, Resume, ResumeStart,
              ResumeLeaf, ResumeAny, ResumeAll, Dispatch
<1>8. ASSUME NEW t \in Tasks PROVE ~CoroutineStep(t)
  BY <1>1 DEF CoroutineStep, LeafReady, AnyReady, AllReady, Suspend, AwaitLeaf,
              AwaitAny, AwaitAll, Finish, Running
<1>9. ~SharedStep
  BY <1>1, <1>6 DEF SharedStep, ClientComplete, CancelCombo, Reset
<1> QED
  BY <1>2, <1>3, <1>4, <1>5, <1>6, <1>7, <1>8, <1>9 DEF Next

\* In every reachable state the inductive invariant holds, or stop() has ended
\* run().
THEOREM Inductive ==
  ASSUME StopIsFinal PROVE Spec => [](IInv \/ Quit)
<1>1. (IInv \/ Quit) /\ [Next]_vars => (IInv \/ Quit)'
  BY NextIInv, ExitQuits, NextQuit
<1> QED
  BY <1>1, InitIInv, PTL DEF Spec

\* If no client calls stop(), the invariant holds throughout, restarts included.
LEMMA NeverQuits ==
  ASSUME "stop" \notin Allow PROVE Spec => []IInv
<1>1. IInv => ~ExitLoop
  BY DEF ExitLoop, IInv, Places
<1>2. IInv /\ [Next]_vars => IInv'
  BY <1>1, NextIInv
<1> QED
  BY <1>2, InitIInv, PTL DEF Spec

\* Type correctness: in particular completion_count_, an unsigned counter,
\* never wraps below 0, however completions, cancellations and resets interleave.
THEOREM TypeCorrect ==
  ASSUME StopIsFinal PROVE Spec => []TypeOK
<1>1. IInv \/ Quit => TypeOK
  BY DEF IInv, Quit
<1> QED
  BY <1>1, Inductive, PTL

LEMMA IInvHandles ==
  ASSUME IInv PROVE NoDoubleResume /\ NoDeadHandle
<1>1. None \notin Queued
  BY WaiterAssumption DEF IInv, TypeOK, Queued, Handles
<1>2. cur \notin Queued
  BY DEF IInv, Places
<1>3. \A w \in Waiters : coro[w] # None => coro[w] \notin Queued \cup {cur}
  BY DEF IInv, Places
<1> QED
  BY <1>2, <1>3 DEF IInv, Places, NoDoubleResume, NoDeadHandle

\* No coroutine is resumed twice for one suspension: its handle is in one place.
THEOREM ResumedOnce ==
  ASSUME "stop" \notin Allow PROVE Spec => []NoDoubleResume
BY IInvHandles, NeverQuits, PTL

\* step() resumes, and waiters schedule, only coroutines that exist and are not
\* done.
THEOREM HandlesAreLive ==
  ASSUME "stop" \notin Allow PROVE Spec => []NoDeadHandle
BY IInvHandles, NeverQuits, PTL

\* The same with clients that call stop(), at any moment, until run() has returned:
\* up to the end of the last iteration every handle is live and in one place.
THEOREM HandlesUntilStop ==
  ASSUME StopIsFinal
  PROVE  Spec => [](pc # "off" => NoDoubleResume /\ NoDeadHandle)
<1>1. IInv \/ Quit => (pc # "off" => NoDoubleResume /\ NoDeadHandle)
  BY IInvHandles DEF Quit
<1> QED
  BY <1>1, Inductive, PTL

-----------------------------------------------------------------------------
(* The queue: batch \o scheduled.                                          *)

\* A handle appended to scheduled_ is the last of the queue.
LEMMA ConcatAppend ==
  ASSUME NEW S, NEW q \in Seq(S), NEW s \in Seq(S), NEW t \in S
  PROVE  q \o Append(s, t) = Append(q \o s, t)
<1>1. <<t>> \in Seq(S) /\ q \o s \in Seq(S)
  BY ConcatProperties
<1>2. Append(s, t) = s \o <<t>> /\ Append(q \o s, t) = (q \o s) \o <<t>>
  BY <1>1, AppendIsConcat
<1> QED
  BY <1>1, <1>2, ConcatAssociative

\* The head of the batch is the head of the queue.
LEMMA ConcatTail ==
  ASSUME NEW S, NEW q \in Seq(S), NEW s \in Seq(S), q # <<>>
  PROVE  /\ q \o s # <<>> /\ Head(q \o s) = Head(q)
         /\ Tail(q \o s) = Tail(q) \o s
<1>1. q \o s \in Seq(S) /\ q \o s # <<>>
  BY ConcatProperties, ConcatEqualIffEmpty
<1>2. /\ Len(q) \in Nat /\ Len(q) > 0 /\ Len(s) \in Nat
      /\ Len(q \o s) = Len(q) + Len(s)
      /\ \A i \in 1..Len(q) + Len(s) :
           (q \o s)[i] = IF i <= Len(q) THEN q[i] ELSE s[i - Len(q)]
  BY ConcatProperties, EmptySeq, LenProperties
<1>3. Head(q \o s) = Head(q)
  BY <1>1, <1>2
<1>4. /\ Tail(q) \in Seq(S) /\ Len(Tail(q)) = Len(q) - 1
      /\ \A i \in 1..Len(Tail(q)) : Tail(q)[i] = q[i + 1]
  BY HeadTailProperties
<1>5. /\ Tail(q \o s) \in Seq(S) /\ Len(Tail(q \o s)) = Len(q) + Len(s) - 1
      /\ \A i \in 1..Len(Tail(q \o s)) : Tail(q \o s)[i] = (q \o s)[i + 1]
  BY <1>1, <1>2, HeadTailProperties
<1>6. /\ Tail(q) \o s \in Seq(S) /\ Len(Tail(q) \o s) = Len(q) - 1 + Len(s)
      /\ \A i \in 1..Len(q) - 1 + Len(s) :
           (Tail(q) \o s)[i] = IF i <= Len(q) - 1 THEN Tail(q)[i]
                                                  ELSE s[i - (Len(q) - 1)]
  BY <1>4, ConcatProperties
<1>7. ASSUME NEW i \in 1..Len(Tail(q \o s))
      PROVE  Tail(q \o s)[i] = (Tail(q) \o s)[i]
  <2>1. i \in 1..Len(q) - 1 + Len(s) /\ i + 1 \in 1..Len(q) + Len(s)
    BY <1>2, <1>5
  <2>2. Tail(q \o s)[i] = IF i + 1 <= Len(q) THEN q[i + 1] ELSE s[i + 1 - Len(q)]
    BY <1>2, <1>5, <2>1
  <2>3. CASE i <= Len(q) - 1
    BY <1>2, <1>4, <1>6, <2>1, <2>2, <2>3
  <2>4. CASE ~(i <= Len(q) - 1)
    <3>1. i + 1 - Len(q) = i - (Len(q) - 1)
      BY <1>2
    <3> QED
      BY <1>2, <1>6, <2>1, <2>2, <2>4, <3>1
  <2> QED
    BY <2>3, <2>4
<1>8. Tail(q \o s) = Tail(q) \o s
  BY <1>2, <1>5, <1>6, <1>7, SeqEqual
<1> QED
  BY <1>1, <1>3, <1>8

\* What is in the queue is in one of its parts.
LEMMA ConcatHandles ==
  ASSUME NEW S, NEW q \in Seq(S), NEW s \in Seq(S)
  PROVE  \A i \in 1..Len(q \o s) : (q \o s)[i] \in Handles(q) \cup Handles(s)
<1>1. /\ Len(q) \in Nat /\ Len(s) \in Nat /\ Len(q \o s) = Len(q) + Len(s)
      /\ \A i \in 1..Len(q) + Len(s) :
           (q \o s)[i] = IF i <= Len(q) THEN q[i] ELSE s[i - Len(q)]
  BY ConcatProperties, LenProperties
<1>2. ASSUME NEW i \in 1..Len(q \o s)
      PROVE  (q \o s)[i] \in Handles(q) \cup Handles(s)
  <2>1. CASE i <= Len(q)
    BY <1>1, <1>2, <2>1 DEF Handles
  <2>2. CASE ~(i <= Len(q))
    <3>1. i - Len(q) \in 1..Len(s) /\ (q \o s)[i] = s[i - Len(q)]
      BY <1>1, <1>2, <2>2
    <3> QED
      BY <3>1 DEF Handles
  <2> QED
    BY <2>1, <2>2
<1> QED
  BY <1>2

-----------------------------------------------------------------------------
(* Frames: a coroutine is suspended in the waiter that holds it, and no two*)
(* are suspended in one waiter.                                            *)

Frames ==
  /\ \A w \in Waiters : coro[w] # None => susp[coro[w]] = w
  /\ \A t \in Tasks : susp[t] # None => t \in live
  /\ \A t, u \in Tasks : susp[t] # None /\ susp[t] = susp[u] => t = u

FInv == IInv /\ Frames

\* The blocked coroutines of the queue.
Blocked == {coro[w] : w \in Waiters} \ {None}

\* No coroutine moves.
LEMMA StutterStep ==
  ASSUME UNCHANGED <<batch, scheduled, cur, coro>>
  PROVE  UNCHANGED RQ!vars
BY DEF RQ!vars

\* Nothing is suspended; finished coroutines may go.
LEMMA QuietFrames ==
  ASSUME FInv, susp' = susp, live \ finished \subseteq live',
         \A w \in Waiters : coro'[w] \in {coro[w], None}
  PROVE  Frames'
<1>1. \A w \in Waiters : coro'[w] # None => coro'[w] = coro[w]
  OBVIOUS
<1>2. \A t \in Tasks : susp[t] # None => t \in live \ finished
  BY DEF FInv, Frames, IInv, Counts
<1> QED
  BY <1>1, <1>2 DEF FInv, Frames

\* complete() moves the coroutine of a waiter to the end of the queue.
LEMMA WakeStep ==
  ASSUME FInv, NEW v \in Waiters, coro[v] # None,
         scheduled' = Enqueue(scheduled, coro[v]),
         coro' = [coro EXCEPT ![v] = None],
         UNCHANGED <<batch, cur>>
  PROVE  RQ!Next
<1>1. /\ coro[v] \in Tasks /\ coro[v] \notin Queued
      /\ \A x \in Waiters : x # v => coro[x] # coro[v]
      /\ scheduled \in Seq(Tasks) /\ batch \in Seq(Tasks)
      /\ coro \in [Waiters -> Tasks \cup {None}]
  BY DEF FInv, IInv, TypeOK, Places
<1>2. scheduled' = Append(scheduled, coro[v])
  BY <1>1 DEF Enqueue, InSeq, Queued, Handles
<1>3. (batch \o scheduled)' = Append(batch \o scheduled, coro[v])
  BY <1>1, <1>2, ConcatAppend
<1>4. Blocked' = Blocked \ {coro[v]} /\ coro[v] \in Blocked
  BY <1>1 DEF Blocked
<1>5. PICK t \in Tasks : t = coro[v]
  BY <1>1
<1>6. RQ!Wake(t)
  <2>1. ({coro[w] : w \in Waiters} \ {None})'
          = ({coro[w] : w \in Waiters} \ {None}) \ {t}
    BY <1>4, <1>5 DEF Blocked
  <2>2. t \in {coro[w] : w \in Waiters} \ {None}
    BY <1>4, <1>5 DEF Blocked
  <2>3. (batch \o scheduled)' = Append(batch \o scheduled, t)
    BY <1>3, <1>5
  <2> QED
    BY <2>1, <2>2, <2>3, Zenon DEF RQ!Wake
<1> QED
  BY <1>6 DEF RQ!Next

\* io_waiter::complete wakes a coroutine or nobody.
LEMMA CompleteStep ==
  ASSUME FInv, NEW w \in Waiters, NEW r, Complete(w, r),
         UNCHANGED <<batch, cur>>
  PROVE  /\ RQ!Next \/ UNCHANGED RQ!vars
         /\ \A x \in Waiters : coro'[x] \in {coro[x], None}
<1> DEFINE p     == parent[w]
           v     == IF p = None THEN w ELSE p
           wakes == (p = None \/ count[p] <= 1) /\ coro[v] # None /\ ~sched[v]
<1>1. /\ coro' = IF wakes THEN [coro EXCEPT ![v] = None] ELSE coro
      /\ scheduled' = IF wakes THEN Enqueue(scheduled, coro[v]) ELSE scheduled
  BY DEF Complete
<1>2. v \in Waiters /\ coro \in [Waiters -> Tasks \cup {None}]
  BY DEF FInv, IInv, TypeOK, Waiters
<1>3. wakes => coro[v] # None
  OBVIOUS
<1> HIDE DEF v, wakes
<1>4. CASE wakes
  <2>1. RQ!Next
    BY <1>1, <1>2, <1>3, <1>4, WakeStep
  <2>2. \A x \in Waiters : coro'[x] \in {coro[x], None}
    BY <1>1, <1>2, <1>4
  <2> QED
    BY <2>1, <2>2
<1>5. CASE ~wakes
  <2>1. UNCHANGED RQ!vars
    BY <1>1, <1>5, StutterStep
  <2>2. \A x \in Waiters : coro'[x] \in {coro[x], None}
    BY <1>1, <1>2, <1>5
  <2> QED
    BY <2>1, <2>2
<1> QED
  BY <1>4, <1>5

\* What holds of one step.
Moves == Frames' /\ (RQ!Next \/ UNCHANGED RQ!vars)

\* Steps in which no coroutine starts, stops or wakes.
LEMMA QuietMoves ==
  ASSUME FInv, susp' = susp, live \ finished \subseteq live',
         UNCHANGED <<batch, scheduled, cur, coro>>
  PROVE  Moves
<1>1. \A w \in Waiters : coro'[w] \in {coro[w], None}
  OBVIOUS
<1> QED
  BY <1>1, QuietFrames, StutterStep DEF Moves

LEMMA LoopMoves ==
  ASSUME FInv,
         \/ Run \/ PollEvents \/ PollTimeout \/ PollInterrupted \/ LoopAgain
         \/ Tick \/ Expire \/ StepDone \/ \E f \in Fds : FdReady(f) \/ FdIdle(f)
  PROVE  Moves
<1> USE DEF loopVars, taskVars, runVars, wakeVars
<1>1. CASE StepDone
  BY <1>1, QuietMoves DEF StepDone
<1>2. CASE Run \/ PollEvents \/ PollTimeout \/ PollInterrupted \/ LoopAgain
  BY <1>2, QuietMoves DEF Run, PollEvents, PollTimeout, PollInterrupted, LoopAgain
<1>3. CASE Tick \/ Expire
  BY <1>3, QuietMoves DEF Tick, Expire
<1>4. CASE \E f \in Fds : FdReady(f) \/ FdIdle(f)
  BY <1>4, QuietMoves DEF FdReady, FdIdle
<1> QED
  BY <1>1, <1>2, <1>3, <1>4

\* step() swaps the vectors: the queue is the same.
LEMMA SwapMoves ==
  ASSUME FInv, SwapBatch PROVE Moves
<1> USE DEF SwapBatch, taskVars, wakeVars
<1>1. scheduled \in Seq(Tasks) /\ batch = <<>>
  BY DEF FInv, IInv, TypeOK
<1>2. (batch \o scheduled)' = batch \o scheduled
  BY <1>1, ConcatEmptySeq
<1>3. UNCHANGED RQ!vars
  BY <1>2 DEF RQ!vars
<1>4. Frames'
  BY QuietFrames
<1> QED
  BY <1>3, <1>4 DEF Moves

\* complete(), whoever calls it.
LEMMA CompleteMoves ==
  ASSUME FInv,
         \/ \E w \in Leaves, r \in {"done", "error"} : DispatchEvent(w, r)
         \/ \E w \in Waiters : ProcessReady(w)
         \/ \E w \in Leaves, r \in {"done", "error", "cancelled"} :
              ClientComplete(w, r)
  PROVE  Moves
<1>1. ASSUME NEW w \in Waiters, NEW r, Complete(w, r),
             UNCHANGED <<taskVars, batch, cur, susp>>
      PROVE  Moves
  BY <1>1, CompleteStep, QuietFrames DEF Moves, taskVars
<1>2. ASSUME NEW w \in Leaves, NEW r \in {"done", "error"}, DispatchEvent(w, r)
      PROVE  Moves
  BY <1>1, <1>2 DEF DispatchEvent, Waiters
<1>3. ASSUME NEW w \in Waiters, ProcessReady(w) PROVE Moves
  <2>1. CASE result[w] = "waiting"
    BY <1>3, <2>1, QuietMoves DEF ProcessReady, wakeVars, taskVars
  <2>2. CASE result[w] # "waiting"
    BY <1>1, <1>3, <2>2 DEF ProcessReady
  <2> QED
    BY <2>1, <2>2
<1>4. ASSUME NEW w \in Leaves, NEW r \in {"done", "error", "cancelled"},
             ClientComplete(w, r)
      PROVE  Moves
  BY <1>1, <1>4 DEF ClientComplete, Waiters
<1> QED
  BY <1>2, <1>3, <1>4

\* cancel() of a combinator.
LEMMA CancelMoves ==
  ASSUME FInv, NEW c \in Combos, CancelCombo(c) PROVE Moves
<1>1. c \in Waiters /\ coro \in [Waiters -> Tasks \cup {None}]
  BY DEF Waiters, FInv, IInv, TypeOK
<1>2. UNCHANGED <<taskVars, batch, cur, susp>>
  BY DEF CancelCombo
<1>3. CASE coro[c] # None /\ ~sched[c]
  <2>1. scheduled' = Enqueue(scheduled, coro[c]) /\ coro' = [coro EXCEPT ![c] = None]
    BY <1>3 DEF CancelCombo
  <2>2. RQ!Next
    BY <1>1, <1>2, <1>3, <2>1, WakeStep
  <2>3. \A w \in Waiters : coro'[w] \in {coro[w], None}
    BY <1>1, <2>1
  <2> QED
    BY <1>2, <2>2, <2>3, QuietFrames DEF Moves, taskVars
<1>4. CASE ~(coro[c] # None /\ ~sched[c])
  <2>1. UNCHANGED <<scheduled, coro>>
    BY <1>4 DEF CancelCombo
  <2> QED
    BY <1>2, <2>1, QuietMoves DEF taskVars
<1> QED
  BY <1>3, <1>4

-----------------------------------------------------------------------------
(* Coroutines.                                                             *)

\* The head of the batch is resumed: await_resume wakes nobody.
LEMMA ResumeShape ==
  ASSUME FInv, NEW t \in Tasks, Resume(t)
  PROVE  /\ Dispatch(t) /\ UNCHANGED <<loopVars, taskVars, pollVars>>
         /\ susp' = [susp EXCEPT ![t] = None]
         /\ t \in Queued /\ t \in live /\ batch # <<>>
         /\ \A w \in Waiters : coro[w] # t
         /\ UNCHANGED <<scheduled, coro>>
<1> USE DEF taskVars, loopVars, wakeVars
<1>1. /\ Dispatch(t) /\ UNCHANGED <<loopVars, taskVars, pollVars>>
      /\ susp' = [susp EXCEPT ![t] = None]
  BY DEF Resume, ResumeStart, ResumeLeaf, ResumeAny, ResumeAll, FInv, IInv, TypeOK
<1>2. /\ t \in Queued /\ t \in live /\ batch # <<>> /\ t = Head(batch)
      /\ cur = None /\ batch' = Tail(batch) /\ cur' = t
      /\ batch \in Seq(Tasks) /\ scheduled \in Seq(Tasks)
  BY <1>1, TailHandles DEF Dispatch, FInv, IInv, TypeOK, Queued
<1>3. \A w \in Waiters : coro[w] # t
  BY <1>2 DEF FInv, IInv, Places
<1>4. scheduled' = scheduled /\ coro' = coro
  <2>1. CASE ResumeStart(t)
    BY <2>1 DEF ResumeStart
  <2>2. CASE ResumeLeaf(t)
    <3>1. {susp[t]} \cap {x \in Leaves : added[x]} \in SUBSET Waiters
      BY DEF Waiters
    <3> QED
      BY <2>2, <3>1, RemoveTypes DEF ResumeLeaf, FInv
  <2>3. CASE ResumeAny(t) \/ ResumeAll(t)
    <3> DEFINE a == susp[t]
    <3>1. a \in Combos /\ a \in Waiters /\ coro' = Put(coro, {a}, None)
      BY <2>3 DEF ResumeAny, ResumeAll, Destroyed, Combos, Waiters
    <3>2. coro[a] = None
      <4>1. SUFFICES ASSUME coro[a] # None PROVE FALSE
        OBVIOUS
      <4>2. coro[a] \in Tasks /\ susp[coro[a]] = a
        BY <3>1, <4>1 DEF FInv, Frames, IInv, TypeOK
      <4> QED
        BY <1>3, <3>1, <4>2, WaiterAssumption DEF FInv, Frames
    <3>3. coro' = coro
      BY <3>1, <3>2 DEF Put, FInv, IInv, TypeOK
    <3>4. PICK R \in SUBSET Waiters : Remove(R)
      BY <2>3 DEF ResumeAny, ResumeAll, Skipped, FInv, IInv, TypeOK, Waiters, Combos
    <3> QED
      BY <3>3, <3>4, RemoveTypes DEF FInv
  <2> QED
    BY <2>1, <2>2, <2>3 DEF Resume
<1> QED
  BY <1>1, <1>2, <1>3, <1>4

LEMMA ResumeMoves ==
  ASSUME FInv, NEW t \in Tasks, Resume(t) PROVE Moves
<1>1. /\ Dispatch(t) /\ UNCHANGED taskVars
      /\ susp' = [susp EXCEPT ![t] = None]
      /\ \A w \in Waiters : coro[w] # t
      /\ UNCHANGED <<scheduled, coro>>
  BY ResumeShape
<1>2. /\ batch # <<>> /\ t = Head(batch) /\ t \in live
      /\ cur = None /\ batch' = Tail(batch) /\ cur' = t
      /\ batch \in Seq(Tasks) /\ scheduled \in Seq(Tasks)
  BY <1>1 DEF Dispatch, FInv, IInv, TypeOK
<1>3. RQ!Resume
  <2>1. /\ batch \o scheduled # <<>> /\ cur' = Head(batch \o scheduled)
        /\ (batch \o scheduled)' = Tail(batch \o scheduled)
    BY <1>1, <1>2, ConcatTail
  <2> QED
    BY <1>1, <1>2, <2>1 DEF RQ!Resume
<1>4. Frames'
  <2>1. \A u \in Tasks : susp'[u] = IF u = t THEN None ELSE susp[u]
    BY <1>1 DEF FInv, IInv, TypeOK
  <2>2. \A w \in Waiters : coro[w] # None => coro[w] \in Tasks
    BY DEF FInv, IInv, TypeOK
  <2> QED
    BY <1>1, <2>1, <2>2 DEF FInv, Frames, taskVars
<1> QED
  BY <1>3, <1>4 DEF Moves, RQ!Next

\* schedule(io_task&&)
LEMMA SpawnMoves ==
  ASSUME FInv, NEW t \in Tasks, Spawn(t) PROVE Moves
<1> USE DEF Spawn, wakeVars
<1>1. /\ t \notin Queued /\ t # cur /\ t \notin Blocked
      /\ scheduled \in Seq(Tasks) /\ batch \in Seq(Tasks)
  BY WaiterAssumption DEF FInv, IInv, TypeOK, Places, Blocked
<1>2. scheduled' = Append(scheduled, t)
  BY <1>1 DEF Enqueue, InSeq, Queued, Handles
<1>3. (batch \o scheduled)' = Append(batch \o scheduled, t)
  BY <1>1, <1>2, ConcatAppend
<1>4. ~RQ!InQueue(t)
  <2>1. \A i \in 1..Len(batch \o scheduled) : (batch \o scheduled)[i] \in Queued
    BY <1>1, ConcatHandles DEF Queued
  <2> QED
    BY <1>1, <2>1 DEF RQ!InQueue
<1>5. RQ!Admit(t)
  BY <1>1, <1>3, <1>4 DEF RQ!Admit, Blocked
<1>6. Frames'
  BY QuietFrames
<1> QED
  BY <1>5, <1>6 DEF Moves, RQ!Next

LEMMA FinishMoves ==
  ASSUME FInv, NEW t \in Tasks, Finish(t) PROVE Moves
<1> USE DEF Finish, Running, wakeVars
<1>1. RQ!Retire
  BY WaiterAssumption DEF RQ!Retire
<1>2. Frames'
  BY QuietFrames
<1> QED
  BY <1>1, <1>2 DEF Moves, RQ!Next

\* The running coroutine is stored in the waiter it awaits.
LEMMA SuspendMoves ==
  ASSUME FInv, NEW t \in Tasks, Suspend(t) PROVE Moves
<1> USE DEF taskVars
<1>1. PICK w \in Waiters :
        /\ coro' = [coro EXCEPT ![w] = t] /\ susp' = [susp EXCEPT ![t] = w]
        /\ cur' = None /\ Running(t)
        /\ UNCHANGED <<taskVars, scheduled, batch>>
        /\ \A u \in live : susp[u] # w
  <2>1. ASSUME NEW w \in Leaves, AwaitLeaf(t, w)
        PROVE  \A u \in live : susp[u] # w
    BY <2>1 DEF AwaitLeaf, InUse
  <2>2. ASSUME NEW a \in Combos, Idle(a) PROVE \A u \in live : susp[u] # a
    BY <2>2 DEF Idle
  <2> QED
    BY <2>1, <2>2 DEF Suspend, AwaitLeaf, AwaitAny, AwaitAll, Waiters, Combos
<1>2. /\ t = cur /\ t # None /\ t \in live /\ cur # None
      /\ \A x \in Waiters : coro[x] # t
  BY <1>1, WaiterAssumption DEF Running, FInv, IInv, Places
<1>3. coro[w] = None
  BY <1>1 DEF FInv, Frames, IInv, Places
<1>4. /\ coro'[w] = t /\ \A x \in Waiters : x # w => coro'[x] = coro[x]
      /\ susp'[t] = w /\ \A u \in Tasks : u # t => susp'[u] = susp[u]
  BY <1>1 DEF FInv, IInv, TypeOK
<1>5. Blocked' = Blocked \cup {cur}
  <2>1. ASSUME NEW u PROVE u \in Blocked' <=> u \in Blocked \cup {cur}
    BY <1>2, <1>3, <1>4 DEF Blocked
  <2> QED
    BY <2>1
<1>6. RQ!Block
  <2>1. ({coro[x] : x \in Waiters} \ {None})'
          = ({coro[x] : x \in Waiters} \ {None}) \cup {cur}
    BY <1>5 DEF Blocked
  <2> QED
    BY <1>1, <1>2, <2>1 DEF RQ!Block
<1>7. Frames'
  <2>1. \A x \in Waiters : coro'[x] # None => susp'[coro'[x]] = x
    <3>1. \A x \in Waiters : x # w /\ coro[x] # None =>
            coro[x] \in Tasks /\ coro[x] # t /\ susp[coro[x]] = x
      BY <1>2 DEF FInv, Frames, IInv, TypeOK
    <3> QED
      BY <1>4, <3>1
  <2>2. \A u \in Tasks : susp'[u] # None => u \in live'
    BY <1>1, <1>2, <1>4 DEF FInv, Frames
  <2>3. \A u, v \in Tasks : susp'[u] # None /\ susp'[u] = susp'[v] => u = v
    <3>1. w # None /\ \A u \in Tasks : u # t => susp[u] # w
      BY <1>1, WaiterAssumption DEF FInv, Frames
    <3> QED
      BY <1>4, <3>1 DEF FInv, Frames
  <2> QED
    BY <2>1, <2>2, <2>3 DEF Frames
<1> QED
  BY <1>6, <1>7 DEF Moves, RQ!Next

\* co_await that does not suspend.
LEMMA ReadyMoves ==
  ASSUME FInv, NEW t \in Tasks,
         \/ \E w \in Leaves : LeafReady(t, w)
         \/ \E a \in Anys, K \in SUBSET Leaves, d \in AnyWaits : AnyReady(t, a, K, d)
         \/ \E K \in SUBSET Leaves, d \in AllWaits : AllReady(t, K, d)
  PROVE  Moves
<1> USE DEF taskVars
<1>1. ASSUME NEW R \in SUBSET Waiters,
             scheduled' = Descheduled(scheduled, {coro[w] : w \in R}),
             UNCHANGED <<taskVars, batch, cur, susp, coro>>
      PROVE  Moves
  <2>1. scheduled' = scheduled
    BY <1>1, NothingToDeschedule DEF FInv, IInv
  <2> QED
    BY <1>1, <2>1, QuietMoves
<1>2. ASSUME NEW w \in Leaves, LeafReady(t, w) PROVE Moves
  <2>1. {w} \cap {x \in Leaves : added[x]} \in SUBSET Waiters
    BY DEF Waiters
  <2> QED
    BY <1>1, <1>2, <2>1 DEF LeafReady, Remove
<1>3. ASSUME NEW a \in Anys, NEW K \in SUBSET Leaves, NEW d \in AnyWaits,
             AnyReady(t, a, K, d)
      PROVE  Moves
  <2>1. \A S : Linked(K) \ S \in SUBSET Waiters
    BY DEF Linked, Waiters
  <2> QED
    BY <1>1, <1>3, <2>1 DEF AnyReady
<1>4. ASSUME NEW K \in SUBSET Leaves, NEW d \in AllWaits, AllReady(t, K, d)
      PROVE  Moves
  <2>1. Linked(K) \in SUBSET Waiters
    BY DEF Linked, Waiters
  <2> QED
    BY <1>1, <1>4, <2>1 DEF AllReady
<1> QED
  BY <1>2, <1>3, <1>4

\* reset() of a leaf nobody is suspended in.
LEMMA ResetMoves ==
  ASSUME FInv, "reset_in_use" \notin Allow,
         NEW w \in Leaves, NEW d \in Waits, Reset(w, d)
  PROVE  Moves
<1>1. /\ w \in Waiters /\ coro' = [coro EXCEPT ![w] = None] /\ ~InUse(w)
      /\ UNCHANGED <<taskVars, batch, cur, susp>>
  BY DEF Reset, Waiters
<1>2. coro[w] = None
  BY <1>1 DEF InUse, FInv, Frames, IInv, Places
<1>3. coro' = coro
  BY <1>1, <1>2 DEF FInv, IInv, TypeOK
<1>4. scheduled' = scheduled
  <2>1. {w} \cap {x \in Leaves : added[x]} \in SUBSET Waiters
    BY DEF Waiters
  <2> QED
    BY <2>1, RemoveTypes DEF Reset, FInv
<1> QED
  BY <1>1, <1>3, <1>4, QuietMoves DEF taskVars

-----------------------------------------------------------------------------
(* The theorem.                                                            *)

LEMMA InitMoves == Init => FInv /\ RQ!Init
<1> SUFFICES ASSUME Init PROVE FInv /\ RQ!Init
  OBVIOUS
<1>1. Frames
  BY WaiterAssumption DEF Init, Frames, Waiters
<1>2. <<>> \o <<>> = <<>> /\ {coro[w] : w \in Waiters} \ {None} = {}
  BY ConcatEmptySeq, EmptySeq DEF Init
<1>3. RQ!Init
  BY <1>2 DEF Init, RQ!Init
<1> QED
  BY <1>1, <1>3, InitIInv DEF FInv

LEMMA NextMoves ==
  ASSUME "reset_in_use" \notin Allow, FInv, [Next]_vars, ~ExitLoop
  PROVE  Moves
<1>1. CASE \/ Run \/ PollEvents \/ PollTimeout \/ PollInterrupted \/ LoopAgain
           \/ Tick \/ Expire \/ StepDone \/ \E f \in Fds : FdReady(f) \/ FdIdle(f)
  BY <1>1, LoopMoves
<1>2. CASE SwapBatch
  BY <1>2, SwapMoves
<1>3. CASE Stop
  BY <1>3, QuietMoves DEF Stop, taskVars, runVars, wakeVars
<1>4. CASE \/ \E w \in Leaves, r \in {"done", "error"} : DispatchEvent(w, r)
           \/ \E w \in Waiters : ProcessReady(w)
           \/ \E w \in Leaves, r \in {"done", "error", "cancelled"} :
                ClientComplete(w, r)
  BY <1>4, CompleteMoves
<1>5. ASSUME NEW t \in Tasks, Resume(t) \/ Spawn(t) \/ CoroutineStep(t)
      PROVE  Moves
  BY <1>5, ResumeMoves, SpawnMoves, FinishMoves, SuspendMoves, ReadyMoves
     DEF CoroutineStep
<1>6. ASSUME NEW c \in Combos, CancelCombo(c) PROVE Moves
  BY <1>6, CancelMoves
<1>7. ASSUME NEW w \in Leaves, NEW d \in Waits, Reset(w, d) PROVE Moves
  BY <1>7, ResetMoves
<1>8. CASE UNCHANGED vars
  BY <1>8, QuietMoves
     DEF vars, loopVars, taskVars, runVars, wakeVars
<1> QED
  BY <1>1, <1>2, <1>3, <1>4, <1>5, <1>6, <1>7, <1>8 DEF Next, LoopStep, SharedStep

\* A suspended coroutine is where the waiter that holds it says, in one frame.
THEOREM FramesHold ==
  ASSUME StopIsFinal, "reset_in_use" \notin Allow
  PROVE  Spec => [](FInv \/ Quit)
<1>1. (FInv \/ Quit) /\ [Next]_vars => (FInv \/ Quit)'
  BY NextMoves, NextIInv, ExitQuits, NextQuit DEF FInv, Moves
<1> QED
  BY <1>1, InitMoves, PTL DEF Spec

\* The loop implements the run queue: first in, first out, one wake for each
\* suspension, and nothing lost between the two vectors of step().
THEOREM LoopIsRunQueue ==
  ASSUME "stop" \notin Allow, "reset_in_use" \notin Allow
  PROVE  Spec => RefinesRunQueue
<1>1. FInv => ~ExitLoop
  BY DEF ExitLoop, FInv, IInv, Places
<1>2. FInv /\ [Next]_vars => [RQ!Next]_RQ!vars
  BY <1>1, NextMoves DEF Moves
<1>3. FInv /\ [Next]_vars => FInv'
  BY <1>1, NextMoves, NextIInv DEF FInv, Moves
<1> QED
  BY <1>2, <1>3, InitMoves, PTL DEF Spec, RefinesRunQueue, RQ!Spec
=============================================================================
