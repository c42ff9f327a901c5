---------------------------- MODULE IoTask_proofs ----------------------------
(***************************************************************************)
(* Proofs about IoTask, for any number of tasks and functions and any depth*)
(* of nesting: no frame is lost, none is resumed or destroyed in the wrong *)
(* state, and the chain of frames of a task is one coroutine to the loop.  *)
(***************************************************************************)
EXTENDS IoTask, SequenceTheorems, FiniteSetTheorems, TLAPS

RQP == INSTANCE RunQueue_proofs WITH Tasks <- Frames, queue <- runq

-----------------------------------------------------------------------------
(* Frames that own frames.                                                 *)

LEMMA TreeHolds ==
  ASSUME NEW S \in SUBSET Frames
  PROVE  S \subseteq Tree(S) /\ Tree(S) \subseteq Frames
BY DEF Tree

LEMMA TreeIsClosed ==
  ASSUME NEW S \in SUBSET Frames
  PROVE  ClosedUnderOwnership(Tree(S))
<1> SUFFICES ASSUME NEW g \in Funcs, owner[g] \in Tree(S),
                    NEW C \in SUBSET Frames, S \subseteq C, ClosedUnderOwnership(C)
             PROVE  g \in C
  BY DEF Tree, ClosedUnderOwnership, Frames
<1>1. owner[g] \in C
  BY DEF Tree
<1> QED
  BY <1>1 DEF ClosedUnderOwnership

LEMMA TreeIsLeast ==
  ASSUME NEW S, NEW C \in SUBSET Frames, S \subseteq C, ClosedUnderOwnership(C)
  PROVE  Tree(S) \subseteq C
BY DEF Tree

\* A root is in its own tree only; a function is in a tree with its owner.
LEMMA TreeOfRoot ==
  ASSUME NEW r \in Roots
  PROVE  /\ Tree({r}) \cap Roots = {r}
         /\ \A f \in Funcs : f \in Tree({r}) => owner[f] \in Tree({r})
<1>1. {r} \in SUBSET Frames
  BY DEF Frames
<1> DEFINE T == Tree({r})
<1>2. T \subseteq Frames /\ r \in T /\ ClosedUnderOwnership(T)
  BY <1>1, TreeHolds, TreeIsClosed
<1>3. T \subseteq {r} \cup Funcs
  <2>1. {r} \cup Funcs \in SUBSET Frames /\ ClosedUnderOwnership({r} \cup Funcs)
    BY DEF Frames, ClosedUnderOwnership
  <2> QED
    BY <2>1, TreeIsLeast
<1>4. ASSUME NEW f \in Funcs, f \in T, owner[f] \notin T PROVE FALSE
  <2>1. f # r
    BY TaskAssumption
  <2>2. ClosedUnderOwnership(T \ {f})
    BY <1>2, <1>4 DEF ClosedUnderOwnership
  <2>3. T \subseteq T \ {f}
    BY <1>2, <2>1, <2>2, TreeIsLeast
  <2> QED
    BY <1>4, <2>3
<1> QED
  BY <1>2, <1>3, <1>4, TaskAssumption

\* No function belongs to two tasks.
LEMMA TreesApart ==
  ASSUME NEW r \in Roots, NEW s \in Roots, r # s
  PROVE  Tree({r}) \cap Tree({s}) = {}
<1> DEFINE C == Frames \ Tree({s})
<1>1. r \in C
  BY TreeOfRoot DEF Frames
<1>2. ClosedUnderOwnership(C)
  BY TreeOfRoot DEF ClosedUnderOwnership, Frames
<1>3. Tree({r}) \subseteq C
  BY <1>1, <1>2, TreeIsLeast
<1> QED
  BY <1>3

LEMMA TaskIs ==
  ASSUME NEW r \in Roots, NEW f \in Tree({r})
  PROVE  TaskOf(f) = r
<1>1. \A s \in Roots : f \in Tree({s}) => s = r
  BY TreesApart
<1> QED
  BY <1>1 DEF TaskOf

-----------------------------------------------------------------------------
(* The invariant.                                                          *)

\* A function that exists belongs to a frame that is not finished; one that has
\* begun was awaited by that frame.
Owned ==
  /\ \A r \in Roots : cont[r] = None
  /\ \A f \in Funcs :
       /\ frame[f] = "none" <=> owner[f] = None
       /\ owner[f] # None => frame[owner[f]] # "none"
       /\ frame[f] \notin {"none", "gone"} => Unfinished(owner[f])
       /\ Unfinished(f) => cont[f] = owner[f]

\* Who awaits a function is suspended and is neither asleep nor queued; nobody
\* awaits two.  A suspended frame is asleep, queued, or awaits a function.
Chain ==
  /\ \A f \in Frames : frame[f] = "active" <=> f = cur
  /\ \A g \in Funcs : Unfinished(g) =>
       frame[cont[g]] = "suspended" /\ cont[g] \notin RQP!Queue \cup blocked
  /\ \A g, h \in Funcs : Unfinished(g) /\ Unfinished(h) /\ cont[g] = cont[h] => g = h
  /\ \A f \in Frames : frame[f] = "suspended" =>
       f \in RQP!Queue \cup blocked \/ \E g \in Funcs : Unfinished(g) /\ cont[g] = f
  /\ \A f \in RQP!Queue :
       frame[f] = "suspended" \/ (f \in Roots /\ frame[f] = "created")
  /\ \A f \in blocked : frame[f] = "suspended"

\* Coroutines run inside step(); what it will destroy is done.
Control ==
  /\ pc # "step" => cur = None /\ handle = None
  /\ handle = None => cur = None
  /\ \A f \in finished : frame[f] \in {"done", "gone"}

IInv ==
  /\ TypeOK /\ RQP!OnePlace /\ Control
  /\ pc # "ended" => Owned /\ Chain

LEMMA Types ==
  ASSUME TypeOK
  PROVE  /\ frame \in [Frames -> FrameStates]
         /\ cont \in [Frames -> Frames \cup {None}]
         /\ owner \in [Frames -> Frames \cup {None}]
         /\ temp \subseteq Funcs /\ runq \in Seq(Frames)
         /\ cur \in Frames \cup {None} /\ handle \in Frames \cup {None}
         /\ blocked \subseteq Frames /\ finished \subseteq Frames
         /\ tasks \subseteq Roots /\ None \notin Frames
         /\ Roots \subseteq Frames /\ Funcs \subseteq Frames
         /\ pc \in {"off", "step", "poll", "ended"} /\ stopping \in BOOLEAN
BY TaskAssumption DEF TypeOK, Frames

\* What is destroyed with frames that are finished is finished, and exists.
LEMMA TreeIsFinished ==
  ASSUME TypeOK, Owned, NEW S \in SUBSET Frames,
         \A f \in S : ~Unfinished(f) /\ frame[f] # "none"
  PROVE  \A f \in Tree(S) : ~Unfinished(f) /\ frame[f] # "none"
<1> DEFINE C == {f \in Frames : ~Unfinished(f) /\ frame[f] # "none"}
<1>1. ASSUME NEW g \in Funcs, owner[g] \in C PROVE g \in C
  <2>1. g \in Frames /\ owner[g] # None
    BY <1>1, Types
  <2> QED
    BY <1>1, <2>1 DEF Owned, Unfinished
<1>2. Tree(S) \subseteq C
  BY <1>1, TreeIsLeast DEF ClosedUnderOwnership
<1> QED
  BY <1>2

-----------------------------------------------------------------------------
(* The steps.                                                              *)

\* The run queue of the loop.
LEMMA QueueSteps ==
  ASSUME TypeOK, RQP!OnePlace
  PROVE  /\ \A t \in Frames : LQ!Admit(t) =>
              /\ RQP!OnePlace' /\ RQP!Queue' = RQP!Queue \cup {t}
              /\ t \notin RQP!Queue \cup blocked /\ t # cur
         /\ \A t \in Frames : LQ!Wake(t) =>
              RQP!OnePlace' /\ RQP!Queue' = RQP!Queue \cup {t}
         /\ LQ!Block => RQP!OnePlace' /\ RQP!Queue' = RQP!Queue
         /\ LQ!Resume => /\ RQP!OnePlace' /\ RQP!Queue = RQP!Queue' \cup {cur'}
                         /\ cur' \in Frames
         /\ UNCHANGED queueVars => RQP!OnePlace' /\ RQP!Queue' = RQP!Queue
<1>1. [RQP!Next]_(RQP!vars) => RQP!OnePlace'
  BY RQP!StepPlaces, TaskAssumption DEF Frames
<1>2. ASSUME NEW t \in Frames, LQ!Admit(t)
      PROVE  /\ RQP!OnePlace' /\ RQP!Queue' = RQP!Queue \cup {t}
             /\ t \notin RQP!Queue \cup blocked /\ t # cur
  <2>1. RQP!Admit(t)
    BY <1>2 DEF LQ!Admit, RQP!Admit, LQ!InQueue, RQP!InQueue
  <2>2. t \notin RQP!Queue \cup blocked /\ t # cur /\ runq' = Append(runq, t)
    BY <2>1 DEF RQP!Admit, RQP!InQueue, RQP!Queue
  <2> QED
    BY <1>1, <2>1, <2>2, RQP!Pushed DEF RQP!Next
<1>3. ASSUME NEW t \in Frames, LQ!Wake(t)
      PROVE  RQP!OnePlace' /\ RQP!Queue' = RQP!Queue \cup {t}
  <2>1. RQP!Wake(t)
    BY <1>3 DEF LQ!Wake, RQP!Wake
  <2>2. t \notin RQP!Queue /\ runq' = Append(runq, t)
    BY <2>1 DEF RQP!Wake, RQP!OnePlace
  <2> QED
    BY <1>1, <2>1, <2>2, RQP!Pushed DEF RQP!Next
<1>4. ASSUME LQ!Block PROVE RQP!OnePlace' /\ RQP!Queue' = RQP!Queue
  BY <1>1, <1>4 DEF LQ!Block, RQP!Block, RQP!Next, RQP!Queue
<1>5. ASSUME LQ!Resume
      PROVE  RQP!OnePlace' /\ RQP!Queue = RQP!Queue' \cup {cur'} /\ cur' \in Frames
  BY <1>1, <1>5, RQP!Popped DEF LQ!Resume, RQP!Resume, RQP!Next
<1>6. ASSUME UNCHANGED queueVars PROVE RQP!OnePlace' /\ RQP!Queue' = RQP!Queue
  BY <1>6 DEF queueVars, RQP!OnePlace, RQP!Queue
<1> QED
  BY <1>2, <1>3, <1>4, <1>5, <1>6

LEMMA ScheduleKeeps ==
  ASSUME IInv, NEW r \in Roots, Schedule(r)
  PROVE  IInv'
<1>1. /\ cur # None \/ pc = "off"
      /\ frame[r] = "none" /\ frame' = [frame EXCEPT ![r] = "created"]
      /\ tasks' = tasks \cup {r} /\ LQ!Admit(r)
      /\ UNCHANGED <<cont, owner, temp, handle, finished, pc, stopping, cur, blocked>>
  BY DEF Schedule, LQ!Admit
<1>2. r \in Frames /\ r \notin Funcs
  BY TaskAssumption DEF Frames
<1>3. RQP!OnePlace' /\ RQP!Queue' = RQP!Queue \cup {r}
  BY <1>1, <1>2, QueueSteps DEF IInv
<1>4. /\ frame' \in [Frames -> FrameStates] /\ frame'[r] = "created"
      /\ \A f \in Frames : f # r => frame'[f] = frame[f]
  BY <1>1, <1>2, Types DEF IInv, FrameStates
<1>5. Owned /\ Chain /\ pc' # "ended"
  BY <1>1 DEF IInv, Control
<1>6. TypeOK'
  BY <1>1, <1>2, <1>3, <1>4 DEF IInv, TypeOK, RQP!OnePlace
<1>7. Control'
  BY <1>1, <1>4, Types DEF IInv, Control
<1>8. Owned'
  BY <1>1, <1>2, <1>4, <1>5, Types DEF IInv, Owned, Unfinished
<1>9. Chain'
  BY <1>1, <1>2, <1>3, <1>4, <1>5, Types DEF IInv, Owned, Chain, Unfinished
<1> QED
  BY <1>3, <1>6, <1>7, <1>8, <1>9 DEF IInv

LEMMA CreateKeeps ==
  ASSUME IInv, NEW f \in Funcs, Create(f)
  PROVE  IInv'
<1>1. /\ cur # None /\ frame[f] = "none"
      /\ frame' = [frame EXCEPT ![f] = "created"]
      /\ owner' = [owner EXCEPT ![f] = cur]
      /\ UNCHANGED <<cont, temp, queueVars, stepVars, pc, stopping>>
  BY DEF Create
<1>2. f \in Frames /\ f \notin Roots /\ cur \in Frames
  BY <1>1, TaskAssumption, Types DEF Frames, IInv
<1>3. RQP!OnePlace' /\ RQP!Queue' = RQP!Queue
  BY <1>1, QueueSteps DEF IInv
<1>4. /\ frame' \in [Frames -> FrameStates] /\ frame'[f] = "created"
      /\ \A h \in Frames : h # f => frame'[h] = frame[h]
      /\ owner' \in [Frames -> Frames \cup {None}] /\ owner'[f] = cur
      /\ \A h \in Frames : h # f => owner'[h] = owner[h]
  BY <1>1, <1>2, Types DEF IInv, FrameStates
<1>5. Owned /\ Chain /\ pc' # "ended"
  BY <1>1 DEF IInv, Control
<1>6. TypeOK'
  BY <1>1, <1>2, <1>3, <1>4 DEF IInv, TypeOK, queueVars, stepVars
<1>7. Control'
  BY <1>1, <1>4, Types DEF IInv, Control, queueVars, stepVars
<1>8. Owned'
  <2>1. cont' = cont /\ frame[cur] = "active" /\ cur # f
    BY <1>1, <1>2, <1>5 DEF Chain
  <2>2. ASSUME NEW h \in Funcs
        PROVE  /\ frame'[h] = "none" <=> owner'[h] = None
               /\ owner'[h] # None => frame'[owner'[h]] # "none"
               /\ frame'[h] \notin {"none", "gone"} => Unfinished(owner[h])'
               /\ Unfinished(h)' => cont'[h] = owner'[h]
    <3>1. CASE h = f
      BY <1>1, <1>2, <1>4, <2>1, <3>1 DEF Unfinished
    <3>2. CASE h # f
      BY <1>1, <1>2, <1>4, <1>5, <2>1, <3>2, Types DEF IInv, Owned, Unfinished
    <3> QED
      BY <3>1, <3>2
  <2> QED
    BY <1>5, <2>1, <2>2 DEF Owned
<1>9. Chain'
  BY <1>1, <1>2, <1>3, <1>4, <1>5, Types DEF IInv, Owned, Chain, Unfinished, queueVars
<1> QED
  BY <1>3, <1>6, <1>7, <1>8, <1>9 DEF IInv

\* co_await of a function.
LEMMA EnterKeeps ==
  ASSUME IInv, NEW f \in Funcs, Call(f) \/ Await(f)
  PROVE  IInv'
<1>1. /\ cur # None /\ frame[f] \in {"none", "created"}
      /\ frame' = [frame EXCEPT ![f] = "active", ![cur] = "suspended"]
      /\ cont' = [cont EXCEPT ![f] = cur] /\ cur' = f
      /\ owner' = [owner EXCEPT ![f] = cur]
      /\ temp' \subseteq Funcs
      /\ UNCHANGED <<runq, blocked, stepVars, pc, stopping>>
  BY Types DEF IInv, Call, Await, Enter
<1>2. f \in Frames /\ f \notin Roots /\ cur \in Frames
  BY <1>1, TaskAssumption, Types DEF Frames, IInv
<1>3. Owned /\ Chain /\ pc' # "ended" /\ frame[cur] = "active" /\ cur # f
  BY <1>1, <1>2 DEF IInv, Control, Chain
<1>4. /\ frame' \in [Frames -> FrameStates] /\ frame'[f] = "active"
      /\ frame'[cur] = "suspended"
      /\ \A h \in Frames : h # f /\ h # cur => frame'[h] = frame[h]
      /\ owner' \in [Frames -> Frames \cup {None}] /\ owner'[f] = cur
      /\ \A h \in Frames : h # f => owner'[h] = owner[h]
      /\ cont' \in [Frames -> Frames \cup {None}] /\ cont'[f] = cur
      /\ \A h \in Frames : h # f => cont'[h] = cont[h]
  BY <1>1, <1>2, <1>3, Types DEF IInv, FrameStates
<1>5. f \notin RQP!Queue \cup blocked /\ cur \notin RQP!Queue \cup blocked
  BY <1>1, <1>2, <1>3 DEF IInv, RQP!OnePlace, Chain
<1>6. RQP!OnePlace' /\ RQP!Queue' = RQP!Queue
  BY <1>1, <1>2, <1>5 DEF IInv, RQP!OnePlace, RQP!Queue
<1>7. TypeOK'
  <2>1. \A r \in Roots : frame'[r] \in {"none", "gone"} <=> frame[r] \in {"none", "gone"}
    BY <1>2, <1>3, <1>4, Types DEF IInv
  <2>2. tasks' = {r \in Roots : frame'[r] \notin {"none", "gone"}}
    BY <1>1, <2>1 DEF IInv, TypeOK, stepVars
  <2> QED
    BY <1>1, <1>2, <1>4, <1>6, <2>2, Types DEF IInv, TypeOK, stepVars, RQP!OnePlace
<1>8. Control'
  BY <1>1, <1>3, <1>4, Types DEF IInv, Control, stepVars
<1>9. Owned'
  <2>1. ASSUME NEW h \in Funcs
        PROVE  /\ frame'[h] = "none" <=> owner'[h] = None
               /\ owner'[h] # None => frame'[owner'[h]] # "none"
               /\ frame'[h] \notin {"none", "gone"} => Unfinished(owner[h])'
               /\ Unfinished(h)' => cont'[h] = owner'[h]
    <3>1. CASE h = f
      BY <1>1, <1>4, <3>1 DEF Unfinished
    <3>2. CASE h # f
      BY <1>1, <1>2, <1>3, <1>4, <3>2, Types DEF IInv, Owned, Unfinished
    <3> QED
      BY <3>1, <3>2
  <2> QED
    BY <1>2, <1>3, <1>4, <2>1, Types DEF Owned, IInv
<1>10. Chain'
  <2>1. \A h \in Frames : frame'[h] = "active" <=> h = cur'
    BY <1>1, <1>2, <1>3, <1>4 DEF Chain
  <2>2. \A h \in Funcs : Unfinished(h)' <=> Unfinished(h) \/ h = f
    BY <1>2, <1>3, <1>4, Types DEF IInv, Unfinished
  <2>3. ASSUME NEW g \in Funcs, Unfinished(g)
        PROVE  g # f /\ cont'[g] = cont[g] /\ cont[g] # cur /\ cont[g] # f
               /\ cont[g] \in Frames /\ frame[cont[g]] = "suspended"
    BY <1>1, <1>2, <1>3, <1>4, <2>3, Types DEF IInv, Owned, Chain, Unfinished
  <2>4. \A g \in Funcs : Unfinished(g)' =>
          frame'[cont'[g]] = "suspended" /\ cont'[g] \notin RQP!Queue' \cup blocked'
    BY <1>1, <1>3, <1>4, <1>5, <1>6, <2>2, <2>3 DEF Chain
  <2>5. \A g, h \in Funcs :
          Unfinished(g)' /\ Unfinished(h)' /\ cont'[g] = cont'[h] => g = h
    BY <1>3, <1>4, <2>2, <2>3 DEF Chain
  <2>6. ASSUME NEW h \in Frames, frame'[h] = "suspended"
        PROVE  \/ h \in RQP!Queue' \cup blocked'
               \/ \E g \in Funcs : Unfinished(g)' /\ cont'[g] = h
    <3>1. CASE h = cur
      BY <1>4, <2>2, <3>1
    <3>2. CASE h # cur
      BY <1>1, <1>3, <1>4, <1>6, <2>2, <2>3, <2>6, <3>2 DEF Chain
    <3> QED
      BY <3>1, <3>2
  <2>7. /\ \A h \in RQP!Queue' :
             frame'[h] = "suspended" \/ (h \in Roots /\ frame'[h] = "created")
        /\ \A h \in blocked' : frame'[h] = "suspended"
    BY <1>1, <1>3, <1>4, <1>5, <1>6, Types DEF Chain, IInv, RQP!Queue
  <2> QED
    BY <2>1, <2>4, <2>5, <2>6, <2>7 DEF Chain
<1> QED
  BY <1>6, <1>7, <1>8, <1>9, <1>10 DEF IInv

\* The end of a coroutine destroys only what is finished, and what it awaited for.
LEMMA ReturnIs ==
  ASSUME IInv, Return
  PROVE  LET D == Tree({g \in Funcs : owner[g] = cur}) IN
         /\ cur \in Frames /\ frame[cur] = "active" /\ pc = "step"
         /\ D \subseteq Funcs /\ ClosedUnderOwnership(D)
         /\ \A f \in D : ~Unfinished(f) /\ frame[f] # "none"
         /\ \A f \in Funcs : owner[f] = cur => f \in D
         /\ cur' = cont[cur] /\ cur' # cur
         /\ cur' # None => /\ cur' \in Frames /\ frame[cur'] = "suspended"
                           /\ cur' \notin RQP!Queue \cup blocked
                           /\ cur \in Funcs /\ cur' = owner[cur]
         /\ frame'[cur] = IF cur \in temp THEN "gone" ELSE "done"
         /\ \A f \in Frames : f # cur =>
              frame'[f] = IF f = cur' THEN "active"
                          ELSE IF f \in D THEN "gone" ELSE frame[f]
<1> DEFINE S == {g \in Funcs : owner[g] = cur}
           D == Tree(S)
<1>1. /\ cur # None /\ cur' = cont[cur]
      /\ frame' = [f \in Frames |->
                     IF f = cur THEN IF cur \in temp THEN "gone" ELSE "done"
                     ELSE IF f = cur' THEN "active" ELSE Destroyed(S)[f]]
  BY DEF Return
<1>2. cur \in Frames /\ pc = "step" /\ Owned /\ Chain /\ TypeOK
  BY <1>1, Types DEF IInv, Control
<1>3. frame[cur] = "active"
  BY <1>2 DEF Chain
<1>4. S \in SUBSET Frames /\ S \subseteq Funcs /\ Funcs \in SUBSET Frames
  BY DEF Frames
<1>5. \A f \in S : ~Unfinished(f) /\ frame[f] # "none"
  <2>1. \A g \in S : owner[g] # None /\ (Unfinished(g) => frame[cur] = "suspended")
    BY <1>1, <1>2, <1>4 DEF Owned, Chain
  <2> QED
    BY <1>2, <1>3, <1>4, <2>1 DEF Owned
<1>6. /\ S \subseteq D /\ ClosedUnderOwnership(D) /\ D \subseteq Funcs
      /\ \A f \in D : ~Unfinished(f) /\ frame[f] # "none"
  <2>1. ClosedUnderOwnership(Funcs)
    BY DEF ClosedUnderOwnership
  <2> HIDE DEF S
  <2> QED
    BY <1>2, <1>4, <1>5, <2>1, TreeHolds, TreeIsClosed, TreeIsLeast, TreeIsFinished
<1>7. cur' # None => /\ cur' \in Frames /\ frame[cur'] = "suspended"
                     /\ cur' \notin RQP!Queue \cup blocked
                     /\ cur \in Funcs /\ cur' = owner[cur]
  <2>1. cur' # None => cur \in Funcs
    BY <1>1, <1>2 DEF Owned, Frames
  <2>2. Unfinished(cur)
    BY <1>3 DEF Unfinished
  <2> QED
    BY <1>1, <1>2, <2>1, <2>2, Types DEF Owned, Chain
<1>8. cur' # cur
  BY <1>1, <1>3, <1>7
<1>9. \A f \in Frames : Destroyed(S)[f] = IF f \in D THEN "gone" ELSE frame[f]
  BY DEF Destroyed
<1>10. \A f \in Funcs : owner[f] = cur => f \in D
  BY <1>6
<1> HIDE DEF S, D
<1>11. /\ frame'[cur] = IF cur \in temp THEN "gone" ELSE "done"
       /\ \A f \in Frames : f # cur =>
            frame'[f] = IF f = cur' THEN "active"
                        ELSE IF f \in D THEN "gone" ELSE frame[f]
  BY <1>1, <1>2, <1>9
<1> QED
  BY <1>1, <1>2, <1>3, <1>6, <1>7, <1>8, <1>10, <1>11 DEF S, D

LEMMA ReturnKeeps ==
  ASSUME IInv, Return
  PROVE  IInv'
<1>1. PICK D : /\ D \subseteq Funcs /\ ClosedUnderOwnership(D)
               /\ \A f \in D : ~Unfinished(f) /\ frame[f] # "none"
               /\ \A f \in Funcs : owner[f] = cur => f \in D
               /\ \A f \in Frames : f # cur =>
                    frame'[f] = IF f = cur' THEN "active"
                                ELSE IF f \in D THEN "gone" ELSE frame[f]
  BY ReturnIs
<1>2. /\ cur \in Frames /\ frame[cur] = "active" /\ pc = "step"
      /\ cur' = cont[cur] /\ cur' # cur
      /\ frame'[cur] = IF cur \in temp THEN "gone" ELSE "done"
  BY ReturnIs
<1>3. cur' # None \/ cur' \in Frames =>
        /\ cur' \in Frames /\ frame[cur'] = "suspended"
        /\ cur' \notin RQP!Queue \cup blocked
        /\ cur \in Funcs /\ cur' = owner[cur]
  BY ReturnIs, Types DEF IInv
<1>4. UNCHANGED <<cont, owner, temp, runq, blocked, stepVars, pc, stopping>>
  BY DEF Return
<1>5. TypeOK /\ Owned /\ Chain /\ pc' # "ended"
  BY <1>2, <1>4 DEF IInv
<1>6. cur' \notin D /\ cur \notin D
  BY <1>1, <1>2, <1>3, Types DEF IInv, Unfinished
<1>7. frame' \in [Frames -> FrameStates]
  <2>1. \A f \in Frames : frame'[f] \in FrameStates
    BY <1>1, <1>2, <1>5, Types DEF FrameStates
  <2>2. frame' = [f \in Frames |-> frame'[f]]
    BY DEF Return
  <2> QED
    BY <2>1, <2>2
<1>8. RQP!OnePlace' /\ RQP!Queue' = RQP!Queue
  BY <1>2, <1>3, <1>4 DEF IInv, RQP!OnePlace, RQP!Queue
<1>9. TypeOK'
  <2>1. \A r \in Roots : frame'[r] \in {"none", "gone"} <=> frame[r] \in {"none", "gone"}
    <3>1. ASSUME NEW r \in Roots
          PROVE  frame'[r] \in {"none", "gone"} <=> frame[r] \in {"none", "gone"}
      <4>1. r \in Frames /\ r \notin D /\ r \notin temp
        BY <1>1, <1>5, Types, TaskAssumption
      <4>2. CASE r = cur
        BY <1>2, <4>1, <4>2
      <4>3. CASE r # cur
        BY <1>1, <1>3, <4>1, <4>3
      <4> QED
        BY <4>2, <4>3
    <3> QED
      BY <3>1
  <2>2. tasks' = {r \in Roots : frame'[r] \notin {"none", "gone"}}
    BY <1>4, <2>1 DEF IInv, TypeOK, stepVars
  <2> QED
    BY <1>3, <1>4, <1>5, <1>7, <1>8, <2>2, Types DEF TypeOK, stepVars, RQP!OnePlace
<1>10. Control'
  <2>1. handle # None /\ handle' = handle /\ finished' = finished /\ pc' = pc
    BY <1>2, <1>4, Types DEF IInv, Control, stepVars
  <2>2. \A f \in finished : f \in Frames /\ frame[f] \in {"done", "gone"}
    BY <1>5, Types DEF IInv, Control
  <2>3. \A f \in finished : frame'[f] \in {"done", "gone"}
    BY <1>1, <1>2, <1>3, <1>5, <2>2, Types
  <2> QED
    BY <1>2, <2>1, <2>3 DEF Control
<1>11. \A f \in Frames :
         Unfinished(f)' <=> Unfinished(f) /\ f # cur
  <2> SUFFICES ASSUME NEW f \in Frames
               PROVE  Unfinished(f)' <=> Unfinished(f) /\ f # cur
    OBVIOUS
  <2>1. CASE f = cur
    BY <1>2, <2>1 DEF Unfinished
  <2>2. CASE f # cur /\ f = cur'
    BY <1>1, <1>3, <2>2, Types DEF IInv, Unfinished
  <2>3. CASE f # cur /\ f # cur'
    BY <1>1, <2>3 DEF Unfinished
  <2> QED
    BY <2>1, <2>2, <2>3
<1>12. Owned'
  <2>1. ASSUME NEW f \in Funcs
        PROVE  /\ frame'[f] = "none" <=> owner[f] = None
               /\ owner[f] # None => frame'[owner[f]] # "none"
               /\ frame'[f] \notin {"none", "gone"} => Unfinished(owner[f])'
               /\ Unfinished(f)' => cont[f] = owner[f]
    <3>1. f \in Frames /\ owner[f] \in Frames \cup {None}
      BY <1>5, Types
    <3>2. \A h \in Frames : frame'[h] = "none" <=> frame[h] = "none"
      BY <1>1, <1>2, <1>3
    <3>3. ASSUME frame'[f] \notin {"none", "gone"} PROVE Unfinished(owner[f])'
      <4>1. CASE f = cur
        <5>1. Unfinished(cur) /\ frame[cur] # "none"
          BY <1>2 DEF Unfinished
        <5>2. cont[cur] = owner[cur] /\ owner[cur] # None
          BY <1>5, <4>1, <5>1 DEF Owned
        <5>3. frame'[cur'] = "active"
          BY <1>1, <1>2, <1>3, <5>2
        <5> QED
          BY <1>2, <1>4, <4>1, <5>2, <5>3 DEF Unfinished
      <4>2. CASE f # cur
        <5>1. f \notin D
          BY <1>1, <1>6, <3>1, <3>3, <4>2
        <5>2. frame[f] \notin {"none", "gone"}
          BY <1>1, <1>3, <3>1, <3>3, <4>2, <5>1
        <5>3. Unfinished(owner[f]) /\ owner[f] # cur
          BY <1>1, <1>5, <5>1, <5>2 DEF Owned
        <5>4. owner[f] \in Frames
          BY <1>5, <3>1, <5>2 DEF Owned
        <5> QED
          BY <1>4, <1>11, <5>3, <5>4 DEF Unfinished
      <4> QED
        BY <4>1, <4>2
    <3> QED
      BY <1>5, <1>11, <3>1, <3>2, <3>3 DEF Owned
  <2> QED
    BY <1>4, <1>5, <2>1 DEF Owned
<1>13. Chain'
  <2>1. \A f \in Frames : frame'[f] = "active" <=> f = cur'
    BY <1>1, <1>2, <1>5 DEF Chain
  <2>2. ASSUME NEW g \in Funcs, Unfinished(g), g # cur
        PROVE  /\ cont[g] \in Frames /\ cont[g] # cur /\ cont[g] # cur'
               /\ frame'[cont[g]] = "suspended"
               /\ cont[g] \notin RQP!Queue \cup blocked
    <3>1. /\ frame[cont[g]] = "suspended" /\ cont[g] \notin RQP!Queue \cup blocked
          /\ cont[g] = owner[g] /\ frame[g] # "none"
      BY <1>5, <2>2 DEF Owned, Chain, Unfinished
    <3>2. cont[g] \in Frames /\ g \in Frames
      BY <1>5, <3>1, Types DEF Owned
    <3>3. cont[g] # cur' /\ cont[g] # cur
      <4>1. cur \in Funcs /\ Unfinished(cur) /\ cont[cur] = cont[g] => cur = g
        BY <1>5, <2>2 DEF Chain
      <4> QED
        BY <1>2, <1>3, <1>5, <2>2, <3>1, <3>2, <4>1, Types DEF Unfinished
    <3>4. cont[g] \notin D
      BY <1>1, <3>1 DEF Unfinished
    <3> QED
      BY <1>1, <3>1, <3>2, <3>3, <3>4
  <2>3. \A g \in Funcs : Unfinished(g)' => Unfinished(g) /\ g # cur
    BY <1>5, <1>11, Types
  <2>4. ASSUME NEW f \in Frames, frame'[f] = "suspended"
        PROVE  \/ f \in RQP!Queue \cup blocked
               \/ \E g \in Funcs : Unfinished(g)' /\ cont[g] = f
    <3>1. f # cur /\ f # cur' /\ frame[f] = "suspended"
      BY <1>1, <1>2, <2>4
    <3>2. CASE f \in RQP!Queue \cup blocked
      BY <3>2
    <3>3. ASSUME NEW g \in Funcs, Unfinished(g), cont[g] = f
          PROVE  Unfinished(g)'
      BY <1>2, <1>5, <1>11, <3>1, <3>3, Types
    <3> QED
      BY <1>5, <3>1, <3>2, <3>3 DEF Chain
  <2>5. \A f \in RQP!Queue \cup blocked :
          f \in Frames /\ f # cur /\ f # cur' /\ frame'[f] = frame[f]
    <3>1. ASSUME NEW f \in RQP!Queue \cup blocked
          PROVE  f \in Frames /\ f # cur /\ f # cur' /\ frame'[f] = frame[f]
      <4>1. f \in Frames /\ f # cur
        BY <1>2, Types DEF IInv, RQP!OnePlace, RQP!Queue
      <4>2. f # cur'
        BY <1>3, <1>5, <4>1, Types
      <4>3. f \notin D
        BY <1>1, <1>5, TaskAssumption DEF Chain, Unfinished
      <4> QED
        BY <1>1, <4>1, <4>2, <4>3
    <3> QED
      BY <3>1
  <2> QED
    BY <1>4, <1>5, <1>8, <2>1, <2>2, <2>3, <2>4, <2>5 DEF Chain
<1> QED
  BY <1>8, <1>9, <1>10, <1>12, <1>13 DEF IInv

LEMMA SleepKeeps ==
  ASSUME IInv, Sleep
  PROVE  IInv'
<1>1. /\ cur # None /\ cur' = None /\ blocked' = blocked \cup {cur}
      /\ frame' = [frame EXCEPT ![cur] = "suspended"] /\ LQ!Block
      /\ UNCHANGED <<cont, owner, temp, stepVars, pc, stopping>>
  BY DEF Sleep, LQ!Block
<1>2. cur \in Frames /\ Owned /\ Chain /\ TypeOK /\ pc = "step"
  BY <1>1, Types DEF IInv, Control
<1>3. RQP!OnePlace' /\ RQP!Queue' = RQP!Queue
  BY <1>1, QueueSteps DEF IInv
<1>4. /\ frame' \in [Frames -> FrameStates] /\ frame'[cur] = "suspended"
      /\ \A f \in Frames : f # cur => frame'[f] = frame[f]
      /\ frame[cur] = "active"
  BY <1>1, <1>2, Types DEF FrameStates, Chain
<1>5. \A f \in Frames : Unfinished(f)' <=> Unfinished(f)
  BY <1>4 DEF Unfinished
<1>6. TypeOK'
  <2>1. \A r \in Roots : frame'[r] \in {"none", "gone"} <=> frame[r] \in {"none", "gone"}
    BY <1>2, <1>4, Types
  <2>2. tasks' = {r \in Roots : frame'[r] \notin {"none", "gone"}}
    BY <1>1, <2>1 DEF IInv, TypeOK, stepVars
  <2> QED
    BY <1>1, <1>2, <1>3, <1>4, <2>2, Types DEF TypeOK, stepVars, RQP!OnePlace
<1>7. Control'
  BY <1>1, <1>2, <1>4, Types DEF IInv, Control, stepVars
<1>8. Owned'
  <2>1. \A f \in Frames : frame'[f] = "none" <=> frame[f] = "none"
    BY <1>4
  <2>2. \A f \in Frames : frame'[f] \in {"none", "gone"} <=> frame[f] \in {"none", "gone"}
    BY <1>4
  <2> QED
    BY <1>1, <1>2, <1>5, <2>1, <2>2, Types DEF Owned, Unfinished
<1>9. Chain'
  BY <1>1, <1>2, <1>3, <1>4, <1>5, Types DEF Owned, Chain, Unfinished
<1> QED
  BY <1>3, <1>6, <1>7, <1>8, <1>9 DEF IInv

\* A sleeping frame is queued; or nothing but the loop's own variables changes.
LEMMA FramesStay ==
  ASSUME IInv, UNCHANGED <<frameVars, tasks, cur>>, RQP!OnePlace',
         RQP!Queue' \cup blocked' = RQP!Queue \cup blocked, blocked' \subseteq blocked,
         pc' = "ended" \/ pc # "ended", pc' \in {"off", "step", "poll", "ended"},
         stopping' \in BOOLEAN, handle' \in Frames \cup {None},
         finished' \subseteq Frames, Control'
  PROVE  IInv'
<1>1. TypeOK'
  BY Types DEF IInv, TypeOK, frameVars, RQP!OnePlace
<1>2. ASSUME Owned, Chain PROVE Owned' /\ Chain'
  <2>1. UNCHANGED <<frame, cont, owner, cur>>
    BY DEF frameVars
  <2>2. Owned'
    BY <1>2, <2>1 DEF Owned, Unfinished
  <2>3. /\ \A f \in RQP!Queue' :
             frame[f] = "suspended" \/ (f \in Roots /\ frame[f] = "created")
        /\ \A f \in blocked' : frame[f] = "suspended"
    BY <1>2 DEF Chain
  <2>4. Chain'
    BY <1>2, <2>1, <2>3 DEF Chain, Unfinished
  <2> QED
    BY <2>2, <2>4
<1> QED
  BY <1>1, <1>2 DEF IInv

LEMMA WakeKeeps ==
  ASSUME IInv, NEW f \in Frames, Wake(f)
  PROVE  IInv'
<1>1. /\ LQ!Wake(f)
      /\ cur # None \/ pc = "poll"
      /\ UNCHANGED <<frameVars, stepVars, pc, stopping, cur>>
  BY DEF Wake, LQ!Wake
<1>2. RQP!OnePlace' /\ RQP!Queue' = RQP!Queue \cup {f}
  BY <1>1, QueueSteps DEF IInv
<1>3. f \in blocked /\ blocked' = blocked \ {f}
  BY <1>1 DEF LQ!Wake
<1>4. pc # "ended"
  BY <1>1 DEF IInv, Control
<1>5. Control'
  BY <1>1 DEF IInv, Control, stepVars, frameVars
<1> QED
  BY <1>1, <1>2, <1>3, <1>4, <1>5, FramesStay, Types DEF IInv, stepVars

LEMMA LoopKeeps ==
  ASSUME IInv, Check \/ Run \/ LoopAgain \/ Stop
  PROVE  IInv'
<1>1. UNCHANGED queueVars /\ UNCHANGED <<frameVars, tasks>>
  BY DEF Check, Run, LoopAgain, Stop, stepVars
<1>2. RQP!OnePlace' /\ RQP!Queue' = RQP!Queue
  BY <1>1, QueueSteps DEF IInv
<1>3. /\ pc # "ended" /\ pc' \in {"off", "step", "poll", "ended"}
      /\ stopping' \in BOOLEAN /\ handle' \in Frames \cup {None}
  BY Types DEF IInv, Control, Check, Run, LoopAgain, Stop, stepVars
<1>4. finished' \subseteq Frames /\ \A h \in finished' : frame[h] \in {"done", "gone"}
  <2>1. CASE Check
    <3>1. PICK done : /\ done \in IF frame[handle] = "gone" THEN BOOLEAN
                                   ELSE {frame[handle] = "done"}
                      /\ finished' = IF done THEN finished \cup {handle} ELSE finished
      BY <2>1 DEF Check
    <3>2. handle \in Frames /\ finished \subseteq Frames
      BY <2>1, Types DEF IInv, Check
    <3>3. done => frame[handle] \in {"done", "gone"}
      BY <3>1
    <3> QED
      BY <3>1, <3>2, <3>3 DEF IInv, Control
  <2>2. CASE Run \/ LoopAgain \/ Stop
    BY <2>2, Types DEF IInv, Control, Run, LoopAgain, Stop, stepVars
  <2> QED
    BY <2>1, <2>2
<1>5. Control'
  BY <1>1, <1>4 DEF IInv, Control, Check, Run, LoopAgain, Stop, stepVars,
                          queueVars, frameVars
<1> QED
  BY <1>1, <1>2, <1>3, <1>4, <1>5, FramesStay DEF queueVars

LEMMA DispatchKeeps ==
  ASSUME IInv, Dispatch
  PROVE  IInv'
<1>1. /\ pc = "step" /\ handle = None /\ LQ!Resume /\ handle' = cur'
      /\ frame' = [frame EXCEPT ![cur'] = "active"]
      /\ cur = None /\ blocked' = blocked
      /\ UNCHANGED <<cont, owner, temp, finished, tasks, pc, stopping>>
  BY DEF Dispatch, LQ!Resume
<1>2. Owned /\ Chain /\ TypeOK /\ pc' = "step"
  BY <1>1 DEF IInv
<1>3. RQP!OnePlace' /\ RQP!Queue = RQP!Queue' \cup {cur'} /\ cur' \in Frames
  BY <1>1, QueueSteps DEF IInv
<1>4. PICK h : h = cur'
  OBVIOUS
<1>5. /\ h \in Frames /\ h \in RQP!Queue /\ h \notin RQP!Queue' /\ h \notin blocked
      /\ frame[h] = "suspended" \/ (h \in Roots /\ frame[h] = "created")
  BY <1>1, <1>2, <1>3, <1>4, TaskAssumption DEF Chain, RQP!OnePlace, Frames
<1>6. /\ frame' \in [Frames -> FrameStates] /\ frame'[h] = "active"
      /\ \A f \in Frames : f # h => frame'[f] = frame[f]
  BY <1>1, <1>2, <1>4, <1>5, Types DEF FrameStates
<1>7. \A g \in Funcs : Unfinished(g)' <=> Unfinished(g)
  BY <1>2, <1>5, <1>6, Types, TaskAssumption DEF Unfinished
<1>8. \A f \in Frames : frame'[f] \in {"none", "gone"} <=> frame[f] \in {"none", "gone"}
  BY <1>5, <1>6
<1>9. TypeOK'
  <2>1. tasks' = {r \in Roots : frame'[r] \notin {"none", "gone"}}
    BY <1>1, <1>2, <1>8, Types DEF TypeOK
  <2> QED
    BY <1>1, <1>2, <1>3, <1>6, <2>1, Types DEF TypeOK, RQP!OnePlace
<1>10. Control'
  BY <1>1, <1>2, <1>5, <1>6, Types DEF IInv, Control
<1>11. Owned'
  <2>1. \A f \in Frames : Unfinished(f) => Unfinished(f)'
    BY <1>6 DEF Unfinished
  <2>2. \A f \in Frames : frame'[f] = "none" <=> frame[f] = "none"
    BY <1>5, <1>6
  <2>3. \A f \in Funcs : frame[f] \notin {"none", "gone"} => owner[f] \in Frames
    BY <1>2, Types DEF Owned
  <2>4. \A f \in Funcs : frame'[f] \notin {"none", "gone"} => Unfinished(owner[f])'
    BY <1>1, <1>2, <1>8, <2>1, <2>3, Types DEF Owned, Unfinished
  <2> QED
    BY <1>1, <1>2, <1>7, <2>2, <2>4, Types DEF Owned
<1>12. Chain'
  <2>1. \A f \in Frames : frame'[f] = "active" <=> f = cur'
    BY <1>1, <1>2, <1>4, <1>5, <1>6, Types DEF Chain
  <2>2. \A g \in Funcs : Unfinished(g)' =>
          frame'[cont[g]] = "suspended" /\ cont[g] \notin RQP!Queue' \cup blocked'
    <3>1. \A g \in Funcs : Unfinished(g) => cont[g] \in Frames /\ cont[g] # h
      BY <1>2, <1>5, Types DEF Owned, Chain, Unfinished
    <3> QED
      BY <1>1, <1>2, <1>3, <1>6, <1>7, <3>1 DEF Chain
  <2>3. \A f \in Frames : frame'[f] = "suspended" =>
          \/ f \in RQP!Queue' \cup blocked'
          \/ \E g \in Funcs : Unfinished(g)' /\ cont[g] = f
    BY <1>1, <1>2, <1>3, <1>4, <1>6, <1>7 DEF Chain
  <2>4. /\ \A f \in RQP!Queue' :
             frame'[f] = "suspended" \/ (f \in Roots /\ frame'[f] = "created")
        /\ \A f \in blocked' : frame'[f] = "suspended"
    <3>1. \A f \in RQP!Queue' \cup blocked : f \in Frames /\ f # h
      <4>1. RQP!Queue \subseteq Frames
        BY DEF IInv, RQP!OnePlace, RQP!Queue
      <4> QED
        BY <1>2, <1>3, <1>5, <4>1, Types
    <3> QED
      BY <1>1, <1>2, <1>3, <1>6, <3>1 DEF Chain
  <2> QED
    BY <1>1, <1>2, <1>7, <2>1, <2>2, <2>3, <2>4 DEF Chain
<1> QED
  BY <1>3, <1>9, <1>10, <1>11, <1>12 DEF IInv

\* What the loop destroys at the end of step() or of run().
LEMMA DestroyedIs ==
  ASSUME TypeOK, NEW S \in SUBSET Roots, frame' = Destroyed(S)
  PROVE  LET D == Tree(S) IN
         /\ D \subseteq Frames /\ D \cap Roots = S /\ ClosedUnderOwnership(D)
         /\ frame' \in [Frames -> FrameStates]
         /\ \A f \in Frames : frame'[f] = IF f \in D THEN "gone" ELSE frame[f]
<1> DEFINE D == Tree(S)
<1>1. S \in SUBSET Frames
  BY DEF Frames
<1>2. S \subseteq D /\ D \subseteq Frames /\ ClosedUnderOwnership(D)
  BY <1>1, TreeHolds, TreeIsClosed
<1>3. D \subseteq S \cup Funcs
  <2>1. S \cup Funcs \in SUBSET Frames /\ ClosedUnderOwnership(S \cup Funcs)
    BY DEF Frames, ClosedUnderOwnership
  <2> QED
    BY <2>1, TreeIsLeast
<1>4. frame' = [f \in Frames |-> IF f \in D THEN "gone" ELSE frame[f]]
  BY DEF Destroyed
<1> HIDE DEF D
<1>5. /\ frame' \in [Frames -> FrameStates]
      /\ \A f \in Frames : frame'[f] = IF f \in D THEN "gone" ELSE frame[f]
  BY <1>4, Types DEF FrameStates
<1> QED
  BY <1>2, <1>3, <1>5, TaskAssumption DEF D

LEMMA ReapIsSafe ==
  ASSUME IInv, Reap
  PROVE  IInv'
<1>1. /\ pc = "step" /\ handle = None /\ cur = None
      /\ tasks' = tasks \ finished /\ finished' = {} /\ pc' \in {"ended", "poll"}
      /\ frame' = Destroyed(finished \cap tasks)
      /\ UNCHANGED <<cont, owner, temp, queueVars, handle, stopping>>
  BY DEF Reap, IInv, Control
<1>2. Owned /\ Chain /\ TypeOK
  BY <1>1 DEF IInv
<1> DEFINE S == finished \cap tasks
           D == Tree(S)
<1>3. S \in SUBSET Roots /\ S \in SUBSET Frames
  BY <1>2, Types
<1>4. \A f \in S : ~Unfinished(f) /\ frame[f] # "none"
  BY <1>2 DEF IInv, Control, Unfinished
<1>5. /\ D \subseteq Frames /\ D \cap Roots = S /\ ClosedUnderOwnership(D)
      /\ frame' \in [Frames -> FrameStates]
      /\ \A f \in Frames : frame'[f] = IF f \in D THEN "gone" ELSE frame[f]
  BY <1>1, <1>2, <1>3, DestroyedIs
<1>6. \A f \in D : ~Unfinished(f) /\ frame[f] # "none"
  <2> HIDE DEF S
  <2> QED
    BY <1>2, <1>3, <1>4, TreeIsFinished
<1> HIDE DEF D
<1>7. RQP!OnePlace' /\ RQP!Queue' = RQP!Queue
  BY <1>1, QueueSteps DEF IInv
<1>8. TypeOK'
  <2>1. tasks' = {r \in Roots : frame'[r] \notin {"none", "gone"}}
    BY <1>1, <1>2, <1>5, Types DEF TypeOK
  <2> QED
    BY <1>1, <1>2, <1>5, <1>7, <2>1, Types DEF TypeOK, RQP!OnePlace, queueVars
<1>9. Control'
  BY <1>1 DEF IInv, Control, queueVars
<1>10. \A f \in Frames : Unfinished(f)' <=> Unfinished(f)
  BY <1>5, <1>6 DEF Unfinished
<1>11. Owned'
  <2>1. \A f \in Frames : frame'[f] = "none" <=> frame[f] = "none"
    BY <1>5, <1>6
  <2>2. ASSUME NEW f \in Funcs, frame'[f] \notin {"none", "gone"}
        PROVE  Unfinished(owner[f])'
    <3>1. f \in Frames /\ f \notin D /\ frame[f] \notin {"none", "gone"}
      BY <1>2, <1>5, <2>2, Types
    <3>2. owner[f] \in Frames /\ Unfinished(owner[f])
      BY <1>2, <3>1, Types DEF Owned
    <3> QED
      BY <1>1, <1>10, <3>2 DEF Unfinished
  <2> QED
    BY <1>1, <1>2, <1>10, <2>1, <2>2, Types DEF Owned
<1>12. Chain'
  <2>1. \A f \in Frames : f \notin D => frame'[f] = frame[f]
    BY <1>5
  <2>2. \A f \in Frames : frame[f] = "suspended" => frame'[f] = "suspended"
    BY <1>5, <1>6 DEF Unfinished
  <2>3. \A f \in Frames : frame'[f] \in {"active", "suspended"} => f \notin D
    BY <1>5
  <2>4. \A f \in Frames : frame'[f] = "active" <=> f = cur
    BY <1>1, <1>2, <2>1, <2>3, Types DEF Chain
  <2>5. \A g \in Funcs : Unfinished(g) => cont[g] \in Frames
    BY <1>2, Types DEF Owned, Unfinished
  <2>6. RQP!Queue = {} /\ blocked \subseteq Frames
    <3>1. runq = <<>>
      BY DEF Reap
    <3>2. Len(<<>>) = 0
      BY EmptySeq
    <3> QED
      BY <1>2, <3>1, <3>2, Types DEF RQP!Queue
  <2>7. \A g \in Funcs : Unfinished(g)' =>
          frame'[cont[g]] = "suspended" /\ cont[g] \notin RQP!Queue \cup blocked
    BY <1>2, <1>10, <2>2, <2>5, Types DEF Chain
  <2>8. \A f \in Frames : frame'[f] = "suspended" =>
          \/ f \in RQP!Queue \cup blocked
          \/ \E g \in Funcs : Unfinished(g)' /\ cont[g] = f
    BY <1>2, <1>10, <2>1, <2>3, Types DEF Chain
  <2>9. \A g, h \in Funcs :
          Unfinished(g)' /\ Unfinished(h)' /\ cont[g] = cont[h] => g = h
    BY <1>2, <1>10, Types DEF Chain
  <2> QED
    BY <1>1, <1>2, <1>7, <2>2, <2>4, <2>6, <2>7, <2>8, <2>9 DEF Chain, queueVars
<1> QED
  BY <1>7, <1>8, <1>9, <1>11, <1>12 DEF IInv

LEMMA ExitKeeps ==
  ASSUME IInv, ExitLoop
  PROVE  IInv'
<1>1. /\ pc = "poll" /\ cur = None /\ handle = None /\ pc' = "ended"
      /\ tasks' = {} /\ frame' = Destroyed(tasks) /\ blocked' \subseteq blocked
      /\ UNCHANGED <<cont, owner, temp, runq, cur, handle, finished, stopping>>
  BY DEF ExitLoop, IInv, Control
<1>2. TypeOK /\ tasks \in SUBSET Roots
  BY Types DEF IInv
<1>3. /\ Tree(tasks) \cap Roots = tasks /\ frame' \in [Frames -> FrameStates]
      /\ \A f \in Frames : frame'[f] = IF f \in Tree(tasks) THEN "gone" ELSE frame[f]
  BY <1>1, <1>2, DestroyedIs
<1>4. TypeOK'
  <2>1. tasks' = {r \in Roots : frame'[r] \notin {"none", "gone"}}
    BY <1>1, <1>2, <1>3, Types DEF TypeOK
  <2> QED
    BY <1>1, <1>2, <1>3, <2>1, Types DEF TypeOK
<1>5. RQP!OnePlace'
  BY <1>1 DEF IInv, RQP!OnePlace, RQP!Queue
<1>6. Control'
  BY <1>1, <1>2, <1>3, Types DEF IInv, Control
<1> QED
  BY <1>1, <1>4, <1>5, <1>6 DEF IInv

-----------------------------------------------------------------------------
(* The theorems.                                                           *)

LEMMA InitIInv == Init => IInv
<1> SUFFICES ASSUME Init PROVE IInv
  OBVIOUS
<1>1. /\ frame = [f \in Frames |-> "none"] /\ cont = [f \in Frames |-> None]
      /\ owner = [f \in Frames |-> None] /\ temp = {} /\ runq = <<>> /\ cur = None
      /\ blocked = {} /\ handle = None /\ finished = {} /\ tasks = {} /\ pc = "off"
      /\ stopping = FALSE
  BY DEF Init, LQ!Init
<1>2. RQP!Queue = {} /\ RQP!OnePlace
  BY <1>1, EmptySeq DEF RQP!Queue, RQP!OnePlace
<1>3. TypeOK
  <2>1. frame \in [Frames -> FrameStates]
    BY <1>1 DEF FrameStates
  <2>2. cont \in [Frames -> Frames \cup {None}] /\ owner \in [Frames -> Frames \cup {None}]
    BY <1>1
  <2>3. tasks = {r \in Roots : frame[r] \notin {"none", "gone"}}
    BY <1>1 DEF Frames
  <2>4. runq \in Seq(Frames)
    BY <1>1
  <2> QED
    BY <1>1, <2>1, <2>2, <2>3, <2>4 DEF TypeOK
<1>4. None \notin Frames /\ Roots \subseteq Frames /\ Funcs \subseteq Frames
  BY TaskAssumption DEF Frames
<1>5. Owned /\ Chain /\ Control
  BY <1>1, <1>2, <1>4 DEF Owned, Chain, Control, Unfinished
<1> QED
  BY <1>2, <1>3, <1>5 DEF IInv

LEMMA NextIInv == IInv /\ [Next]_vars => IInv'
<1> SUFFICES ASSUME IInv, [Next]_vars PROVE IInv'
  OBVIOUS
<1>1. CASE Run \/ Check \/ LoopAgain \/ Stop
  BY <1>1, LoopKeeps
<1>2. ASSUME NEW f \in Frames, Wake(f) PROVE IInv'
  BY <1>2, WakeKeeps
<1>3. CASE Dispatch
  BY <1>3, DispatchKeeps
<1>4. CASE Reap
  BY <1>4, ReapIsSafe
<1>5. CASE ExitLoop
  BY <1>5, ExitKeeps
<1>6. ASSUME NEW r \in Roots, Schedule(r) PROVE IInv'
  BY <1>6, ScheduleKeeps
<1>7. ASSUME NEW f \in Funcs, Create(f) PROVE IInv'
  BY <1>7, CreateKeeps
<1>8. ASSUME NEW f \in Funcs, Call(f) \/ Await(f) PROVE IInv'
  BY <1>8, EnterKeeps
<1>9. CASE Sleep
  BY <1>9, SleepKeeps
<1>10. CASE Return
  BY <1>10, ReturnKeeps
<1>11. CASE UNCHANGED vars
  <2>1. UNCHANGED <<frameVars, tasks, cur, runq, blocked, pc, stopping, handle, finished>>
    BY <1>11 DEF vars, queueVars, stepVars
  <2>2. RQP!OnePlace' /\ RQP!Queue' = RQP!Queue
    BY <2>1, QueueSteps DEF IInv, queueVars
  <2>3. Control'
    BY <2>1 DEF IInv, Control, frameVars
  <2>4. CASE pc # "ended"
    BY <2>1, <2>2, <2>3, <2>4, FramesStay, Types DEF IInv
  <2>5. CASE pc = "ended"
    BY <2>1, <2>2, <2>3, <2>5, FramesStay, Types DEF IInv
  <2> QED
    BY <2>4, <2>5
<1> QED
  BY <1>1, <1>2, <1>3, <1>4, <1>5, <1>6, <1>7, <1>8, <1>9, <1>10, <1>11
  DEF Next, LoopStep

\* The values of all variables, for any tasks and functions; tasks_ lists the root
\* frames that exist.
THEOREM Inductive == Spec => []IInv
<1> QED
  BY InitIInv, NextIInv, PTL DEF Spec

THEOREM TypeCorrect == Spec => []TypeOK
<1>1. IInv => TypeOK
  BY DEF IInv
<1> QED
  BY <1>1, Inductive, PTL

\* Until run() ends, every suspended frame has exactly one party that resumes it:
\* its promise, the queue of step(), or the function it awaits.
THEOREM NoFrameIsLost == Spec => []NoLostFrame
<1>1. IInv => NoLostFrame
  <2> SUFFICES ASSUME IInv, pc # "ended", NEW f \in Frames, frame[f] = "suspended"
               PROVE  \/ f \in blocked /\ ~Contains(runq, f) /\ Callees(f) = {}
                      \/ f \notin blocked /\ Contains(runq, f) /\ Callees(f) = {}
                      \/ /\ f \notin blocked /\ ~Contains(runq, f)
                         /\ Cardinality(Callees(f)) = 1
    BY DEF NoLostFrame
  <2>1. Owned /\ Chain
    BY DEF IInv
  <2>2. Contains(runq, f) <=> f \in RQP!Queue
    BY DEF Contains, RQP!Queue
  <2>3. f \in RQP!Queue => f \notin blocked
    BY DEF IInv, RQP!OnePlace
  <2>4. CASE f \in RQP!Queue \cup blocked
    <3>1. Callees(f) = {}
      BY <2>1, <2>4 DEF Chain, Callees
    <3> QED
      BY <2>2, <2>3, <2>4, <3>1
  <2>5. CASE f \notin RQP!Queue \cup blocked
    <3>1. PICK g \in Funcs : Unfinished(g) /\ cont[g] = f
      BY <2>1, <2>5 DEF Chain
    <3>2. Callees(f) = {g}
      BY <2>1, <3>1 DEF Chain, Callees
    <3>3. Cardinality(Callees(f)) = 1
      BY <3>2, FS_Singleton
    <3> QED
      BY <2>2, <2>5, <3>3
  <2> QED
    BY <2>4, <2>5
<1> QED
  BY <1>1, Inductive, PTL

\* Nobody resumes a frame that is gone, done or running: neither step(), nor a
\* promise, nor final_awaitable.
THEOREM HandlesStayAlive == Spec => []HandlesAlive
<1>1. IInv => HandlesAlive
  <2> SUFFICES ASSUME IInv, pc # "ended" PROVE HandlesAlive
    BY DEF HandlesAlive
  <2>1. Owned /\ Chain
    BY DEF IInv
  <2>2. ToSet(runq) = RQP!Queue
    BY Types, LenProperties DEF IInv, ToSet, RQP!Queue
  <2>3. \A f \in ToSet(runq) \cup blocked : frame[f] \in {"created", "suspended"}
    BY <2>1, <2>2 DEF Chain
  <2>4. \A f \in Frames : Unfinished(f) /\ cont[f] # None => frame[cont[f]] = "suspended"
    BY <2>1 DEF Owned, Chain, Frames
  <2> QED
    BY <2>3, <2>4 DEF HandlesAlive
<1> QED
  BY <1>1, Inductive, PTL

\* No frame is destroyed in the middle of what it does, but by the end of run().
THEOREM OnlyDoneDestroyed == Spec => DestroyedWhenDone
<1>1. IInv /\ [Next]_vars =>
        [\A f \in Frames : Unfinished(f) /\ frame'[f] = "gone"
                             => f = cur \/ pc' = "ended"]_vars
  <2> SUFFICES ASSUME IInv, Next, NEW f \in Frames, Unfinished(f), frame'[f] = "gone"
               PROVE  f = cur \/ pc' = "ended"
    OBVIOUS
  <2>1. CASE Return
    <3>1. f # cur => frame'[f] \in {"active", frame[f]}
      BY <2>1, ReturnIs
    <3> QED
      BY <3>1 DEF Unfinished
  <2>2. CASE Reap
    <3> DEFINE S == finished \cap tasks
    <3>1. S \in SUBSET Roots /\ S \in SUBSET Frames /\ TypeOK /\ Owned
      BY <2>2, Types DEF IInv, Reap
    <3>2. \A h \in S : ~Unfinished(h) /\ frame[h] # "none"
      BY <3>1 DEF IInv, Control, Unfinished, TypeOK
    <3>3. frame' = Destroyed(S)
      BY <2>2 DEF Reap
    <3> HIDE DEF S
    <3>4. f \notin Tree(S)
      BY <3>1, <3>2, TreeIsFinished
    <3>5. frame'[f] = frame[f]
      BY <3>1, <3>3, <3>4, DestroyedIs
    <3> QED
      BY <3>5 DEF Unfinished
  <2>3. CASE ExitLoop
    BY <2>3 DEF ExitLoop
  <2>4. frame[f] # "gone" /\ frame \in [Frames -> FrameStates] /\ None \notin Frames
    BY Types DEF IInv, Unfinished
  <2>5. CASE \/ Run \/ Check \/ LoopAgain \/ Stop \/ \E h \in Frames : Wake(h)
    BY <2>4, <2>5 DEF Run, Check, LoopAgain, Stop, Wake, frameVars
  <2>6. CASE Dispatch \/ Sleep
    BY <2>4, <2>6 DEF Dispatch, Sleep
  <2>7. CASE \/ \E r \in Roots : Schedule(r)
             \/ \E h \in Funcs : Create(h) \/ Call(h) \/ Await(h)
    BY <2>4, <2>7 DEF Schedule, Create, Call, Await, Enter
  <2> QED
    BY <2>1, <2>2, <2>3, <2>5, <2>6, <2>7 DEF Next, LoopStep
<1> QED
  BY <1>1, Inductive, PTL DEF Spec, DestroyedWhenDone

-----------------------------------------------------------------------------
(* Refinement: a task with the functions it awaits is one coroutine.       *)

\* The frames the loop knows: the ends of the chains.
Leaves == RQP!Queue \cup blocked \cup ({cur} \ {None})

\* Every frame belongs to a task, and no two ends of chains to the same one.
Rooted  == \A f \in Frames : frame[f] # "none" => \E r \in Roots : f \in Tree({r})
OneLeaf == \A f, g \in Leaves : TaskOf(f) = TaskOf(g) => f = g

TInv == IInv /\ (pc # "ended" => Rooted /\ OneLeaf)

LEMMA TasksAre == \A r \in Roots : \A f \in Tree({r}) : TaskOf(f) = r
BY TaskIs

LEMMA TasksAreNext == (\A r \in Roots : \A f \in Tree({r}) : TaskOf(f) = r)'
BY TasksAre, PTL

LEMMA TreesNext == (\A r \in Roots : r \in Tree({r}) /\ Tree({r}) \subseteq Frames)'
<1>1. \A r \in Roots : r \in Tree({r}) /\ Tree({r}) \subseteq Frames
  BY TreeHolds DEF Frames
<1> QED
  BY <1>1, PTL

\* What a task owns does not change.
LEMMA OwnersStay ==
  ASSUME UNCHANGED owner
  PROVE  \A f : Tree(f)' = Tree(f) /\ TaskOf(f)' = TaskOf(f)
<1>1. \A f : Tree(f)' = Tree(f)
  BY DEF Tree, ClosedUnderOwnership
<1> QED
  BY <1>1 DEF TaskOf

\* What the loop sees, with the task of each frame as a function of the frames.
Seen(T) ==
  /\ \A h \in Frames : T[h] = TaskOf(h)
  /\ TaskQueue = [i \in 1..Len(runq) |-> T[runq[i]]]
  /\ TaskRunning = IF cur = None THEN None ELSE T[cur]
  /\ TasksBlocked = {T[h] : h \in blocked}

LEMMA TasksSeen == TypeOK => \E T : Seen(T)
<1> SUFFICES ASSUME TypeOK PROVE \E T : Seen(T)
  OBVIOUS
<1> DEFINE T == [h \in Frames |-> TaskOf(h)]
<1>1. \A h \in Frames : T[h] = TaskOf(h)
  OBVIOUS
<1>2. /\ \A i \in 1..Len(runq) : runq[i] \in Frames
      /\ cur # None => cur \in Frames
      /\ blocked \subseteq Frames
  BY Types
<1> HIDE DEF T
<1>3. TaskQueue = [i \in 1..Len(runq) |-> T[runq[i]]]
  BY <1>1, <1>2 DEF TaskQueue
<1>4. TaskRunning = IF cur = None THEN None ELSE T[cur]
  BY <1>1, <1>2 DEF TaskRunning
<1>5. TasksBlocked = {T[h] : h \in blocked}
  BY <1>1, <1>2 DEF TasksBlocked
<1>6. Seen(T)
  BY <1>1, <1>3, <1>4, <1>5 DEF Seen
<1> QED
  BY <1>6

SeenNext(T) ==
  /\ \A h \in Frames : T[h] = TaskOf(h)'
  /\ TaskQueue' = [i \in 1..Len(runq') |-> T[runq'[i]]]
  /\ TaskRunning' = IF cur' = None THEN None ELSE T[cur']
  /\ TasksBlocked' = {T[h] : h \in blocked'}

LEMMA TasksSeenNext == TypeOK' => \E T : SeenNext(T)
<1>1. (TypeOK => \E T : Seen(T))'
  BY TasksSeen, PTL
<1> QED
  BY <1>1 DEF Seen, SeenNext

\* A sequence under a map.
LEMMA MapSeq ==
  ASSUME NEW S, NEW s \in Seq(S), NEW T
  PROVE  LET m(q) == [i \in 1..Len(q) |-> T[q[i]]] IN
         /\ \A x \in S : m(Append(s, x)) = Append(m(s), T[x])
         /\ s # <<>> => m(s) # <<>> /\ Head(m(s)) = T[Head(s)] /\ m(Tail(s)) = Tail(m(s))
<1> DEFINE m(q) == [i \in 1..Len(q) |-> T[q[i]]]
<1> DEFINE R == {T[x] : x \in S}
<1>1. \A q \in Seq(S) : /\ m(q) \in Seq(R) /\ Len(m(q)) = Len(q) /\ DOMAIN m(q) = 1..Len(q)
                        /\ \A i \in 1..Len(q) : m(q)[i] = T[q[i]]
  OBVIOUS
<1>2. ASSUME NEW x \in S PROVE m(Append(s, x)) = Append(m(s), T[x])
  <2> DEFINE a == m(Append(s, x))
             b == Append(m(s), T[x])
  <2>1. Append(s, x) \in Seq(S) /\ Len(Append(s, x)) = Len(s) + 1
    OBVIOUS
  <2>2. a \in Seq(R) /\ Len(a) = Len(s) + 1
    BY <1>1, <2>1
  <2>3. b \in Seq(R) /\ Len(b) = Len(s) + 1
    BY <1>1
  <2>4. \A i \in 1..(Len(s) + 1) : a[i] = b[i]
    BY <1>1, <2>1
  <2> HIDE DEF a, b, R
  <2>5. a = b
    BY <2>2, <2>3, <2>4, SeqEqual
  <2> QED
    BY <2>5 DEF a, b
<1>3. ASSUME s # <<>>
      PROVE  m(s) # <<>> /\ Head(m(s)) = T[Head(s)] /\ m(Tail(s)) = Tail(m(s))
  <2> DEFINE a == m(Tail(s))
             b == Tail(m(s))
  <2>1. Tail(s) \in Seq(S) /\ Len(Tail(s)) = Len(s) - 1 /\ Len(s) > 0 /\ Len(s) \in Nat
    BY <1>3
  <2>2. m(s) # <<>> /\ Head(m(s)) = T[Head(s)]
    BY <1>1, <1>3
  <2>3. a \in Seq(R) /\ Len(a) = Len(s) - 1
    BY <1>1, <2>1
  <2>4. b \in Seq(R) /\ Len(b) = Len(s) - 1
    BY <1>1, <2>2
  <2>5. \A i \in 1..(Len(s) - 1) : a[i] = b[i]
    BY <1>1, <1>3, <2>1, <2>2
  <2> HIDE DEF a, b, R
  <2>6. a = b
    BY <2>3, <2>4, <2>5, SeqEqual
  <2> QED
    BY <2>2, <2>6 DEF a, b
<1> QED
  BY <1>2, <1>3

\* A function that is called joins the task of its caller; no other moves.
LEMMA CalleeJoins ==
  ASSUME IInv, Rooted, pc # "ended", NEW f \in Funcs, Create(f) \/ Call(f)
  PROVE  /\ cur \in Frames /\ frame[cur] # "none" /\ frame[f] = "none"
         /\ \E c \in Frames : c = cur /\ TaskOf(f)' = TaskOf(c)
         /\ \A h \in Frames : frame[h] # "none" => TaskOf(h)' = TaskOf(h)
         /\ Rooted'
<1>1. /\ cur # None /\ frame[f] = "none" /\ owner' = [owner EXCEPT ![f] = cur]
      /\ \/ frame' = [frame EXCEPT ![f] = "created"]
         \/ frame' = [frame EXCEPT ![f] = "active", ![cur] = "suspended"]
  BY DEF Create, Call, Enter
<1>2. f \in Frames /\ cur \in Frames /\ None \notin Frames /\ owner[f] = None
  BY <1>1, Types DEF IInv, Owned
<1>3. frame[cur] = "active"
  BY <1>2 DEF IInv, Chain
<1>4. /\ owner'[f] = cur
      /\ \A g \in Funcs : g # f => owner'[g] = owner[g]
      /\ \A h \in Frames : frame'[h] # "none" => h = f \/ frame[h] # "none"
  BY <1>1, <1>2, <1>3, Types DEF IInv
<1>5. ASSUME NEW r \in Roots PROVE \A h \in Tree({r}) : (h \in Tree({r}))'
  <2>1. \A C \in SUBSET Frames : ClosedUnderOwnership(C)' => ClosedUnderOwnership(C)
    BY <1>2, <1>4 DEF ClosedUnderOwnership
  <2> QED
    BY <2>1 DEF Tree
<1>6. \A r \in Roots : \A h \in Tree({r}) : TaskOf(h) = r /\ TaskOf(h)' = r
  BY <1>5, TasksAre, TasksAreNext
<1>7. \A h \in Frames : frame[h] # "none" => TaskOf(h)' = TaskOf(h)
  BY <1>6 DEF Rooted
<1>8. PICK c \in Frames : c = cur
  BY <1>2
<1>9. PICK r \in Roots : c \in Tree({r})
  BY <1>3, <1>8 DEF Rooted
<1>10. (f \in Tree({r}))'
  <2>1. \A C \in SUBSET Frames : ClosedUnderOwnership(C)' /\ c \in C => f \in C
    BY <1>4, <1>8 DEF ClosedUnderOwnership
  <2>2. (c \in Tree({r}))'
    BY <1>5, <1>9
  <2> QED
    BY <1>2, <2>1, <2>2 DEF Tree
<1>11. TaskOf(f)' = TaskOf(c)
  BY <1>6, <1>9, <1>10, TasksAreNext
<1>12. Rooted'
  <2>1. ASSUME NEW h \in Frames, frame'[h] # "none" PROVE \E s \in Roots : (h \in Tree({s}))'
    BY <1>4, <1>5, <1>10, <2>1 DEF Rooted
  <2> QED
    BY <2>1 DEF Rooted
<1> QED
  BY <1>1, <1>2, <1>3, <1>7, <1>8, <1>11, <1>12

\* A function is of the task of its owner.
LEMMA OwnerIsSameTask ==
  ASSUME Rooted, NEW f \in Funcs, f \in Frames, frame[f] # "none", NEW c, c = owner[f]
  PROVE  TaskOf(c) = TaskOf(f)
<1>1. PICK r \in Roots : f \in Tree({r})
  BY DEF Rooted
<1>2. c \in Tree({r})
  BY <1>1, TreeOfRoot
<1> QED
  BY <1>1, <1>2, TasksAre

\* A task that does not exist yet owns nothing.
LEMMA NewOwnsNothing ==
  ASSUME IInv, pc # "ended", NEW r \in Roots, frame[r] = "none"
  PROVE  Tree({r}) = {r}
<1>1. Owned /\ r \in Frames /\ {r} \in SUBSET Frames
  BY DEF IInv, Frames
<1>2. ClosedUnderOwnership({r})
  BY <1>1, Types DEF ClosedUnderOwnership, Owned, IInv
<1>3. Tree({r}) \subseteq {r} /\ {r} \subseteq Tree({r})
  BY <1>1, <1>2, TreeIsLeast, TreeHolds
<1> QED
  BY <1>3

LEMMA LeafTasks ==
  ASSUME IInv, Rooted, OneLeaf, pc # "ended", NEW T, Seen(T)
  PROVE  /\ Leaves \subseteq Frames
         /\ \A h \in Leaves : frame[h] # "none" /\ T[h] \in Roots
         /\ \A g, h \in Leaves : T[g] = T[h] => g = h
<1>1. Leaves \subseteq Frames
  <2>1. RQP!Queue \subseteq Frames
    BY Types DEF IInv, RQP!Queue
  <2> QED
    BY <2>1, Types DEF Leaves, IInv
<1>2. \A h \in Leaves : frame[h] # "none"
  <2>1. /\ \A h \in RQP!Queue : frame[h] \in {"suspended", "created"}
        /\ \A h \in blocked : frame[h] = "suspended"
        /\ \A h \in Frames : h = cur => frame[h] = "active"
    BY DEF IInv, Chain
  <2> QED
    BY <1>1, <2>1 DEF Leaves
<1>3. ASSUME NEW h \in Leaves PROVE T[h] \in Roots
  <2>1. PICK r \in Roots : h \in Tree({r})
    BY <1>1, <1>2 DEF Rooted
  <2>2. TaskOf(h) = r /\ T[h] = TaskOf(h)
    BY <1>1, <2>1, TasksAre DEF Seen
  <2> QED
    BY <2>2
<1>4. \A g, h \in Leaves : T[g] = T[h] => g = h
  BY <1>1 DEF OneLeaf, Seen
<1> QED
  BY <1>1, <1>2, <1>3, <1>4

\* In most steps no frame changes its task.
LEMMA TasksStay ==
  ASSUME Rooted, UNCHANGED owner, NEW T, Seen(T), NEW U, SeenNext(U)
  PROVE  /\ \A h \in Frames : U[h] = T[h]
         /\ (\A h \in Frames : frame'[h] # "none" => frame[h] # "none") => Rooted'
<1>1. \A h : Tree(h)' = Tree(h) /\ TaskOf(h)' = TaskOf(h)
  BY OwnersStay
<1>2. \A h \in Frames : U[h] = T[h]
  BY <1>1 DEF Seen, SeenNext
<1>3. ASSUME \A h \in Frames : frame'[h] # "none" => frame[h] # "none",
             NEW h \in Frames, frame'[h] # "none"
      PROVE  \E r \in Roots : (h \in Tree({r}))'
  <2>1. PICK r \in Roots : h \in Tree({r})
    BY <1>3 DEF Rooted
  <2>2. Tree({r})' = Tree({r})
    BY <1>1
  <2> QED
    BY <2>1, <2>2
<1>4. (\A h \in Frames : frame'[h] # "none" => frame[h] # "none") => Rooted'
  BY <1>3 DEF Rooted
<1> QED
  BY <1>2, <1>4

\* One leaf for each task, in the next state.
LEMMA OneLeafNext ==
  ASSUME NEW U, SeenNext(U), Leaves' \subseteq Frames,
         \A g, h \in Leaves' : U[g] = U[h] => g = h
  PROVE  OneLeaf'
BY DEF OneLeaf, SeenNext

\* The steps of the coroutines and of the loop that the queue does not see.
LEMMA HiddenStep ==
  ASSUME IInv, Rooted, OneLeaf, pc # "ended", IInv', NEW T, Seen(T), NEW U, SeenNext(U),
         UNCHANGED queueVars, \A h \in Leaves : U[h] = T[h]
  PROVE  OneLeaf' /\ UNCHANGED TaskQ!vars
<1>1. Leaves' = Leaves /\ UNCHANGED <<runq, cur, blocked>>
  BY DEF Leaves, queueVars, RQP!Queue
<1>2. OneLeaf'
  BY <1>1, LeafTasks, OneLeafNext
<1>3. \A i \in 1..Len(runq) : U[runq[i]] = T[runq[i]]
  BY DEF Leaves, RQP!Queue
<1>4. TaskQueue' = TaskQueue
  BY <1>1, <1>3 DEF Seen, SeenNext
<1>5. TaskRunning' = TaskRunning
  BY <1>1, Types DEF Seen, SeenNext, Leaves, IInv
<1>6. TasksBlocked' = TasksBlocked
  BY <1>1 DEF Seen, SeenNext, Leaves
<1> QED
  BY <1>2, <1>4, <1>5, <1>6 DEF TaskQ!vars

\* A step seen from the tasks: where it starts, and both maps.
Between(T, U) ==
  IInv /\ Rooted /\ OneLeaf /\ pc # "ended" /\ IInv' /\ Seen(T) /\ SeenNext(U)

LEMMA EnterMaps ==
  ASSUME NEW T, NEW U, Between(T, U), NEW f \in Funcs, Call(f) \/ Await(f)
  PROVE  Rooted' /\ OneLeaf' /\ UNCHANGED TaskQ!vars
<1>1. /\ cur # None /\ cur' = f
      /\ frame' = [frame EXCEPT ![f] = "active", ![cur] = "suspended"]
      /\ UNCHANGED <<runq, blocked>>
  BY DEF Call, Await, Enter
<1>2. /\ cur \in Frames /\ f \in Frames /\ None \notin Frames /\ cur \in Leaves
      /\ frame \in [Frames -> FrameStates] /\ frame[cur] = "active"
  BY <1>1, Types DEF Between, IInv, Leaves, Chain
<1>3. /\ Leaves \subseteq Frames
      /\ \A h \in Leaves : frame[h] # "none" /\ T[h] \in Roots
      /\ \A g, h \in Leaves : T[g] = T[h] => g = h
  BY LeafTasks DEF Between
<1>4. /\ \A h \in Leaves : U[h] = T[h]
      /\ U[f] = T[cur] /\ Rooted'
  <2>1. CASE Call(f)
    <3>1. /\ \E c \in Frames : c = cur /\ TaskOf(f)' = TaskOf(c)
          /\ \A h \in Frames : frame[h] # "none" => TaskOf(h)' = TaskOf(h)
          /\ Rooted'
      BY <2>1, CalleeJoins DEF Between
    <3> QED
      BY <1>2, <1>3, <3>1 DEF Between, Seen, SeenNext
  <2>2. CASE Await(f)
    <3>1. owner' = owner /\ frame[f] = "created" /\ owner[f] = cur
      BY <2>2 DEF Await
    <3>2. \A h \in Frames : frame'[h] # "none" => frame[h] # "none"
      BY <1>1, <1>2, <3>1
    <3>3. Rooted' /\ \A h \in Frames : U[h] = T[h]
      BY <3>1, <3>2, TasksStay DEF Between
    <3>4. PICK c \in Frames : c = cur
      BY <1>2
    <3>5. TaskOf(c) = TaskOf(f)
      BY <1>2, <3>1, <3>4, OwnerIsSameTask DEF Between
    <3> QED
      BY <1>2, <1>3, <3>3, <3>4, <3>5 DEF Between, Seen
  <2> QED
    BY <2>1, <2>2
<1>5. Leaves' = (Leaves \ {cur}) \cup {f}
  <2>1. cur \notin RQP!Queue \cup blocked
    BY <1>1, <1>2 DEF Between, IInv, RQP!OnePlace
  <2>2. RQP!Queue' = RQP!Queue
    BY <1>1 DEF RQP!Queue
  <2> QED
    BY <1>1, <1>2, <2>1, <2>2 DEF Leaves
<1>6. \A g, h \in Leaves' : U[g] = U[h] => g = h
  BY <1>2, <1>3, <1>4, <1>5
<1>7. OneLeaf'
  BY <1>2, <1>3, <1>5, <1>6, OneLeafNext DEF Between
<1>8. TaskQueue' = TaskQueue /\ TasksBlocked' = TasksBlocked
  <2>1. /\ \A i \in 1..Len(runq) : U[runq[i]] = T[runq[i]]
        /\ \A h \in blocked : U[h] = T[h]
    BY <1>4 DEF Leaves, RQP!Queue
  <2> QED
    BY <1>1, <2>1 DEF Between, Seen, SeenNext
<1>9. TaskRunning' = TaskRunning
  BY <1>1, <1>2, <1>4 DEF Between, Seen, SeenNext
<1> QED
  BY <1>4, <1>7, <1>8, <1>9 DEF TaskQ!vars

LEMMA ScheduleMaps ==
  ASSUME NEW T, NEW U, Between(T, U), NEW r \in Roots, Schedule(r)
  PROVE  Rooted' /\ OneLeaf' /\ TaskQ!Admit(r)
<1>1. /\ frame[r] = "none" /\ frame' = [frame EXCEPT ![r] = "created"]
      /\ LQ!Admit(r) /\ runq' = Append(runq, r) /\ UNCHANGED <<cur, blocked, owner>>
  BY DEF Schedule, LQ!Admit
<1>2. /\ r \in Frames /\ None \notin Frames /\ frame \in [Frames -> FrameStates]
      /\ runq \in Seq(Frames)
  BY Types DEF Between, IInv, Frames
<1>3. /\ r \notin RQP!Queue \cup blocked /\ r # cur
      /\ RQP!Queue' = RQP!Queue \cup {r}
  BY <1>1, <1>2, QueueSteps DEF Between, IInv
<1>4. r \notin Leaves /\ Leaves' = Leaves \cup {r}
  BY <1>1, <1>2, <1>3 DEF Leaves
<1>5. /\ Leaves \subseteq Frames
      /\ \A h \in Leaves : frame[h] # "none" /\ T[h] \in Roots
      /\ \A g, h \in Leaves : T[g] = T[h] => g = h
  BY LeafTasks DEF Between
<1>6. Tree({r}) = {r} /\ T[r] = r
  BY <1>1, <1>2, NewOwnsNothing, TasksAre DEF Between, Seen
<1>7. \A h \in Leaves : T[h] # r
  <2>1. ASSUME NEW h \in Leaves, T[h] = r PROVE FALSE
    <3>1. PICK s \in Roots : h \in Tree({s})
      BY <1>5 DEF Between, Rooted
    <3>2. s = r
      BY <1>5, <2>1, <3>1, TasksAre DEF Between, Seen
    <3> QED
      BY <1>4, <1>6, <3>1, <3>2
  <2> QED
    BY <2>1
<1>8. \A h \in Frames : U[h] = T[h]
  BY <1>1, TasksStay DEF Between
<1>9. Rooted'
  <2>1. ASSUME NEW h \in Frames, frame'[h] # "none"
        PROVE  \E s \in Roots : (h \in Tree({s}))'
    <3>1. CASE h = r
      BY <3>1, TreesNext
    <3>2. CASE h # r
      <4>1. PICK s \in Roots : h \in Tree({s})
        BY <1>1, <1>2, <2>1, <3>2 DEF Between, Rooted
      <4>2. Tree({s})' = Tree({s})
        BY <1>1, OwnersStay
      <4> QED
        BY <4>1, <4>2
    <3> QED
      BY <3>1, <3>2
  <2> QED
    BY <2>1 DEF Rooted
<1>10. OneLeaf'
  <2>1. \A g, h \in Leaves' : U[g] = U[h] => g = h
    BY <1>2, <1>4, <1>5, <1>6, <1>7, <1>8
  <2> QED
    BY <1>2, <1>4, <1>5, <2>1, OneLeafNext DEF Between
<1>11. TaskQueue' = Append(TaskQueue, r)
  <2>1. TaskQueue' = [i \in 1..Len(runq') |-> T[runq'[i]]]
    <3>1. \A i \in 1..Len(runq') : runq'[i] \in Frames
      BY Types DEF Between, IInv, TypeOK
    <3> QED
      BY <1>8, <3>1 DEF Between, SeenNext
  <2> QED
    BY <1>1, <1>2, <1>6, <2>1, MapSeq DEF Between, Seen
<1>12. ~TaskQ!InQueue(r) /\ r # TaskRunning /\ r \notin TasksBlocked
  <2>1. ~TaskQ!InQueue(r)
    <3>1. \A i \in 1..Len(runq) : runq[i] \in Leaves
      BY DEF Leaves, RQP!Queue
    <3>2. /\ TaskQueue = [i \in 1..Len(runq) |-> T[runq[i]]]
          /\ Len(TaskQueue) = Len(runq)
      BY <1>2 DEF Between, Seen
    <3> QED
      BY <1>7, <3>1, <3>2 DEF TaskQ!InQueue
  <2>2. r # TaskRunning
    BY <1>2, <1>7 DEF Between, Seen, Leaves
  <2>3. r \notin TasksBlocked
    BY <1>7 DEF Between, Seen, Leaves
  <2> QED
    BY <2>1, <2>2, <2>3
<1>13. UNCHANGED <<TaskRunning, TasksBlocked>>
  <2>1. TaskRunning' = TaskRunning
    BY <1>1, <1>8, Types DEF Between, Seen, SeenNext, IInv
  <2>2. TasksBlocked' = TasksBlocked
    <3>1. blocked \subseteq Frames /\ blocked' = blocked
      BY <1>1, Types DEF Between, IInv
    <3>2. TasksBlocked = {T[h] : h \in blocked} /\ TasksBlocked' = {U[h] : h \in blocked}
      BY <3>1 DEF Between, Seen, SeenNext
    <3> QED
      BY <1>8, <3>1, <3>2
  <2> QED
    BY <2>1, <2>2
<1> QED
  BY <1>9, <1>10, <1>11, <1>12, <1>13 DEF TaskQ!Admit

\* Steps of the run queue: the same handles, none of another task.
LEMMA QueueMaps ==
  ASSUME NEW T, NEW U, Between(T, U), UNCHANGED owner,
         \A h \in Frames : frame'[h] # "none" => frame[h] # "none",
         Leaves' = Leaves
  PROVE  /\ Rooted' /\ OneLeaf'
         /\ \A h \in Frames : U[h] = T[h]
         /\ TaskQueue' = [i \in 1..Len(runq') |-> T[runq'[i]]]
         /\ TaskRunning' = IF cur' = None THEN None ELSE T[cur']
         /\ TasksBlocked' = {T[h] : h \in blocked'}
<1>1. Rooted' /\ \A h \in Frames : U[h] = T[h]
  BY TasksStay DEF Between
<1>2. OneLeaf'
  BY <1>1, LeafTasks, OneLeafNext DEF Between
<1>3. /\ \A i \in 1..Len(runq') : runq'[i] \in Frames
      /\ cur' # None => cur' \in Frames
      /\ blocked' \subseteq Frames
  BY Types DEF Between, IInv, TypeOK
<1>4. TaskQueue' = [i \in 1..Len(runq') |-> T[runq'[i]]]
  BY <1>1, <1>3 DEF Between, SeenNext
<1>5. TaskRunning' = IF cur' = None THEN None ELSE T[cur']
  BY <1>1, <1>3 DEF Between, SeenNext
<1>6. TasksBlocked' = {T[h] : h \in blocked'}
  <2>1. TasksBlocked' = {U[h] : h \in blocked'}
    BY DEF Between, SeenNext
  <2> QED
    BY <1>1, <1>3, <2>1
<1> QED
  BY <1>1, <1>2, <1>4, <1>5, <1>6

LEMMA WakeMaps ==
  ASSUME NEW T, NEW U, Between(T, U), NEW f \in Frames, Wake(f)
  PROVE  Rooted' /\ OneLeaf' /\ TaskQ!Wake(T[f])
<1>1. /\ LQ!Wake(f) /\ f \in blocked /\ blocked' = blocked \ {f}
      /\ runq' = Append(runq, f) /\ UNCHANGED <<cur, owner, frame>>
  BY DEF Wake, LQ!Wake, frameVars
<1>2. RQP!Queue' = RQP!Queue \cup {f}
  BY <1>1, QueueSteps DEF Between, IInv
<1>3. Leaves' = Leaves
  BY <1>1, <1>2 DEF Leaves
<1>4. /\ Rooted' /\ OneLeaf'
      /\ TaskQueue' = [i \in 1..Len(runq') |-> T[runq'[i]]]
      /\ TaskRunning' = IF cur' = None THEN None ELSE T[cur']
      /\ TasksBlocked' = {T[h] : h \in blocked'}
  BY <1>1, <1>3, QueueMaps
<1>5. runq \in Seq(Frames)
  BY Types DEF Between, IInv
<1>6. TaskQueue' = Append(TaskQueue, T[f])
  BY <1>1, <1>4, <1>5, MapSeq DEF Between, Seen
<1>7. TaskRunning' = TaskRunning
  BY <1>1, <1>4 DEF Between, Seen
<1>8. T[f] \in TasksBlocked /\ TasksBlocked' = TasksBlocked \ {T[f]}
  <2>1. \A g, h \in blocked : T[g] = T[h] => g = h
    BY LeafTasks DEF Between, Leaves
  <2>2. TasksBlocked = {T[h] : h \in blocked}
    BY DEF Between, Seen
  <2> QED
    BY <1>1, <1>4, <2>1, <2>2
<1> QED
  BY <1>4, <1>6, <1>7, <1>8 DEF TaskQ!Wake

LEMMA DispatchMaps ==
  ASSUME NEW T, NEW U, Between(T, U), Dispatch
  PROVE  Rooted' /\ OneLeaf' /\ TaskQ!Resume
<1>1. /\ LQ!Resume /\ cur = None /\ runq # <<>> /\ cur' = Head(runq) /\ runq' = Tail(runq)
      /\ frame' = [frame EXCEPT ![cur'] = "active"] /\ UNCHANGED <<blocked, owner>>
  BY DEF Dispatch, LQ!Resume
<1>2. /\ RQP!Queue = RQP!Queue' \cup {cur'} /\ cur' \in Frames /\ None \notin Frames
      /\ frame \in [Frames -> FrameStates] /\ runq \in Seq(Frames)
  BY <1>1, QueueSteps, Types DEF Between, IInv
<1>3. Leaves' = Leaves
  BY <1>1, <1>2 DEF Leaves
<1>4. frame[cur'] # "none"
  BY <1>2, LeafTasks DEF Between, Leaves
<1>5. \A h \in Frames : frame'[h] # "none" => frame[h] # "none"
  BY <1>1, <1>2, <1>4
<1>6. /\ Rooted' /\ OneLeaf'
      /\ TaskQueue' = [i \in 1..Len(runq') |-> T[runq'[i]]]
      /\ TaskRunning' = IF cur' = None THEN None ELSE T[cur']
      /\ TasksBlocked' = {T[h] : h \in blocked'}
  BY <1>1, <1>3, <1>5, QueueMaps
<1>7. TaskQueue # <<>> /\ Head(TaskQueue) = T[cur'] /\ TaskQueue' = Tail(TaskQueue)
  BY <1>1, <1>2, <1>6, MapSeq DEF Between, Seen
<1>8. TaskRunning = None /\ TaskRunning' = T[cur']
  BY <1>1, <1>2, <1>6 DEF Between, Seen
<1>9. TasksBlocked' = TasksBlocked
  BY <1>1, <1>6 DEF Between, Seen
<1> QED
  BY <1>6, <1>7, <1>8, <1>9 DEF TaskQ!Resume

LEMMA SleepMaps ==
  ASSUME NEW T, NEW U, Between(T, U), Sleep
  PROVE  Rooted' /\ OneLeaf' /\ TaskQ!Block
<1>1. /\ cur # None /\ cur' = None /\ blocked' = blocked \cup {cur}
      /\ frame' = [frame EXCEPT ![cur] = "suspended"] /\ UNCHANGED <<runq, owner>>
  BY DEF Sleep, LQ!Block
<1>2. /\ cur \in Frames /\ None \notin Frames /\ frame \in [Frames -> FrameStates]
      /\ cur \in Leaves
  BY <1>1, Types DEF Between, IInv, Leaves
<1>3. Leaves' = Leaves
  BY <1>1, <1>2 DEF Leaves, RQP!Queue
<1>4. frame[cur] # "none" /\ T[cur] \in Roots /\ None \notin Roots
  BY <1>2, LeafTasks, TaskAssumption DEF Between
<1>5. \A h \in Frames : frame'[h] # "none" => frame[h] # "none"
  BY <1>1, <1>2, <1>4
<1>6. /\ Rooted' /\ OneLeaf'
      /\ TaskQueue' = [i \in 1..Len(runq') |-> T[runq'[i]]]
      /\ TaskRunning' = IF cur' = None THEN None ELSE T[cur']
      /\ TasksBlocked' = {T[h] : h \in blocked'}
  BY <1>1, <1>3, <1>5, QueueMaps
<1>7. TaskRunning = T[cur] /\ TaskRunning # None /\ TaskRunning' = None
  BY <1>1, <1>4, <1>6 DEF Between, Seen
<1>8. TasksBlocked' = TasksBlocked \cup {TaskRunning}
  <2>1. TasksBlocked = {T[h] : h \in blocked}
    BY DEF Between, Seen
  <2> QED
    BY <1>1, <1>6, <1>7, <2>1
<1>9. TaskQueue' = TaskQueue
  BY <1>1, <1>6 DEF Between, Seen
<1> QED
  BY <1>6, <1>7, <1>8, <1>9 DEF TaskQ!Block

LEMMA ReturnMaps ==
  ASSUME NEW T, NEW U, Between(T, U), Return
  PROVE  Rooted' /\ OneLeaf' /\ [TaskQ!Retire]_(TaskQ!vars)
<1>1. UNCHANGED <<runq, blocked, owner>>
  BY DEF Return
<1>2. PICK D : /\ D \subseteq Funcs
               /\ \A h \in D : ~Unfinished(h) /\ frame[h] # "none"
               /\ cur \in Frames /\ frame[cur] = "active"
               /\ cur' # cur
               /\ cur' # None => /\ cur' \in Frames /\ frame[cur'] = "suspended"
                                 /\ cur' \notin RQP!Queue \cup blocked
                                 /\ cur \in Funcs /\ cur' = owner[cur]
               /\ \A h \in Frames : h # cur =>
                    frame'[h] = IF h = cur' THEN "active"
                                ELSE IF h \in D THEN "gone" ELSE frame[h]
  BY ReturnIs DEF Between
<1>3. None \notin Frames /\ None \notin Roots /\ cur \in Leaves
  BY <1>2, Types DEF Between, IInv, Leaves
<1>4. \A h \in Frames : frame'[h] # "none" => frame[h] # "none"
  BY <1>2, <1>3
<1>5. Rooted' /\ \A h \in Frames : U[h] = T[h]
  BY <1>1, <1>4, TasksStay DEF Between
<1>6. cur' # None => T[cur'] = T[cur]
  <2>1. ASSUME cur' # None PROVE T[cur'] = T[cur]
    <3>1. PICK f \in Funcs : f = cur
      BY <1>2, <2>1
    <3>2. PICK c \in Frames : c = cur'
      BY <1>2, <2>1
    <3>3. TaskOf(c) = TaskOf(f)
      BY <1>2, <2>1, <3>1, <3>2, OwnerIsSameTask DEF Between
    <3> QED
      BY <1>2, <3>1, <3>2, <3>3 DEF Between, Seen
  <2> QED
    BY <2>1
<1>7. Leaves' = (Leaves \ {cur}) \cup ({cur'} \ {None})
  <2>1. cur \notin RQP!Queue \cup blocked /\ RQP!Queue' = RQP!Queue
    BY <1>1, <1>2, <1>3 DEF Between, IInv, RQP!OnePlace, RQP!Queue
  <2> QED
    BY <1>1, <1>2, <1>3, <2>1 DEF Leaves
<1>8. /\ Leaves \subseteq Frames
      /\ \A h \in Leaves : frame[h] # "none" /\ T[h] \in Roots
      /\ \A g, h \in Leaves : T[g] = T[h] => g = h
  BY LeafTasks DEF Between
<1>9. OneLeaf'
  <2>1. Leaves' \subseteq Frames
    BY <1>2, <1>7, <1>8
  <2>2. \A g, h \in Leaves' : U[g] = U[h] => g = h
    <3>1. \A h \in Leaves' : h # cur' => h \in Leaves /\ h # cur
      BY <1>7
    <3>2. cur' \in Leaves' => T[cur'] = T[cur]
      BY <1>2, <1>6, <1>7, <1>8, <1>3
    <3>3. \A h \in Leaves' : U[h] = T[h]
      BY <1>5, <2>1
    <3> QED
      BY <1>3, <1>8, <3>1, <3>2, <3>3
  <2> QED
    BY <2>1, <2>2, OneLeafNext DEF Between
<1>10. TaskQueue' = TaskQueue /\ TasksBlocked' = TasksBlocked
  <2>1. /\ \A i \in 1..Len(runq) : U[runq[i]] = T[runq[i]]
        /\ \A h \in blocked : U[h] = T[h]
    BY <1>5, <1>8 DEF Leaves, RQP!Queue
  <2> QED
    BY <1>1, <2>1 DEF Between, Seen, SeenNext
<1>11. TaskRunning = T[cur] /\ TaskRunning # None
  BY <1>2, <1>3, <1>8 DEF Between, Seen
<1>12. CASE cur' = None
  <2>1. TaskRunning' = None
    BY <1>12 DEF Between, SeenNext
  <2> QED
    BY <1>5, <1>9, <1>10, <1>11, <2>1 DEF TaskQ!Retire
<1>13. CASE cur' # None
  <2>1. TaskRunning' = TaskRunning
    BY <1>2, <1>5, <1>6, <1>11, <1>13 DEF Between, SeenNext
  <2> QED
    BY <1>5, <1>9, <1>10, <2>1 DEF TaskQ!vars
<1> QED
  BY <1>12, <1>13

\* What run() does between two resumptions, and a coroutine that is created.
LEMMA OthersMap ==
  ASSUME NEW T, NEW U, Between(T, U),
         \/ Run \/ Check \/ Reap \/ LoopAgain \/ Stop \/ UNCHANGED vars
         \/ \E f \in Funcs : Create(f)
  PROVE  Rooted' /\ OneLeaf' /\ UNCHANGED TaskQ!vars
<1>1. UNCHANGED queueVars
  BY DEF Run, Check, Reap, LoopAgain, Stop, Create, vars
<1>2. /\ Leaves \subseteq Frames
      /\ \A h \in Leaves : frame[h] # "none"
  BY LeafTasks DEF Between
<1>3. Rooted' /\ \A h \in Leaves : U[h] = T[h]
  <2>1. CASE \E f \in Funcs : Create(f)
    <3>1. Rooted' /\ \A h \in Frames : frame[h] # "none" => TaskOf(h)' = TaskOf(h)
      BY <2>1, CalleeJoins DEF Between
    <3> QED
      BY <1>2, <3>1 DEF Between, Seen, SeenNext
  <2>2. CASE Run \/ Check \/ LoopAgain \/ Stop \/ UNCHANGED vars
    <3>1. UNCHANGED <<frame, owner>>
      BY <2>2 DEF Run, Check, LoopAgain, Stop, frameVars, vars
    <3> QED
      BY <1>2, <3>1, TasksStay DEF Between
  <2>3. CASE Reap
    <3> DEFINE S == finished \cap tasks
    <3>1. /\ S \in SUBSET Roots /\ S \in SUBSET Frames /\ TypeOK /\ Owned
          /\ owner' = owner /\ frame' = Destroyed(S)
      BY <2>3, Types DEF Between, IInv, Reap
    <3>2. \A h \in S : ~Unfinished(h) /\ frame[h] # "none"
      BY <3>1 DEF Between, IInv, Control, Unfinished, TypeOK
    <3> HIDE DEF S
    <3>3. \A h \in Tree(S) : frame[h] # "none"
      BY <3>1, <3>2, TreeIsFinished
    <3>4. \A h \in Frames : frame'[h] # "none" => frame[h] # "none"
      BY <3>1, <3>3, DestroyedIs
    <3> QED
      BY <1>2, <3>1, <3>4, TasksStay DEF Between
  <2> QED
    BY <2>1, <2>2, <2>3
<1>4. OneLeaf' /\ UNCHANGED TaskQ!vars
  BY <1>1, <1>3, HiddenStep DEF Between
<1> QED
  BY <1>3, <1>4

LEMMA StepMaps ==
  ASSUME IInv, Rooted, OneLeaf, pc # "ended", IInv', [Next]_vars, pc' # "ended"
  PROVE  Rooted' /\ OneLeaf' /\ [TaskQ!Next]_(TaskQ!vars)
<1>1. PICK T : Seen(T)
  BY TasksSeen DEF IInv
<1>2. PICK U : SeenNext(U)
  BY TasksSeenNext DEF IInv
<1>3. Between(T, U)
  BY <1>1, <1>2 DEF Between
<1>4. CASE \/ Run \/ Check \/ Reap \/ LoopAgain \/ Stop \/ UNCHANGED vars
           \/ \E f \in Funcs : Create(f)
  BY <1>3, <1>4, OthersMap
<1>5. ASSUME NEW f \in Funcs, Call(f) \/ Await(f)
      PROVE  Rooted' /\ OneLeaf' /\ [TaskQ!Next]_(TaskQ!vars)
  BY <1>3, <1>5, EnterMaps
<1>6. ASSUME NEW r \in Roots, Schedule(r)
      PROVE  Rooted' /\ OneLeaf' /\ [TaskQ!Next]_(TaskQ!vars)
  BY <1>3, <1>6, ScheduleMaps DEF TaskQ!Next
<1>7. ASSUME NEW f \in Frames, Wake(f)
      PROVE  Rooted' /\ OneLeaf' /\ [TaskQ!Next]_(TaskQ!vars)
  <2>1. f \in Leaves
    BY <1>7 DEF Wake, LQ!Wake, Leaves
  <2>2. T[f] \in Roots
    BY <1>3, <2>1, LeafTasks DEF Between
  <2>3. PICK t \in Roots : t = T[f]
    BY <2>2
  <2> QED
    BY <1>3, <1>7, <2>3, WakeMaps DEF TaskQ!Next
<1>8. CASE Dispatch
  BY <1>3, <1>8, DispatchMaps DEF TaskQ!Next
<1>9. CASE Sleep
  BY <1>3, <1>9, SleepMaps DEF TaskQ!Next
<1>10. CASE Return
  BY <1>3, <1>10, ReturnMaps DEF TaskQ!Next
<1>11. CASE ExitLoop
  BY <1>11 DEF ExitLoop
<1> QED
  BY <1>4, <1>5, <1>6, <1>7, <1>8, <1>9, <1>10, <1>11 DEF Next, LoopStep

\* To the loop a task with the functions it awaits is one coroutine, until run() ends:
\* every step is one of the run queue of tasks, or none.
THEOREM TaskIsOneCoroutine == Spec => NestingIsTransparent
<1>1. Init => TInv /\ TaskQ!Init
  <2> SUFFICES ASSUME Init PROVE TInv /\ TaskQ!Init
    OBVIOUS
  <2>1. IInv
    BY InitIInv
  <2>2. frame = [f \in Frames |-> "none"] /\ runq = <<>> /\ cur = None /\ blocked = {}
    BY DEF Init, LQ!Init
  <2>3. Leaves = {}
    BY <2>2 DEF Leaves, RQP!Queue
  <2>4. TaskQueue = <<>> /\ TaskRunning = None /\ TasksBlocked = {}
    BY <2>2 DEF TaskQueue, TaskRunning, TasksBlocked
  <2> QED
    BY <2>1, <2>2, <2>3, <2>4 DEF TInv, Rooted, OneLeaf, TaskQ!Init
<1>2. IInv /\ [Next]_vars /\ pc' # "ended" => pc # "ended"
  BY DEF IInv, Control, Next, LoopStep, Run, Dispatch, Check, Reap, LoopAgain, ExitLoop,
         Schedule, Create, Call, Await, Enter, Sleep, Return, Stop, Wake, LQ!Block, vars
<1>3. TInv /\ [Next]_vars => TInv'
  BY <1>2, NextIInv, StepMaps DEF TInv
<1>4. TInv /\ [Next]_vars => [TaskQ!Next \/ pc' = "ended"]_(TaskQ!vars)
  BY <1>2, NextIInv, StepMaps DEF TInv
<1> QED
  BY <1>1, <1>3, <1>4, PTL DEF Spec, NestingIsTransparent
=============================================================================
