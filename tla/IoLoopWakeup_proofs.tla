------------------------ MODULE IoLoopWakeup_proofs ------------------------
(***************************************************************************)
(* Proofs about what IoLoop wakes: no wakeup is lost (NoLostWakeup) and    *)
(* none comes early (NoSpuriousWakeup); what a coroutine awaits stays in   *)
(* the loop, linked to its combinator and registered with epoll            *)
(* (AwaitedIsListed, NoDanglingParent, AwaitedIsRegistered); a wait-for-all*)
(* counts each child once (AllCountExact, AllWokenComplete).               *)
(*                                                                         *)
(* stop() may be called; run() is not called again after it.  Clients do   *)
(* not reset a promise in use and give no deadline to a wait-for-any, whose*)
(* await_resume leaves waiters linked past its deadline.  The counts are   *)
(* exact where promises have no descriptors, which complete twice, and     *)
(* clients complete only what still waits.                                 *)
(***************************************************************************)
EXTENDS IoLoop_proofs

-----------------------------------------------------------------------------
(* Links: awaiting_waiter_ and waiters_ of a combinator agree, children are*)
(* in the loop, and a leaf that is awaited by itself has no parent.        *)

Links ==
  /\ \A w \in Waiters : added[w] <=> w \in waiters
  /\ \A c \in Waiters : \A k \in kids[c] : parent[k] = c /\ added[k]
  /\ \A w \in Waiters : parent[w] # None => w \in kids[parent[w]]
  /\ \A c \in Waiters : kids[c] # {} => c \in Combos /\ ~Idle(c)
  /\ \A w \in Waiters \ Anys : coro[w] # None => added[w]
  /\ \A t \in Tasks : susp[t] \in Leaves => parent[susp[t]] = None
  /\ \A a \in Anys : left[a] = Never /\ ~added[a]

LInv == FInv /\ Links

\* Nothing is linked, unlinked, added or removed.
LEMMA QuietLinks ==
  ASSUME LInv, susp' = susp, live \ finished \subseteq live',
         \A w \in Waiters : coro'[w] \in {coro[w], None},
         UNCHANGED <<waiters, added, parent, kids>>,
         \A a \in Anys : left'[a] = left[a]
  PROVE  Links'
<1>1. \A c \in Combos : ~Idle(c) => ~Idle(c)'
  <2>1. None \notin Combos
    BY WaiterAssumption DEF Waiters
  <2> QED
    BY <2>1 DEF Idle, LInv, FInv, IInv, TypeOK, Counts
<1>2. \A w \in Waiters : coro'[w] # None => coro[w] # None
  OBVIOUS
<1> QED
  BY <1>1, <1>2 DEF LInv, Links

\* A leaf that no suspended task depends on is linked to nothing.
LEMMA IdleLeaf ==
  ASSUME LInv, NEW w \in Leaves, ~InUse(w)
  PROVE  /\ parent[w] = None /\ coro[w] = None
         /\ \A c \in Waiters : w \notin kids[c]
         /\ \A t \in Tasks : susp[t] # w
<1>1. w \in Waiters /\ w # None
  BY WaiterAssumption DEF Waiters
<1>2. \A c \in Waiters : w \notin kids[c]
  BY DEF LInv, Links, InUse, Idle
<1>3. parent[w] = None
  BY <1>1, <1>2 DEF LInv, Links, FInv, IInv, TypeOK, Waiters
<1>4. \A t \in Tasks : susp[t] # w
  BY <1>1 DEF InUse, LInv, FInv, Frames
<1>5. coro[w] = None
  BY <1>1, <1>4 DEF LInv, FInv, Frames, IInv, TypeOK
<1> QED
  BY <1>2, <1>3, <1>4, <1>5

\* A leaf that nothing is linked to leaves the loop.
LEMMA RemoveLeafLinks ==
  ASSUME LInv, NEW w \in Leaves, parent[w] = None, coro[w] = None,
         Remove({w} \cap {x \in Leaves : added[x]}),
         UNCHANGED <<live, coro, parent, kids>>,
         \A c \in Combos : Idle(c)' => Idle(c),
         \A t \in Tasks : susp'[t] \in {susp[t], None},
         \A a \in Anys : left'[a] = left[a]
  PROVE  Links'
<1>1. /\ waiters' = waiters \ {x \in {w} : added[x]}
      /\ \A x \in Waiters : added'[x] <=> added[x] /\ x # w
  BY DEF Remove, Put, LInv, FInv, IInv, TypeOK
<1>2. \A c \in Waiters : w \notin kids[c]
  BY WaiterAssumption DEF LInv, Links
<1>3. w \in Waiters /\ w \notin Anys /\ None \notin Leaves
  BY WaiterAssumption DEF Waiters, Combos
<1>4. \A x \in Waiters : added'[x] <=> x \in waiters'
  BY <1>1 DEF LInv, Links
<1>5. \A c \in Waiters : \A k \in kids'[c] : parent'[k] = c /\ added'[k]
  BY <1>1, <1>2 DEF LInv, Links, FInv, IInv, TypeOK, Waiters
<1>6. \A x \in Waiters \ Anys : coro'[x] # None => added'[x]
  BY <1>1 DEF LInv, Links
<1>7. \A t \in Tasks : susp'[t] \in Leaves => parent'[susp'[t]] = None
  BY <1>3 DEF LInv, Links
<1>8. \A a \in Anys : left'[a] = Never /\ ~added'[a]
  BY <1>1 DEF LInv, Links, Waiters, Combos
<1> QED
  BY <1>4, <1>5, <1>6, <1>7, <1>8 DEF LInv, Links

-----------------------------------------------------------------------------
(* The steps keep the links.                                               *)

LEMMA LoopLinks ==
  ASSUME LInv,
         \/ Run \/ PollEvents \/ PollTimeout \/ PollInterrupted \/ LoopAgain
         \/ Tick \/ Expire \/ StepDone \/ SwapBatch
         \/ \E f \in Fds : FdReady(f) \/ FdIdle(f)
  PROVE  Links'
<1> USE DEF loopVars, taskVars, runVars, listVars, linkVars, wakeVars
<1>1. CASE StepDone
  BY <1>1, QuietLinks DEF StepDone
<1>2. CASE Run \/ PollEvents \/ PollTimeout \/ PollInterrupted \/ LoopAgain
  BY <1>2, QuietLinks DEF Run, PollEvents, PollTimeout, PollInterrupted, LoopAgain
<1>3. CASE Tick
  <2>1. \A a \in Anys : left'[a] = left[a]
    BY <1>3 DEF Tick, LInv, Links, Waiters, Combos
  <2> QED
    BY <1>3, <2>1, QuietLinks DEF Tick
<1>4. CASE Expire \/ SwapBatch
  BY <1>4, QuietLinks DEF Expire, SwapBatch
<1>5. CASE \E f \in Fds : FdReady(f) \/ FdIdle(f)
  BY <1>5, QuietLinks DEF FdReady, FdIdle
<1> QED
  BY <1>1, <1>2, <1>3, <1>4, <1>5

LEMMA CompleteLinks ==
  ASSUME LInv,
         \/ \E w \in Leaves, r \in {"done", "error"} : DispatchEvent(w, r)
         \/ \E w \in Waiters : ProcessReady(w)
         \/ \E w \in Leaves, r \in {"done", "error", "cancelled"} :
              ClientComplete(w, r)
         \/ \E c \in Combos : CancelCombo(c)
         \/ \E t \in Tasks : Spawn(t) \/ Finish(t)
  PROVE  Links'
<1> USE DEF taskVars, listVars, linkVars
<1>1. ASSUME NEW w \in Waiters, NEW r, Complete(w, r),
             UNCHANGED <<taskVars, batch, cur, susp, listVars, linkVars, left>>
      PROVE  Links'
  BY <1>1, CompleteStep, QuietLinks DEF LInv
<1>2. ASSUME NEW w \in Leaves, NEW r \in {"done", "error"}, DispatchEvent(w, r)
      PROVE  Links'
  BY <1>1, <1>2 DEF DispatchEvent, Waiters
<1>3. ASSUME NEW w \in Waiters, ProcessReady(w) PROVE Links'
  <2>1. CASE result[w] = "waiting"
    BY <1>3, <2>1, QuietLinks DEF ProcessReady, wakeVars
  <2>2. CASE result[w] # "waiting"
    BY <1>1, <1>3, <2>2 DEF ProcessReady
  <2> QED
    BY <2>1, <2>2
<1>4. ASSUME NEW w \in Leaves, NEW r \in {"done", "error", "cancelled"},
             ClientComplete(w, r)
      PROVE  Links'
  BY <1>1, <1>4 DEF ClientComplete, Waiters
<1>5. ASSUME NEW c \in Combos, CancelCombo(c) PROVE Links'
  <2>1. \A x \in Waiters : coro'[x] \in {coro[x], None}
    BY <1>5 DEF CancelCombo, LInv, FInv, IInv, TypeOK
  <2> QED
    BY <1>5, <2>1, QuietLinks DEF CancelCombo
<1>6. ASSUME NEW t \in Tasks, Spawn(t) \/ Finish(t) PROVE Links'
  BY <1>6, QuietLinks DEF Spawn, Finish, wakeVars
<1> QED
  BY <1>2, <1>3, <1>4, <1>5, <1>6

\* await_resume takes the waiter and its children out of the loop.
LEMMA ResumeLinks ==
  ASSUME LInv, NEW t \in Tasks, Resume(t) PROVE Links'
<1> USE DEF taskVars, loopVars, wakeVars, listVars, linkVars
<1>1. /\ UNCHANGED <<live, finished, coro>>
      /\ \A u \in Tasks : susp'[u] = IF u = t THEN None ELSE susp[u]
      /\ t \in live /\ \A w \in Waiters : coro[w] # t
      /\ None \notin Waiters
  BY ResumeShape, WaiterAssumption DEF LInv, FInv, IInv, TypeOK
<1>2. \A c \in Combos : Idle(c)' => Idle(c) \/ susp[t] = c
  BY <1>1 DEF Idle, LInv, FInv, IInv, TypeOK
<1>3. CASE ResumeStart(t)
  BY <1>3, QuietLinks DEF ResumeStart
<1>4. CASE ResumeLeaf(t)
  <2> DEFINE w == susp[t]
  <2>1. w \in Leaves /\ w \in Waiters /\ parent[w] = None
    BY <1>4 DEF ResumeLeaf, LInv, Links, Waiters
  <2>2. coro[w] = None
    BY <1>1, <2>1 DEF LInv, FInv, Frames, IInv, TypeOK
  <2>3. parent' = parent /\ kids' = kids /\ left' = left
    BY <1>4, <2>1 DEF ResumeLeaf, LInv, FInv, IInv, TypeOK
  <2>4. \A c \in Combos : Idle(c)' => Idle(c)
    BY <1>2, <2>1, WaiterAssumption
  <2>5. Remove({w} \cap {x \in Leaves : added[x]})
    BY <1>4 DEF ResumeLeaf
  <2>6. \A u \in Tasks : susp'[u] \in {susp[u], None}
    BY <1>1
  <2> QED
    BY <1>1, <2>1, <2>2, <2>3, <2>4, <2>5, <2>6, RemoveLeafLinks
<1>5. CASE ResumeAny(t) \/ ResumeAll(t)
  <2> DEFINE a == susp[t]
             S == IF a \in Anys THEN {} ELSE {a}
  <2>1. a \in Combos /\ a \in Waiters /\ a \notin Leaves
    BY <1>5, WaiterAssumption DEF ResumeAny, ResumeAll, Combos, Waiters
  <2>2. /\ Remove(kids[a] \cup S) /\ parent' = Put(parent, kids[a], None)
        /\ kids' = Put(kids, {a}, {}) /\ left' = Put(left, {a}, Never)
    <3>1. CASE ResumeAny(t)
      <4>1. a \in Anys /\ Skipped(kids[a], result, left[a]) = {}
        BY <3>1 DEF ResumeAny, Skipped, TimedOut, LInv, Links
      <4> QED
        BY <3>1, <4>1 DEF ResumeAny, Destroyed
    <3>2. CASE ResumeAll(t)
      <4>1. a \in Alls /\ a \notin Anys
        BY <3>2, WaiterAssumption DEF ResumeAll
      <4> QED
        BY <3>2, <4>1 DEF ResumeAll, Destroyed
    <3> QED
      BY <1>5, <3>1, <3>2
  <2>3. \A k \in kids[a] : k \in Leaves /\ parent[k] = a /\ coro[k] = None
    <3> SUFFICES ASSUME NEW k \in kids[a]
                 PROVE  k \in Leaves /\ parent[k] = a /\ coro[k] = None
      OBVIOUS
    <3>1. k \in Leaves /\ k \in Waiters /\ parent[k] = a
      BY <2>1 DEF LInv, Links, FInv, IInv, TypeOK, Waiters
    <3>2. coro[k] # None => coro[k] \in Tasks /\ susp[coro[k]] = k
      BY <3>1 DEF LInv, FInv, Frames, IInv, TypeOK
    <3> QED
      BY <1>1, <2>1, <3>1, <3>2 DEF LInv, Links
  <2>4. S \subseteq {a} /\ \A x \in S : x \notin Anys
    OBVIOUS
  <2>5. coro[a] = None
    BY <1>1, <2>1, WaiterAssumption DEF LInv, FInv, Frames, IInv, TypeOK
  <2> HIDE DEF a, S
  <2>6. \A x \in Waiters : added'[x] <=> added[x] /\ x \notin kids[a] \cup S
    BY <2>2 DEF Remove, Put, LInv, FInv, IInv, TypeOK
  <2>7. waiters' = waiters \ (kids[a] \cup S)
    BY <2>2 DEF Remove
  <2>8. /\ \A x \in Waiters : parent'[x] = IF x \in kids[a] THEN None ELSE parent[x]
        /\ \A x \in Waiters : kids'[x] = IF x = a THEN {} ELSE kids[x]
        /\ \A x \in Waiters : left'[x] = IF x = a THEN Never ELSE left[x]
    BY <2>2 DEF Put, LInv, FInv, IInv, TypeOK
  <2>9. \A x \in Waiters : added'[x] <=> x \in waiters'
    BY <2>6, <2>7 DEF LInv, Links
  <2>10. \A c \in Waiters : \A k \in kids'[c] : parent'[k] = c /\ added'[k]
    <3> SUFFICES ASSUME NEW c \in Waiters, NEW k \in kids'[c]
                 PROVE  parent'[k] = c /\ added'[k]
      OBVIOUS
    <3>1. c # a /\ k \in kids[c]
      BY <2>8
    <3>2. k \in Waiters /\ k \in Leaves /\ parent[k] = c /\ added[k]
      BY <3>1 DEF LInv, Links, FInv, IInv, TypeOK, Waiters
    <3>3. k \notin kids[a] /\ k \notin S
      BY <2>1, <2>3, <2>4, <3>1, <3>2
    <3> QED
      BY <2>6, <2>8, <3>2, <3>3
  <2>11. \A x \in Waiters : parent'[x] # None => x \in kids'[parent'[x]]
    <3> SUFFICES ASSUME NEW x \in Waiters, parent'[x] # None
                 PROVE  x \in kids'[parent'[x]]
      OBVIOUS
    <3>1. x \notin kids[a] /\ parent'[x] = parent[x] /\ x \in kids[parent[x]]
      BY <2>8 DEF LInv, Links
    <3>2. parent[x] # a /\ parent[x] \in Waiters
      BY <3>1, <2>8 DEF LInv, FInv, IInv, TypeOK, Waiters
    <3> QED
      BY <2>8, <3>1, <3>2
  <2>12. \A c \in Waiters : kids'[c] # {} => c \in Combos /\ ~Idle(c)'
    BY <1>2, <2>8 DEF LInv, Links, a
  <2>13. \A x \in Waiters \ Anys : coro'[x] # None => added'[x]
    BY <1>1, <2>3, <2>4, <2>5, <2>6 DEF LInv, Links
  <2>14. \A u \in Tasks : susp'[u] \in Leaves => parent'[susp'[u]] = None
    BY <1>1, <2>8 DEF LInv, Links, Waiters
  <2>15. \A x \in Anys : left'[x] = Never /\ ~added'[x]
    BY <2>6, <2>8 DEF LInv, Links, Waiters, Combos
  <2> QED
    BY <2>9, <2>10, <2>11, <2>12, <2>13, <2>14, <2>15 DEF Links
<1> QED
  BY <1>3, <1>4, <1>5 DEF Resume

\* A combinator that suspends links the children that were not in the loop.
LEMMA ComboLinks ==
  ASSUME LInv, NEW t \in Tasks, Running(t), NEW a \in Combos, Idle(a),
         NEW L \in SUBSET Leaves, NEW S \in SUBSET {a}, S = {a} \ Anys,
         \A k \in L : ~added[k] /\ ~InUse(k),
         parent' = Put(parent, L, a), kids' = [kids EXCEPT ![a] = L],
         added' = Put(added, L \cup S, TRUE), waiters' = waiters \cup L \cup S,
         coro' = [coro EXCEPT ![a] = t], susp' = [susp EXCEPT ![t] = a],
         live' = live,
         \A b \in Anys : left'[b] = Never
  PROVE  Links'
<1>1. /\ a \in Waiters /\ a \notin Leaves /\ a # None /\ t \in live
      /\ t = cur /\ susp[t] = None /\ kids[a] = {} /\ L \subseteq Waiters
      /\ None \notin Combos
  BY WaiterAssumption DEF Waiters, Combos, Running, LInv, Links, FInv, IInv, Counts, Places
<1>2. /\ \A x \in Waiters : parent'[x] = IF x \in L THEN a ELSE parent[x]
      /\ \A x \in Waiters : kids'[x] = IF x = a THEN L ELSE kids[x]
      /\ \A x \in Waiters : added'[x] <=> added[x] \/ x \in L \cup S
      /\ \A x \in Waiters : coro'[x] = IF x = a THEN t ELSE coro[x]
      /\ \A u \in Tasks : susp'[u] = IF u = t THEN a ELSE susp[u]
  BY <1>1 DEF Put, LInv, FInv, IInv, TypeOK
<1>3. \A x \in Waiters : added'[x] <=> x \in waiters'
  BY <1>2 DEF LInv, Links
<1>4. \A c \in Waiters : \A k \in kids'[c] : parent'[k] = c /\ added'[k]
  <2> SUFFICES ASSUME NEW c \in Waiters, NEW k \in kids'[c]
               PROVE  parent'[k] = c /\ added'[k]
    OBVIOUS
  <2>1. CASE c = a
    <3>1. k \in L /\ k \in Waiters
      BY <1>1, <1>2, <2>1
    <3> QED
      BY <1>2, <2>1, <3>1
  <2>2. CASE c # a
    <3>1. k \in kids[c] /\ k \in Waiters /\ parent[k] = c /\ added[k]
      BY <1>2, <2>2 DEF LInv, Links, FInv, IInv, TypeOK, Waiters
    <3>2. k \notin L
      BY <3>1
    <3> QED
      BY <1>2, <3>1, <3>2
  <2> QED
    BY <2>1, <2>2
<1>5. \A x \in Waiters : parent'[x] # None => x \in kids'[parent'[x]]
  <2> SUFFICES ASSUME NEW x \in Waiters, parent'[x] # None
               PROVE  x \in kids'[parent'[x]]
    OBVIOUS
  <2>1. CASE x \in L
    BY <1>1, <1>2, <2>1
  <2>2. CASE x \notin L
    <3>1. /\ parent'[x] = parent[x] /\ x \in kids[parent[x]]
          /\ parent[x] \in Waiters
      BY <1>2, <2>2 DEF LInv, Links, FInv, IInv, TypeOK, Waiters
    <3> QED
      BY <1>1, <1>2, <3>1
  <2> QED
    BY <2>1, <2>2
<1>6. ASSUME NEW c \in Waiters, kids'[c] # {} PROVE c \in Combos /\ ~Idle(c)'
  <2>1. CASE c = a
    BY <1>1, <1>2, <2>1 DEF Idle
  <2>2. CASE c # a
    <3>1. c \in Combos /\ ~Idle(c)
      BY <1>2, <1>6, <2>2 DEF LInv, Links
    <3>2. PICK u \in live : susp[u] = c
      BY <3>1 DEF Idle
    <3>3. u \in Tasks /\ u # t
      BY <1>1, <3>1, <3>2 DEF LInv, FInv, IInv, TypeOK
    <3> QED
      BY <1>2, <3>1, <3>2, <3>3 DEF Idle
  <2> QED
    BY <2>1, <2>2
<1>7. \A x \in Waiters \ Anys : coro'[x] # None => added'[x]
  <2> SUFFICES ASSUME NEW x \in Waiters, x \notin Anys, coro'[x] # None
               PROVE  added'[x]
    OBVIOUS
  <2>1. CASE x = a
    <3>1. x \in L \cup S
      BY <2>1
    <3> QED
      BY <1>2, <3>1
  <2>2. CASE x # a
    <3>1. coro[x] # None
      BY <1>2, <2>2
    <3>2. added[x]
      BY <3>1 DEF LInv, Links
    <3> QED
      BY <1>2, <3>2
  <2> QED
    BY <2>1, <2>2
<1>8. \A u \in Tasks : susp'[u] \in Leaves => parent'[susp'[u]] = None
  <2> SUFFICES ASSUME NEW u \in Tasks, susp'[u] \in Leaves
               PROVE  parent'[susp'[u]] = None
    OBVIOUS
  <2>1. u # t /\ susp[u] \in Leaves /\ susp'[u] = susp[u] /\ parent[susp[u]] = None
    BY <1>1, <1>2 DEF LInv, Links
  <2>2. susp[u] \notin L
    BY <2>1, IdleLeaf
  <2> QED
    BY <1>2, <2>1, <2>2 DEF Waiters
<1>9. \A b \in Anys : left'[b] = Never /\ ~added'[b]
  BY <1>2, WaiterAssumption DEF LInv, Links, Waiters, Combos
<1> QED
  BY <1>3, <1>4, <1>5, <1>6, <1>7, <1>8, <1>9 DEF Links

LEMMA SuspendLinks ==
  ASSUME LInv, AnyWaits \subseteq {Never}, NEW t \in Tasks, Suspend(t)
  PROVE  Links'
<1> USE DEF taskVars, linkVars
<1>1. ASSUME NEW w \in Leaves, AwaitLeaf(t, w) PROVE Links'
  <2>1. /\ w \in Waiters /\ w # None /\ parent[w] = None
        /\ w \notin Combos /\ None \notin Waiters
    BY <1>1, IdleLeaf, WaiterAssumption DEF AwaitLeaf, Waiters
  <2>2. /\ \A x \in Waiters : added'[x] <=> added[x] \/ x = w
        /\ waiters' = waiters \cup {w} /\ UNCHANGED <<live, parent, kids, left>>
        /\ \A x \in Waiters : coro'[x] = IF x = w THEN t ELSE coro[x]
        /\ \A u \in Tasks : susp'[u] = IF u = t THEN w ELSE susp[u]
        /\ susp[t] = None
    <3>1. susp[t] = None
      BY <1>1, WaiterAssumption DEF AwaitLeaf, Running, LInv, FInv, IInv, Counts
    <3>2. /\ added' = [added EXCEPT ![w] = TRUE]
          /\ added \in [Waiters -> BOOLEAN]
      BY <1>1 DEF AwaitLeaf, LInv, FInv, IInv, TypeOK
    <3>3. /\ coro' = [coro EXCEPT ![w] = t] /\ susp' = [susp EXCEPT ![t] = w]
          /\ coro \in [Waiters -> Tasks \cup {None}]
          /\ susp \in [Tasks -> Waiters \cup {None}]
      BY <1>1 DEF AwaitLeaf, LInv, FInv, IInv, TypeOK
    <3>4. waiters' = waiters \cup {w} /\ UNCHANGED <<live, parent, kids, left>>
      BY <1>1 DEF AwaitLeaf
    <3> QED
      BY <2>1, <3>1, <3>2, <3>3, <3>4
  <2>3. ASSUME NEW c \in Combos, ~Idle(c) PROVE ~Idle(c)'
    <3>1. PICK u \in live : susp[u] = c
      BY <2>3 DEF Idle
    <3>2. u \in Tasks /\ u # t
      BY <2>1, <2>2, <3>1 DEF LInv, FInv, IInv, TypeOK, Waiters
    <3> QED
      BY <2>2, <3>1, <3>2 DEF Idle
  <2>4. \A c \in Waiters : \A k \in kids'[c] : parent'[k] = c /\ added'[k]
    BY <2>2 DEF LInv, Links, FInv, IInv, TypeOK, Waiters
  <2>5. \A x \in Waiters : added'[x] <=> x \in waiters'
    BY <2>2 DEF LInv, Links
  <2>6. \A x \in Waiters \ Anys : coro'[x] # None => added'[x]
    BY <2>2 DEF LInv, Links
  <2>7. \A a \in Anys : left'[a] = Never /\ ~added'[a]
    BY <2>1, <2>2 DEF LInv, Links, Waiters, Combos
  <2> QED
    BY <2>1, <2>2, <2>3, <2>4, <2>5, <2>6, <2>7 DEF LInv, Links
<1>2. ASSUME NEW a \in Anys, NEW K \in SUBSET Leaves, NEW d \in AnyWaits,
             AwaitAny(t, a, K, d)
      PROVE  Links'
  <2>1. /\ a \in Combos /\ Linked(K) \in SUBSET Leaves /\ {} = {a} \ Anys
        /\ \A k \in Linked(K) : ~added[k] /\ ~InUse(k)
    BY <1>2 DEF AwaitAny, Combos, Linked
  <2>2. \A b \in Anys : left'[b] = Never
    BY <1>2 DEF AwaitAny, LInv, Links, FInv, IInv, TypeOK, Waiters, Combos
  <2>3. /\ added' = Put(added, Linked(K) \cup {}, TRUE)
        /\ waiters' = waiters \cup Linked(K) \cup {}
    <3>1. Linked(K) \cup {} = Linked(K)
      OBVIOUS
    <3>2. waiters' = waiters \cup Linked(K)
      BY <1>2 DEF AwaitAny
    <3> QED
      BY <1>2, <3>1, <3>2 DEF AwaitAny
  <2>4. /\ parent' = Put(parent, Linked(K), a) /\ kids' = [kids EXCEPT ![a] = Linked(K)]
        /\ coro' = [coro EXCEPT ![a] = t] /\ susp' = [susp EXCEPT ![t] = a]
        /\ live' = live /\ Running(t) /\ Idle(a)
    BY <1>2 DEF AwaitAny
  <2> QED
    BY <2>1, <2>2, <2>3, <2>4, ComboLinks
<1>3. ASSUME NEW a \in Alls, NEW K \in SUBSET Leaves, NEW d \in AllWaits,
             AwaitAll(t, a, K, d)
      PROVE  Links'
  <2>1. /\ a \in Combos /\ Linked(K) \in SUBSET Leaves /\ {a} = {a} \ Anys
        /\ \A k \in Linked(K) : ~added[k] /\ ~InUse(k)
    BY <1>3, WaiterAssumption DEF AwaitAll, Combos, Linked
  <2>2. \A b \in Anys : left'[b] = Never
    BY <1>3, <2>1 DEF AwaitAll, LInv, Links, FInv, IInv, TypeOK, Waiters, Combos
  <2> QED
    BY <1>3, <2>1, <2>2, ComboLinks DEF AwaitAll
<1> QED
  BY <1>1, <1>2, <1>3 DEF Suspend

\* A co_await that does not suspend leaves the loop as it found it, but for a leaf
\* that it takes out.
LEMMA ReadyLinks ==
  ASSUME LInv, AnyWaits \subseteq {Never}, NEW t \in Tasks,
         \/ \E w \in Leaves : LeafReady(t, w)
         \/ \E a \in Anys, K \in SUBSET Leaves, d \in AnyWaits : AnyReady(t, a, K, d)
         \/ \E K \in SUBSET Leaves, d \in AllWaits : AllReady(t, K, d)
  PROVE  Links'
<1> USE DEF taskVars
<1>0. ASSUME NEW K \in SUBSET Leaves
      PROVE  Put(parent, Linked(K), None) = parent
  <2>1. \A k \in Linked(K) : k \in Waiters /\ parent[k] = None
    BY DEF Linked, LInv, Links, FInv, IInv, TypeOK, Waiters
  <2> QED
    BY <2>1 DEF Put, LInv, FInv, IInv, TypeOK
<1>1. ASSUME NEW w \in Leaves, LeafReady(t, w) PROVE Links'
  <2>1. parent[w] = None /\ coro[w] = None
    BY <1>1, IdleLeaf DEF LeafReady
  <2>2. parent' = parent /\ UNCHANGED <<live, susp, coro, kids, left>>
    BY <1>1, <2>1 DEF LeafReady, LInv, FInv, IInv, TypeOK, Waiters
  <2>3. Remove({w} \cap {x \in Leaves : added[x]})
    BY <1>1 DEF LeafReady
  <2> QED
    BY <2>1, <2>2, <2>3, RemoveLeafLinks DEF Idle
<1>2. ASSUME NEW a \in Anys, NEW K \in SUBSET Leaves, NEW d \in AnyWaits,
             AnyReady(t, a, K, d)
      PROVE  Links'
  <2> DEFINE polled == Put(result, {k \in Linked(K) : TimedOut(left[k])}, "timeout")
  <2>1. Skipped(Linked(K), polled, d) = {}
    BY <1>2 DEF Skipped, TimedOut
  <2>2. /\ parent' = Put(Put(parent, Linked(K) \ {}, None), {}, a)
        /\ waiters' = waiters \cup {} /\ added' = Put(added, {}, TRUE)
        /\ UNCHANGED <<live, finished, susp, coro, kids, left>>
    BY <1>2, <2>1 DEF AnyReady
  <2>3. Linked(K) \ {} = Linked(K)
    OBVIOUS
  <2>4. parent' = parent /\ waiters' = waiters /\ added' = added
    BY <1>0, <2>2, <2>3 DEF Put, LInv, FInv, IInv, TypeOK
  <2> QED
    BY <2>2, <2>4, QuietLinks
<1>3. ASSUME NEW K \in SUBSET Leaves, NEW d \in AllWaits, AllReady(t, K, d)
      PROVE  Links'
  BY <1>0, <1>3, QuietLinks DEF AllReady
<1> QED
  BY <1>1, <1>2, <1>3

LEMMA ResetLinks ==
  ASSUME LInv, "reset_in_use" \notin Allow,
         NEW w \in Leaves, NEW d \in Waits, Reset(w, d)
  PROVE  Links'
<1>1. /\ w \in Waiters /\ w \notin Anys /\ parent[w] = None /\ coro[w] = None
  BY IdleLeaf, WaiterAssumption DEF Reset, Waiters, Combos
<1>2. /\ Remove({w} \cap {x \in Leaves : added[x]})
      /\ parent' = parent /\ kids' = kids /\ coro' = coro
      /\ live' = live /\ susp' = susp
      /\ \A a \in Anys : left'[a] = left[a]
  BY <1>1 DEF Reset, LInv, FInv, IInv, TypeOK, taskVars, Waiters, Combos
<1> QED
  BY <1>1, <1>2, RemoveLeafLinks DEF Idle

LEMMA NextLinks ==
  ASSUME "reset_in_use" \notin Allow, AnyWaits \subseteq {Never}, LInv,
         [Next]_vars, ~ExitLoop
  PROVE  Links'
<1>1. CASE \/ Run \/ PollEvents \/ PollTimeout \/ PollInterrupted \/ LoopAgain
           \/ Tick \/ Expire \/ StepDone \/ SwapBatch
           \/ \E f \in Fds : FdReady(f) \/ FdIdle(f)
  BY <1>1, LoopLinks
<1>2. CASE Stop
  <2>1. UNCHANGED <<susp, live, finished, coro, waiters, added, parent, kids, left>>
    BY <1>2 DEF Stop, taskVars, runVars, wakeVars, listVars, linkVars
  <2> QED
    BY <2>1, QuietLinks
<1>3. CASE \/ \E w \in Leaves, r \in {"done", "error"} : DispatchEvent(w, r)
           \/ \E w \in Waiters : ProcessReady(w)
           \/ \E w \in Leaves, r \in {"done", "error", "cancelled"} :
                ClientComplete(w, r)
           \/ \E c \in Combos : CancelCombo(c)
           \/ \E t \in Tasks : Spawn(t) \/ Finish(t)
  BY <1>3, CompleteLinks
<1>4. ASSUME NEW t \in Tasks, Resume(t) PROVE Links'
  BY <1>4, ResumeLinks
<1>5. ASSUME NEW t \in Tasks, CoroutineStep(t) PROVE Links'
  BY <1>3, <1>5, SuspendLinks, ReadyLinks DEF CoroutineStep
<1>6. ASSUME NEW w \in Leaves, NEW d \in Waits, Reset(w, d) PROVE Links'
  BY <1>6, ResetLinks
<1>7. CASE UNCHANGED vars
  BY <1>7, QuietLinks
     DEF vars, loopVars, taskVars, runVars, wakeVars, listVars, linkVars
<1> QED
  BY <1>1, <1>2, <1>3, <1>4, <1>5, <1>6, <1>7 DEF Next, LoopStep, SharedStep

LEMMA InitLinks == Init => LInv
<1> SUFFICES ASSUME Init PROVE LInv
  OBVIOUS
<1>1. Links
  BY WaiterAssumption DEF Init, Links, Waiters, Combos
<1> QED
  BY <1>1, InitMoves DEF LInv

-----------------------------------------------------------------------------
(* Wakes: a task that is not running or queued is held by the waiter it     *)
(* awaits, and while a waiter holds a coroutine, what it waits for has not  *)
(* happened or is about to be processed.  Open children of a wait-for-all   *)
(* are enough for its count to reach the coroutine.                         *)

Open(a) == {k \in kids[a] : ~Final(k) \/ k \in ready}

Wakes ==
  /\ pc \in {"off", "step", "poll"} => ready = {}
  /\ ready \cap Anys = {}
  /\ \A t \in live \ finished : t \in Queued \/ t = cur \/ susp[t] # None
  /\ \A t \in Tasks : susp[t] # None => t \in Queued \/ coro[susp[t]] = t
  /\ \A w \in Waiters : coro[w] # None /\ Final(w) => w \in ready
  /\ \A a \in Anys : coro[a] # None \/ Idle(a) => count[a] = 1
  /\ \A a \in Anys : coro[a] # None => \A k \in kids[a] : Final(k) => k \in ready
  /\ \A a \in Alls : coro[a] # None => count[a] <= Cardinality(Open(a))

WInv == LInv /\ Wakes

\* A set of leaves that loses at most one element.
LEMMA OneLess ==
  ASSUME NEW S \in SUBSET Leaves, NEW T \in SUBSET Leaves, NEW w, S \ {w} \subseteq T
  PROVE  /\ Cardinality(S) \in Nat /\ Cardinality(T) \in Nat
         /\ Cardinality(S) - 1 <= Cardinality(T)
         /\ S \subseteq T => Cardinality(S) <= Cardinality(T)
<1>1. IsFiniteSet(S) /\ IsFiniteSet(T)
  BY WaiterAssumption, FS_Subset
<1>2. /\ Cardinality(S) \in Nat /\ Cardinality(T) \in Nat
      /\ Cardinality(S \ {w}) \in Nat /\ Cardinality(S \ {w}) <= Cardinality(T)
  BY <1>1, FS_Subset, FS_CardinalityType
<1>3. Cardinality(S \ {w}) >= Cardinality(S) - 1
  <2>1. Cardinality(S \ {w}) = IF w \in S THEN Cardinality(S) - 1 ELSE Cardinality(S)
    BY <1>1, FS_RemoveElement, Zenon
  <2> QED
    BY <1>2, <2>1
<1>4. S \subseteq T => Cardinality(S) <= Cardinality(T)
  BY <1>1, FS_Subset
<1> QED
  BY <1>2, <1>3, <1>4

\* The children of a combinator that a coroutine is suspended in.
LEMMA ChildrenInUse ==
  ASSUME LInv, NEW a \in Combos, coro[a] # None
  PROVE  /\ a \in Waiters /\ ~Idle(a) /\ kids[a] \in SUBSET Leaves
         /\ \A k \in kids[a] : k \in Waiters /\ InUse(k) /\ parent[k] = a
                               /\ coro[k] = None
<1>1. /\ a \in Waiters /\ kids[a] \in SUBSET Leaves
      /\ coro[a] \in live /\ susp[coro[a]] = a
  BY DEF Waiters, LInv, FInv, Frames, IInv, TypeOK, Places
<1>2. ~Idle(a)
  BY <1>1 DEF Idle
<1>3. \A k \in kids[a] : k \in Waiters /\ InUse(k) /\ parent[k] = a
  BY <1>1 DEF Waiters, LInv, Links, InUse
<1>4. ASSUME NEW k \in kids[a], coro[k] # None PROVE FALSE
  <2>1. k \in Waiters /\ k \in Leaves /\ parent[k] = a /\ a # None
    BY <1>1, <1>3, WaiterAssumption
  <2>2. coro[k] \in Tasks /\ susp[coro[k]] = k
    BY <1>4, <2>1 DEF LInv, FInv, Frames, IInv, TypeOK
  <2> QED
    BY <2>1, <2>2 DEF LInv, Links
<1> QED
  BY <1>1, <1>2, <1>3, <1>4

\* Nothing is awaited, completed or resumed.
LEMMA QuietWakes ==
  ASSUME WInv, UNCHANGED <<ready, susp, coro, kids, count, result>>,
         pc' \in {"off", "step", "poll"} => ready = {},
         live \ finished \subseteq live', Queued \subseteq Queued',
         \A t \in live' \ finished' : t \in Queued' \/ t = cur' \/ susp[t] # None
  PROVE  Wakes'
<1>1. \A c \in Combos : ~Idle(c) => ~Idle(c)'
  <2>1. None \notin Combos
    BY WaiterAssumption DEF Waiters
  <2> QED
    BY <2>1 DEF Idle, WInv, LInv, FInv, IInv, TypeOK, Counts
<1>2. \A a \in Alls : Open(a)' = Open(a)
  BY DEF Open, Final
<1>3. \A w : Final(w)' <=> Final(w)
  BY DEF Final
<1>4. \A t \in Tasks : susp'[t] # None => t \in Queued' \/ coro'[susp'[t]] = t
  BY DEF WInv, Wakes
<1> QED
  BY <1>1, <1>2, <1>3, <1>4 DEF WInv, Wakes, Combos

LEMMA LoopWakes ==
  ASSUME WInv,
         \/ Run \/ PollEvents \/ PollTimeout \/ PollInterrupted \/ LoopAgain
         \/ Tick \/ StepDone \/ SwapBatch
         \/ \E f \in Fds : FdReady(f) \/ FdIdle(f)
         \/ \E t \in Tasks : Spawn(t) \/ Finish(t)
  PROVE  Wakes'
<1> USE DEF loopVars, taskVars, runVars, pollVars, listVars, linkVars, wakeVars
<1>0. /\ pc \in {"off", "step", "poll"} => ready = {}
      /\ \A t \in live \ finished : t \in Queued \/ t = cur \/ susp[t] # None
  BY DEF WInv, Wakes
<1>1. CASE StepDone
  <2>1. Queued' = Queued
    BY <1>1 DEF StepDone, Queued
  <2> QED
    BY <1>0, <1>1, <2>1, QuietWakes DEF StepDone
<1>2. CASE Run \/ PollEvents \/ PollTimeout \/ PollInterrupted \/ LoopAgain
  <2>1. /\ UNCHANGED <<scheduled, batch, cur, susp, coro, kids, count, result,
                       live, finished, ready>>
        /\ pc' \in {"off", "step", "poll"} => ready = {}
    BY <1>0, <1>2 DEF Run, PollEvents, PollTimeout, PollInterrupted, LoopAgain
  <2>2. Queued' = Queued
    BY <2>1 DEF Queued
  <2> QED
    BY <1>0, <2>1, <2>2, QuietWakes
<1>3. CASE Tick \/ \E f \in Fds : FdReady(f) \/ FdIdle(f)
  <2>1. UNCHANGED <<scheduled, batch, cur, susp, coro, kids, count, result, pc,
                    live, finished, ready>>
    BY <1>3 DEF Tick, FdReady, FdIdle
  <2>2. Queued' = Queued
    BY <2>1 DEF Queued
  <2> QED
    BY <1>0, <2>1, <2>2, QuietWakes
<1>4. CASE SwapBatch
  <2>1. Queued' = Queued
    BY <1>4, EmptyHandles DEF SwapBatch, Queued
  <2> QED
    BY <1>0, <1>4, <2>1, QuietWakes DEF SwapBatch
<1>5. ASSUME NEW t \in Tasks, Spawn(t) PROVE Wakes'
  <2>1. scheduled \in Seq(Tasks)
    BY DEF WInv, LInv, FInv, IInv, TypeOK
  <2>2. Queued' = Queued \cup {t}
    BY <1>5, <2>1, EnqueueHandles, SMTT(30) DEF Spawn, Queued
  <2> QED
    BY <1>0, <1>5, <2>2, QuietWakes DEF Spawn
<1>6. ASSUME NEW t \in Tasks, Finish(t) PROVE Wakes'
  <2>1. Queued' = Queued
    BY <1>6 DEF Finish, Queued
  <2> QED
    BY <1>0, <1>6, <2>1, QuietWakes DEF Finish, Running
<1> QED
  BY <1>1, <1>2, <1>3, <1>4, <1>5, <1>6

\* complete() of w, which is handed over to, or taken from, the ready waiters.
LEMMA CompleteWakes ==
  ASSUME WInv, NEW w \in Waiters, w \notin Anys, NEW r \in Results, r # "waiting",
         Complete(w, r), UNCHANGED <<taskVars, batch, cur, susp, kids>>,
         ready' \subseteq ready \cup {w}, ready \ {w} \subseteq ready',
         pc' \in {"off", "step", "poll"} => ready' = {}
  PROVE  Wakes'
<1> DEFINE p       == parent[w]
           v       == IF p = None THEN w ELSE p
           reached == p = None \/ count[p] <= 1
           awaited == coro[v] # None
           wakes   == reached /\ awaited /\ ~sched[v]
<1>1. /\ v \in Waiters
      /\ v # w => v = parent[w] /\ v \in Combos /\ w \in kids[v] /\ w \in Leaves
      /\ v = w => parent[w] = None
      /\ parent[w] = None => v = w
      /\ parent[w] # None => v = parent[w]
  BY WaiterAssumption DEF WInv, LInv, Links, FInv, IInv, TypeOK, Waiters
<1>2. /\ result' = [x \in Waiters |-> IF x = w THEN r
                                      ELSE IF x = v /\ reached THEN "done"
                                      ELSE result[x]]
      /\ count' = IF reached => awaited THEN [count EXCEPT ![v] = @ - 1]
                                        ELSE count
      /\ sched' = IF wakes THEN [sched EXCEPT ![v] = TRUE] ELSE sched
      /\ coro' = IF wakes THEN [coro EXCEPT ![v] = None] ELSE coro
      /\ scheduled' = IF wakes THEN Enqueue(scheduled, coro[v]) ELSE scheduled
  BY DEF Complete
<1>3. awaited => ~sched[v]
  BY <1>1 DEF WInv, LInv, FInv, IInv, Counts
<1>4. (v = w => reached) /\ (v # w => (reached <=> count[v] <= 1))
  BY <1>1
<1> HIDE DEF p, v, reached, awaited, wakes
<1>5. \* What keeps its coroutine was not reached.
      \A x \in Waiters :
        /\ coro'[x] # None => coro'[x] = coro[x] /\ (x = v => ~reached)
        /\ x # v => coro'[x] = coro[x] /\ count'[x] = count[x]
  BY <1>1, <1>2, <1>3 DEF wakes, awaited, WInv, LInv, FInv, IInv, TypeOK
<1>6. \A x \in Waiters : x # w /\ (x = v => ~reached) => result'[x] = result[x]
  BY <1>2
<1>7. \A t \in Tasks : susp'[t] # None => t \in Queued' \/ coro'[susp'[t]] = t
  <2> SUFFICES ASSUME NEW t \in Tasks, susp[t] # None, t \notin Queued'
               PROVE  coro'[susp[t]] = t
    OBVIOUS
  <2>1. susp[t] \in Waiters
    BY DEF WInv, LInv, FInv, IInv, TypeOK
  <2>2. CASE wakes
    <3>1. coro[v] \in Tasks /\ scheduled \in Seq(Tasks)
      BY <1>1, <2>2 DEF wakes, awaited, WInv, LInv, FInv, IInv, TypeOK
    <3>2. Queued' = Queued \cup {coro[v]}
      <4>1. scheduled' = Enqueue(scheduled, coro[v]) /\ batch' = batch
        BY <1>2, <2>2
      <4>2. PICK t1 \in Tasks, q \in Seq(Tasks) : t1 = coro[v] /\ q = scheduled
        BY <3>1
      <4>3. Handles(Enqueue(q, t1)) = Handles(q) \cup {t1}
        BY EnqueueHandles
      <4>4. Handles(scheduled') = Handles(scheduled) \cup {coro[v]}
        BY <4>1, <4>2, <4>3
      <4> QED
        BY <4>1, <4>4 DEF Queued
    <3>3. coro[susp[t]] = t /\ t # coro[v]
      BY <3>2 DEF WInv, Wakes
    <3> QED
      BY <1>5, <2>1, <3>3
  <2>3. CASE ~wakes
    <3>1. Queued' = Queued /\ coro' = coro
      BY <1>2, <2>3 DEF Queued
    <3> QED
      BY <3>1 DEF WInv, Wakes
  <2> QED
    BY <2>2, <2>3
<1>8. \A t \in live' \ finished' : t \in Queued' \/ t = cur' \/ susp'[t] # None
  <2>1. Queued \subseteq Queued'
    <3>1. CASE wakes
      <4>1. coro[v] \in Tasks /\ scheduled \in Seq(Tasks)
        BY <1>1, <3>1 DEF wakes, awaited, WInv, LInv, FInv, IInv, TypeOK
      <4> QED
        BY <1>2, <3>1, <4>1, EnqueueHandles DEF Queued
    <3>2. CASE ~wakes
      BY <1>2, <3>2 DEF Queued
    <3> QED
      BY <3>1, <3>2
  <2> QED
    BY <2>1 DEF WInv, Wakes, taskVars
<1>9. \A x \in Waiters : coro'[x] # None /\ Final(x)' => x \in ready'
  <2> SUFFICES ASSUME NEW x \in Waiters, coro'[x] # None, Final(x)'
               PROVE  x \in ready'
    OBVIOUS
  <2>1. coro[x] # None /\ (x = v => ~reached)
    BY <1>5
  <2>2. x # w
    <3> SUFFICES ASSUME x = w PROVE FALSE
      OBVIOUS
    <3>1. v # w
      BY <1>4, <2>1
    <3>2. v \in Combos /\ w \in kids[v] /\ parent[w] # None
      BY <1>1, <3>1, WaiterAssumption DEF Waiters
    <3>3. w \in Leaves /\ coro[w] \in Tasks /\ susp[coro[w]] = w
      BY <1>1, <2>1, <3>1 DEF WInv, LInv, FInv, Frames, IInv, TypeOK
    <3> QED
      BY <3>2, <3>3 DEF WInv, LInv, Links
  <2>3. Final(x)
    BY <1>6, <2>1, <2>2 DEF Final
  <2> QED
    BY <2>1, <2>2, <2>3 DEF WInv, Wakes
<1>10. \A a \in Anys : (coro'[a] # None \/ Idle(a)') => count'[a] = 1 /\ a # v
  <2> SUFFICES ASSUME NEW a \in Anys, coro'[a] # None \/ Idle(a)'
               PROVE  count'[a] = 1 /\ a # v
    OBVIOUS
  <2>1. a \in Waiters /\ a \in Combos /\ a # w
    BY DEF Waiters, Combos
  <2>2. Idle(a)' <=> Idle(a)
    BY DEF Idle, taskVars
  <2>3. coro[a] # None \/ Idle(a)
    BY <1>5, <2>1, <2>2
  <2>4. count[a] = 1
    BY <2>3 DEF WInv, Wakes
  <2>5. a # v
    <3> SUFFICES ASSUME a = v PROVE FALSE
      OBVIOUS
    <3>1. ~Idle(a)
      BY <1>1, <2>1 DEF WInv, LInv, Links
    <3>2. coro'[a] # None
      BY <2>2, <3>1
    <3>3. ~reached
      BY <1>5, <2>1, <3>2
    <3> QED
      BY <1>4, <2>1, <2>4, <3>3
  <2> QED
    BY <1>5, <2>1, <2>4, <2>5
<1>11. \A a \in Anys : coro'[a] # None => \A k \in kids'[a] : Final(k)' => k \in ready'
  <2> SUFFICES ASSUME NEW a \in Anys, coro'[a] # None, NEW k \in kids[a], Final(k)'
               PROVE  k \in ready'
    OBVIOUS
  <2>1. a \in Combos /\ a \in Waiters /\ a # v /\ coro[a] # None
    BY <1>5, <1>10 DEF Waiters, Combos
  <2>2. k \in Waiters /\ k \in Leaves /\ parent[k] = a
    BY <2>1, ChildrenInUse DEF WInv
  <2>3. k # w /\ k # v
    BY <1>1, <2>1, <2>2, WaiterAssumption DEF Combos
  <2>4. Final(k)
    BY <1>6, <2>2, <2>3 DEF Final
  <2> QED
    BY <2>1, <2>3, <2>4 DEF WInv, Wakes
<1>12. \A a \in Alls : coro'[a] # None => count'[a] <= Cardinality(Open(a))'
  <2> SUFFICES ASSUME NEW a \in Alls, coro'[a] # None
               PROVE  count'[a] <= Cardinality(Open(a)')
    OBVIOUS
  <2>1. /\ a \in Combos /\ a \in Waiters /\ coro[a] # None
        /\ a = v => ~reached
    BY <1>5 DEF Waiters, Combos
  <2>2. \A k \in kids[a] : k \in Waiters /\ k \in Leaves /\ parent[k] = a
    BY <2>1, ChildrenInUse DEF WInv
  <2>3. \A k \in kids[a] : k # w => result'[k] = result[k] /\ (k \in ready <=> k \in ready')
    <3> SUFFICES ASSUME NEW k \in kids[a], k # w
                 PROVE  result'[k] = result[k] /\ (k \in ready <=> k \in ready')
      OBVIOUS
    <3>1. k # v
      BY <1>1, <2>2, WaiterAssumption DEF Combos
    <3> QED
      BY <1>6, <2>2, <3>1
  <2>4. Open(a) \ {w} \subseteq Open(a)'
    BY <2>3 DEF Open, Final
  <2>5. Open(a) \in SUBSET Leaves /\ Open(a)' \in SUBSET Leaves
    BY <2>2 DEF Open
  <2>6. count[a] <= Cardinality(Open(a)) /\ count[a] \in Nat
    BY <2>1 DEF WInv, Wakes, LInv, FInv, IInv, TypeOK
  <2> DEFINE S == Open(a)
             T == Open(a)'
  <2>7. /\ Cardinality(S) \in Nat /\ Cardinality(T) \in Nat
        /\ Cardinality(S) - 1 <= Cardinality(T)
        /\ S \subseteq T => Cardinality(S) <= Cardinality(T)
    <3> HIDE DEF S, T
    <3> QED
      BY <2>4, <2>5, OneLess DEF S, T
  <2>8. CASE a = v
    <3>1. ~reached /\ a # w
      BY <1>4, <2>1, <2>8
    <3>2. count'[a] = count[a] - 1
      BY <1>2, <2>1, <2>8, <3>1 DEF WInv, LInv, FInv, IInv, TypeOK
    <3> QED
      BY <2>6, <2>7, <3>2
  <2>9. CASE a # v
    <3>1. w \notin kids[a]
      BY <1>1, <2>1, <2>2, <2>9, WaiterAssumption DEF Waiters
    <3>2. S \subseteq T
      BY <2>4, <3>1 DEF Open
    <3> QED
      BY <1>5, <2>1, <2>6, <2>7, <2>9, <3>2
  <2> QED
    BY <2>8, <2>9
<1>13. ready' \cap Anys = {}
  BY DEF WInv, Wakes
<1> QED
  BY <1>7, <1>8, <1>9, <1>10, <1>11, <1>12, <1>13 DEF Wakes

LEMMA CompletionWakes ==
  ASSUME WInv,
         \/ \E w \in Leaves, r \in {"done", "error"} : DispatchEvent(w, r)
         \/ \E w \in Waiters : ProcessReady(w)
         \/ \E w \in Leaves, r \in {"done", "error", "cancelled"} :
              ClientComplete(w, r)
  PROVE  Wakes'
<1> USE DEF loopVars, taskVars, listVars, linkVars
<1>0. \A w \in Leaves : w \in Waiters /\ w \notin Anys
  BY WaiterAssumption DEF Waiters, Combos
<1>1. ASSUME NEW w \in Leaves, NEW r \in {"done", "error"}, DispatchEvent(w, r)
      PROVE  Wakes'
  <2>1. r \in Results /\ r # "waiting" /\ pc' = "dispatch"
    BY <1>1 DEF DispatchEvent, Results
  <2>2. /\ Complete(w, r) /\ UNCHANGED <<taskVars, batch, cur, susp, kids>>
        /\ ready' = ready \cup {w}
    BY <1>1 DEF DispatchEvent
  <2> QED
    BY <1>0, <2>1, <2>2, CompleteWakes
<1>2. ASSUME NEW w \in Waiters, ProcessReady(w) PROVE Wakes'
  <2>1. w \notin Anys /\ pc' = "process" /\ ready' = ready \ {w}
    BY <1>2 DEF ProcessReady, WInv, Wakes
  <2>2. CASE result[w] = "waiting"
    <3>1. UNCHANGED <<scheduled, batch, cur, susp, coro, kids, count, result, live,
                      finished>>
      BY <1>2, <2>2 DEF ProcessReady, wakeVars
    <3>2. Queued' = Queued
      BY <3>1 DEF Queued
    <3>3. /\ \A x : Final(x)' <=> Final(x)
          /\ \A x : x \in ready /\ Final(x) => x \in ready'
          /\ \A a : Open(a)' = Open(a)
      BY <2>1, <2>2, <3>1 DEF Final, Open
    <3>4. \A c \in Combos : Idle(c)' <=> Idle(c)
      BY <3>1 DEF Idle
    <3> QED
      BY <2>1, <3>1, <3>2, <3>3, <3>4 DEF WInv, Wakes, Combos
  <2>3. CASE result[w] # "waiting"
    <3>1. result[w] \in Results
      BY DEF WInv, LInv, FInv, IInv, TypeOK
    <3>2. Complete(w, result[w]) /\ UNCHANGED <<taskVars, batch, cur, susp, kids>>
      BY <1>2, <2>3 DEF ProcessReady
    <3> QED
      BY <2>1, <2>3, <3>1, <3>2, CompleteWakes
  <2> QED
    BY <2>2, <2>3
<1>3. ASSUME NEW w \in Leaves, NEW r \in {"done", "error", "cancelled"},
             ClientComplete(w, r)
      PROVE  Wakes'
  <2>1. r \in Results /\ r # "waiting" /\ ready' = ready /\ pc' = "step" /\ ready = {}
    BY <1>3 DEF ClientComplete, Results, pollVars, WInv, Wakes
  <2>2. Complete(w, r) /\ UNCHANGED <<taskVars, batch, cur, susp, kids>>
    BY <1>3 DEF ClientComplete
  <2> QED
    BY <1>0, <2>1, <2>2, CompleteWakes
<1> QED
  BY <1>1, <1>2, <1>3

\* run() completes the waiters whose deadline came: they are all ready then.
LEMMA ExpireWakes ==
  ASSUME WInv, Expire PROVE Wakes'
<1> USE DEF taskVars, runVars, listVars, linkVars
<1>1. /\ UNCHANGED <<scheduled, batch, cur, susp, coro, kids, count, live, finished>>
      /\ pc' = "process" /\ ready' = ready \cup Expired
  BY DEF Expire
<1>2. Expired \cap Anys = {} /\ Expired \subseteq Waiters
  BY DEF Expired, WInv, LInv, Links, FInv, IInv, TypeOK, Waiters, Combos
<1>3. Queued' = Queued
  BY <1>1 DEF Queued
<1>4. \A w \in Waiters : Final(w)' => Final(w) \/ w \in ready'
  BY <1>1, <1>2 DEF Expire, Final, Put, WInv, LInv, FInv, IInv, TypeOK
<1>5. ASSUME NEW a \in Alls, coro[a] # None
      PROVE  count'[a] <= Cardinality(Open(a))'
  <2>1. a \in Combos /\ kids[a] \in SUBSET Leaves /\ \A k \in kids[a] : k \in Waiters
    BY <1>5, ChildrenInUse DEF WInv, Combos
  <2>2. Open(a) \subseteq Open(a)' /\ Open(a) \in SUBSET Leaves /\ Open(a)' \in SUBSET Leaves
    BY <1>1, <1>4, <2>1 DEF Open
  <2>3. count'[a] = count[a] /\ count[a] \in Nat /\ count[a] <= Cardinality(Open(a))
    BY <1>1, <1>5 DEF WInv, Wakes, LInv, FInv, IInv, TypeOK, Waiters, Combos
  <2> DEFINE S == Open(a)
             T == Open(a)'
  <2>4. /\ Cardinality(S) \in Nat /\ Cardinality(T) \in Nat
        /\ S \subseteq T => Cardinality(S) <= Cardinality(T)
    <3>1. S \ {a} \subseteq T
      BY <2>2
    <3> HIDE DEF S, T
    <3> QED
      BY <2>2, <3>1, OneLess DEF S, T
  <2> QED
    BY <2>2, <2>3, <2>4
<1>6. \A c \in Combos : Idle(c)' <=> Idle(c)
  BY <1>1 DEF Idle
<1>7. \A a \in Anys : coro[a] # None => \A k \in kids[a] : k \in Waiters
  BY ChildrenInUse DEF WInv, Combos
<1> QED
  BY <1>1, <1>2, <1>3, <1>4, <1>5, <1>6, <1>7 DEF WInv, Wakes, Combos

\* Results and counts change for waiters only that no suspended task depends on.
LEMMA IdleResultsWakes ==
  ASSUME WInv, pc' = pc, pc = "step", ready' = ready,
         UNCHANGED <<susp, coro, live, finished>>, cur' = cur, Queued' = Queued,
         \A c \in Combos : kids'[c] = kids[c] /\ count'[c] = count[c]
                           /\ result'[c] = result[c],
         \A w \in Leaves : InUse(w) => result'[w] = result[w]
  PROVE  Wakes'
<1>1. ready = {}
  BY DEF WInv, Wakes
<1>2. \A w \in Waiters : coro[w] # None => result'[w] = result[w]
  <2> SUFFICES ASSUME NEW w \in Waiters, coro[w] # None, w \in Leaves PROVE InUse(w)
    BY DEF Waiters
  <2> QED
    BY IdleLeaf DEF WInv
<1>3. \A c \in Combos : coro[c] # None => \A k \in kids[c] : result'[k] = result[k]
  BY ChildrenInUse DEF WInv
<1>4. \A a \in Alls : coro[a] # None => Open(a)' = Open(a)
  BY <1>1, <1>3 DEF Open, Final, Combos
<1>5. \A c \in Combos : Idle(c)' <=> Idle(c)
  BY DEF Idle
<1>6. \A a \in Alls : coro'[a] # None => count'[a] <= Cardinality(Open(a))'
  BY <1>4 DEF WInv, Wakes, Combos
<1>7. \A w \in Waiters : coro'[w] # None /\ Final(w)' => w \in ready'
  BY <1>2 DEF WInv, Wakes, Final
<1>8. \A a \in Anys : coro'[a] # None => \A k \in kids'[a] : Final(k)' => k \in ready'
  BY <1>3 DEF WInv, Wakes, Final, Combos
<1>9. \A a \in Anys : coro'[a] # None \/ Idle(a)' => count'[a] = 1
  BY <1>5 DEF WInv, Wakes, Combos
<1> QED
  BY <1>1, <1>6, <1>7, <1>8, <1>9 DEF WInv, Wakes

\* No coroutine is suspended in a leaf that is linked to a combinator.
LEMMA ChildLinks ==
  ASSUME LInv, NEW c \in Waiters, NEW k \in kids[c]
  PROVE  k \in Leaves /\ k \in Waiters /\ parent[k] = c /\ coro[k] = None
<1>1. k \in Leaves /\ k \in Waiters /\ parent[k] = c /\ c # None
  BY WaiterAssumption DEF LInv, Links, FInv, IInv, TypeOK, Waiters
<1>2. coro[k] # None => coro[k] \in Tasks /\ susp[coro[k]] = k
  BY <1>1 DEF LInv, FInv, Frames, IInv, TypeOK
<1> QED
  BY <1>1, <1>2 DEF LInv, Links

LEMMA ReadyWakes ==
  ASSUME WInv, NEW t \in Tasks,
         \/ \E w \in Leaves : LeafReady(t, w)
         \/ \E a \in Anys, K \in SUBSET Leaves, d \in AnyWaits : AnyReady(t, a, K, d)
         \/ \E K \in SUBSET Leaves, d \in AllWaits : AllReady(t, K, d)
  PROVE  Wakes'
<1> USE DEF taskVars, pollVars, loopVars
<1>0. ASSUME NEW R \in SUBSET Waiters, NEW L \in SUBSET Leaves, Running(t),
             scheduled' = Descheduled(scheduled, {coro[w] : w \in R}),
             UNCHANGED <<loopVars, taskVars, batch, cur, susp, pollVars, kids, coro,
                         count>>,
             \A w \in Waiters \ L : result'[w] = result[w],
             \A w \in L : ~InUse(w)
      PROVE  Wakes'
  <2>1. scheduled' = scheduled
    BY <1>0, NothingToDeschedule DEF WInv, LInv, FInv, IInv
  <2>2. Queued' = Queued
    BY <1>0, <2>1 DEF Queued
  <2>3. \A c \in Combos : result'[c] = result[c]
    BY <1>0, WaiterAssumption DEF Waiters
  <2> QED
    BY <1>0, <2>2, <2>3, IdleResultsWakes DEF Running, Waiters
<1>1. ASSUME NEW w \in Leaves, LeafReady(t, w) PROVE Wakes'
  <2>1. {w} \cap {x \in Leaves : added[x]} \in SUBSET Waiters
    BY DEF Waiters
  <2>2. \A x \in Waiters \ {w} : result'[x] = result[x]
    BY <1>1 DEF LeafReady, WInv, LInv, FInv, IInv, TypeOK
  <2>3. {w} \in SUBSET Leaves /\ \A x \in {w} : ~InUse(x)
    BY <1>1 DEF LeafReady
  <2> QED
    BY <1>0, <1>1, <2>1, <2>2, <2>3 DEF LeafReady, Remove
<1>2. ASSUME NEW a \in Anys, NEW K \in SUBSET Leaves, NEW d \in AnyWaits,
             AnyReady(t, a, K, d)
      PROVE  Wakes'
  <2>1. \A S : Linked(K) \ S \in SUBSET Waiters
    BY DEF Linked, Waiters
  <2>2. \A x \in Waiters \ K : result'[x] = result[x]
    BY <1>2 DEF AnyReady, Put, Linked, WInv, LInv, FInv, IInv, TypeOK
  <2> QED
    BY <1>0, <1>2, <2>1, <2>2 DEF AnyReady
<1>3. ASSUME NEW K \in SUBSET Leaves, NEW d \in AllWaits, AllReady(t, K, d)
      PROVE  Wakes'
  <2>1. Linked(K) \in SUBSET Waiters
    BY DEF Linked, Waiters
  <2>2. \A x \in Waiters \ K : result'[x] = result[x]
    BY <1>3 DEF AllReady, Put, Linked, WInv, LInv, FInv, IInv, TypeOK
  <2> QED
    BY <1>0, <1>3, <2>1, <2>2 DEF AllReady
<1> QED
  BY <1>1, <1>2, <1>3

LEMMA ResetWakes ==
  ASSUME WInv, "reset_in_use" \notin Allow,
         NEW w \in Leaves, NEW d \in Waits, Reset(w, d)
  PROVE  Wakes'
<1>1. /\ w \in Waiters /\ w \notin Combos /\ parent[w] = None /\ coro[w] = None
      /\ ~InUse(w)
  BY IdleLeaf, WaiterAssumption DEF Reset, Waiters, WInv
<1>2. /\ kids' = kids /\ coro' = coro
      /\ UNCHANGED <<live, finished, susp, batch, cur, ready, pc>> /\ pc = "step"
      /\ \A x \in Waiters : x # w => result'[x] = result[x] /\ count'[x] = count[x]
  BY <1>1 DEF Reset, WInv, LInv, FInv, IInv, TypeOK, taskVars, loopVars, pollVars
<1>3. scheduled' = scheduled
  <2>1. {w} \cap {x \in Leaves : added[x]} \in SUBSET Waiters
    BY DEF Waiters
  <2> QED
    BY <2>1, RemoveTypes DEF Reset, WInv, LInv, FInv
<1>4. Queued' = Queued
  BY <1>2, <1>3 DEF Queued
<1> QED
  BY <1>1, <1>2, <1>4, IdleResultsWakes DEF Waiters

LEMMA CancelWakes ==
  ASSUME WInv, NEW c \in Combos, CancelCombo(c) PROVE Wakes'
<1>1. /\ c \in Waiters /\ c \notin Leaves /\ ~Idle(c)
      /\ pc' = "step" /\ pc = "step"
      /\ UNCHANGED <<ready, susp, kids, live, finished, cur, batch>>
      /\ coro[c] # None => ~sched[c]
  BY WaiterAssumption
     DEF CancelCombo, Waiters, loopVars, taskVars, pollVars, linkVars,
         WInv, LInv, FInv, IInv, Counts
<1>2. ready = {}
  BY <1>1 DEF WInv, Wakes
<1>3. \A x \in Waiters : x # c /\ x \notin kids[c] => result'[x] = result[x]
  BY DEF CancelCombo, Put, WInv, LInv, FInv, IInv, TypeOK
<1>4. \A x \in Waiters : x # c => count'[x] = count[x]
  BY DEF CancelCombo, WInv, LInv, FInv, IInv, TypeOK
<1>5. /\ coro'[c] = None /\ \A x \in Waiters : x # c => coro'[x] = coro[x]
      /\ Queued' = IF coro[c] # None THEN Queued \cup {coro[c]} ELSE Queued
  <2>1. CASE coro[c] # None
    <3>1. /\ scheduled' = Enqueue(scheduled, coro[c])
          /\ coro' = [coro EXCEPT ![c] = None]
      BY <1>1, <2>1 DEF CancelCombo
    <3>2. coro[c] \in Tasks /\ scheduled \in Seq(Tasks)
      BY <1>1, <2>1 DEF WInv, LInv, FInv, IInv, TypeOK
    <3>3. Queued' = Queued \cup {coro[c]}
      BY <1>1, <3>1, <3>2, EnqueueHandles DEF Queued
    <3> QED
      BY <1>1, <2>1, <3>1, <3>3 DEF WInv, LInv, FInv, IInv, TypeOK
  <2>2. CASE coro[c] = None
    <3>1. scheduled' = scheduled /\ coro' = coro
      BY <2>2 DEF CancelCombo
    <3> QED
      BY <1>1, <2>2, <3>1 DEF Queued
  <2> QED
    BY <2>1, <2>2
<1>6. \A k \in kids[c] : coro[k] = None /\ parent[k] = c
  BY <1>1, ChildLinks DEF WInv
<1>7. \A x \in Waiters : coro'[x] # None => coro[x] # None /\ x # c /\ result'[x] = result[x]
  BY <1>3, <1>5, <1>6
<1>8. \A a \in Combos : coro'[a] # None =>
        /\ a # c /\ coro[a] # None /\ count'[a] = count[a]
        /\ \A k \in kids[a] : result'[k] = result[k]
  <2> SUFFICES ASSUME NEW a \in Combos, coro'[a] # None
               PROVE  /\ a # c /\ coro[a] # None /\ count'[a] = count[a]
                      /\ \A k \in kids[a] : result'[k] = result[k]
    OBVIOUS
  <2>1. a \in Waiters /\ a # c /\ coro[a] # None
    BY <1>7 DEF Waiters
  <2>2. \A k \in kids[a] : k \in Waiters /\ k \in Leaves /\ parent[k] = a
    BY <2>1, ChildLinks DEF WInv
  <2> QED
    BY <1>1, <1>3, <1>4, <1>6, <2>1, <2>2
<1>9. \A a \in Alls : coro'[a] # None => count'[a] <= Cardinality(Open(a))'
  <2> SUFFICES ASSUME NEW a \in Alls, coro'[a] # None
               PROVE  count'[a] <= Cardinality(Open(a)')
    OBVIOUS
  <2>1. Open(a)' = Open(a) /\ coro[a] # None /\ count'[a] = count[a]
    BY <1>1, <1>2, <1>8 DEF Open, Final, Combos
  <2> QED
    BY <2>1 DEF WInv, Wakes
<1>10. \A a \in Anys : coro'[a] # None \/ Idle(a)' => count'[a] = 1
  <2>1. \A a \in Combos : Idle(a)' <=> Idle(a)
    BY <1>1 DEF Idle
  <2> QED
    BY <1>1, <1>4, <1>8, <2>1 DEF WInv, Wakes, Combos, Waiters
<1>11. \A t \in Tasks : susp'[t] # None => t \in Queued' \/ coro'[susp'[t]] = t
  <2> SUFFICES ASSUME NEW t \in Tasks, susp[t] # None, t \notin Queued'
               PROVE  coro'[susp[t]] = t
    BY <1>1
  <2>1. susp[t] \in Waiters /\ coro[susp[t]] = t
    BY <1>5 DEF WInv, Wakes, LInv, FInv, IInv, TypeOK
  <2>2. susp[t] # c
    BY <1>5, <2>1, WaiterAssumption
  <2> QED
    BY <1>5, <2>1, <2>2
<1>12. \A x \in Waiters : coro'[x] # None /\ Final(x)' => x \in ready'
  BY <1>1, <1>7 DEF WInv, Wakes, Final
<1>13. \A a \in Anys : coro'[a] # None => \A k \in kids'[a] : Final(k)' => k \in ready'
  BY <1>1, <1>8 DEF WInv, Wakes, Final, Combos
<1>14. \A t \in live' \ finished' : t \in Queued' \/ t = cur' \/ susp'[t] # None
  BY <1>1, <1>5 DEF WInv, Wakes
<1> QED
  BY <1>1, <1>2, <1>9, <1>10, <1>11, <1>12, <1>13, <1>14 DEF Wakes

\* A handle of the batch is the first or one of the others.
LEMMA HeadAndTail ==
  ASSUME NEW S, NEW q \in Seq(S), q # <<>>
  PROVE  Handles(q) \subseteq {Head(q)} \cup Handles(Tail(q))
<1>1. /\ Head(q) = q[1] /\ Len(q) \in Nat /\ Len(Tail(q)) = Len(q) - 1
      /\ \A i \in 1..Len(Tail(q)) : Tail(q)[i] = q[i + 1]
  BY HeadTailProperties, EmptySeq, LenProperties
<1>2. ASSUME NEW i \in 1..Len(q), i # 1 PROVE q[i] \in Handles(Tail(q))
  <2>1. i - 1 \in 1..Len(Tail(q)) /\ Tail(q)[i - 1] = q[i]
    BY <1>1, <1>2
  <2> QED
    BY <2>1 DEF Handles
<1> QED
  BY <1>1, <1>2 DEF Handles

\* What await_resume of t writes: results of the combinator and its children, and
\* the combinator's own fields.
LEMMA ResumeResults ==
  ASSUME LInv, NEW t \in Tasks, Resume(t)
  PROVE  \A x \in Waiters :
           /\ x # susp[t] /\ (susp[t] \in Combos => x \notin kids[susp[t]])
                => result'[x] = result[x]
           /\ x # susp[t] => count'[x] = count[x]
           /\ x # susp[t] => kids'[x] = kids[x]
           /\ x = susp[t] /\ x \in Anys => count'[x] = 1
<1>1. CASE ResumeStart(t)
  BY <1>1, WaiterAssumption DEF ResumeStart, linkVars, wakeVars
<1>2. CASE ResumeLeaf(t)
  <2>1. susp[t] \in Leaves /\ susp[t] \in Waiters /\ parent[susp[t]] = None
    BY <1>2 DEF ResumeLeaf, LInv, Links, Waiters
  <2>2. kids' = kids /\ result' = result /\ count' = count
    BY <1>2, <2>1 DEF ResumeLeaf, wakeVars
  <2> QED
    BY <2>1, <2>2, WaiterAssumption DEF Combos
<1>3. CASE ResumeAny(t) \/ ResumeAll(t)
  <2> DEFINE a == susp[t]
  <2>1. a \in Combos /\ a \in Waiters /\ Destroyed({a})
    BY <1>3 DEF ResumeAny, ResumeAll, Combos, Waiters
  <2>2. \A x \in Waiters : x # a /\ x \notin kids[a] => result'[x] = result[x]
    BY <1>3 DEF ResumeAny, ResumeAll, Put, LInv, FInv, IInv, TypeOK
  <2> HIDE DEF a
  <2>3. \A x \in Waiters : /\ count'[x] = IF x = a THEN 1 ELSE count[x]
                           /\ kids'[x] = IF x = a THEN {} ELSE kids[x]
    BY <2>1 DEF Destroyed, Put, LInv, FInv, IInv, TypeOK
  <2> QED
    BY <2>1, <2>2, <2>3 DEF a
<1> QED
  BY <1>1, <1>2, <1>3 DEF Resume

LEMMA ResumeWakes ==
  ASSUME WInv, NEW t \in Tasks, Resume(t) PROVE Wakes'
<1> DEFINE a == susp[t]
<1>1. /\ Dispatch(t) /\ UNCHANGED <<loopState, pc, live, finished, ready, coro>>
      /\ \A u \in Tasks : susp'[u] = IF u = t THEN None ELSE susp[u]
      /\ scheduled' = scheduled /\ batch # <<>> /\ t \in live
      /\ \A w \in Waiters : coro[w] # t
  BY ResumeShape DEF WInv, LInv, FInv, IInv, TypeOK, loopVars, taskVars, pollVars
<1>2. pc = "step" /\ ready = {} /\ cur' = t
  BY <1>1 DEF Dispatch, WInv, Wakes
<1>3. Queued \subseteq Queued' \cup {t}
  <2>1. batch \in Seq(Tasks) /\ batch' = Tail(batch) /\ t = Head(batch)
    BY <1>1 DEF Dispatch, WInv, LInv, FInv, IInv, TypeOK
  <2>2. Handles(batch) \subseteq {t} \cup Handles(batch')
    BY <1>1, <2>1, HeadAndTail
  <2> QED
    BY <1>1, <2>2 DEF Queued
<1>4. \A x \in Waiters :
        /\ x # a /\ (a \in Combos => x \notin kids[a]) => result'[x] = result[x]
        /\ x # a => count'[x] = count[x] /\ kids'[x] = kids[x]
        /\ x = a /\ x \in Anys => count'[x] = 1
  BY ResumeResults DEF WInv
<1>5. a \in Waiters => coro[a] = None
  <2> SUFFICES ASSUME a \in Waiters, coro[a] # None PROVE FALSE
    OBVIOUS
  <2>1. coro[a] \in Tasks /\ susp[coro[a]] = a /\ a # None
    BY WaiterAssumption DEF WInv, LInv, FInv, Frames, IInv, TypeOK
  <2> QED
    BY <1>1, <2>1 DEF WInv, LInv, FInv, Frames
<1>6. a \in Combos => a \in Waiters /\ \A k \in kids[a] : coro[k] = None /\ parent[k] = a
  BY ChildLinks DEF WInv, Waiters
<1> HIDE DEF a
<1>7. \A x \in Waiters : coro[x] # None => x # a /\ result'[x] = result[x]
  BY <1>4, <1>5, <1>6
<1>8. \A c \in Combos : coro[c] # None =>
        /\ count'[c] = count[c] /\ kids'[c] = kids[c]
        /\ \A k \in kids[c] : result'[k] = result[k]
  <2> SUFFICES ASSUME NEW c \in Combos, coro[c] # None
               PROVE  /\ count'[c] = count[c] /\ kids'[c] = kids[c]
                      /\ \A k \in kids[c] : result'[k] = result[k]
    OBVIOUS
  <2>1. c \in Waiters /\ c # a
    BY <1>7 DEF Waiters
  <2>2. \A k \in kids[c] : k \in Waiters /\ k \in Leaves /\ parent[k] = c
    BY <2>1, ChildLinks DEF WInv
  <2>3. \A k \in kids[c] : k # a
    <3> SUFFICES ASSUME NEW k \in kids[c], k = a PROVE FALSE
      OBVIOUS
    <3>1. parent[k] = None
      BY <2>2 DEF a, WInv, LInv, Links
    <3> QED
      BY <2>1, <2>2, <3>1, WaiterAssumption
  <2>4. \A k \in kids[c] : a \in Combos => k \notin kids[a]
    BY <1>6, <2>1, <2>2
  <2> QED
    BY <1>4, <2>1, <2>2, <2>3, <2>4
<1>9. \A c \in Alls : coro'[c] # None => count'[c] <= Cardinality(Open(c))'
  <2> SUFFICES ASSUME NEW c \in Alls, coro[c] # None
               PROVE  count'[c] <= Cardinality(Open(c)')
    BY <1>1
  <2>1. Open(c)' = Open(c) /\ count'[c] = count[c]
    BY <1>1, <1>2, <1>8 DEF Open, Final, Combos
  <2> QED
    BY <2>1 DEF WInv, Wakes
<1>10. \A c \in Anys : coro'[c] # None \/ Idle(c)' => count'[c] = 1
  <2> SUFFICES ASSUME NEW c \in Anys, coro[c] # None \/ Idle(c)' PROVE count'[c] = 1
    BY <1>1
  <2>1. c \in Combos /\ c \in Waiters
    BY DEF Combos, Waiters
  <2>2. CASE coro[c] # None
    BY <1>8, <2>1, <2>2 DEF WInv, Wakes
  <2>3. CASE c = a
    BY <1>4, <2>1, <2>3
  <2>4. CASE c # a /\ Idle(c)'
    <3>1. Idle(c)
      BY <1>1, <2>4 DEF Idle, a, WInv, LInv, FInv, IInv, TypeOK
    <3> QED
      BY <1>4, <2>1, <2>4, <3>1 DEF WInv, Wakes
  <2> QED
    BY <2>2, <2>3, <2>4
<1>11. \A u \in Tasks : susp'[u] # None => u \in Queued' \/ coro'[susp'[u]] = u
  BY <1>1, <1>3 DEF WInv, Wakes
<1>12. \A x \in Waiters : coro'[x] # None /\ Final(x)' => x \in ready'
  BY <1>1, <1>7 DEF WInv, Wakes, Final
<1>13. \A c \in Anys : coro'[c] # None => \A k \in kids'[c] : Final(k)' => k \in ready'
  BY <1>1, <1>8 DEF WInv, Wakes, Final, Combos
<1>14. \A u \in live' \ finished' : u \in Queued' \/ u = cur' \/ susp'[u] # None
  <2> SUFFICES ASSUME NEW u \in live \ finished, u # t
               PROVE  u \in Queued' \/ susp'[u] # None
    BY <1>1, <1>2
  <2>1. u \in Tasks /\ u # cur
    BY <1>1, WaiterAssumption DEF Dispatch, WInv, LInv, FInv, IInv, TypeOK
  <2> QED
    BY <1>1, <1>3, <2>1 DEF WInv, Wakes
<1> QED
  BY <1>1, <1>2, <1>9, <1>10, <1>11, <1>12, <1>13, <1>14 DEF Wakes

\* A coroutine that suspends in w, whose condition does not hold yet.
LEMMA BlockWakes ==
  ASSUME WInv, NEW t \in Tasks, Running(t), NEW w \in Waiters,
         \A u \in live : susp[u] # w,
         coro' = [coro EXCEPT ![w] = t], susp' = [susp EXCEPT ![t] = w],
         cur' = None, UNCHANGED <<pc, live, finished, scheduled, batch, ready>>,
         result'[w] = "waiting",
         \A x \in Waiters : x # w => kids'[x] = kids[x] /\ count'[x] = count[x]
                                     /\ result'[x] = result[x],
         \A x \in Leaves : result'[x] = result[x],
         w \in Anys => /\ count'[w] = 1
                       /\ \A k \in kids'[w] : result'[k] = "waiting",
         w \in Alls =>
           count'[w] <= Cardinality({k \in kids'[w] : result'[k] = "waiting"})
  PROVE  Wakes'
<1>1. /\ pc = "step" /\ ready = {} /\ t = cur /\ t # None /\ susp[t] = None
      /\ t \in live /\ w # None
  BY WaiterAssumption DEF Running, WInv, Wakes, LInv, FInv, IInv, Counts, Places
<1>2. /\ \A x \in Waiters : coro'[x] = IF x = w THEN t ELSE coro[x]
      /\ \A u \in Tasks : susp'[u] = IF u = t THEN w ELSE susp[u]
      /\ Queued' = Queued
  BY DEF WInv, LInv, FInv, IInv, TypeOK, Queued
<1>3. \A u \in live' \ finished' : u \in Queued' \/ u = cur' \/ susp'[u] # None
  <2> SUFFICES ASSUME NEW u \in live \ finished
               PROVE  u \in Queued \/ susp'[u] # None
    BY <1>2
  <2>1. u \in Tasks
    BY DEF WInv, LInv, FInv, IInv, TypeOK
  <2> QED
    BY <1>1, <1>2, <2>1 DEF WInv, Wakes
<1>4. \A u \in Tasks : susp'[u] # None => u \in Queued' \/ coro'[susp'[u]] = u
  <2> SUFFICES ASSUME NEW u \in Tasks, susp'[u] # None, u \notin Queued
               PROVE  coro'[susp'[u]] = u
    BY <1>2
  <2>1. CASE u = t
    BY <1>2, <2>1
  <2>2. CASE u # t
    <3>1. susp'[u] = susp[u] /\ susp[u] \in Waiters /\ u \in live /\ coro[susp[u]] = u
      BY <1>2, <2>2 DEF WInv, Wakes, LInv, FInv, Frames, IInv, TypeOK
    <3> QED
      BY <1>2, <3>1
  <2> QED
    BY <2>1, <2>2
<1>5. \A x \in Waiters : coro'[x] # None /\ Final(x)' => x \in ready'
  BY <1>2 DEF Final, WInv, Wakes
<1>6. \A c \in Combos : c # w /\ coro'[c] # None =>
        /\ coro[c] # None /\ kids'[c] = kids[c] /\ count'[c] = count[c]
        /\ \A k \in kids[c] : result'[k] = result[k]
  <2> SUFFICES ASSUME NEW c \in Combos, c # w, coro'[c] # None
               PROVE  /\ coro[c] # None /\ kids'[c] = kids[c] /\ count'[c] = count[c]
                      /\ \A k \in kids[c] : result'[k] = result[k]
    OBVIOUS
  <2>1. c \in Waiters /\ coro[c] # None
    BY <1>2 DEF Waiters
  <2> QED
    BY <2>1, ChildLinks DEF WInv
<1>7. \A a \in Anys : coro'[a] # None \/ Idle(a)' => count'[a] = 1
  <2> SUFFICES ASSUME NEW a \in Anys, a # w, coro'[a] # None \/ Idle(a)'
               PROVE  count'[a] = 1
    OBVIOUS
  <2>1. a \in Waiters
    BY DEF Waiters, Combos
  <2>2. Idle(a)' => Idle(a)
    <3>1. \A u \in live : u \in Tasks /\ (u = t => susp[u] # a)
      BY <1>1, <2>1, WaiterAssumption DEF WInv, LInv, FInv, IInv, TypeOK
    <3> QED
      BY <1>2, <3>1 DEF Idle
  <2> QED
    BY <1>2, <2>1, <2>2 DEF WInv, Wakes
<1>8. \A a \in Anys : coro'[a] # None => \A k \in kids'[a] : Final(k)' => k \in ready'
  <2> SUFFICES ASSUME NEW a \in Anys, coro'[a] # None
               PROVE  \A k \in kids'[a] : Final(k)' => k \in ready'
    OBVIOUS
  <2>1. CASE a = w
    BY <2>1 DEF Final
  <2>2. CASE a # w
    BY <1>6, <2>2 DEF Final, WInv, Wakes, Combos
  <2> QED
    BY <2>1, <2>2
<1>9. \A a \in Alls : coro'[a] # None => count'[a] <= Cardinality(Open(a))'
  <2> SUFFICES ASSUME NEW a \in Alls, coro'[a] # None
               PROVE  count'[a] <= Cardinality(Open(a)')
    OBVIOUS
  <2>1. CASE a = w
    <3>1. Open(a)' = {k \in kids'[a] : result'[k] = "waiting"}
      BY <1>1 DEF Open, Final
    <3> QED
      BY <2>1, <3>1
  <2>2. CASE a # w
    <3>1. Open(a)' = Open(a) /\ coro[a] # None /\ count'[a] = count[a]
      BY <1>1, <1>6, <2>2 DEF Open, Final, Combos
    <3> QED
      BY <3>1 DEF WInv, Wakes
  <2> QED
    BY <2>1, <2>2
<1> QED
  BY <1>1, <1>3, <1>4, <1>5, <1>7, <1>8, <1>9 DEF Wakes

LEMMA SuspendWakes ==
  ASSUME WInv, NEW t \in Tasks, Suspend(t) PROVE Wakes'
<1> USE DEF taskVars, loopVars, pollVars, linkVars
<1>1. ASSUME NEW w \in Leaves, AwaitLeaf(t, w) PROVE Wakes'
  <2>1. w \in Waiters /\ w \notin Anys /\ w \notin Alls
    BY WaiterAssumption DEF Waiters, Combos
  <2>2. \A u \in live : susp[u] # w
    BY <1>1 DEF AwaitLeaf, InUse
  <2> QED
    BY <1>1, <2>1, <2>2, BlockWakes DEF AwaitLeaf
<1>2. ASSUME NEW a \in Combos, NEW L \in SUBSET Leaves, Idle(a), Running(t),
             kids' = [kids EXCEPT ![a] = L],
             result' = [result EXCEPT ![a] = "waiting"],
             coro' = [coro EXCEPT ![a] = t], susp' = [susp EXCEPT ![t] = a],
             cur' = None, UNCHANGED <<pc, live, finished, scheduled, batch, ready>>
      PROVE  /\ a \in Waiters /\ a \notin Leaves /\ \A u \in live : susp[u] # a
             /\ result'[a] = "waiting" /\ kids'[a] = L
             /\ \A x \in Waiters : x # a => kids'[x] = kids[x] /\ result'[x] = result[x]
             /\ \A x \in Leaves : result'[x] = result[x]
  <2>1. a \in Waiters /\ a \notin Leaves /\ Leaves \subseteq Waiters
    BY WaiterAssumption DEF Waiters
  <2> QED
    BY <1>2, <2>1 DEF Idle, WInv, LInv, FInv, IInv, TypeOK
<1>3. ASSUME NEW a \in Anys, NEW K \in SUBSET Leaves, NEW d \in AnyWaits,
             AwaitAny(t, a, K, d)
      PROVE  Wakes'
  <2>1. a \in Combos /\ a \notin Alls /\ Linked(K) \in SUBSET Leaves
    BY WaiterAssumption DEF Combos, Linked
  <2>2. /\ Idle(a) /\ Running(t) /\ kids' = [kids EXCEPT ![a] = Linked(K)]
        /\ result' = [result EXCEPT ![a] = "waiting"]
        /\ coro' = [coro EXCEPT ![a] = t] /\ susp' = [susp EXCEPT ![t] = a]
        /\ cur' = None /\ UNCHANGED <<pc, live, finished, scheduled, batch, ready>>
        /\ count' = count /\ \A k \in Linked(K) : result[k] = "waiting"
    BY <1>3 DEF AwaitAny
  <2>3. count[a] = 1
    BY <2>2 DEF WInv, Wakes
  <2>4. /\ a \in Waiters /\ a \notin Leaves /\ \A u \in live : susp[u] # a
        /\ result'[a] = "waiting" /\ kids'[a] = Linked(K)
        /\ \A x \in Waiters : x # a => kids'[x] = kids[x] /\ result'[x] = result[x]
        /\ \A x \in Leaves : result'[x] = result[x]
    BY <1>2, <2>1, <2>2
  <2>5. /\ a \notin Alls /\ count'[a] = 1
        /\ \A x \in Waiters : x # a => kids'[x] = kids[x] /\ count'[x] = count[x]
                                    /\ result'[x] = result[x]
    BY <2>1, <2>2, <2>3, <2>4
  <2>6. \A k \in kids'[a] : result'[k] = "waiting"
    BY <2>1, <2>2, <2>4
  <2>7. /\ coro' = [coro EXCEPT ![a] = t] /\ susp' = [susp EXCEPT ![t] = a]
        /\ Running(t) /\ cur' = None
        /\ UNCHANGED <<pc, live, finished, scheduled, batch, ready>>
    BY <2>2
  <2> QED
    BY <2>4, <2>5, <2>6, <2>7, BlockWakes
<1>4. ASSUME NEW a \in Alls, NEW K \in SUBSET Leaves, NEW d \in AllWaits,
             AwaitAll(t, a, K, d)
      PROVE  Wakes'
  <2>1. a \in Combos /\ a \notin Anys /\ Linked(K) \in SUBSET Leaves
    BY WaiterAssumption DEF Combos, Linked
  <2>2. /\ Idle(a) /\ Running(t) /\ kids' = [kids EXCEPT ![a] = Linked(K)]
        /\ result' = [result EXCEPT ![a] = "waiting"]
        /\ coro' = [coro EXCEPT ![a] = t] /\ susp' = [susp EXCEPT ![t] = a]
        /\ cur' = None /\ UNCHANGED <<pc, live, finished, scheduled, batch, ready>>
        /\ count' = [count EXCEPT ![a] = OpenCount(Linked(K))]
    BY <1>4 DEF AwaitAll
  <2>3. /\ a \in Waiters /\ a \notin Leaves /\ \A u \in live : susp[u] # a
        /\ result'[a] = "waiting" /\ kids'[a] = Linked(K)
        /\ \A x \in Waiters : x # a => kids'[x] = kids[x] /\ result'[x] = result[x]
        /\ \A x \in Leaves : result'[x] = result[x]
    BY <1>2, <2>1, <2>2
  <2> DEFINE S == {k \in Linked(K) : result[k] = "waiting"}
  <2>4. /\ count'[a] = Cardinality(S)
        /\ \A x \in Waiters : x # a => count'[x] = count[x]
    BY <2>2, <2>3 DEF OpenCount, WInv, LInv, FInv, IInv, TypeOK
  <2>5. {k \in kids'[a] : result'[k] = "waiting"} = S /\ Cardinality(S) \in Nat
    <3>1. S \in SUBSET Leaves
      BY <2>1
    <3>2. Cardinality(S) \in Nat
      BY <3>1, OneLess
    <3> QED
      BY <2>1, <2>3, <3>2
  <2>6. count'[a] <= Cardinality({k \in kids'[a] : result'[k] = "waiting"})
    <3> HIDE DEF S
    <3> QED
      BY <2>4, <2>5
  <2> QED
    BY <2>1, <2>2, <2>3, <2>4, <2>6, BlockWakes
<1> QED
  BY <1>1, <1>3, <1>4 DEF Suspend

LEMMA NextWakes ==
  ASSUME "reset_in_use" \notin Allow, WInv, [Next]_vars, ~ExitLoop
  PROVE  Wakes'
<1>1. CASE \/ Run \/ PollEvents \/ PollTimeout \/ PollInterrupted \/ LoopAgain
           \/ Tick \/ StepDone \/ SwapBatch
           \/ \E f \in Fds : FdReady(f) \/ FdIdle(f)
           \/ \E t \in Tasks : Spawn(t) \/ Finish(t)
  BY <1>1, LoopWakes
<1>2. CASE Stop
  <2>1. UNCHANGED <<pc, scheduled, batch, cur, susp, ready, coro, kids, count, result,
                    live, finished>>
    BY <1>2 DEF Stop, taskVars, runVars, pollVars, wakeVars, linkVars
  <2>2. Queued' = Queued
    BY <2>1 DEF Queued
  <2> QED
    BY <2>1, <2>2, QuietWakes DEF WInv, Wakes
<1>3. CASE \/ \E w \in Leaves, r \in {"done", "error"} : DispatchEvent(w, r)
           \/ \E w \in Waiters : ProcessReady(w)
           \/ \E w \in Leaves, r \in {"done", "error", "cancelled"} :
                ClientComplete(w, r)
  BY <1>3, CompletionWakes
<1>4. CASE Expire
  BY <1>4, ExpireWakes
<1>5. ASSUME NEW t \in Tasks, Resume(t) PROVE Wakes'
  BY <1>5, ResumeWakes
<1>6. ASSUME NEW t \in Tasks, CoroutineStep(t) PROVE Wakes'
  BY <1>1, <1>6, SuspendWakes, ReadyWakes DEF CoroutineStep
<1>7. ASSUME NEW c \in Combos, CancelCombo(c) PROVE Wakes'
  BY <1>7, CancelWakes
<1>8. ASSUME NEW w \in Leaves, NEW d \in Waits, Reset(w, d) PROVE Wakes'
  BY <1>8, ResetWakes
<1>9. CASE UNCHANGED vars
  <2>1. UNCHANGED <<pc, scheduled, batch, cur, susp, ready, coro, kids, count, result,
                    live, finished>>
    BY <1>9 DEF vars, loopVars, taskVars, runVars, pollVars, wakeVars, linkVars
  <2>2. Queued' = Queued
    BY <2>1 DEF Queued
  <2> QED
    BY <2>1, <2>2, QuietWakes DEF WInv, Wakes
<1> QED
  BY <1>1, <1>2, <1>3, <1>4, <1>5, <1>6, <1>7, <1>8, <1>9
     DEF Next, LoopStep, SharedStep

LEMMA InitWakes == Init => WInv
<1> SUFFICES ASSUME Init PROVE WInv
  OBVIOUS
<1>1. Wakes
  BY WaiterAssumption DEF Init, Wakes, Waiters, Combos
<1> QED
  BY <1>1, InitLinks DEF WInv

-----------------------------------------------------------------------------
(* Registrations: what the epoll set knows of the promises in the loop.     *)

\* Each descriptor has one promise; a second one is refused by EPOLL_CTL_ADD.
OneLeafPerFd ==
  \A v, w \in Leaves : HasFd(v) /\ HasFd(w) /\ FdOf[v] = FdOf[w] => v = w

\* The epoll set g reports the leaves of A, and nothing under a wrong descriptor.
Reports(g, A) ==
  /\ g \in [Fds -> Leaves \cup {None}]
  /\ \A f \in Fds : g[f] # None => g[f] \in Leaves /\ FdOf[g[f]] = f
  /\ \A w \in A : HasFd(w) => g[FdOf[w]] = w

Listed == {w \in Leaves : added[w]}

Registrations ==
  /\ Reports(reg, Listed)
  /\ \A t \in Tasks : susp[t] \in Leaves => added[susp[t]]

RInv == LInv /\ Registrations

\* EPOLL_CTL_ADD for leaves that are not in the loop yet.
LEMMA RegisteredReports ==
  ASSUME OneLeafPerFd, NEW A \in SUBSET Leaves, Reports(reg, A),
         NEW W \in SUBSET Leaves, NEW g \in Registered(W)
  PROVE  Reports(g, A \cup W)
<1>1. /\ g \in [Fds -> Leaves \cup {None}]
      /\ \A f \in Fds :
           IF reg[f] = None /\ {w \in W : HasFd(w) /\ FdOf[w] = f} # {}
           THEN g[f] \in {w \in W : HasFd(w) /\ FdOf[w] = f} ELSE g[f] = reg[f]
  BY DEF Registered
<1>2. ASSUME NEW f \in Fds, g[f] # None PROVE g[f] \in Leaves /\ FdOf[g[f]] = f
  BY <1>1, <1>2 DEF Reports
<1>3. ASSUME NEW w \in A \cup W, HasFd(w) PROVE g[FdOf[w]] = w
  <2> DEFINE f == FdOf[w]
  <2>1. w \in Leaves /\ f \in Fds
    BY <1>3, WaiterAssumption DEF HasFd
  <2>2. g[f] # None
    BY <1>1, <1>3, <2>1, WaiterAssumption DEF Reports, Waiters
  <2>3. g[f] \in Leaves /\ FdOf[g[f]] = f
    BY <1>2, <2>1, <2>2
  <2>4. HasFd(g[f])
    BY <1>3, <2>3 DEF HasFd
  <2> QED
    BY <1>3, <2>1, <2>3, <2>4 DEF OneLeafPerFd
<1> QED
  BY <1>1, <1>2, <1>3 DEF Reports

\* EPOLL_CTL_DEL, which names a descriptor, takes no other leaf out.
LEMMA UnregisteredReports ==
  ASSUME OneLeafPerFd, NEW A \in SUBSET Leaves, NEW g, Reports(g, A), NEW W
  PROVE  Reports(Unregistered(g, W), A \ W)
<1> DEFINE h == Unregistered(g, W)
<1>1. /\ h \in [Fds -> Leaves \cup {None}]
      /\ \A f \in Fds : h[f] = IF \E w \in W : HasFd(w) /\ FdOf[w] = f THEN None
                                                                   ELSE g[f]
  BY DEF Unregistered, Reports
<1>2. ASSUME NEW w \in A \ W, HasFd(w) PROVE h[FdOf[w]] = w
  <2>1. w \in Leaves /\ FdOf[w] \in Fds
    BY <1>2, WaiterAssumption DEF HasFd
  <2>2. ~ \E v \in W : HasFd(v) /\ FdOf[v] = FdOf[w]
    <3> SUFFICES ASSUME NEW v \in W, HasFd(v), FdOf[v] = FdOf[w] PROVE FALSE
      OBVIOUS
    <3>1. v \in Leaves
      BY DEF HasFd
    <3> QED
      BY <1>2, <2>1, <3>1 DEF OneLeafPerFd
  <2> QED
    BY <1>1, <1>2, <2>1, <2>2 DEF Reports
<1> HIDE DEF h
<1> QED
  BY <1>1, <1>2 DEF Reports, h

\* Nothing enters or leaves the loop, and nobody suspends in a leaf.
LEMMA QuietRegs ==
  ASSUME RInv, UNCHANGED <<reg, added>>,
         \A t \in Tasks : susp'[t] \in Leaves => susp'[t] = susp[t]
  PROVE  Registrations'
<1>1. Listed' = Listed
  BY DEF Listed
<1> QED
  BY <1>1 DEF RInv, Registrations, Reports

\* Waiters leave the loop that no task is suspended in.
LEMMA RemoveRegs ==
  ASSUME OneLeafPerFd, RInv, NEW R \in SUBSET Waiters, Remove(R),
         \A t \in Tasks : susp'[t] \in Leaves => susp'[t] = susp[t] /\ susp[t] \notin R
  PROVE  Registrations'
<1>1. /\ reg' = Unregistered(reg, R)
      /\ \A x \in Waiters : added'[x] <=> added[x] /\ x \notin R
  BY DEF Remove, Put, RInv, LInv, FInv, IInv, TypeOK
<1>2. Listed' = Listed \ R /\ Listed \in SUBSET Leaves
  BY <1>1 DEF Listed, Waiters
<1>3. Reports(reg, Listed)'
  <2>1. Reports(Unregistered(reg, R), Listed \ R)
    BY <1>2, UnregisteredReports DEF RInv, Registrations
  <2> QED
    BY <1>1, <1>2, <2>1 DEF Reports
<1>4. \A t \in Tasks : susp'[t] \in Leaves => added'[susp'[t]]
  BY <1>1 DEF RInv, Registrations, Waiters
<1> QED
  BY <1>3, <1>4 DEF Registrations

\* await_resume takes the leaf, or the children, out of the loop.
LEMMA ResumeRegs ==
  ASSUME OneLeafPerFd, RInv, NEW t \in Tasks, Resume(t) PROVE Registrations'
<1>1. /\ \A u \in Tasks : susp'[u] = IF u = t THEN None ELSE susp[u]
      /\ None \notin Waiters /\ Leaves \subseteq Waiters
  BY ResumeShape, WaiterAssumption DEF RInv, LInv, FInv, IInv, TypeOK, Waiters
<1>2. CASE ResumeStart(t)
  BY <1>1, <1>2, QuietRegs DEF ResumeStart, listVars
<1>3. CASE ResumeLeaf(t)
  <2>1. /\ Remove({susp[t]} \cap {x \in Leaves : added[x]}) /\ susp[t] \in Leaves
    BY <1>3 DEF ResumeLeaf
  <2>2. \A u \in Tasks : u # t /\ susp[u] \in Leaves => susp[u] # susp[t]
    BY <1>1 DEF RInv, LInv, FInv, Frames
  <2> QED
    BY <1>1, <2>1, <2>2, RemoveRegs DEF Waiters
<1>4. CASE ResumeAny(t)
  <2>1. PICK R \in SUBSET kids[susp[t]] : Remove(R) /\ susp[t] \in Anys
    BY <1>4 DEF ResumeAny
  <2>2. \A k \in kids[susp[t]] : k \in Leaves /\ parent[k] # None
    BY <2>1, ChildLinks, WaiterAssumption DEF RInv, Waiters, Combos
  <2>3. \A u \in Tasks : susp[u] \in Leaves => susp[u] \notin R
    BY <2>1, <2>2 DEF RInv, LInv, Links
  <2> QED
    BY <1>1, <2>1, <2>2, <2>3, RemoveRegs
<1>5. CASE ResumeAll(t)
  <2>1. Remove(kids[susp[t]] \cup {susp[t]}) /\ susp[t] \in Alls
    BY <1>5 DEF ResumeAll
  <2>2. \A k \in kids[susp[t]] : k \in Leaves /\ parent[k] # None
    BY <2>1, ChildLinks, WaiterAssumption DEF RInv, Waiters, Combos
  <2>3. \A u \in Tasks : susp[u] \in Leaves => susp[u] \notin kids[susp[t]] \cup {susp[t]}
    BY <2>1, <2>2, WaiterAssumption DEF RInv, LInv, Links, Combos
  <2>4. kids[susp[t]] \cup {susp[t]} \in SUBSET Waiters
    BY <1>1, <2>1, <2>2 DEF Waiters, Combos
  <2> QED
    BY <1>1, <2>1, <2>3, <2>4, RemoveRegs
<1> QED
  BY <1>2, <1>3, <1>4, <1>5 DEF Resume

\* A co_await that does not suspend leaves the loop and the epoll set as they were,
\* but for the children that a wait-for-any skips.
LEMMA ReadyRegs ==
  ASSUME OneLeafPerFd, RInv, NEW t \in Tasks,
         \/ \E w \in Leaves : LeafReady(t, w)
         \/ \E a \in Anys, K \in SUBSET Leaves, d \in AnyWaits : AnyReady(t, a, K, d)
         \/ \E K \in SUBSET Leaves, d \in AllWaits : AllReady(t, K, d)
  PROVE  Registrations'
<1>0. Listed \in SUBSET Leaves /\ Reports(reg, Listed) /\ Leaves \subseteq Waiters
  BY DEF Listed, RInv, Registrations, Waiters
<1>1. ASSUME NEW w \in Leaves, LeafReady(t, w) PROVE Registrations'
  <2>1. Remove({w} \cap {x \in Leaves : added[x]}) /\ ~InUse(w) /\ susp' = susp
    BY <1>1 DEF LeafReady
  <2>2. \A u \in Tasks : susp[u] # w
    BY <2>1, IdleLeaf DEF RInv
  <2> QED
    BY <1>0, <2>1, <2>2, RemoveRegs
<1>2. ASSUME NEW a \in Anys, NEW K \in SUBSET Leaves, NEW d \in AnyWaits,
             AnyReady(t, a, K, d)
      PROVE  Registrations'
  <2>1. PICK S \in SUBSET Linked(K) :
          /\ added' = Put(added, S, TRUE) /\ susp' = susp
          /\ \E g \in Registered(Linked(K)) : reg' = Unregistered(g, Linked(K) \ S)
    <3> DEFINE polled == Put(result, {k \in Linked(K) : TimedOut(left[k])}, "timeout")
    <3>1. Skipped(Linked(K), polled, d) \in SUBSET Linked(K)
      BY DEF Skipped
    <3> QED
      BY <1>2, <3>1 DEF AnyReady
  <2>2. Linked(K) \in SUBSET Leaves /\ Linked(K) \cap Listed = {}
    BY DEF Linked, Listed
  <2>3. PICK g \in Registered(Linked(K)) : reg' = Unregistered(g, Linked(K) \ S)
    BY <2>1
  <2>4. Reports(g, Listed \cup Linked(K)) /\ Listed \cup Linked(K) \in SUBSET Leaves
    BY <1>0, <2>2, RegisteredReports
  <2>5. Reports(reg', (Listed \cup Linked(K)) \ (Linked(K) \ S))
    BY <2>3, <2>4, UnregisteredReports
  <2>6. /\ Listed' = (Listed \cup Linked(K)) \ (Linked(K) \ S)
        /\ \A x \in Leaves : added[x] => added'[x]
    BY <1>0, <2>1, <2>2 DEF Listed, Put, RInv, LInv, FInv, IInv, TypeOK
  <2>7. Reports(reg, Listed)'
    BY <2>5, <2>6 DEF Reports
  <2> QED
    BY <2>1, <2>6, <2>7 DEF RInv, Registrations
<1>3. ASSUME NEW K \in SUBSET Leaves, NEW d \in AllWaits, AllReady(t, K, d)
      PROVE  Registrations'
  <2>1. PICK g \in Registered(Linked(K)) : reg' = Unregistered(g, Linked(K))
    BY <1>3 DEF AllReady
  <2>2. added' = added /\ susp' = susp
    BY <1>3 DEF AllReady
  <2>3. Linked(K) \in SUBSET Leaves /\ Linked(K) \cap Listed = {}
    BY DEF Linked, Listed
  <2>4. Reports(g, Listed \cup Linked(K)) /\ Listed \cup Linked(K) \in SUBSET Leaves
    BY <1>0, <2>3, RegisteredReports
  <2>5. Reports(reg', (Listed \cup Linked(K)) \ Linked(K))
    BY <2>1, <2>4, UnregisteredReports
  <2>6. Listed' = (Listed \cup Linked(K)) \ Linked(K)
    BY <2>2, <2>3 DEF Listed
  <2>7. Reports(reg, Listed)'
    BY <2>5, <2>6 DEF Reports
  <2> QED
    BY <2>2, <2>7 DEF RInv, Registrations
<1> QED
  BY <1>1, <1>2, <1>3

\* A co_await that suspends registers the leaves it adds.
LEMMA SuspendRegs ==
  ASSUME OneLeafPerFd, RInv, NEW t \in Tasks, Suspend(t) PROVE Registrations'
<1>0. /\ Listed \in SUBSET Leaves /\ Reports(reg, Listed) /\ Leaves \subseteq Waiters
      /\ Combos \subseteq Waiters /\ Combos \cap Leaves = {}
  BY WaiterAssumption DEF Listed, RInv, Registrations, Waiters
<1>1. ASSUME NEW W \in SUBSET Leaves, NEW S \in SUBSET Combos, NEW w \in Waiters,
             reg' \in Registered(W), added' = Put(added, W \cup S, TRUE),
             susp' = [susp EXCEPT ![t] = w], w \in Leaves => added[w] \/ w \in W
      PROVE  Registrations'
  <2>1. \A x \in Waiters : added'[x] <=> added[x] \/ x \in W \cup S
    BY <1>1 DEF Put, RInv, LInv, FInv, IInv, TypeOK
  <2>2. Listed' = Listed \cup W
    BY <1>0, <2>1 DEF Listed
  <2>3. Reports(reg', Listed \cup W)
    BY <1>0, <1>1, RegisteredReports
  <2>4. Reports(reg, Listed)'
    BY <2>2, <2>3 DEF Reports
  <2>5. \A u \in Tasks : susp'[u] = IF u = t THEN w ELSE susp[u]
    BY <1>1 DEF RInv, LInv, FInv, IInv, TypeOK
  <2>6. ASSUME NEW u \in Tasks, susp'[u] \in Leaves PROVE added'[susp'[u]]
    <3>1. CASE u = t
      BY <1>0, <1>1, <2>1, <2>5, <2>6, <3>1
    <3>2. CASE u # t
      BY <1>0, <2>1, <2>5, <2>6, <3>2 DEF RInv, Registrations
    <3> QED
      BY <3>1, <3>2
  <2> QED
    BY <2>4, <2>6 DEF Registrations
<1>2. ASSUME NEW w \in Leaves, AwaitLeaf(t, w) PROVE Registrations'
  <2> DEFINE W == {w} \cap {x \in Leaves : ~added[x]}
  <2>1. /\ reg' \in Registered(W) /\ added' = [added EXCEPT ![w] = TRUE]
        /\ susp' = [susp EXCEPT ![t] = w]
    BY <1>2 DEF AwaitLeaf
  <2>2. added' = Put(added, W \cup {}, TRUE)
    BY <1>0, <2>1 DEF Put, RInv, LInv, FInv, IInv, TypeOK
  <2>3. W \in SUBSET Leaves /\ (added[w] \/ w \in W)
    OBVIOUS
  <2> HIDE DEF W
  <2> QED
    BY <1>0, <1>1, <2>1, <2>2, <2>3
<1>3. ASSUME NEW a \in Anys, NEW K \in SUBSET Leaves, NEW d \in AnyWaits,
             AwaitAny(t, a, K, d)
      PROVE  Registrations'
  <2>1. /\ reg' \in Registered(Linked(K)) /\ added' = Put(added, Linked(K), TRUE)
        /\ susp' = [susp EXCEPT ![t] = a]
    BY <1>3 DEF AwaitAny
  <2>2. Linked(K) \in SUBSET Leaves /\ a \in Combos /\ Linked(K) \cup {} = Linked(K)
    BY DEF Linked, Combos
  <2> QED
    BY <1>0, <1>1, <2>1, <2>2
<1>4. ASSUME NEW a \in Alls, NEW K \in SUBSET Leaves, NEW d \in AllWaits,
             AwaitAll(t, a, K, d)
      PROVE  Registrations'
  <2>1. /\ reg' \in Registered(Linked(K)) /\ added' = Put(added, Linked(K) \cup {a}, TRUE)
        /\ susp' = [susp EXCEPT ![t] = a]
    BY <1>4 DEF AwaitAll
  <2>2. Linked(K) \in SUBSET Leaves /\ a \in Combos /\ {a} \in SUBSET Combos
    BY DEF Linked, Combos
  <2> QED
    BY <1>0, <1>1, <2>1, <2>2
<1> QED
  BY <1>2, <1>3, <1>4 DEF Suspend

LEMMA NextRegs ==
  ASSUME OneLeafPerFd, "reset_in_use" \notin Allow, RInv, [Next]_vars, ~ExitLoop
  PROVE  Registrations'
<1>1. CASE \/ Run \/ PollEvents \/ PollTimeout \/ PollInterrupted \/ LoopAgain
           \/ Tick \/ Expire \/ StepDone \/ SwapBatch \/ Stop \/ UNCHANGED vars
           \/ \E f \in Fds : FdReady(f) \/ FdIdle(f)
  <2>1. UNCHANGED <<reg, added, susp>>
    BY <1>1 DEF Run, PollEvents, PollTimeout, PollInterrupted, LoopAgain, Tick,
                Expire, StepDone, SwapBatch, Stop, FdReady, FdIdle, vars, listVars,
                runVars
  <2> QED
    BY <2>1, QuietRegs
<1>2. CASE \/ \E w \in Leaves, r \in {"done", "error"} : DispatchEvent(w, r)
           \/ \E w \in Waiters : ProcessReady(w)
           \/ \E w \in Leaves, r \in {"done", "error", "cancelled"} :
                ClientComplete(w, r)
           \/ \E c \in Combos : CancelCombo(c)
           \/ \E t \in Tasks : Spawn(t) \/ Finish(t)
  <2>1. UNCHANGED <<reg, added, susp>>
    BY <1>2 DEF DispatchEvent, ProcessReady, ClientComplete, CancelCombo, Spawn,
                Finish, listVars
  <2> QED
    BY <2>1, QuietRegs
<1>3. ASSUME NEW t \in Tasks, Resume(t) PROVE Registrations'
  BY <1>3, ResumeRegs
<1>4. ASSUME NEW t \in Tasks, CoroutineStep(t) PROVE Registrations'
  BY <1>2, <1>4, SuspendRegs, ReadyRegs DEF CoroutineStep
<1>5. ASSUME NEW w \in Leaves, NEW d \in Waits, Reset(w, d) PROVE Registrations'
  <2>1. /\ Remove({w} \cap {x \in Leaves : added[x]}) /\ ~InUse(w) /\ susp' = susp
    BY <1>5 DEF Reset
  <2>2. \A u \in Tasks : susp[u] # w
    BY <2>1, IdleLeaf DEF RInv
  <2> QED
    BY <2>1, <2>2, RemoveRegs DEF Waiters
<1> QED
  BY <1>1, <1>2, <1>3, <1>4, <1>5 DEF Next, LoopStep, SharedStep

-----------------------------------------------------------------------------
(* Counts of a wait-for-all, where no promise has a descriptor: an event    *)
(* completes its waiter twice, once by the poller and once as a ready one,  *)
(* and would be counted twice.                                              *)

NoDescriptors == \A w \in Leaves : FdOf[w] = None

\* What is known of the wait-for-all a.  It is among the ready waiters for its
\* deadline only, so that nothing else completes it but its children.
ExactAt(a) ==
  /\ a \in ready => DeadlineFires(a)
  /\ coro[a] # None => count[a] = Cardinality(Open(a))
  /\ sched[a] => DeadlineFires(a) \/ \A k \in kids[a] : Final(k)

Exact ==
  /\ evq = {} /\ \A f \in Fds : reg[f] = None
  /\ \A a \in Alls : ExactAt(a)

XInv == WInv /\ Exact

\* A set of leaves that loses one element.
LEMMA CountOne ==
  ASSUME NEW S \in SUBSET Leaves, NEW w \in S
  PROVE  /\ Cardinality(S) \in Nat
         /\ Cardinality(S \ {w}) = Cardinality(S) - 1
         /\ Cardinality(S) <= 1 => S = {w}
<1>1. IsFiniteSet(S) /\ IsFiniteSet(S \ {w})
  BY WaiterAssumption, FS_Subset
<1>2. Cardinality(S) \in Nat /\ Cardinality(S \ {w}) \in Nat
  BY <1>1, FS_CardinalityType
<1>3. Cardinality(S \ {w}) = Cardinality(S) - 1
  <2>1. Cardinality(S \ {w}) = IF w \in S THEN Cardinality(S) - 1 ELSE Cardinality(S)
    BY <1>1, FS_RemoveElement, Zenon
  <2> QED
    BY <2>1
<1>4. ASSUME Cardinality(S) <= 1 PROVE S = {w}
  <2>1. Cardinality(S \ {w}) = 0
    BY <1>2, <1>3, <1>4
  <2>2. S \ {w} = {}
    BY <1>1, <2>1, FS_EmptySet
  <2> QED
    BY <2>2
<1> QED
  BY <1>2, <1>3, <1>4

\* Nobody registers or reports a descriptor.
LEMMA NextSilent ==
  ASSUME NoDescriptors, XInv, [Next]_vars
  PROVE  /\ reg' = reg /\ evq' = evq /\ ~PollEvents
         /\ \A w, r : ~DispatchEvent(w, r)
<1> USE DEF pollVars, listVars
<1>1. /\ \A W : \A g \in Registered(W) : g = reg
      /\ \A W : Unregistered(reg, W) = reg
  <2>1. (\A w : ~HasFd(w)) /\ reg \in [Fds -> Leaves \cup {None}]
    BY DEF NoDescriptors, HasFd, XInv, WInv, LInv, FInv, IInv, TypeOK
  <2>2. ASSUME NEW W, NEW g \in Registered(W) PROVE g = reg
    <3>1. g \in [Fds -> Leaves \cup {None}] /\ \A f \in Fds : g[f] = reg[f]
      BY <2>1, <2>2 DEF Registered
    <3> QED
      BY <2>1, <3>1
  <2>3. \A W : Unregistered(reg, W) = reg
    BY <2>1 DEF Unregistered
  <2> QED
    BY <2>2, <2>3
<1>2. ~PollEvents /\ \A w, r : ~DispatchEvent(w, r)
  BY DEF PollEvents, Pending, DispatchEvent, XInv, Exact, WInv, LInv, FInv, IInv, TypeOK
<1> SUFFICES reg' = reg /\ evq' = evq
  BY <1>2
<1>3. CASE \/ Run \/ PollTimeout \/ PollInterrupted \/ LoopAgain \/ ExitLoop
           \/ Tick \/ Expire \/ StepDone \/ SwapBatch \/ Stop \/ UNCHANGED vars
           \/ \E f \in Fds : FdReady(f) \/ FdIdle(f)
  <2>1. CASE Run \/ PollTimeout \/ PollInterrupted \/ LoopAgain \/ Stop
    BY <2>1 DEF Run, PollTimeout, PollInterrupted, LoopAgain, Stop
  <2>2. CASE Tick \/ StepDone \/ SwapBatch \/ UNCHANGED vars
    BY <2>2 DEF Tick, StepDone, SwapBatch, vars
  <2>3. CASE ExitLoop
    BY <2>3 DEF ExitLoop
  <2>4. CASE Expire
    BY <2>4 DEF Expire
  <2>5. CASE \E f \in Fds : FdReady(f) \/ FdIdle(f)
    BY <2>5 DEF FdReady, FdIdle
  <2> QED
    BY <1>3, <2>1, <2>2, <2>3, <2>4, <2>5
<1>4. CASE \/ \E w \in Waiters : ProcessReady(w)
           \/ \E w \in Leaves, r \in {"done", "error", "cancelled"} :
                ClientComplete(w, r)
           \/ \E c \in Combos : CancelCombo(c)
           \/ \E t \in Tasks : Spawn(t) \/ Finish(t)
  <2>1. ASSUME NEW w \in Waiters, ProcessReady(w) PROVE reg' = reg /\ evq' = evq
    BY <2>1 DEF ProcessReady
  <2>2. ASSUME NEW w, NEW r, ClientComplete(w, r) PROVE reg' = reg /\ evq' = evq
    BY <2>2 DEF ClientComplete
  <2>3. ASSUME NEW c, CancelCombo(c) PROVE reg' = reg /\ evq' = evq
    BY <2>3 DEF CancelCombo
  <2>4. ASSUME NEW t, Spawn(t) \/ Finish(t) PROVE reg' = reg /\ evq' = evq
    BY <2>4 DEF Spawn, Finish
  <2> QED
    BY <1>4, <2>1, <2>2, <2>3, <2>4
<1>5. ASSUME NEW t \in Tasks, Resume(t) PROVE reg' = reg /\ evq' = evq
  <2>1. CASE ResumeStart(t)
    BY <2>1 DEF ResumeStart
  <2>2. CASE ResumeLeaf(t)
    BY <1>1, <2>2 DEF ResumeLeaf, Remove
  <2>3. CASE ResumeAny(t)
    BY <1>1, <2>3 DEF ResumeAny, Remove
  <2>4. CASE ResumeAll(t)
    BY <1>1, <2>4 DEF ResumeAll, Remove
  <2> QED
    BY <1>5, <2>1, <2>2, <2>3, <2>4 DEF Resume
<1>6. ASSUME NEW t \in Tasks, CoroutineStep(t) PROVE reg' = reg /\ evq' = evq
  <2>1. ASSUME NEW w \in Leaves, LeafReady(t, w) \/ AwaitLeaf(t, w)
        PROVE  reg' = reg /\ evq' = evq
    BY <1>1, <2>1 DEF LeafReady, AwaitLeaf, Remove
  <2>2. ASSUME NEW a \in Anys, NEW K \in SUBSET Leaves, NEW d \in AnyWaits,
               AnyReady(t, a, K, d) \/ AwaitAny(t, a, K, d)
        PROVE  reg' = reg /\ evq' = evq
    BY <1>1, <2>2 DEF AnyReady, AwaitAny
  <2>3. ASSUME NEW K \in SUBSET Leaves, NEW d \in AllWaits, AllReady(t, K, d)
        PROVE  reg' = reg /\ evq' = evq
    BY <1>1, <2>3 DEF AllReady
  <2>4. ASSUME NEW a \in Alls, NEW K \in SUBSET Leaves, NEW d \in AllWaits,
               AwaitAll(t, a, K, d)
        PROVE  reg' = reg /\ evq' = evq
    BY <1>1, <2>4 DEF AwaitAll
  <2> QED
    BY <1>4, <1>6, <2>1, <2>2, <2>3, <2>4 DEF CoroutineStep, Suspend
<1>7. ASSUME NEW w \in Leaves, NEW d \in Waits, Reset(w, d)
      PROVE  reg' = reg /\ evq' = evq
  BY <1>1, <1>7 DEF Reset, Remove
<1> QED
  BY <1>2, <1>3, <1>4, <1>5, <1>6, <1>7 DEF Next, LoopStep, SharedStep

\* The children of a combinator, which some frame holds.
LEMMA KidsInUse ==
  ASSUME LInv, NEW a \in Combos, NEW k \in kids[a]
  PROVE  /\ k \in Leaves /\ k \in Waiters /\ parent[k] = a /\ InUse(k)
         /\ a \in Waiters
<1>1. a \in Waiters /\ k \in Leaves /\ k \in Waiters
  BY DEF Waiters, LInv, FInv, IInv, TypeOK
<1>2. parent[k] = a /\ ~Idle(a)
  BY <1>1 DEF LInv, Links
<1> QED
  BY <1>1, <1>2 DEF InUse, Idle

\* A step that changes nothing of a wait-for-all and its children.
LEMMA UntouchedAt ==
  ASSUME NEW a \in Alls, ExactAt(a), Open(a)' = Open(a),
         a \in ready' => a \in ready \/ DeadlineFires(a)',
         DeadlineFires(a) => DeadlineFires(a)',
         UNCHANGED <<coro[a], count[a], sched[a], kids[a]>>,
         \A k \in kids[a] : Final(k) => Final(k)'
  PROVE  ExactAt(a)'
BY DEF ExactAt

LEMMA SameAt ==
  ASSUME NEW a \in Alls, ExactAt(a), UNCHANGED ready,
         UNCHANGED <<coro[a], count[a], sched[a], kids[a], left[a]>>,
         \A k \in kids[a] : result'[k] = result[k]
  PROVE  ExactAt(a)'
BY UntouchedAt DEF Open, Final, DeadlineFires

\* complete() of a child takes it off the count of its wait-for-all; the one that
\* takes the count to 1 wakes the coroutine when no other child is open.
LEMMA CompleteExact ==
  ASSUME XInv, NEW w \in Waiters, NEW r \in Results, r # "waiting", Complete(w, r),
         UNCHANGED <<kids, left>>, ready' = ready \ {w},
         parent[w] # None => ~Final(w) \/ w \in ready,
         w \in Alls => DeadlineFires(w),
         NEW a \in Alls
  PROVE  ExactAt(a)'
<1> DEFINE p       == parent[w]
           v       == IF p = None THEN w ELSE p
           reached == p = None \/ count[p] <= 1
           awaited == coro[v] # None
           wakes   == reached /\ awaited /\ ~sched[v]
<1>1. /\ v \in Waiters
      /\ v # w => v = parent[w] /\ v \in Combos /\ w \in kids[v] /\ w \in Leaves
                  /\ parent[w] # None
      /\ v = w => parent[w] = None
      /\ v # w => (reached <=> count[v] <= 1)
      /\ v = w => reached
  BY WaiterAssumption DEF XInv, WInv, LInv, Links, FInv, IInv, TypeOK, Waiters
<1>2. /\ result' = [x \in Waiters |-> IF x = w THEN r
                                      ELSE IF x = v /\ reached THEN "done"
                                      ELSE result[x]]
      /\ count' = IF reached => awaited THEN [count EXCEPT ![v] = @ - 1]
                                        ELSE count
      /\ sched' = IF wakes THEN [sched EXCEPT ![v] = TRUE] ELSE sched
      /\ coro' = IF wakes THEN [coro EXCEPT ![v] = None] ELSE coro
  BY DEF Complete
<1>3. awaited => coro[v] # None /\ ~sched[v]
  BY <1>1 DEF XInv, WInv, LInv, FInv, IInv, Counts
<1>4. wakes <=> reached /\ awaited
  BY <1>3
<1>5. ~awaited => coro[v] = None
  OBVIOUS
<1> HIDE DEF p, v, reached, awaited, wakes
<1>6. /\ a \in Combos /\ a \in Waiters /\ a \notin Leaves
      /\ kids[a] \in SUBSET Leaves /\ ExactAt(a)
      /\ coro \in [Waiters -> Tasks \cup {None}] /\ sched \in [Waiters -> BOOLEAN]
      /\ count \in [Waiters -> Nat]
  BY WaiterAssumption
     DEF Combos, Waiters, XInv, Exact, WInv, LInv, FInv, IInv, TypeOK
<1>7. \A k \in kids[a] : k \in Waiters /\ k \in Leaves /\ parent[k] = a
  BY <1>6, KidsInUse DEF XInv, WInv
<1>8. \A k \in kids[a] :
        /\ Final(k) => Final(k)'
        /\ k # w => result'[k] = result[k] /\ (k \in ready' <=> k \in ready)
  <2> SUFFICES ASSUME NEW k \in kids[a]
               PROVE  /\ Final(k) => Final(k)'
                      /\ k # w => result'[k] = result[k] /\ (k \in ready' <=> k \in ready)
    OBVIOUS
  <2>1. k \in Waiters /\ k \in Leaves /\ parent[k] = a
    BY <1>7
  <2>2. k # w => k # v
    BY <1>1, <2>1, WaiterAssumption
  <2> QED
    BY <1>2, <2>1, <2>2 DEF Final
<1>9. CASE a # v
  <2>1. w \notin kids[a] /\ a # w
    BY <1>1, <1>6, <1>7, <1>9, WaiterAssumption DEF Waiters
  <2>2. Open(a)' = Open(a)
    BY <1>8, <2>1 DEF Open, Final
  <2>3. UNCHANGED <<coro[a], count[a], sched[a], kids[a]>>
    BY <1>2, <1>6, <1>9
  <2> QED
    BY <1>6, <1>8, <2>2, <2>3, UntouchedAt DEF DeadlineFires
<1>10. CASE a = v /\ a = w
  <2>1. coro'[a] = None /\ DeadlineFires(a)'
    BY <1>1, <1>2, <1>4, <1>5, <1>6, <1>10 DEF DeadlineFires
  <2> QED
    BY <2>1 DEF ExactAt
<1>11. CASE a = v /\ a # w
  <2>1. /\ w \in kids[a] /\ w \in Leaves /\ parent[w] = a /\ w \in Open(a)
        /\ reached <=> count[a] <= 1
    BY <1>1, <1>11 DEF Open
  <2>2. Final(w)' /\ w \notin ready'
    BY <1>2 DEF Final
  <2>3. Open(a)' = Open(a) \ {w} /\ Open(a) \in SUBSET Leaves
    BY <1>6, <1>8, <2>2 DEF Open, Final
  <2>4. /\ Cardinality(Open(a)) \in Nat
        /\ Cardinality(Open(a) \ {w}) = Cardinality(Open(a)) - 1
        /\ Cardinality(Open(a)) <= 1 => Open(a) = {w}
    BY <2>1, <2>3, CountOne
  <2>5. (a \in ready' => DeadlineFires(a)') /\ (DeadlineFires(a) => DeadlineFires(a)')
    BY <1>6 DEF ExactAt, DeadlineFires
  <2>6. CASE coro[a] = None
    <3>1. coro' = coro /\ sched' = sched
      BY <1>2, <1>3, <1>4, <1>11, <2>6
    <3> QED
      BY <1>6, <1>8, <2>5, <2>6, <3>1 DEF ExactAt
  <2>7. CASE coro[a] # None /\ ~reached
    <3>1. coro' = coro /\ sched' = sched /\ count'[a] = count[a] - 1
      BY <1>2, <1>4, <1>6, <1>11, <2>7
    <3>2. count[a] = Cardinality(Open(a)) /\ Cardinality(Open(a)') = count'[a]
      BY <1>6, <2>3, <2>4, <2>7, <3>1 DEF ExactAt
    <3> QED
      BY <1>6, <1>8, <2>5, <3>1, <3>2 DEF ExactAt
  <2>8. CASE coro[a] # None /\ reached
    <3>1. Open(a) = {w}
      BY <1>6, <2>1, <2>4, <2>8 DEF ExactAt
    <3>2. \A k \in kids[a] : Final(k)'
      BY <1>8, <2>2, <3>1 DEF Open
    <3>3. coro'[a] = None
      BY <1>2, <1>4, <1>5, <1>6, <1>11, <2>8
    <3> QED
      BY <2>5, <3>2, <3>3 DEF ExactAt
  <2> QED
    BY <2>6, <2>7, <2>8
<1> QED
  BY <1>9, <1>10, <1>11

\* The completions: of a ready waiter and by a client, who does not complete what
\* has a result.
LEMMA CompletionExact ==
  ASSUME XInv, "late_complete" \notin Allow, NEW a \in Alls,
         \/ \E w \in Waiters : ProcessReady(w)
         \/ \E w \in Leaves, r \in {"done", "error", "cancelled"} :
              ClientComplete(w, r)
  PROVE  ExactAt(a)'
<1> USE DEF linkVars, pollVars
<1>1. /\ a \in Combos /\ a \in Waiters /\ a \notin Leaves /\ ExactAt(a)
      /\ result \in [Waiters -> Results]
  BY WaiterAssumption
     DEF Combos, Waiters, XInv, Exact, WInv, LInv, FInv, IInv, TypeOK
<1>2. ASSUME NEW w \in Waiters, ProcessReady(w) PROVE ExactAt(a)'
  <2>1. w \in ready /\ ready' = ready \ {w} /\ UNCHANGED <<kids, left>>
    BY <1>2 DEF ProcessReady
  <2>2. w \in Alls => DeadlineFires(w)
    BY <2>1 DEF XInv, Exact, ExactAt
  <2>3. CASE result[w] # "waiting"
    <3>1. result[w] \in Results /\ Complete(w, result[w])
      BY <1>1, <1>2, <2>3 DEF ProcessReady
    <3> QED
      BY <2>1, <2>2, <2>3, <3>1, CompleteExact
  <2>4. CASE result[w] = "waiting"
    <3>1. UNCHANGED <<result, coro, count, sched>>
      BY <1>2, <2>4 DEF ProcessReady, wakeVars
    <3>2. Open(a)' = Open(a)
      BY <2>1, <2>4, <3>1 DEF Open, Final
    <3> QED
      BY <1>1, <2>1, <3>1, <3>2, UntouchedAt DEF DeadlineFires, Final
  <2> QED
    BY <2>3, <2>4
<1>3. ASSUME NEW w \in Leaves, NEW r \in {"done", "error", "cancelled"},
             ClientComplete(w, r)
      PROVE  ExactAt(a)'
  <2>1. /\ w \in Waiters /\ w \notin Alls /\ r \in Results /\ r # "waiting"
        /\ ~Final(w)
    BY <1>3, WaiterAssumption DEF ClientComplete, Final, Waiters, Combos, Results
  <2>2. Complete(w, r) /\ UNCHANGED <<kids, left>> /\ ready' = ready \ {w}
    BY <1>3 DEF ClientComplete, XInv, WInv, Wakes
  <2> QED
    BY <2>1, <2>2, CompleteExact
<1> QED
  BY <1>2, <1>3

LEMMA ExpireExact ==
  ASSUME XInv, Expire, NEW a \in Alls PROVE ExactAt(a)'
<1> USE DEF linkVars
<1>1. /\ result' = Put(result, Expired, "timeout") /\ ready' = ready \cup Expired
      /\ UNCHANGED <<coro, count, sched, kids, left>>
      /\ ExactAt(a) /\ result \in [Waiters -> Results]
  BY DEF Expire, XInv, Exact, WInv, LInv, FInv, IInv, TypeOK
<1>2. \A k \in kids[a] : k \in Waiters
  BY KidsInUse DEF XInv, WInv, Combos
<1>3. Open(a)' = Open(a) /\ \A k \in kids[a] : Final(k) => Final(k)'
  BY <1>1, <1>2 DEF Open, Final, Put, Expired
<1>4. a \in ready' => a \in ready \/ DeadlineFires(a)'
  BY <1>1 DEF Expired, DeadlineFires
<1> QED
  BY <1>1, <1>3, <1>4, UntouchedAt DEF DeadlineFires

LEMMA TickExact ==
  ASSUME XInv, Tick, NEW a \in Alls PROVE ExactAt(a)'
<1>1. /\ UNCHANGED <<ready, result, coro, count, sched, kids>> /\ ExactAt(a)
      /\ a \in Waiters
  BY DEF Tick, pollVars, wakeVars, linkVars, XInv, Exact, Waiters, Combos
<1>2. DeadlineFires(a) => DeadlineFires(a)'
  BY <1>1, TimeAssumption
     DEF Tick, DeadlineFires, XInv, WInv, LInv, FInv, IInv, TypeOK
<1> QED
  BY <1>1, <1>2, UntouchedAt DEF Open, Final

\* cancel() of a wait-for-all completes all children; that of another combinator
\* does not reach them.
LEMMA CancelExact ==
  ASSUME XInv, NEW c \in Combos, CancelCombo(c), NEW a \in Alls
  PROVE  ExactAt(a)'
<1>1. /\ c \in Waiters /\ c \notin Leaves /\ a \in Combos /\ a \in Waiters
      /\ UNCHANGED <<ready, kids, left>> /\ ready = {} /\ ExactAt(a)
      /\ coro[c] # None => ~sched[c]
  BY WaiterAssumption
     DEF CancelCombo, Waiters, Combos, pollVars, linkVars, XInv, Exact, WInv, Wakes,
         LInv, FInv, IInv, Counts
<1>2. /\ \A x \in Waiters : result'[x] = IF x = c THEN result'[c]
                                         ELSE IF x \in kids[c] THEN "cancelled"
                                         ELSE result[x]
      /\ \A x \in Waiters : x # c => count'[x] = count[x]
  BY <1>1 DEF CancelCombo, Put, XInv, WInv, LInv, FInv, IInv, TypeOK
<1>3. coro'[c] = None /\ \A x \in Waiters : x # c => UNCHANGED <<coro[x], sched[x]>>
  BY <1>1 DEF CancelCombo, XInv, WInv, LInv, FInv, IInv, TypeOK
<1>4. \A k \in kids[a] : k \in Waiters /\ k \in Leaves /\ parent[k] = a
  BY <1>1, KidsInUse DEF XInv, WInv
<1>5. CASE a = c
  <2>1. \A k \in kids[a] : Final(k)'
    BY <1>1, <1>2, <1>4, <1>5 DEF Final
  <2> QED
    BY <1>1, <1>3, <1>5, <2>1 DEF ExactAt
<1>6. CASE a # c
  <2>1. \A k \in kids[c] : parent[k] = c
    BY KidsInUse DEF XInv, WInv
  <2>2. \A k \in kids[a] : result'[k] = result[k]
    BY <1>1, <1>2, <1>4, <1>6, <2>1
  <2> QED
    BY <1>1, <1>2, <1>3, <1>6, <2>2, SameAt
<1> QED
  BY <1>5, <1>6

\* await_resume of a coroutine touches its own combinator and the children of that.
LEMMA ResumeExact ==
  ASSUME XInv, NEW t \in Tasks, Resume(t), NEW a \in Alls
  PROVE  ExactAt(a)'
<1>1. /\ Dispatch(t) /\ ready' = ready /\ coro' = coro
      /\ t \in live /\ \A w \in Waiters : coro[w] # t
      /\ a \in Combos /\ a \in Waiters /\ a \notin Leaves /\ a # None /\ ExactAt(a)
  BY ResumeShape, WaiterAssumption
     DEF pollVars, Waiters, Combos, XInv, Exact, WInv, LInv
<1>2. ready = {}
  BY <1>1 DEF Dispatch, XInv, WInv, Wakes
<1>3. \A k \in kids[a] : k \in Waiters /\ k \in Leaves /\ parent[k] = a
  BY <1>1, KidsInUse DEF XInv, WInv
<1>4. CASE a = susp[t]
  <2>1. coro[a] = None
    BY <1>1, <1>4 DEF XInv, WInv, LInv, FInv, Frames, IInv, TypeOK
  <2>2. sched' = Put(sched, {a}, FALSE)
    BY <1>1, <1>4, WaiterAssumption
       DEF Resume, ResumeStart, ResumeLeaf, ResumeAny, ResumeAll, Destroyed
  <2>3. ~sched'[a]
    BY <1>1, <2>2 DEF Put, XInv, WInv, LInv, FInv, IInv, TypeOK
  <2> QED
    BY <1>1, <1>2, <2>1, <2>3 DEF ExactAt
<1>5. CASE a # susp[t]
  <2>1. sched'[a] = sched[a] /\ left'[a] = left[a]
    <3>1. CASE ResumeStart(t) \/ ResumeLeaf(t)
      BY <3>1 DEF ResumeStart, ResumeLeaf, wakeVars
    <3>2. CASE ResumeAny(t) \/ ResumeAll(t)
      BY <1>1, <1>5, <3>2
         DEF ResumeAny, ResumeAll, Destroyed, Put, XInv, WInv, LInv, FInv, IInv, TypeOK
    <3> QED
      BY <3>1, <3>2 DEF Resume
  <2>2. ASSUME NEW k \in kids[a] PROVE result'[k] = result[k]
    <3>1. k # susp[t]
      BY <1>1, <1>3 DEF XInv, WInv, LInv, Links
    <3>2. susp[t] \in Combos => k \notin kids[susp[t]]
      BY <1>3, <1>5, KidsInUse DEF XInv, WInv
    <3> QED
      BY <1>3, <3>1, <3>2, ResumeResults DEF XInv, WInv
  <2>3. count'[a] = count[a] /\ kids'[a] = kids[a]
    BY <1>1, <1>5, ResumeResults DEF XInv, WInv
  <2> QED
    BY <1>1, <2>1, <2>2, <2>3, SameAt
<1> QED
  BY <1>4, <1>5

\* A co_await that does not suspend, and reset(), touch promises only that no
\* coroutine depends on.
LEMMA IdleExact ==
  ASSUME XInv, "reset_in_use" \notin Allow, NEW a \in Alls,
         \/ \E t \in Tasks, w \in Leaves : LeafReady(t, w)
         \/ \E t \in Tasks, b \in Anys, K \in SUBSET Leaves, d \in AnyWaits :
              AnyReady(t, b, K, d)
         \/ \E t \in Tasks, K \in SUBSET Leaves, d \in AllWaits : AllReady(t, K, d)
         \/ \E w \in Leaves, d \in Waits : Reset(w, d)
  PROVE  ExactAt(a)'
<1> USE DEF pollVars
<1>1. a \in Combos /\ a \in Waiters /\ a \notin Leaves /\ ExactAt(a)
  BY WaiterAssumption DEF Waiters, Combos, XInv, Exact
<1>2. \A k \in kids[a] : k \in Waiters /\ k \in Leaves /\ InUse(k) /\ parent[k] = a
  BY <1>1, KidsInUse DEF XInv, WInv
<1>3. result \in [Waiters -> Results]
  BY DEF XInv, WInv, LInv, FInv, IInv, TypeOK
<1>4. ASSUME NEW t \in Tasks, NEW w \in Leaves, LeafReady(t, w) PROVE ExactAt(a)'
  BY <1>1, <1>2, <1>3, <1>4, SameAt DEF LeafReady
<1>5. ASSUME NEW t \in Tasks, NEW b \in Anys, NEW K \in SUBSET Leaves,
             NEW d \in AnyWaits, AnyReady(t, b, K, d)
      PROVE  ExactAt(a)'
  <2>1. \A k \in kids[a] : result'[k] = result[k]
    BY <1>2, <1>3, <1>5 DEF AnyReady, Put, Linked
  <2> QED
    BY <1>1, <1>5, <2>1, SameAt DEF AnyReady
<1>6. ASSUME NEW t \in Tasks, NEW K \in SUBSET Leaves, NEW d \in AllWaits,
             AllReady(t, K, d)
      PROVE  ExactAt(a)'
  <2>1. \A k \in kids[a] : result'[k] = result[k]
    BY <1>2, <1>3, <1>6 DEF AllReady, Put, Linked
  <2> QED
    BY <1>1, <1>6, <2>1, SameAt DEF AllReady
<1>7. ASSUME NEW w \in Leaves, NEW d \in Waits, Reset(w, d) PROVE ExactAt(a)'
  <2>1. w # a /\ \A k \in kids[a] : k # w
    BY <1>1, <1>2, <1>7 DEF Reset
  <2>2. kids' = kids
    BY <1>7, IdleLeaf DEF Reset, XInv, WInv
  <2>3. UNCHANGED <<coro[a], count[a], sched[a], left[a], ready>>
    BY <1>1, <1>7, <2>1 DEF Reset, XInv, WInv, LInv, FInv, IInv, TypeOK
  <2>4. \A k \in kids[a] : result'[k] = result[k]
    BY <1>2, <1>3, <1>7, <2>1 DEF Reset
  <2> QED
    BY <1>1, <2>2, <2>3, <2>4, SameAt
<1> QED
  BY <1>4, <1>5, <1>6, <1>7

\* A wait-for-all starts with the number of children that wait.
LEMMA SuspendExact ==
  ASSUME XInv, NEW t \in Tasks, Suspend(t), NEW a \in Alls PROVE ExactAt(a)'
<1> USE DEF pollVars, linkVars
<1>1. /\ a \in Combos /\ a \in Waiters /\ a \notin Leaves /\ ExactAt(a)
      /\ a \notin Anys /\ kids[a] \in SUBSET Leaves
  BY WaiterAssumption
     DEF Waiters, Combos, XInv, Exact, WInv, LInv, FInv, IInv, TypeOK
<1>2. ASSUME NEW w \in Leaves, AwaitLeaf(t, w) PROVE ExactAt(a)'
  BY <1>1, <1>2, SameAt DEF AwaitLeaf, XInv, WInv, LInv, FInv, IInv, TypeOK
<1>3. ASSUME NEW b \in Combos, b # a, result' = [result EXCEPT ![b] = "waiting"],
             coro' = [coro EXCEPT ![b] = t], ready' = ready, sched' = sched,
             UNCHANGED <<count[a], left[a], kids[a]>>
      PROVE  ExactAt(a)'
  <2>1. \A k \in kids[a] : result'[k] = result[k]
    BY <1>1, <1>3, WaiterAssumption DEF XInv, WInv, LInv, FInv, IInv, TypeOK
  <2> QED
    BY <1>1, <1>3, <2>1, SameAt DEF XInv, WInv, LInv, FInv, IInv, TypeOK
<1>4. ASSUME NEW b \in Anys, NEW K \in SUBSET Leaves, NEW d \in AnyWaits,
             AwaitAny(t, b, K, d)
      PROVE  ExactAt(a)'
  <2>1. UNCHANGED <<count[a], left[a], kids[a]>>
    BY <1>1, <1>4 DEF AwaitAny, XInv, WInv, LInv, FInv, IInv, TypeOK
  <2> QED
    BY <1>1, <1>3, <1>4, <2>1 DEF AwaitAny, Combos
<1>5. ASSUME NEW b \in Alls, NEW K \in SUBSET Leaves, NEW d \in AllWaits,
             AwaitAll(t, b, K, d)
      PROVE  ExactAt(a)'
  <2>1. CASE b # a
    <3>1. UNCHANGED <<count[a], left[a], kids[a]>>
      BY <1>1, <1>5, <2>1 DEF AwaitAll, XInv, WInv, LInv, FInv, IInv, TypeOK
    <3> QED
      BY <1>3, <1>5, <2>1, <3>1 DEF AwaitAll, Combos
  <2>2. CASE b = a
    <3>1. ready' = {} /\ ~sched[a] /\ sched' = sched
      BY <1>1, <1>5, <2>2
         DEF AwaitAll, Running, XInv, WInv, Wakes, LInv, FInv, IInv, Counts
    <3>2. kids'[a] = Linked(K) /\ count'[a] = OpenCount(Linked(K))
      BY <1>1, <1>5, <2>2 DEF AwaitAll, XInv, WInv, LInv, FInv, IInv, TypeOK
    <3>3. \A k \in Linked(K) : result'[k] = result[k]
      BY <1>1, <1>5, <2>2 DEF AwaitAll, Linked, XInv, WInv, LInv, FInv, IInv, TypeOK
    <3>4. Open(a)' = {k \in Linked(K) : result[k] = "waiting"}
      BY <3>1, <3>2, <3>3 DEF Open, Final
    <3> QED
      BY <3>1, <3>2, <3>4 DEF ExactAt, OpenCount
  <2> QED
    BY <2>1, <2>2
<1> QED
  BY <1>2, <1>4, <1>5 DEF Suspend

LEMMA NextExact ==
  ASSUME NoDescriptors, "reset_in_use" \notin Allow, "late_complete" \notin Allow,
         XInv, [Next]_vars, ~ExitLoop
  PROVE  Exact'
<1>1. evq' = {} /\ \A f \in Fds : reg'[f] = None
  BY NextSilent DEF XInv, Exact
<1> SUFFICES ASSUME NEW a \in Alls PROVE ExactAt(a)'
  BY <1>1 DEF Exact
<1>2. ExactAt(a)
  BY DEF XInv, Exact
<1>3. CASE \/ Run \/ PollTimeout \/ PollInterrupted \/ LoopAgain \/ StepDone
           \/ SwapBatch \/ Stop \/ UNCHANGED vars
           \/ \E f \in Fds : FdReady(f) \/ FdIdle(f)
           \/ \E t \in Tasks : Spawn(t) \/ Finish(t)
  <2>1. UNCHANGED <<ready, result, coro, count, sched, kids, left>>
    BY <1>3 DEF Run, PollTimeout, PollInterrupted, LoopAgain, StepDone, SwapBatch,
                Stop, FdReady, FdIdle, Spawn, Finish, vars, pollVars, wakeVars, linkVars
  <2> QED
    BY <1>2, <2>1, SameAt
<1>4. CASE \/ \E w \in Waiters : ProcessReady(w)
           \/ \E w \in Leaves, r \in {"done", "error", "cancelled"} :
                ClientComplete(w, r)
  BY <1>4, CompletionExact
<1>5. CASE Expire \/ Tick
  BY <1>5, ExpireExact, TickExact
<1>6. ASSUME NEW t \in Tasks, Resume(t) PROVE ExactAt(a)'
  BY <1>6, ResumeExact
<1>7. ASSUME NEW t \in Tasks, CoroutineStep(t) PROVE ExactAt(a)'
  BY <1>3, <1>7, SuspendExact, IdleExact DEF CoroutineStep
<1>8. ASSUME NEW c \in Combos, CancelCombo(c) PROVE ExactAt(a)'
  BY <1>8, CancelExact
<1>9. ASSUME NEW w \in Leaves, NEW d \in Waits, Reset(w, d) PROVE ExactAt(a)'
  BY <1>9, IdleExact
<1> QED
  BY <1>3, <1>4, <1>5, <1>6, <1>7, <1>8, <1>9, NextSilent DEF Next, LoopStep, SharedStep

-----------------------------------------------------------------------------
(* Wakeups that are not spurious: what a queued coroutine was suspended in  *)
(* has happened, and no step takes that back before the coroutine runs.     *)

SInv == WInv /\ NoSpuriousWakeup

\* Queued coroutines are suspended where they were, and results stay.
LEMMA KeepsHappened ==
  ASSUME SInv,
         \A t \in Queued' : susp'[t] # None =>
           /\ t \in Queued /\ susp'[t] = susp[t]
           /\ Happened(susp[t]) => Happened(susp[t])'
  PROVE  NoSpuriousWakeup'
BY DEF SInv, NoSpuriousWakeup

\* The coroutine that the waiter v held joins the queue, when v's condition holds.
LEMMA WakesHappened ==
  ASSUME SInv, NEW v \in Waiters, coro[v] # None, Queued' = Queued \cup {coro[v]},
         susp' = susp, Happened(v)',
         \A x \in Waiters : Happened(x) => Happened(x)'
  PROVE  NoSpuriousWakeup'
<1>1. susp[coro[v]] = v /\ coro[v] \in Tasks /\ Queued \subseteq Tasks
  BY DEF SInv, WInv, LInv, FInv, Frames, IInv, TypeOK, Queued, Handles
<1>2. \A t \in Queued : susp[t] # None => susp[t] \in Waiters /\ Happened(susp[t])
  BY <1>1 DEF SInv, NoSpuriousWakeup, WInv, LInv, FInv, IInv, TypeOK
<1> QED
  BY <1>1, <1>2 DEF NoSpuriousWakeup

\* complete() of a leaf or of a wait-for-all.
LEMMA CompleteHappened ==
  ASSUME SInv, NEW w \in Waiters, w \notin Anys, NEW r \in Results, r # "waiting",
         Complete(w, r), UNCHANGED <<batch, susp, kids>>
  PROVE  NoSpuriousWakeup'
<1> DEFINE p       == parent[w]
           v       == IF p = None THEN w ELSE p
           reached == p = None \/ count[p] <= 1
           wakes   == reached /\ coro[v] # None /\ ~sched[v]
<1>1. v \in Waiters /\ (v # w => w \in kids[v])
  BY WaiterAssumption DEF SInv, WInv, LInv, Links, FInv, IInv, TypeOK, Waiters
<1>2. /\ result' = [x \in Waiters |-> IF x = w THEN r
                                      ELSE IF x = v /\ reached THEN "done"
                                      ELSE result[x]]
      /\ scheduled' = IF wakes THEN Enqueue(scheduled, coro[v]) ELSE scheduled
  BY DEF Complete
<1>3. wakes => reached /\ coro[v] # None
  OBVIOUS
<1> HIDE DEF p, v, reached, wakes
<1>10. PICK u \in Waiters : u = v
  BY <1>1
<1>4. \A x \in Waiters : /\ Final(x) => Final(x)'
                         /\ x # w /\ x # v => result'[x] = result[x]
  <2>1. \A x \in Waiters : result'[x] \in {r, "done", result[x]}
    BY <1>2
  <2>2. \A x \in Waiters : x # w /\ x # v => result'[x] = result[x]
    BY <1>2
  <2> QED
    BY <2>1, <2>2 DEF Final
<1>5. Final(w)' /\ (reached => Final(u)')
  BY <1>2, <1>10 DEF Final
<1>6. \A x \in Waiters : kids[x] \subseteq Waiters
  BY DEF Waiters, SInv, WInv, LInv, FInv, IInv, TypeOK
<1>7. ASSUME NEW x \in Waiters, Happened(x) PROVE Happened(x)'
  <2>1. Final(x)' /\ kids'[x] = kids[x]
        /\ \A k \in kids[x] : Final(k) => Final(k)'
    BY <1>4, <1>6, <1>7 DEF Happened
  <2>2. CASE x = v /\ x # w
    BY <1>1, <1>5, <1>10, <2>1, <2>2 DEF Happened
  <2>3. CASE x = w
    BY <2>1, <2>3 DEF Happened
  <2>4. CASE x # v /\ x # w
    BY <1>4, <1>7, <2>1, <2>4 DEF Happened
  <2> QED
    BY <2>2, <2>3, <2>4
<1>8. CASE wakes
  <2>1. coro[v] \in Tasks /\ scheduled \in Seq(Tasks)
    BY <1>1, <1>3, <1>8 DEF SInv, WInv, LInv, FInv, IInv, TypeOK
  <2>2. scheduled' = Enqueue(scheduled, coro[v])
    BY <1>2, <1>8
  <2>3. Queued' = Queued \cup {coro[v]}
    BY <2>1, <2>2, EnqueueHandles DEF Queued
  <2>4. Happened(u)'
    BY <1>1, <1>3, <1>5, <1>8, <1>10 DEF Happened
  <2> QED
    BY <1>3, <1>7, <1>8, <1>10, <2>3, <2>4, WakesHappened
<1>9. CASE ~wakes
  <2>1. Queued' = Queued
    BY <1>2, <1>9 DEF Queued
  <2>2. Queued \subseteq Tasks
    BY DEF SInv, WInv, LInv, FInv, IInv, TypeOK, Queued, Handles
  <2>3. \A t \in Tasks : susp[t] # None => susp[t] \in Waiters
    BY DEF SInv, WInv, LInv, FInv, IInv, TypeOK
  <2> QED
    BY <1>7, <2>1, <2>2, <2>3, KeepsHappened
<1> QED
  BY <1>8, <1>9

\* cancel() of a combinator leaves it cancelled, or completed by its children.
LEMMA CancelHappened ==
  ASSUME SInv, NEW c \in Combos, CancelCombo(c) PROVE NoSpuriousWakeup'
<1> DEFINE n    == Cardinality(kids[c])
           own  == count[c] - (IF coro[c] # None THEN 1 ELSE 0)
           base == IF own > 1 THEN own ELSE 1
<1>1. /\ c \in Waiters /\ c \notin Leaves
      /\ UNCHANGED <<susp, kids, batch>>
      /\ result' = [Put(result, kids[c], "cancelled")
                      EXCEPT ![c] = IF n >= base THEN "done" ELSE "cancelled"]
      /\ coro[c] # None => ~sched[c]
  BY WaiterAssumption
     DEF CancelCombo, Waiters, taskVars, linkVars, SInv, WInv, LInv, FInv, IInv, Counts
<1>2. /\ \A x \in Waiters : x # c /\ x \notin kids[c] => result'[x] = result[x]
      /\ \A x \in Waiters : x # c /\ x \in kids[c] => result'[x] = "cancelled"
      /\ result'[c] = IF n >= base THEN "done" ELSE "cancelled"
  BY <1>1 DEF Put, SInv, WInv, LInv, FInv, IInv, TypeOK
<1>3. kids[c] \in SUBSET Leaves /\ count[c] \in Nat
  BY <1>1 DEF SInv, WInv, LInv, FInv, IInv, TypeOK
<1>4. n >= base => kids[c] # {}
  <2>1. kids[c] = {} => n = 0
    BY FS_EmptySet
  <2> QED
    BY <1>3, <2>1
<1> HIDE DEF n, base
<1>5. \A x \in Waiters : kids[x] \subseteq Waiters /\ (x \in Leaves => x \notin Anys)
  BY WaiterAssumption DEF Waiters, Combos, SInv, WInv, LInv, FInv, IInv, TypeOK
<1>6. \A x \in Waiters : Final(x) => Final(x)'
  BY <1>2 DEF Final
<1>7. Happened(c)'
  <2>1. \A k \in kids[c] : Final(k)'
    BY <1>1, <1>2, <1>3, <1>5 DEF Final
  <2> QED
    BY <1>1, <1>2, <1>4, <2>1 DEF Happened, Final
<1>8. ASSUME NEW x \in Waiters, Happened(x) PROVE Happened(x)'
  <2>1. Final(x)' /\ kids'[x] = kids[x] /\ \A k \in kids[x] : Final(k) => Final(k)'
    BY <1>1, <1>5, <1>6, <1>8 DEF Happened
  <2>2. x # c /\ x \in Anys => result'[x] = result[x]
    BY <1>2, <1>3, <1>5
  <2> QED
    BY <1>7, <1>8, <2>1, <2>2 DEF Happened
<1>9. CASE coro[c] # None
  <2>1. scheduled' = Enqueue(scheduled, coro[c])
    BY <1>1, <1>9 DEF CancelCombo
  <2>2. coro[c] \in Tasks /\ scheduled \in Seq(Tasks)
    BY <1>1, <1>9 DEF SInv, WInv, LInv, FInv, IInv, TypeOK
  <2>3. Queued' = Queued \cup {coro[c]}
    BY <1>1, <2>1, <2>2, EnqueueHandles DEF Queued
  <2> QED
    BY <1>1, <1>7, <1>8, <1>9, <2>3, WakesHappened
<1>10. CASE coro[c] = None
  <2>1. scheduled' = scheduled
    BY <1>10 DEF CancelCombo
  <2>2. Queued' = Queued /\ Queued \subseteq Tasks
    BY <1>1, <2>1 DEF Queued, Handles, SInv, WInv, LInv, FInv, IInv, TypeOK
  <2>3. \A t \in Tasks : susp[t] # None => susp[t] \in Waiters
    BY DEF SInv, WInv, LInv, FInv, IInv, TypeOK
  <2> QED
    BY <1>1, <1>8, <2>2, <2>3, KeepsHappened
<1> QED
  BY <1>9, <1>10

\* await_resume of a coroutine changes nothing another one waits for.
LEMMA ResumeHappened ==
  ASSUME SInv, NEW t \in Tasks, Resume(t) PROVE NoSpuriousWakeup'
<1>1. /\ Dispatch(t) /\ \A u \in Tasks : susp'[u] = IF u = t THEN None ELSE susp[u]
      /\ scheduled' = scheduled /\ batch \in Seq(Tasks) /\ batch # <<>>
  BY ResumeShape DEF SInv, WInv, LInv, FInv, IInv, TypeOK
<1>2. Queued' \subseteq Queued /\ Queued \subseteq Tasks
  <2>1. Handles(batch') \subseteq Handles(batch)
    BY <1>1, TailHandles DEF Dispatch
  <2>2. Queued \subseteq Tasks
    BY DEF Queued, Handles, SInv, WInv, LInv, FInv, IInv, TypeOK
  <2> QED
    BY <1>1, <2>1, <2>2 DEF Queued
<1> SUFFICES ASSUME NEW u \in Queued, u # t, susp[u] # None, Happened(susp[u]),
                    susp'[u] = susp[u]
             PROVE  Happened(susp[u])'
  <2>1. ASSUME NEW u \in Queued', susp'[u] # None
        PROVE  /\ u \in Queued /\ u # t /\ susp[u] # None /\ susp'[u] = susp[u]
               /\ Happened(susp[u]) => Happened(susp[u])'
    <3>1. u \in Queued /\ u # t /\ susp[u] # None /\ susp'[u] = susp[u]
      BY <1>1, <1>2, <2>1
    <3> QED
      BY <3>1
  <2> QED
    BY <2>1, KeepsHappened
<1>3. u \in Tasks /\ susp[u] \in Waiters /\ susp[u] # susp[t] /\ susp'[u] = susp[u]
  BY <1>1, <1>2 DEF SInv, WInv, LInv, FInv, Frames, IInv, TypeOK
<1>4. PICK x \in Waiters : x = susp[u]
  BY <1>3
<1>5. susp[t] \in Combos => x \notin kids[susp[t]]
  <2> SUFFICES ASSUME susp[t] \in Combos, x \in kids[susp[t]] PROVE FALSE
    OBVIOUS
  <2>1. x \in Leaves /\ parent[x] = susp[t]
    BY KidsInUse DEF SInv, WInv
  <2> QED
    BY <1>3, <1>4, <2>1, WaiterAssumption DEF SInv, WInv, LInv, Links, Waiters
<1>6. result'[x] = result[x] /\ kids'[x] = kids[x]
  BY <1>3, <1>4, <1>5, ResumeResults DEF SInv, WInv
<1>7. ASSUME x \in Anys, NEW k \in kids[x] PROVE result'[k] = result[k]
  <2>1. x \in Combos /\ k \in Waiters /\ k \in Leaves /\ parent[k] = x
    BY <1>7, KidsInUse DEF Combos, SInv, WInv
  <2>2. k # susp[t]
    BY <2>1, WaiterAssumption DEF Waiters, SInv, WInv, LInv, Links
  <2>3. susp[t] \in Combos => k \notin kids[susp[t]]
    BY <1>3, <1>4, <2>1, KidsInUse DEF SInv, WInv
  <2> QED
    BY <2>1, <2>2, <2>3, ResumeResults DEF SInv, WInv
<1>8. Happened(x)'
  BY <1>4, <1>6, <1>7 DEF Happened, Final
<1> QED
  BY <1>3, <1>4, <1>8

\* A step that wakes nobody, and changes the results of waiters only that no queued
\* coroutine is suspended in.
LEMMA QuietHappened ==
  ASSUME SInv, Queued' \subseteq Queued,
         \A t \in Queued : susp[t] # None =>
           /\ susp'[t] = susp[t]
           /\ result'[susp[t]] = result[susp[t]]
           /\ susp[t] \in Anys => /\ kids'[susp[t]] = kids[susp[t]]
                                  /\ \A k \in kids[susp[t]] : Final(k) => Final(k)',
         \A t \in Queued : susp[t] = None => susp'[t] = None
  PROVE  NoSpuriousWakeup'
<1> SUFFICES ASSUME NEW t \in Queued, susp[t] # None, Happened(susp[t])
             PROVE  Happened(susp[t])'
  BY KeepsHappened
<1>1. PICK x : x = susp[t]
  OBVIOUS
<1>2. Happened(x)'
  BY <1>1 DEF Happened, Final
<1> QED
  BY <1>1, <1>2

\* Steps that complete and resume nothing; a new task has not suspended yet.
LEMMA LoopHappened ==
  ASSUME SInv,
         \/ Run \/ PollEvents \/ PollTimeout \/ PollInterrupted \/ LoopAgain
         \/ Tick \/ StepDone \/ SwapBatch \/ Stop \/ UNCHANGED vars
         \/ \E f \in Fds : FdReady(f) \/ FdIdle(f)
         \/ \E t \in Tasks : Spawn(t) \/ Finish(t)
  PROVE  NoSpuriousWakeup'
<1> USE DEF loopVars, taskVars, runVars, pollVars, listVars, linkVars, wakeVars
<1>1. UNCHANGED <<susp, result, kids>>
  BY DEF Run, PollEvents, PollTimeout, PollInterrupted, LoopAgain, Tick, StepDone,
         SwapBatch, Stop, vars, FdReady, FdIdle, Spawn, Finish
<1>2. ASSUME NEW u \in Queued', susp[u] # None PROVE u \in Queued
  <2>1. CASE SwapBatch
    BY <1>2, <2>1, EmptyHandles DEF SwapBatch, Queued
  <2>2. ASSUME NEW t \in Tasks, Spawn(t) PROVE u \in Queued
    <3>1. susp[t] = None
      BY <2>2 DEF Spawn, SInv, WInv, LInv, FInv, Frames
    <3>2. scheduled' = Enqueue(scheduled, t) /\ batch' = batch
      BY <2>2 DEF Spawn
    <3>3. scheduled \in Seq(Tasks)
      BY DEF SInv, WInv, LInv, FInv, IInv, TypeOK
    <3>4. Queued' = Queued \cup {t}
      BY <3>2, <3>3, EnqueueHandles DEF Queued
    <3> QED
      BY <1>2, <3>1, <3>4
  <2>3. CASE \/ Run \/ PollEvents \/ PollTimeout \/ PollInterrupted \/ LoopAgain
             \/ Tick \/ StepDone \/ Stop \/ UNCHANGED vars
             \/ \E f \in Fds : FdReady(f) \/ FdIdle(f)
             \/ \E t \in Tasks : Finish(t)
    <3>1. UNCHANGED <<scheduled, batch>>
      BY <2>3 DEF Run, PollEvents, PollTimeout, PollInterrupted, LoopAgain, Tick,
                  StepDone, Stop, vars, FdReady, FdIdle, Finish
    <3> QED
      BY <1>2, <3>1 DEF Queued
  <2> QED
    BY <2>1, <2>2, <2>3
<1>3. \A x : Happened(x) => Happened(x)'
  BY <1>1 DEF Happened, Final
<1> QED
  BY <1>1, <1>2, <1>3, KeepsHappened

\* The timeout loop gives results to waiters that have none.
LEMMA ExpireHappened ==
  ASSUME SInv, Expire PROVE NoSpuriousWakeup'
<1> USE DEF taskVars, linkVars
<1>1. /\ UNCHANGED <<scheduled, batch, susp, kids>>
      /\ result' = Put(result, Expired, "timeout")
      /\ \A x \in Waiters : kids[x] \subseteq Waiters
  BY DEF Expire, runVars, Waiters, SInv, WInv, LInv, FInv, IInv, TypeOK
<1>2. \A x \in Waiters : Final(x) => result'[x] = result[x] /\ Final(x)'
  BY <1>1 DEF Final, Put, Expired, SInv, WInv, LInv, FInv, IInv, TypeOK
<1>3. \A x \in Waiters : Happened(x) => Happened(x)'
  BY <1>1, <1>2 DEF Happened
<1>4. Queued' = Queued /\ Queued \subseteq Tasks
  BY <1>1 DEF Queued, Handles, SInv, WInv, LInv, FInv, IInv, TypeOK
<1>5. \A t \in Tasks : susp[t] # None => susp[t] \in Waiters
  BY DEF SInv, WInv, LInv, FInv, IInv, TypeOK
<1> QED
  BY <1>1, <1>3, <1>4, <1>5, KeepsHappened

LEMMA CompletionHappened ==
  ASSUME SInv,
         \/ \E w \in Leaves, r \in {"done", "error"} : DispatchEvent(w, r)
         \/ \E w \in Waiters : ProcessReady(w)
         \/ \E w \in Leaves, r \in {"done", "error", "cancelled"} :
              ClientComplete(w, r)
  PROVE  NoSpuriousWakeup'
<1> USE DEF linkVars
<1>1. ASSUME NEW w \in Leaves, NEW r \in {"done", "error", "cancelled"},
             DispatchEvent(w, r) \/ ClientComplete(w, r)
      PROVE  NoSpuriousWakeup'
  <2>1. w \in Waiters /\ w \notin Anys /\ r \in Results /\ r # "waiting"
    BY WaiterAssumption DEF Waiters, Combos, Results
  <2>2. Complete(w, r) /\ UNCHANGED <<batch, susp, kids>>
    BY <1>1 DEF DispatchEvent, ClientComplete
  <2> QED
    BY <2>1, <2>2, CompleteHappened
<1>2. ASSUME NEW w \in Waiters, ProcessReady(w) PROVE NoSpuriousWakeup'
  <2>1. w \notin Anys /\ result[w] \in Results
    BY <1>2 DEF ProcessReady, SInv, WInv, Wakes, LInv, FInv, IInv, TypeOK
  <2>2. CASE result[w] # "waiting"
    <3>1. Complete(w, result[w]) /\ UNCHANGED <<batch, susp, kids>>
      BY <1>2, <2>2 DEF ProcessReady
    <3> QED
      BY <2>1, <2>2, <3>1, CompleteHappened
  <2>3. CASE result[w] = "waiting"
    <3>1. UNCHANGED <<scheduled, batch, susp, kids, result>>
      BY <1>2, <2>3 DEF ProcessReady, wakeVars
    <3>2. Queued' = Queued /\ \A x : Happened(x) => Happened(x)'
      BY <3>1 DEF Queued, Happened, Final
    <3> QED
      BY <3>1, <3>2, KeepsHappened
  <2> QED
    BY <2>2, <2>3
<1> QED
  BY <1>1, <1>2

\* What no coroutine depends on may change.
LEMMA OthersHappened ==
  ASSUME SInv, NEW L \in SUBSET Leaves, \A w \in L : ~InUse(w),
         UNCHANGED <<scheduled, batch, susp, kids>>,
         \A w \in Waiters \ L : result'[w] = result[w]
  PROVE  NoSpuriousWakeup'
<1>1. Queued' = Queued /\ Queued \subseteq Tasks
  BY DEF Queued, Handles, SInv, WInv, LInv, FInv, IInv, TypeOK
<1>2. ASSUME NEW t \in Queued, susp[t] # None
      PROVE  /\ result'[susp[t]] = result[susp[t]]
             /\ susp[t] \in Anys => \A k \in kids[susp[t]] : result'[k] = result[k]
  <2>1. susp[t] \in Waiters /\ InUse(susp[t])
    BY <1>1, <1>2 DEF InUse, SInv, WInv, LInv, FInv, Frames, IInv, TypeOK
  <2>2. ASSUME susp[t] \in Anys, NEW k \in kids[susp[t]] PROVE result'[k] = result[k]
    BY <2>2, KidsInUse DEF Combos, SInv, WInv
  <2> QED
    BY <2>1, <2>2
<1> QED
  BY <1>1, <1>2, QuietHappened DEF Final

LEMMA IdleHappened ==
  ASSUME SInv, "reset_in_use" \notin Allow,
         \/ \E t \in Tasks, w \in Leaves : LeafReady(t, w)
         \/ \E t \in Tasks, b \in Anys, K \in SUBSET Leaves, d \in AnyWaits :
              AnyReady(t, b, K, d)
         \/ \E t \in Tasks, K \in SUBSET Leaves, d \in AllWaits : AllReady(t, K, d)
         \/ \E w \in Leaves, d \in Waits : Reset(w, d)
  PROVE  NoSpuriousWakeup'
<1> USE DEF SInv, WInv, LInv, FInv
<1>1. ASSUME NEW t \in Tasks, NEW w \in Leaves, LeafReady(t, w)
      PROVE  NoSpuriousWakeup'
  <2>1. {w} \cap {x \in Leaves : added[x]} \in SUBSET Waiters
    BY DEF Waiters
  <2>2. scheduled' = scheduled
    BY <1>1, <2>1, RemoveTypes DEF LeafReady
  <2>3. \A x \in Waiters \ {w} : result'[x] = result[x]
    BY <1>1 DEF LeafReady, IInv, TypeOK
  <2>4. /\ {w} \in SUBSET Leaves /\ \A x \in {w} : ~InUse(x)
        /\ UNCHANGED <<batch, susp, kids>>
    BY <1>1 DEF LeafReady
  <2> QED
    BY <2>2, <2>3, <2>4, OthersHappened
<1>2. ASSUME NEW t \in Tasks, NEW b \in Anys, NEW K \in SUBSET Leaves,
             NEW d \in AnyWaits, AnyReady(t, b, K, d)
      PROVE  NoSpuriousWakeup'
  <2>1. \A S : Linked(K) \ S \in SUBSET Waiters
    BY DEF Linked, Waiters
  <2>2. scheduled' = scheduled
    BY <1>2, <2>1, NothingToDeschedule DEF AnyReady, IInv
  <2>3. \A x \in Waiters \ K : result'[x] = result[x]
    BY <1>2 DEF AnyReady, Put, Linked, IInv, TypeOK
  <2>4. (\A x \in K : ~InUse(x)) /\ UNCHANGED <<batch, susp, kids>>
    BY <1>2 DEF AnyReady
  <2> QED
    BY <2>2, <2>3, <2>4, OthersHappened
<1>3. ASSUME NEW t \in Tasks, NEW K \in SUBSET Leaves, NEW d \in AllWaits,
             AllReady(t, K, d)
      PROVE  NoSpuriousWakeup'
  <2>1. Linked(K) \in SUBSET Waiters
    BY DEF Linked, Waiters
  <2>2. scheduled' = scheduled
    BY <1>3, <2>1, NothingToDeschedule DEF AllReady, IInv
  <2>3. \A x \in Waiters \ K : result'[x] = result[x]
    BY <1>3 DEF AllReady, Put, Linked, IInv, TypeOK
  <2>4. (\A x \in K : ~InUse(x)) /\ UNCHANGED <<batch, susp, kids>>
    BY <1>3 DEF AllReady
  <2> QED
    BY <2>2, <2>3, <2>4, OthersHappened
<1>4. ASSUME NEW w \in Leaves, NEW d \in Waits, Reset(w, d)
      PROVE  NoSpuriousWakeup'
  <2>1. {w} \cap {x \in Leaves : added[x]} \in SUBSET Waiters
    BY DEF Waiters
  <2>2. scheduled' = scheduled
    BY <1>4, <2>1, RemoveTypes DEF Reset
  <2>3. \A x \in Waiters \ {w} : result'[x] = result[x]
    BY <1>4 DEF Reset, IInv, TypeOK
  <2>4. /\ {w} \in SUBSET Leaves /\ \A x \in {w} : ~InUse(x)
        /\ UNCHANGED <<batch, susp, kids>>
    BY <1>4, IdleLeaf DEF Reset
  <2> QED
    BY <2>2, <2>3, <2>4, OthersHappened
<1> QED
  BY <1>1, <1>2, <1>3, <1>4

\* The running coroutine suspends in a waiter that no other is suspended in.
LEMMA SuspendHappened ==
  ASSUME SInv, NEW t \in Tasks, Suspend(t) PROVE NoSpuriousWakeup'
<1>1. ASSUME NEW w \in Waiters, Running(t), \A u \in live : susp[u] # w,
             susp' = [susp EXCEPT ![t] = w], UNCHANGED <<scheduled, batch>>,
             \A x \in Waiters : x # w => kids'[x] = kids[x] /\ result'[x] = result[x],
             \A x \in Leaves : result'[x] = result[x]
      PROVE  NoSpuriousWakeup'
  <2>1. /\ Queued' = Queued /\ Queued \subseteq Tasks /\ t \notin Queued
        /\ \A u \in Queued : susp'[u] = susp[u]
    BY <1>1 DEF Running, Queued, Handles, SInv, WInv, LInv, FInv, IInv, TypeOK, Places
  <2>2. ASSUME NEW u \in Queued, susp[u] # None
        PROVE  /\ result'[susp[u]] = result[susp[u]]
               /\ kids'[susp[u]] = kids[susp[u]]
               /\ susp[u] \in Anys => \A k \in kids[susp[u]] : result'[k] = result[k]
    <3>1. susp[u] \in Waiters /\ susp[u] # w
      BY <1>1, <2>1, <2>2 DEF SInv, WInv, LInv, FInv, Frames, IInv, TypeOK
    <3>2. kids[susp[u]] \subseteq Leaves
      BY <3>1 DEF SInv, WInv, LInv, FInv, IInv, TypeOK
    <3> QED
      BY <1>1, <3>1, <3>2
  <2> QED
    BY <2>1, <2>2, QuietHappened DEF Final
<1>2. ASSUME NEW w \in Leaves, AwaitLeaf(t, w) PROVE NoSpuriousWakeup'
  <2>1. w \in Waiters /\ \A u \in live : susp[u] # w
    BY <1>2 DEF AwaitLeaf, InUse, Waiters
  <2> QED
    BY <1>1, <1>2, <2>1 DEF AwaitLeaf, linkVars
<1>3. ASSUME NEW a \in Combos, NEW L, Idle(a), Running(t),
             kids' = [kids EXCEPT ![a] = L], result' = [result EXCEPT ![a] = "waiting"],
             susp' = [susp EXCEPT ![t] = a], UNCHANGED <<scheduled, batch>>
      PROVE  NoSpuriousWakeup'
  <2>1. a \in Waiters /\ a \notin Leaves /\ Leaves \subseteq Waiters
        /\ \A u \in live : susp[u] # a
    BY <1>3, WaiterAssumption DEF Waiters, Idle
  <2>2. /\ \A x \in Waiters : x # a => kids'[x] = kids[x] /\ result'[x] = result[x]
        /\ \A x \in Leaves : result'[x] = result[x]
    BY <1>3, <2>1 DEF SInv, WInv, LInv, FInv, IInv, TypeOK
  <2> QED
    BY <1>1, <1>3, <2>1, <2>2
<1>4. ASSUME NEW a \in Anys, NEW K \in SUBSET Leaves, NEW d \in AnyWaits,
             AwaitAny(t, a, K, d)
      PROVE  NoSpuriousWakeup'
  BY <1>3, <1>4 DEF AwaitAny, Combos
<1>5. ASSUME NEW a \in Alls, NEW K \in SUBSET Leaves, NEW d \in AllWaits,
             AwaitAll(t, a, K, d)
      PROVE  NoSpuriousWakeup'
  BY <1>3, <1>5 DEF AwaitAll, Combos
<1> QED
  BY <1>2, <1>4, <1>5 DEF Suspend

LEMMA NextHappened ==
  ASSUME "reset_in_use" \notin Allow, SInv, [Next]_vars, ~ExitLoop
  PROVE  NoSpuriousWakeup'
<1>1. CASE \/ Run \/ PollEvents \/ PollTimeout \/ PollInterrupted \/ LoopAgain
           \/ Tick \/ StepDone \/ SwapBatch \/ Stop \/ UNCHANGED vars
           \/ \E f \in Fds : FdReady(f) \/ FdIdle(f)
           \/ \E t \in Tasks : Spawn(t) \/ Finish(t)
  BY <1>1, LoopHappened
<1>2. CASE \/ \E w \in Leaves, r \in {"done", "error"} : DispatchEvent(w, r)
           \/ \E w \in Waiters : ProcessReady(w)
           \/ \E w \in Leaves, r \in {"done", "error", "cancelled"} :
                ClientComplete(w, r)
  BY <1>2, CompletionHappened
<1>3. CASE Expire
  BY <1>3, ExpireHappened
<1>4. ASSUME NEW t \in Tasks, Resume(t) PROVE NoSpuriousWakeup'
  BY <1>4, ResumeHappened
<1>5. ASSUME NEW t \in Tasks, CoroutineStep(t) PROVE NoSpuriousWakeup'
  BY <1>1, <1>5, SuspendHappened, IdleHappened DEF CoroutineStep
<1>6. ASSUME NEW c \in Combos, CancelCombo(c) PROVE NoSpuriousWakeup'
  BY <1>6, CancelHappened
<1>7. ASSUME NEW w \in Leaves, NEW d \in Waits, Reset(w, d) PROVE NoSpuriousWakeup'
  BY <1>7, IdleHappened
<1> QED
  BY <1>1, <1>2, <1>3, <1>4, <1>5, <1>6, <1>7 DEF Next, LoopStep, SharedStep

-----------------------------------------------------------------------------
(* After stop().                                                            *)

\* run() has returned after stop(): no frame is left, and neither a combinator nor
\* a pointer to one.
Gone ==
  /\ Quit
  /\ \A t \in Tasks : susp[t] = None
  /\ \A w \in Waiters : added[w] <=> w \in waiters
  /\ \A w \in Waiters : parent[w] # None => w \in kids[parent[w]]
  /\ \A a \in Alls : coro[a] = None /\ ~sched[a]

LEMMA ExitGone ==
  ASSUME StopIsFinal, LInv, ExitLoop PROVE Gone'
<1> DEFINE gone    == {susp[t] : t \in live} \cap Combos
           orphans == UNION {kids[c] : c \in gone}
<1>1. /\ susp' = [t \in Tasks |-> None]
      /\ coro' = Put(coro, gone, None) /\ kids' = Put(kids, gone, {})
      /\ sched' = Put(sched, gone, FALSE) /\ parent' = Put(parent, orphans, None)
      /\ added' = Put(added, gone, FALSE) /\ waiters' = waiters \ gone
  BY DEF ExitLoop, Destroyed
<1>2. ASSUME NEW a \in Alls PROVE coro'[a] = None /\ ~sched'[a]
  <2>1. a \in Waiters /\ a \in Combos
    BY DEF Waiters, Combos
  <2>2. a \notin gone => Idle(a)
    BY <2>1 DEF Idle
  <2> HIDE DEF gone
  <2>3. a \notin gone => coro[a] = None /\ ~sched[a]
    BY <2>1, <2>2 DEF Idle, LInv, FInv, IInv, Counts
  <2> QED
    BY <1>1, <2>1, <2>3 DEF Put, LInv, FInv, IInv, TypeOK
<1>3. ASSUME NEW w \in Waiters, parent'[w] # None PROVE w \in kids'[parent'[w]]
  <2>1. w \notin orphans /\ parent'[w] = parent[w]
    BY <1>1, <1>3 DEF Put, LInv, FInv, IInv, TypeOK
  <2>2. w \in kids[parent[w]] /\ parent[w] \in Waiters
    BY <1>3, <2>1 DEF LInv, Links, FInv, IInv, TypeOK, Waiters
  <2>3. parent[w] \notin gone
    BY <2>1, <2>2
  <2> HIDE DEF gone, orphans
  <2> QED
    BY <1>1, <2>1, <2>2, <2>3 DEF Put, LInv, FInv, IInv, TypeOK
<1> HIDE DEF gone, orphans
<1>4. \A w \in Waiters : added'[w] <=> w \in waiters'
  BY <1>1 DEF Put, LInv, Links, FInv, IInv, TypeOK
<1>5. Quit'
  BY ExitQuits DEF LInv, FInv
<1> QED
  BY <1>1, <1>2, <1>3, <1>4, <1>5 DEF Gone

LEMMA NextGone ==
  ASSUME Gone, [Next]_vars PROVE Gone'
BY NextQuit DEF Gone

-----------------------------------------------------------------------------
(* The theorems.                                                           *)

\* The inductive invariant: handles in one place, frames and waiters paired,
\* combinators and children linked both ways, no condition that holds unnoticed;
\* or stop() has ended run().
THEOREM WakesHold ==
  ASSUME StopIsFinal, "reset_in_use" \notin Allow, AnyWaits \subseteq {Never}
  PROVE  Spec => [](WInv \/ Gone)
<1>1. (WInv \/ Gone) /\ [Next]_vars => (WInv \/ Gone)'
  BY NextIInv, NextMoves, NextLinks, NextWakes, ExitGone, NextGone
     DEF WInv, LInv, FInv, Moves
<1> QED
  BY <1>1, InitWakes, PTL DEF Spec

\* No wakeup is lost: when coroutines run or the loop goes to sleep, a suspended
\* task is held by the waiter it awaits, whose condition does not hold yet.
THEOREM NoWakeupIsLost ==
  ASSUME StopIsFinal, "reset_in_use" \notin Allow, AnyWaits \subseteq {Never}
  PROVE  Spec => []NoLostWakeup
<1>1. WInv => NoLostWakeup
  <2> SUFFICES ASSUME WInv, pc \in {"step", "poll"},
                      NEW t \in live \ (finished \cup Queued \cup {cur})
               PROVE  susp[t] # None /\ coro[susp[t]] = t /\ ~Satisfied(susp[t])
    BY DEF NoLostWakeup
  <2> DEFINE w == susp[t]
  <2>1. ready = {} /\ t \in Tasks /\ w # None /\ w \in Waiters /\ coro[w] = t
    BY DEF WInv, Wakes, LInv, FInv, IInv, TypeOK
  <2>2. coro[w] # None
    BY <2>1, WaiterAssumption
  <2> HIDE DEF w
  <2>3. ~Final(w)
    BY <2>1, <2>2 DEF WInv, Wakes
  <2>4. w \in Anys => \A k \in kids[w] : ~Final(k)
    BY <2>1, <2>2 DEF WInv, Wakes
  <2>5. w \in Alls => \E k \in kids[w] : ~Final(k)
    <3> SUFFICES ASSUME w \in Alls, \A k \in kids[w] : Final(k) PROVE FALSE
      OBVIOUS
    <3>1. Open(w) = {}
      BY <2>1 DEF Open
    <3>2. count[w] <= Cardinality(Open(w)) /\ count[w] >= 1
      BY <2>1, <2>2 DEF WInv, Wakes, LInv, FInv, IInv, Counts
    <3>3. Cardinality(Open(w)) = 0
      BY <3>1, FS_EmptySet
    <3>4. count[w] \in Nat
      BY <2>1 DEF WInv, LInv, FInv, IInv, TypeOK
    <3> QED
      BY <3>2, <3>3, <3>4
  <2>6. w \notin Anys \/ w \notin Alls
    BY WaiterAssumption
  <2> QED
    BY <2>1, <2>3, <2>4, <2>5 DEF Satisfied, w
<1>2. Gone => NoLostWakeup
  BY DEF Gone, Quit, NoLostWakeup
<1> QED
  BY <1>1, <1>2, WakesHold, PTL

\* What a coroutine awaits is in the loop, so that events and deadlines reach it:
\* the leaf, every child of a combinator, and a wait-for-all itself.
THEOREM AwaitedStaysListed ==
  ASSUME StopIsFinal, "reset_in_use" \notin Allow, AnyWaits \subseteq {Never}
  PROVE  Spec => []AwaitedIsListed
<1>1. WInv => AwaitedIsListed
  <2> SUFFICES ASSUME WInv, NEW t \in live, susp[t] # None, coro[susp[t]] = t,
                      NEW x \in kids[susp[t]] \cup ({susp[t]} \ Anys)
               PROVE  added[x]
    BY DEF AwaitedIsListed, WInv, LInv, Links
  <2>1. t \in Tasks /\ t # None /\ susp[t] \in Waiters
    BY WaiterAssumption DEF WInv, LInv, FInv, IInv, TypeOK
  <2>2. CASE x \in kids[susp[t]]
    BY <2>1, <2>2 DEF WInv, LInv, Links
  <2>3. CASE x = susp[t] /\ x \notin Anys
    BY <2>1, <2>3 DEF WInv, LInv, Links
  <2> QED
    BY <2>2, <2>3
<1>2. Gone => AwaitedIsListed
  BY DEF Gone, Quit, TypeOK, AwaitedIsListed
<1> QED
  BY <1>1, <1>2, WakesHold, PTL

\* awaiting_waiter_ points to a combinator whose list holds the waiter, so that a
\* completion never counts down a destroyed combinator.
THEOREM ParentsExist ==
  ASSUME StopIsFinal, "reset_in_use" \notin Allow, AnyWaits \subseteq {Never}
  PROVE  Spec => []NoDanglingParent
<1>1. WInv \/ Gone => NoDanglingParent
  BY DEF WInv, LInv, Links, Gone, NoDanglingParent
<1> QED
  BY <1>1, WakesHold, PTL

\* Every promise with a descriptor that a coroutine depends on, by itself or through
\* a combinator, is what epoll reports for that descriptor, whoever else adds,
\* removes, resets or cancels promises meanwhile.
THEOREM AwaitedStaysRegistered ==
  ASSUME OneLeafPerFd, StopIsFinal, "reset_in_use" \notin Allow,
         AnyWaits \subseteq {Never}
  PROVE  Spec => []AwaitedIsRegistered
<1>1. Init => RInv
  <2> SUFFICES ASSUME Init PROVE Registrations
    BY InitLinks DEF RInv
  <2> QED
    BY WaiterAssumption DEF Init, Registrations, Reports, Listed, Waiters
<1>2. (RInv \/ Gone) /\ [Next]_vars => (RInv \/ Gone)'
  <2>1. ASSUME RInv, [Next]_vars, ~ExitLoop PROVE RInv'
    <3>1. IInv' /\ Frames' /\ Links'
      BY <2>1, NextIInv, NextMoves, NextLinks DEF RInv, LInv, FInv, Moves
    <3> QED
      BY <2>1, <3>1, NextRegs DEF RInv, LInv, FInv
  <2>2. ASSUME RInv, ExitLoop PROVE Gone'
    BY <2>2, ExitGone DEF RInv
  <2>3. ASSUME Gone, [Next]_vars PROVE Gone'
    BY <2>3, NextGone
  <2> QED
    BY <2>1, <2>2, <2>3
<1>3. RInv => AwaitedIsRegistered
  <2> SUFFICES ASSUME RInv, NEW w \in Leaves, HasFd(w), NEW t \in live,
                      susp[t] = w \/ (susp[t] \in Combos /\ w \in kids[susp[t]])
               PROVE  reg[FdOf[w]] = w
    BY DEF AwaitedIsRegistered, InUse
  <2>1. t \in Tasks
    BY DEF RInv, LInv, FInv, IInv, TypeOK
  <2>2. added[w]
    BY <2>1 DEF RInv, Registrations, LInv, Links, Waiters
  <2> QED
    BY <2>2 DEF RInv, Registrations, Reports, Listed
<1>4. Gone => AwaitedIsRegistered
  <2> SUFFICES ASSUME Gone, NEW w \in Leaves, InUse(w) PROVE FALSE
    BY DEF AwaitedIsRegistered
  <2> QED
    BY WaiterAssumption DEF Gone, Quit, TypeOK, InUse, Waiters
<1> QED
  BY <1>1, <1>2, <1>3, <1>4, PTL DEF Spec

\* Where no promise has a descriptor and clients complete only what still waits,
\* the count of an awaited wait-for-all is exact; or stop() has ended run().
THEOREM ExactHolds ==
  ASSUME NoDescriptors, StopIsFinal, "reset_in_use" \notin Allow,
         "late_complete" \notin Allow, AnyWaits \subseteq {Never}
  PROVE  Spec => [](XInv \/ Gone)
<1>1. Init => XInv
  <2> SUFFICES ASSUME Init PROVE Exact
    BY InitWakes DEF XInv
  <2> QED
    BY DEF Init, Exact, ExactAt, Waiters, Combos
<1>2. (XInv \/ Gone) /\ [Next]_vars => (XInv \/ Gone)'
  <2>1. ASSUME XInv, [Next]_vars, ~ExitLoop PROVE XInv'
    <3>1. IInv' /\ Frames' /\ Links' /\ Wakes'
      BY <2>1, NextIInv, NextMoves, NextLinks, NextWakes
         DEF XInv, WInv, LInv, FInv, Moves
    <3> QED
      BY <2>1, <3>1, NextExact DEF XInv, WInv, LInv, FInv
  <2>2. ASSUME XInv, ExitLoop PROVE Gone'
    BY <2>2, ExitGone DEF XInv, WInv
  <2>3. ASSUME Gone, [Next]_vars PROVE Gone'
    BY <2>3, NextGone
  <2> QED
    BY <2>1, <2>2, <2>3
<1> QED
  BY <1>1, <1>2, PTL DEF Spec

\* completion_count_ of an awaited wait-for-all is the number of children whose
\* completion is still to be counted, whatever completes, expires or cancels them.
THEOREM CountsAreExact ==
  ASSUME NoDescriptors, StopIsFinal, "reset_in_use" \notin Allow,
         "late_complete" \notin Allow, AnyWaits \subseteq {Never}
  PROVE  Spec => []AllCountExact
<1>1. XInv => AllCountExact
  BY DEF XInv, Exact, ExactAt, Open, AllCountExact
<1>2. Gone => AllCountExact
  BY DEF Gone, AllCountExact
<1> QED
  BY <1>1, <1>2, ExactHolds, PTL

\* A wait-for-all that was scheduled has a result of every child, or its own
\* deadline came: the last completion wakes it, no earlier one.
THEOREM WokenWhenComplete ==
  ASSUME NoDescriptors, StopIsFinal, "reset_in_use" \notin Allow,
         "late_complete" \notin Allow, AnyWaits \subseteq {Never}
  PROVE  Spec => []AllWokenComplete
<1>1. XInv => AllWokenComplete
  BY DEF XInv, Exact, ExactAt, AllWokenComplete
<1>2. Gone => AllWokenComplete
  BY DEF Gone, AllWokenComplete
<1> QED
  BY <1>1, <1>2, ExactHolds, PTL

\* No coroutine is woken before what it awaits has happened, and nothing that runs
\* ahead of it in the queue takes that back: completions, cancels, deadlines, and
\* resets or co_awaits of the other promises.
THEOREM NothingWakesEarly ==
  ASSUME StopIsFinal, "reset_in_use" \notin Allow, AnyWaits \subseteq {Never}
  PROVE  Spec => []NoSpuriousWakeup
<1>1. Init => SInv
  <2> SUFFICES ASSUME Init PROVE NoSpuriousWakeup
    BY InitWakes DEF SInv
  <2> QED
    BY EmptyHandles DEF Init, NoSpuriousWakeup, Queued
<1>2. (SInv \/ Gone) /\ [Next]_vars => (SInv \/ Gone)'
  <2>1. ASSUME SInv, [Next]_vars, ~ExitLoop PROVE SInv'
    <3>1. IInv' /\ Frames' /\ Links' /\ Wakes'
      BY <2>1, NextIInv, NextMoves, NextLinks, NextWakes
         DEF SInv, WInv, LInv, FInv, Moves
    <3> QED
      BY <2>1, <3>1, NextHappened DEF SInv, WInv, LInv, FInv
  <2>2. ASSUME SInv, ExitLoop PROVE Gone'
    BY <2>2, ExitGone DEF SInv, WInv
  <2>3. ASSUME Gone, [Next]_vars PROVE Gone'
    BY <2>3, NextGone
  <2> QED
    BY <2>1, <2>2, <2>3
<1>3. SInv => NoSpuriousWakeup
  BY DEF SInv
<1>4. Gone => NoSpuriousWakeup
  <2> SUFFICES ASSUME Gone PROVE Queued \subseteq Tasks
    BY DEF Gone, NoSpuriousWakeup
  <2> QED
    BY DEF Gone, Quit, TypeOK, Queued, Handles
<1> QED
  BY <1>1, <1>2, <1>3, <1>4, PTL DEF Spec
=============================================================================
