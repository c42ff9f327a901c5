------------------------------- MODULE IoLoop -------------------------------
(***************************************************************************)
(* The event loop of libs/io: io_loop_basic<epoll_poller> (io_loop.hpp),   *)
(* the waiters that promises leave with it (waiter.hpp) and the coroutines *)
(* that await them, all on one thread.                                     *)
(*                                                                         *)
(* A leaf is an io_promise or io_desc_promise that outlives the tasks (the *)
(* tests keep them beside the loop).  Anys and Alls are the awaitables     *)
(* io_wait_for_any_promise and io_wait_for_all_promise, each constructed,  *)
(* awaited and destroyed inside one co_await expression.  Combinators hold *)
(* leaves only (no nesting).  sleep() and yield() are a Reset followed by  *)
(* an AwaitLeaf.  A task is one coroutine without nested co_await of other *)
(* tasks.                                                                  *)
(*                                                                         *)
(* Time is a countdown per waiter in milliseconds, rounded up: left = 0    *)
(* says that less than 1 ms remains (run() fires it), left = -1 that the   *)
(* deadline is past (only then io_promise::timeout() returns true).        *)
(***************************************************************************)
EXTENDS Integers, Sequences, FiniteSets

CONSTANTS
  Tasks,    \* coroutine handles
  Leaves,   \* io_promise and io_desc_promise objects
  Anys,     \* io_wait_for_any_promise objects
  Alls,     \* io_wait_for_all_promise objects
  Fds,      \* descriptors
  FdOf,     \* the descriptor of a leaf, None for a plain io_promise (fd_ = -1)
  Waits,    \* the deadlines a leaf is armed with, relative to now
  AnyWaits, \* the deadlines given to a wait-for-any
  AllWaits, \* the deadlines given to a wait-for-all
  Allow,    \* which unguarded client behaviours are explored
  Never,    \* time_point_t::max()
  None      \* nullptr

Combos  == Anys \cup Alls
Waiters == Leaves \cup Combos
Results == {"waiting", "done", "timeout", "error", "cancelled"}

ASSUME WaiterAssumption ==
  /\ Leaves \cap Combos = {} /\ Anys \cap Alls = {}
  /\ None \notin Waiters /\ None \notin Tasks
  /\ IsFiniteSet(Leaves)
  /\ FdOf \in [Leaves -> Fds \cup {None}]

ASSUME TimeAssumption ==
  /\ Never \notin Int
  /\ (Waits \cup AnyWaits \cup AllWaits) \ {Never} \subseteq {-1} \cup Nat

ASSUME AllowAssumption ==
  Allow \subseteq {"stop", "restart", "reset_in_use", "late_complete"}

VARIABLES
  loopState,  \* io_loop_state: only stopped, running and stop are ever set
  pc,         \* where the loop's thread is
  scheduled,  \* scheduled_: handles to resume, in order
  batch,      \* what is left of the vector step() swapped out
  finished,   \* handles that ran to completion, destroyed when step() ends
  live,       \* tasks_
  cur,        \* the coroutine running now, None in the loop itself
  susp,       \* the waiter whose co_await a task is suspended in
  waiters,    \* waiters_ (its order is left open)
  ready,      \* ready_waiters (its order is left open)
  evq,        \* events of this epoll_wait not handled yet
  hot,        \* descriptors that are readable or writable
  reg,        \* the waiter the epoll registration of a descriptor points to
  result, coro, parent, kids, count, sched, added, left \* fields of io_waiter

loopVars   == <<loopState, pc>>
taskVars   == <<finished, live>>
runVars    == <<scheduled, batch, cur, susp>>
pollVars   == <<ready, evq, hot>>
listVars   == <<waiters, reg, added>>
linkVars   == <<parent, kids>>
wakeVars   == <<result, coro, count, sched>>
vars == <<loopVars, taskVars, runVars, pollVars, listVars, linkVars, wakeVars,
          left>>

PcValues == {"off", "step", "poll", "dispatch", "process"}

\* The values each variable takes.  count is completion_count_, a size_t: being
\* in Nat says that no sequence of completions takes it below 0.
TypeOK ==
  /\ loopState \in {"stopped", "running", "stop"}
  /\ pc \in PcValues
  /\ scheduled \in Seq(Tasks) /\ batch \in Seq(Tasks)
  /\ live \subseteq Tasks /\ finished \subseteq Tasks
  /\ cur \in Tasks \cup {None}
  /\ susp \in [Tasks -> Waiters \cup {None}]
  /\ waiters \subseteq Waiters /\ ready \subseteq Waiters
  /\ evq \subseteq Waiters /\ hot \subseteq Fds
  /\ reg \in [Fds -> Leaves \cup {None}]
  /\ result \in [Waiters -> Results]
  /\ coro \in [Waiters -> Tasks \cup {None}]
  /\ parent \in [Waiters -> Combos \cup {None}]
  /\ kids \in [Waiters -> SUBSET Leaves]
  /\ count \in [Waiters -> Nat]
  /\ sched \in [Waiters -> BOOLEAN] /\ added \in [Waiters -> BOOLEAN]
  /\ left \in [Waiters -> {Never, -1} \cup Nat]

Init ==
  /\ loopState = "stopped" /\ pc = "off"
  /\ scheduled = <<>> /\ batch = <<>> /\ finished = {} /\ live = {}
  /\ cur = None /\ susp = [t \in Tasks |-> None]
  /\ waiters = {} /\ ready = {} /\ evq = {} /\ hot = {}
  /\ reg = [f \in Fds |-> None]
  /\ result = [w \in Waiters |-> "waiting"]
  /\ coro = [w \in Waiters |-> None]
  /\ parent = [w \in Waiters |-> None]
  /\ kids = [w \in Waiters |-> {}]
  /\ count = [w \in Waiters |-> 1]
  /\ sched = [w \in Waiters |-> FALSE]
  /\ added = [w \in Waiters |-> FALSE]
  /\ left \in [Waiters -> Waits \cup {Never}]
  /\ \A c \in Combos : left[c] = Never

-----------------------------------------------------------------------------
(* Helpers.                                                                *)

InSeq(t, q) == \E i \in 1..Len(q) : q[i] = t

\* Mutant: the new handle jumps the queue.
EnqueueFirst(q, t) == IF InSeq(t, q) THEN q ELSE <<t>> \o q

\* schedule(coro): only scheduled_ is searched, not the batch being run.
Enqueue(q, t) == IF InSeq(t, q) THEN q ELSE Append(q, t)

\* The erasure of awaiting_coroutine_ from scheduled_ in remove_waiter.
Descheduled(q, T) ==
  IF \E t \in T : InSeq(t, q) THEN SelectSeq(q, LAMBDA t : t \notin T) ELSE q

HasFd(w)    == w \in Leaves /\ FdOf[w] # None
DeadlineFires(w) == left[w] # Never /\ left[w] <= 0  \* run(): < 1 ms remains
TimedOut(d) == d # Never /\ d < 0                    \* timeout(): it is past

\* EPOLL_CTL_ADD for the waiters of W: the second waiter of a descriptor gets
\* EEXIST, which is only logged.
Registered(W) ==
  LET Cand(f) == {w \in W : HasFd(w) /\ FdOf[w] = f}
  IN {g \in [Fds -> Leaves \cup {None}] :
        \A f \in Fds : IF reg[f] = None /\ Cand(f) # {} THEN g[f] \in Cand(f)
                                                        ELSE g[f] = reg[f]}

\* Mutant: removing one waiter empties the interest list.
UnregisteredAll(g, W) == [f \in Fds |-> IF W = {} THEN g[f] ELSE None]

\* EPOLL_CTL_DEL for the waiters of W: it names the descriptor only, so it
\* drops whichever waiter the registration points to.
Unregistered(g, W) ==
  [f \in Fds |-> IF \E w \in W : HasFd(w) /\ FdOf[w] = f THEN None ELSE g[f]]

\* A leaf some suspended task awaits, by itself or through a combinator.
InUse(w) == \E t \in live : \/ susp[t] = w
                            \/ susp[t] \in Combos /\ w \in kids[susp[t]]

\* f with the value v at every element of D.
Put(f, D, v) == [x \in DOMAIN f |-> IF x \in D THEN v ELSE f[x]]

\* Mutant: complete() leaves awaiting_coroutine_ set after scheduling it.
CompleteKeepsCoro(w, r) ==
  LET wakes == parent[w] = None /\ coro[w] # None /\ ~sched[w]
  IN /\ result' = [result EXCEPT ![w] = r]
     /\ sched' = IF wakes THEN [sched EXCEPT ![w] = TRUE] ELSE sched
     /\ scheduled' = IF wakes THEN Enqueue(scheduled, coro[w]) ELSE scheduled
     /\ UNCHANGED <<coro, count>>

\* Mutant: the waiter that awaits this one is not told.
CompleteForgetsParent(w, r) ==
  LET wakes == parent[w] = None /\ coro[w] # None /\ ~sched[w]
  IN /\ result' = [result EXCEPT ![w] = r]
     /\ sched' = IF wakes THEN [sched EXCEPT ![w] = TRUE] ELSE sched
     /\ coro' = IF wakes THEN [coro EXCEPT ![w] = None] ELSE coro
     /\ scheduled' = IF wakes THEN Enqueue(scheduled, coro[w]) ELSE scheduled
     /\ UNCHANGED count

\* Mutant: the first child wakes whoever awaits the parent.
CompleteTooEarly(w, r) ==
  LET v     == IF parent[w] = None THEN w ELSE parent[w]
      wakes == coro[v] # None /\ ~sched[v]
  IN /\ result' = [result EXCEPT ![w] = r]
     /\ count' = [count EXCEPT ![v] = IF wakes THEN @ - 1 ELSE @]
     /\ sched' = IF wakes THEN [sched EXCEPT ![v] = TRUE] ELSE sched
     /\ coro' = IF wakes THEN [coro EXCEPT ![v] = None] ELSE coro
     /\ scheduled' = IF wakes THEN Enqueue(scheduled, coro[v]) ELSE scheduled

\* io_waiter::complete.  A leaf inside a combinator counts its parent down and
\* completes it, as done, once the count is 1 (or less); a waiter without a
\* parent schedules the coroutine that awaits it, once.
Complete(w, r) ==
  LET p       == parent[w]
      v       == IF p = None THEN w ELSE p
      reached == p = None \/ count[p] <= 1
      awaited == coro[v] # None
      wakes   == reached /\ awaited /\ ~sched[v]
  IN /\ result' = [x \in Waiters |-> IF x = w THEN r
                                     ELSE IF x = v /\ reached THEN "done"
                                     ELSE result[x]]
     /\ count' = IF reached => awaited THEN [count EXCEPT ![v] = @ - 1]
                                       ELSE count
     /\ sched' = IF wakes THEN [sched EXCEPT ![v] = TRUE] ELSE sched
     /\ coro' = IF wakes THEN [coro EXCEPT ![v] = None] ELSE coro
     /\ scheduled' = IF wakes THEN Enqueue(scheduled, coro[v]) ELSE scheduled

\* Mutant: added_ is not cleared.
RemoveKeepsAdded(R) ==
  /\ waiters' = waiters \ R
  /\ reg' = Unregistered(reg, R)
  /\ scheduled' = Descheduled(scheduled, {coro[w] : w \in R})
  /\ UNCHANGED added

\* io_waiter::remove for the waiters of R, which all are in the loop.
Remove(R) ==
  /\ added' = Put(added, R, FALSE)
  /\ waiters' = waiters \ R
  /\ reg' = Unregistered(reg, R)
  /\ scheduled' = Descheduled(scheduled, {coro[w] : w \in R})

\* The destructors of the combinators of D: out of the loop, their storage back
\* to what the next constructor finds.
Destroyed(D) ==
  /\ coro' = Put(coro, D, None)
  /\ kids' = Put(kids, D, {})
  /\ count' = Put(count, D, 1)
  /\ sched' = Put(sched, D, FALSE)
  /\ left' = Put(left, D, Never)

\* Mutant: every child that still waits is skipped, timed out or not.
SkippedAlways(K, res, d) == {k \in K : res[k] = "waiting"}

\* The children await_resume of a wait-for-any with deadline d does not unlink.
Skipped(K, res, d) == {k \in K : TimedOut(d) /\ res[k] = "waiting"}

\* Mutant: the default completion count of 1.
OpenCountOne(K) == 1
\* Mutant: the children that have a result already are counted too.
OpenCountAll(K) == Cardinality(K)
\* Mutant: one too few.
OpenCountLow(K) == Cardinality({k \in K : result[k] = "waiting"}) - 1

\* The count a wait-for-all over K starts with.
OpenCount(K) == Cardinality({k \in K : result[k] = "waiting"})

-----------------------------------------------------------------------------
(* The loop.                                                               *)

Run == \* run() up to its loop
  /\ pc = "off"
  /\ loopState = "stop" => "restart" \in Allow
  /\ loopState' = "running" /\ pc' = "step"
  /\ UNCHANGED <<taskVars, runVars, pollVars, listVars, linkVars, wakeVars, left>>

\* Mutant: only the newest handle survives the swap.
SwapBatchLast ==
  /\ pc = "step" /\ cur = None /\ batch = <<>> /\ scheduled # <<>>
  /\ batch' = <<scheduled[Len(scheduled)]>>
  /\ scheduled' = <<>>
  /\ UNCHANGED <<loopVars, taskVars, cur, susp, pollVars, listVars, linkVars,
                 wakeVars, left>>

SwapBatch == \* step(): std::swap(scheduled_, scheduled)
  /\ pc = "step" /\ cur = None /\ batch = <<>> /\ scheduled # <<>>
  /\ batch' = scheduled /\ scheduled' = <<>>
  /\ UNCHANGED <<loopVars, taskVars, cur, susp, pollVars, listVars, linkVars,
                 wakeVars, left>>

\* step() takes the next handle and resumes it.  NoDeadHandle shows that the
\* handle is neither destroyed nor done.
Dispatch(t) ==
  /\ pc = "step" /\ cur = None /\ batch # <<>>
  /\ t = Head(batch) /\ t \in live \ finished
  /\ batch' = Tail(batch) /\ cur' = t

ResumeStart(t) ==
  /\ Dispatch(t) /\ susp[t] = None
  /\ UNCHANGED <<loopVars, taskVars, scheduled, susp, pollVars, listVars,
                 linkVars, wakeVars, left>>

ResumeLeaf(t) == \* io_promise::await_resume
  /\ Dispatch(t) /\ susp[t] \in Leaves
  /\ LET w == susp[t]
     IN /\ Remove({w} \cap {x \in Leaves : added[x]})
        /\ parent' = IF added[w] THEN [parent EXCEPT ![w] = None] ELSE parent
        /\ kids' = IF added[w] /\ parent[w] # None
                   THEN [kids EXCEPT ![parent[w]] = @ \ {w}] ELSE kids
  /\ susp' = [susp EXCEPT ![t] = None]
  /\ UNCHANGED <<loopVars, taskVars, pollVars, wakeVars, left>>

\* io_wait_for_any_promise::await_resume and its destructor.  Past its own
\* deadline the children that still wait are skipped: they stay in the loop and
\* keep awaiting_waiter_.
ResumeAny(t) ==
  /\ Dispatch(t) /\ susp[t] \in Anys
  /\ LET a       == susp[t]
         skipped == Skipped(kids[a], result, left[a])
         freed   == kids[a] \ skipped
     IN /\ Remove(freed)
        /\ parent' = Put(parent, freed, None)
        /\ Destroyed({a})
        /\ result' = [result EXCEPT ![a] = "waiting"]
  /\ susp' = [susp EXCEPT ![t] = None]
  /\ UNCHANGED <<loopVars, taskVars, pollVars>>

\* io_wait_for_all_promise::await_resume and its destructor.  Past its own
\* deadline the children that still wait are completed as timed out.
ResumeAll(t) ==
  /\ Dispatch(t) /\ susp[t] \in Alls
  /\ LET a      == susp[t]
         forced == {k \in kids[a] : TimedOut(left[a]) /\ result[k] = "waiting"}
     IN /\ Remove(kids[a] \cup {a})
        /\ parent' = Put(parent, kids[a], None)
        /\ Destroyed({a})
        /\ result' = [Put(result, forced, "timeout") EXCEPT ![a] = "waiting"]
  /\ susp' = [susp EXCEPT ![t] = None]
  /\ UNCHANGED <<loopVars, taskVars, pollVars>>

\* run(): no task of T, nothing scheduled, no waiter.
NothingLeft(T) == T = {} /\ scheduled = <<>> /\ waiters = {}

\* step() destroys the finished tasks; run() stops when nothing is left.
StepDone ==
  /\ pc = "step" /\ cur = None /\ batch = <<>> /\ scheduled = <<>>
  /\ live' = live \ finished /\ finished' = {}
  /\ IF NothingLeft(live')
     THEN loopState' = "stop" /\ pc' = "off"
     ELSE loopState' = loopState /\ pc' = "poll"
  /\ UNCHANGED <<runVars, pollVars, listVars, linkVars, wakeVars, left>>

\* epoll_wait reports every hot registration (below max_events), level-triggered.
Pending == {reg[f] : f \in hot} \ {None}

PollEvents ==
  /\ pc = "poll" /\ Pending # {}
  /\ evq' = Pending /\ pc' = "dispatch"
  /\ UNCHANGED <<loopState, taskVars, runVars, ready, hot, listVars, linkVars,
                 wakeVars, left>>

\* Mutant: the deadlines of combinators are not looked at.
ExpiredLeaves ==
  {w \in waiters \cap Leaves : result[w] = "waiting" /\ DeadlineFires(w)}

Expired == {w \in waiters : result[w] = "waiting" /\ DeadlineFires(w)}

PollTimeout == \* next_timeout_ticks() has passed
  /\ pc = "poll" /\ Expired # {} /\ Pending = {}
  /\ pc' = "dispatch"
  /\ UNCHANGED <<loopState, taskVars, runVars, pollVars, listVars, linkVars,
                 wakeVars, left>>

PollInterrupted == \* epoll_wait fails with EINTR: poll() returns error
  /\ pc = "poll"
  /\ pc' = "dispatch"
  /\ UNCHANGED <<loopState, taskVars, runVars, pollVars, listVars, linkVars,
                 wakeVars, left>>

DispatchEvent(w, r) == \* EPOLLIN or EPOLLOUT is done, anything else an error
  /\ pc = "dispatch" /\ w \in evq /\ r \in {"done", "error"}
  /\ Complete(w, r)
  /\ evq' = evq \ {w} /\ ready' = ready \cup {w}
  /\ UNCHANGED <<loopVars, taskVars, batch, cur, susp, hot, listVars, linkVars,
                 left>>

Expire == \* run(): the timeout loop over waiters_
  /\ pc = "dispatch" /\ evq = {}
  /\ result' = Put(result, Expired, "timeout")
  /\ ready' = ready \cup Expired
  /\ pc' = "process"
  /\ UNCHANGED <<loopState, taskVars, runVars, evq, hot, listVars, linkVars,
                 coro, count, sched, left>>

ProcessReady(w) == \* process_ready_waiters completes each waiter (again)
  /\ pc = "process" /\ w \in ready
  /\ IF result[w] # "waiting" THEN Complete(w, result[w])
                              ELSE UNCHANGED <<scheduled, wakeVars>>
  /\ ready' = ready \ {w}
  /\ UNCHANGED <<loopVars, taskVars, batch, cur, susp, evq, hot, listVars,
                 linkVars, left>>

\* Mutant: state_ is not looked at.
LoopAgainAlways ==
  /\ pc = "process" /\ ready = {}
  /\ pc' = "step"
  /\ UNCHANGED <<loopState, taskVars, runVars, pollVars, listVars, linkVars,
                 wakeVars, left>>

LoopAgain ==
  /\ pc = "process" /\ ready = {} /\ loopState = "running"
  /\ pc' = "step"
  /\ UNCHANGED <<loopState, taskVars, runVars, pollVars, listVars, linkVars,
                 wakeVars, left>>

\* run() returns after stop(): tasks_.clear() destroys the frames that are left,
\* and the combinators in them.  scheduled_ and the leaves are not touched.
ExitLoop ==
  /\ pc = "process" /\ ready = {} /\ loopState = "stop"
  /\ LET gone == {susp[t] : t \in live} \cap Combos
         orphans == UNION {kids[c] : c \in gone}
     IN /\ Destroyed(gone)
        /\ parent' = Put(parent, orphans, None)
        /\ added' = Put(added, gone, FALSE)
        /\ result' = Put(result, gone, "waiting")
        /\ waiters' = waiters \ gone
        /\ scheduled' = Descheduled(scheduled, {coro[c] : c \in gone})
  /\ live' = {} /\ finished' = {}
  /\ susp' = [t \in Tasks |-> None]
  /\ pc' = "off"
  /\ UNCHANGED <<loopState, batch, cur, pollVars, reg>>

-----------------------------------------------------------------------------
(* What the running coroutine t may do until it suspends or finishes.      *)

Running(t) == pc = "step" /\ cur = t

\* io_loop_basic::schedule(io_task&&), from main or from a coroutine.
Spawn(t) ==
  /\ t \notin live
  /\ pc = "off" \/ cur # None
  /\ live' = live \cup {t}
  /\ scheduled' = Enqueue(scheduled, t)
  /\ UNCHANGED <<loopVars, finished, batch, cur, susp, pollVars, listVars,
                 linkVars, wakeVars, left>>

Finish(t) == \* co_return: handle.done() after resume()
  /\ Running(t)
  /\ cur' = None /\ finished' = finished \cup {t}
  /\ UNCHANGED <<loopVars, live, scheduled, batch, susp, pollVars, listVars,
                 linkVars, wakeVars, left>>

\* co_await of a leaf that is due or has a result: await_ready, await_resume.
LeafReady(t, w) ==
  /\ Running(t) /\ ~InUse(w)
  /\ TimedOut(left[w]) \/ result[w] # "waiting"
  /\ result' = IF TimedOut(left[w]) THEN [result EXCEPT ![w] = "timeout"]
                                    ELSE result
  /\ Remove({w} \cap {x \in Leaves : added[x]})
  /\ parent' = IF added[w] THEN [parent EXCEPT ![w] = None] ELSE parent
  /\ UNCHANGED <<loopVars, taskVars, batch, cur, susp, pollVars, kids, coro,
                 count, sched, left>>

\* co_await of a leaf that waits: await_ready adds it (without a parent) and
\* await_suspend stores the coroutine.
AwaitLeaf(t, w) ==
  /\ Running(t) /\ ~InUse(w)
  /\ ~TimedOut(left[w]) /\ result[w] = "waiting"
  /\ added' = [added EXCEPT ![w] = TRUE]
  /\ waiters' = waiters \cup {w}
  /\ reg' \in Registered({w} \cap {x \in Leaves : ~added[x]})
  /\ coro' = [coro EXCEPT ![w] = t]
  /\ susp' = [susp EXCEPT ![t] = w] /\ cur' = None
  /\ UNCHANGED <<loopVars, taskVars, scheduled, batch, pollVars, linkVars,
                 result, count, sched, left>>

\* The combinators that no frame holds.
Idle(c) == \A t \in live : susp[t] # c

\* The children a combinator's constructor links: add() returns early for a
\* waiter that is in the loop already.
Linked(K) == {k \in K : ~added[k]}

\* co_await of a wait-for-any one of whose children is due or has a result:
\* constructor, await_ready of every child, await_resume, destructor.  Past the
\* deadline d the children that still wait are skipped, as in ResumeAny.
AnyReady(t, a, K, d) ==
  LET linked  == Linked(K)
      polled  == Put(result, {k \in linked : TimedOut(left[k])}, "timeout")
      skipped == Skipped(linked, polled, d)
      freed   == linked \ skipped
  IN /\ Running(t) /\ Idle(a) /\ \A k \in K : ~InUse(k)
     /\ \E k \in linked : polled[k] # "waiting"
     /\ result' = polled
     /\ added' = Put(added, skipped, TRUE)
     /\ waiters' = waiters \cup skipped
     /\ \E g \in Registered(linked) : reg' = Unregistered(g, freed)
     /\ scheduled' = Descheduled(scheduled, {coro[k] : k \in freed})
     /\ parent' = Put(Put(parent, freed, None), skipped, a)
     /\ UNCHANGED <<loopVars, taskVars, batch, cur, susp, pollVars, kids,
                    coro, count, sched, left>>

\* co_await of a wait-for-any that suspends.  Its own waiter never enters the
\* loop, so its deadline d is never looked at there.
AwaitAny(t, a, K, d) ==
  LET linked == Linked(K)
  IN /\ Running(t) /\ Idle(a) /\ K # {} /\ \A k \in K : ~InUse(k)
     /\ \A k \in linked : result[k] = "waiting" /\ ~TimedOut(left[k])
     /\ parent' = Put(parent, linked, a) /\ kids' = [kids EXCEPT ![a] = linked]
     /\ added' = Put(added, linked, TRUE)
     /\ waiters' = waiters \cup linked
     /\ reg' \in Registered(linked)
     /\ result' = [result EXCEPT ![a] = "waiting"]
     /\ coro' = [coro EXCEPT ![a] = t]
     /\ left' = [left EXCEPT ![a] = d]
     /\ susp' = [susp EXCEPT ![t] = a] /\ cur' = None
     /\ UNCHANGED <<loopVars, taskVars, scheduled, batch, pollVars, count,
                    sched>>

\* co_await of a wait-for-all that does not suspend: every child it links has a
\* result (or it links none), or its deadline d is past.
AllReady(t, K, d) ==
  LET linked == Linked(K)
      forced == {k \in linked : result[k] = "waiting"}
  IN /\ Running(t) /\ \A k \in K : ~InUse(k)
     /\ forced = {} \/ TimedOut(d)
     /\ result' = Put(result, forced, "timeout")
     /\ \E g \in Registered(linked) : reg' = Unregistered(g, linked)
     /\ scheduled' = Descheduled(scheduled, {coro[k] : k \in linked})
     /\ parent' = Put(parent, linked, None)
     /\ UNCHANGED <<loopVars, taskVars, batch, cur, susp, pollVars, waiters,
                    added, kids, coro, count, sched, left>>

\* co_await of a wait-for-all that suspends, with itself in the loop.
AwaitAll(t, a, K, d) ==
  LET linked == Linked(K)
  IN /\ Running(t) /\ Idle(a) /\ \A k \in K : ~InUse(k)
     /\ (\E k \in linked : result[k] = "waiting") /\ ~TimedOut(d)
     /\ parent' = Put(parent, linked, a) /\ kids' = [kids EXCEPT ![a] = linked]
     /\ added' = Put(added, linked \cup {a}, TRUE)
     /\ waiters' = waiters \cup linked \cup {a}
     /\ reg' \in Registered(linked)
     /\ result' = [result EXCEPT ![a] = "waiting"]
     /\ count' = [count EXCEPT ![a] = OpenCount(linked)]
     /\ coro' = [coro EXCEPT ![a] = t]
     /\ left' = [left EXCEPT ![a] = d]
     /\ susp' = [susp EXCEPT ![t] = a] /\ cur' = None
     /\ UNCHANGED <<loopVars, taskVars, scheduled, batch, pollVars, sched>>

\* io_promise::cancel and direct calls of io_waiter::complete.  "Meaningful only
\* if the operation is still waiting", but the code does not check it.
ClientComplete(w, r) ==
  /\ pc = "step" /\ cur # None
  /\ result[w] = "waiting" \/ "late_complete" \in Allow
  /\ Complete(w, r)
  /\ UNCHANGED <<loopVars, taskVars, batch, cur, susp, pollVars, listVars,
                 linkVars, left>>

\* cancel() of a combinator another task is suspended in: the waiter itself and
\* then, unconditionally, every child, whose completion reaches the parent again.
CancelCombo(c) ==
  LET n    == Cardinality(kids[c])
      own  == count[c] - (IF coro[c] # None THEN 1 ELSE 0)
      base == IF own > 1 THEN own ELSE 1
  IN /\ pc = "step" /\ cur # None /\ ~Idle(c)
     /\ result[c] = "waiting" \/ "late_complete" \in Allow
     /\ result' = [Put(result, kids[c], "cancelled")
                     EXCEPT ![c] = IF n >= base THEN "done" ELSE "cancelled"]
     /\ count' = [count EXCEPT ![c] = IF own <= 1 THEN own
                                      ELSE IF n >= own THEN 1 ELSE own - n]
     /\ IF coro[c] # None /\ ~sched[c]
        THEN /\ scheduled' = Enqueue(scheduled, coro[c])
             /\ sched' = [sched EXCEPT ![c] = TRUE]
             /\ coro' = [coro EXCEPT ![c] = None]
        ELSE UNCHANGED <<scheduled, sched, coro>>
     /\ UNCHANGED <<loopVars, taskVars, batch, cur, susp, pollVars, listVars,
                    linkVars, left>>

\* io_promise::reset to a new deadline.
Reset(w, d) ==
  /\ pc = "step" /\ cur # None
  /\ ~InUse(w) \/ "reset_in_use" \in Allow
  /\ Remove({w} \cap {x \in Leaves : added[x]})
  /\ parent' = IF added[w] THEN [parent EXCEPT ![w] = None] ELSE parent
  /\ kids' = IF added[w] /\ parent[w] # None
             THEN [kids EXCEPT ![parent[w]] = @ \ {w}] ELSE kids
  /\ result' = [result EXCEPT ![w] = "waiting"]
  /\ left' = [left EXCEPT ![w] = d]
  /\ sched' = [sched EXCEPT ![w] = FALSE]
  /\ count' = [count EXCEPT ![w] = 1]
  /\ coro' = [coro EXCEPT ![w] = None]
  /\ UNCHANGED <<loopVars, taskVars, batch, cur, susp, pollVars>>

Stop == \* stop(): it does not wake a loop that is blocked in the poller
  /\ "stop" \in Allow
  /\ cur # None /\ loopState = "running"
  /\ loopState' = "stop"
  /\ UNCHANGED <<pc, taskVars, runVars, pollVars, listVars, linkVars, wakeVars,
                 left>>

-----------------------------------------------------------------------------
(* The environment: time and descriptors.                                  *)

Tick ==
  /\ \E w \in Waiters : left[w] \notin {Never, -1}
  /\ left' = [w \in Waiters |-> IF left[w] \in {Never, -1} THEN left[w]
                                                           ELSE left[w] - 1]
  /\ UNCHANGED <<loopVars, taskVars, runVars, pollVars, listVars, linkVars,
                 wakeVars>>

FdReady(f) ==
  /\ f \notin hot /\ hot' = hot \cup {f}
  /\ UNCHANGED <<loopVars, taskVars, runVars, ready, evq, listVars, linkVars,
                 wakeVars, left>>

FdIdle(f) ==
  /\ f \in hot /\ hot' = hot \ {f}
  /\ UNCHANGED <<loopVars, taskVars, runVars, ready, evq, listVars, linkVars,
                 wakeVars, left>>

-----------------------------------------------------------------------------

Resume(t) == ResumeStart(t) \/ ResumeLeaf(t) \/ ResumeAny(t) \/ ResumeAll(t)

Suspend(t) ==
  \/ \E w \in Leaves : AwaitLeaf(t, w)
  \/ \E a \in Anys, K \in SUBSET Leaves, d \in AnyWaits : AwaitAny(t, a, K, d)
  \/ \E a \in Alls, K \in SUBSET Leaves, d \in AllWaits : AwaitAll(t, a, K, d)

LoopStep ==
  \/ SwapBatch \/ StepDone \/ LoopAgain \/ ExitLoop
  \/ PollEvents \/ PollTimeout \/ Expire
  \/ \E w \in Waiters : ProcessReady(w)
  \/ \E w \in Leaves, r \in {"done", "error"} : DispatchEvent(w, r)
  \/ \E t \in Tasks : Resume(t)

CoroutineStep(t) ==
  \/ \E w \in Leaves : LeafReady(t, w)
  \/ \E a \in Anys, K \in SUBSET Leaves, d \in AnyWaits : AnyReady(t, a, K, d)
  \/ \E K \in SUBSET Leaves, d \in AllWaits : AllReady(t, K, d)
  \/ Suspend(t) \/ Finish(t)

SharedStep ==
  \/ \E w \in Leaves, r \in {"done", "error", "cancelled"} : ClientComplete(w, r)
  \/ \E c \in Combos : CancelCombo(c)
  \/ \E w \in Leaves, d \in Waits : Reset(w, d)
  \/ Stop

Next ==
  \/ Run \/ LoopStep \/ PollInterrupted
  \/ \E t \in Tasks : Spawn(t) \/ CoroutineStep(t)
  \/ SharedStep
  \/ Tick \/ \E f \in Fds : FdReady(f) \/ FdIdle(f)

Spec == Init /\ [][Next]_vars

\* The loop's thread keeps going, time passes, and a coroutine that was resumed
\* suspends or finishes sooner or later.
Fairness ==
  /\ WF_vars(LoopStep) /\ WF_vars(Tick)
  /\ \A t \in Tasks : WF_vars(Suspend(t) \/ Finish(t))

FairSpec == Spec /\ Fairness

-----------------------------------------------------------------------------
(* Safety.                                                                 *)

Handles(q) == {q[i] : i \in 1..Len(q)}
Unique(q)  == \A i, j \in 1..Len(q) : q[i] = q[j] => i = j
Queued     == Handles(scheduled) \cup Handles(batch)

\* A coroutine is resumed once per suspension: its handle is at one place only,
\* running, in one of the two vectors of step(), or stored in one waiter.
\* schedule(coro) looks for duplicates in scheduled_ alone.
NoDoubleResume ==
  /\ Unique(scheduled) /\ Unique(batch)
  /\ Handles(scheduled) \cap Handles(batch) = {}
  /\ cur \notin Queued
  /\ \A w \in Waiters : coro[w] # None => coro[w] \notin Queued \cup {cur}
  /\ \A v, w \in Waiters : coro[v] # None /\ coro[v] = coro[w] => v = w

\* Every handle step() resumes, or a waiter may still schedule, is a coroutine
\* that is neither destroyed nor done.
NoDeadHandle ==
  /\ Queued \cup ({cur} \ {None}) \subseteq live \ finished
  /\ \A w \in Waiters : coro[w] # None => coro[w] \in live \ finished

\* What the co_await on w waits for has happened.
Final(w) == result[w] # "waiting"
Satisfied(w) ==
  \/ Final(w)
  \/ w \in Anys /\ \E k \in kids[w] : Final(k)
  \/ w \in Alls /\ \A k \in kids[w] : Final(k)

\* No lost wakeup: while coroutines run, and when the loop goes to sleep, a task
\* that is neither running nor queued is stored in the waiter it awaits, and
\* that waiter's condition does not hold yet.
NoLostWakeup ==
  pc \in {"step", "poll"} =>
    \A t \in live \ (finished \cup Queued \cup {cur}) :
      susp[t] # None /\ coro[susp[t]] = t /\ ~Satisfied(susp[t])

\* What the task that is suspended in w may be woken for: w has a result, and for a
\* wait-for-any that nobody cancelled one of its children has.
Happened(w) ==
  /\ Final(w)
  /\ w \in Anys => result[w] = "cancelled" \/ \E k \in kids[w] : Final(k)

\* No spurious wakeup: a coroutine is queued only after what it awaits happened,
\* and that still holds when its turn comes (waiter.hpp:49-54, 355).
NoSpuriousWakeup ==
  \A t \in Queued : susp[t] # None => Happened(susp[t])

\* A wait-for-all resumes its awaiter only after all children have a result or
\* its deadline came (waiter.hpp:440-446).
AllWokenComplete ==
  \A a \in Alls : sched[a] =>
    DeadlineFires(a) \/ \A k \in kids[a] : Final(k)

\* completion_count_ of an awaited wait-for-all is the number of children whose
\* completion is still to be counted.
AllCountExact ==
  \A a \in Alls : coro[a] # None =>
    count[a] = Cardinality({k \in kids[a] : ~Final(k) \/ k \in ready})

\* added_ agrees with waiters_, and whatever a suspended task depends on is in
\* the loop, where its deadline is seen: the leaf, all children, the wait-for-all.
AwaitedIsListed ==
  /\ \A w \in Waiters : added[w] <=> w \in waiters
  /\ \A t \in live : LET w == susp[t] IN
       w # None /\ coro[w] = t => \A x \in kids[w] \cup ({w} \ Anys) : added[x]

\* awaiting_waiter_ points to a combinator that exists and lists the waiter.
NoDanglingParent ==
  \A w \in Waiters : parent[w] # None => w \in kids[parent[w]]

\* The epoll registration of a descriptor a task depends on names its waiter.
AwaitedIsRegistered ==
  \A w \in Leaves : HasFd(w) /\ InUse(w) /\ ~Final(w) => reg[FdOf[w]] = w

\* The inductive invariant behind TypeOK, NoDoubleResume and NoDeadHandle, as long
\* as stop() has not ended run().  Counts: a waiter that still can wake
\* somebody has a count to take down and was not scheduled; a combinator's
\* coroutine is suspended in it.  Places: each handle is in one place.
Counts ==
  /\ \A w \in Waiters : coro[w] # None => count[w] >= 1 /\ ~sched[w]
  /\ \A w \in Leaves : result[w] = "waiting" => count[w] >= 1 /\ ~sched[w]
  /\ \A c \in Combos : Idle(c) => count[c] >= 1 /\ ~sched[c]
  /\ \A c \in Combos :
       coro[c] # None => coro[c] \in live /\ susp[coro[c]] = c
  /\ cur # None => susp[cur] = None
  /\ \A t \in finished : susp[t] = None

Places ==
  /\ Unique(scheduled) /\ Unique(batch)
  /\ Handles(scheduled) \cap Handles(batch) = {}
  /\ finished \subseteq live
  /\ \A t \in Queued : t \in live \ finished /\ t # cur
  /\ \A t \in Queued, w \in Waiters : coro[w] # t
  /\ cur # None => cur \in live \ finished
  /\ \A w \in Waiters : coro[w] # None => coro[w] \in live \ finished
  /\ \A w \in Waiters : coro[w] # None => coro[w] # cur
  /\ \A v, w \in Waiters : coro[v] # None /\ coro[v] = coro[w] => v = w
  /\ loopState = "stop" => pc = "off" \/ "stop" \in Allow

IInv == TypeOK /\ Counts /\ Places

\* The loop is a FIFO run queue: step()'s batch before scheduled_.
RQ == INSTANCE RunQueue WITH queue   <- batch \o scheduled,
                             blocked <- {coro[w] : w \in Waiters} \ {None}
RefinesRunQueue == RQ!Spec

-----------------------------------------------------------------------------
(* Liveness, under FairSpec.                                               *)

\* No starvation among coroutines: a scheduled one is resumed, whatever the others
\* do, unless run() ends before, which it does after stop() only.
QueuedResumes ==
  \A t \in Tasks : (pc # "off" /\ t \in Queued) ~> cur = t \/ pc = "off"

\* stop() ends run() as soon as the poller returns (impl/io_loop.hpp:155, 207),
\* whatever is still scheduled, ready or waiting.
StopEnds == (loopState = "stop" /\ pc = "process") ~> pc = "off"

\* A deadline wakes the task, provided that step() always returns to the poller
\* (coroutines that keep waking each other keep it from doing so).
HasTimer(t) == susp[t] \in Leaves \cup Alls /\ left[susp[t]] # Never
TimerResumes == []<>(pc = "poll") => \A t \in Tasks : HasTimer(t) ~> ~HasTimer(t)

\* "or for the specified time to pass before resuming" (waiter.hpp:355): the
\* deadline of a wait-for-any resumes its awaiter.
AnyTimer(t) == susp[t] \in Anys /\ left[susp[t]] # Never
AnyTimerResumes ==
  []<>(pc = "poll") => \A t \in Tasks : AnyTimer(t) ~> ~AnyTimer(t)
=============================================================================
