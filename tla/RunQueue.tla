------------------------------ MODULE RunQueue ------------------------------
(***************************************************************************)
(* What the loop promises to coroutines: a cooperative FIFO run queue.  A  *)
(* coroutine is blocked, queued or running; a wake moves a blocked one to  *)
(* the back of the queue, exactly once; only the head is resumed, and only *)
(* when nothing else runs.  IoLoop implements it.                          *)
(***************************************************************************)
EXTENDS Naturals, Sequences

CONSTANTS Tasks, None

VARIABLES
  queue,    \* coroutines to resume, in order
  cur,      \* the one that runs, or None
  blocked   \* the ones suspended in a co_await
vars == <<queue, cur, blocked>>

InQueue(t) == \E i \in 1..Len(queue) : queue[i] = t

Init == queue = <<>> /\ cur = None /\ blocked = {}

Admit(t) == \* a new task is scheduled
  /\ ~InQueue(t) /\ t # cur /\ t \notin blocked
  /\ queue' = Append(queue, t)
  /\ UNCHANGED <<cur, blocked>>

Wake(t) == \* what t awaits has completed
  /\ t \in blocked
  /\ blocked' = blocked \ {t} /\ queue' = Append(queue, t)
  /\ UNCHANGED cur

Resume ==
  /\ cur = None /\ queue # <<>>
  /\ cur' = Head(queue) /\ queue' = Tail(queue)
  /\ UNCHANGED blocked

Block == \* the running coroutine suspends
  /\ cur # None
  /\ blocked' = blocked \cup {cur} /\ cur' = None
  /\ UNCHANGED queue

Retire == \* the running coroutine returns
  /\ cur # None /\ cur' = None
  /\ UNCHANGED <<queue, blocked>>

Next == Resume \/ Block \/ Retire \/ \E t \in Tasks : Admit(t) \/ Wake(t)

Spec == Init /\ [][Next]_vars
=============================================================================
