------------------------------- MODULE IoMbox -------------------------------
(***************************************************************************)
(* io_mbox (mbox.hpp), on top of what the loop promises (RunQueue): tasks  *)
(* that send, read, clear, close and destroy one mailbox.                  *)
(*                                                                         *)
(* A mailbox_reader lives inside one co_await mbox.read(...) expression, so*)
(* a task has at most one.  Messages are numbered in the order they are    *)
(* accepted.  Between two operations on the mailbox a task carries no      *)
(* state: one that sleeps is one that finishes and is started again.       *)
(*                                                                         *)
(* Calls that return at once and change nothing (send to a closed mailbox, *)
(* read of a closed one or with a deadline in the past) are not actions.   *)
(***************************************************************************)
EXTENDS Naturals, Sequences, SequencesExt

CONSTANTS
  Tasks,     \* coroutines
  Capacity,  \* max_queue_size_, 0 = unlimited
  MaxSent,   \* bound of the model: messages accepted
  Allow,     \* which unguarded client behaviours are explored
  None       \* nullptr, std::nullopt

ASSUME MboxAssumption ==
  /\ None \notin Tasks /\ None \notin Nat
  /\ Capacity \in Nat /\ MaxSent \in Nat
  /\ Allow \subseteq {"destroy_busy"}

VARIABLES
  runq, cur, blocked,  \* the run queue of the loop
  polling,             \* no coroutine ran since epoll_wait returned
  queue,               \* message_queue_
  readers,             \* readers_, as the tasks their readers belong to
  closed,              \* is_closed_
  alive,               \* the mailbox is not destroyed yet
  rd,                  \* the reader of a task: fields of mailbox_reader
  sent, got, gone      \* history: accepted, received and discarded messages

loopVars    == <<runq, cur, blocked, polling>>
mboxVars    == <<queue, readers, closed, alive>>
historyVars == <<sent, got, gone>>
vars == <<loopVars, mboxVars, rd, historyVars>>

RQ == INSTANCE RunQueue WITH queue <- runq

NoReader == [result |-> "none", msg |-> None, registered |-> FALSE,
             attached |-> FALSE, timer |-> FALSE]

Init ==
  /\ RQ!Init /\ polling = FALSE
  /\ queue = <<>> /\ readers = <<>> /\ closed = FALSE /\ alive = TRUE
  /\ rd = [t \in Tasks |-> NoReader]
  /\ sent = 0 /\ got = {} /\ gone = {}

Reading(t) == rd[t] # NoReader

-----------------------------------------------------------------------------
(* Helpers.                                                                *)

\* The tasks of s that sleep, in the order of s: the only member of this set.
Sleepers(s) ==
  {q \in SeqOf(ToSet(s) \cap blocked, Len(s)) :
     /\ ToSet(q) = ToSet(s) \cap blocked /\ IsInjective(q)
     /\ \A i, j \in DOMAIN q : i < j =>
          \E k, l \in DOMAIN s : k < l /\ s[k] = q[i] /\ s[l] = q[j]}

\* Mutant: the first result of a waiter sticks.
CompleteOnce(s, r, f) ==
  /\ rd' = [t \in Tasks |-> IF t \in ToSet(s) /\ f[t].result = "waiting"
                            THEN [f[t] EXCEPT !.result = r] ELSE f[t]]
  /\ \E q \in Sleepers(s) : runq' = runq \o q
  /\ blocked' = blocked \ ToSet(s)
  /\ UNCHANGED <<cur, polling>>

\* The waiters of the readers of the sequence s complete with r: each is woken,
\* in this order, unless a former completion did so.
Complete(s, r, f) ==
  /\ rd' = [t \in Tasks |-> IF t \in ToSet(s) THEN [f[t] EXCEPT !.result = r]
                                              ELSE f[t]]
  /\ \E q \in Sleepers(s) : runq' = runq \o q
  /\ blocked' = blocked \ ToSet(s)
  /\ UNCHANGED <<cur, polling>>

\* Mutant: one message too many fits.
RoomOffByOne(q) == IF Capacity > 0 /\ Len(q) > Capacity THEN Tail(q) ELSE q

\* The oldest message makes room for a new one.
Room(q) == IF Capacity > 0 /\ Len(q) >= Capacity THEN Tail(q) ELSE q

\* Mutant: a reader that got no message stays in readers_.
UnregisterNothing(q, t) == q

\* unregister()
Unregister(q, t) ==
  IF rd[t].registered /\ rd[t].attached THEN RemoveFirst(q, t) ELSE q

\* Mutant: is_closed_ is not looked at.
OutcomeOpen(t, shut) ==
  IF rd[t].result = "timeout" THEN None
  ELSE IF rd[t].msg # None THEN rd[t].msg
  ELSE IF rd[t].result = "cancelled" \/ queue = <<>> THEN None ELSE Head(queue)

\* What await_resume returns; shut: the mailbox is closed or detached.
Outcome(t, shut) ==
  IF rd[t].result = "timeout" \/ shut THEN None
  ELSE IF rd[t].msg # None THEN rd[t].msg
  ELSE IF rd[t].result = "cancelled" \/ queue = <<>> THEN None ELSE Head(queue)

-----------------------------------------------------------------------------
(* The loop.                                                               *)

\* A coroutine is scheduled, by another one or while no run() waits.
Start(t) ==
  /\ cur # None \/ blocked = {}
  /\ RQ!Admit(t)
  /\ UNCHANGED <<polling, mboxVars, rd, historyVars>>

Finish ==
  /\ RQ!Retire
  /\ UNCHANGED <<polling, mboxVars, rd, historyVars>>

ResumeStart ==
  /\ RQ!Resume /\ ~Reading(Head(runq)) /\ polling' = FALSE
  /\ UNCHANGED <<mboxVars, rd, historyVars>>

\* await_resume and the destructor of the reader.  When the mailbox is gone and
\* the reader was not detached from it, is_closed_ is whatever the memory holds.
ResumeRead ==
  /\ RQ!Resume /\ Reading(Head(runq)) /\ polling' = FALSE
  /\ LET t == Head(runq) IN
     \E shut \in IF alive \/ ~rd[t].attached THEN {closed \/ ~rd[t].attached}
                                             ELSE BOOLEAN :
       LET m == Outcome(t, shut) IN
       /\ readers' = Unregister(readers, t)
       /\ got' = got \cup ({m} \ {None})
       /\ queue' = IF m # None /\ rd[t].msg = None THEN Tail(queue) ELSE queue
       /\ gone' = gone \cup ({rd[t].msg} \ {None, m})
       /\ rd' = [rd EXCEPT ![t] = NoReader]
  /\ UNCHANGED <<closed, alive, sent>>

\* Mutant: the expired waiter is not handed to process_ready_waiters.
ExpireSilently(t) ==
  /\ cur = None /\ (runq = <<>> \/ polling)
  /\ t \in blocked /\ rd[t].timer /\ rd[t].result = "waiting"
  /\ rd' = [rd EXCEPT ![t].result = "timeout"]
  /\ polling' = TRUE
  /\ UNCHANGED <<runq, cur, blocked, mboxVars, historyVars>>

\* run() sees the deadline of a reader that still waits.
Expire(t) ==
  /\ cur = None /\ (runq = <<>> \/ polling)
  /\ t \in blocked /\ rd[t].timer /\ rd[t].result = "waiting"
  /\ rd' = [rd EXCEPT ![t].result = "timeout"]
  /\ RQ!Wake(t) /\ polling' = TRUE
  /\ UNCHANGED <<mboxVars, historyVars>>

-----------------------------------------------------------------------------
(* Operations of the running coroutine.                                    *)

CanCall == cur # None /\ alive

\* send() and emplace(): the reader that waits longest gets the message.
SendToReader ==
  /\ CanCall /\ ~closed /\ sent < MaxSent /\ readers # <<>>
  /\ readers' = Tail(readers)
  /\ sent' = sent + 1
  /\ Complete(<<Head(readers)>>, "done",
              [rd EXCEPT ![Head(readers)].msg = sent',
                         ![Head(readers)].registered = FALSE])
  /\ UNCHANGED <<queue, closed, alive, got, gone>>

\* send() and emplace(): nobody waits.
SendToQueue ==
  /\ CanCall /\ ~closed /\ sent < MaxSent /\ readers = <<>>
  /\ sent' = sent + 1
  /\ queue' = Append(Room(queue), sent')
  /\ gone' = gone \cup (ToSet(queue) \ ToSet(queue'))
  /\ UNCHANGED <<loopVars, readers, closed, alive, rd, got>>

\* Mutant: the newest message is taken.
ReadNewest ==
  /\ CanCall /\ ~closed /\ queue # <<>>
  /\ got' = got \cup {Last(queue)}
  /\ queue' = Front(queue)
  /\ UNCHANGED <<loopVars, readers, closed, alive, rd, sent, gone>>

\* co_await read(): a message is there.
ReadNow ==
  /\ CanCall /\ ~closed /\ queue # <<>>
  /\ got' = got \cup {Head(queue)}
  /\ queue' = Tail(queue)
  /\ UNCHANGED <<loopVars, readers, closed, alive, rd, sent, gone>>

\* co_await read() suspends, with or without a deadline.
ReadWait(timer) ==
  /\ CanCall /\ ~closed /\ queue = <<>>
  /\ readers' = Append(readers, cur)
  /\ rd' = [rd EXCEPT ![cur] = [result |-> "waiting", msg |-> None,
                                registered |-> TRUE, attached |-> TRUE,
                                timer |-> timer]]
  /\ RQ!Block
  /\ UNCHANGED <<polling, queue, closed, alive, historyVars>>

Clear ==
  /\ CanCall /\ queue # <<>>
  /\ queue' = <<>> /\ gone' = gone \cup ToSet(queue)
  /\ UNCHANGED <<loopVars, readers, closed, alive, rd, sent, got>>

\* Mutant: the readers are forgotten, not completed.
CloseForgets ==
  /\ CanCall /\ ~closed
  /\ closed' = TRUE
  /\ readers' = <<>> /\ Complete(<<>>, "cancelled", rd)
  /\ queue' = <<>> /\ gone' = gone \cup ToSet(queue)
  /\ UNCHANGED <<alive, sent, got>>

\* close(): the readers leave readers_ but stay registered.
Close ==
  /\ CanCall /\ ~closed
  /\ closed' = TRUE
  /\ readers' = <<>> /\ Complete(readers, "cancelled", rd)
  /\ queue' = <<>> /\ gone' = gone \cup ToSet(queue)
  /\ UNCHANGED <<alive, sent, got>>

\* Mutant: the readers are completed, but not detached.
DestroyDetachesNone ==
  /\ CanCall
  /\ \A t \in Tasks : Reading(t) => Contains(readers, t)
  /\ alive' = FALSE
  /\ Complete(readers, "cancelled", rd)
  /\ readers' = <<>> /\ queue' = <<>> /\ gone' = gone \cup ToSet(queue)
  /\ UNCHANGED <<closed, sent, got>>

\* ~io_mbox: detach_mailbox of every reader in readers_.
Destroy ==
  /\ CanCall
  /\ \A t \in Tasks : Reading(t) => Contains(readers, t) \/ "destroy_busy" \in Allow
  /\ alive' = FALSE
  /\ Complete(readers, "cancelled",
              [t \in Tasks |-> IF Contains(readers, t)
                               THEN [rd[t] EXCEPT !.attached = FALSE,
                                                  !.registered = FALSE]
                               ELSE rd[t]])
  /\ readers' = <<>> /\ queue' = <<>> /\ gone' = gone \cup ToSet(queue)
  /\ UNCHANGED <<closed, sent, got>>

-----------------------------------------------------------------------------

Resume == ResumeStart \/ ResumeRead
ReadSuspends == ReadWait(TRUE) \/ ReadWait(FALSE)

Next ==
  \/ \E t \in Tasks : Start(t) \/ Expire(t)
  \/ Finish \/ Resume
  \/ SendToReader \/ SendToQueue \/ ReadNow \/ ReadSuspends
  \/ Clear \/ Close \/ Destroy

\* The loop keeps going, and a coroutine that runs suspends or finishes sooner
\* or later.  A deadline is a moment that comes, and every iteration of run()
\* looks at all of them: a reader is not passed over again and again.
Spec == /\ Init /\ [][Next]_vars
        /\ WF_vars(Resume) /\ WF_vars(Finish \/ ReadSuspends)
        /\ \A t \in Tasks : SF_vars(Expire(t))

-----------------------------------------------------------------------------
(* Safety.                                                                 *)

Held == {rd[t].msg : t \in Tasks} \ {None}

\* The values each variable takes; a bounded queue stays within its bound.
TypeOK ==
  /\ runq \in Seq(Tasks) /\ cur \in Tasks \cup {None} /\ blocked \subseteq Tasks
  /\ queue \in Seq(1..sent) /\ (Capacity > 0 => Len(queue) <= Capacity)
  /\ readers \in Seq(Tasks) /\ sent \in 0..MaxSent
  /\ {closed, alive, polling} \subseteq BOOLEAN
  /\ rd \in [Tasks -> [result : {"none", "waiting", "done", "timeout", "cancelled"},
                       msg : 1..sent \cup {None}, registered : BOOLEAN,
                       attached : BOOLEAN, timer : BOOLEAN]]
  /\ got \subseteq 1..sent /\ gone \subseteq 1..sent

\* A reader sleeps only on a mailbox that exists, is open, has no message and
\* will find the reader (mbox.hpp:45-53): no wakeup is lost.
SleepsOnEmpty ==
  \A t \in blocked : /\ alive /\ ~closed /\ queue = <<>>
                     /\ Contains(readers, t) /\ rd[t].result = "waiting"

\* Every accepted message is in one place, so it is received once at most: queued,
\* handed to one reader, received, or discarded.
AcceptedOnce ==
  /\ 1..sent = ToSet(queue) \cup Held \cup got \cup gone
  /\ LET place == <<ToSet(queue), Held, got, gone>> IN
     \A i, j \in 1..4 : i # j => place[i] \cap place[j] = {}
  /\ IsInjective(queue)
  /\ \A t, u \in Tasks : t # u => rd[t].msg = None \/ rd[t].msg # rd[u].msg

\* Messages are handed out oldest first (mbox.hpp:42-43): what is queued is in
\* order and newer than what any reader was given, so each task receives in the
\* order of sending.
OldestFirst ==
  /\ \A m \in Held \cup got, q \in ToSet(queue) : m < q
  /\ \A i, j \in 1..Len(queue) : i < j => queue[i] < queue[j]

\* A message is discarded only by clear(), close(), the destructor, or as the
\* oldest of a full queue; a timeout that races with a send() loses nothing.
DiscardedForCause ==
  [][\A m \in gone' \ gone :
       \/ closed' \/ ~alive'
       \/ queue' = <<>> /\ Contains(queue, m)
       \/ Len(queue) = Capacity /\ m = Head(queue)]_vars

\* The mailbox is a bounded FIFO channel (mbox.hpp:40-53, 61-65): whatever the order
\* in which the loop resumes readers, a message goes to the one that waits longest,
\* is received by the one it went to, and by nobody once the mailbox is closed.
C == INSTANCE Channel WITH open    <- alive /\ ~closed,
                           waiting <- readers,
                           handed  <- [t \in Tasks |-> rd[t].msg]
RefinesChannel == C!Spec

\* A message that send() delivered to a waiting reader is the result of its
\* co_await (mbox.hpp:50-52).
DeliveredIsReceived ==
  [][\A t \in Tasks : rd[t].msg # None /\ rd'[t] = NoReader
                        => rd[t].msg \in got']_vars

\* A reader that is still registered when its mailbox is destroyed is told
\* (mbox.hpp:67-68): none keeps a pointer to it.
NoDanglingMailbox == \A t \in Tasks : rd[t].registered /\ rd[t].attached => alive

-----------------------------------------------------------------------------
(* Liveness.                                                               *)

\* close() and the destructor make every reader return.
ClosingWakes == \A t \in Tasks : (Reading(t) /\ (closed \/ ~alive)) ~> ~Reading(t)

\* A read with a deadline returns, if the loop gets to its poller again and again.
DeadlineReturns ==
  []<>(cur = None /\ runq = <<>>) =>
    \A t \in Tasks : (Reading(t) /\ rd[t].timer) ~> ~Reading(t)
=============================================================================
