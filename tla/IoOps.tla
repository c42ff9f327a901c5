------------------------------- MODULE IoOps -------------------------------
(***************************************************************************)
(* The socket operations (ioops.hpp, net/ops.hpp): accept, connect, recv,  *)
(* recvmsg and send as awaitables over one descriptor each, on top of what *)
(* the loop promises (RunQueue).  An operation calls the kernel in         *)
(* await_ready and, when its result is done, again in await_resume.        *)
(*                                                                         *)
(* A coroutine o in Ops has one operation and one descriptor, also named o;*)
(* the other tasks cancel it.  An operation object is awaited once and then*)
(* made anew or reset.  Other processes may hold the descriptor too.       *)
(* Quantities are abstract units: bytes, or connections to accept.         *)
(***************************************************************************)
EXTENDS Naturals, Sequences

CONSTANTS
  Tasks,     \* coroutines
  Ops,       \* those that use an operation
  Sizes,     \* what buffer_size_ may be
  MaxAvail,  \* bound of the model: units the kernel holds, or has room for
  None       \* nullptr

ASSUME OpsAssumption ==
  /\ None \notin Tasks /\ Ops \subseteq Tasks
  /\ Sizes \subseteq Nat /\ MaxAvail \in Nat \ {0}

VARIABLES
  kind,                \* which of the four a coroutine uses
  runq, cur, blocked,  \* the run queue of the loop
  polling,             \* no coroutine ran since epoll_wait returned
  op,                  \* the operation objects
  added,               \* operations whose waiter is in the loop and in epoll
  sock,                \* the kernel's side of each descriptor
  ret                  \* what the last co_await returned

loopVars == <<runq, cur, blocked, polling>>
vars == <<kind, loopVars, op, added, sock, ret>>

Kinds   == {"accept", "connect", "recv", "send"}
Results == {"waiting", "done", "error", "closed", "timeout", "cancelled"}

RQ == INSTANCE RunQueue WITH queue <- runq

\* flag: completed_, in_progress_, read_completed_; count: a descriptor, or
\* bytes.  History: taken, what this object took from the kernel or gave to it;
\* gone, something was withdrawn after the poll and before the coroutine ran.
NewOp(timer, n) == [result |-> "waiting", timer |-> timer, flag |-> FALSE,
                    closed |-> FALSE, size |-> n, count |-> 0,
                    taken |-> 0, gone |-> FALSE]

\* conn: state of a connecting socket; ready: units to read, connections to
\* accept, or room to write; eof, err: the peer is gone, an error is pending.
NewSock == [conn |-> "new", ready |-> 0, eof |-> FALSE, err |-> FALSE]

Init ==
  /\ kind \in [Ops -> Kinds]
  /\ RQ!Init /\ polling = FALSE
  /\ op \in [Ops -> {NewOp("none", n) : n \in Sizes}] /\ added = {}
  /\ sock = [o \in Ops |-> NewSock]
  /\ ret = [o \in Ops |-> "none"]

-----------------------------------------------------------------------------
(* execute(): the pairs of operation and socket that one call may lead to. *)

Failed(x, s) == {<<[x EXCEPT !.result = "error"], [s EXCEPT !.err = FALSE]>>}

\* A call that takes n units; EAGAIN changes nothing.
Took(x, s, n, flag) ==
  <<[x EXCEPT !.result = "done", !.flag = flag, !.count = n, !.taken = @ + n],
    [s EXCEPT !.ready = @ - n]>>

Accept(x, s) ==
  IF x.flag THEN {<<x, s>>}
  ELSE IF s.err THEN Failed(x, s)
  ELSE IF s.ready > 0 THEN {Took(x, s, 1, TRUE)}
  ELSE {<<x, s>>}

\* Mutant: read_completed_ is not looked at.
RecvAgain(x, s) ==
  IF s.err THEN Failed(x, s)
  ELSE IF s.ready > 0 /\ x.size > 0
       THEN {Took(x, s, n, TRUE) : n \in {k \in 1..x.size : k <= s.ready}}
  ELSE IF s.eof \/ s.ready > 0 THEN {<<[x EXCEPT !.result = "closed", !.closed = TRUE,
                                                 !.count = 0], s>>}
  ELSE {<<x, s>>}

\* recv and recvmsg; no bytes are the end of the stream, or an empty buffer.
Recv(x, s) ==
  IF x.flag THEN {<<x, s>>}
  ELSE IF s.err THEN Failed(x, s)
  ELSE IF s.ready > 0 /\ x.size > 0
       THEN {Took(x, s, n, TRUE) : n \in {k \in 1..x.size : k <= s.ready}}
  ELSE IF s.eof \/ s.ready > 0 THEN {<<[x EXCEPT !.result = "closed", !.closed = TRUE,
                                                 !.count = 0], s>>}
  ELSE {<<x, s>>}

\* Mutant: the whole buffer is sent again.
SendAgain(x, s) ==
  IF s.err THEN Failed(x, s)
  ELSE IF s.ready > 0
       THEN {<<[x EXCEPT !.result = "done", !.count = @ + n, !.taken = @ + n],
               [s EXCEPT !.ready = @ - n]>> :
             n \in {k \in 1..x.size : k <= s.ready}}
  ELSE {<<x, s>>}

Send(x, s) ==
  IF s.err THEN Failed(x, s)
  ELSE IF x.count = x.size THEN {<<[x EXCEPT !.result = "done"], s>>}
  ELSE IF s.ready > 0
       THEN {<<[x EXCEPT !.result = "done", !.count = @ + n, !.taken = @ + n],
               [s EXCEPT !.ready = @ - n]>> :
             n \in {k \in 1..(x.size - x.count) : k <= s.ready}}
  ELSE {<<x, s>>}

\* In progress, SO_ERROR is asked; it is 0 also while the handshake goes on.
Connect(x, s) ==
  IF x.flag
  THEN {IF s.conn = "refused"
        THEN <<[x EXCEPT !.result = "error"], [s EXCEPT !.conn = "new"]>>
        ELSE <<[x EXCEPT !.result = "done"], s>>}
  ELSE IF s.conn = "new"
       THEN {<<[x EXCEPT !.result = "done"], [s EXCEPT !.conn = "up"]>>,
             <<[x EXCEPT !.flag = TRUE], [s EXCEPT !.conn = "pending"]>>,
             <<[x EXCEPT !.result = "error"], s>>}
  ELSE IF s.conn = "up" THEN {<<[x EXCEPT !.result = "done"], s>>}
  ELSE {<<[x EXCEPT !.result = "error"],
          [s EXCEPT !.conn = IF @ = "refused" THEN "new" ELSE @]>>}

Execute(o, x, s) ==
  CASE kind[o] = "accept"  -> Accept(x, s)
    [] kind[o] = "connect" -> Connect(x, s)
    [] kind[o] = "recv"    -> Recv(x, s)
    [] kind[o] = "send"    -> Send(x, s)

\* What check_ready returns after execute().
AcceptReady(x)  == x.flag
ConnectReady(x) == ~x.flag
RecvReady(x)    == x.closed \/ x.count > 0
SendReady(x)    == IF x.result = "timeout" THEN x.count = x.size
                   ELSE x.count > 0 \/ x.size = 0

CheckReady(o, x) ==
  CASE kind[o] = "accept"  -> AcceptReady(x)
    [] kind[o] = "connect" -> ConnectReady(x)
    [] kind[o] = "recv"    -> RecvReady(x)
    [] kind[o] = "send"    -> SendReady(x)

\* Mutant: await_resume does not execute.
ResumedNever(o, x, s) == {<<x, s>>}

\* await_resume(): executed_ is never set.
Resumed(o, x, s) == IF x.result = "done" THEN Execute(o, x, s) ELSE {<<x, s>>}

\* Something epoll reports; a listening socket has no error of its own.
Hot(o) ==
  IF kind[o] = "connect" THEN sock[o].conn # "pending"
  ELSE sock[o].ready > 0 \/ sock[o].eof \/ (sock[o].err /\ kind[o] # "accept")

-----------------------------------------------------------------------------
(* Coroutines.                                                             *)

Start(t) ==
  /\ cur # None \/ blocked = {}
  /\ RQ!Admit(t)
  /\ UNCHANGED <<kind, polling, op, added, sock, ret>>

Finish ==
  /\ RQ!Retire
  /\ UNCHANGED <<kind, polling, op, added, sock, ret>>

\* The coroutine makes a new operation, with or without a deadline.
Make(timer, n) ==
  /\ cur \in Ops
  /\ op' = [op EXCEPT ![cur] = NewOp(timer, n)]
  /\ ret' = [ret EXCEPT ![cur] = "none"]
  /\ UNCHANGED <<kind, loopVars, added, sock>>

\* io_op_base::reset, to try again what timed out or was cancelled: the flags of
\* the operation stay as they are, so one that got further is not reset.
Reset(timer) ==
  /\ cur \in Ops
  /\ ~op[cur].flag /\ ~op[cur].closed /\ op[cur].count = 0
  /\ op' = [op EXCEPT ![cur].result = "waiting", ![cur].timer = timer,
                      ![cur].taken = 0, ![cur].gone = FALSE]
  /\ ret' = [ret EXCEPT ![cur] = "none"]
  /\ UNCHANGED <<kind, loopVars, added, sock>>

Return(o, p) ==
  /\ op' = [op EXCEPT ![o] = p[1]] /\ sock' = [sock EXCEPT ![o] = p[2]]
  /\ ret' = [ret EXCEPT ![o] = p[1].result]

\* The co_await does not suspend: deadline past, result there, or check_ready.
AwaitReady ==
  /\ cur \in Ops /\ ret[cur] = "none"
  /\ LET x == op[cur]
         ready == IF x.timer = "past"
                  THEN {<<[x EXCEPT !.result = "timeout"], sock[cur]>>}
                  ELSE IF x.result # "waiting" THEN {<<x, sock[cur]>>}
                  ELSE {p \in Execute(cur, x, sock[cur]) : CheckReady(cur, p[1])}
     IN \E p \in ready : \E q \in Resumed(cur, p[1], p[2]) : Return(cur, q)
  /\ UNCHANGED <<kind, loopVars, added>>

\* Mutant: waiter_.add() is forgotten.
AwaitForgets ==
  /\ cur \in Ops /\ ret[cur] = "none"
  /\ op[cur].timer # "past" /\ op[cur].result = "waiting"
  /\ \E p \in Execute(cur, op[cur], sock[cur]) :
       /\ ~CheckReady(cur, p[1])
       /\ op' = [op EXCEPT ![cur] = p[1]] /\ sock' = [sock EXCEPT ![cur] = p[2]]
  /\ RQ!Block
  /\ UNCHANGED <<kind, polling, added, ret>>

\* The co_await suspends, also when execute() has just failed.
AwaitSuspends ==
  /\ cur \in Ops /\ ret[cur] = "none"
  /\ op[cur].timer # "past" /\ op[cur].result = "waiting"
  /\ \E p \in Execute(cur, op[cur], sock[cur]) :
       /\ ~CheckReady(cur, p[1])
       /\ op' = [op EXCEPT ![cur] = p[1]] /\ sock' = [sock EXCEPT ![cur] = p[2]]
  /\ added' = added \cup {cur}
  /\ RQ!Block
  /\ UNCHANGED <<kind, polling, ret>>

\* cancel() of an operation by another coroutine.
Cancel(o) ==
  /\ cur # None /\ o # cur
  /\ op' = [op EXCEPT ![o].result = "cancelled"]
  /\ IF o \in blocked THEN RQ!Wake(o) ELSE UNCHANGED <<runq, cur, blocked>>
  /\ UNCHANGED <<kind, polling, added, sock, ret>>

-----------------------------------------------------------------------------
(* The loop, time and the kernel.                                          *)

ResumeStart ==
  /\ RQ!Resume /\ Head(runq) \notin added /\ polling' = FALSE
  /\ UNCHANGED <<kind, op, added, sock, ret>>

\* await_resume of an operation that slept.
ResumeOp ==
  /\ RQ!Resume /\ Head(runq) \in added /\ polling' = FALSE
  /\ LET o == Head(runq) IN
     /\ added' = added \ {o}
     /\ \E p \in Resumed(o, op[o], sock[o]) : Return(o, p)
  /\ UNCHANGED kind

AtPoll == cur = None /\ (runq = <<>> \/ polling)

\* poll() completes the waiter of an event.  An event with neither EPOLLIN nor
\* EPOLLOUT, an error alone, completes it with error.
PollEvent(o) ==
  /\ AtPoll /\ o \in added \cap blocked /\ Hot(o)
  /\ \E r \in {"done", "error"} :
       /\ r = "error" => sock[o].err /\ kind[o] # "accept"
       /\ op' = [op EXCEPT ![o].result = r]
  /\ RQ!Wake(o) /\ polling' = TRUE
  /\ UNCHANGED <<kind, added, sock, ret>>

\* run() sees the deadline of an operation whose result is still waiting.
Expire(o) ==
  /\ AtPoll /\ o \in added \cap blocked
  /\ op[o].timer = "past" /\ op[o].result = "waiting"
  /\ op' = [op EXCEPT ![o].result = "timeout"]
  /\ RQ!Wake(o) /\ polling' = TRUE
  /\ UNCHANGED <<kind, added, sock, ret>>

Tick ==
  /\ \E o \in Ops : op[o].timer = "armed"
  /\ op' = [o \in Ops |-> IF op[o].timer = "armed"
                          THEN [op[o] EXCEPT !.timer = "past"] ELSE op[o]]
  /\ UNCHANGED <<kind, loopVars, added, sock, ret>>

Kernel(o) ==
  /\ \/ kind[o] # "connect" /\ sock[o].ready < MaxAvail
        /\ sock' = [sock EXCEPT ![o].ready = @ + 1]
     \/ kind[o] = "recv" /\ sock' = [sock EXCEPT ![o].eof = TRUE]
     \/ kind[o] # "connect" /\ sock' = [sock EXCEPT ![o].err = TRUE]
     \/ sock[o].conn = "pending"
        /\ \E c \in {"up", "refused"} : sock' = [sock EXCEPT ![o].conn = c]
  /\ UNCHANGED <<kind, loopVars, op, added, ret>>

\* What epoll reported is not there any more: another process took it.
Withdraw(o) ==
  /\ kind[o] # "connect" /\ sock[o].ready > 0
  /\ sock' = [sock EXCEPT ![o].ready = @ - 1]
  /\ op' = [op EXCEPT ![o].gone = @ \/ o \in added \ blocked]
  /\ UNCHANGED <<kind, loopVars, added, ret>>

-----------------------------------------------------------------------------

Resume == ResumeStart \/ ResumeOp
Poll   == \E o \in Ops : PollEvent(o) \/ Expire(o)

Next ==
  \/ Resume \/ Poll \/ Tick \/ Finish
  \/ \E timer \in {"none", "armed"} :
       Reset(timer) \/ \E n \in Sizes : Make(timer, n)
  \/ AwaitReady \/ AwaitSuspends
  \/ \E t \in Tasks : Start(t)
  \/ \E o \in Ops : Cancel(o) \/ Kernel(o) \/ Withdraw(o)

\* The loop keeps going, time passes, a coroutine that runs suspends or finishes,
\* and no operation is passed over by every poll.
Spec == /\ Init /\ [][Next]_vars
        /\ WF_vars(Resume) /\ WF_vars(Tick) /\ WF_vars(Finish \/ AwaitSuspends)
        /\ \A o \in Ops : SF_vars(PollEvent(o) \/ Expire(o))

-----------------------------------------------------------------------------
(* Safety.                                                                 *)

\* The values each variable takes; no more than the buffer is sent
\* or received.
TypeOK ==
  /\ kind \in [Ops -> Kinds]
  /\ runq \in Seq(Tasks) /\ cur \in Tasks \cup {None} /\ blocked \subseteq Ops
  /\ polling \in BOOLEAN /\ added \subseteq Ops
  /\ op \in [Ops -> [result : Results, timer : {"none", "armed", "past"},
                     flag : BOOLEAN, closed : BOOLEAN, size : Sizes,
                     count : Nat, taken : Nat, gone : BOOLEAN]]
  /\ \A o \in Ops : kind[o] \in {"recv", "send"} => op[o].count <= op[o].size
  /\ sock \in [Ops -> [conn : {"new", "pending", "up", "refused"},
                       ready : 0..MaxAvail, eof : BOOLEAN, err : BOOLEAN]]
  /\ ret \in [Ops -> Results \cup {"none"}]

\* What an operation exchanges with the kernel is what its caller is told, though
\* the kernel is called in await_ready and again in await_resume: done reports
\* all of it, so does the error of a send that fails half-way, and any other
\* result means that nothing was taken or sent.
NothingTakenUnseen ==
  \A o \in Ops : kind[o] # "connect" /\ ret[o] # "none" =>
    op[o].taken = IF ret[o] = "done" \/ (kind[o] = "send" /\ ret[o] = "error")
                  THEN op[o].count ELSE 0

\* co_await never returns while the result is still waiting, and done is true:
\* data or a descriptor is there, the socket is connected, something is sent or
\* the buffer is empty.  One case is left: what the poller reported was taken
\* by another process before the coroutine ran; await_resume finds nothing and
\* returns the result of the poller (ioops.hpp:60-65).
DoneIsTrue ==
  \A o \in Ops : ret[o] # "waiting" /\ (ret[o] = "done" =>
    IF kind[o] = "connect" THEN sock[o].conn = "up"
    ELSE \/ op[o].count > 0 \/ op[o].gone
         \/ kind[o] = "send" /\ op[o].size = 0)

-----------------------------------------------------------------------------
(* Liveness.                                                               *)

\* A coroutine does not sleep beside a descriptor that stays ready.
ReadyReturns ==
  []<>(cur = None /\ runq = <<>>) =>
    \A o \in Ops : (o \in blocked /\ Hot(o)) ~> (o \notin blocked \/ ~Hot(o))

\* The deadline of an operation that is still waiting makes it return.
WaitingReturns ==
  []<>(cur = None /\ runq = <<>>) =>
    \A o \in Ops : (o \in blocked /\ op[o].timer # "none"
                      /\ op[o].result = "waiting") ~> o \notin blocked

\* The operation is completed by its deadline (waiter.hpp:120-122), also when
\* execute() failed in await_ready.
DeadlineReturns ==
  []<>(cur = None /\ runq = <<>>) =>
    \A o \in Ops : (o \in blocked /\ op[o].timer # "none") ~> o \notin blocked
=============================================================================
