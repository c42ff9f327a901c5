---------------------------- MODULE IoOps_proofs ----------------------------
(***************************************************************************)
(* Proofs about IoOps, for every number of coroutines, buffer sizes and    *)
(* bound on what the kernel holds: nothing is taken from a descriptor that *)
(* the caller is not told of (NothingTakenUnseen), and done is true        *)
(* (DoneIsTrue).  IInv is the inductive invariant.                         *)
(***************************************************************************)
EXTENDS IoOps, SequenceTheorems, TLAPS

RQP == INSTANCE RunQueue_proofs WITH queue <- runq

OpRec   == [result : Results, timer : {"none", "armed", "past"},
            flag : BOOLEAN, closed : BOOLEAN, size : Sizes,
            count : Nat, taken : Nat, gone : BOOLEAN]
SockRec == [conn : {"new", "pending", "up", "refused"},
            ready : 0..MaxAvail, eof : BOOLEAN, err : BOOLEAN]

\* An operation object no call of execute() got anything for.
Fresh(x) == ~x.flag /\ ~x.closed /\ x.count = 0 /\ x.taken = 0

\* One that sleeps: only connect() got anywhere.
Asleep(o, x, s) ==
  /\ ~x.closed /\ x.count = 0 /\ x.taken = 0
  /\ IF kind[o] = "connect" THEN x.flag /\ s.conn # "new" ELSE ~x.flag

\* What epoll saw is still so when await_resume runs, or was withdrawn.
Kept(o, x, s) ==
  IF kind[o] = "connect" THEN s.conn # "pending"
  ELSE x.gone \/ s.ready > 0 \/ s.eof \/ (s.err /\ kind[o] # "accept")

\* What done means, for operations other than connect.
Got(o, x) == x.count > 0 \/ x.gone \/ (kind[o] = "send" /\ x.size = 0)

\* What a co_await that returned r may have left: the two properties, for one
\* operation.
Told(o, x, s, r) ==
  /\ r \in Results /\ r # "waiting"
  /\ r = "done" => IF kind[o] = "connect" THEN s.conn = "up" ELSE Got(o, x)
  /\ kind[o] # "connect" =>
       x.taken = IF r = "done" \/ (kind[o] = "send" /\ r = "error")
                 THEN x.count ELSE 0

\* A record of each kind; only a stream ends.
Typed(o, x, s) ==
  /\ x \in OpRec /\ s \in SockRec
  /\ kind[o] \in {"recv", "send"} => x.count <= x.size
  /\ kind[o] # "recv" => ~s.eof

\* The phases of an operation: new, in the loop (sleeping, then woken), returned.
Phase(o, x, s, r, inLoop, sleeps) ==
  /\ Typed(o, x, s) /\ r \in Results \cup {"none"}
  /\ inLoop => r = "none" /\ Asleep(o, x, s)
  /\ inLoop /\ ~sleeps => x.result # "waiting" /\ (x.result = "done" => Kept(o, x, s))
  /\ ~inLoop /\ r = "none" => Fresh(x) /\ x.result \in {"waiting", "cancelled"}
  /\ r # "none" => Told(o, x, s, r)

\* The waiters in the loop are those of the coroutines that sleep or were woken.
Members ==
  /\ blocked \subseteq added /\ added \subseteq Ops
  /\ added \subseteq blocked \cup RQP!Queue

Phases ==
  \A o \in Ops : Phase(o, op[o], sock[o], ret[o], o \in added, o \in blocked)

IInv == TypeOK /\ RQP!OnePlace /\ Members /\ Phases

-----------------------------------------------------------------------------
(* execute(), check_ready() and await_resume(), for one operation.         *)

\* A call that takes n units.
Taken(x, n) == [x EXCEPT !.result = "done", !.flag = TRUE, !.count = n,
                         !.taken = @ + n]
Left(s, n)  == [s EXCEPT !.ready = @ - n]

LEMMA TookIs ==
  ASSUME NEW x \in OpRec, NEW s \in SockRec, NEW n \in Nat, n <= s.ready,
         NEW y, y = Taken(x, n), NEW z, z = Left(s, n)
  PROVE  /\ y \in OpRec /\ z \in SockRec
         /\ y.result = "done" /\ y.flag /\ y.closed = x.closed
         /\ y.count = n /\ y.taken = x.taken + n
         /\ y.size = x.size /\ y.gone = x.gone
         /\ z.conn = s.conn /\ z.eof = s.eof
<1>1. s.ready - n \in 0..MaxAvail
  BY OpsAssumption DEF SockRec
<1>2. z \in SockRec /\ z.conn = s.conn /\ z.eof = s.eof
  BY <1>1 DEF SockRec, Left
<1>3. x.taken + n \in Nat
  BY DEF OpRec
<1>4. y \in OpRec
  BY <1>3 DEF OpRec, Results, Taken
<1>5. /\ y.result = "done" /\ y.flag /\ y.closed = x.closed
      /\ y.count = n /\ y.taken = x.taken + n
      /\ y.size = x.size /\ y.gone = x.gone
  BY DEF OpRec, Taken
<1> QED
  BY <1>2, <1>4, <1>5

LEMMA FailedIs ==
  ASSUME NEW x \in OpRec, NEW s \in SockRec, NEW p \in Failed(x, s)
  PROVE  /\ p[1] \in OpRec /\ p[2] \in SockRec
         /\ p[1].result = "error" /\ p[1].flag = x.flag /\ p[1].closed = x.closed
         /\ p[1].count = x.count /\ p[1].taken = x.taken
         /\ p[1].size = x.size /\ p[1].gone = x.gone
         /\ p[2].conn = s.conn /\ p[2].eof = s.eof
<1>1. /\ p[1] = [x EXCEPT !.result = "error"] /\ p[2] = [s EXCEPT !.err = FALSE]
  BY DEF Failed
<1> QED
  BY <1>1 DEF OpRec, SockRec, Results

\* recv: the peer is gone.
Ended(x) == [x EXCEPT !.result = "closed", !.closed = TRUE, !.count = 0]

LEMMA EndedIs ==
  ASSUME NEW x \in OpRec, NEW y, y = Ended(x)
  PROVE  /\ y \in OpRec /\ y.result = "closed" /\ y.closed /\ y.count = 0
         /\ y.taken = x.taken /\ y.flag = x.flag
         /\ y.size = x.size /\ y.gone = x.gone
<1>1. 0 \in Nat /\ "closed" \in Results
  BY DEF Results
<1>2. y \in OpRec
  BY <1>1 DEF OpRec, Ended
<1> QED
  BY <1>2 DEF OpRec, Ended

\* accept: one connection, or none.
LEMMA AcceptIs ==
  ASSUME NEW x \in OpRec, NEW s \in SockRec, NEW p \in Accept(x, s)
  PROVE  /\ p[1] \in OpRec /\ p[2] \in SockRec /\ p[2].eof = s.eof
         /\ p[1].gone = x.gone
         /\ \/ p = <<x, s>> /\ (x.flag \/ (~s.err /\ s.ready = 0))
            \/ /\ ~x.flag /\ p[1].result = "error" /\ ~p[1].flag
               /\ p[1].closed = x.closed /\ p[1].count = x.count
               /\ p[1].taken = x.taken
            \/ /\ ~x.flag /\ p[1].result = "done" /\ p[1].flag
               /\ p[1].closed = x.closed /\ p[1].count = 1
               /\ p[1].taken = x.taken + 1
<1>1. s.ready \in Nat
  BY DEF SockRec
<1>2. CASE x.flag \/ (~s.err /\ s.ready = 0)
  <2>1. x.flag \/ (~s.err /\ ~(s.ready > 0))
    BY <1>1, <1>2
  <2>2. Accept(x, s) = {<<x, s>>}
    BY <2>1, Zenon DEF Accept
  <2>3. p = <<x, s>>
    BY <2>2
  <2>4. /\ p[1] \in OpRec /\ p[2] \in SockRec /\ p[2].eof = s.eof
        /\ p[1].gone = x.gone
    BY <2>3
  <2> QED
    BY <1>2, <2>3, <2>4, Zenon
<1>3. CASE ~x.flag /\ s.err
  <2>1. p \in Failed(x, s)
    BY <1>3 DEF Accept
  <2> QED
    BY <1>3, <2>1, FailedIs
<1>4. CASE ~x.flag /\ ~s.err /\ s.ready > 0
  <2>1. p = Took(x, s, 1, TRUE)
    BY <1>4 DEF Accept
  <2>2. /\ 1 \in Nat /\ 1 <= s.ready
        /\ p[1] = Taken(x, 1) /\ p[2] = Left(s, 1)
    BY <1>1, <1>4, <2>1 DEF Took, Taken, Left
  <2>3. /\ p[1] \in OpRec /\ p[2] \in SockRec
        /\ p[1].result = "done" /\ p[1].flag /\ p[1].closed = x.closed
        /\ p[1].count = 1 /\ p[1].taken = x.taken + 1 /\ p[2].eof = s.eof
        /\ p[1].gone = x.gone
    BY <2>2, TookIs
  <2> QED
    BY <1>4, <2>3, Zenon
<1> QED
  BY <1>1, <1>2, <1>3, <1>4

\* recv: some bytes, the end, or nothing.
LEMMA RecvIs ==
  ASSUME NEW x \in OpRec, NEW s \in SockRec, x.count <= x.size, NEW p \in Recv(x, s)
  PROVE  /\ p[1] \in OpRec /\ p[2] \in SockRec
         /\ p[1].count <= p[1].size /\ p[1].gone = x.gone
         /\ \/ p = <<x, s>> /\ (x.flag \/ (~s.err /\ s.ready = 0 /\ ~s.eof))
            \/ /\ ~x.flag /\ p[1].result = "error" /\ ~p[1].flag
               /\ p[1].closed = x.closed /\ p[1].count = x.count
               /\ p[1].taken = x.taken
            \/ /\ ~x.flag /\ p[1].result = "done" /\ p[1].flag
               /\ p[1].count > 0 /\ p[1].taken = x.taken + p[1].count
            \/ /\ ~x.flag /\ p[1].result = "closed" /\ p[1].closed
               /\ p[1].count = 0 /\ p[1].taken = x.taken
<1>1. s.ready \in Nat /\ x.size \in Nat
  <2>1. s.ready \in Nat
    BY DEF SockRec
  <2>2. x.size \in Sizes
    BY DEF OpRec
  <2> QED
    BY <2>1, <2>2, OpsAssumption
<1>2. CASE x.flag \/ (~s.err /\ s.ready = 0 /\ ~s.eof)
  <2>1. x.flag \/ (~s.err /\ ~(s.ready > 0) /\ ~s.eof)
    BY <1>1, <1>2
  <2>2. Recv(x, s) = {<<x, s>>}
    BY <2>1, Zenon DEF Recv
  <2>3. p = <<x, s>>
    BY <2>2
  <2>4. /\ p[1] \in OpRec /\ p[2] \in SockRec
        /\ p[1].count <= p[1].size /\ p[1].gone = x.gone
    BY <2>3
  <2> QED
    BY <1>2, <2>3, <2>4, Zenon
<1>3. CASE ~x.flag /\ s.err
  <2>1. p \in Failed(x, s)
    BY <1>3 DEF Recv
  <2> QED
    BY <1>3, <2>1, FailedIs
<1>4. CASE ~x.flag /\ ~s.err /\ s.ready > 0 /\ x.size > 0
  <2>1. PICK n \in {k \in 1..x.size : k <= s.ready} : p = Took(x, s, n, TRUE)
    BY <1>4 DEF Recv
  <2>2. /\ n \in Nat /\ n > 0 /\ n <= s.ready /\ n <= x.size
        /\ p[1] = Taken(x, n) /\ p[2] = Left(s, n)
    BY <1>1, <2>1 DEF Took, Taken, Left
  <2>3. /\ p[1] \in OpRec /\ p[2] \in SockRec
        /\ p[1].result = "done" /\ p[1].flag /\ p[1].count = n
        /\ p[1].taken = x.taken + n /\ p[1].size = x.size /\ p[1].gone = x.gone
    BY <2>2, TookIs
  <2>4. /\ p[1].count > 0 /\ p[1].taken = x.taken + p[1].count
        /\ p[1].count <= p[1].size /\ p[1].gone = x.gone
    BY <2>2, <2>3
  <2> QED
    BY <1>4, <2>3, <2>4, Zenon
<1>5. CASE /\ ~x.flag /\ ~s.err /\ (s.ready = 0 \/ x.size = 0)
           /\ s.eof \/ s.ready > 0
  <2>0. ~(s.ready > 0 /\ x.size > 0)
    BY <1>5
  <2>1. Recv(x, s)
          = {<<[x EXCEPT !.result = "closed", !.closed = TRUE, !.count = 0], s>>}
    BY <1>5, <2>0, Zenon DEF Recv
  <2>2. p[1] = Ended(x) /\ p[2] = s
    BY <2>1 DEF Ended
  <2>3. /\ p[1] \in OpRec /\ p[1].result = "closed" /\ p[1].closed
        /\ p[1].count = 0 /\ p[1].taken = x.taken
        /\ p[1].size = x.size /\ p[1].gone = x.gone
    BY <2>2, EndedIs
  <2>4. p[2] \in SockRec /\ p[1].count <= p[1].size
    BY <1>1, <2>2, <2>3
  <2> QED
    BY <1>5, <2>3, <2>4, Zenon
<1>6. (s.ready = 0 \/ s.ready > 0) /\ (x.size = 0 \/ x.size > 0)
  BY <1>1
<1>7. \/ x.flag \/ (~s.err /\ s.ready = 0 /\ ~s.eof)
      \/ ~x.flag /\ s.err
      \/ ~x.flag /\ ~s.err /\ s.ready > 0 /\ x.size > 0
      \/ /\ ~x.flag /\ ~s.err /\ (s.ready = 0 \/ x.size = 0)
         /\ s.eof \/ s.ready > 0
  BY <1>6
<1> QED
  BY <1>2, <1>3, <1>4, <1>5, <1>7, Zenon

\* send: some bytes more, or nothing.
LEMMA SendIs ==
  ASSUME NEW x \in OpRec, NEW s \in SockRec, x.count <= x.size, NEW p \in Send(x, s)
  PROVE  /\ p[1] \in OpRec /\ p[2] \in SockRec /\ p[2].eof = s.eof
         /\ p[1].size = x.size /\ p[1].gone = x.gone
         /\ p[1].count <= x.size /\ p[1].flag = x.flag /\ p[1].closed = x.closed
         /\ \/ p = <<x, s>> /\ ~s.err /\ s.ready = 0 /\ x.count # x.size
            \/ /\ p[1].result = "error" /\ p[1].count = x.count
               /\ p[1].taken = x.taken
            \/ /\ p[1].result = "done" /\ (p[1].count > 0 \/ x.size = 0)
               /\ p[1].taken - x.taken = p[1].count - x.count
<1>1. s.ready \in Nat /\ x.size \in Nat /\ x.count \in Nat /\ x.taken \in Nat
  <2>1. s.ready \in Nat
    BY DEF SockRec
  <2>2. x.size \in Sizes /\ x.count \in Nat /\ x.taken \in Nat
    BY DEF OpRec
  <2> QED
    BY <2>1, <2>2, OpsAssumption
<1>2. CASE s.err
  <2>1. p \in Failed(x, s)
    BY <1>2 DEF Send
  <2> QED
    BY <2>1, FailedIs
<1>3. CASE ~s.err /\ x.count = x.size
  <2>1. p = <<[x EXCEPT !.result = "done"], s>>
    BY <1>3 DEF Send
  <2>2. p[1] = [x EXCEPT !.result = "done"] /\ p[2] = s
    BY <2>1
  <2> QED
    BY <1>1, <1>3, <2>2 DEF OpRec, Results
<1>4. CASE ~s.err /\ x.count # x.size /\ s.ready > 0
  <2>1. PICK n \in {k \in 1..(x.size - x.count) : k <= s.ready} :
          p = <<[x EXCEPT !.result = "done", !.count = @ + n, !.taken = @ + n],
                [s EXCEPT !.ready = @ - n]>>
    BY <1>4 DEF Send
  <2>2. /\ p[1] = [x EXCEPT !.result = "done", !.count = @ + n, !.taken = @ + n]
        /\ p[2] = [s EXCEPT !.ready = @ - n]
    BY <2>1
  <2>3. n \in Nat /\ n > 0 /\ x.count + n <= x.size /\ s.ready - n \in 0..MaxAvail
    BY <1>1, OpsAssumption DEF SockRec
  <2>4. p[2] \in SockRec /\ p[2].eof = s.eof
    BY <2>2, <2>3 DEF SockRec
  <2>5. /\ p[1].result = "done" /\ p[1].count = x.count + n
        /\ p[1].taken = x.taken + n /\ p[1].flag = x.flag
        /\ p[1].closed = x.closed /\ p[1].size = x.size /\ p[1].gone = x.gone
    BY <2>2 DEF OpRec
  <2>6. x.count + n \in Nat /\ x.taken + n \in Nat
    BY <1>1, <2>3
  <2>7. p[1] \in OpRec
    BY <2>2, <2>6 DEF OpRec, Results
  <2> QED
    BY <1>1, <2>3, <2>4, <2>5, <2>7
<1>5. CASE ~s.err /\ x.count # x.size /\ s.ready = 0
  <2>1. p = <<x, s>>
    BY <1>5 DEF Send
  <2>2. p[1] = x /\ p[2] = s
    BY <2>1
  <2> QED
    BY <1>5, <2>1, <2>2
<1> QED
  BY <1>1, <1>2, <1>3, <1>4, <1>5

\* connect: done says that the socket is connected, or that the handshake is not
\* refused yet.
LEMMA ConnectIs ==
  ASSUME NEW x \in OpRec, NEW s \in SockRec, NEW p \in Connect(x, s)
  PROVE  /\ p[1] \in OpRec /\ p[2] \in SockRec /\ p[2].eof = s.eof
         /\ p[1].closed = x.closed /\ p[1].count = x.count /\ p[1].taken = x.taken
         /\ \/ /\ p[1].result = "done" /\ p[1].flag = x.flag
               /\ p[2].conn = IF x.flag THEN s.conn ELSE "up"
               /\ x.flag => s.conn # "refused"
            \/ p[1].result = "error" /\ p[1].flag = x.flag
            \/ /\ ~x.flag /\ p[1].result = x.result /\ p[1].flag
               /\ s.conn = "new" /\ p[2].conn = "pending"
<1>1. CASE x.flag
  <2>1. CASE s.conn = "refused"
    <3>1. p[1] = [x EXCEPT !.result = "error"] /\ p[2] = [s EXCEPT !.conn = "new"]
      BY <1>1, <2>1 DEF Connect
    <3> QED
      BY <3>1 DEF OpRec, SockRec, Results
  <2>2. CASE s.conn # "refused"
    <3>1. p[1] = [x EXCEPT !.result = "done"] /\ p[2] = s
      BY <1>1, <2>2 DEF Connect
    <3> QED
      BY <1>1, <2>2, <3>1 DEF OpRec, SockRec, Results
  <2> QED
    BY <2>1, <2>2
<1>2. CASE ~x.flag
  <2>1. \/ p = <<[x EXCEPT !.result = "done"], [s EXCEPT !.conn = "up"]>>
        \/ /\ p = <<[x EXCEPT !.flag = TRUE], [s EXCEPT !.conn = "pending"]>>
           /\ s.conn = "new"
        \/ p = <<[x EXCEPT !.result = "error"], s>>
        \/ p = <<[x EXCEPT !.result = "done"], s>> /\ s.conn = "up"
        \/ p = <<[x EXCEPT !.result = "error"],
                 [s EXCEPT !.conn = IF @ = "refused" THEN "new" ELSE @]>>
    BY <1>2 DEF Connect
  <2>2. CASE p = <<[x EXCEPT !.result = "done"], [s EXCEPT !.conn = "up"]>>
    <3>1. p[1] = [x EXCEPT !.result = "done"] /\ p[2] = [s EXCEPT !.conn = "up"]
      BY <2>2
    <3> QED
      BY <1>2, <3>1 DEF OpRec, SockRec, Results
  <2>3. CASE /\ p = <<[x EXCEPT !.flag = TRUE], [s EXCEPT !.conn = "pending"]>>
             /\ s.conn = "new"
    <3>1. p[1] = [x EXCEPT !.flag = TRUE] /\ p[2] = [s EXCEPT !.conn = "pending"]
      BY <2>3
    <3> QED
      BY <1>2, <2>3, <3>1 DEF OpRec, SockRec
  <2>4. CASE p = <<[x EXCEPT !.result = "error"], s>>
    <3>1. p[1] = [x EXCEPT !.result = "error"] /\ p[2] = s
      BY <2>4
    <3> QED
      BY <3>1 DEF OpRec, Results
  <2>5. CASE p = <<[x EXCEPT !.result = "done"], s>> /\ s.conn = "up"
    <3>1. p[1] = [x EXCEPT !.result = "done"] /\ p[2] = s /\ s.conn = "up"
      BY <2>5
    <3> QED
      BY <1>2, <3>1 DEF OpRec, Results
  <2>6. CASE p = <<[x EXCEPT !.result = "error"],
                   [s EXCEPT !.conn = IF @ = "refused" THEN "new" ELSE @]>>
    <3>1. /\ p[1] = [x EXCEPT !.result = "error"]
          /\ p[2] = [s EXCEPT !.conn = IF @ = "refused" THEN "new" ELSE @]
      BY <2>6
    <3> QED
      BY <3>1 DEF OpRec, SockRec, Results
  <2> QED
    BY <2>1, <2>2, <2>3, <2>4, <2>5, <2>6
<1> QED
  BY <1>1, <1>2

\* Which call an operation makes.
LEMMA ExecuteIs ==
  ASSUME NEW o \in Ops, NEW x, NEW s
  PROVE  /\ kind[o] = "accept"  => Execute(o, x, s) = Accept(x, s)
         /\ kind[o] = "connect" => Execute(o, x, s) = Connect(x, s)
         /\ kind[o] = "recv"    => Execute(o, x, s) = Recv(x, s)
         /\ kind[o] = "send"    => Execute(o, x, s) = Send(x, s)
BY DEF Execute

\* The same for all four: what a call keeps of the types.
LEMMA ExecuteTypes ==
  ASSUME NEW o \in Ops, kind[o] \in Kinds, NEW x, NEW s, Typed(o, x, s),
         NEW p \in Execute(o, x, s)
  PROVE  Typed(o, p[1], p[2])
<1>1. x \in OpRec /\ s \in SockRec
  BY DEF Typed
<1>2. CASE kind[o] = "accept"
  BY <1>1, <1>2, ExecuteIs, AcceptIs DEF Typed
<1>3. CASE kind[o] = "connect"
  BY <1>1, <1>3, ExecuteIs, ConnectIs DEF Typed
<1>4. CASE kind[o] = "recv"
  BY <1>1, <1>4, ExecuteIs, RecvIs DEF Typed
<1>5. CASE kind[o] = "send"
  BY <1>1, <1>5, ExecuteIs, SendIs DEF Typed
<1> QED
  BY <1>2, <1>3, <1>4, <1>5 DEF Kinds

\* await_ready that goes on to suspend has taken nothing.
LEMMA Suspends ==
  ASSUME NEW o \in Ops, kind[o] \in Kinds, NEW x, NEW s, Typed(o, x, s),
         Fresh(x), x.result = "waiting", NEW p \in Execute(o, x, s),
         ~CheckReady(o, p[1])
  PROVE  Asleep(o, p[1], p[2])
<1>1. /\ x \in OpRec /\ s \in SockRec /\ ~x.flag /\ ~x.closed /\ x.count = 0
      /\ x.taken = 0
  BY DEF Typed, Fresh
<1>2. CASE kind[o] = "accept"
  <2>1. p \in Accept(x, s) /\ ~p[1].flag
    BY <1>2, ExecuteIs DEF CheckReady, AcceptReady
  <2>2. p = <<x, s>> => p[1] = x
    OBVIOUS
  <2> QED
    BY <1>1, <1>2, <2>1, <2>2, AcceptIs DEF Asleep
<1>3. CASE kind[o] = "connect"
  <2>1. p \in Connect(x, s) /\ p[1].flag
    BY <1>3, ExecuteIs DEF CheckReady, ConnectReady
  <2>2. /\ p[1].closed = x.closed /\ p[1].count = x.count /\ p[1].taken = x.taken
        /\ p[2].conn = "pending"
    BY <1>1, <2>1, ConnectIs
  <2> QED
    BY <1>1, <1>3, <2>1, <2>2 DEF Asleep
<1>4. CASE kind[o] = "recv"
  <2>1. p \in Recv(x, s) /\ ~p[1].closed /\ ~(p[1].count > 0)
    BY <1>4, ExecuteIs DEF CheckReady, RecvReady
  <2>2. p = <<x, s>> => p[1] = x
    OBVIOUS
  <2>3. x.count <= x.size
    BY <1>4 DEF Typed
  <2> QED
    BY <1>1, <1>4, <2>1, <2>2, <2>3, RecvIs DEF Asleep
<1>5. CASE kind[o] = "send"
  <2>1. p \in Send(x, s) /\ ~SendReady(p[1])
    BY <1>5, ExecuteIs DEF CheckReady
  <2>2. p = <<x, s>> => p[1] = x
    OBVIOUS
  <2>3. x.count <= x.size
    BY <1>5 DEF Typed
  <2>4. p[1].result # "timeout" /\ p[1].size = x.size
    BY <1>1, <2>1, <2>2, <2>3, SendIs
  <2>5. ~(p[1].count > 0) /\ x.size # 0
    BY <2>1, <2>4 DEF SendReady
  <2> QED
    BY <1>1, <1>5, <2>1, <2>2, <2>3, <2>5, SendIs DEF Asleep
<1> QED
  BY <1>2, <1>3, <1>4, <1>5 DEF Kinds

\* The second call, in await_resume, after a first one that got something.
LEMMA ResumedIs ==
  ASSUME NEW o \in Ops, NEW x, NEW s, NEW q \in Resumed(o, x, s)
  PROVE  /\ x.result = "done" => q \in Execute(o, x, s)
         /\ x.result # "done" => q[1] = x /\ q[2] = s
BY DEF Resumed

LEMMA Returns ==
  ASSUME NEW o \in Ops, kind[o] \in Kinds, NEW x, NEW s, Typed(o, x, s),
         Fresh(x), x.result = "waiting",
         NEW p \in Execute(o, x, s), CheckReady(o, p[1]),
         NEW q \in Resumed(o, p[1], p[2])
  PROVE  Typed(o, q[1], q[2]) /\ Told(o, q[1], q[2], q[1].result)
<1>1. /\ x \in OpRec /\ s \in SockRec /\ ~x.flag /\ ~x.closed /\ x.count = 0
      /\ x.taken = 0
  BY DEF Typed, Fresh
<1> DEFINE y == p[1]
           z == p[2]
<1>2. Typed(o, y, z) /\ y \in OpRec /\ z \in SockRec
  BY ExecuteTypes DEF Typed
<1>3. y.result # "done" => q[1] = y /\ q[2] = z
  BY ResumedIs
<1>4. y.result = "done" => q \in Execute(o, y, z)
  BY ResumedIs
<1>5. Typed(o, q[1], q[2])
  <2>1. CASE y.result # "done"
    BY <1>2, <1>3, <2>1
  <2>2. CASE y.result = "done"
    <3> HIDE DEF y, z
    <3> QED
      BY <1>2, <1>4, <2>2, ExecuteTypes
  <2> QED
    BY <2>1, <2>2
<1>6. q[1].result \in Results
  BY <1>5 DEF Typed, OpRec
<1>7. CASE kind[o] = "accept"
  <2>1. p \in Accept(x, s) /\ y.flag
    BY <1>7, ExecuteIs DEF CheckReady, AcceptReady
  <2>2. p = <<x, s>> => y = x
    OBVIOUS
  <2>3. y.result = "done" /\ y.count = 1 /\ y.taken = 1
    BY <1>1, <2>1, <2>2, AcceptIs
  <2> HIDE DEF y, z
  <2>4. q \in Accept(y, z)
    BY <1>4, <1>7, <2>3, ExecuteIs
  <2>5. q = <<y, z>>
    BY <1>2, <2>1, <2>4, AcceptIs
  <2>6. q[1] = y
    BY <2>5
  <2> QED
    BY <1>5, <1>6, <1>7, <2>3, <2>6 DEF Told, Got
<1>8. CASE kind[o] = "recv"
  <2>1. p \in Recv(x, s) /\ (y.closed \/ y.count > 0)
    BY <1>8, ExecuteIs DEF CheckReady, RecvReady
  <2>2. p = <<x, s>> => y = x
    OBVIOUS
  <2>3. \/ y.result = "done" /\ y.count > 0 /\ y.taken = y.count /\ y.flag
        \/ y.result = "closed" /\ y.count = 0 /\ y.taken = 0
    <3>1. y.count \in Nat /\ x.count <= x.size
      BY <1>2, <1>8 DEF OpRec, Typed
    <3> QED
      BY <1>1, <2>1, <2>2, <3>1, RecvIs
  <2> HIDE DEF y, z
  <2>4. q[1] = y
    <3>1. CASE y.result = "closed"
      BY <1>3, <3>1
    <3>2. CASE y.result = "done" /\ y.flag
      <4>1. q \in Recv(y, z) /\ y.count <= y.size
        BY <1>2, <1>4, <1>8, <3>2, ExecuteIs DEF Typed
      <4>2. q = <<y, z>>
        BY <1>2, <3>2, <4>1, RecvIs
      <4> QED
        BY <4>2
    <3> QED
      BY <2>3, <3>1, <3>2
  <2> QED
    BY <1>5, <1>6, <1>8, <2>3, <2>4 DEF Told, Got
<1>9. CASE kind[o] = "send"
  <2>1. p \in Send(x, s) /\ SendReady(y) /\ x.count <= x.size /\ x.size \in Nat
    BY <1>1, <1>9, ExecuteIs, OpsAssumption DEF CheckReady, Typed, OpRec
  <2>2. p = <<x, s>> => y = x
    OBVIOUS
  <2>3. /\ y.result \in {"done", "error"} /\ y.taken = y.count
        /\ y.count \in Nat /\ y.taken \in Nat /\ y.size = x.size
        /\ y.count > 0 \/ y.size = 0
    <3>1. y.count \in Nat /\ y.taken \in Nat
      BY <1>2 DEF OpRec
    <3>2. y.size = x.size /\ y.result # "timeout"
      BY <1>1, <2>1, <2>2, SendIs
    <3>3. y.count > 0 \/ x.size = 0
      BY <2>1, <3>2 DEF SendReady
    <3> QED
      BY <1>1, <2>1, <2>2, <3>1, <3>2, <3>3, SendIs
  <2> HIDE DEF y, z
  <2>4. CASE y.result = "error"
    <3>1. q[1] = y
      BY <1>3, <2>4
    <3> QED
      BY <1>5, <1>6, <1>9, <2>3, <2>4, <3>1 DEF Told
  <2>5. CASE y.result = "done"
    <3>1. q \in Send(y, z) /\ y.count <= y.size
      BY <1>2, <1>4, <1>9, <2>5, ExecuteIs DEF Typed
    <3>2. q = <<y, z>> => q[1] = y
      OBVIOUS
    <3>3. q[1].count \in Nat /\ q[1].taken \in Nat
      BY <1>5 DEF Typed, OpRec
    <3>4. /\ q[1].result \in {"done", "error"} /\ q[1].size = y.size
          /\ q[1].result = "done" => q[1].count > 0 \/ y.size = 0
          /\ q[1].taken = q[1].count
      BY <1>2, <2>3, <2>5, <3>1, <3>2, <3>3, SendIs
    <3> QED
      BY <1>5, <1>6, <1>9, <3>4 DEF Told, Got
  <2> QED
    BY <2>3, <2>4, <2>5
<1>10. CASE kind[o] = "connect"
  <2>1. p \in Connect(x, s) /\ ~y.flag
    BY <1>10, ExecuteIs DEF CheckReady, ConnectReady
  <2>2. y.result = "error" \/ (y.result = "done" /\ z.conn = "up")
    BY <1>1, <2>1, ConnectIs
  <2> HIDE DEF y, z
  <2>3. CASE y.result = "error"
    BY <1>5, <1>3, <1>6, <1>10, <2>3 DEF Told
  <2>4. CASE y.result = "done"
    <3>1. q \in Connect(y, z)
      BY <1>4, <1>10, <2>4, ExecuteIs
    <3>2. q[1].result # "waiting" /\ (q[1].result = "done" => q[2].conn = "up")
      BY <1>2, <2>1, <2>2, <2>4, <3>1, ConnectIs
    <3> QED
      BY <1>5, <1>6, <1>10, <3>2 DEF Told
  <2> QED
    BY <2>2, <2>3, <2>4
<1> QED
  BY <1>5, <1>7, <1>8, <1>9, <1>10 DEF Kinds

\* await_resume of an operation that slept.
LEMMA Awakes ==
  ASSUME NEW o \in Ops, kind[o] \in Kinds, NEW x, NEW s, Typed(o, x, s),
         Asleep(o, x, s), x.result # "waiting", x.result = "done" => Kept(o, x, s),
         NEW q \in Resumed(o, x, s)
  PROVE  Typed(o, q[1], q[2]) /\ Told(o, q[1], q[2], q[1].result)
<1>1. /\ x \in OpRec /\ s \in SockRec /\ ~x.closed /\ x.count = 0 /\ x.taken = 0
      /\ s.ready \in Nat
  BY DEF Typed, Asleep, SockRec
<1>2. CASE x.result # "done"
  <2>1. q[1] = x /\ q[2] = s /\ x.result \in Results
    BY <1>1, <1>2, ResumedIs DEF OpRec
  <2> QED
    BY <1>1, <1>2, <2>1 DEF Told
<1>3. CASE x.result = "done"
  <2>1. q \in Execute(o, x, s) /\ Kept(o, x, s)
    BY <1>3, ResumedIs
  <2>2. Typed(o, q[1], q[2])
    BY <2>1, ExecuteTypes
  <2>3. q[1].result \in Results
    BY <2>2 DEF Typed, OpRec
  <2>4. q = <<x, s>> => q[1] = x
    OBVIOUS
  <2>5. CASE kind[o] = "accept"
    <3>1. q \in Accept(x, s) /\ ~x.flag /\ (s.ready > 0 \/ x.gone)
      BY <2>1, <2>5, ExecuteIs DEF Asleep, Kept, Typed
    <3>2. \/ q[1].result = "error" /\ q[1].taken = 0
          \/ q[1].result = "done" /\ q[1].count = 1 /\ q[1].taken = 1
          \/ q[1] = x /\ x.gone
      BY <1>1, <2>4, <3>1, AcceptIs
    <3> QED
      BY <1>1, <1>3, <2>2, <2>3, <2>5, <3>2 DEF Told, Got
  <2>6. CASE kind[o] = "recv"
    <3>1. /\ q \in Recv(x, s) /\ ~x.flag /\ x.count <= x.size
          /\ s.ready > 0 \/ s.eof \/ s.err \/ x.gone
      BY <2>1, <2>6, ExecuteIs DEF Asleep, Kept, Typed
    <3>2. \/ q[1].result \in {"error", "closed"} /\ q[1].taken = 0
          \/ q[1].result = "done" /\ q[1].count > 0 /\ q[1].taken = q[1].count
          \/ q[1] = x /\ x.gone
      <4>1. q[1].count \in Nat /\ q[1].taken \in Nat
        BY <2>2 DEF Typed, OpRec
      <4> QED
        BY <1>1, <2>4, <3>1, <4>1, RecvIs
    <3> QED
      BY <1>1, <1>3, <2>2, <2>3, <2>6, <3>2 DEF Told, Got
  <2>7. CASE kind[o] = "send"
    <3>1. q \in Send(x, s) /\ x.count <= x.size /\ (s.ready > 0 \/ s.err \/ x.gone)
      BY <2>1, <2>7, ExecuteIs DEF Kept, Typed
    <3>2. /\ q[1].size = x.size
          /\ \/ q[1].result = "error" /\ q[1].taken = q[1].count
             \/ /\ q[1].result = "done" /\ q[1].taken = q[1].count
                /\ q[1].count > 0 \/ x.size = 0
             \/ q[1] = x /\ x.gone
      <4>1. q[1].count \in Nat /\ q[1].taken \in Nat
        BY <2>2 DEF Typed, OpRec
      <4> QED
        BY <1>1, <2>4, <3>1, <4>1, SendIs
    <3> QED
      BY <1>1, <1>3, <2>2, <2>3, <2>7, <3>2 DEF Told, Got
  <2>8. CASE kind[o] = "connect"
    <3>1. q \in Connect(x, s) /\ x.flag /\ s.conn \notin {"pending", "new"}
      BY <2>1, <2>8, ExecuteIs DEF Asleep, Kept
    <3>2. s.conn \in {"up", "refused"}
      BY <1>1, <3>1 DEF SockRec
    <3>3. q[1].result # "waiting" /\ (q[1].result = "done" => q[2].conn = "up")
      BY <1>1, <3>1, <3>2, ConnectIs
    <3> QED
      BY <2>2, <2>3, <2>8, <3>3 DEF Told
  <2> QED
    BY <2>5, <2>6, <2>7, <2>8 DEF Kinds
<1> QED
  BY <1>2, <1>3

-----------------------------------------------------------------------------
(* The steps.                                                              *)

\* Every step is one of the queue, or none.
LEMMA QueueSteps ==
  ASSUME IInv, [Next]_vars
  PROVE  [RQP!Next]_(RQP!vars) /\ RQP!OnePlace'
<1> SUFFICES [RQP!Next]_(RQP!vars)
  BY OpsAssumption, RQP!StepPlaces DEF IInv
<1>1. Ops \subseteq Tasks
  BY OpsAssumption
<1>2. ASSUME Resume PROVE RQP!Resume
  BY <1>2 DEF Resume, ResumeStart, ResumeOp, RQ!Resume, RQP!Resume
<1>3. ASSUME Finish PROVE RQP!Retire
  BY <1>3 DEF Finish, RQ!Retire, RQP!Retire
<1>4. ASSUME AwaitSuspends PROVE RQP!Block
  BY <1>4 DEF AwaitSuspends, RQ!Block, RQP!Block
<1>5. ASSUME NEW t \in Tasks, Start(t) PROVE RQP!Admit(t)
  BY <1>5 DEF Start, RQ!Admit, RQP!Admit, RQ!InQueue, RQP!InQueue
<1>6. ASSUME NEW o \in Ops, PollEvent(o) \/ Expire(o) \/ Cancel(o)
      PROVE  RQP!Wake(o) \/ UNCHANGED RQP!vars
  BY <1>6 DEF PollEvent, Expire, Cancel, RQ!Wake, RQP!Wake, RQP!vars
<1>7. ASSUME \/ \E timer \in {"none", "armed"} :
                  Reset(timer) \/ \E n \in Sizes : Make(timer, n)
             \/ AwaitReady \/ Tick \/ UNCHANGED vars
             \/ \E o \in Ops : Kernel(o) \/ Withdraw(o)
      PROVE  UNCHANGED RQP!vars
  BY <1>7 DEF Make, Reset, AwaitReady, Tick, Kernel, Withdraw, vars, loopVars, RQP!vars
<1>8. CASE Resume \/ Finish \/ AwaitSuspends \/ \E t \in Tasks : Start(t)
  BY <1>2, <1>3, <1>4, <1>5, <1>8 DEF RQP!Next
<1>9. CASE Poll \/ \E o \in Ops : Cancel(o)
  BY <1>1, <1>6, <1>9 DEF Poll, RQP!Next
<1> QED
  BY <1>7, <1>8, <1>9 DEF Next

\* A step of one operation.
LEMMA OneStep ==
  ASSUME IInv, NEW o \in Ops, RQP!OnePlace', Members', polling' \in BOOLEAN,
         kind' = kind, blocked' \subseteq Ops,
         op' \in [Ops -> OpRec], sock' \in [Ops -> SockRec],
         ret' \in [Ops -> Results \cup {"none"}],
         \A p \in Ops : p # o =>
           /\ op'[p] = op[p] /\ sock'[p] = sock[p] /\ ret'[p] = ret[p]
           /\ p \in added' <=> p \in added
           /\ p \in blocked' <=> p \in blocked,
         Phase(o, op'[o], sock'[o], ret'[o], o \in added', o \in blocked')
  PROVE  IInv'
<1>1. \A p \in Ops :
        Phase(p, op'[p], sock'[p], ret'[p], p \in added', p \in blocked')
  <2> SUFFICES ASSUME NEW p \in Ops, p # o
               PROVE  Phase(p, op'[p], sock'[p], ret'[p], p \in added', p \in blocked')
    OBVIOUS
  <2>1. Phase(p, op[p], sock[p], ret[p], p \in added, p \in blocked)
    BY DEF IInv, Phases
  <2> QED
    BY <2>1 DEF Phase
<1>2. Phases'
  BY <1>1 DEF Phases, Phase, Typed, Asleep, Kept, Told, Got
<1>3. \A p \in Ops : kind[p] \in {"recv", "send"} => op'[p].count <= op'[p].size
  BY <1>1 DEF Phase, Typed
<1>4. TypeOK'
  BY <1>3 DEF TypeOK, IInv, OpRec, SockRec, RQP!OnePlace, Members
<1> QED
  BY <1>2, <1>4 DEF IInv

\* No operation changes; one whose waiter is not in the loop may be resumed.
LEMMA NoneStep ==
  ASSUME IInv, RQP!OnePlace', polling' \in BOOLEAN,
         UNCHANGED <<kind, op, added, sock, ret, blocked>>,
         added \cap RQP!Queue \subseteq RQP!Queue'
  PROVE  IInv'
<1>1. Members'
  BY DEF IInv, Members
<1>2. Phases'
  BY DEF IInv, Phases, Phase, Typed, Asleep, Kept, Told, Got
<1>3. TypeOK'
  BY DEF IInv, TypeOK, RQP!OnePlace
<1> QED
  BY <1>1, <1>2, <1>3 DEF IInv

\* The running coroutine and its operation.
LEMMA Runner ==
  ASSUME IInv, cur # None
  PROVE  /\ cur \notin added /\ cur \notin blocked
         /\ cur \in Ops =>
              /\ Typed(cur, op[cur], sock[cur]) /\ kind[cur] \in Kinds
              /\ ret[cur] = "none" =>
                   Fresh(op[cur]) /\ op[cur].result \in {"waiting", "cancelled"}
BY DEF IInv, TypeOK, RQP!OnePlace, Members, Phases, Phase

\* A new result, nothing else.
LEMMA Marked ==
  ASSUME NEW x \in OpRec, NEW r \in Results, NEW y, y = [x EXCEPT !.result = r]
  PROVE  /\ y \in OpRec /\ y.result = r /\ y.flag = x.flag /\ y.closed = x.closed
         /\ y.count = x.count /\ y.taken = x.taken
         /\ y.size = x.size /\ y.gone = x.gone
BY DEF OpRec

\* IInv, for one operation.
LEMMA Parts ==
  ASSUME IInv, NEW o \in Ops
  PROVE  /\ op \in [Ops -> OpRec] /\ sock \in [Ops -> SockRec]
         /\ ret \in [Ops -> Results \cup {"none"}] /\ kind[o] \in Kinds
         /\ polling \in BOOLEAN /\ blocked \subseteq Ops /\ o \in Tasks
         /\ op[o] \in OpRec /\ sock[o] \in SockRec
         /\ Phase(o, op[o], sock[o], ret[o], o \in added, o \in blocked)
BY OpsAssumption DEF IInv, TypeOK, OpRec, SockRec, Phases

LEMMA StartKeeps ==
  ASSUME IInv, NEW t \in Tasks, Start(t) PROVE IInv'
<1>1. RQP!OnePlace'
  BY QueueSteps DEF Next
<1>2. t \notin RQP!Queue /\ runq' = Append(runq, t)
  BY DEF Start, RQ!Admit, RQ!InQueue, RQP!Queue
<1>3. RQP!Queue' = RQP!Queue \cup {t}
  BY <1>2, RQP!Pushed DEF IInv
<1>4. UNCHANGED <<kind, op, added, sock, ret, blocked>> /\ polling' \in BOOLEAN
  BY DEF Start, RQ!Admit, IInv, TypeOK
<1> QED
  BY <1>1, <1>3, <1>4, NoneStep

LEMMA ResumeStartKeeps ==
  ASSUME IInv, ResumeStart PROVE IInv'
<1>1. RQP!OnePlace'
  BY QueueSteps DEF Next, Resume
<1>2. RQP!Queue = RQP!Queue' \cup {Head(runq)} /\ Head(runq) \notin added
  BY RQP!Popped DEF IInv, ResumeStart, RQ!Resume
<1>3. UNCHANGED <<kind, op, added, sock, ret, blocked>> /\ polling' \in BOOLEAN
  BY DEF ResumeStart, RQ!Resume
<1> QED
  BY <1>1, <1>2, <1>3, NoneStep

LEMMA FinishKeeps ==
  ASSUME IInv, Finish PROVE IInv'
<1>1. RQP!OnePlace'
  BY QueueSteps DEF Next
<1>2. UNCHANGED <<kind, op, added, sock, ret, blocked, runq>> /\ polling' \in BOOLEAN
  BY DEF Finish, RQ!Retire, IInv, TypeOK
<1> QED
  BY <1>1, <1>2, NoneStep DEF RQP!Queue

\* The coroutine makes its operation, or makes it anew.
LEMMA MakeKeeps ==
  ASSUME IInv, NEW timer \in {"none", "armed"},
         Reset(timer) \/ \E n \in Sizes : Make(timer, n)
  PROVE  IInv'
<1> DEFINE o == cur
<1>1. o \in Ops /\ kind' = kind /\ UNCHANGED <<loopVars, added, sock>>
  BY DEF Make, Reset
<1>2. RQP!OnePlace' /\ Members'
  BY <1>1, QueueSteps DEF Next, IInv, Members, loopVars, RQP!Queue
<1>3. o \notin added /\ o \notin blocked /\ Typed(o, op[o], sock[o])
  BY <1>1, Runner, OpsAssumption
<1>4. PICK y : /\ op' = [op EXCEPT ![o] = y] /\ ret' = [ret EXCEPT ![o] = "none"]
               /\ y \in OpRec /\ Fresh(y) /\ y.result = "waiting"
               /\ y.count = 0 /\ y.size \in Nat
  <2>1. ASSUME NEW n \in Sizes, Make(timer, n)
        PROVE  \E y \in OpRec : /\ op' = [op EXCEPT ![o] = y]
                               /\ ret' = [ret EXCEPT ![o] = "none"]
                               /\ Fresh(y) /\ y.result = "waiting"
                               /\ y.count = 0 /\ y.size \in Nat
    <3>1. /\ NewOp(timer, n) \in OpRec /\ Fresh(NewOp(timer, n))
          /\ NewOp(timer, n).result = "waiting" /\ NewOp(timer, n).count = 0
          /\ NewOp(timer, n).size \in Nat
      BY OpsAssumption DEF NewOp, OpRec, Fresh, Results
    <3> QED
      BY <2>1, <3>1 DEF Make
  <2>2. CASE Reset(timer)
    <3> DEFINE y == [op[o] EXCEPT !.result = "waiting", !.timer = timer, !.taken = 0,
                                  !.gone = FALSE]
    <3>1. op[o] \in OpRec /\ ~op[o].flag /\ ~op[o].closed /\ op[o].count = 0
      BY <1>3, <2>2 DEF Typed, Reset
    <3>2. /\ y \in OpRec /\ Fresh(y) /\ y.result = "waiting"
          /\ y.count = 0 /\ y.size \in Nat
      BY <3>1, OpsAssumption DEF OpRec, Results, Fresh
    <3>3. op' = [op EXCEPT ![o] = y] /\ ret' = [ret EXCEPT ![o] = "none"]
      BY <1>1, <2>2, Parts DEF Reset
    <3> HIDE DEF y
    <3> QED
      BY <3>2, <3>3
  <2> QED
    BY <2>1, <2>2
<1> HIDE DEF o
<1>5. /\ op' \in [Ops -> OpRec] /\ sock' \in [Ops -> SockRec]
      /\ ret' \in [Ops -> Results \cup {"none"}]
      /\ polling' \in BOOLEAN /\ blocked' \subseteq Ops
      /\ op'[o] = y /\ ret'[o] = "none" /\ sock'[o] = sock[o]
  BY <1>1, <1>4, Parts DEF loopVars
<1>6. Phase(o, op'[o], sock'[o], ret'[o], o \in added', o \in blocked')
  BY <1>1, <1>3, <1>4, <1>5, OpsAssumption DEF Phase, Typed, Fresh, loopVars
<1>7. \A p \in Ops : p # o =>
        /\ op'[p] = op[p] /\ sock'[p] = sock[p] /\ ret'[p] = ret[p]
        /\ p \in added' <=> p \in added
        /\ p \in blocked' <=> p \in blocked
  BY <1>1, <1>4, Parts DEF loopVars
<1> QED
  BY <1>1, <1>2, <1>5, <1>6, <1>7, OneStep

\* A co_await that does not suspend.
LEMMA AwaitReadyKeeps ==
  ASSUME IInv, AwaitReady PROVE IInv'
<1> DEFINE o == cur
<1>1. o \in Ops /\ ret[o] = "none" /\ kind' = kind /\ UNCHANGED <<loopVars, added>>
  BY DEF AwaitReady
<1>2. RQP!OnePlace' /\ Members'
  BY <1>1, QueueSteps DEF Next, IInv, Members, loopVars, RQP!Queue
<1>3. /\ o \notin added /\ o \notin blocked /\ Typed(o, op[o], sock[o])
      /\ Fresh(op[o]) /\ op[o].result \in {"waiting", "cancelled"}
      /\ kind[o] \in Kinds
  BY <1>1, Runner, OpsAssumption
<1>4. PICK q : /\ Return(o, q) /\ Typed(o, q[1], q[2])
               /\ Told(o, q[1], q[2], q[1].result)
  <2> DEFINE x == op[o]
             s == sock[o]
  <2>1. CASE x.timer = "past"
    <3> DEFINE y == [x EXCEPT !.result = "timeout"]
    <3>1. PICK q \in Resumed(o, y, s) : Return(o, q)
      BY <2>1 DEF AwaitReady
    <3>2. /\ y \in OpRec /\ y.result = "timeout" /\ y.count = x.count
          /\ y.taken = x.taken /\ y.size = x.size
      BY <1>3, Marked DEF Typed, Results
    <3> HIDE DEF y
    <3>3. q[1] = y /\ q[2] = s
      BY <3>1, <3>2, ResumedIs, <1>1
    <3>4. Typed(o, y, s)
      BY <1>3, <3>2 DEF Typed
    <3>5. Told(o, y, s, "timeout")
      BY <1>3, <3>2 DEF Fresh, Told, Results
    <3> QED
      BY <3>1, <3>2, <3>3, <3>4, <3>5
  <2>2. CASE x.timer # "past" /\ x.result # "waiting"
    <3>1. PICK q \in Resumed(o, x, s) : Return(o, q)
      BY <2>2 DEF AwaitReady
    <3>2. q[1] = x /\ q[2] = s /\ x.result = "cancelled"
      BY <3>1, <2>2, <1>3, ResumedIs, <1>1
    <3>3. Typed(o, q[1], q[2]) /\ Told(o, q[1], q[2], q[1].result)
      BY <1>3, <3>2 DEF Typed, Fresh, Told, Results
    <3> QED
      BY <3>1, <3>3
  <2>3. CASE x.timer # "past" /\ x.result = "waiting"
    <3>0. PICK p \in Execute(o, x, s) :
            /\ CheckReady(o, p[1])
            /\ \E q \in Resumed(o, p[1], p[2]) : Return(o, q)
      BY <2>3 DEF AwaitReady
    <3>1. PICK q \in Resumed(o, p[1], p[2]) : Return(o, q)
      BY <3>0
    <3>2. Typed(o, q[1], q[2]) /\ Told(o, q[1], q[2], q[1].result)
      BY <1>1, <1>3, <2>3, <3>0, <3>1, Returns
    <3> QED
      BY <3>1, <3>2
  <2> QED
    BY <2>1, <2>2, <2>3
<1> HIDE DEF o
<1>5. /\ op' = [op EXCEPT ![o] = q[1]] /\ sock' = [sock EXCEPT ![o] = q[2]]
      /\ ret' = [ret EXCEPT ![o] = q[1].result]
      /\ q[1] \in OpRec /\ q[2] \in SockRec /\ q[1].result \in Results
  BY <1>4 DEF Return, Typed, Told
<1>6. /\ op' \in [Ops -> OpRec] /\ sock' \in [Ops -> SockRec]
      /\ ret' \in [Ops -> Results \cup {"none"}]
      /\ polling' \in BOOLEAN /\ blocked' \subseteq Ops
      /\ op'[o] = q[1] /\ sock'[o] = q[2] /\ ret'[o] = q[1].result
  BY <1>1, <1>5, Parts DEF loopVars
<1>7. Phase(o, op'[o], sock'[o], ret'[o], o \in added', o \in blocked')
  BY <1>1, <1>3, <1>4, <1>5, <1>6 DEF Phase, Results
<1>8. \A p \in Ops : p # o =>
        /\ op'[p] = op[p] /\ sock'[p] = sock[p] /\ ret'[p] = ret[p]
        /\ p \in added' <=> p \in added
        /\ p \in blocked' <=> p \in blocked
  BY <1>1, <1>5, Parts DEF loopVars
<1> QED
  BY <1>1, <1>2, <1>6, <1>7, <1>8, OneStep

\* A co_await that suspends.
LEMMA AwaitSuspendsKeeps ==
  ASSUME IInv, AwaitSuspends PROVE IInv'
<1> DEFINE o == cur
<1>1. /\ o \in Ops /\ ret[o] = "none" /\ op[o].result = "waiting"
      /\ UNCHANGED <<kind, polling, ret, runq>>
      /\ added' = added \cup {o} /\ blocked' = blocked \cup {o}
  BY DEF AwaitSuspends, RQ!Block
<1>2. RQP!OnePlace' /\ Members'
  BY <1>1, QueueSteps DEF Next, IInv, Members, RQP!Queue
<1>3. Typed(o, op[o], sock[o]) /\ Fresh(op[o]) /\ kind[o] \in Kinds
  BY <1>1, Runner, OpsAssumption
<1>4. PICK p \in Execute(o, op[o], sock[o]) :
        /\ ~CheckReady(o, p[1])
        /\ op' = [op EXCEPT ![o] = p[1]] /\ sock' = [sock EXCEPT ![o] = p[2]]
  BY DEF AwaitSuspends
<1>5. Typed(o, p[1], p[2]) /\ Asleep(o, p[1], p[2])
  BY <1>1, <1>3, <1>4, ExecuteTypes, Suspends
<1> HIDE DEF o
<1>6. /\ op' \in [Ops -> OpRec] /\ sock' \in [Ops -> SockRec]
      /\ ret' \in [Ops -> Results \cup {"none"}]
      /\ polling' \in BOOLEAN /\ blocked' \subseteq Ops
      /\ op'[o] = p[1] /\ sock'[o] = p[2] /\ ret'[o] = "none"
  BY <1>1, <1>4, <1>5, Parts DEF Typed
<1>7. Phase(o, op'[o], sock'[o], ret'[o], o \in added', o \in blocked')
  BY <1>1, <1>5, <1>6 DEF Phase
<1>8. \A r \in Ops : r # o =>
        /\ op'[r] = op[r] /\ sock'[r] = sock[r] /\ ret'[r] = ret[r]
        /\ r \in added' <=> r \in added
        /\ r \in blocked' <=> r \in blocked
  BY <1>1, <1>4, Parts
<1> QED
  BY <1>1, <1>2, <1>6, <1>7, <1>8, OneStep

\* await_resume of one that slept.
LEMMA ResumeOpKeeps ==
  ASSUME IInv, ResumeOp PROVE IInv'
<1> DEFINE o == Head(runq)
<1>1. /\ o \in added /\ added' = added \ {o} /\ polling' = FALSE
      /\ UNCHANGED <<kind, blocked>>
  BY DEF ResumeOp, RQ!Resume
<1>2. RQP!Queue = RQP!Queue' \cup {o} /\ RQP!OnePlace'
  BY RQP!Popped, QueueSteps DEF IInv, ResumeOp, RQ!Resume, Next, Resume
<1>3. o \in Ops /\ o \notin blocked
  BY <1>1, <1>2 DEF IInv, Members, RQP!OnePlace
<1>4. Members'
  BY <1>1, <1>2, <1>3 DEF IInv, Members
<1>5. PICK q \in Resumed(o, op[o], sock[o]) : Return(o, q)
  BY DEF ResumeOp
<1> HIDE DEF o
<1>6. /\ kind[o] \in Kinds /\ Typed(o, op[o], sock[o])
      /\ Asleep(o, op[o], sock[o]) /\ op[o].result # "waiting"
      /\ op[o].result = "done" => Kept(o, op[o], sock[o])
  BY <1>1, <1>3, Parts DEF Phase
<1>7. Typed(o, q[1], q[2]) /\ Told(o, q[1], q[2], q[1].result)
  BY <1>3, <1>5, <1>6, Awakes
<1>8. /\ op' = [op EXCEPT ![o] = q[1]] /\ sock' = [sock EXCEPT ![o] = q[2]]
      /\ ret' = [ret EXCEPT ![o] = q[1].result]
      /\ q[1] \in OpRec /\ q[2] \in SockRec /\ q[1].result \in Results
  BY <1>5, <1>7 DEF Return, Typed, Told
<1>9. /\ op' \in [Ops -> OpRec] /\ sock' \in [Ops -> SockRec]
      /\ ret' \in [Ops -> Results \cup {"none"}]
      /\ polling' \in BOOLEAN /\ blocked' \subseteq Ops
      /\ op'[o] = q[1] /\ sock'[o] = q[2] /\ ret'[o] = q[1].result
  BY <1>1, <1>3, <1>8, Parts
<1>10. Phase(o, op'[o], sock'[o], ret'[o], o \in added', o \in blocked')
  BY <1>1, <1>7, <1>8, <1>9 DEF Phase, Results
<1>11. \A p \in Ops : p # o =>
        /\ op'[p] = op[p] /\ sock'[p] = sock[p] /\ ret'[p] = ret[p]
        /\ p \in added' <=> p \in added
        /\ p \in blocked' <=> p \in blocked
  BY <1>1, <1>3, <1>8, Parts
<1> QED
  BY <1>1, <1>2, <1>3, <1>4, <1>9, <1>10, <1>11, OneStep

\* A step that sets the result of o, wakes it if it sleeps, and changes no more.
LEMMA ResultKeeps ==
  ASSUME IInv, NEW o \in Ops, NEW r \in Results, RQP!OnePlace',
         op' = [op EXCEPT ![o].result = r], polling' \in BOOLEAN,
         UNCHANGED <<kind, added, sock, ret>>,
         \/ o \in blocked /\ RQ!Wake(o)
         \/ o \notin blocked /\ UNCHANGED <<runq, cur, blocked>>,
         r # "waiting", r = "done" => o \in added /\ Kept(o, op[o], sock[o]),
         o \in added \/ r = "cancelled"
  PROVE  IInv'
<1>1. /\ op[o] \in OpRec /\ sock[o] \in SockRec /\ blocked \subseteq Ops /\ o \in Tasks
      /\ Phase(o, op[o], sock[o], ret[o], o \in added, o \in blocked)
      /\ op \in [Ops -> OpRec] /\ sock \in [Ops -> SockRec]
      /\ ret \in [Ops -> Results \cup {"none"}]
  BY Parts
<1>2. blocked' = blocked \ {o} /\ RQP!Queue \subseteq RQP!Queue'
      /\ (o \in blocked => o \in RQP!Queue')
  <2>1. CASE o \in blocked
    <3>1. /\ o \notin RQP!Queue /\ runq' = Append(runq, o)
          /\ blocked' = blocked \ {o}
      BY <2>1 DEF IInv, RQP!OnePlace, RQ!Wake
    <3> QED
      BY <1>1, <3>1, RQP!Pushed DEF IInv
  <2>2. CASE o \notin blocked
    BY <2>2 DEF RQP!Queue
  <2> QED
    BY <2>1, <2>2
<1>3. Members'
  BY <1>2 DEF IInv, Members
<1> DEFINE y == [op[o] EXCEPT !.result = r]
<1>4. /\ y \in OpRec /\ y.result = r /\ y.flag = op[o].flag
      /\ y.closed = op[o].closed /\ y.count = op[o].count /\ y.taken = op[o].taken
      /\ y.size = op[o].size /\ y.gone = op[o].gone
  BY <1>1, Marked
<1>5. op' = [op EXCEPT ![o] = y]
  BY <1>1
<1> HIDE DEF y
<1>6. Phase(o, y, sock[o], ret[o], o \in added, FALSE)
  BY <1>1, <1>4 DEF Phase, Typed, Asleep, Fresh, Kept, Told, Got
<1>7. op' \in [Ops -> OpRec] /\ op'[o] = y
  BY <1>1, <1>4, <1>5
<1>8. Phase(o, op'[o], sock'[o], ret'[o], o \in added', o \in blocked')
  BY <1>2, <1>6, <1>7 DEF Phase
<1>9. \A p \in Ops : p # o =>
        /\ op'[p] = op[p] /\ sock'[p] = sock[p] /\ ret'[p] = ret[p]
        /\ p \in added' <=> p \in added
        /\ p \in blocked' <=> p \in blocked
  BY <1>1, <1>2, <1>5
<1>10. blocked' \subseteq Ops /\ sock' \in [Ops -> SockRec]
       /\ ret' \in [Ops -> Results \cup {"none"}]
  BY <1>1, <1>2
<1> QED
  BY <1>3, <1>7, <1>8, <1>9, <1>10, OneStep

\* Another coroutine, the loop or time completes an operation.
LEMMA CompleteKeeps ==
  ASSUME IInv, NEW o \in Ops, Cancel(o) \/ PollEvent(o) \/ Expire(o)
  PROVE  IInv'
<1>1. RQP!OnePlace'
  BY QueueSteps DEF Next, Poll
<1>2. {"cancelled", "done", "error", "timeout"} \subseteq Results
  BY DEF Results
<1>3. CASE Cancel(o)
  <2>1. /\ op' = [op EXCEPT ![o].result = "cancelled"] /\ polling' \in BOOLEAN
        /\ UNCHANGED <<kind, added, sock, ret>>
        /\ \/ o \in blocked /\ RQ!Wake(o)
           \/ o \notin blocked /\ UNCHANGED <<runq, cur, blocked>>
    BY <1>3, Parts DEF Cancel
  <2> QED
    BY <1>1, <1>2, <2>1, ResultKeeps
<1>4. CASE PollEvent(o)
  <2>1. PICK r \in {"done", "error"} : op' = [op EXCEPT ![o].result = r]
    BY <1>4 DEF PollEvent
  <2>2. /\ polling' \in BOOLEAN /\ UNCHANGED <<kind, added, sock, ret>>
        /\ o \in blocked /\ o \in added /\ RQ!Wake(o)
    BY <1>4 DEF PollEvent
  <2>3. Kept(o, op[o], sock[o])
    BY <1>4 DEF PollEvent, Hot, Kept
  <2> QED
    BY <1>1, <1>2, <2>1, <2>2, <2>3, ResultKeeps
<1>5. CASE Expire(o)
  <2>1. /\ op' = [op EXCEPT ![o].result = "timeout"] /\ polling' \in BOOLEAN
        /\ UNCHANGED <<kind, added, sock, ret>>
        /\ o \in blocked /\ o \in added /\ RQ!Wake(o)
    BY <1>5 DEF Expire
  <2> QED
    BY <1>1, <1>2, <2>1, ResultKeeps
<1> QED
  BY <1>3, <1>4, <1>5

\* The kernel only adds to what epoll reports.
LEMMA KernelKeeps ==
  ASSUME IInv, NEW o \in Ops, Kernel(o)
  PROVE  IInv'
<1>1. UNCHANGED <<kind, loopVars, op, added, ret>>
  BY DEF Kernel
<1>2. RQP!OnePlace' /\ Members'
  BY <1>1, QueueSteps DEF Next, IInv, Members, loopVars, RQP!Queue
<1>3. /\ op[o] \in OpRec /\ sock[o] \in SockRec /\ polling \in BOOLEAN
      /\ Phase(o, op[o], sock[o], ret[o], o \in added, o \in blocked)
      /\ op \in [Ops -> OpRec] /\ sock \in [Ops -> SockRec] /\ blocked \subseteq Ops
      /\ ret \in [Ops -> Results \cup {"none"}]
  BY Parts
<1>4. PICK z \in SockRec :
        /\ sock' = [sock EXCEPT ![o] = z]
        /\ z.eof => sock[o].eof \/ kind[o] = "recv"
        /\ kind[o] # "connect" =>
             (sock[o].ready > 0 => z.ready > 0) /\ (sock[o].eof => z.eof)
               /\ (sock[o].err => z.err)
        /\ z.conn = sock[o].conn
             \/ (sock[o].conn = "pending" /\ z.conn \in {"up", "refused"})
  <2> DEFINE s == sock[o]
  <2>1. CASE kind[o] # "connect" /\ s.ready < MaxAvail
             /\ sock' = [sock EXCEPT ![o].ready = @ + 1]
    <3> DEFINE z == [s EXCEPT !.ready = @ + 1]
    <3>1. s.ready \in Nat /\ s.ready + 1 \in 0..MaxAvail
      BY <1>3, <2>1, OpsAssumption DEF SockRec
    <3>2. z \in SockRec /\ z.eof = s.eof /\ z.conn = s.conn /\ z.err = s.err
          /\ z.ready = s.ready + 1
      BY <1>3, <3>1 DEF SockRec
    <3>3. sock' = [sock EXCEPT ![o] = z]
      BY <1>3, <2>1
    <3>4. z.ready > 0
      BY <3>1, <3>2
    <3> HIDE DEF z, s
    <3> QED
      BY <3>2, <3>3, <3>4 DEF s
  <2>2. CASE kind[o] = "recv" /\ sock' = [sock EXCEPT ![o].eof = TRUE]
    <3> DEFINE z == [s EXCEPT !.eof = TRUE]
    <3>1. z \in SockRec /\ z.eof /\ z.conn = s.conn /\ z.err = s.err
          /\ z.ready = s.ready
      BY <1>3 DEF SockRec
    <3>2. sock' = [sock EXCEPT ![o] = z]
      BY <1>3, <2>2
    <3> HIDE DEF z
    <3> QED
      BY <2>2, <3>1, <3>2
  <2>3. CASE kind[o] # "connect" /\ sock' = [sock EXCEPT ![o].err = TRUE]
    <3> DEFINE z == [s EXCEPT !.err = TRUE]
    <3>1. z \in SockRec /\ z.eof = s.eof /\ z.conn = s.conn /\ z.err
          /\ z.ready = s.ready
      BY <1>3 DEF SockRec
    <3>2. sock' = [sock EXCEPT ![o] = z]
      BY <1>3, <2>3
    <3> HIDE DEF z
    <3> QED
      BY <3>1, <3>2
  <2>4. ASSUME s.conn = "pending", NEW c \in {"up", "refused"},
               sock' = [sock EXCEPT ![o].conn = c]
        PROVE  \E z \in SockRec :
                 /\ sock' = [sock EXCEPT ![o] = z] /\ z.eof = s.eof
                 /\ z.ready = s.ready /\ z.err = s.err /\ z.conn = c
    <3> DEFINE z == [s EXCEPT !.conn = c]
    <3>1. z \in SockRec /\ z.eof = s.eof /\ z.conn = c /\ z.err = s.err
          /\ z.ready = s.ready
      BY <1>3 DEF SockRec
    <3>2. sock' = [sock EXCEPT ![o] = z]
      BY <1>3, <2>4
    <3> HIDE DEF z
    <3> QED
      BY <3>1, <3>2
  <2>5. CASE s.conn = "pending"
             /\ \E c \in {"up", "refused"} : sock' = [sock EXCEPT ![o].conn = c]
    <3>1. PICK c \in {"up", "refused"} : sock' = [sock EXCEPT ![o].conn = c]
      BY <2>5
    <3> HIDE DEF s
    <3>2. PICK z \in SockRec :
            /\ sock' = [sock EXCEPT ![o] = z] /\ z.eof = s.eof
            /\ z.ready = s.ready /\ z.err = s.err /\ z.conn = c
      BY <2>4, <2>5, <3>1
    <3> QED
      BY <2>5, <3>2 DEF s
  <2> QED
    BY <2>1, <2>2, <2>3, <2>5 DEF Kernel
<1>5. Phase(o, op[o], z, ret[o], o \in added, o \in blocked)
  BY <1>3, <1>4 DEF Phase, Typed, Asleep, Kept, Told, Got
<1>6. /\ sock' \in [Ops -> SockRec] /\ sock'[o] = z
      /\ \A p \in Ops : p # o => sock'[p] = sock[p]
  BY <1>3, <1>4
<1>7. Phase(o, op'[o], sock'[o], ret'[o], o \in added', o \in blocked')
  BY <1>1, <1>5, <1>6 DEF Phase, loopVars
<1> QED
  BY <1>1, <1>2, <1>3, <1>6, <1>7, OneStep DEF loopVars

\* Another process takes what epoll reported; a coroutine that was woken for it
\* is marked.
LEMMA WithdrawKeeps ==
  ASSUME IInv, NEW o \in Ops, Withdraw(o)
  PROVE  IInv'
<1>1. UNCHANGED <<kind, loopVars, added, ret>> /\ kind[o] # "connect"
  BY DEF Withdraw
<1>2. RQP!OnePlace' /\ Members'
  BY <1>1, QueueSteps DEF Next, IInv, Members, loopVars, RQP!Queue
<1>3. /\ op[o] \in OpRec /\ sock[o] \in SockRec /\ polling \in BOOLEAN
      /\ Phase(o, op[o], sock[o], ret[o], o \in added, o \in blocked)
      /\ op \in [Ops -> OpRec] /\ sock \in [Ops -> SockRec] /\ blocked \subseteq Ops
      /\ ret \in [Ops -> Results \cup {"none"}]
  BY Parts
<1> DEFINE x == op[o]
           s == sock[o]
           y == [x EXCEPT !.gone = @ \/ o \in added \ blocked]
           z == [s EXCEPT !.ready = @ - 1]
<1>4. op' = [op EXCEPT ![o] = y] /\ sock' = [sock EXCEPT ![o] = z]
  BY <1>3 DEF Withdraw
<1>5. /\ y \in OpRec /\ y.result = x.result /\ y.flag = x.flag
      /\ y.closed = x.closed /\ y.count = x.count /\ y.taken = x.taken
      /\ y.size = x.size /\ (x.gone => y.gone)
      /\ o \in added /\ o \notin blocked => y.gone
  BY <1>3 DEF OpRec
<1>6. z \in SockRec /\ z.eof = s.eof /\ z.conn = s.conn /\ z.err = s.err
  <2>1. s.ready - 1 \in 0..MaxAvail
    BY <1>3, OpsAssumption DEF Withdraw, SockRec
  <2> QED
    BY <1>3, <2>1 DEF SockRec
<1>7. /\ op' \in [Ops -> OpRec] /\ op'[o] = y
      /\ sock' \in [Ops -> SockRec] /\ sock'[o] = z
      /\ \A p \in Ops : p # o => op'[p] = op[p] /\ sock'[p] = sock[p]
  BY <1>3, <1>4, <1>5, <1>6
<1>8. Phase(o, x, s, ret[o], o \in added, o \in blocked)
  BY <1>3
<1> HIDE DEF x, y, z, s
<1>9. Phase(o, y, z, ret[o], o \in added, o \in blocked)
  BY <1>1, <1>5, <1>6, <1>8 DEF Phase, Typed, Asleep, Fresh, Kept, Told, Got
<1>10. Phase(o, op'[o], sock'[o], ret'[o], o \in added', o \in blocked')
  BY <1>1, <1>7, <1>9 DEF Phase, loopVars
<1> QED
  BY <1>1, <1>2, <1>3, <1>7, <1>10, OneStep DEF loopVars

\* Deadlines pass.
LEMMA TickKeeps ==
  ASSUME IInv, Tick PROVE IInv'
<1>1. UNCHANGED <<kind, loopVars, added, sock, ret>>
  BY DEF Tick
<1>2. RQP!OnePlace' /\ Members'
  BY <1>1, QueueSteps DEF Next, IInv, Members, loopVars, RQP!Queue
<1>3. ASSUME NEW o \in Ops
      PROVE  /\ op'[o] \in OpRec /\ op'[o].result = op[o].result
             /\ op'[o].flag = op[o].flag /\ op'[o].closed = op[o].closed
             /\ op'[o].count = op[o].count /\ op'[o].taken = op[o].taken
             /\ op'[o].size = op[o].size /\ op'[o].gone = op[o].gone
  <2>1. op[o] \in OpRec
    BY Parts
  <2>2. CASE op[o].timer = "armed"
    BY <2>1, <2>2 DEF Tick, OpRec
  <2>3. CASE op[o].timer # "armed"
    BY <2>1, <2>3 DEF Tick
  <2> QED
    BY <2>2, <2>3
<1>4. op' \in [Ops -> OpRec]
  <2>1. op' = [o \in Ops |-> op'[o]]
    BY DEF Tick
  <2> QED
    BY <1>3, <2>1
<1>5. ASSUME NEW o \in Ops
      PROVE  Phase(o, op'[o], sock[o], ret[o], o \in added, o \in blocked)
  <2>1. Phase(o, op[o], sock[o], ret[o], o \in added, o \in blocked)
    BY DEF IInv, Phases
  <2> QED
    BY <1>3, <2>1 DEF Phase, Typed, Asleep, Fresh, Kept, Told, Got
<1>6. Phases'
  BY <1>1, <1>5 DEF Phases, Phase, Typed, Asleep, Fresh, Kept, Told, Got, loopVars
<1>7. TypeOK'
  BY <1>1, <1>4, <1>5 DEF IInv, TypeOK, OpRec, Phase, Typed, loopVars
<1> QED
  BY <1>2, <1>6, <1>7 DEF IInv

-----------------------------------------------------------------------------

LEMMA InitIInv == Init => IInv
<1> SUFFICES ASSUME Init PROVE IInv
  OBVIOUS
<1>1. RQP!OnePlace
  BY RQP!InitPlaces DEF Init, RQ!Init, RQP!Init
<1>2. ASSUME NEW n \in Sizes, NEW y, y = NewOp("none", n)
      PROVE  /\ y \in OpRec /\ Fresh(y) /\ y.result = "waiting"
             /\ y.count = 0 /\ y.size \in Nat
  BY <1>2, OpsAssumption DEF NewOp, OpRec, Fresh, Results
<1>3. NewSock \in SockRec /\ ~NewSock.eof
  BY OpsAssumption DEF NewSock, SockRec
<1>4. Members
  BY DEF Init, RQ!Init, Members
<1>5. ASSUME NEW o \in Ops
      PROVE  /\ op[o] \in OpRec /\ Fresh(op[o]) /\ op[o].result = "waiting"
             /\ op[o].count = 0 /\ op[o].size \in Nat
             /\ sock[o] = NewSock /\ ret[o] = "none"
  <2>1. op[o] \in {NewOp("none", n) : n \in Sizes} /\ sock[o] = NewSock
        /\ ret[o] = "none"
    BY DEF Init
  <2>2. PICK n \in Sizes : op[o] = NewOp("none", n)
    BY <2>1
  <2> QED
    BY <1>2, <2>1, <2>2
<1>6. Phases
  BY <1>3, <1>4, <1>5 DEF Phases, Phase, Typed, Init, RQ!Init
<1>7. op \in [Ops -> OpRec] /\ sock \in [Ops -> SockRec]
      /\ ret \in [Ops -> Results \cup {"none"}]
  BY <1>3, <1>5 DEF Init
<1>8. \A o \in Ops : kind[o] \in {"recv", "send"} => op[o].count <= op[o].size
  BY <1>5
<1>9. /\ kind \in [Ops -> Kinds] /\ polling \in BOOLEAN /\ blocked = {} /\ added = {}
      /\ runq \in Seq(Tasks) /\ cur \in Tasks \cup {None}
  BY <1>1 DEF Init, RQ!Init, RQP!OnePlace
<1>10. TypeOK
  BY <1>7, <1>8, <1>9 DEF TypeOK, OpRec, SockRec
<1> QED
  BY <1>1, <1>4, <1>6, <1>10 DEF IInv

LEMMA NextIInv == IInv /\ [Next]_vars => IInv'
<1> SUFFICES ASSUME IInv, [Next]_vars PROVE IInv'
  OBVIOUS
<1>1. CASE UNCHANGED vars
  BY <1>1 DEF vars, loopVars, IInv, TypeOK, Members, Phases, Phase, Typed,
     Asleep, Fresh, Kept, Told, Got, RQP!OnePlace, RQP!Queue
<1>2. CASE Resume
  BY <1>2, ResumeStartKeeps, ResumeOpKeeps DEF Resume
<1>3. CASE Poll \/ \E o \in Ops : Cancel(o)
  BY <1>3, CompleteKeeps DEF Poll
<1>4. CASE \E timer \in {"none", "armed"} :
             Reset(timer) \/ \E n \in Sizes : Make(timer, n)
  BY <1>4, MakeKeeps
<1> QED
  BY <1>1, <1>2, <1>3, <1>4, TickKeeps, FinishKeeps, AwaitReadyKeeps,
     AwaitSuspendsKeeps, StartKeeps, KernelKeeps, WithdrawKeeps DEF Next

\* The invariant, in every state: an operation is new, sleeps, was woken, or has
\* returned, and has taken from the kernel only what that phase allows
\* (ioops.hpp:30-110, waiter.hpp:110-180).
THEOREM Inductive == Spec => []IInv
BY InitIInv, NextIInv, PTL DEF Spec

\* The values each variable takes; a send never counts more than its buffer
\* (net/ops.hpp).
THEOREM TypeCorrect == Spec => []TypeOK
<1>1. IInv => TypeOK
  BY DEF IInv
<1> QED
  BY <1>1, Inductive, PTL

\* What an operation takes from the kernel, in await_ready or again in
\* await_resume, its caller is told of, for any mixture of deadlines,
\* cancellations, errors and resets (ioops.hpp:30-110).
THEOREM TakenIsSeen == Spec => []NothingTakenUnseen
<1>1. IInv => NothingTakenUnseen
  <2> SUFFICES ASSUME IInv, NEW o \in Ops, kind[o] # "connect", ret[o] # "none"
               PROVE  op[o].taken = IF ret[o] = "done"
                                       \/ (kind[o] = "send" /\ ret[o] = "error")
                                    THEN op[o].count ELSE 0
    BY DEF NothingTakenUnseen
  <2> QED
    BY DEF IInv, Phases, Phase, Told
<1> QED
  BY <1>1, Inductive, PTL

\* No co_await returns while the result still waits, and one that returns done has
\* data, a descriptor or a connection, unless another process withdrew what epoll
\* had reported before the coroutine ran (net/ops.hpp, ioops.hpp:60-65).
THEOREM DoneHolds == Spec => []DoneIsTrue
<1>1. IInv => DoneIsTrue
  <2> SUFFICES ASSUME IInv, NEW o \in Ops
               PROVE  ret[o] # "waiting" /\ (ret[o] = "done" =>
                        IF kind[o] = "connect" THEN sock[o].conn = "up"
                                               ELSE Got(o, op[o]))
    BY DEF DoneIsTrue, Got
  <2> QED
    BY DEF IInv, Phases, Phase, Told
<1> QED
  BY <1>1, Inductive, PTL
=============================================================================
