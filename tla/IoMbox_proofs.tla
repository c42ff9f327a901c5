---------------------------- MODULE IoMbox_proofs ----------------------------
(***************************************************************************)
(* Proofs about IoMbox, for every number of coroutines, capacity and number*)
(* of messages.  The invariant is that of the run queue (every coroutine in*)
(* one place), what readers_ says of the readers in it (Readers), and where*)
(* the messages are and in which order (Messages).  With it IoMbox is shown*)
(* to implement Channel.  The theorems assume that nobody destroys the     *)
(* mailbox while a reader it completed has not run yet.                    *)
(***************************************************************************)
EXTENDS IoMbox, SequenceTheorems, TLAPS

RQP == INSTANCE RunQueue_proofs WITH queue <- runq

-----------------------------------------------------------------------------
(* Sequences without repetition.                                           *)

\* One more at the end.
LEMMA AppendIs ==
  ASSUME NEW S, NEW s \in Seq(S), NEW e \in S
  PROVE  /\ Append(s, e) \in Seq(S) /\ Len(Append(s, e)) = Len(s) + 1
         /\ ToSet(Append(s, e)) = ToSet(s) \cup {e}
         /\ Append(s, e) # <<>> /\ Append(s, e)[Len(s) + 1] = e
         /\ \A i \in 1..Len(s) : Append(s, e)[i] = s[i]
         /\ IsInjective(s) /\ e \notin ToSet(s) => IsInjective(Append(s, e))
<1> DEFINE z == Append(s, e)
<1>1. /\ z \in Seq(S) /\ Len(z) = Len(s) + 1 /\ Len(s) \in Nat
      /\ \A i \in 1..Len(s) : z[i] = s[i]
      /\ z[Len(s) + 1] = e
      /\ DOMAIN z = 1..Len(z) /\ DOMAIN s = 1..Len(s) /\ z # <<>>
  BY AppendProperties, LenProperties
<1> HIDE DEF z
<1>2. DOMAIN z = (DOMAIN s) \cup {Len(s) + 1}
  BY <1>1
<1>3. ToSet(z) = ToSet(s) \cup {e}
  BY <1>1, <1>2 DEF ToSet
<1>4. IsInjective(s) /\ e \notin ToSet(s) => IsInjective(z)
  BY <1>1, <1>2 DEF ToSet, IsInjective
<1> QED
  BY <1>1, <1>3, <1>4 DEF z

LEMMA AppendSet ==
  ASSUME NEW S, NEW s, s \in Seq(S), NEW e, e \in S
  PROVE  ToSet(Append(s, e)) = ToSet(s) \cup {e}
<1>1. /\ Append(s, e) \in Seq(S) /\ Len(Append(s, e)) = Len(s) + 1
      /\ ToSet(Append(s, e)) = ToSet(s) \cup {e} /\ Append(s, e)[Len(s) + 1] = e
      /\ \A i \in 1..Len(s) : Append(s, e)[i] = s[i]
  BY AppendIs
<1> QED
  BY <1>1

\* The first leaves.
LEMMA TailIs ==
  ASSUME NEW S, NEW s \in Seq(S), s # <<>>
  PROVE  /\ Tail(s) \in Seq(S) /\ Head(s) \in S /\ Len(Tail(s)) = Len(s) - 1
         /\ Head(s) = s[1] /\ Len(s) \in Nat \ {0}
         /\ \A i \in 1..Len(Tail(s)) : Tail(s)[i] = s[i + 1]
         /\ ToSet(s) = ToSet(Tail(s)) \cup {Head(s)}
         /\ IsInjective(s) => IsInjective(Tail(s)) /\ Head(s) \notin ToSet(Tail(s))
<1> DEFINE z == Tail(s)
<1>1. /\ z \in Seq(S) /\ Head(s) \in S /\ Head(s) = s[1]
      /\ Len(s) \in Nat \ {0} /\ Len(z) = Len(s) - 1
      /\ \A i \in 1..Len(z) : z[i] = s[i + 1]
      /\ DOMAIN z = 1..Len(z) /\ DOMAIN s = 1..Len(s)
  BY HeadTailProperties, LenProperties, EmptySeq
<1> HIDE DEF z
<1>2. \A i \in DOMAIN z : i + 1 \in DOMAIN s /\ i + 1 # 1
  BY <1>1
<1>3. \A i \in DOMAIN s : i # 1 => i - 1 \in DOMAIN z /\ z[i - 1] = s[i]
  BY <1>1
<1>4. ToSet(s) = ToSet(z) \cup {Head(s)}
  <2>1. ASSUME NEW i \in DOMAIN s PROVE s[i] \in ToSet(z) \cup {Head(s)}
    BY <1>1, <1>3 DEF ToSet
  <2>2. ASSUME NEW i \in DOMAIN z PROVE z[i] \in ToSet(s)
    BY <1>1, <1>2 DEF ToSet
  <2>3. Head(s) \in ToSet(s)
    BY <1>1 DEF ToSet
  <2> QED
    BY <2>1, <2>2, <2>3 DEF ToSet
<1>5. ASSUME IsInjective(s) PROVE IsInjective(z) /\ Head(s) \notin ToSet(z)
  <2>1. Head(s) \notin ToSet(z)
    BY <1>1, <1>2, <1>5 DEF ToSet, IsInjective
  <2>2. ASSUME NEW i \in DOMAIN z, NEW j \in DOMAIN z, z[i] = z[j] PROVE i = j
    <3>1. i + 1 = j + 1
      BY <1>1, <1>2, <1>5, <2>2 DEF IsInjective
    <3> QED
      BY <1>1, <3>1
  <2> QED
    BY <2>1, <2>2 DEF IsInjective
<1> QED
  BY <1>1, <1>4, <1>5 DEF z

LEMMA ConcatIs ==
  ASSUME NEW S, NEW s \in Seq(S), NEW q \in Seq(S),
         IsInjective(s), IsInjective(q), ToSet(s) \cap ToSet(q) = {}
  PROVE  /\ s \o q \in Seq(S) /\ ToSet(s \o q) = ToSet(s) \cup ToSet(q)
         /\ IsInjective(s \o q)
<1> DEFINE z == s \o q
<1>1. /\ z \in Seq(S) /\ Len(z) = Len(s) + Len(q) /\ Len(s) \in Nat /\ Len(q) \in Nat
      /\ \A i \in 1..Len(z) : z[i] = IF i <= Len(s) THEN s[i] ELSE q[i - Len(s)]
      /\ DOMAIN z = 1..Len(z) /\ DOMAIN s = 1..Len(s) /\ DOMAIN q = 1..Len(q)
  BY ConcatProperties, LenProperties
<1> HIDE DEF z
<1>2. \A i \in DOMAIN z : \/ i \in DOMAIN s /\ z[i] = s[i]
                          \/ i - Len(s) \in DOMAIN q /\ z[i] = q[i - Len(s)]
                               /\ i \notin DOMAIN s
  BY <1>1
<1>3. /\ \A i \in DOMAIN s : i \in DOMAIN z /\ z[i] = s[i]
      /\ \A i \in DOMAIN q : Len(s) + i \in DOMAIN z /\ z[Len(s) + i] = q[i]
  BY <1>1
<1>4. ToSet(z) = ToSet(s) \cup ToSet(q)
  <2>1. ASSUME NEW i \in DOMAIN z PROVE z[i] \in ToSet(s) \cup ToSet(q)
    <3>1. PICK k : \/ k \in DOMAIN s /\ z[i] = s[k]
                   \/ k \in DOMAIN q /\ z[i] = q[k]
      BY <1>2
    <3> QED
      BY <3>1 DEF ToSet
  <2>2. ASSUME NEW i \in DOMAIN s PROVE s[i] \in ToSet(z)
    BY <1>3 DEF ToSet
  <2>3. ASSUME NEW i \in DOMAIN q PROVE q[i] \in ToSet(z)
    BY <1>3 DEF ToSet
  <2>4. ToSet(z) \subseteq ToSet(s) \cup ToSet(q)
    BY <2>1 DEF ToSet
  <2>5. ToSet(s) \subseteq ToSet(z) /\ ToSet(q) \subseteq ToSet(z)
    BY <2>2, <2>3 DEF ToSet
  <2> QED
    BY <2>4, <2>5
<1>5. ASSUME NEW i \in DOMAIN z, NEW j \in DOMAIN z, z[i] = z[j] PROVE i = j
  <2>1. CASE i \in DOMAIN s /\ j \in DOMAIN s
    BY <1>3, <1>5, <2>1 DEF IsInjective
  <2>2. CASE i \notin DOMAIN s /\ j \notin DOMAIN s
    <3>1. i - Len(s) = j - Len(s)
      BY <1>2, <1>5, <2>2 DEF IsInjective
    <3> QED
      BY <1>1, <3>1
  <2>3. ASSUME NEW k \in DOMAIN s, NEW l \in DOMAIN q PROVE s[k] # q[l]
    BY DEF ToSet
  <2>4. CASE \/ i \in DOMAIN s /\ j \notin DOMAIN s
             \/ i \notin DOMAIN s /\ j \in DOMAIN s
    BY <1>2, <1>5, <2>3, <2>4
  <2> QED
    BY <2>1, <2>2, <2>4
<1>6. IsInjective(z)
  BY <1>5 DEF IsInjective
<1> QED
  BY <1>1, <1>4, <1>6 DEF z

\* std::ranges::find and erase.
LEMMA RemoveFirstIs ==
  ASSUME NEW S, NEW s \in Seq(S), IsInjective(s), NEW e
  PROVE  /\ RemoveFirst(s, e) \in Seq(S) /\ IsInjective(RemoveFirst(s, e))
         /\ ToSet(RemoveFirst(s, e)) = ToSet(s) \ {e}
<1> DEFINE z == RemoveFirst(s, e)
<1> HIDE DEF z
<1> SUFFICES z \in Seq(S) /\ ToSet(z) = ToSet(s) \ {e} /\ IsInjective(z)
  BY DEF z
<1>1. DOMAIN s = 1..Len(s) /\ Len(s) \in Nat
  BY LenProperties
<1>2. CASE e \notin ToSet(s)
  <2>1. z = s
    BY <1>1, <1>2 DEF z, RemoveFirst, ToSet
  <2> QED
    BY <1>2, <2>1
<1>3. CASE e \in ToSet(s)
  <2>1. PICK k \in 1..Len(s) : s[k] = e
    BY <1>1, <1>3 DEF ToSet
  <2>2. {i \in 1..Len(s) : s[i] = e} = {k}
    BY <1>1, <2>1 DEF IsInjective
  <2>3. Min({k}) = k
    BY <2>1 DEF Min
  <2>4. z = RemoveAt(s, k)
    BY <2>1, <2>2, <2>3 DEF z, RemoveFirst, SelectInSeq
  <2> DEFINE a == SubSeq(s, 1, k - 1)
             b == SubSeq(s, k + 1, Len(s))
  <2>5. /\ a \in Seq(S) /\ Len(a) = k - 1 /\ \A i \in 1..Len(a) : a[i] = s[i]
        /\ b \in Seq(S) /\ Len(b) = Len(s) - k /\ \A i \in 1..Len(b) : b[i] = s[k + i]
        /\ DOMAIN a = 1..Len(a) /\ DOMAIN b = 1..Len(b)
    <3>1. /\ \A i \in 1..(k - 1) : i \in 1..Len(s)
          /\ \A i \in (k + 1)..Len(s) : i \in 1..Len(s)
      BY <1>1
    <3>2. a \in Seq(S) /\ Len(a) = k - 1 /\ \A i \in 1..(k - 1) : a[i] = s[i]
      <4>1. k - 1 \in Int /\ \A i \in 1..(k - 1) : s[i] \in S
        BY <1>1, <3>1, LenProperties
      <4>2. /\ a \in Seq(S) /\ Len(a) = IF 1 <= k - 1 THEN (k - 1) - 1 + 1 ELSE 0
            /\ \A i \in 1..((k - 1) - 1 + 1) : a[i] = s[1 + i - 1]
        BY <4>1, SubSeqProperties, SMTT(30)
      <4> HIDE DEF a
      <4> QED
        BY <1>1, <4>2
    <3>3. b \in Seq(S) /\ Len(b) = Len(s) - k
          /\ \A i \in 1..(Len(s) - k) : b[i] = s[k + i]
      <4>1. k + 1 \in Int /\ Len(s) \in Int
            /\ \A i \in (k + 1)..Len(s) : s[i] \in S
        BY <1>1, <3>1, LenProperties
      <4>2. /\ b \in Seq(S)
            /\ Len(b) = IF k + 1 <= Len(s) THEN Len(s) - (k + 1) + 1 ELSE 0
            /\ \A i \in 1..(Len(s) - (k + 1) + 1) : b[i] = s[(k + 1) + i - 1]
        BY <4>1, SubSeqProperties, SMTT(30)
      <4> HIDE DEF b
      <4>3. Len(s) - (k + 1) + 1 = Len(s) - k
            /\ (~(k + 1 <= Len(s)) => Len(s) - k = 0)
        <5>1. \A n \in Nat : \A m \in 1..n :
                n - (m + 1) + 1 = n - m /\ (~(m + 1 <= n) => n - m = 0)
          OBVIOUS
        <5> QED
          BY <1>1, <5>1
      <4>4. \A i \in 1..(Len(s) - k) : (k + 1) + i - 1 = k + i
        BY <1>1
      <4>5. \A i \in 1..(Len(s) - k) : b[i] = s[k + i]
        BY <4>2, <4>3, <4>4
      <4> QED
        BY <4>2, <4>3, <4>5
    <3> QED
      BY <3>2, <3>3, LenProperties
  <2>6. z = a \o b
    BY <2>4 DEF RemoveAt
  <2> HIDE DEF a, b
  <2>7. IsInjective(a) /\ IsInjective(b) /\ ToSet(a) \cap ToSet(b) = {}
    <3>1. /\ \A i \in DOMAIN a : i \in DOMAIN s /\ i < k
          /\ \A i \in DOMAIN b : k + i \in DOMAIN s /\ k + i > k
      BY <1>1, <2>5
    <3>2. ASSUME NEW i \in DOMAIN b, NEW j \in DOMAIN b, b[i] = b[j] PROVE i = j
      <4>1. k + i = k + j
        BY <2>5, <3>1, <3>2 DEF IsInjective
      <4> QED
        BY <2>5, <4>1
    <3>3. ASSUME NEW i \in DOMAIN a, NEW j \in DOMAIN b, a[i] = b[j] PROVE FALSE
      <4>1. s[i] = s[k + j]
        BY <2>5, <3>3
      <4>2. i = k + j
        BY <3>1, <4>1, Zenon DEF IsInjective
      <4> QED
        BY <2>5, <3>1, <4>2
    <3> QED
      BY <2>5, <3>1, <3>2, <3>3 DEF IsInjective, ToSet
  <2>8. ToSet(a) \cup ToSet(b) = ToSet(s) \ {e}
    <3>1. ToSet(a) \cup ToSet(b) \subseteq ToSet(s) \ {e}
      <4>1. /\ \A i \in DOMAIN a : i \in DOMAIN s /\ i # k
            /\ \A i \in DOMAIN b : k + i \in DOMAIN s /\ k + i # k
        BY <1>1, <2>5
      <4>2. \A i \in DOMAIN s : i # k => s[i] # e /\ s[i] \in ToSet(s)
        BY <1>1, <2>1 DEF IsInjective, ToSet
      <4>3. \A i \in DOMAIN a : a[i] \in ToSet(s) \ {e}
        BY <2>5, <4>1, <4>2
      <4>4. \A i \in DOMAIN b : b[i] \in ToSet(s) \ {e}
        BY <2>5, <4>1, <4>2
      <4> QED
        BY <4>3, <4>4 DEF ToSet
    <3>2. ASSUME NEW i \in DOMAIN s, s[i] # e PROVE s[i] \in ToSet(a) \cup ToSet(b)
      <4>1. CASE i < k
        <5>1. i \in DOMAIN a
          BY <1>1, <2>5, <4>1
        <5> QED
          BY <2>5, <5>1 DEF ToSet
      <4>2. CASE i > k
        <5>1. i - k \in DOMAIN b /\ k + (i - k) = i
          BY <1>1, <2>5, <4>2
        <5> QED
          BY <2>5, <5>1 DEF ToSet
      <4> QED
        BY <1>1, <2>1, <3>2, <4>1, <4>2
    <3> QED
      BY <3>1, <3>2 DEF ToSet
  <2>9. z \in Seq(S) /\ ToSet(z) = ToSet(a) \cup ToSet(b) /\ IsInjective(z)
    <3>1. a \in Seq(S) /\ b \in Seq(S)
      BY <2>5
    <3>2. /\ a \o b \in Seq(S) /\ ToSet(a \o b) = ToSet(a) \cup ToSet(b)
          /\ IsInjective(a \o b)
      BY <2>7, <3>1, ConcatIs
    <3> QED
      BY <2>6, <3>2
  <2> QED
    BY <2>8, <2>9
<1> QED
  BY <1>2, <1>3

LEMMA SeqGrows ==
  ASSUME NEW S, NEW T, S \subseteq T, NEW s \in Seq(S)
  PROVE  s \in Seq(T)
OBVIOUS

LEMMA ContainsIs ==
  ASSUME NEW S, NEW s \in Seq(S), NEW e
  PROVE  Contains(s, e) <=> e \in ToSet(s)
<1>1. DOMAIN s = 1..Len(s)
  BY LenProperties
<1> QED
  BY <1>1 DEF Contains, ToSet

-----------------------------------------------------------------------------
(* The invariant.                                                          *)

ReaderRec(n) == [result : {"none", "waiting", "done", "timeout", "cancelled"},
                 msg : 1..n \cup {None}, registered : BOOLEAN,
                 attached : BOOLEAN, timer : BOOLEAN]

\* A reader in readers_ was given no message; one that was given a message is told
\* so, and nothing changes its result any more.  A reader never outlives its
\* mailbox unless it was detached.
Readers ==
  /\ IsInjective(readers)
  /\ readers # <<>> => alive /\ ~closed /\ queue = <<>>
  /\ \A t \in blocked : t \in ToSet(readers) /\ rd[t].result = "waiting"
  /\ cur # None => rd[cur] = NoReader
  /\ \A t \in ToSet(readers) :
       rd[t].registered /\ rd[t].attached /\ rd[t].msg = None
  /\ \A t \in Tasks :
       /\ rd[t].msg # None => rd[t].result = "done"
       /\ rd[t] # NoReader => (rd[t].attached <=> alive)

\* The places of the messages: queued, held by a reader, received, discarded.
Placed(n, q, h, g, d) ==
  /\ 1..n = q \cup h \cup g \cup d
  /\ q \cap h = {} /\ q \cap g = {} /\ q \cap d = {}
  /\ h \cap g = {} /\ h \cap d = {} /\ g \cap d = {}

HeldOnce == \A t, u \in Tasks : t # u => rd[t].msg = None \/ rd[t].msg # rd[u].msg

Messages ==
  /\ Placed(sent, ToSet(queue), Held, got, gone) /\ HeldOnce
  /\ \A i, j \in 1..Len(queue) : i < j => queue[i] < queue[j]
  /\ \A m \in Held \cup got, q \in ToSet(queue) : m < q

IInv == TypeOK /\ RQP!OnePlace /\ Readers /\ Messages

\* A reader completes; it is detached.
LEMMA CompletedIs ==
  ASSUME NEW n, NEW x \in ReaderRec(n), NEW r \in {"done", "timeout", "cancelled"}
  PROVE  /\ [x EXCEPT !.result = r] \in ReaderRec(n)
         /\ [x EXCEPT !.result = r].result = r
         /\ [x EXCEPT !.result = r].msg = x.msg
         /\ [x EXCEPT !.result = r].registered = x.registered
         /\ [x EXCEPT !.result = r].attached = x.attached
BY DEF ReaderRec

LEMMA DetachedIs ==
  ASSUME NEW n, NEW x \in ReaderRec(n)
  PROVE  /\ [x EXCEPT !.attached = FALSE, !.registered = FALSE] \in ReaderRec(n)
         /\ [x EXCEPT !.attached = FALSE, !.registered = FALSE].msg = x.msg
         /\ ~[x EXCEPT !.attached = FALSE, !.registered = FALSE].attached
BY DEF ReaderRec

LEMMA NoReaderIs ==
  ASSUME NEW n \in Nat
  PROVE  /\ NoReader \in ReaderRec(n) /\ NoReader.msg = None
         /\ NoReader.result = "none" /\ ~NoReader.registered /\ ~NoReader.attached
         /\ \A x \in ReaderRec(n), k \in Nat : n <= k => x \in ReaderRec(k)
<1>1. NoReader \in ReaderRec(n) /\ NoReader.msg = None
      /\ NoReader.result = "none" /\ ~NoReader.registered /\ ~NoReader.attached
  BY DEF NoReader, ReaderRec
<1>2. ASSUME NEW k \in Nat, n <= k, NEW x \in ReaderRec(n) PROVE x \in ReaderRec(k)
  <2>1. 1..n \subseteq 1..k
    BY <1>2
  <2> QED
    BY <2>1 DEF ReaderRec
<1> QED
  BY <1>1, <1>2

\* The parts of TypeOK.
LEMMA Types ==
  ASSUME TypeOK
  PROVE  /\ queue \in Seq(1..sent) /\ readers \in Seq(Tasks) /\ runq \in Seq(Tasks)
         /\ sent \in Nat /\ sent <= MaxSent /\ rd \in [Tasks -> ReaderRec(sent)]
         /\ {closed, alive, polling} \subseteq BOOLEAN
         /\ cur \in Tasks \cup {None} /\ blocked \subseteq Tasks
         /\ ToSet(readers) \subseteq Tasks /\ ToSet(queue) \subseteq 1..sent
         /\ None \notin Tasks /\ None \notin Nat
<1>1. /\ queue \in Seq(1..sent) /\ readers \in Seq(Tasks) /\ sent \in 0..MaxSent
  BY DEF TypeOK
<1>2. ToSet(readers) \subseteq Tasks /\ ToSet(queue) \subseteq 1..sent
  BY <1>1, LenProperties DEF ToSet
<1> QED
  BY <1>1, <1>2, MboxAssumption DEF TypeOK, ReaderRec

LEMMA TypesBack ==
  ASSUME Messages', (queue \in Seq(1..sent))',
         (Capacity > 0 => Len(queue) <= Capacity)', (readers \in Seq(Tasks))',
         (sent \in 0..MaxSent)', (rd \in [Tasks -> ReaderRec(sent)])',
         ({closed, alive, polling} \subseteq BOOLEAN)', RQP!OnePlace'
  PROVE  TypeOK'
<1>1. (got \subseteq 1..sent /\ gone \subseteq 1..sent)'
  BY DEF Messages, Placed
<1> QED
  BY <1>1 DEF TypeOK, ReaderRec, RQP!OnePlace

-----------------------------------------------------------------------------
(* The messages.                                                           *)

\* No message moves.
LEMMA MessagesStay ==
  ASSUME Messages, UNCHANGED <<sent, queue, got, gone>>,
         \A t \in Tasks : rd'[t].msg = rd[t].msg
  PROVE  Messages'
<1>1. Held' = Held /\ HeldOnce'
  BY DEF Held, Messages, HeldOnce
<1> QED
  BY <1>1 DEF Messages, Placed

\* The queue is emptied.
LEMMA MessagesDropped ==
  ASSUME Messages, queue' = <<>>, gone' = gone \cup ToSet(queue),
         UNCHANGED <<sent, got>>, \A t \in Tasks : rd'[t].msg = rd[t].msg
  PROVE  Messages'
<1>1. Held' = Held /\ HeldOnce'
  BY DEF Held, Messages, HeldOnce
<1>2. ToSet(<<>>) = {} /\ Len(<<>>) = 0
  BY EmptySeq DEF ToSet
<1>3. Placed(sent, ToSet(queue), Held, got, gone)'
  BY <1>1, <1>2 DEF Messages, Placed
<1>4. (\A i, j \in 1..Len(queue) : i < j => queue[i] < queue[j])'
  BY <1>2
<1> QED
  BY <1>1, <1>2, <1>3, <1>4 DEF Messages

\* The oldest message leaves the queue: it is less than all others.
LEMMA OldestIs ==
  ASSUME TypeOK, Messages, queue # <<>>
  PROVE  /\ Tail(queue) \in Seq(1..sent) /\ Len(Tail(queue)) = Len(queue) - 1
         /\ Len(queue) \in Nat \ {0}
         /\ ToSet(queue) = ToSet(Tail(queue)) \cup {Head(queue)}
         /\ Head(queue) \notin ToSet(Tail(queue)) /\ Head(queue) \in 1..sent
         /\ \A q \in ToSet(Tail(queue)) : Head(queue) < q
         /\ \A i, j \in 1..Len(Tail(queue)) : i < j => Tail(queue)[i] < Tail(queue)[j]
<1> DEFINE z == Tail(queue)
<1>1. /\ z \in Seq(1..sent) /\ Head(queue) \in 1..sent /\ Len(z) = Len(queue) - 1
      /\ Head(queue) = queue[1] /\ Len(queue) \in Nat \ {0}
      /\ \A i \in 1..Len(z) : z[i] = queue[i + 1]
      /\ ToSet(queue) = ToSet(z) \cup {Head(queue)}
  <2>1. queue \in Seq(1..sent)
    BY Types
  <2>2. z \in Seq(1..sent) /\ Head(queue) \in 1..sent /\ Len(z) = Len(queue) - 1
    BY <2>1, TailIs
  <2>3. Head(queue) = queue[1] /\ Len(queue) \in Nat \ {0}
    BY <2>1, TailIs
  <2>4. \A i \in 1..Len(z) : z[i] = queue[i + 1]
    BY <2>1, TailIs
  <2>5. ToSet(queue) = ToSet(z) \cup {Head(queue)}
    BY <2>1, TailIs
  <2> HIDE DEF z
  <2> QED
    BY <2>2, <2>3, <2>4, <2>5
<1> HIDE DEF z
<1>2. \A i \in 1..Len(z) : i + 1 \in 1..Len(queue) /\ 1 < i + 1 /\ 1 \in 1..Len(queue)
  BY <1>1
<1>3. \A i \in 1..Len(z) : Head(queue) < z[i]
  BY <1>1, <1>2 DEF Messages
<1>4. DOMAIN z = 1..Len(z)
  BY <1>1, LenProperties
<1>5. \A q \in ToSet(z) : Head(queue) < q
  BY <1>3, <1>4 DEF ToSet
<1>6. Head(queue) \notin ToSet(z)
  BY <1>1, <1>5
<1>7. ASSUME NEW i \in 1..Len(z), NEW j \in 1..Len(z), i < j PROVE z[i] < z[j]
  <2>1. i + 1 \in 1..Len(queue) /\ j + 1 \in 1..Len(queue) /\ i + 1 < j + 1
    BY <1>1, <1>7
  <2> QED
    BY <1>1, <2>1 DEF Messages
<1> QED
  BY <1>1, <1>5, <1>6, <1>7 DEF z

\* The oldest message is received.
LEMMA MessagesTaken ==
  ASSUME TypeOK, Messages, queue # <<>>, queue' = Tail(queue),
         got' = got \cup {Head(queue)}, UNCHANGED <<sent, gone>>,
         \A t \in Tasks : rd'[t].msg = rd[t].msg
  PROVE  Messages'
<1>1. Held' = Held /\ HeldOnce'
  BY DEF Held, Messages, HeldOnce
<1>2. /\ ToSet(queue) = ToSet(queue') \cup {Head(queue)}
      /\ Head(queue) \notin ToSet(queue')
      /\ \A q \in ToSet(queue') : Head(queue) < q
      /\ \A i, j \in 1..Len(queue') : i < j => queue'[i] < queue'[j]
  BY OldestIs
<1>3. Placed(sent, ToSet(queue), Held, got, gone)'
  BY <1>1, <1>2 DEF Messages, Placed
<1>4. \A m \in Held \cup got', q \in ToSet(queue') : m < q
  BY <1>2 DEF Messages
<1> QED
  BY <1>1, <1>2, <1>3, <1>4 DEF Messages

\* A reader that was given a message is gone: received, or discarded.
LEMMA MessagesReturned ==
  ASSUME TypeOK, Messages, NEW t \in Tasks, rd[t].msg # None,
         UNCHANGED <<sent, queue>>, rd'[t].msg = None,
         \A u \in Tasks : u # t => rd'[u].msg = rd[u].msg,
         \/ got' = got \cup {rd[t].msg} /\ gone' = gone
         \/ gone' = gone \cup {rd[t].msg} /\ got' = got
  PROVE  Messages'
<1>1. Held' = Held \ {rd[t].msg} /\ HeldOnce'
  BY DEF Held, Messages, HeldOnce
<1>2. rd[t].msg \in Held
  BY DEF Held
<1>3. Placed(sent, ToSet(queue), Held, got, gone)'
  BY <1>1, <1>2 DEF Messages, Placed
<1> QED
  BY <1>1, <1>2, <1>3 DEF Messages

\* A new message goes to a reader that has none.
LEMMA MessagesGiven ==
  ASSUME TypeOK, Messages, NEW t \in Tasks, rd[t].msg = None, sent' = sent + 1,
         rd'[t].msg = sent', queue = <<>>, UNCHANGED <<queue, got, gone>>,
         \A u \in Tasks : u # t => rd'[u].msg = rd[u].msg
  PROVE  Messages'
<1>1. sent \in Nat /\ Held \subseteq 1..sent /\ 1..(sent + 1) = (1..sent) \cup {sent + 1}
      /\ sent + 1 \notin 1..sent /\ sent + 1 # None /\ rd \in [Tasks -> ReaderRec(sent)]
  BY Types DEF Messages, Placed
<1>2. Held' = Held \cup {sent + 1}
  BY <1>1 DEF Held
<1>3. \A u \in Tasks : rd[u].msg # sent + 1
  BY <1>1 DEF Held
<1>4. HeldOnce'
  BY <1>3 DEF Messages, HeldOnce
<1>5. ToSet(queue) = {} /\ Len(queue) = 0
  BY EmptySeq DEF ToSet
<1>6. Placed(sent, ToSet(queue), Held, got, gone)'
  BY <1>1, <1>2, <1>5 DEF Messages, Placed
<1> QED
  BY <1>4, <1>5, <1>6 DEF Messages

\* A new message goes to the back of the queue.
LEMMA MessagesQueued ==
  ASSUME TypeOK, Messages, sent' = sent + 1, queue' = Append(Room(queue), sent'),
         gone' = gone \cup (ToSet(queue) \ ToSet(queue')), UNCHANGED <<got, rd>>
  PROVE  /\ Messages' /\ queue' \in Seq(1..sent')
         /\ Capacity > 0 => Len(queue') <= Capacity
         /\ \A m \in gone' \ gone : Len(queue) = Capacity /\ m = Head(queue)
<1> DEFINE z == Room(queue)
<1>1. sent \in Nat /\ Capacity \in Nat /\ queue \in Seq(1..sent) /\ Len(queue) \in Nat
      /\ (Capacity > 0 => Len(queue) <= Capacity)
  BY Types, MboxAssumption, LenProperties DEF TypeOK
<1>2. /\ z \in Seq(1..sent) /\ (Capacity > 0 => Len(z) < Capacity)
      /\ ToSet(z) \subseteq ToSet(queue)
      /\ \A i, j \in 1..Len(z) : i < j => z[i] < z[j]
      /\ \A m \in ToSet(queue) \ ToSet(z) : Len(queue) = Capacity /\ m = Head(queue)
  <2>1. CASE Capacity > 0 /\ Len(queue) >= Capacity
    <3>1. queue # <<>> /\ z = Tail(queue)
      BY <1>1, <2>1, EmptySeq DEF Room
    <3> HIDE DEF z
    <3>2. Len(queue) = Capacity
      BY <1>1, <2>1
    <3>3. /\ z \in Seq(1..sent) /\ Len(z) = Len(queue) - 1
          /\ ToSet(queue) = ToSet(z) \cup {Head(queue)}
          /\ \A i, j \in 1..Len(z) : i < j => z[i] < z[j]
      BY <3>1, OldestIs, Zenon
    <3>4. Len(z) < Capacity
      BY <1>1, <3>2, <3>3
    <3> QED
      BY <3>2, <3>3, <3>4
  <2>2. CASE ~(Capacity > 0 /\ Len(queue) >= Capacity)
    <3>1. z = queue
      BY <2>2 DEF Room
    <3> QED
      BY <1>1, <2>2, <3>1 DEF Messages
  <2> QED
    BY <2>1, <2>2
<1> HIDE DEF z
<1>3. z \in Seq(1..(sent + 1)) /\ sent + 1 \in 1..(sent + 1) /\ 1..sent \subseteq 1..(sent + 1)
  <2>1. 1..sent \subseteq 1..(sent + 1)
    BY <1>1
  <2> QED
    BY <1>1, <1>2, <2>1, SeqGrows
<1>4. /\ queue' \in Seq(1..(sent + 1)) /\ Len(queue') = Len(z) + 1
      /\ ToSet(queue') = ToSet(z) \cup {sent + 1} /\ queue'[Len(z) + 1] = sent + 1
      /\ \A i \in 1..Len(z) : queue'[i] = z[i]
  <2>1. PICK S, m : S = 1..(sent + 1) /\ m = sent + 1 /\ z \in Seq(S) /\ m \in S
    BY <1>3
  <2>2. queue' = Append(z, m)
    BY <2>1 DEF z
  <2>3. /\ Append(z, m) \in Seq(S) /\ Len(Append(z, m)) = Len(z) + 1
        /\ ToSet(Append(z, m)) = ToSet(z) \cup {m} /\ Append(z, m)[Len(z) + 1] = m
        /\ \A i \in 1..Len(z) : Append(z, m)[i] = z[i]
    BY <2>1, AppendIs
  <2> QED
    BY <2>1, <2>2, <2>3
<1>5. ToSet(z) \subseteq 1..sent /\ sent + 1 \notin 1..sent /\ Len(z) \in Nat
      /\ \A i \in 1..Len(z) : z[i] \in 1..sent
  BY <1>1, <1>2, LenProperties DEF ToSet
<1>6. \A i, j \in 1..Len(queue') : i < j => queue'[i] < queue'[j]
  <2> SUFFICES ASSUME NEW i \in 1..Len(queue'), NEW j \in 1..Len(queue'), i < j
               PROVE  queue'[i] < queue'[j]
    OBVIOUS
  <2>1. i \in 1..Len(z) /\ queue'[i] = z[i] /\ z[i] \in 1..sent
    BY <1>4, <1>5
  <2>2. CASE j \in 1..Len(z)
    BY <1>2, <1>4, <2>1, <2>2
  <2>3. CASE j = Len(z) + 1
    BY <1>1, <1>4, <2>1, <2>3
  <2> QED
    BY <1>4, <1>5, <2>2, <2>3, SMTT(30)
<1>7. Held' = Held /\ HeldOnce'
  BY DEF Held, Messages, HeldOnce
<1>8. Held \subseteq 1..sent /\ got \subseteq 1..sent /\ gone \subseteq 1..sent
  BY DEF Messages, Placed
<1>9. 1..(sent + 1) = (1..sent) \cup {sent + 1}
  BY <1>1
<1>10. Placed(sent, ToSet(queue), Held, got, gone)'
  BY <1>2, <1>4, <1>5, <1>7, <1>8, <1>9 DEF Messages, Placed
<1>11. \A m \in Held \cup got, q \in ToSet(queue') : m < q
  BY <1>1, <1>2, <1>4, <1>8 DEF Messages
<1>12. Messages'
  BY <1>6, <1>7, <1>10, <1>11 DEF Messages
<1>13. \A m \in gone' \ gone : Len(queue) = Capacity /\ m = Head(queue)
  BY <1>2, <1>4
<1> QED
  BY <1>1, <1>2, <1>4, <1>5, <1>12, <1>13

-----------------------------------------------------------------------------
(* The steps.                                                              *)

\* The waiters of s complete: those that sleep go to the run queue.
LEMMA CompleteIs ==
  ASSUME TypeOK, RQP!OnePlace, NEW s \in Seq(Tasks), NEW r, NEW f, Complete(s, r, f)
  PROVE  /\ RQP!OnePlace' /\ blocked' = blocked \ ToSet(s)
         /\ UNCHANGED <<cur, polling>>
         /\ rd' = [t \in Tasks |-> IF t \in ToSet(s)
                                   THEN [f[t] EXCEPT !.result = r] ELSE f[t]]
<1>1. PICK q \in Sleepers(s) : runq' = runq \o q
  BY DEF Complete
<1>2. /\ ToSet(q) = ToSet(s) \cap blocked /\ IsInjective(q) /\ q \in Seq(Tasks)
  <2>1. PICK m \in 0..Len(s) : q \in [1..m -> ToSet(s) \cap blocked]
    BY DEF Sleepers, SeqOf
  <2>2. ToSet(q) = ToSet(s) \cap blocked /\ IsInjective(q)
    BY DEF Sleepers
  <2>3. m \in Nat /\ ToSet(s) \cap blocked \subseteq Tasks
    BY <2>1, Types, LenProperties
  <2>4. q \in [1..m -> Tasks]
    BY <2>1, <2>3
  <2> QED
    BY <2>2, <2>3, <2>4
<1>3. runq \in Seq(Tasks) /\ ToSet(runq) = RQP!Queue /\ IsInjective(runq)
  BY Types, LenProperties DEF ToSet, RQP!Queue, RQP!OnePlace, IsInjective
<1>4. ToSet(runq) \cap ToSet(q) = {}
  BY <1>2, <1>3 DEF RQP!OnePlace
<1>5. runq' \in Seq(Tasks) /\ ToSet(runq') = ToSet(runq) \cup ToSet(q) /\ IsInjective(runq')
  BY <1>1, <1>2, <1>3, <1>4, ConcatIs
<1>6. /\ RQP!Queue' = ToSet(runq')
      /\ \A i, j \in 1..Len(runq') : runq'[i] = runq'[j] => i = j
  BY <1>5, LenProperties DEF ToSet, RQP!Queue, IsInjective
<1>7. blocked' = blocked \ ToSet(s) /\ UNCHANGED <<cur, polling>>
  BY DEF Complete
<1>8. RQP!OnePlace'
  BY <1>2, <1>3, <1>5, <1>6, <1>7 DEF RQP!OnePlace
<1> QED
  BY <1>7, <1>8 DEF Complete

\* The steps of the queue, those with Complete apart.
LEMMA QueueSteps ==
  ASSUME IInv,
         \/ Finish \/ Resume \/ ReadSuspends \/ UNCHANGED loopVars
         \/ \E t \in Tasks : Start(t) \/ Expire(t)
  PROVE  RQP!OnePlace'
<1> SUFFICES [RQP!Next]_(RQP!vars)
  BY MboxAssumption, RQP!StepPlaces DEF IInv
<1>1. CASE Finish
  BY <1>1 DEF Finish, RQ!Retire, RQP!Retire, RQP!Next
<1>2. CASE Resume
  BY <1>2 DEF Resume, ResumeStart, ResumeRead, RQ!Resume, RQP!Resume, RQP!Next
<1>3. CASE ReadSuspends
  BY <1>3 DEF ReadSuspends, ReadWait, RQ!Block, RQP!Block, RQP!Next
<1>4. ASSUME NEW t \in Tasks, Start(t) PROVE RQP!Admit(t)
  BY <1>4 DEF Start, RQ!Admit, RQP!Admit, RQ!InQueue, RQP!InQueue
<1>5. ASSUME NEW t \in Tasks, Expire(t) PROVE RQP!Wake(t)
  BY <1>5 DEF Expire, RQ!Wake, RQP!Wake
<1>6. CASE UNCHANGED loopVars
  BY <1>6 DEF loopVars, RQP!vars
<1> QED
  BY <1>1, <1>2, <1>3, <1>4, <1>5, <1>6 DEF RQP!Next

\* Nothing happens to the mailbox or to a reader.
LEMMA LoopKeeps ==
  ASSUME IInv, Finish \/ ResumeStart \/ \E t \in Tasks : Start(t)
  PROVE  IInv'
<1>1. UNCHANGED <<mboxVars, rd, historyVars, blocked>> /\ polling' \in BOOLEAN
  BY Types DEF IInv, Finish, ResumeStart, Start, RQ!Retire, RQ!Resume, RQ!Admit
<1>2. RQP!OnePlace'
  BY QueueSteps DEF Resume
<1>3. Messages'
  BY <1>1, MessagesStay DEF IInv, mboxVars, historyVars
<1>4. cur' # None => rd[cur'] = NoReader
  BY DEF IInv, Readers, Finish, ResumeStart, Start, RQ!Retire, RQ!Resume,
         RQ!Admit, Reading
<1>5. Readers'
  BY <1>1, <1>4 DEF IInv, Readers, mboxVars
<1>6. TypeOK'
  BY <1>1, <1>2 DEF IInv, TypeOK, mboxVars, historyVars, RQP!OnePlace
<1> QED
  BY <1>2, <1>3, <1>5, <1>6 DEF IInv

\* A deadline fires.
LEMMA ExpireKeeps ==
  ASSUME IInv, NEW t \in Tasks, Expire(t)
  PROVE  IInv'
<1>1. /\ UNCHANGED <<mboxVars, historyVars, cur>> /\ polling' = TRUE
      /\ t \in blocked /\ blocked' = blocked \ {t} /\ rd[t].result = "waiting"
      /\ rd' = [rd EXCEPT ![t].result = "timeout"] /\ cur = None
  BY DEF Expire, RQ!Wake
<1>2. RQP!OnePlace'
  BY QueueSteps
<1>3. rd \in [Tasks -> ReaderRec(sent)] /\ rd[t] \in ReaderRec(sent)
  BY Types DEF IInv
<1> DEFINE y == [rd[t] EXCEPT !.result = "timeout"]
<1>4. /\ y \in ReaderRec(sent) /\ y.msg = rd[t].msg
      /\ y.registered = rd[t].registered /\ y.attached = rd[t].attached
  BY <1>3, CompletedIs, ZenonT(60)
<1>5. rd' = [rd EXCEPT ![t] = y]
  BY <1>1, <1>3
<1> HIDE DEF y
<1>6. /\ rd' \in [Tasks -> ReaderRec(sent)] /\ rd'[t] = y
      /\ \A u \in Tasks : u # t => rd'[u] = rd[u]
  BY <1>3, <1>4, <1>5
<1>7. Messages'
  BY <1>1, <1>4, <1>6, MessagesStay DEF IInv, mboxVars, historyVars
<1>8. t \in ToSet(readers) /\ rd[t].msg = None /\ rd[t] # NoReader
  BY <1>1, Types DEF IInv, Readers, NoReader
<1>9. ToSet(readers) \subseteq Tasks /\ blocked \subseteq Tasks
  BY Types DEF IInv
<1>10. Readers'
  BY <1>1, <1>4, <1>6, <1>8, <1>9 DEF IInv, Readers, mboxVars
<1>11. TypeOK'
  BY <1>1, <1>2, <1>6, <1>7, TypesBack DEF IInv, TypeOK, mboxVars, historyVars
<1> QED
  BY <1>2, <1>7, <1>10, <1>11 DEF IInv

\* read() that suspends.
LEMMA ReadWaitKeeps ==
  ASSUME IInv, NEW timer \in BOOLEAN, ReadWait(timer)
  PROVE  IInv'
<1> DEFINE y == [result |-> "waiting", msg |-> None, registered |-> TRUE,
                 attached |-> TRUE, timer |-> timer]
<1>1. /\ cur # None /\ alive /\ ~closed /\ queue = <<>> /\ cur \in Tasks
      /\ readers' = Append(readers, cur) /\ rd' = [rd EXCEPT ![cur] = y]
      /\ blocked' = blocked \cup {cur} /\ cur' = None
      /\ UNCHANGED <<polling, queue, closed, alive, historyVars>>
  BY Types DEF IInv, ReadWait, CanCall, RQ!Block
<1>2. RQP!OnePlace'
  BY QueueSteps DEF ReadSuspends
<1>3. y \in ReaderRec(sent) /\ y.result = "waiting" /\ y.msg = None
      /\ y.registered /\ y.attached
  BY DEF ReaderRec
<1> HIDE DEF y
<1>4. /\ rd \in [Tasks -> ReaderRec(sent)] /\ readers \in Seq(Tasks)
      /\ sent \in Nat /\ ToSet(readers) \subseteq Tasks /\ blocked \subseteq Tasks
  BY Types DEF IInv
<1>5. /\ rd' \in [Tasks -> ReaderRec(sent)] /\ rd'[cur] = y
      /\ \A u \in Tasks : u # cur => rd'[u] = rd[u]
  BY <1>1, <1>3, <1>4
<1>6. rd[cur] = NoReader /\ ~NoReader.registered /\ NoReader.msg = None
  BY <1>1, <1>4, NoReaderIs DEF IInv, Readers
<1>7. cur \notin ToSet(readers)
  BY <1>6 DEF IInv, Readers
<1>8. readers' \in Seq(Tasks) /\ ToSet(readers') = ToSet(readers) \cup {cur}
      /\ IsInjective(readers')
  BY <1>1, <1>4, <1>7, AppendIs DEF IInv, Readers
<1>9. Messages'
  BY <1>1, <1>3, <1>5, <1>6, MessagesStay DEF IInv, historyVars
<1>10. Readers'
  BY <1>1, <1>3, <1>4, <1>5, <1>8 DEF IInv, Readers
<1>11. TypeOK'
  BY <1>1, <1>2, <1>5, <1>8, <1>9, TypesBack DEF IInv, TypeOK, historyVars
<1> QED
  BY <1>2, <1>9, <1>10, <1>11 DEF IInv

\* send() and emplace() with nobody waiting.
LEMMA SendToQueueKeeps ==
  ASSUME IInv, SendToQueue
  PROVE  /\ IInv'
         /\ \A m \in gone' \ gone : Len(queue) = Capacity /\ m = Head(queue)
<1>1. /\ alive /\ ~closed /\ readers = <<>> /\ sent < MaxSent /\ sent' = sent + 1
      /\ queue' = Append(Room(queue), sent')
      /\ gone' = gone \cup (ToSet(queue) \ ToSet(queue'))
      /\ UNCHANGED <<loopVars, readers, closed, alive, rd, got>>
  BY DEF SendToQueue, CanCall
<1>2. RQP!OnePlace'
  BY <1>1, QueueSteps
<1>3. /\ Messages' /\ queue' \in Seq(1..sent')
      /\ Capacity > 0 => Len(queue') <= Capacity
      /\ \A m \in gone' \ gone : Len(queue) = Capacity /\ m = Head(queue)
  BY <1>1, MessagesQueued DEF IInv
<1>4. Readers'
  BY <1>1 DEF IInv, Readers, loopVars
<1>5. sent \in Nat /\ sent <= MaxSent /\ MaxSent \in Nat
      /\ rd \in [Tasks -> ReaderRec(sent)] /\ readers \in Seq(Tasks)
      /\ {closed, alive, polling} \subseteq BOOLEAN
  BY Types, MboxAssumption DEF IInv
<1>6. sent' \in 0..MaxSent /\ sent' \in Nat /\ sent <= sent'
  BY <1>1, <1>5
<1>7. \A u \in Tasks : rd[u] \in ReaderRec(sent')
  BY <1>5, <1>6, NoReaderIs
<1>8. rd' \in [Tasks -> ReaderRec(sent')]
  BY <1>1, <1>5, <1>7
<1>9. TypeOK'
  BY <1>1, <1>2, <1>3, <1>5, <1>6, <1>8, TypesBack DEF loopVars
<1> QED
  BY <1>2, <1>3, <1>4, <1>9 DEF IInv

\* read() that finds a message, and clear().
LEMMA QueueShrinks ==
  ASSUME IInv, ReadNow \/ Clear
  PROVE  IInv'
<1>1. /\ queue # <<>> /\ UNCHANGED <<loopVars, readers, closed, alive, rd, sent>>
      /\ \/ /\ queue' = Tail(queue) /\ got' = got \cup {Head(queue)} /\ gone' = gone
         \/ /\ queue' = <<>> /\ gone' = gone \cup ToSet(queue) /\ got' = got
  BY DEF ReadNow, Clear
<1>2. RQP!OnePlace'
  BY <1>1, QueueSteps
<1>3. Messages'
  BY <1>1, MessagesTaken, MessagesDropped DEF IInv
<1>4. queue' \in Seq(1..sent) /\ (Capacity > 0 => Len(queue') <= Capacity)
  <2>1. CASE queue' = Tail(queue)
    <3>1. /\ Tail(queue) \in Seq(1..sent) /\ Len(Tail(queue)) = Len(queue) - 1
          /\ Len(queue) \in Nat
      BY <1>1, OldestIs DEF IInv
    <3>2. Capacity > 0 => Len(queue) <= Capacity
      BY DEF IInv, TypeOK
    <3> QED
      BY <2>1, <3>1, <3>2, MboxAssumption
  <2>2. CASE queue' = <<>>
    BY <2>2, EmptySeq, MboxAssumption
  <2> QED
    BY <1>1, <2>1, <2>2
<1>5. Readers'
  BY <1>1 DEF IInv, Readers, loopVars
<1>6. TypeOK'
  BY <1>1, <1>2, <1>3, <1>4, Types, TypesBack DEF IInv, TypeOK, loopVars
<1> QED
  BY <1>2, <1>3, <1>5, <1>6 DEF IInv

\* send() and emplace() to the reader that waits longest.
LEMMA SendToReaderKeeps ==
  ASSUME IInv, SendToReader
  PROVE  /\ IInv' /\ Head(readers) \in Tasks /\ rd'[Head(readers)].msg = sent'
         /\ \A u \in Tasks : u # Head(readers) => rd'[u] = rd[u]
<1> DEFINE h == Head(readers)
           f == [rd EXCEPT ![h].msg = sent', ![h].registered = FALSE]
           y == [[rd[h] EXCEPT !.msg = sent + 1, !.registered = FALSE]
                   EXCEPT !.result = "done"]
<1>1. /\ alive /\ ~closed /\ sent < MaxSent /\ readers # <<>>
      /\ readers' = Tail(readers) /\ sent' = sent + 1 /\ Complete(<<h>>, "done", f)
      /\ UNCHANGED <<queue, closed, alive, got, gone>>
  BY DEF SendToReader, CanCall
<1>2. /\ readers' \in Seq(Tasks) /\ h \in Tasks /\ ToSet(readers) = ToSet(readers') \cup {h}
      /\ h \notin ToSet(readers') /\ IsInjective(readers')
  <2>1. readers \in Seq(Tasks) /\ IsInjective(readers)
    BY Types DEF IInv, Readers
  <2> QED
    BY <1>1, <2>1, TailIs
<1>3. /\ sent \in Nat /\ sent + 1 \in Nat /\ sent <= sent + 1 /\ sent' \in 0..MaxSent
      /\ rd \in [Tasks -> ReaderRec(sent)] /\ {closed, alive, polling} \subseteq BOOLEAN
  BY <1>1, Types, MboxAssumption DEF IInv
<1>4. \A u \in Tasks : rd[u] \in ReaderRec(sent + 1)
  BY <1>3, NoReaderIs
<1>5. /\ y \in ReaderRec(sent + 1) /\ y.msg = sent + 1 /\ y.attached = rd[h].attached
      /\ y.result = "done"
  <2> DEFINE x == [rd[h] EXCEPT !.msg = sent + 1, !.registered = FALSE]
  <2>1. sent + 1 \in 1..(sent + 1)
    BY <1>3
  <2>2. x \in ReaderRec(sent + 1) /\ x.msg = sent + 1 /\ x.attached = rd[h].attached
    <3>1. PICK w, n : w = rd[h] /\ n = sent + 1 /\ w \in ReaderRec(n) /\ n \in 1..n
      BY <1>2, <1>4, <2>1
    <3>2. /\ [w EXCEPT !.msg = n, !.registered = FALSE] \in ReaderRec(n)
          /\ [w EXCEPT !.msg = n, !.registered = FALSE].msg = n
          /\ [w EXCEPT !.msg = n, !.registered = FALSE].attached = w.attached
      <4>1. \A k \in 1..n : [w EXCEPT !.msg = k, !.registered = FALSE] \in ReaderRec(n)
        BY <3>1 DEF ReaderRec
      <4>2. [w EXCEPT !.msg = n, !.registered = FALSE].msg = n
        BY <3>1 DEF ReaderRec
      <4>3. [w EXCEPT !.msg = n, !.registered = FALSE].attached = w.attached
        BY <3>1 DEF ReaderRec
      <4> QED
        BY <3>1, <4>1, <4>2, <4>3
    <3>3. x = [w EXCEPT !.msg = n, !.registered = FALSE]
      BY <3>1
    <3> HIDE DEF x, h
    <3> QED
      BY <3>1, <3>2, <3>3
  <2> HIDE DEF x
  <2>3. /\ [x EXCEPT !.result = "done"] \in ReaderRec(sent + 1)
        /\ [x EXCEPT !.result = "done"].msg = x.msg
        /\ [x EXCEPT !.result = "done"].attached = x.attached
        /\ [x EXCEPT !.result = "done"].result = "done"
    BY <2>2, CompletedIs
  <2> QED
    BY <2>2, <2>3 DEF x
<1>6. ToSet(<<h>>) = {h} /\ <<h>> \in Seq(Tasks)
  BY <1>2 DEF ToSet
<1>7. /\ RQP!OnePlace' /\ blocked' = blocked \ {h} /\ UNCHANGED <<cur, polling>>
      /\ rd' = [t \in Tasks |-> IF t \in {h} THEN [f[t] EXCEPT !.result = "done"]
                                             ELSE f[t]]
  <2> HIDE DEF h, f
  <2>1. PICK s, g : s = <<h>> /\ g = f /\ Complete(s, "done", g)
    BY <1>1
  <2>2. s \in Seq(Tasks) /\ ToSet(s) = {h}
    BY <1>6, <2>1
  <2>3. TypeOK /\ RQP!OnePlace /\ Complete(s, "done", g)
    BY <2>1 DEF IInv
  <2>4. /\ RQP!OnePlace' /\ blocked' = blocked \ ToSet(s) /\ UNCHANGED <<cur, polling>>
        /\ rd' = [t \in Tasks |-> IF t \in ToSet(s)
                                  THEN [g[t] EXCEPT !.result = "done"] ELSE g[t]]
    <3>1. RQP!OnePlace'
      BY <2>2, <2>3, CompleteIs
    <3>2. blocked' = blocked \ ToSet(s) /\ UNCHANGED <<cur, polling>>
      BY <2>3 DEF Complete
    <3>3. rd' = [t \in Tasks |-> IF t \in ToSet(s)
                                THEN [g[t] EXCEPT !.result = "done"] ELSE g[t]]
      BY <2>3 DEF Complete
    <3> QED
      BY <3>1, <3>2, <3>3
  <2> QED
    BY <2>1, <2>2, <2>4
<1>8. rd'[h] = y /\ \A u \in Tasks : u # h => rd'[u] = rd[u]
  <2>1. f[h] = [rd[h] EXCEPT !.msg = sent + 1, !.registered = FALSE]
    BY <1>1, <1>2, <1>3
  <2>2. \A u \in Tasks : u # h => f[u] = rd[u]
    BY <1>3
  <2> HIDE DEF f
  <2> QED
    BY <1>2, <1>7, <2>1, <2>2
<1>9. rd' \in [Tasks -> ReaderRec(sent')]
  <2>1. \A u \in Tasks : rd'[u] \in ReaderRec(sent')
    <3> HIDE DEF y
    <3> QED
      BY <1>1, <1>4, <1>5, <1>8
  <2>2. rd' = [u \in Tasks |-> rd'[u]]
    BY <1>7
  <2> QED
    BY <2>1, <2>2
<1> HIDE DEF y, f, h
<1>10. rd[h].msg = None /\ rd[h].registered /\ rd[h].attached /\ queue = <<>>
  BY <1>1, <1>2 DEF IInv, Readers
<1>11. Messages'
  <2>1. rd'[h].msg = sent'
    BY <1>1, <1>5, <1>8
  <2> QED
    BY <1>1, <1>2, <1>8, <1>10, <2>1, MessagesGiven DEF IInv
<1>12. rd[h] # NoReader
  BY <1>3, <1>10, NoReaderIs
<1>13. Readers'
  <2>1. ToSet(readers) \subseteq Tasks /\ blocked \subseteq Tasks
        /\ cur \in Tasks \cup {None}
    BY Types DEF IInv
  <2>2. \A t \in blocked' : t \in ToSet(readers') /\ rd'[t].result = "waiting"
    BY <1>2, <1>7, <1>8, <2>1 DEF IInv, Readers
  <2>3. cur' # None => rd'[cur'] = NoReader
    BY <1>7, <1>8, <1>12, <2>1 DEF IInv, Readers
  <2>4. \A t \in ToSet(readers') :
          rd'[t].registered /\ rd'[t].attached /\ rd'[t].msg = None
    BY <1>2, <1>8, <2>1 DEF IInv, Readers
  <2>5. \A t \in Tasks : /\ rd'[t].msg # None => rd'[t].result = "done"
                         /\ rd'[t] # NoReader => (rd'[t].attached <=> alive)
    BY <1>5, <1>8, <1>12 DEF IInv, Readers
  <2> QED
    BY <1>1, <1>2, <2>2, <2>3, <2>4, <2>5 DEF IInv, Readers
<1>14. TypeOK'
  <2>1. queue' \in Seq(1..sent')
    BY <1>1, <1>10, EmptySeq
  <2> QED
    BY <1>1, <1>2, <1>3, <1>7, <1>9, <1>11, <2>1, TypesBack DEF IInv, TypeOK
<1> QED
  BY <1>1, <1>2, <1>5, <1>7, <1>8, <1>11, <1>13, <1>14 DEF IInv, h

\* close() and the destructor.
LEMMA CloseKeeps ==
  ASSUME IInv, "destroy_busy" \notin Allow, Close \/ Destroy
  PROVE  IInv' /\ \A t \in Tasks : rd'[t].msg = rd[t].msg
<1> DEFINE f == [t \in Tasks |-> IF Contains(readers, t)
                                 THEN [rd[t] EXCEPT !.attached = FALSE,
                                                    !.registered = FALSE]
                                 ELSE rd[t]]
<1>1. /\ readers' = <<>> /\ queue' = <<>> /\ gone' = gone \cup ToSet(queue)
      /\ UNCHANGED <<sent, got>>
      /\ \/ /\ closed' = TRUE /\ alive' = alive /\ Complete(readers, "cancelled", rd)
         \/ /\ alive' = FALSE /\ closed' = closed /\ Complete(readers, "cancelled", f)
            /\ \A t \in Tasks : rd[t] # NoReader => Contains(readers, t)
  BY DEF Close, Destroy, Reading
<1>2. /\ readers \in Seq(Tasks) /\ ToSet(readers) \subseteq Tasks /\ sent \in 0..MaxSent
      /\ rd \in [Tasks -> ReaderRec(sent)] /\ {closed, alive, polling} \subseteq BOOLEAN
      /\ blocked \subseteq Tasks /\ cur \in Tasks \cup {None} /\ sent \in Nat
  BY Types DEF IInv, TypeOK
<1>3. \A t \in Tasks : Contains(readers, t) <=> t \in ToSet(readers)
  BY <1>2, ContainsIs
<1>4. PICK g : /\ Complete(readers, "cancelled", g)
               /\ g \in [Tasks -> ReaderRec(sent)]
               /\ \A t \in Tasks : t \notin ToSet(readers) => g[t] = rd[t]
               /\ \A t \in Tasks : g[t].msg = rd[t].msg
               /\ \/ alive' = alive /\ g = rd
                  \/ /\ ~alive'
                     /\ \A t \in ToSet(readers) : ~g[t].attached
                     /\ \A t \in Tasks : rd[t] # NoReader => t \in ToSet(readers)
  <2>1. CASE alive' = alive /\ Complete(readers, "cancelled", rd)
    BY <1>2, <2>1
  <2>2. CASE /\ alive' = FALSE /\ Complete(readers, "cancelled", f)
             /\ \A t \in Tasks : rd[t] # NoReader => Contains(readers, t)
    <3>1. ASSUME NEW t \in Tasks
          PROVE  /\ f[t] \in ReaderRec(sent) /\ f[t].msg = rd[t].msg
                 /\ t \in ToSet(readers) => ~f[t].attached
                 /\ t \notin ToSet(readers) => f[t] = rd[t]
      <4>1. CASE t \in ToSet(readers)
        <5>1. f[t] = [rd[t] EXCEPT !.attached = FALSE, !.registered = FALSE]
          BY <1>3, <4>1
        <5> HIDE DEF f
        <5>2. PICK w : w = rd[t] /\ w \in ReaderRec(sent)
          BY <1>2
        <5> DEFINE z == [w EXCEPT !.attached = FALSE, !.registered = FALSE]
        <5>3. z \in ReaderRec(sent) /\ z.msg = w.msg /\ ~z.attached
          BY <5>2, DetachedIs, Zenon
        <5>4. f[t] = z
          BY <5>1, <5>2
        <5> HIDE DEF z
        <5> QED
          BY <4>1, <5>2, <5>3, <5>4
      <4>2. CASE t \notin ToSet(readers)
        <5>1. f[t] = rd[t]
          BY <1>3, <4>2
        <5> HIDE DEF f
        <5> QED
          BY <1>2, <4>2, <5>1
      <4> QED
        BY <4>1, <4>2
    <3>2. f \in [Tasks -> ReaderRec(sent)]
      <4>1. f = [t \in Tasks |-> f[t]]
        OBVIOUS
      <4> HIDE DEF f
      <4> QED
        BY <3>1, <4>1
    <3> HIDE DEF f
    <3> QED
      BY <1>2, <1>3, <2>2, <3>1, <3>2
  <2> QED
    BY <1>1, <2>1, <2>2
<1> HIDE DEF f
<1>5. /\ RQP!OnePlace' /\ blocked' = blocked \ ToSet(readers)
      /\ UNCHANGED <<cur, polling>>
      /\ rd' = [t \in Tasks |-> IF t \in ToSet(readers)
                                THEN [g[t] EXCEPT !.result = "cancelled"] ELSE g[t]]
  BY <1>2, <1>4, CompleteIs DEF IInv
<1>6. ASSUME NEW t \in Tasks
      PROVE  /\ rd'[t] \in ReaderRec(sent) /\ rd'[t].msg = rd[t].msg
             /\ rd'[t].attached = g[t].attached
             /\ t \notin ToSet(readers) => rd'[t] = rd[t]
  <2>1. CASE t \in ToSet(readers)
    <3>1. PICK w : w = g[t] /\ w \in ReaderRec(sent)
      BY <1>4
    <3> DEFINE z == [w EXCEPT !.result = "cancelled"]
    <3>2. z \in ReaderRec(sent) /\ z.msg = w.msg /\ z.attached = w.attached
      BY <3>1, CompletedIs, ZenonT(60)
    <3>3. rd'[t] = z
      BY <1>5, <2>1, <3>1
    <3> HIDE DEF z
    <3> QED
      BY <1>4, <2>1, <3>1, <3>2, <3>3
  <2>2. CASE t \notin ToSet(readers)
    <3>1. rd'[t] = g[t]
      BY <1>5, <2>2
    <3> QED
      BY <1>2, <1>4, <2>2, <3>1
  <2> QED
    BY <2>1, <2>2
<1>7. Messages'
  BY <1>1, <1>6, MessagesDropped DEF IInv
<1>8. rd' \in [Tasks -> ReaderRec(sent)]
  <2>1. rd' = [t \in Tasks |-> rd'[t]]
    BY <1>5
  <2> QED
    BY <1>6, <2>1
<1>9. blocked' = {} /\ ToSet(<<>>) = {} /\ <<>> \in Seq(Tasks)
      /\ <<>> \in Seq(1..sent) /\ Len(<<>>) = 0
  BY <1>5, EmptySeq DEF IInv, Readers, ToSet
<1>10. Readers'
  <2>1. IsInjective(<<>>)
    BY DEF IsInjective
  <2>2. cur' # None => rd'[cur'] = NoReader
    <3>1. cur # None => cur \notin ToSet(readers)
      BY <1>2, NoReaderIs DEF IInv, Readers
    <3> QED
      BY <1>2, <1>5, <1>6, <3>1 DEF IInv, Readers
  <2>3. ASSUME NEW t \in Tasks
        PROVE  /\ rd'[t].msg # None => rd'[t].result = "done"
               /\ rd'[t] # NoReader => (rd'[t].attached <=> alive')
    <3>1. CASE t \in ToSet(readers)
      <4>1. rd[t].msg = None /\ rd[t] # NoReader
        BY <1>2, <3>1, NoReaderIs DEF IInv, Readers
      <4> QED
        BY <1>2, <1>4, <1>6, <3>1, <4>1 DEF IInv, Readers
    <3>2. CASE t \notin ToSet(readers)
      BY <1>4, <1>6, <3>2 DEF IInv, Readers
    <3> QED
      BY <3>1, <3>2
  <2> QED
    BY <1>1, <1>9, <2>1, <2>2, <2>3 DEF Readers
<1>11. TypeOK'
  <2>1. {closed', alive', polling'} \subseteq BOOLEAN
    BY <1>1, <1>2, <1>5
  <2> QED
    BY <1>1, <1>2, <1>5, <1>7, <1>8, <1>9, <2>1, MboxAssumption, TypesBack
<1> QED
  BY <1>5, <1>6, <1>7, <1>10, <1>11 DEF IInv

\* What await_resume takes out of the queue and the reader, and where it goes.
LEMMA ResumeReadIs ==
  ASSUME IInv, ResumeRead, NEW t, t = Head(runq)
  PROVE  /\ t \in Tasks /\ t \notin blocked /\ rd[t] # NoReader
         /\ cur' = t /\ UNCHANGED <<blocked, closed, alive, sent>> /\ polling' = FALSE
         /\ rd' = [rd EXCEPT ![t] = NoReader] /\ readers' = Unregister(readers, t)
         /\ \/ rd[t].msg = None /\ UNCHANGED <<queue, got, gone>>
            \/ /\ rd[t].msg = None /\ queue # <<>> /\ alive /\ ~closed /\ UNCHANGED gone
               /\ queue' = Tail(queue) /\ got' = got \cup {Head(queue)}
            \/ /\ rd[t].msg # None /\ alive /\ ~closed /\ UNCHANGED <<queue, gone>>
               /\ got' = got \cup {rd[t].msg}
            \/ /\ rd[t].msg # None /\ (closed \/ ~alive) /\ UNCHANGED <<queue, got>>
               /\ gone' = gone \cup {rd[t].msg}
<1>1. /\ runq # <<>> /\ cur = None /\ cur' = t /\ blocked' = blocked
      /\ rd[t] # NoReader /\ rd' = [rd EXCEPT ![t] = NoReader] /\ polling' = FALSE
      /\ readers' = Unregister(readers, t) /\ UNCHANGED <<closed, alive, sent>>
  BY DEF ResumeRead, RQ!Resume, Reading
<1>2. runq \in Seq(Tasks) /\ t \in Tasks /\ t \in RQP!Queue
  <2>1. runq \in Seq(Tasks)
    BY Types DEF IInv
  <2>2. t \in Tasks /\ t = runq[1] /\ Len(runq) \in Nat \ {0}
    BY <1>1, <2>1, TailIs
  <2> QED
    BY <2>1, <2>2 DEF RQP!Queue
<1>3. t \notin blocked
  BY <1>2 DEF IInv, RQP!OnePlace
<1>4. /\ rd[t].attached <=> alive
      /\ rd[t].msg # None => rd[t].result = "done"
      /\ closed \in BOOLEAN /\ alive \in BOOLEAN /\ rd[t].attached \in BOOLEAN
  BY <1>1, <1>2, Types DEF IInv, Readers, ReaderRec
<1>5. PICK shut \in BOOLEAN :
        /\ shut <=> (closed \/ ~alive)
        /\ got' = got \cup ({Outcome(t, shut)} \ {None})
        /\ queue' = IF Outcome(t, shut) # None /\ rd[t].msg = None THEN Tail(queue)
                                                                    ELSE queue
        /\ gone' = gone \cup ({rd[t].msg} \ {None, Outcome(t, shut)})
  BY <1>4 DEF ResumeRead
<1> DEFINE m == Outcome(t, shut)
<1>6. queue # <<>> => Head(queue) # None
  BY OldestIs, Types DEF IInv
<1>7. CASE rd[t].msg = None
  <2>1. m = None \/ (m = Head(queue) /\ m # None /\ queue # <<>> /\ ~shut)
    BY <1>6, <1>7 DEF Outcome
  <2> HIDE DEF m
  <2> QED
    BY <1>1, <1>2, <1>3, <1>5, <1>7, <2>1 DEF m
<1>8. CASE rd[t].msg # None
  <2>1. m = IF shut THEN None ELSE rd[t].msg
    BY <1>4, <1>8 DEF Outcome
  <2> HIDE DEF m
  <2> QED
    BY <1>1, <1>2, <1>3, <1>5, <1>8, <2>1 DEF m
<1> QED
  BY <1>7, <1>8

\* await_resume and the destructor of the reader.
LEMMA ResumeReadKeeps ==
  ASSUME IInv, ResumeRead
  PROVE  IInv'
<1>1. PICK t : t = Head(runq)
  OBVIOUS
<1>2. /\ t \in Tasks /\ t \notin blocked /\ rd[t] # NoReader
      /\ cur' = t /\ UNCHANGED <<blocked, closed, alive, sent>> /\ polling' = FALSE
      /\ rd' = [rd EXCEPT ![t] = NoReader] /\ readers' = Unregister(readers, t)
  BY <1>1, ResumeReadIs
<1>3. \/ rd[t].msg = None /\ UNCHANGED <<queue, got, gone>>
      \/ /\ rd[t].msg = None /\ queue # <<>> /\ ~closed /\ UNCHANGED gone
         /\ queue' = Tail(queue) /\ got' = got \cup {Head(queue)}
      \/ /\ rd[t].msg # None /\ ~closed /\ UNCHANGED <<queue, gone>>
         /\ got' = got \cup {rd[t].msg}
      \/ /\ rd[t].msg # None /\ (closed \/ ~alive) /\ UNCHANGED <<queue, got>>
         /\ gone' = gone \cup {rd[t].msg}
  BY <1>1, ResumeReadIs
<1>4. RQP!OnePlace'
  BY QueueSteps DEF Resume
<1>5. /\ rd \in [Tasks -> ReaderRec(sent)] /\ readers \in Seq(Tasks) /\ sent \in Nat
      /\ ToSet(readers) \subseteq Tasks /\ queue \in Seq(1..sent)
      /\ blocked \subseteq Tasks /\ {closed, alive, polling} \subseteq BOOLEAN
  BY Types DEF IInv
<1>6. /\ NoReader \in ReaderRec(sent) /\ NoReader.msg = None
  BY <1>5, NoReaderIs
<1>7. /\ rd' \in [Tasks -> ReaderRec(sent)] /\ rd'[t] = NoReader
      /\ \A u \in Tasks : u # t => rd'[u] = rd[u]
  BY <1>2, <1>5, <1>6
<1>8. rd'[t].msg = None /\ \A u \in Tasks : u # t => rd'[u].msg = rd[u].msg
  BY <1>6, <1>7
<1>9. Messages'
  <2>1. CASE rd[t].msg = None
    <3>1. \A u \in Tasks : rd'[u].msg = rd[u].msg
      BY <1>8, <2>1
    <3> QED
      BY <1>2, <1>3, <2>1, <3>1, MessagesStay, MessagesTaken DEF IInv
  <2>2. CASE rd[t].msg # None
    BY <1>2, <1>3, <1>8, <2>2, MessagesReturned DEF IInv
  <2> QED
    BY <2>1, <2>2
<1>10. /\ readers' \in Seq(Tasks) /\ ToSet(readers') = ToSet(readers) \ {t}
       /\ IsInjective(readers')
  <2>1. CASE rd[t].registered /\ rd[t].attached
    <3>1. readers' = RemoveFirst(readers, t)
      BY <1>2, <2>1 DEF Unregister
    <3> QED
      BY <1>5, <3>1, RemoveFirstIs DEF IInv, Readers
  <2>2. CASE ~(rd[t].registered /\ rd[t].attached)
    BY <1>2, <1>5, <2>2 DEF Unregister, IInv, Readers
  <2> QED
    BY <2>1, <2>2
<1>11. queue' \in Seq(1..sent) /\ (Capacity > 0 => Len(queue') <= Capacity)
       /\ (queue = <<>> => queue' = <<>>)
  <2>1. Capacity > 0 => Len(queue) <= Capacity
    BY DEF IInv, TypeOK
  <2>2. CASE queue' = queue
    BY <1>5, <2>1, <2>2
  <2>3. CASE queue # <<>> /\ queue' = Tail(queue)
    <3>1. /\ Tail(queue) \in Seq(1..sent) /\ Len(Tail(queue)) = Len(queue) - 1
          /\ Len(queue) \in Nat
      BY <2>3, OldestIs DEF IInv
    <3> QED
      BY <2>1, <2>3, <3>1, MboxAssumption
  <2> QED
    BY <1>3, <2>2, <2>3
<1>12. Readers'
  <2>1. readers' # <<>> => readers # <<>>
    <3>1. readers = <<>> => ToSet(readers') = {}
      BY <1>10, EmptySeq DEF ToSet
    <3>2. ToSet(readers') = {} => readers' = <<>>
      <4>1. readers' # <<>> => Head(readers') \in ToSet(readers')
        <5>1. PICK r : r = readers' /\ r \in Seq(Tasks)
          BY <1>10
        <5>2. r # <<>> => Head(r) \in ToSet(r)
          BY <5>1, TailIs
        <5> QED
          BY <5>1, <5>2
      <4> QED
        BY <4>1
    <3> QED
      BY <3>1, <3>2
  <2>2. readers' # <<>> => alive' /\ ~closed' /\ queue' = <<>>
    BY <1>2, <1>11, <2>1 DEF IInv, Readers
  <2>3. \A u \in blocked' : u \in ToSet(readers') /\ rd'[u].result = "waiting"
    BY <1>2, <1>5, <1>7, <1>10 DEF IInv, Readers
  <2>4. rd'[cur'] = NoReader
    BY <1>2, <1>7
  <2>5. \A u \in ToSet(readers') :
          rd'[u].registered /\ rd'[u].attached /\ rd'[u].msg = None
    BY <1>5, <1>7, <1>10 DEF IInv, Readers
  <2>6. \A u \in Tasks : /\ rd'[u].msg # None => rd'[u].result = "done"
                         /\ rd'[u] # NoReader => (rd'[u].attached <=> alive')
    BY <1>2, <1>6, <1>7 DEF IInv, Readers
  <2> QED
    BY <1>10, <2>2, <2>3, <2>4, <2>5, <2>6 DEF Readers
<1>13. TypeOK'
  <2>1. {closed', alive', polling'} \subseteq BOOLEAN
    BY <1>2, <1>5
  <2>2. sent' \in 0..MaxSent /\ sent' = sent
    BY <1>2 DEF IInv, TypeOK
  <2> QED
    BY <1>4, <1>7, <1>9, <1>10, <1>11, <2>1, <2>2, TypesBack
<1> QED
  BY <1>4, <1>9, <1>12, <1>13 DEF IInv

-----------------------------------------------------------------------------
(* The theorems.                                                           *)

LEMMA InitIInv == Init => IInv
<1> SUFFICES ASSUME Init PROVE IInv
  OBVIOUS
<1>1. /\ runq = <<>> /\ cur = None /\ blocked = {} /\ polling = FALSE /\ queue = <<>>
      /\ readers = <<>> /\ closed = FALSE /\ alive = TRUE /\ sent = 0
      /\ rd = [t \in Tasks |-> NoReader] /\ got = {} /\ gone = {}
  BY DEF Init, RQ!Init
<1>2. /\ NoReader \in ReaderRec(0) /\ NoReader.msg = None /\ ~NoReader.registered
  BY NoReaderIs
<1>3. rd \in [Tasks -> ReaderRec(0)] /\ \A t \in Tasks : rd[t] = NoReader
  BY <1>1, <1>2
<1>4. ToSet(<<>>) = {} /\ Len(<<>>) = 0 /\ IsInjective(<<>>)
  BY EmptySeq DEF ToSet, IsInjective
<1>5. Held = {} /\ HeldOnce
  BY <1>2, <1>3 DEF Held, HeldOnce
<1>6. 1..0 = {}
  OBVIOUS
<1>7. Placed(sent, ToSet(queue), Held, got, gone)
  BY <1>1, <1>4, <1>5, <1>6 DEF Placed
<1>8. Messages
  BY <1>1, <1>4, <1>5, <1>7 DEF Messages
<1>9. Readers
  BY <1>1, <1>2, <1>3, <1>4 DEF Readers
<1>10. TypeOK
  <2>1. rd \in [Tasks -> [result : {"none", "waiting", "done", "timeout", "cancelled"},
                         msg : 1..sent \cup {None}, registered : BOOLEAN,
                         attached : BOOLEAN, timer : BOOLEAN]]
    BY <1>1, <1>3 DEF ReaderRec
  <2>2. sent \in 0..MaxSent /\ (Capacity > 0 => Len(queue) <= Capacity)
    BY <1>1, <1>4, MboxAssumption
  <2>3. runq \in Seq(Tasks) /\ readers \in Seq(Tasks) /\ queue \in Seq(1..sent)
    BY <1>1
  <2> QED
    BY <1>1, <2>1, <2>2, <2>3 DEF TypeOK
<1>11. RQP!OnePlace
  BY <1>1, EmptySeq, MboxAssumption DEF RQP!OnePlace, RQP!Queue
<1> QED
  BY <1>8, <1>9, <1>10, <1>11 DEF IInv

LEMMA NextIInv ==
  ASSUME "destroy_busy" \notin Allow
  PROVE  IInv /\ [Next]_vars => IInv'
<1> SUFFICES ASSUME IInv, [Next]_vars PROVE IInv'
  OBVIOUS
<1>1. CASE Finish \/ ResumeStart \/ \E t \in Tasks : Start(t)
  BY <1>1, LoopKeeps
<1>2. CASE \E t \in Tasks : Expire(t)
  BY <1>2, ExpireKeeps
<1>3. CASE ResumeRead
  BY <1>3, ResumeReadKeeps
<1>4. CASE SendToReader
  BY <1>4, SendToReaderKeeps
<1>5. CASE SendToQueue
  BY <1>5, SendToQueueKeeps
<1>6. CASE ReadNow \/ Clear
  BY <1>6, QueueShrinks
<1>7. CASE ReadSuspends
  BY <1>7, ReadWaitKeeps DEF ReadSuspends
<1>8. CASE Close \/ Destroy
  BY <1>8, CloseKeeps
<1>9. CASE UNCHANGED vars
  BY <1>9 DEF vars, loopVars, mboxVars, historyVars, IInv, TypeOK, Readers, Messages,
              Held, HeldOnce, Placed, RQP!OnePlace, RQP!Queue
<1> QED
  BY <1>1, <1>2, <1>3, <1>4, <1>5, <1>6, <1>7, <1>8, <1>9 DEF Next, Resume

\* Messages leave for a reason.
LEMMA StepDiscards ==
  ASSUME IInv, [Next]_vars
  PROVE  \A m \in gone' \ gone :
           \/ closed' \/ ~alive'
           \/ queue' = <<>> /\ Contains(queue, m)
           \/ Len(queue) = Capacity /\ m = Head(queue)
<1>1. CASE \/ Finish \/ ResumeStart \/ ReadSuspends \/ SendToReader \/ UNCHANGED vars
           \/ \E t \in Tasks : Start(t) \/ Expire(t)
  <2>1. gone' = gone
    BY <1>1 DEF Finish, ResumeStart, ReadSuspends, ReadWait, SendToReader, Start,
                Expire, vars, historyVars
  <2> QED
    BY <2>1
<1>2. CASE SendToQueue
  BY <1>2, SendToQueueKeeps
<1>3. CASE ReadNow
  BY <1>3 DEF ReadNow
<1>4. CASE Clear
  <2>1. queue' = <<>> /\ gone' = gone \cup ToSet(queue)
    BY <1>4 DEF Clear
  <2>2. \A m \in ToSet(queue) : Contains(queue, m)
    BY ContainsIs, Types DEF IInv
  <2> QED
    BY <2>1, <2>2
<1>5. CASE Close \/ Destroy
  BY <1>5 DEF Close, Destroy
<1>6. CASE ResumeRead
  <2>1. PICK t : t = Head(runq)
    OBVIOUS
  <2>2. UNCHANGED <<closed, alive>>
    BY <1>6, <2>1, ResumeReadIs
  <2>3. UNCHANGED gone \/ closed \/ ~alive
    BY <1>6, <2>1, ResumeReadIs
  <2> QED
    BY <2>2, <2>3
<1> QED
  BY <1>1, <1>2, <1>3, <1>4, <1>5, <1>6 DEF Next, Resume

\* Whatever the coroutines send, read, clear and close, and whenever deadlines pass,
\* the invariant holds, if nobody destroys the mailbox under a reader that is about
\* to resume (the precondition ~io_mbox does not check).
THEOREM Inductive ==
  ASSUME "destroy_busy" \notin Allow
  PROVE  Spec => []IInv
<1>1. Init => IInv
  BY InitIInv
<1>2. IInv /\ [Next]_vars => IInv'
  BY NextIInv
<1> QED
  BY <1>1, <1>2, PTL DEF Spec

\* Every variable of the mailbox keeps to its values, and a bounded queue to its
\* bound (max_queue_size_).
THEOREM TypeCorrect ==
  ASSUME "destroy_busy" \notin Allow
  PROVE  Spec => []TypeOK
<1>1. IInv => TypeOK
  BY DEF IInv
<1> QED
  BY <1>1, Inductive, PTL

\* No wakeup is lost: a reader sleeps only while its mailbox is there, open and
\* empty, and while send() and close() find it in readers_.
THEOREM SleepersAreFound ==
  ASSUME "destroy_busy" \notin Allow
  PROVE  Spec => []SleepsOnEmpty
<1>1. IInv => SleepsOnEmpty
  <2> SUFFICES ASSUME IInv, NEW t \in blocked
               PROVE  /\ alive /\ ~closed /\ queue = <<>>
                      /\ Contains(readers, t) /\ rd[t].result = "waiting"
    BY DEF SleepsOnEmpty
  <2>1. t \in ToSet(readers) /\ rd[t].result = "waiting"
    BY DEF IInv, Readers
  <2>2. Contains(readers, t)
    BY <2>1, ContainsIs, Types DEF IInv
  <2>3. readers # <<>>
    BY <2>1, EmptySeq DEF ToSet
  <2> QED
    BY <2>1, <2>2, <2>3 DEF IInv, Readers
<1> QED
  BY <1>1, Inductive, PTL

\* Every message that send() accepted is in one place: queued, handed to one reader,
\* received, or discarded.  None is lost and none is received twice.
THEOREM MessagesAreNotLost ==
  ASSUME "destroy_busy" \notin Allow
  PROVE  Spec => []AcceptedOnce
<1>1. IInv => AcceptedOnce
  <2> SUFFICES ASSUME IInv PROVE AcceptedOnce
    OBVIOUS
  <2>1. Placed(sent, ToSet(queue), Held, got, gone) /\ HeldOnce
    BY DEF IInv, Messages
  <2>2. IsInjective(queue)
    <3>1. /\ DOMAIN queue = 1..Len(queue) /\ Len(queue) \in Nat
          /\ \A i \in 1..Len(queue) : queue[i] \in 1..sent
      BY Types, LenProperties DEF IInv
    <3>2. \A i, j \in 1..Len(queue) : i < j => queue[i] < queue[j]
      BY DEF IInv, Messages
    <3>3. ASSUME NEW i \in 1..Len(queue), NEW j \in 1..Len(queue), queue[i] = queue[j]
          PROVE  i = j
      <4>1. ~(queue[i] < queue[j]) /\ ~(queue[j] < queue[i])
        BY <3>1, <3>3
      <4>2. ~(i < j) /\ ~(j < i)
        BY <3>2, <4>1
      <4> QED
        BY <3>1, <4>2
    <3> QED
      BY <3>1, <3>3 DEF IsInjective
  <2> DEFINE place == <<ToSet(queue), Held, got, gone>>
  <2>3. \A i, j \in 1..4 : i # j => place[i] \cap place[j] = {}
    <3>1. /\ place[1] = ToSet(queue) /\ place[2] = Held
          /\ place[3] = got /\ place[4] = gone
      OBVIOUS
    <3>2. \A i \in 1..4 : i = 1 \/ i = 2 \/ i = 3 \/ i = 4
      OBVIOUS
    <3> HIDE DEF place
    <3> QED
      BY <2>1, <3>1, <3>2 DEF Placed
  <2> QED
    BY <2>1, <2>2, <2>3 DEF AcceptedOnce, Placed, HeldOnce
<1> QED
  BY <1>1, Inductive, PTL

\* Messages are handed out in the order of send(), whatever the readers do.
THEOREM OldestGoesFirst ==
  ASSUME "destroy_busy" \notin Allow
  PROVE  Spec => []OldestFirst
<1>1. IInv => OldestFirst
  BY DEF IInv, Messages, OldestFirst
<1> QED
  BY <1>1, Inductive, PTL

\* No reader that would call into its mailbox outlives it.
THEOREM MailboxOutlivesReaders ==
  ASSUME "destroy_busy" \notin Allow
  PROVE  Spec => []NoDanglingMailbox
<1>1. IInv => NoDanglingMailbox
  <2> SUFFICES ASSUME IInv, NEW t \in Tasks, rd[t].registered, rd[t].attached
               PROVE  alive
    BY DEF NoDanglingMailbox
  <2>1. rd[t] # NoReader
    BY DEF NoReader
  <2> QED
    BY <2>1 DEF IInv, Readers
<1> QED
  BY <1>1, Inductive, PTL

\* A message is discarded only by clear(), close(), the destructor, or as the oldest
\* of a full queue: never because a deadline passes while send() delivers it.
THEOREM NothingElseDiscards ==
  ASSUME "destroy_busy" \notin Allow
  PROVE  Spec => DiscardedForCause
<1>1. IInv /\ [Next]_vars =>
        [\A m \in gone' \ gone :
           \/ closed' \/ ~alive'
           \/ queue' = <<>> /\ Contains(queue, m)
           \/ Len(queue) = Capacity /\ m = Head(queue)]_vars
  BY StepDiscards
<1> QED
  BY <1>1, Inductive, PTL DEF Spec, DiscardedForCause

-----------------------------------------------------------------------------
(* The mailbox is a channel.                                               *)

\* What is shut is empty.
Emptied == (alive /\ ~closed) \/ queue = <<>>

\* What each reader was given: the variable handed of the channel.
Given == [t \in Tasks |-> rd[t].msg]

\* The channel's helpers are those of the mailbox.
LEMMA ChannelHelpers ==
  ASSUME NEW q, NEW e
  PROVE  /\ C!ToSet(q) = ToSet(q)
         /\ C!Contains(q, e) <=> Contains(q, e)
         /\ C!RemoveFirst(q, e) = RemoveFirst(q, e)
<1>1. C!ToSet(q) = ToSet(q) /\ (C!Contains(q, e) <=> Contains(q, e))
  BY DEF C!ToSet, ToSet, C!Contains, Contains
<1>2. C!RemoveFirst(q, e) = RemoveFirst(q, e)
  BY DEF C!RemoveFirst, RemoveFirst, C!RemoveAt, RemoveAt, C!SelectInSeq, SelectInSeq,
         C!Min, Min
<1> QED
  BY <1>1, <1>2

\* What a step gives to one reader, or to none.
LEMMA GivenIs ==
  /\ (\A t \in Tasks : rd'[t].msg = rd[t].msg) => Given' = Given
  /\ \A t \in Tasks : \A m :
       (/\ rd'[t].msg = m
        /\ \A u \in Tasks : u # t => rd'[u].msg = rd[u].msg)
       => Given' = [Given EXCEPT ![t] = m]
BY DEF Given

\* The variables of the channel.
LEMMA ChannelIs ==
  /\ C!vars = <<alive /\ ~closed, queue, readers, Given, sent, got, gone>>
  /\ C!vars' = <<alive' /\ ~closed', queue', readers', Given', sent', got', gone'>>
BY DEF C!vars, Given

\* A new mailbox is an open channel.
LEMMA InitIsChannel == Init => C!Init /\ Emptied
<1> SUFFICES ASSUME Init PROVE C!Init /\ Emptied
  OBVIOUS
<1>1. /\ queue = <<>> /\ readers = <<>> /\ closed = FALSE /\ alive = TRUE
      /\ rd = [t \in Tasks |-> NoReader] /\ sent = 0 /\ got = {} /\ gone = {}
  BY DEF Init
<1>2. [t \in Tasks |-> rd[t].msg] = [t \in Tasks |-> None]
  BY <1>1 DEF NoReader
<1> QED
  BY <1>1, <1>2 DEF C!Init, Emptied

\* Only operations on the mailbox are steps of the channel.
LEMMA QuietSteps ==
  ASSUME IInv,
         \/ Finish \/ ResumeStart \/ UNCHANGED vars
         \/ \E t \in Tasks : Start(t) \/ Expire(t)
  PROVE  UNCHANGED C!vars /\ UNCHANGED <<alive, closed, queue>>
<1>1. UNCHANGED <<mboxVars, historyVars>>
  BY DEF Finish, ResumeStart, Start, Expire, vars
<1>2. \A t \in Tasks : rd'[t].msg = rd[t].msg
  <2>1. CASE Finish \/ ResumeStart \/ UNCHANGED vars \/ \E t \in Tasks : Start(t)
    <3>1. rd' = rd
      BY <2>1 DEF Finish, ResumeStart, Start, vars
    <3> QED
      BY <3>1
  <2>2. CASE \E t \in Tasks : Expire(t)
    <3>1. PICK t \in Tasks : rd' = [rd EXCEPT ![t].result = "timeout"]
      BY <2>2 DEF Expire
    <3>2. rd \in [Tasks -> ReaderRec(sent)]
      BY Types DEF IInv
    <3>3. rd'[t] = [rd[t] EXCEPT !.result = "timeout"]
          /\ \A u \in Tasks : u # t => rd'[u] = rd[u]
      BY <3>1, <3>2
    <3>4. PICK x : x = rd[t] /\ x \in ReaderRec(sent)
      BY <3>2
    <3>5. [x EXCEPT !.result = "timeout"].msg = x.msg
      BY <3>4, CompletedIs
    <3> QED
      BY <3>3, <3>4, <3>5
  <2> QED
    BY <2>1, <2>2
<1>3. Given' = Given
  BY <1>2, GivenIs
<1> QED
  BY <1>1, <1>3, ChannelIs DEF mboxVars, historyVars

\* send() and emplace().
LEMMA SendIsHand ==
  ASSUME IInv, SendToReader
  PROVE  C!Hand /\ Emptied'
<1>1. /\ alive /\ ~closed /\ readers # <<>> /\ readers' = Tail(readers)
      /\ sent' = sent + 1 /\ UNCHANGED <<queue, closed, alive, got, gone>>
  BY DEF SendToReader, CanCall
<1>2. Given' = [Given EXCEPT ![Head(readers)] = sent']
  BY SendToReaderKeeps, GivenIs
<1> QED
  BY <1>1, <1>2 DEF C!Hand, Given, Emptied

\* With nobody waiting: ToSet(queue) \ ToSet(queue') is what did not fit.
LEMMA SendIsPut ==
  ASSUME IInv, SendToQueue
  PROVE  (C!Put \/ C!PutForOldest) /\ Emptied'
<1>1. /\ alive /\ ~closed /\ readers = <<>> /\ sent' = sent + 1
      /\ queue' = Append(Room(queue), sent')
      /\ gone' = gone \cup (ToSet(queue) \ ToSet(queue'))
      /\ UNCHANGED <<readers, closed, alive, rd, got>>
  BY DEF SendToQueue, CanCall
<1>2. Given' = Given
  BY <1>1, GivenIs
<1>3. /\ queue \in Seq(1..sent) /\ ToSet(queue) \subseteq 1..sent /\ sent \in Nat
      /\ Capacity \in Nat /\ Len(queue) \in Nat /\ (Capacity > 0 => Len(queue) <= Capacity)
  BY Types, MboxAssumption, LenProperties DEF IInv, TypeOK
<1>4. PICK m, S : /\ m = sent' /\ S = 1..(sent + 1) /\ m \in S
                  /\ m \notin ToSet(queue) /\ queue \in Seq(S)
  <2>1. 1..sent \subseteq 1..(sent + 1) /\ sent' \in 1..(sent + 1) /\ sent' \notin 1..sent
    BY <1>1, <1>3
  <2>2. queue \in Seq(1..(sent + 1))
    BY <1>3, <2>1, SeqGrows
  <2> QED
    BY <1>3, <2>1, <2>2
<1>5. CASE Capacity = 0 \/ Len(queue) < Capacity
  <2>1. queue' = Append(queue, m)
    BY <1>1, <1>3, <1>4, <1>5 DEF Room
  <2>2. ToSet(queue') = ToSet(queue) \cup {m}
    <3>1. queue \in Seq(S) /\ m \in S
      BY <1>4
    <3>2. ToSet(Append(queue, m)) = ToSet(queue) \cup {m}
      BY <3>1, AppendSet, SMT
    <3> QED
      BY <2>1, <3>2, Zenon
  <2>3. gone' = gone
    BY <1>1, <2>1, <2>2
  <2> QED
    BY <1>1, <1>2, <1>4, <1>5, <2>1, <2>3 DEF C!Put, Given, Emptied
<1>6. CASE Capacity > 0 /\ Len(queue) = Capacity
  <2>1. queue # <<>> /\ queue' = Append(Tail(queue), m)
    BY <1>1, <1>3, <1>4, <1>6, EmptySeq DEF Room
  <2>2. /\ ToSet(queue) = ToSet(Tail(queue)) \cup {Head(queue)}
        /\ Head(queue) \notin ToSet(Tail(queue))
    BY <2>1, OldestIs DEF IInv
  <2>3. Tail(queue) \in Seq(S)
    BY <1>4, <2>1, TailIs
  <2>4. ToSet(queue') = ToSet(Tail(queue)) \cup {m}
    <3>1. PICK z : z = Tail(queue)
      OBVIOUS
    <3>2. z \in Seq(S) /\ m \in S
      BY <1>4, <2>3, <3>1
    <3>3. ToSet(Append(z, m)) = ToSet(z) \cup {m}
      BY <3>2, AppendSet, SMT
    <3> QED
      BY <2>1, <3>1, <3>3, Zenon
  <2>5. gone' = gone \cup {Head(queue)}
    BY <1>1, <1>4, <2>1, <2>2, <2>4
  <2> QED
    BY <1>1, <1>2, <1>4, <1>6, <2>1, <2>5 DEF C!PutForOldest, Given, Emptied
<1> QED
  BY <1>3, <1>5, <1>6

\* read() that finds a message, and clear().
LEMMA ReadIsTake ==
  ASSUME IInv, Emptied, ReadNow \/ Clear
  PROVE  (C!Take \/ C!Clear) /\ Emptied'
<1>1. UNCHANGED <<rd, readers, closed, alive, sent>> /\ queue # <<>>
  BY DEF ReadNow, Clear
<1>2. Given' = Given /\ alive /\ ~closed
  BY <1>1, GivenIs DEF Emptied
<1>3. CASE ReadNow
  <2>1. /\ got' = got \cup {Head(queue)} /\ queue' = Tail(queue) /\ gone' = gone
        /\ (alive' /\ ~closed') = (alive /\ ~closed)
    BY <1>1, <1>3 DEF ReadNow
  <2>2. C!Take
    BY <1>1, <1>2, <2>1 DEF C!Take, Given
  <2> QED
    BY <1>1, <1>2, <2>2 DEF Emptied
<1>4. CASE Clear
  <2>1. /\ queue' = <<>> /\ gone' = gone \cup ToSet(queue) /\ got' = got
        /\ (alive' /\ ~closed') = (alive /\ ~closed)
    BY <1>1, <1>4 DEF Clear
  <2>2. C!Clear
    BY <1>1, <1>2, <2>1, ChannelHelpers, Zenon DEF C!Clear, Given
  <2> QED
    BY <2>1, <2>2 DEF Emptied
<1> QED
  BY <1>3, <1>4

\* read() that suspends.
LEMMA ReadIsWait ==
  ASSUME IInv, ReadSuspends
  PROVE  (\E t \in Tasks : C!Wait(t)) /\ Emptied'
<1>1. PICK timer \in BOOLEAN : ReadWait(timer)
  BY DEF ReadSuspends
<1> DEFINE y == [result |-> "waiting", msg |-> None, registered |-> TRUE,
                 attached |-> TRUE, timer |-> timer]
<1>2. /\ cur # None /\ alive /\ ~closed /\ queue = <<>> /\ cur \in Tasks
      /\ readers' = Append(readers, cur) /\ rd' = [rd EXCEPT ![cur] = y]
      /\ UNCHANGED <<queue, closed, alive, sent, got, gone>>
  BY <1>1, Types DEF IInv, ReadWait, CanCall, historyVars
<1>3. rd \in [Tasks -> ReaderRec(sent)] /\ readers \in Seq(Tasks) /\ sent \in Nat
  BY Types DEF IInv
<1>4. rd[cur] = NoReader /\ ~NoReader.registered /\ NoReader.msg = None
  BY <1>2, <1>3, NoReaderIs DEF IInv, Readers
<1>5. ~Contains(readers, cur)
  BY <1>3, <1>4, ContainsIs DEF IInv, Readers
<1>6. \A t \in Tasks : rd'[t].msg = rd[t].msg
  <2>1. y.msg = None
    OBVIOUS
  <2> HIDE DEF y
  <2> QED
    BY <1>2, <1>3, <1>4, <2>1
<1>7. Given' = Given
  BY <1>6, GivenIs
<1> HIDE DEF y
<1>8. C!Wait(cur)
  <2>1. (alive' /\ ~closed') = (alive /\ ~closed)
    BY <1>2
  <2> QED
    BY <1>2, <1>5, <1>7, <2>1, ChannelHelpers, Zenon DEF C!Wait, Given
<1> QED
  BY <1>2, <1>8 DEF Emptied

\* await_resume.
LEMMA ResumeIsReceive ==
  ASSUME IInv, Emptied, ResumeRead
  PROVE  /\ Emptied'
         /\ \/ C!Take \/ UNCHANGED C!vars
            \/ \E t \in Tasks : C!Leave(t) \/ C!Receive(t) \/ C!Lose(t)
<1>1. PICK t : t = Head(runq)
  OBVIOUS
<1>2. /\ t \in Tasks /\ rd[t] # NoReader /\ UNCHANGED <<closed, alive, sent>>
      /\ rd' = [rd EXCEPT ![t] = NoReader] /\ readers' = Unregister(readers, t)
  BY <1>1, ResumeReadIs
<1>3. \/ rd[t].msg = None /\ UNCHANGED <<queue, got, gone>>
      \/ /\ rd[t].msg = None /\ queue # <<>> /\ alive /\ ~closed /\ UNCHANGED gone
         /\ queue' = Tail(queue) /\ got' = got \cup {Head(queue)}
      \/ /\ rd[t].msg # None /\ alive /\ ~closed /\ UNCHANGED <<queue, gone>>
         /\ got' = got \cup {rd[t].msg}
      \/ /\ rd[t].msg # None /\ (closed \/ ~alive) /\ UNCHANGED <<queue, got>>
         /\ gone' = gone \cup {rd[t].msg}
  BY <1>1, ResumeReadIs
<1>4. rd \in [Tasks -> ReaderRec(sent)] /\ readers \in Seq(Tasks) /\ sent \in Nat
      /\ IsInjective(readers)
  BY Types DEF IInv, Readers
<1>5. NoReader.msg = None
  BY <1>4, NoReaderIs
<1>6. Given' = [Given EXCEPT ![t] = None] /\ Given[t] = rd[t].msg
  <2>1. rd'[t].msg = None /\ \A u \in Tasks : u # t => rd'[u].msg = rd[u].msg
    BY <1>2, <1>4, <1>5
  <2> QED
    BY <1>2, <2>1, GivenIs DEF Given
<1>7. rd[t].msg = None => Given' = Given
  BY <1>6 DEF Given
<1>8. ~Contains(readers, t) => readers' = readers
  BY <1>2, <1>4 DEF Unregister, RemoveFirst, Contains
<1>9. Contains(readers, t) =>
        /\ readers' = RemoveFirst(readers, t) /\ rd[t].msg = None
        /\ alive /\ ~closed /\ queue = <<>>
  <2> SUFFICES ASSUME Contains(readers, t)
               PROVE  /\ readers' = RemoveFirst(readers, t) /\ rd[t].msg = None
                      /\ alive /\ ~closed /\ queue = <<>>
    OBVIOUS
  <2>1. t \in ToSet(readers)
    BY <1>4, ContainsIs
  <2>2. readers # <<>>
    BY <2>1, EmptySeq DEF ToSet
  <2> QED
    BY <1>2, <2>1, <2>2 DEF IInv, Readers, Unregister
<1>10. Emptied'
  <2>1. queue = <<>> => queue' = <<>>
    BY <1>3
  <2> QED
    BY <1>2, <2>1 DEF Emptied
<1>11. CASE Contains(readers, t)
  <2>1. /\ rd[t].msg = None /\ UNCHANGED <<queue, got, gone>>
        /\ (alive' /\ ~closed') = (alive /\ ~closed)
    BY <1>2, <1>3, <1>9, <1>11
  <2>2. C!Leave(t)
    BY <1>2, <1>7, <1>9, <1>11, <2>1, ChannelHelpers, Zenon DEF C!Leave, Given
  <2> QED
    BY <1>2, <1>10, <2>2
<1>12. CASE ~Contains(readers, t)
  <2>1. readers' = readers
    BY <1>8, <1>12
  <2>2. CASE rd[t].msg = None /\ UNCHANGED <<queue, got, gone>>
    BY <1>2, <1>7, <1>10, <2>1, <2>2, ChannelIs
  <2>3. CASE /\ rd[t].msg = None /\ queue # <<>> /\ alive /\ ~closed /\ UNCHANGED gone
             /\ queue' = Tail(queue) /\ got' = got \cup {Head(queue)}
    BY <1>2, <1>7, <1>10, <2>1, <2>3 DEF C!Take, Given
  <2>4. CASE /\ rd[t].msg # None /\ alive /\ ~closed /\ UNCHANGED <<queue, gone>>
             /\ got' = got \cup {rd[t].msg}
    <3>1. C!Receive(t)
      BY <1>2, <1>6, <2>1, <2>4 DEF C!Receive, Given
    <3> QED
      BY <1>2, <1>10, <3>1
  <2>5. CASE /\ rd[t].msg # None /\ (closed \/ ~alive) /\ UNCHANGED <<queue, got>>
             /\ gone' = gone \cup {rd[t].msg}
    <3>1. C!Lose(t)
      BY <1>2, <1>6, <2>1, <2>5 DEF C!Lose, Given
    <3> QED
      BY <1>2, <1>10, <3>1
  <2> QED
    BY <1>3, <2>2, <2>3, <2>4, <2>5
<1> QED
  BY <1>11, <1>12

\* close() and the destructor; the destructor of a closed mailbox changes nothing.
LEMMA CloseIsShut ==
  ASSUME IInv, Emptied, "destroy_busy" \notin Allow, Close \/ Destroy
  PROVE  (C!Shut \/ UNCHANGED C!vars) /\ Emptied'
<1>1. /\ readers' = <<>> /\ queue' = <<>> /\ gone' = gone \cup ToSet(queue)
      /\ UNCHANGED <<sent, got>> /\ alive
      /\ \/ ~closed /\ closed' = TRUE /\ alive' = alive
         \/ alive' = FALSE /\ closed' = closed
  BY DEF Close, Destroy, CanCall
<1>2. Given' = Given
  BY CloseKeeps, GivenIs
<1>3. Emptied'
  BY <1>1 DEF Emptied
<1>4. CASE ~closed
  <2>1. (alive /\ ~closed) = TRUE /\ (alive' /\ ~closed') = FALSE
    BY <1>1, <1>4
  <2>2. C!Shut
    BY <1>1, <1>2, <2>1, ChannelHelpers, Zenon DEF C!Shut, Given
  <2> QED
    BY <1>3, <2>2
<1>5. CASE closed
  <2>1. queue = <<>> /\ readers = <<>>
    BY <1>5 DEF Emptied, IInv, Readers
  <2>2. ToSet(<<>>) = {}
    BY EmptySeq DEF ToSet
  <2>3. (alive /\ ~closed) = FALSE /\ (alive' /\ ~closed') = FALSE
    BY <1>1, <1>5
  <2> QED
    BY <1>1, <1>2, <1>3, <2>1, <2>2, <2>3, ChannelIs
<1> QED
  BY <1>4, <1>5

\* Every step is one of the channel or none.
LEMMA NextIsChannel ==
  ASSUME "destroy_busy" \notin Allow
  PROVE  IInv /\ Emptied /\ [Next]_vars => [C!Next]_(C!vars) /\ Emptied'
<1> SUFFICES ASSUME IInv, Emptied, [Next]_vars PROVE [C!Next]_(C!vars) /\ Emptied'
  OBVIOUS
<1>1. CASE \/ Finish \/ ResumeStart \/ UNCHANGED vars
           \/ \E t \in Tasks : Start(t) \/ Expire(t)
  BY <1>1, QuietSteps DEF Emptied
<1>2. CASE SendToReader
  BY <1>2, SendIsHand DEF C!Next
<1>3. CASE SendToQueue
  BY <1>3, SendIsPut DEF C!Next
<1>4. CASE ReadNow \/ Clear
  BY <1>4, ReadIsTake DEF C!Next
<1>5. CASE ReadSuspends
  BY <1>5, ReadIsWait DEF C!Next
<1>6. CASE ResumeRead
  BY <1>6, ResumeIsReceive DEF C!Next
<1>7. CASE Close \/ Destroy
  BY <1>7, CloseIsShut DEF C!Next
<1> QED
  BY <1>1, <1>2, <1>3, <1>4, <1>5, <1>6, <1>7 DEF Next, Resume

\* The mailbox with its readers is a bounded FIFO channel, in whatever order the loop
\* resumes them: a message goes to the reader that waits longest and is received by
\* it alone, in particular by nobody after close().
THEOREM MailboxIsChannel ==
  ASSUME "destroy_busy" \notin Allow
  PROVE  Spec => RefinesChannel
<1>1. Init => IInv /\ C!Init /\ Emptied
  BY InitIInv, InitIsChannel
<1>2. IInv /\ Emptied /\ [Next]_vars => IInv' /\ Emptied' /\ [C!Next]_(C!vars)
  BY NextIInv, NextIsChannel
<1> QED
  BY <1>1, <1>2, PTL DEF Spec, RefinesChannel, C!Spec
=============================================================================
