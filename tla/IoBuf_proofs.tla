---------------------------- MODULE IoBuf_proofs ----------------------------
(***************************************************************************)
(* Proofs about IoBuf, for any sizes, sub-buffers, data and offsets: what  *)
(* is read is what was written, and buffers that are reset before they are *)
(* written again keep out of each other's way.                             *)
(***************************************************************************)
EXTENDS IoBuf, TLAPS

Fields  == [size : Nat, len : Nat, off : Nat, orig : Nat]
Symbols == Bytes \cup {Unknown, Spoilt}

-----------------------------------------------------------------------------
(* Shapes and places.                                                      *)

\* The part of the memory a buffer was made for lies inside the memory.
LEMMA Inside ==
  ASSUME NEW b \in Bufs
  PROVE  /\ Empty(b) \in Fields
         /\ Empty(b).len = 0 /\ Empty(b).off = Empty(b).orig
         /\ Empty(b).orig + Empty(b).size <= Cap
<1>1. CASE b = Root
  BY <1>1, BufAssumption DEF Empty, Fresh, Fields
<1>2. CASE b \in Views
  <2>1. /\ Shape[b].off \in Nat /\ Shape[b].size \in Nat
        /\ Shape[b].off + Shape[b].size <= Cap /\ b # Root
    BY <1>2, BufAssumption
  <2>2. Empty(b) = [size |-> Shape[b].size, len |-> 0,
                    off |-> Shape[b].off, orig |-> Shape[b].off]
    BY <2>1 DEF Empty, Fresh
  <2> QED
    BY <2>1, <2>2 DEF Fields
<1> QED
  BY <1>1, <1>2 DEF Bufs

\* Where a write with the offset o goes.
LEMMA WritePlace ==
  ASSUME TypeOK, NEW b \in Bufs, NEW o \in Int, WriteAt(buf[b], o) >= 0
  PROVE  /\ WriteAt(buf[b], o) \in Nat
         /\ WriteAt(buf[b], o) <= buf[b].size \/ WriteAt(buf[b], o) <= buf[b].len
         /\ WriteAt(buf[b], o) = IF o < 0 THEN buf[b].len + 1 + o ELSE o
<1>1. buf[b].len \in Nat /\ buf[b].size \in Nat
  BY DEF TypeOK
<1> QED
  BY <1>1 DEF WriteAt, Greater

LEMMA MakeSeq ==
  ASSUME NEW S, NEW n \in Nat, NEW q \in [1..n -> S]
  PROVE  q \in Seq(S) /\ Len(q) = n
OBVIOUS

\* A store of n bytes at the position a, the place p of a buffer that was not read.
StoredInside(b, a, p, n) ==
  /\ buf[b].orig \in Nat /\ buf[b].size \in Nat
  /\ a = buf[b].orig + p /\ p + n <= buf[b].size

LEMMA StoredInPart ==
  ASSUME NEW b, NEW a \in Nat, NEW p \in Nat, NEW n \in Nat, StoredInside(b, a, p, n)
  PROVE  a..(a + n - 1) \subseteq Part(b)
BY DEF StoredInside, Part

\* The memory after a write.
LEMMA Poked ==
  ASSUME TypeOK, NEW a \in Nat, NEW s \in Seq(Bytes), NEW m, m = Poke(a, s)
  PROVE  /\ m \in [0..(Cap - 1) -> Bytes]
         /\ \A j \in 0..(Cap - 1) :
              m[j] = IF j \in a..(a + Len(s) - 1) THEN s[j - a + 1] ELSE mem[j]
<1>1. mem \in [0..(Cap - 1) -> Bytes] /\ Cap \in Nat /\ Len(s) \in Nat
  BY BufAssumption DEF TypeOK
<1>2. m = [j \in 0..(Cap - 1) |->
             IF j \in a..(a + Len(s) - 1) THEN s[j - a + 1] ELSE mem[j]]
  BY <1>1 DEF Poke
<1>3. ASSUME NEW j \in 0..(Cap - 1), j \in a..(a + Len(s) - 1)
      PROVE  s[j - a + 1] \in Bytes
  <2>1. j - a + 1 \in 1..Len(s)
    BY <1>1, <1>3
  <2> QED
    BY <2>1
<1> QED
  BY <1>1, <1>2, <1>3

\* The memory after a write, seen from the position off.
Overlaid(m, off, p, s) ==
  \A i \in Nat : 1 <= i /\ off + i - 1 \in 0..(Cap - 1) =>
    /\ off + i - 1 \in DOMAIN m
    /\ m[off + i - 1] = IF i \in (p + 1)..(p + Len(s)) THEN s[i - p]
                                                       ELSE mem[off + i - 1]

LEMMA Overlay ==
  ASSUME TypeOK, NEW off \in Nat, NEW p \in Nat, NEW s \in Seq(Bytes)
  PROVE  Overlaid(Poke(off + p, s), off, p, s)
<1>1. PICK a \in Nat : a = off + p
  OBVIOUS
<1>2. PICK n \in Nat : n = Len(s)
  OBVIOUS
<1>3. PICK m : m = Poke(a, s)
  OBVIOUS
<1>4. /\ m \in [0..(Cap - 1) -> Bytes]
      /\ \A j \in 0..(Cap - 1) :
           m[j] = IF j \in a..(a + n - 1) THEN s[j - a + 1] ELSE mem[j]
  BY <1>1, <1>2, <1>3, Poked
<1>5. ASSUME NEW i \in Nat, 1 <= i, off + i - 1 \in 0..(Cap - 1)
      PROVE  /\ off + i - 1 \in DOMAIN m
             /\ m[off + i - 1] = IF i \in (p + 1)..(p + n) THEN s[i - p]
                                                           ELSE mem[off + i - 1]
  <2>1. PICK j \in 0..(Cap - 1) : j = off + i - 1
    BY <1>5
  <2>2. /\ j \in a..(a + n - 1) <=> i \in (p + 1)..(p + n)
        /\ j - a + 1 = i - p
    BY <1>1, <2>1
  <2>3. m[j] = IF j \in a..(a + n - 1) THEN s[j - a + 1] ELSE mem[j]
    BY <1>4
  <2> QED
    BY <1>4, <2>1, <2>2, <2>3
<1>6. Overlaid(m, off, p, s)
  BY <1>2, <1>5 DEF Overlaid
<1> QED
  BY <1>1, <1>3, <1>6

\* The users of the buffer that is written know what they wrote.
LEMMA WrittenTells ==
  ASSUME TypeOK, NEW b \in Bufs, Tells(buf[b], text[b], mem),
         NEW o \in Int, NEW p \in Nat, NEW s \in Seq(Bytes), NEW advance \in BOOLEAN,
         p = IF o < 0 THEN buf[b].len + 1 + o ELSE o,
         NEW x \in Fields, x.off = buf[b].off,
         x.len = IF advance THEN Greater(buf[b].len, p + Len(s)) ELSE buf[b].len,
         NEW w, w = Written(b, o, s, advance),
         NEW m, m = Poke(buf[b].off + p, s)
  PROVE  /\ w \in Seq(Symbols) /\ Tells(x, w, m)
         /\ Unspoilt(text[b]) => Unspoilt(w)
<1>1. PICK off \in Nat, old \in Nat, n \in Nat :
        buf[b].off = off /\ buf[b].len = old /\ Len(s) = n
  BY DEF TypeOK
<1>2. PICK len \in Nat : len = x.len
  BY DEF Fields
<1>3. PICK q \in Seq(Symbols) : q = text[b]
  BY DEF TypeOK, Symbols
<1>4. /\ Len(q) = old
      /\ \A i \in 1..old : q[i] \in Bytes =>
                             off + i - 1 \in 0..(Cap - 1) /\ q[i] = mem[off + i - 1]
  BY <1>1, <1>3 DEF Tells, At, TypeOK
<1> DEFINE W(i) == IF off + i - 1 \notin 0..(Cap - 1) THEN Unknown
                   ELSE IF i \in (p + 1)..(p + n) THEN s[i - p]
                   ELSE IF i <= old THEN q[i] ELSE Unknown
<1>5. w = [i \in 1..len |-> W(i)]
  <2>1. (IF o < 0 THEN Len(q) + 1 + o ELSE o) = p
    BY <1>1, <1>4
  <2>2. (IF advance THEN Greater(Len(q), p + Len(s)) ELSE Len(q)) = len
    BY <1>1, <1>2, <1>4
  <2>3. DOMAIN mem = 0..(Cap - 1)
    BY DEF TypeOK
  <2> QED
    BY <1>1, <1>3, <1>4, <2>1, <2>2, <2>3 DEF Written, At
<1>6. ASSUME NEW i \in 1..len, i \in (p + 1)..(p + n) PROVE s[i - p] \in Bytes
  <2>1. i - p \in 1..Len(s)
    BY <1>1, <1>6
  <2> QED
    BY <2>1
<1>7. ASSUME NEW i \in 1..len PROVE W(i) \in Symbols
  <2>1. i <= old => i \in 1..Len(q)
    BY <1>4
  <2>2. i <= old => q[i] \in Symbols
    BY <2>1
  <2> QED
    BY <1>6, <2>2 DEF Symbols
<1>8. w \in Seq(Symbols) /\ Len(w) = len
  <2>1. w \in [1..len -> Symbols]
    BY <1>5, <1>7
  <2> QED
    BY <2>1, MakeSeq
<1>9. ASSUME NEW i \in Nat, 1 <= i, off + i - 1 \in 0..(Cap - 1)
      PROVE  /\ off + i - 1 \in DOMAIN m
             /\ m[off + i - 1] = IF i \in (p + 1)..(p + n) THEN s[i - p]
                                                           ELSE mem[off + i - 1]
  <2>1. Overlaid(m, off, p, s)
    BY <1>1, Overlay
  <2> QED
    BY <1>1, <1>9, <2>1 DEF Overlaid
<1>10. ASSUME NEW i \in 1..len, w[i] \in Bytes
       PROVE  off + i - 1 \in DOMAIN m /\ w[i] = m[off + i - 1]
  <2>1. w[i] = W(i) /\ Unknown \notin Bytes
    BY <1>5, BufAssumption
  <2>2. i \in Nat /\ 1 <= i /\ off + i - 1 \in 0..(Cap - 1)
    BY <1>10, <2>1
  <2>3. CASE i \in (p + 1)..(p + n)
    BY <1>9, <2>1, <2>2, <2>3
  <2>4. CASE i \notin (p + 1)..(p + n)
    <3>1. i \in 1..old /\ w[i] = q[i]
      BY <1>10, <2>1, <2>2, <2>4
    <3>2. q[i] = mem[off + i - 1]
      BY <1>4, <1>10, <3>1
    <3> HIDE DEF W
    <3> QED
      BY <1>9, <2>2, <2>4, <3>1, <3>2
  <2> QED
    BY <2>3, <2>4
<1>11. Tells(x, w, m)
  <2>1. /\ Len(w) = x.len
        /\ \A i \in 1..x.len : w[i] \in Bytes =>
             off + i - 1 \in DOMAIN m /\ w[i] = m[off + i - 1]
    BY <1>2, <1>8, <1>10
  <2>2. x.off = off
    BY <1>1
  <2> QED
    BY <2>1, <2>2 DEF Tells, At
<1>12. ASSUME Unspoilt(q), NEW i \in 1..len PROVE W(i) # Spoilt
  <2>1. i <= old => q[i] # Spoilt
    BY <1>4, <1>12 DEF Unspoilt
  <2> QED
    BY <1>6, <2>1, BufAssumption
<1>13. Unspoilt(q) => Unspoilt(w)
  <2> HIDE DEF W
  <2> QED
    BY <1>5, <1>12 DEF Unspoilt
<1> QED
  BY <1>3, <1>8, <1>11, <1>13

\* The users of another buffer know what was stored where they share the memory.
LEMMA SharedTells ==
  ASSUME TypeOK, Fixed, NEW b \in Bufs, NEW c \in Bufs, Tells(buf[c], text[c], mem),
         NEW a \in Nat, NEW s \in Seq(Bytes),
         NEW w, w = Shared(c, b, a, s), NEW m, m = Poke(a, s)
  PROVE  w \in Seq(Symbols) /\ Tells(buf[c], w, m)
<1>1. PICK off \in Nat, len \in Nat, n \in Nat :
        buf[c].off = off /\ buf[c].len = len /\ Len(s) = n
  BY DEF TypeOK
<1>2. PICK q \in Seq(Symbols) : q = text[c]
  BY DEF TypeOK, Symbols
<1>3. /\ Len(q) = len /\ DOMAIN q = 1..len /\ DOMAIN mem = 0..(Cap - 1)
      /\ \A i \in 1..len : q[i] \in Bytes =>
                             off + i - 1 \in 0..(Cap - 1) /\ q[i] = mem[off + i - 1]
  BY <1>1, <1>2 DEF Tells, At, TypeOK
<1>4. /\ DOMAIN m = 0..(Cap - 1)
      /\ \A j \in 0..(Cap - 1) :
           m[j] = IF j \in a..(a + n - 1) THEN s[j - a + 1] ELSE mem[j]
  BY <1>1, Poked
<1>5. Part(b) \subseteq 0..(Cap - 1)
  <2>1. /\ buf[b].orig = Empty(b).orig /\ buf[b].size = Empty(b).size
        /\ buf[b].orig \in Nat /\ buf[b].size \in Nat /\ Cap \in Nat
    BY BufAssumption DEF Fixed, TypeOK
  <2>2. buf[b].orig + buf[b].size <= Cap
    BY <2>1, Inside
  <2> QED
    BY <2>1, <2>2 DEF Part
<1>6. PICK both : both = Part(b) \cap Part(c)
  OBVIOUS
<1>7. w = [i \in 1..len |-> IF off + i - 1 \notin a..(a + n - 1) THEN q[i]
                            ELSE IF off + i - 1 \in both THEN s[off + i - 1 - a + 1]
                            ELSE Spoilt]
  BY <1>1, <1>2, <1>3, <1>6 DEF Shared, At
<1>8. ASSUME NEW i \in 1..len
      PROVE  /\ w[i] \in Symbols
             /\ w[i] \in Bytes => off + i - 1 \in DOMAIN m /\ w[i] = m[off + i - 1]
  <2>1. PICK j \in Int : j = off + i - 1
    OBVIOUS
  <2>2. w[i] = IF j \notin a..(a + n - 1) THEN q[i]
               ELSE IF j \in both THEN s[j - a + 1] ELSE Spoilt
    BY <1>7, <2>1
  <2>3. CASE j \notin a..(a + n - 1)
    <3>1. w[i] = q[i] /\ q[i] \in Symbols
      BY <1>3, <2>2, <2>3
    <3>2. q[i] \in Bytes => j \in 0..(Cap - 1) /\ q[i] = mem[j]
      BY <1>3, <2>1
    <3>3. j \in 0..(Cap - 1) => m[j] = mem[j]
      BY <1>4, <2>3
    <3> QED
      BY <1>4, <2>1, <3>1, <3>2, <3>3
  <2>4. CASE j \in a..(a + n - 1) /\ j \in both
    <3>1. j \in 0..(Cap - 1)
      BY <1>5, <1>6, <2>4
    <3>2. w[i] = s[j - a + 1] /\ m[j] = s[j - a + 1]
      BY <1>4, <2>2, <2>4, <3>1
    <3>3. j - a + 1 \in 1..Len(s)
      BY <1>1, <2>4
    <3>4. s[j - a + 1] \in Bytes
      BY <3>3
    <3> QED
      BY <1>4, <2>1, <3>1, <3>2, <3>4 DEF Symbols
  <2>5. CASE j \in a..(a + n - 1) /\ j \notin both
    <3>1. w[i] = Spoilt /\ Spoilt \notin Bytes
      BY <2>2, <2>5, BufAssumption
    <3> QED
      BY <3>1 DEF Symbols
  <2> QED
    BY <2>3, <2>4, <2>5
<1>9. w \in Seq(Symbols) /\ Len(w) = len
  <2>1. w \in [1..len -> Symbols]
    BY <1>7, <1>8
  <2> QED
    BY <2>1, MakeSeq
<1> QED
  BY <1>1, <1>8, <1>9 DEF Tells, At

\* Nothing is spoilt by a store inside the part of the writer, of buffers that offer
\* nothing outside theirs.
LEMMA SharedUnspoilt ==
  ASSUME TypeOK, NEW b \in Bufs, NEW c \in Bufs,
         NEW a \in Nat, NEW s \in Seq(Bytes),
         Unspoilt(text[c]), a..(a + Len(s) - 1) \subseteq Part(b),
         \A i \in DOMAIN text[c] : At(buf[c], i) \in Part(b) => At(buf[c], i) \in Part(c)
  PROVE  Unspoilt(Shared(c, b, a, s))
<1>1. PICK n \in Nat : Len(s) = n
  OBVIOUS
<1>2. PICK both : both = Part(b) \cap Part(c)
  OBVIOUS
<1>3. Shared(c, b, a, s) =
        [i \in DOMAIN text[c] |->
           IF At(buf[c], i) \notin a..(a + n - 1) THEN text[c][i]
           ELSE IF At(buf[c], i) \in both THEN s[At(buf[c], i) - a + 1] ELSE Spoilt]
  BY <1>1, <1>2 DEF Shared
<1>4. ASSUME NEW i \in DOMAIN text[c] PROVE Shared(c, b, a, s)[i] # Spoilt
  <2>1. PICK j \in Int : j = At(buf[c], i)
    <3>1. DOMAIN text[c] \subseteq Int /\ buf[c].off \in Nat
      BY DEF TypeOK
    <3> QED
      BY <3>1 DEF At
  <2>2. Shared(c, b, a, s)[i] = IF j \notin a..(a + n - 1) THEN text[c][i]
                                ELSE IF j \in both THEN s[j - a + 1] ELSE Spoilt
    BY <1>3, <2>1
  <2>3. CASE j \notin a..(a + n - 1)
    BY <2>2, <2>3 DEF Unspoilt
  <2>4. CASE j \in a..(a + n - 1)
    <3>1. j \in Part(b)
      BY <1>1, <2>4
    <3>2. j \in both
      BY <1>2, <2>1, <3>1
    <3>3. j - a + 1 \in 1..Len(s)
      BY <1>1, <2>4
    <3>4. s[j - a + 1] \in Bytes
      BY <3>3
    <3> QED
      BY <2>2, <2>4, <3>2, <3>4, BufAssumption
  <2> QED
    BY <2>3, <2>4
<1>5. DOMAIN Shared(c, b, a, s) = DOMAIN text[c]
  BY <1>3
<1> QED
  BY <1>4, <1>5 DEF Unspoilt

-----------------------------------------------------------------------------
(* The invariant, buffer by buffer.                                        *)

Types ==
  /\ live \subseteq Bufs /\ mem \in [0..(Cap - 1) -> Bytes]
  /\ buf \in [Bufs -> Fields] /\ text \in [Bufs -> Seq(Symbols)]
  /\ drained \subseteq Bufs /\ refilled \in BOOLEAN

\* What the invariant says of the buffer b with the fields x, whose users expect q;
\* exists, read and calm: whether b is in live, in drained, and nothing is refilled.
Row(b, x, q, m, exists, read, calm) ==
  /\ x.orig <= x.off /\ (b \in Views => x.len <= x.size)
  /\ x.size = Empty(b).size /\ x.orig = Empty(b).orig
  /\ x.off # x.orig => read
  /\ ~exists => x = Empty(b) /\ q = <<>> /\ ~read
  /\ Tells(x, q, m)
  /\ calm => /\ b \in Views => x.off + x.len <= x.orig + x.size
             /\ b = Root /\ ~read => x.len <= Cap
             /\ Unspoilt(q)

LEMMA Rows ==
  ASSUME IInv
  PROVE  /\ Types
         /\ \A b \in Bufs :
              Row(b, buf[b], text[b], mem, b \in live, b \in drained, ~refilled)
<1>1. Types
  BY DEF IInv, TypeOK, Types, Fields, Symbols
<1>2. ASSUME NEW b \in Bufs
      PROVE  Row(b, buf[b], text[b], mem, b \in live, b \in drained, ~refilled)
  BY DEF IInv, TypeOK, Fixed, Kept, Contents, Row
<1> QED
  BY <1>1, <1>2

LEMMA RowsSuffice ==
  ASSUME Types,
         \A b \in Bufs :
           Row(b, buf[b], text[b], mem, b \in live, b \in drained, ~refilled)
  PROVE  IInv
<1>1. Views \subseteq Bufs /\ Root \in Bufs
  BY DEF Bufs
<1>2. TypeOK
  BY <1>1 DEF Types, TypeOK, Fields, Symbols, Row
<1>3. Fixed
  BY DEF Fixed, Row
<1>4. Kept
  BY <1>1 DEF Kept, Row
<1>5. Contents
  BY DEF Contents, Row
<1> QED
  BY <1>2, <1>3, <1>4, <1>5 DEF IInv

LEMMA RowsSufficeNext ==
  ASSUME Types',
         \A b \in Bufs :
           Row(b, buf'[b], text'[b], mem', b \in live', b \in drained', ~refilled')
  PROVE  IInv'
<1>1. Views \subseteq Bufs /\ Root \in Bufs
  BY DEF Bufs
<1>2. TypeOK'
  BY <1>1 DEF Types, TypeOK, Fields, Symbols, Row
<1>3. Fixed'
  BY DEF Fixed, Row, Empty
<1>4. Kept'
  BY <1>1 DEF Kept, Row
<1>5. Contents'
  BY DEF Contents, Row
<1> QED
  BY <1>2, <1>3, <1>4, <1>5 DEF IInv

\* The operations that change one buffer and not the memory.
LEMMA OneRow ==
  ASSUME IInv, NEW b \in Bufs, NEW x \in Fields, NEW q \in Seq(Symbols),
         buf' = [buf EXCEPT ![b] = x], text' = [text EXCEPT ![b] = q],
         UNCHANGED <<mem, refilled>>, live' \subseteq Bufs, drained' \subseteq Bufs,
         live' \ {b} = live \ {b}, drained' \ {b} = drained \ {b},
         Row(b, x, q, mem, b \in live', b \in drained', ~refilled)
  PROVE  IInv'
<1>1. Types'
  BY Rows DEF Types
<1>2. ASSUME NEW c \in Bufs
      PROVE  Row(c, buf'[c], text'[c], mem', c \in live', c \in drained', ~refilled')
  <2>1. CASE c = b
    <3>1. buf'[b] = x /\ text'[b] = q /\ mem' = mem /\ refilled' = refilled
      BY Rows DEF Types
    <3> QED
      BY <2>1, <3>1
  <2>2. CASE c # b
    <3>1. /\ buf'[c] = buf[c] /\ text'[c] = text[c] /\ mem' = mem
          /\ refilled' = refilled
      BY <2>2, Rows DEF Types
    <3>2. /\ (c \in live') = (c \in live)
          /\ (c \in drained') = (c \in drained)
      BY <2>2
    <3>3. Row(c, buf[c], text[c], mem, c \in live, c \in drained, ~refilled)
      BY Rows
    <3> QED
      BY <3>1, <3>2, <3>3
  <2> QED
    BY <2>1, <2>2
<1> QED
  BY <1>1, <1>2, RowsSufficeNext

-----------------------------------------------------------------------------
(* Steps.                                                                  *)

\* What a buffer that is calm offers of the part of another is in its own part.
LEMMA OwnPart ==
  ASSUME IInv, ~refilled, NEW b \in Bufs, NEW c \in Bufs, NEW i \in DOMAIN text[c],
         At(buf[c], i) \in Part(b)
  PROVE  At(buf[c], i) \in Part(c)
<1>1. PICK j \in Int : j = At(buf[c], i)
  <2>1. DOMAIN text[c] \subseteq Int /\ buf[c].off \in Nat
    BY Rows DEF Types, Fields
  <2> QED
    BY <2>1 DEF At
<1>2. Row(c, buf[c], text[c], mem, c \in live, c \in drained, TRUE)
  BY Rows
<1>3. PICK off \in Nat, len \in Nat, orig \in Nat, size \in Nat :
        /\ buf[c].off = off /\ buf[c].len = len
        /\ buf[c].orig = orig /\ buf[c].size = size
  BY Rows DEF Types, Fields
<1>4. CASE c = Root
  <2>1. orig = 0 /\ size = Cap /\ Cap \in Nat
    BY <1>2, <1>3, <1>4, BufAssumption DEF Row, Empty, Fresh
  <2>2. buf[b].orig = Empty(b).orig /\ buf[b].size = Empty(b).size
    BY Rows DEF Row
  <2>3. /\ buf[b].orig \in Nat /\ buf[b].size \in Nat
        /\ buf[b].orig + buf[b].size <= Cap
    BY <2>2, Inside DEF Fields
  <2>4. j \in buf[b].orig..(buf[b].orig + buf[b].size - 1)
    BY <1>1 DEF Part
  <2>5. j \in 0..(Cap - 1)
    BY <2>1, <2>3, <2>4
  <2> QED
    BY <1>1, <1>3, <2>1, <2>5 DEF Part
<1>5. CASE c \in Views
  <2>1. orig <= off /\ off + len <= orig + size
    BY <1>2, <1>3, <1>5 DEF Row
  <2>2. i \in 1..len /\ j = off + i - 1
    BY <1>1, <1>2, <1>3, Rows DEF Row, Tells, At, Types
  <2>3. j \in orig..(orig + size - 1)
    BY <2>1, <2>2
  <2> QED
    BY <1>1, <1>3, <2>3 DEF Part
<1> QED
  BY <1>4, <1>5 DEF Bufs

\* A write that fits, unless the root was adjusted past its size, keeps everything.
LEMMA StoreKeeps ==
  ASSUME IInv, NEW b \in Bufs, NEW o \in Int, NEW p \in Nat, NEW s \in Seq(Bytes),
         NEW advance \in BOOLEAN,
         p = IF o < 0 THEN buf[b].len + 1 + o ELSE o,
         b \in Views \/ (~refilled /\ b \notin drained) => p + Len(s) <= buf[b].size,
         Store(b, o, p, s, advance)
  PROVE  IInv'
<1>1. PICK size \in Nat, old \in Nat, off \in Nat, orig \in Nat :
        buf[b] = [size |-> size, len |-> old, off |-> off, orig |-> orig]
  BY Rows DEF Types, Fields
<1>2. PICK n \in Nat : n = Len(s)
  OBVIOUS
<1>3. PICK len \in Nat : len = IF advance THEN Greater(old, p + n) ELSE old
  <2>1. old \in Nat /\ Greater(old, p + n) \in Nat
    BY <1>1, <1>2 DEF Greater
  <2> QED
    BY <2>1
<1>4. PICK x \in Fields : x = [size |-> size, len |-> len, off |-> off, orig |-> orig]
  BY DEF Fields
<1>5. PICK a \in Nat : a = off + p
  OBVIOUS
<1>6. PICK m : m = Poke(a, s)
  OBVIOUS
<1>7. /\ buf' = [buf EXCEPT ![b] = x] /\ mem' = m
      /\ text' = [c \in Bufs |-> IF c = b THEN Written(b, o, s, advance)
                                          ELSE Shared(c, b, a, s)]
      /\ refilled' = (refilled \/ b \in drained)
      /\ UNCHANGED <<live, drained>> /\ b \in live
  <2>1. (IF advance THEN Greater(buf[b].len, p + Len(s)) ELSE buf[b].len) = len
    BY <1>1, <1>2, <1>3
  <2>2. buf' = [buf EXCEPT ![b].len = len]
    BY <2>1 DEF Store
  <2>3. [buf[b] EXCEPT !.len = len] = x
    BY <1>1, <1>4
  <2>4. buf[b].off + p = a
    BY <1>1, <1>5
  <2> QED
    BY <1>6, <2>2, <2>3, <2>4 DEF Store
<1>8. m \in [0..(Cap - 1) -> Bytes]
  BY <1>6, Poked DEF IInv
<1>9. /\ Row(b, buf[b], text[b], mem, TRUE, b \in drained, ~refilled)
      /\ Row(b, buf[b], text[b], mem, TRUE, b \in drained, ~refilled) =>
           /\ orig <= off /\ (b \in Views => old <= size)
           /\ size = Empty(b).size /\ orig = Empty(b).orig
           /\ off # orig => b \in drained
  <2>1. Row(b, buf[b], text[b], mem, b \in live, b \in drained, ~refilled)
    BY Rows
  <2>2. (b \in live) = TRUE
    BY <1>7
  <2> QED
    BY <1>1, <2>1, <2>2 DEF Row
<1>10. PICK w : w = Written(b, o, s, advance)
  OBVIOUS
<1>11. /\ w \in Seq(Symbols) /\ Tells(x, w, m)
       /\ Unspoilt(text[b]) => Unspoilt(w)
  <2>1. /\ x.off = buf[b].off
        /\ x.len = IF advance THEN Greater(buf[b].len, p + Len(s)) ELSE buf[b].len
    <3>1. buf[b].off = off /\ buf[b].len = old /\ x.off = off /\ x.len = len
      BY <1>1, <1>4
    <3> QED
      BY <1>2, <1>3, <3>1
  <2>2. m = Poke(buf[b].off + p, s)
    BY <1>1, <1>5, <1>6
  <2>3. TypeOK /\ Tells(buf[b], text[b], mem)
    BY DEF IInv, Contents
  <2> QED
    BY <1>10, <2>1, <2>2, <2>3, WrittenTells
<1>12. ASSUME ~refilled, b \notin drained PROVE p + n <= size /\ off = orig
  BY <1>1, <1>2, <1>9, <1>12
<1>13. Row(b, x, w, m, TRUE, b \in drained, ~refilled')
  <2>1. b \in Views => len <= size
    BY <1>1, <1>2, <1>3, <1>9 DEF Greater
  <2>2. ASSUME ~refilled'
        PROVE  /\ b \in Views => off + len <= orig + size
               /\ b = Root /\ b \notin drained => len <= Cap
               /\ Unspoilt(w)
    <3>1. ~refilled /\ b \notin drained
      BY <1>7, <2>2
    <3>2. Unspoilt(text[b]) /\ (b = Root => old <= Cap)
      BY <1>1, <1>9, <3>1 DEF Row
    <3>3. b = Root => size = Cap /\ Cap \in Nat
      BY <1>9, BufAssumption DEF Empty, Fresh
    <3>4. b = Root => len <= Cap
      BY <1>3, <1>12, <3>1, <3>2, <3>3 DEF Greater
    <3>5. b \in Views => off + len <= orig + size
      BY <1>12, <2>1, <3>1
    <3> QED
      BY <1>11, <3>2, <3>4, <3>5
  <2>3. x.len = len /\ x.off = off /\ x.orig = orig /\ x.size = size
    BY <1>4
  <2> QED
    BY <1>9, <1>11, <2>1, <2>2, <2>3 DEF Row
<1>14. ASSUME NEW c \in Bufs, c # b
       PROVE  /\ text'[c] \in Seq(Symbols)
              /\ Row(c, buf[c], text'[c], m, c \in live, c \in drained, ~refilled')
  <2>1. PICK q : q = Shared(c, b, a, s)
    OBVIOUS
  <2>2. text'[c] = q
    BY <1>7, <1>14, <2>1
  <2>3. q \in Seq(Symbols) /\ Tells(buf[c], q, m)
    <3>1. TypeOK /\ Fixed /\ Tells(buf[c], text[c], mem)
      BY DEF IInv, Contents
    <3> QED
      BY <1>6, <2>1, <3>1, SharedTells
  <2>4. Row(c, buf[c], text[c], mem, c \in live, c \in drained, ~refilled)
    BY Rows
  <2>5. c \notin live => q = <<>>
    <3>1. c \notin live => buf[c].len = 0
      BY <2>4, Inside DEF Row
    <3> QED
      BY <2>3, <3>1 DEF Tells
  <2>6. ASSUME ~refilled' PROVE Unspoilt(q) /\ ~refilled
    <3>1. ~refilled /\ b \notin drained
      BY <1>7, <2>6
    <3>2. a..(a + Len(s) - 1) \subseteq Part(b)
      <4>1. a = orig + p /\ p + n <= size
        BY <1>5, <1>12, <3>1
      <4>2. StoredInside(b, a, p, n)
        BY <1>1, <4>1 DEF StoredInside
      <4> QED
        BY <1>2, <4>2, StoredInPart
    <3>3. \A i \in DOMAIN text[c] : At(buf[c], i) \in Part(b) => At(buf[c], i) \in Part(c)
      BY <3>1, OwnPart
    <3>4. TypeOK /\ Unspoilt(text[c])
      BY <2>4, <3>1 DEF Row, IInv
    <3> QED
      BY <2>1, <3>1, <3>2, <3>3, <3>4, SharedUnspoilt
  <2> QED
    BY <2>2, <2>3, <2>4, <2>5, <2>6 DEF Row
<1>15. Types'
  <2>1. text' \in [Bufs -> Seq(Symbols)]
    <3>1. \A c \in Bufs : text'[c] \in Seq(Symbols)
      BY <1>7, <1>10, <1>11, <1>14
    <3> QED
      BY <1>7, <3>1
  <2>2. buf' \in [Bufs -> Fields]
    BY <1>7, Rows DEF Types
  <2> QED
    BY <1>7, <1>8, <2>1, <2>2, Rows DEF Types
<1>16. ASSUME NEW c \in Bufs
       PROVE  Row(c, buf'[c], text'[c], mem', c \in live', c \in drained', ~refilled')
  <2>1. CASE c = b
    <3>1. buf'[b] = x /\ text'[b] = w /\ mem' = m /\ (b \in live') = TRUE
          /\ drained' = drained
      BY <1>7, <1>10, Rows DEF Types
    <3> QED
      BY <1>13, <2>1, <3>1
  <2>2. CASE c # b
    <3>1. buf'[c] = buf[c] /\ mem' = m /\ live' = live /\ drained' = drained
      BY <1>7, <2>2, Rows DEF Types
    <3> QED
      BY <1>14, <2>2, <3>1
  <2> QED
    BY <2>1, <2>2
<1> QED
  BY <1>15, <1>16, RowsSufficeNext

LEMMA Suffix ==
  ASSUME NEW S, NEW q \in Seq(S), NEW n \in Nat, NEW len \in Nat,
         len = Len(q), n <= len
  PROVE  /\ SubSeq(q, n + 1, len) \in Seq(S)
         /\ Len(SubSeq(q, n + 1, len)) = len - n
         /\ \A i \in 1..(len - n) : SubSeq(q, n + 1, len)[i] = q[n + i]
OBVIOUS

LEMMA ConsumeKeeps ==
  ASSUME IInv, NEW b \in Bufs, NEW n \in Nat, n <= buf[b].len, Consume(b, n)
  PROVE  IInv'
<1>1. PICK size \in Nat, len \in Nat, off \in Nat, orig \in Nat :
        buf[b] = [size |-> size, len |-> len, off |-> off, orig |-> orig]
  BY Rows DEF Types, Fields
<1>2. PICK old \in Seq(Symbols) : old = text[b]
  BY Rows DEF Types
<1>3. PICK q : q = SubSeq(old, n + 1, len)
  OBVIOUS
<1>4. PICK x : x = [size |-> size, len |-> len - n, off |-> off + n, orig |-> orig]
  OBVIOUS
<1>5. Row(b, buf[b], old, mem, b \in live, b \in drained, ~refilled)
  BY <1>2, Rows
<1>6. /\ n <= len /\ Len(old) = len
      /\ \A i \in 1..len : old[i] \in Bytes =>
                             off + i - 1 \in DOMAIN mem /\ old[i] = mem[off + i - 1]
  BY <1>1, <1>5 DEF Row, Tells, At
<1>7. /\ q \in Seq(Symbols) /\ Len(q) = len - n
      /\ \A i \in 1..(len - n) : q[i] = old[n + i]
  BY <1>3, <1>6, Suffix
<1>8. x \in Fields
  BY <1>4, <1>6 DEF Fields
<1>9. /\ buf' = [buf EXCEPT ![b] = x] /\ text' = [text EXCEPT ![b] = q]
      /\ UNCHANGED <<live, mem, refilled>> /\ b \in live
      /\ drained' = drained \cup {b}
  <2>1. Window(buf[b], buf[b].off + n, buf[b].len - n) = x
    BY <1>1, <1>4 DEF Window
  <2>2. SubSeq(text[b], n + 1, Len(text[b])) = q
    BY <1>2, <1>3, <1>6
  <2>3. /\ buf' = [buf EXCEPT ![b] = Window(buf[b], buf[b].off + n, buf[b].len - n)]
        /\ text' = [text EXCEPT ![b] = SubSeq(text[b], n + 1, Len(text[b]))]
    BY DEF Consume
  <2> QED
    BY <2>1, <2>2, <2>3 DEF Consume
<1>10. ASSUME NEW i \in 1..(len - n)
       PROVE  /\ q[i] \in Bytes => off + n + i - 1 \in DOMAIN mem
                                    /\ q[i] = mem[off + n + i - 1]
              /\ Unspoilt(old) => q[i] # Spoilt
  <2>1. PICK j \in 1..len : j = n + i
    BY <1>6
  <2>2. q[i] = old[j] /\ off + n + i - 1 = off + j - 1
    BY <1>7, <2>1
  <2>3. j \in DOMAIN old
    BY <1>6
  <2> QED
    BY <1>6, <2>1, <2>2, <2>3 DEF Unspoilt
<1>11. Tells(x, q, mem)
  <2>1. x.off = off + n /\ x.len = len - n
    BY <1>4
  <2> QED
    BY <1>7, <1>10, <2>1 DEF Tells, At
<1>12. Unspoilt(old) => Unspoilt(q)
  <2>1. DOMAIN q = 1..(len - n)
    BY <1>7
  <2> QED
    BY <1>10, <2>1 DEF Unspoilt
<1>13. Row(b, x, q, mem, TRUE, TRUE, ~refilled)
  <2>1. /\ orig <= off /\ (b \in Views => len <= size)
        /\ size = Empty(b).size /\ orig = Empty(b).orig
        /\ ~refilled => /\ b \in Views => off + len <= orig + size
                        /\ Unspoilt(old)
    BY <1>1, <1>5 DEF Row
  <2>2. /\ orig <= off + n /\ (b \in Views => len - n <= size)
        /\ ~refilled /\ b \in Views => off + n + (len - n) <= orig + size
    BY <1>6, <2>1
  <2>3. x.size = size /\ x.len = len - n /\ x.off = off + n /\ x.orig = orig
    BY <1>4
  <2> QED
    BY <1>11, <1>12, <2>1, <2>2, <2>3 DEF Row
<1>14. (b \in live') = TRUE /\ (b \in drained') = TRUE
  BY <1>9
<1>15. Row(b, x, q, mem, b \in live', b \in drained', ~refilled)
  BY <1>13, <1>14
<1>16. live' \subseteq Bufs /\ drained' \subseteq Bufs
  BY <1>9, Rows DEF Types
<1> QED
  BY <1>7, <1>8, <1>9, <1>15, <1>16, OneRow

\* An empty buffer at its first position satisfies the invariant in any memory.
LEMMA EmptyRow ==
  ASSUME NEW b \in Bufs, NEW m, NEW exists, NEW calm
  PROVE  Row(b, Empty(b), <<>>, m, exists, FALSE, calm)
<1>1. Tells(Empty(b), <<>>, m) /\ Unspoilt(<<>>)
  BY Inside DEF Tells, Unspoilt
<1>2. PICK x \in Fields : x = Empty(b)
  BY Inside
<1>3. x.len = 0 /\ x.off = x.orig /\ x.orig \in Nat /\ x.size \in Nat /\ Cap \in Nat
  BY <1>2, Inside, BufAssumption DEF Fields
<1>4. /\ x.orig <= x.off /\ x.len <= x.size /\ x.len <= Cap
      /\ x.off + x.len <= x.orig + x.size
  BY <1>3
<1> QED
  BY <1>1, <1>2, <1>3, <1>4 DEF Row

LEMMA ResetKeeps ==
  ASSUME IInv, NEW b \in Bufs, Reset(b) PROVE IInv'
<1>1. /\ Empty(b) \in Fields /\ Empty(b).len = 0 /\ Empty(b).off = Empty(b).orig
      /\ buf[b].size = Empty(b).size /\ buf[b].orig = Empty(b).orig
  BY Inside, Rows DEF Row
<1>2. Window(buf[b], buf[b].orig, 0) = Empty(b)
  BY <1>1 DEF Window, Fields
<1>3. /\ buf' = [buf EXCEPT ![b] = Empty(b)] /\ text' = [text EXCEPT ![b] = <<>>]
      /\ UNCHANGED <<live, mem, refilled>> /\ drained' = drained \ {b}
  BY <1>2 DEF Reset
<1>4. (b \in drained') = FALSE
  BY <1>3
<1>5. Row(b, Empty(b), <<>>, mem, b \in live', b \in drained', ~refilled)
  BY <1>4, EmptyRow
<1>6. /\ live' \subseteq Bufs /\ drained' \subseteq Bufs /\ <<>> \in Seq(Symbols)
      /\ live' \ {b} = live \ {b} /\ drained' \ {b} = drained \ {b}
  BY <1>3, Rows DEF Types
<1> QED
  BY <1>1, <1>3, <1>5, <1>6, OneRow

LEMMA DestroyKeeps ==
  ASSUME IInv, NEW b \in Bufs, Destroy(b) PROVE IInv'
<1>1. /\ buf' = [buf EXCEPT ![b] = Empty(b)] /\ text' = [text EXCEPT ![b] = <<>>]
      /\ UNCHANGED <<mem, refilled>> /\ live' = live \ {b} /\ drained' = drained \ {b}
  BY DEF Destroy
<1>2. (b \in drained') = FALSE
  BY <1>1
<1>3. Row(b, Empty(b), <<>>, mem, b \in live', b \in drained', ~refilled)
  BY <1>2, EmptyRow
<1>4. /\ live' \subseteq Bufs /\ drained' \subseteq Bufs /\ <<>> \in Seq(Symbols)
      /\ live' \ {b} = live \ {b} /\ drained' \ {b} = drained \ {b}
  BY <1>1, Rows DEF Types
<1> QED
  BY <1>1, <1>3, <1>4, Inside, OneRow

\* The root comes to offer what the sub-buffer offers, and nothing else is new.
LEMMA AdjustKeeps ==
  ASSUME IInv, NEW v \in Views, AdjustOffset(v) PROVE IInv'
<1>1. v \in Bufs /\ Root \in Bufs /\ Root \notin Views
  BY BufAssumption DEF Bufs
<1>2. PICK size \in Nat, old \in Nat, off \in Nat, orig \in Nat :
        buf[Root] = [size |-> size, len |-> old, off |-> off, orig |-> orig]
  BY <1>1, Rows DEF Types, Fields
<1>3. PICK from \in Nat, n \in Nat : buf[v].off = from /\ buf[v].len = n
  BY <1>1, Rows DEF Types, Fields
<1>4. PICK q \in Seq(Symbols), known \in Seq(Symbols) : q = text[Root] /\ known = text[v]
  BY <1>1, Rows DEF Types
<1>5. /\ Row(Root, buf[Root], q, mem, Root \in live, Root \in drained, ~refilled)
      /\ Row(v, buf[v], known, mem, v \in live, v \in drained, ~refilled)
  BY <1>1, <1>4, Rows
<1>6. /\ Len(q) = old
      /\ \A i \in 1..old : q[i] \in Bytes =>
                             off + i - 1 \in DOMAIN mem /\ q[i] = mem[off + i - 1]
      /\ DOMAIN known = 1..n
      /\ \A i \in 1..n : known[i] \in Bytes =>
                             from + i - 1 \in DOMAIN mem /\ known[i] = mem[from + i - 1]
  BY <1>2, <1>3, <1>5 DEF Row, Tells, At
<1>7. PICK len \in Nat : len = Greater(old, from + n)
  BY DEF Greater
<1> DEFINE k(i) == off + i - 1 - from + 1
           W(i) == IF i <= Len(q) THEN q[i]
                   ELSE IF k(i) \in DOMAIN known THEN known[k(i)] ELSE Unknown
<1>8. PICK w : w = [i \in 1..Greater(Len(text[Root]), buf[v].off + buf[v].len) |->
                     IF i <= Len(text[Root]) THEN text[Root][i]
                     ELSE IF At(buf[Root], i) - buf[v].off + 1 \in DOMAIN text[v]
                          THEN text[v][At(buf[Root], i) - buf[v].off + 1] ELSE Unknown]
  OBVIOUS
<1>9. PICK x \in Fields : x = [size |-> size, len |-> len, off |-> off, orig |-> orig]
  BY DEF Fields
<1>10. /\ buf' = [buf EXCEPT ![Root] = x] /\ text' = [text EXCEPT ![Root] = w]
       /\ UNCHANGED <<live, mem, drained, refilled>> /\ Root \in live
  <2>1. Greater(buf[Root].len, buf[v].off + buf[v].len) = len
    BY <1>2, <1>3, <1>7
  <2>2. [buf[Root] EXCEPT !.len = Greater(@, buf[v].off + buf[v].len)] = x
    BY <1>2, <1>9, <2>1
  <2>3. buf' = [buf EXCEPT ![Root] = x]
    BY <2>2 DEF AdjustOffset
  <2> QED
    BY <1>8, <2>3 DEF AdjustOffset
<1>10a. DOMAIN w = 1..len /\ w = [i \in 1..len |-> w[i]] /\ \A i \in 1..len : w[i] = W(i)
  <2>1. Greater(Len(text[Root]), buf[v].off + buf[v].len) = len
    BY <1>3, <1>4, <1>6, <1>7
  <2>2. buf[Root].off = off
    BY <1>2
  <2>3. DOMAIN w = 1..len /\ w = [i \in 1..len |-> w[i]]
    BY <1>8, <2>1
  <2>4. ASSUME NEW i \in 1..len PROVE w[i] = W(i)
    BY <1>3, <1>4, <1>8, <2>1, <2>2 DEF At
  <2> QED
    BY <2>3, <2>4
<1>11. ASSUME NEW i \in 1..len
       PROVE  /\ w[i] \in Symbols
              /\ w[i] \in Bytes => off + i - 1 \in DOMAIN mem /\ w[i] = mem[off + i - 1]
              /\ Unspoilt(q) /\ Unspoilt(known) => w[i] # Spoilt
  <2>1. w[i] = W(i) /\ Unknown \notin Bytes /\ Unknown # Spoilt
    BY <1>10a, BufAssumption
  <2>2. CASE i <= old
    <3>1. i \in 1..Len(q) /\ w[i] = q[i]
      BY <1>6, <2>1, <2>2
    <3>2. q[i] \in Symbols /\ (Unspoilt(q) => q[i] # Spoilt)
      BY <3>1 DEF Unspoilt
    <3> QED
      BY <1>6, <3>1, <3>2
  <2>3. CASE i > old /\ k(i) \in 1..n
    <3>1. PICK j \in 1..n : j = k(i)
      BY <2>3
    <3>2. w[i] = known[j]
      BY <1>6, <2>1, <2>3, <3>1
    <3>3. known[j] \in Symbols /\ (Unspoilt(known) => known[j] # Spoilt)
      BY <1>6 DEF Unspoilt
    <3>4. from + j - 1 = off + i - 1
      BY <3>1
    <3> QED
      BY <1>6, <3>2, <3>3, <3>4
  <2>4. CASE i > old /\ k(i) \notin 1..n
    <3>1. w[i] = Unknown
      BY <1>6, <2>1, <2>4
    <3> QED
      BY <2>1, <3>1 DEF Symbols
  <2> QED
    BY <2>2, <2>3, <2>4
<1> HIDE DEF W
<1>12. w \in Seq(Symbols) /\ Len(w) = len
  <2>1. w \in [1..len -> Symbols]
    BY <1>11, <1>10a
  <2> QED
    BY <2>1, MakeSeq
<1>13. Tells(x, w, mem)
  <2>1. x.off = off /\ x.len = len
    BY <1>9
  <2> QED
    BY <1>11, <1>12, <2>1 DEF Tells, At
<1>14. ASSUME ~refilled PROVE Unspoilt(w) /\ (Root \notin drained => len <= Cap)
  <2>1. Unspoilt(q) /\ Unspoilt(known) /\ (Root \notin drained => old <= Cap)
    BY <1>2, <1>5, <1>14 DEF Row
  <2>2. DOMAIN w = 1..len
    BY <1>10a
  <2>3. Unspoilt(w)
    BY <1>11, <2>1, <2>2 DEF Unspoilt
  <2>4. /\ from + n <= Empty(v).orig + Empty(v).size
        /\ Empty(v).orig + Empty(v).size <= Cap
    <3>1. buf[v].off + buf[v].len <= buf[v].orig + buf[v].size
      BY <1>5, <1>14 DEF Row
    <3>2. buf[v].orig = Empty(v).orig /\ buf[v].size = Empty(v).size
      BY <1>5 DEF Row
    <3> QED
      BY <1>1, <1>3, <3>1, <3>2, Inside
  <2>5. Empty(v).orig \in Nat /\ Empty(v).size \in Nat /\ Cap \in Nat
    BY <1>1, Inside, BufAssumption DEF Fields
  <2>6. from + n <= Cap
    BY <2>4, <2>5
  <2>7. Root \notin drained => len <= Cap
    BY <1>7, <2>1, <2>6 DEF Greater
  <2> QED
    BY <2>3, <2>7
<1>15. Row(Root, x, w, mem, TRUE, Root \in drained, ~refilled)
  <2>1. /\ orig <= off /\ size = Empty(Root).size /\ orig = Empty(Root).orig
        /\ off # orig => Root \in drained
    BY <1>2, <1>5 DEF Row
  <2>2. x.size = size /\ x.len = len /\ x.off = off /\ x.orig = orig
    BY <1>9
  <2> QED
    BY <1>1, <1>13, <1>14, <2>1, <2>2 DEF Row
<1>16. /\ (Root \in live') = TRUE /\ (Root \in drained') = (Root \in drained)
       /\ live' = live /\ drained' = drained
       /\ live' \subseteq Bufs /\ drained' \subseteq Bufs
  BY <1>10, Rows DEF Types
<1>17. Row(Root, x, w, mem, Root \in live', Root \in drained', ~refilled)
  BY <1>15, <1>16
<1> QED
  BY <1>1, <1>10, <1>12, <1>16, <1>17, OneRow

\* Construction: the buffer is empty already, the memory is new or stays.
LEMMA NewKeeps ==
  ASSUME IInv, New \/ \E v \in Views : NewView(v) PROVE IInv'
<1>1. CASE New
  <2>1. /\ live = {} /\ live' = {Root} /\ mem' = [i \in 0..(Cap - 1) |-> 0]
        /\ refilled' = FALSE /\ UNCHANGED <<buf, text, drained>>
    BY <1>1 DEF New
  <2>2. Types'
    BY <2>1, Rows, BufAssumption DEF Types, Bufs
  <2>3. ASSUME NEW b \in Bufs
        PROVE  Row(b, buf'[b], text'[b], mem', b \in live', b \in drained', ~refilled')
    <3>1. Row(b, buf[b], text[b], mem, b \in live, b \in drained, ~refilled)
      BY Rows
    <3>2. b \notin live
      BY <2>1
    <3>3. buf[b] = Empty(b) /\ text[b] = <<>> /\ b \notin drained
      BY <3>1, <3>2 DEF Row
    <3>4. buf' = buf /\ text' = text /\ (b \in drained') = FALSE
      BY <2>1, <3>3
    <3> QED
      BY <3>3, <3>4, EmptyRow
  <2> QED
    BY <2>2, <2>3, RowsSufficeNext
<1>2. CASE \E v \in Views : NewView(v)
  <2>1. PICK v \in Views : NewView(v)
    BY <1>2
  <2>2. v \notin live /\ live' = live \cup {v} /\ v \in Bufs
        /\ UNCHANGED <<buf, mem, text, drained, refilled>>
    BY <2>1 DEF NewView, Bufs
  <2>3. Types'
    BY <2>2, Rows DEF Types
  <2>4. ASSUME NEW b \in Bufs
        PROVE  Row(b, buf'[b], text'[b], mem', b \in live', b \in drained', ~refilled')
    <3>1. Row(b, buf[b], text[b], mem, b \in live, b \in drained, ~refilled)
      BY Rows
    <3>2. b \in live => b \in live'
      BY <2>2
    <3>3. Row(b, buf[b], text[b], mem, b \in live', b \in drained, ~refilled)
      BY <3>1, <3>2 DEF Row
    <3>4. buf' = buf /\ text' = text /\ mem' = mem /\ drained' = drained
          /\ refilled' = refilled
      BY <2>2
    <3> QED
      BY <3>3, <3>4
  <2> QED
    BY <2>3, <2>4, RowsSufficeNext
<1> QED
  BY <1>1, <1>2

\* As long as nothing is refilled, and in a sub-buffer ever, the length is at most
\* the size.
LEMMA Fits ==
  ASSUME IInv, NEW b \in Bufs, b \in Views \/ (~refilled /\ b \notin drained)
  PROVE  buf[b].len <= buf[b].size
<1>1. Row(b, buf[b], text[b], mem, b \in live, b \in drained, ~refilled)
  BY Rows
<1>2. CASE b \in Views
  BY <1>1, <1>2 DEF Row
<1>3. CASE b \notin Views
  <2>1. b = Root /\ ~refilled /\ b \notin drained
    BY <1>3 DEF Bufs
  <2> QED
    BY <1>1, <2>1 DEF Row, Empty, Fresh
<1> QED
  BY <1>2, <1>3

\* The room at the place p for n bytes in a buffer of the given size.
RoomAt(p, n, size) == IF p > size THEN n ELSE size - p

LEMMA Room ==
  ASSUME NEW n \in Nat, NEW p \in Nat, NEW size \in Nat
  PROVE  /\ Lesser(n, RoomAt(p, n, size)) \in Nat /\ Lesser(n, RoomAt(p, n, size)) <= n
         /\ p <= size => p + Lesser(n, RoomAt(p, n, size)) <= size
BY DEF Lesser, RoomAt

\* Every write puts what fits at a place it checked.
LEMMA WritesKeep ==
  ASSUME IInv, NEW b \in Bufs, NEW s \in Seq(Bytes), NEW o \in Int,
         NEW advance \in BOOLEAN,
         Write(b, s, o, advance) \/ WriteNumber(b, s, o, advance)
  PROVE  IInv'
<1>1. WriteAt(buf[b], o) >= 0 /\ TypeOK
  BY DEF Write, WriteNumber, IInv
<1>2. PICK p \in Nat : p = WriteAt(buf[b], o)
  BY <1>1, WritePlace
<1>3. /\ p <= buf[b].size \/ p <= buf[b].len
      /\ p = IF o < 0 THEN buf[b].len + 1 + o ELSE o
  BY <1>1, <1>2, WritePlace
<1>4. PICK size \in Nat, len \in Nat, n \in Nat :
        size = buf[b].size /\ len = buf[b].len /\ n = Len(s)
  BY Rows DEF Types, Fields
<1>5. b \in Views \/ (~refilled /\ b \notin drained) => p <= size
  <2>1. b \in Views \/ (~refilled /\ b \notin drained) => len <= size
    BY <1>4, Fits
  <2> QED
    BY <1>3, <1>4, <2>1
<1>6. CASE WriteNumber(b, s, o, advance)
  <2>1. p + Len(s) <= buf[b].size /\ Store(b, o, p, s, advance)
    BY <1>2, <1>6 DEF WriteNumber
  <2> QED
    BY <1>3, <2>1, StoreKeeps
<1>7. CASE Write(b, s, o, advance)
  <2>1. PICK k \in Nat : k = Lesser(n, RoomAt(p, n, size))
    BY Room
  <2>2. k <= n /\ (p <= size => p + k <= size)
    BY <2>1, Room
  <2>3. SubSeq(s, 1, k) \in Seq(Bytes) /\ Len(SubSeq(s, 1, k)) = k
    BY <1>4, <2>2
  <2>4. Store(b, o, p, SubSeq(s, 1, k), advance)
    BY <1>2, <1>4, <1>7, <2>1 DEF Write, RoomAt
  <2>5. b \in Views \/ (~refilled /\ b \notin drained)
          => p + Len(SubSeq(s, 1, k)) <= buf[b].size
    BY <1>4, <1>5, <2>2, <2>3
  <2> QED
    BY <1>3, <2>3, <2>4, <2>5, StoreKeeps
<1> QED
  BY <1>6, <1>7

LEMMA AdvanceWriteKeeps ==
  ASSUME IInv, NEW b \in Bufs, NEW s \in Seq(Bytes), AdvanceWrite(b, s)
  PROVE  IInv'
<1>1. PICK size \in Nat, len \in Nat, n \in Nat :
        size = buf[b].size /\ len = buf[b].len /\ n = Len(s)
  BY Rows DEF Types, Fields
<1>2. PICK o \in Int : o = -1
  OBVIOUS
<1>3. PICK advance \in BOOLEAN : Store(b, o, len, s, advance)
  <2>1. Store(b, o, len, s, len + n <= size)
    BY <1>1, <1>2 DEF AdvanceWrite
  <2>2. CASE len + n <= size
    <3>1. (len + n <= size) = TRUE
      BY <2>2
    <3> QED
      BY <2>1, <3>1
  <2>3. CASE ~(len + n <= size)
    <3>1. (len + n <= size) = FALSE
      BY <2>3
    <3> QED
      BY <2>1, <3>1
  <2> QED
    BY <2>2, <2>3
<1>4. len = IF o < 0 THEN buf[b].len + 1 + o ELSE o
  BY <1>1, <1>2
<1>5. len + n <= size \/ len > size
  BY <1>1 DEF AdvanceWrite
<1>6. b \in Views \/ (~refilled /\ b \notin drained) => len <= size
  BY <1>1, Fits
<1>7. b \in Views \/ (~refilled /\ b \notin drained) => len + Len(s) <= buf[b].size
  BY <1>1, <1>5, <1>6
<1> QED
  BY <1>3, <1>4, <1>7, StoreKeeps

LEMMA ReadsKeep ==
  ASSUME IInv, NEW b \in Bufs, NEW n \in Nat, Read(b, n) \/ ReadNumber(b, n)
  PROVE  IInv'
<1>1. CASE ReadNumber(b, n)
  BY <1>1, ConsumeKeeps DEF ReadNumber
<1>2. CASE Read(b, n)
  <2>1. buf[b].len \in Nat
    BY DEF IInv, TypeOK
  <2>2. Lesser(n, buf[b].len) \in Nat /\ Lesser(n, buf[b].len) <= buf[b].len
    BY <2>1 DEF Lesser
  <2> QED
    BY <1>2, <2>2, ConsumeKeeps DEF Read
<1> QED
  BY <1>1, <1>2

LEMMA NextKeeps ==
  ASSUME IInv, Next PROVE IInv'
<1>1. CASE New \/ \E v \in Views : NewView(v)
  BY <1>1, NewKeeps
<1>2. CASE \E v \in Views : AdjustOffset(v)
  BY <1>2, AdjustKeeps
<1>3. CASE \E b \in Bufs : Destroy(b) \/ Reset(b)
  BY <1>3, DestroyKeeps, ResetKeeps
<1>4. ASSUME NEW b \in Bufs, NEW s \in Data,
             \/ AdvanceWrite(b, s) \/ Read(b, Len(s)) \/ ReadNumber(b, Len(s))
             \/ \E o \in Offsets, advance \in BOOLEAN :
                  Write(b, s, o, advance) \/ WriteNumber(b, s, o, advance)
      PROVE  IInv'
  <2>1. s \in Seq(Bytes) /\ Len(s) \in Nat /\ Offsets \subseteq Int
    BY BufAssumption
  <2>2. CASE AdvanceWrite(b, s)
    BY <2>1, <2>2, AdvanceWriteKeeps
  <2>3. CASE Read(b, Len(s)) \/ ReadNumber(b, Len(s))
    BY <2>1, <2>3, ReadsKeep
  <2>4. ASSUME NEW o \in Offsets, NEW advance \in BOOLEAN,
               Write(b, s, o, advance) \/ WriteNumber(b, s, o, advance)
        PROVE  IInv'
    BY <2>1, <2>4, WritesKeep
  <2> QED
    BY <1>4, <2>2, <2>3, <2>4
<1> QED
  BY <1>1, <1>2, <1>3, <1>4 DEF Next

-----------------------------------------------------------------------------
(* Results.                                                                *)

\* Sizes and first positions of the buffers never change, the bytes that the users
\* of a buffer know are in the memory where the buffer offers them, and as long as
\* no buffer is written after it was read, unless it was reset in between, they stay
\* in the part of the memory that the buffer was made for: in every state, of any
\* number of sub-buffers that may overlap, be written at any offset and outlive the
\* root.
THEOREM Inductive == Spec => []IInv
<1>1. Init => IInv
  <2> SUFFICES ASSUME Init PROVE IInv
    OBVIOUS
  <2>1. /\ live = {Root} /\ mem = [i \in 0..(Cap - 1) |-> 0]
        /\ buf = [b \in Bufs |-> Empty(b)] /\ text = [b \in Bufs |-> <<>>]
        /\ drained = {} /\ refilled = FALSE
    BY DEF Init
  <2>2. Types
    <3>1. buf \in [Bufs -> Fields] /\ text \in [Bufs -> Seq(Symbols)]
      BY <2>1, Inside
    <3> QED
      BY <2>1, <3>1, BufAssumption DEF Types, Bufs
  <2>3. ASSUME NEW b \in Bufs
        PROVE  Row(b, buf[b], text[b], mem, b \in live, b \in drained, ~refilled)
    <3>1. buf[b] = Empty(b) /\ text[b] = <<>> /\ (b \in drained) = FALSE
      BY <2>1
    <3> QED
      BY <3>1, EmptyRow
  <2> QED
    BY <2>2, <2>3, RowsSuffice
<1>2. IInv /\ [Next]_vars => IInv'
  <2> SUFFICES ASSUME IInv, [Next]_vars PROVE IInv'
    OBVIOUS
  <2>1. CASE Next
    BY <2>1, NextKeeps
  <2>2. CASE UNCHANGED vars
    BY <2>2 DEF vars, IInv, TypeOK, Fixed, Kept, Contents, Unspoilt, Tells, At, Empty
  <2> QED
    BY <2>1, <2>2
<1> QED
  BY <1>1, <1>2, PTL DEF Spec

\* The lengths and positions a buffer keeps stay numbers of their kind, and no
\* sub-buffer holds more than its size.
THEOREM TypeCorrect == Spec => []TypeOK
BY Inductive, PTL DEF IInv

\* As long as their users reset a buffer between reading from it and writing to it,
\* no sequence of operations makes a sub-buffer offer bytes outside the part of the
\* memory it was made for, nor lets one overwrite what another one offers outside
\* the memory that both were given.
THEOREM PartsStayApart == Spec => []PartsKept
<1>1. IInv => PartsKept
  BY DEF IInv, Kept, TypeOK, PartsKept
<1> QED
  BY <1>1, Inductive, PTL

\* Every byte that the users of a buffer know is the one they read, wherever reads,
\* writes, resets and adjustments moved the buffer's positions.
THEOREM ReadIsWritten == Spec => []ReadsWhatWasWritten
<1>1. IInv => ReadsWhatWasWritten
  BY DEF IInv, Contents, TypeOK, ReadsWhatWasWritten
<1> QED
  BY <1>1, Inductive, PTL
=============================================================================
