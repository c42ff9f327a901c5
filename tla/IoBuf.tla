------------------------------- MODULE IoBuf -------------------------------
(***************************************************************************)
(* io_buf (iobuf.hpp, impl/iobuf.hpp): a buffer and sub-buffers that share *)
(* its memory, each with a read and a write position of its own.           *)
(*                                                                         *)
(* A number is the sequence of its bytes in network order, which is how    *)
(* writeN stores and readN loads it on either kind of machine.  A read that*)
(* does not advance, or not from offset 0, changes nothing and is no       *)
(* action.  Copies and moves of a buffer are left out.                     *)
(*                                                                         *)
(* The code checks a write against _buf_size alone, so positions can leave *)
(* the part of the memory that a buffer was made for, and the vector.  What*)
(* is stored beyond the vector hits memory of nobody in the model, and what*)
(* is read there is anything.                                              *)
(***************************************************************************)
EXTENDS Integers, Sequences

CONSTANTS
  Root,      \* the buffer that allocates the memory: its own _parent
  Views,     \* sub-buffers
  Shape,     \* offset and size each sub-buffer is constructed with
  Cap,       \* size of the memory
  Data,      \* what clients write: non-empty sequences of bytes
  Offsets,   \* the offset arguments clients use
  Bytes,
  Reach,     \* bound of the model on positions: the code has none
  Unknown,   \* a byte its reader did not write
  Spoilt     \* a byte another buffer had no business with, or the reader himself

Bufs == {Root} \cup Views

ASSUME BufAssumption ==
  /\ Cap \in Nat \ {0} /\ Root \notin Views
  /\ Shape \in [Views -> [off : Nat, size : Nat]]
  /\ \A v \in Views : Shape[v].off + Shape[v].size <= Cap
  /\ 0 \in Bytes /\ Data \subseteq Seq(Bytes) \ {<<>>} /\ Offsets \subseteq Int
  /\ Unknown \notin Bytes /\ Spoilt \notin Bytes /\ Unknown # Spoilt

VARIABLES
  live,     \* buffers that exist
  buf,      \* _buf_size, _buf_len, _buf_offset, _buf_offset_orig of each
  mem,      \* the storage of *_buf
  text,     \* history: what the users of each buffer expect to read
  drained,  \* history: buffers that were read since the last reset
  refilled  \* history: some buffer was written after a read, without a reset

vars == <<live, buf, mem, text, drained, refilled>>

Lesser(a, b)  == IF a < b THEN a ELSE b
Greater(a, b) == IF a > b THEN a ELSE b

Fresh(size, off) == [size |-> size, len |-> 0, off |-> off, orig |-> off]

\* A constructor leaves a buffer empty; so is one that does not exist.
Empty(b) == IF b = Root THEN Fresh(Cap, 0) ELSE Fresh(Shape[b].size, Shape[b].off)

Init ==
  /\ live = {Root} /\ mem = [i \in 0..(Cap - 1) |-> 0]
  /\ buf = [b \in Bufs |-> Empty(b)]
  /\ text = [b \in Bufs |-> <<>>] /\ drained = {} /\ refilled = FALSE

-----------------------------------------------------------------------------
(* Helpers.                                                                *)

\* Mutant: a negative offset counts from the last byte.
WriteAtLast(x, o) ==
  IF o >= 0 THEN IF o <= x.size THEN o ELSE -1
            ELSE Greater(x.len + o, -1)

\* normalize_write_offset: -1 is the end of what was written; a result of -1
\* is no place.
WriteAt(x, o) ==
  IF o >= 0 THEN IF o <= x.size THEN o ELSE -1
            ELSE Greater(x.len + o + 1, -1)

\* The buffer x with another read position and length.
Window(x, off, len) == [size |-> x.size, len |-> len, off |-> off, orig |-> x.orig]

\* The part of the memory the buffer b was made for.
Part(b) == buf[b].orig..(buf[b].orig + buf[b].size - 1)

\* Where the buffer x keeps the i-th of the bytes it offers.
At(x, i) == x.off + i - 1

\* The memory after s was stored from the position a on.
Poke(a, s) ==
  [i \in DOMAIN mem |-> IF i \in a..(a + Len(s) - 1) THEN s[i - a + 1] ELSE mem[i]]

\* What the users of b expect after they wrote s at the offset o of what they
\* know: s there, the rest as it was.
Written(b, o, s, advance) ==
  LET q   == text[b]
      p   == IF o < 0 THEN Len(q) + 1 + o ELSE o
      len == IF advance THEN Greater(Len(q), p + Len(s)) ELSE Len(q)
  IN [i \in 1..len |-> IF At(buf[b], i) \notin DOMAIN mem THEN Unknown
                       ELSE IF i \in (p + 1)..(p + Len(s)) THEN s[i - p]
                       ELSE IF i <= Len(q) THEN q[i] ELSE Unknown]

\* What the users of another buffer c expect after s was stored through b: where
\* both were given the memory they share it.
Shared(c, b, a, s) ==
  [i \in DOMAIN text[c] |->
     LET j == At(buf[c], i)
     IN IF j \notin a..(a + Len(s) - 1) THEN text[c][i]
        ELSE IF j \in Part(b) \cap Part(c) THEN s[j - a + 1]
        ELSE Spoilt]

\* A write of s at the place p that stands for the offset o.
Store(b, o, p, s, advance) ==
  /\ b \in live /\ buf[b].off + p + Len(s) <= Reach
  /\ mem' = Poke(buf[b].off + p, s)
  /\ buf' = [buf EXCEPT ![b].len = IF advance THEN Greater(@, p + Len(s)) ELSE @]
  /\ text' = [c \in Bufs |-> IF c = b THEN Written(b, o, s, advance)
                                      ELSE Shared(c, b, buf[b].off + p, s)]
  /\ refilled' = (refilled \/ b \in drained)
  /\ UNCHANGED <<live, drained>>

-----------------------------------------------------------------------------
(* Operations.                                                             *)

\* io_buf(size)
New ==
  /\ live = {} /\ live' = {Root}
  /\ mem' = [i \in 0..(Cap - 1) |-> 0] /\ refilled' = FALSE
  /\ UNCHANGED <<buf, text, drained>>

\* io_buf(buf, offset, size): the offset counts from the start of the memory, of
\* whatever buffer it is made.
NewView(v) ==
  /\ live # {} /\ v \notin live
  /\ live' = live \cup {v}
  /\ UNCHANGED <<buf, mem, text, drained, refilled>>

\* ~io_buf.  The root also empties the vector, which its sub-buffers keep alive:
\* nothing looks at the size of the vector, and its storage stays as it is.
Destroy(b) ==
  /\ b \in live
  /\ live' = live \ {b} /\ drained' = drained \ {b}
  /\ buf' = [buf EXCEPT ![b] = Empty(b)] /\ text' = [text EXCEPT ![b] = <<>>]
  /\ UNCHANGED <<mem, refilled>>

\* Mutant: what does not fit is written too.
WriteAll(b, s, o, advance) ==
  LET p == WriteAt(buf[b], o) IN
  /\ p >= 0
  /\ Store(b, o, p, s, advance)

\* write(): what fits.  The room wraps when p is beyond the size, and all fits.
Write(b, s, o, advance) ==
  LET p    == WriteAt(buf[b], o)
      room == IF p > buf[b].size THEN Len(s) ELSE buf[b].size - p
  IN /\ p >= 0
     /\ Store(b, o, p, SubSeq(s, 1, Lesser(Len(s), room)), advance)

\* write8 to write64: all or nothing.
WriteNumber(b, s, o, advance) ==
  LET p == WriteAt(buf[b], o) IN
  /\ p >= 0 /\ p + Len(s) <= buf[b].size
  /\ Store(b, o, p, s, advance)

\* memcpy of no more than writable(), which wraps, to write_ptr(), then
\* advance_write_ptr(), which may refuse.
AdvanceWrite(b, s) ==
  /\ buf[b].len + Len(s) <= buf[b].size \/ buf[b].len > buf[b].size
  /\ Store(b, -1, buf[b].len, s, buf[b].len + Len(s) <= buf[b].size)

\* n bytes are read from the front.
Consume(b, n) ==
  /\ b \in live /\ n > 0
  /\ buf' = [buf EXCEPT ![b] = Window(@, @.off + n, @.len - n)]
  /\ text' = [text EXCEPT ![b] = SubSeq(@, n + 1, Len(@))]
  /\ drained' = drained \cup {b}
  /\ UNCHANGED <<live, mem, refilled>>

\* read() with offset 0: what there is.
Read(b, n) == Consume(b, Lesser(n, buf[b].len))

\* read8 to read64 with offset 0, and advance_read_ptr(): all or nothing.
ReadNumber(b, n) == n <= buf[b].len /\ Consume(b, n)

\* Mutant: the read position stays.
ResetLength(b) ==
  /\ b \in live
  /\ buf' = [buf EXCEPT ![b] = Window(@, @.off, 0)]
  /\ text' = [text EXCEPT ![b] = <<>>] /\ drained' = drained \ {b}
  /\ UNCHANGED <<live, mem, refilled>>

\* reset(), and reset(true), which empties the vector as ~io_buf does.
Reset(b) ==
  /\ b \in live
  /\ buf' = [buf EXCEPT ![b] = Window(@, @.orig, 0)]
  /\ text' = [text EXCEPT ![b] = <<>>] /\ drained' = drained \ {b}
  /\ UNCHANGED <<live, mem, refilled>>

\* Root.adjust_offset(v).  The position of v counts from the start of the memory,
\* the length of Root from its read position, whether Root was read or not.  The
\* users of Root come to know what those of v know.
AdjustOffset(v) ==
  LET q   == text[Root]
      end == buf[v].off + buf[v].len
      k(i) == At(buf[Root], i) - buf[v].off + 1
  IN /\ {Root, v} \subseteq live /\ buf[Root].off + end <= Reach
     /\ buf' = [buf EXCEPT ![Root].len = Greater(@, end)]
     /\ text' = [text EXCEPT ![Root] =
          [i \in 1..Greater(Len(q), end) |->
             IF i <= Len(q) THEN q[i]
             ELSE IF k(i) \in DOMAIN text[v] THEN text[v][k(i)] ELSE Unknown]]
     /\ UNCHANGED <<live, mem, drained, refilled>>

Next ==
  \/ New \/ \E v \in Views : NewView(v) \/ AdjustOffset(v)
  \/ \E b \in Bufs : Destroy(b) \/ Reset(b)
  \/ \E b \in Bufs, s \in Data :
       \/ AdvanceWrite(b, s)
       \/ Read(b, Len(s)) \/ ReadNumber(b, Len(s))
       \/ \E o \in Offsets, advance \in BOOLEAN :
            Write(b, s, o, advance) \/ WriteNumber(b, s, o, advance)

Spec == Init /\ [][Next]_vars

-----------------------------------------------------------------------------
(* Safety.                                                                 *)

\* The values each variable takes.  The length of a sub-buffer is at most its size;
\* not so that of the root, after adjust_offset().
TypeOK ==
  /\ live \subseteq Bufs /\ mem \in [0..(Cap - 1) -> Bytes]
  /\ buf \in [Bufs -> [size : Nat, len : Nat, off : Nat, orig : Nat]]
  /\ \A b \in Bufs : buf[b].orig <= buf[b].off
  /\ \A v \in Views : buf[v].len <= buf[v].size
  /\ text \in [Bufs -> Seq(Bytes \cup {Unknown, Spoilt})]
  /\ drained \subseteq Bufs /\ refilled \in BOOLEAN

Unspoilt(q) == \A i \in DOMAIN q : q[i] # Spoilt

\* Sub-buffers let "different parts of a buffer be processed concurrently"
\* (iobuf.hpp:160-161) only for clients that reset a buffer between reading from it
\* and writing to it again, although writable() (287-293) asks for no such thing:
\* as long as all of them do, a sub-buffer offers nothing outside the part of the
\* memory it was made for, and no byte that a buffer offers was overwritten through
\* another one outside the memory that both were given, however writes at any
\* offset, reads, resets, adjustments, constructions and destructions follow each
\* other.
PartsKept ==
  ~refilled =>
    \A b \in live :
      /\ Unspoilt(text[b])
      /\ b \in Views => buf[b].off + buf[b].len <= buf[b].orig + buf[b].size

\* The bytes that q knows of those the buffer x offers are in the memory m.
Tells(x, q, m) ==
  /\ Len(q) = x.len
  /\ \A i \in 1..x.len :
       q[i] \in Bytes => At(x, i) \in DOMAIN m /\ q[i] = m[At(x, i)]

\* What is read is what was written, byte for byte and in order, through this
\* buffer or through another one that shares the memory (iobuf.hpp:168), unless
\* it was spoilt: reading moves two numbers, writing a third, a negative offset
\* counts from the end of what was written, and the root finds what a sub-buffer
\* wrote where adjust_offset() says it is.
ReadsWhatWasWritten == \A b \in live : Tells(buf[b], text[b], mem)

\* The inductive invariant behind both.  Sizes and first positions never change;
\* only a buffer that was read is not at its first position; until one is refilled
\* the root offers more than the memory only after it was read itself.
Fixed ==
  \A b \in Bufs : /\ buf[b].size = Empty(b).size /\ buf[b].orig = Empty(b).orig
                  /\ buf[b].off # buf[b].orig => b \in drained
                  /\ b \notin live => /\ buf[b] = Empty(b) /\ text[b] = <<>>
                                      /\ b \notin drained
Kept ==
  ~refilled =>
    /\ \A v \in Views : buf[v].off + buf[v].len <= buf[v].orig + buf[v].size
    /\ Root \notin drained => buf[Root].len <= Cap
    /\ \A b \in Bufs : Unspoilt(text[b])
Contents == \A b \in Bufs : Tells(buf[b], text[b], mem)
IInv == TypeOK /\ Fixed /\ Kept /\ Contents
=============================================================================
