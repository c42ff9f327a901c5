# snampy: a formal model of the coroutine I/O library

The repository is a small C++20 library for single-threaded, coroutine-based
I/O (`libs/io`), a few shared headers (`libs/common`) and demonstration programs
(`apps/cfg_mgr`). This directory holds TLA+ modules for the library's core, TLC
configurations that check them, and TLAPS proofs. In the text, `waiter.hpp` and
the other file names stand for `src/libs/io/include/io/<name>` unless said
otherwise.

## 1. Inventory

| part | state it keeps | operations | talks to |
|---|---|---|---|
| event loop, `impl/io_loop.hpp` | `tasks_`, `scheduled_`, `waiters_`, `state_` | `run`, `step`, `schedule` (two), `stop`, `add_waiter`, `remove_waiter`, `process_ready_waiters` | resumes coroutines; calls the poller; is called by waiters |
| waiters and promises, `waiter.hpp`, `impl/waiter.hpp` | per waiter: result, coroutine, parent and children, deadline, completion count, `scheduled_`, `added_` | `complete`, `add`, `remove`, `reset`; `await_ready / _suspend / _resume`, `cancel`, `timeout` of the plain promise, wait-for-any, wait-for-all | the loop; each other (child and parent) |
| poller, `impl/epoll_poller.hpp` | epoll set, eventfd | `poll`, `add_waiter`, `remove_waiter`, `wake` (called by nothing) | the kernel; completes waiters |
| mailbox, `mbox.hpp` | message queue, waiting readers, closed flag | `send`, `emplace`, `read`, `clear`, `close`, destructor | readers are promises of the loop |
| tasks, `iotask.hpp` | coroutine frame, continuation | `co_await`, final suspension, destruction | the loop owns top-level tasks |
| socket operations, `net/ops.hpp`, `ioops.hpp` | descriptor, buffer, error | accept, connect, recv, recvmsg, send | descriptor promises |
| buffers, `iobuf.hpp`, `impl/iobuf*.hpp` | offset, length, size; shared memory | read, write, advance, reset, adjust_offset, pack, unpack | none |
| addresses and ranges, `net/sockaddr_def.hpp`, `net/impl/sockaddr.hpp` | address bytes, length, prefix; netmask | construction from text and structures, `==`, `<`, hash, `contains` | none |
| logging, `libs/common` | sinks | log | writes lines out, read by nothing |

Everything runs on one thread, so there is no data race to model; what is hard
is the order of events. A coroutine reads state, suspends, and other coroutines,
timers, descriptor events, cancellations and resets change what it read before it
runs again. One wake-up involves four lists (`scheduled_`, the batch `step()`
swapped out, `waiters_`, `ready_waiters`) and two pointers (child to parent,
waiter to coroutine), each updated at a different time. `PROJECT.json` lists the
hazards line by line.

What makes each part correct:

* loop and promises: a coroutine is resumed exactly once per suspension, only
  when what it awaits has happened or its deadline came, in the order in which
  the wake-ups happened, and never after it is gone; no wake-up is lost; counters
  do not wrap; pointers between waiters never dangle;
* poller: as long as a coroutine depends on a descriptor, the kernel reports it;
* mailbox: every accepted message is received once, in order, or was dropped for
  a documented reason; a reader never sleeps beside a message;
* tasks: a finished task is destroyed and its awaiter resumed;
* buffers: arithmetic stays in range; what is read is what was written;
* addresses: the word and byte arithmetic of a mask means "the first bits", and
  the order, the equality and the hash of addresses belong together.

## 2. Modules

**`IoLoop`** models the loop, the waiters, the promises and the poller together,
because one wake-up passes through all of them. State and code:

| variable | code |
|---|---|
| `loopState`, `pc` | `state_`; where `run()` is: `step`, `poll`, `dispatch` (events and deadlines), `process` (ready waiters), `off` |
| `scheduled`, `batch`, `finished`, `live`, `cur` | `scheduled_`; the rest of the vector swapped out by `step()`; its `finished`; `tasks_`; the coroutine that runs |
| `waiters`, `ready`, `evq`, `hot`, `reg` | `waiters_`; `ready_waiters`; events of this `epoll_wait`; ready descriptors; the epoll registrations |
| `result`, `coro`, `parent`, `kids`, `count`, `sched`, `added`, `left` | `result_`, `awaiting_coroutine_`, `awaiting_waiter_`, `waiters_` of a waiter, `completion_count_`, `scheduled_`, `added_`, the time to `complete_by_` |
| `susp` | which `co_await` a coroutine is suspended in |

There is one action per step of `run()` and per operation of a promise. The
code between two suspension points of a coroutine is a series of actions, since
all of them run while `cur` is that coroutine; what a coroutine does is left open,
so every client program over these objects is covered. The lists whose order
nothing depends on (`waiters_`, `ready_waiters`) are sets. Time is a countdown
per waiter, which `Tick` decreases; 0 stands for "less than 1 ms left", where
`run()` already fires the deadline but `io_promise::timeout()` does not yet
report it, and -1 for "past".

What the clients may do is limited to what the tests and applications do: two
coroutines do not await one promise at the same time, and the constant `Allow`
adds the doubtful behaviours one at a time (`stop` while coroutines are
suspended, `restart` of a loop that ended, `reset_in_use`, `late_complete` of a
promise that has a result already).

**`RunQueue`** is the abstract specification of the loop: a coroutine is blocked,
queued or running, and a wake-up moves it to the back of a FIFO queue. `IoLoop`
implements it with `queue <- batch \o scheduled` and the coroutines stored in
waiters as `blocked`.

The proofs about a module are in `<module>_proofs`, those about wakeups in
`IoLoopWakeup_proofs`; see section 6.

**`IoMbox`** models `io_mbox` and its readers on top of `RunQueue` rather than
of `IoLoop`: to the mailbox the loop is a place that queues a coroutine when its
waiter completes. `queue`, `readers`, `closed` are `message_queue_`, `readers_`,
`is_closed_`; `rd[t]` holds the fields of the `mailbox_reader` that task `t`
awaits (a reader lives in one `co_await` expression, so there is one per task).
`ResumeRead` is `await_resume` with the reader's destructor. Messages are
numbered in the order of acceptance, and `sent`, `got`, `gone` are history.
`Sleepers` are the readers that a completion wakes: the loop knows only those
that are suspended. The memory of a destroyed mailbox is undefined, so a reader
that still points to it reads either value of `is_closed_`.

**`Channel`** is the abstract specification of a mailbox: a bounded FIFO channel
with the readers that wait, and what was handed to those that were served. It
knows nothing of coroutines, results, registrations or the order in which the
loop resumes; `IoMbox` implements it with `open <- alive /\ ~closed`,
`waiting <- readers` and `handed[t] <- rd[t].msg`.

**`IoTask`** models nested coroutines: `frame` is the state of each frame,
`cont` the `continuation_` of its promise, `owner` and `temp` say in which frame
its `io_func` object lives and whether it is a temporary. A frame that is
destroyed takes along the `io_func` objects in it, and theirs: `Tree` is the
least set closed under ownership. `Return` is
`final_suspend` with the symmetric transfer to the continuation. `handle`,
`finished`, `tasks` are the variables of `step()`; `Check` is its `done()` call,
which answers either way when the frame was destroyed meanwhile. With
`Roots \cup Funcs` as tasks, `IoTask` is written over `RunQueue` too; and with
`Roots` alone, each frame standing for its task, it implements `RunQueue`
(`NestingIsTransparent`), which is what the other modules assume of a coroutine.

**`IoOps`** models accept, connect, recv (and recvmsg) and send. One call of
`execute()` is a set of pairs of operation and socket, one per outcome of the
system call; `AwaitReady`, `AwaitSuspends` and `ResumeOp` say when it is called.
`sock` is the kernel's side: units to read, connections to accept, or room to
write, the end of the stream, a pending error, the state of a connect. What a
descriptor offers can be withdrawn again, by another process that holds it, also
between the event and the turn of the coroutine; `await_resume` then finds
nothing and returns the poller's `done` (`gone` is history and marks this case).
The buffers may be empty.

**`IoBuf`** models `io_buf` and sub-buffers: `mem` is the shared vector, `buf`
the four numbers of each buffer. History is `text`, what the users of a buffer
expect to read, computed from the operations alone (their own writes, and the
writes of others where both were given the memory), and which buffers were read
and written again. A number is the sequence of its bytes in network order. The
operations have the guards of the code and no others: the buffer that allocates
the memory is written, read, reset and destroyed while its sub-buffers live, and
since the code compares a write with `_buf_size` alone, positions may leave the
part of the memory a buffer was made for, and the vector. What is written beyond
the vector hits nobody in the model, and what is read there is `Unknown`; a byte
that was overwritten by a buffer outside its part is `Spoilt`. `reset(true)` and
the destructor of the allocating buffer clear the vector that the sub-buffers go
on using. The storage of a cleared `std::vector<char>` stays where it is and
nothing in `io_buf` asks for its size, so both leave `mem` alone: `reset(true)`
is `reset()` in the model.

**`SockAddr`** models variables of `sock_addr` and one `network_range` that a
program constructs, in any order, from text, structures and other addresses.
The bits of an address are the set of positions that are 1, so that `&` is an
intersection and a comparison looks at the first position where two sets
differ. `ParseInet` follows the parser on the parts of a text (bracket, host,
slash, prefix, port) with its narrowing of a prefix to `uint8_t`; `Mask` is the
shifted word of IPv4, with the guard for 0 because the processor takes the count
modulo 32, or the bytes and the rest of a byte of IPv6. A path that is empty
begins with a zero byte, so `Unix` makes it an abstract name, as the code takes
it for one.
`Less`, `Equal` and `Hash` are the comparisons, of Unix names with the length
that the structure came with. `asked` is history: what the range was made from.

**`MCIoLoop`, `MCIoMbox`, `MCIoTask`, `MCIoOps`, `MCIoBuf`, `MCSockAddr`** give TLC
its constants. An operator marked `Mutant` in a module is a variation of the
definition after it that the named property is known to reject; it is not
part of the specification.

## 3. Runs

| run | what is asked | bounds | why they are enough |
|---|---|---|---|
| `loop_combinators` | types and counts, one resumption per suspension, no dead handle, no lost and no spurious wakeup, wait-for-all exact, lists and pointers consistent, refinement of `RunQueue` | 2 tasks, 3 promises with deadlines, one wait-for-any, one wait-for-all, restart of the loop; tasks and promises are symmetric | two tasks wake, overtake and reset each other; three promises let both combinators share one child and each have one of its own, nothing in the code looks at more than a child, its parent and the parent's awaiter |
| `loop_live` | a scheduled coroutine is resumed, a deadline wakes its coroutine, `stop()` ends `run()`; the epoll registration of an awaited descriptor on the way | 2 tasks, 2 promises, one of them on a descriptor, a wait-for-all with deadlines, `stop`, fairness | the other task can go on scheduling and completing for ever; the descriptor becomes ready, is drained, is reported while another coroutine cancels; EINTR at any poll |
| `all_fd` | a wait-for-all over a descriptor (violation) | 1 task, 2 promises, 1 descriptor | |
| `any_deadline` | the deadline of a wait-for-any (violation) | 1 task, 2 promises | |
| `mbox` | messages accepted once, in order, discarded for cause; readers never left behind; deadlines; refinement of `Channel` | 3 tasks, queue of 2, 3 messages | the queue overflows; two readers wait while the third task sends, closes, destroys; a deadline fires between a delivery and the resumption |
| `mbox_lost` | a delivered message is received (violation) | 2 tasks | |
| `tasks` | suspended frames are resumed by one party, destroyed once and only when done, reaped; a chain of frames is one coroutine | 2 tasks, 2 functions | a function can be nested in a function, or two follow each other, as temporary or variable |
| `tasks_end` | everything done ends `run()` (violation) | the same | |
| `ops` | nothing is taken from the kernel unseen, `done` is true, events and deadlines return | one operation of each kind in turn, buffers of 0 and 2, 3 units, a second task that cancels | partial sends, an event that another process has taken when the coroutine runs, a retry after a timeout |
| `ops_deadline` | deadlines of operations that fail at once (violation) | the same | |
| `buf` | what is read is what was written; what keeps the parts of the memory apart | 3 bytes, sub-buffers of 2 and 1, data of 1 or 2 bytes over {0, 1}, offsets -2, -1, 1, positions up to 4 | a write can fit, be cut, be refused, overwrite, extend or leave a gap; one sub-buffer reaches the part of the other, and the other the end of the vector; the buffer itself is written and read between them |
| `addresses` | what a range contains; equality, order and hash of addresses | 2 addresses, 21 texts, each parsed for either family or any, 2 structures, 6 Unix names with lengths 2 and 110, 19 range texts | prefixes 0, 8, 9, 31, 128 and beyond the width, at and between byte boundaries; bits that differ inside and outside the mask; netmasks with and without gaps; empty, abstract and too long paths; each way a text is refused |

Deadlock is not checked where a coroutine without a deadline may wait for
something that never comes: the loop then sits in `epoll_wait` for good, as it
should. In `tasks` nothing happens after `run()` has ended. `buf` checks it.

**Fairness.** The thread of the loop keeps going (`WF` on its steps), time passes
(`Tick`), and a coroutine that runs suspends or finishes sooner or later: the
last is an assumption about clients, without which nothing on one thread can be
promised. In `IoMbox` and `IoOps`, where an iteration of `run()` is not modelled
step by step, deadlines are strongly fair: each iteration looks at all waiters,
so one whose deadline has passed is not skipped for ever. Nothing is assumed of
the order in which the poller reports events. `TimerResumes` and the
`DeadlineReturns` of the mailbox have the premise that the loop reaches its
poller again and again, because `step()` goes on as long as coroutines schedule
each other (`impl/io_loop.hpp:61`).

## 4. Where the code and its comments disagree

* A descriptor event completes its waiter in `epoll_poller::poll` and again in
  `process_ready_waiters`; each counts against a wait-for-all, which then
  resumes its awaiter before all children are there (`all_fd`).
* The deadline of a wait-for-any is never seen by `run()`, because
  `await_ready` does not add the combinator's own waiter to the loop
  (`any_deadline`).
* A message that was delivered to a waiting reader is lost when the mailbox is
  closed before the loop resumes that reader (`mbox_lost`).
* A task whose last suspension was inside a function it awaits is never removed
  from `tasks_`, so `run()` does not end (`tasks_end`).
* A socket operation that fails in `await_ready` suspends its coroutine with the
  result `error`, and `run()` passes over waiters that have a result
  (`ops_deadline`).
* `close()` makes readers forget nothing: if the mailbox is destroyed before they
  are resumed, they use a dangling pointer. `mbox` assumes this does not happen;
  with `Allow = {"destroy_busy"}` TLC shows it as a violation of
  `NoDanglingMailbox`.
* `writable()` is documented as the number of bytes that can be written
  (`iobuf.hpp:287-288`), and a test expects all 8 of a buffer of which 4 were
  written and read (`tests/io_buf.cpp:518-519`). Reading moves `_buf_offset` and
  nothing takes it into account: these bytes reach past the buffer's part of the
  memory, in a sub-buffer into the part of its neighbour, which is not how
  "different parts of a buffer" are "processed concurrently" (`iobuf.hpp:161`).
  `PartsKept` says that nothing else makes buffers disturb each other. Without its
  premise `~refilled` TLC violates it in five steps: make the first sub-buffer,
  write a byte, read it, write two.
* `adjust_offset()` compares a position in the memory with a length that counts
  from the read position of the parent. After the parent was read it offers bytes
  behind those of the sub-buffer that nobody wrote; they are `Unknown` in the
  model, and no property forbids them.
* The comment of `sock_addr` (`sockaddr_def.hpp:25`, `27`) lists
  `[address/prefix][:port]` and a bare `::`; a prefix inside the brackets is
  handed on as part of the name, and a bare IPv6 address without port and prefix
  is split at its first colon, so neither is ever parsed. A prefix of 264 is
  narrowed to 8 before it is compared with the width. `SockAddr` models all
  three; no property depends on them.

## 5. Assumptions about clients

The guards `InUse` (`IoLoop`) and `CanCall` (`IoMbox`) say what clients do not
do. They are taken from the tests and `apps/cfg_mgr`: two coroutines do not await
one promise at the same time, a mailbox is not used after its destructor. The
constant `Allow` switches the doubtful behaviours on. In `IoBuf` nothing is
assumed, save that a sub-buffer is made inside the memory and that a buffer that
does not exist is not used; `PartsKept` names its condition itself.

## 6. Proofs

Every safety property of the passing runs is a theorem, for all values of the
constants: any number of coroutines, promises, descriptors, messages,
addresses and bytes, and any depth of nesting. A property is seldom inductive, so
each proof is about a stronger invariant (`IInv`, or a name given below), which
`Inductive` states. The shape is the same everywhere: lemmas about the data, one
lemma per action that changes much, a case split over `Next`, and a theorem per
property that follows from the invariant in a few lines.

| module | theorems | assumed of clients (besides section 5) |
|---|---|---|
| `RunQueue_proofs` | `InOnePlace` | |
| `IoLoop_proofs` | `TypeCorrect`, `HandlesUntilStop`; `ResumedOnce`, `HandlesAreLive`; `LoopIsRunQueue` | first two: `run()` is not called again after `stop()`; the others: no `stop()`; the last also: no reset of a promise in use |
| `IoLoopWakeup_proofs` | `NoWakeupIsLost`, `NothingWakesEarly`, `AwaitedStaysListed`, `ParentsExist`; `AwaitedStaysRegistered`; `CountsAreExact`, `WokenWhenComplete` | all: `run()` is not called again after `stop()`, no reset of a promise in use, no deadline on a wait-for-any; registrations: one promise per descriptor; counts: no descriptors, no completion of what is complete |
| `IoMbox_proofs` | `TypeCorrect`, `SleepersAreFound`, `MessagesAreNotLost`, `OldestGoesFirst`, `MailboxOutlivesReaders`, `NothingElseDiscards`; `MailboxIsChannel` | no mailbox is destroyed under a reader that is about to resume |
| `IoTask_proofs` | `TypeCorrect`, `NoFrameIsLost`, `HandlesStayAlive`, `OnlyDoneDestroyed`; `TaskIsOneCoroutine` | |
| `IoOps_proofs` | `TypeCorrect`, `TakenIsSeen`, `DoneHolds` | |
| `IoBuf_proofs` | `TypeCorrect`, `PartsStayApart`, `ReadIsWritten` | |
| `SockAddr_proofs` | `TypeCorrect`, `RangeContains`, `KeysFit` | |

**The loop.** `IInv == TypeOK /\ Counts /\ Places`. `NoDoubleResume` is not
inductive as it stands: a completion schedules a coroutine only if the waiter's
count reaches zero and its `scheduled_` flag is clear, so `Counts` relates the
stored coroutine, the count and the flag of each waiter, and `Places` says that
each handle is in one of: running, `scheduled_`, the batch, one waiter. The
central lemma is about `Complete`, the completion of a child and its parent, of
which all completions (poller, deadline, cancel, second completion) are
instances. After `stop()`, `run()` destroys the frames in `tasks_` while
`scheduled_` and the waiters keep their handles: `IInv` ends there. What is left
is `Quit` (the types, and that `run()` has returned for good), so the invariant
is `IInv \/ Quit`, and a second `run()` after a `stop()` is excluded
(`StopIsFinal`). `HandlesUntilStop` says what clients that stop the loop may rely
on until it returns.

**The loop is a run queue.** `Frames` adds that the coroutine a waiter stores is
suspended in the `co_await` that waiter belongs to. With it each action is one of
the queue or none: two lists (`batch \o scheduled`) are one queue, because
`step()` swaps them only when the batch is empty. A reset of a promise in use
forgets a coroutine, which no step of the queue does, and `stop()` empties the
set of tasks under the queue: both are excluded.

**No wakeup is lost.** `WInv` adds `Links` (a child's `awaiting_waiter_` and its
combinator's list agree, children are in the loop) and `Wakes`. The critical part
of `Wakes` is between a completion and its processing: whatever is final while a
coroutine is stored is in `ready_waiters`, a wait-for-any still has count 1, and
the count of a wait-for-all is at most the number of children that are open or
in `ready_waiters`. At most, and not equal: a descriptor's double completion
(section 4) makes it less, which resumes early but loses nothing. The deadline
of a wait-for-any is excluded because its `await_resume` leaves children linked.
After `stop()` there is nobody left to wake, and `Gone` says so: no coroutine is
suspended and no waiter points to a combinator that went with its frame.

**No wakeup comes early.** `SInv` adds that what a queued coroutine was suspended
in has `Happened`: it has a result, and a wait-for-any has a child with one. Each
wakeup establishes it; the work is in showing that nothing takes it back
between the wakeup and the turn of the coroutine, when others run that cancel,
await, complete a second time, reset and unlink the same waiters. A
wait-for-all is said to have happened when it has a result, and whether all of
its children are there is the next theorem's question, because with descriptors
they need not be.

**Registrations.** `RInv` describes the epoll set by the leaves in the loop:
each of them is what its descriptor's registration reports. Registrations are
made and dropped one descriptor at a time while a combinator adds and removes
its children, so the lemmas are about sets of leaves. With two promises on one
descriptor it is false, since `EPOLL_CTL_ADD` refuses the second and removing
either drops the registration of both (`OneLeafPerFd`).

**Exact counts.** Without descriptors `at most` becomes equal (`XInv`): a child
is counted by its completion, or, when its deadline passed, by
`process_ready_waiters`. For that a wait-for-all may be among the ready waiters
for its own deadline only, and whatever was scheduled has all children complete
or its deadline behind it; a client that completes what is complete would count a
child twice. `all_fd` shows that the exclusion of descriptors is not one of the
proof but of the code.

**Mailbox.** `Readers` says that readers are listed only while the mailbox is
open and empty and that a reader with a message has the result `done`;
`Messages` gives each message one place and orders them. `SleepsOnEmpty` needs
that a message and the end of the mailbox complete every reader they take off the
list; one whose deadline came stays listed until it runs, and may still be given a
message. `OldestFirst` needs that whatever a reader was given is older than
whatever is queued, a reader that has not run yet included.

**The mailbox is a channel.** With `Readers` and `Messages` each operation is one
step of `Channel`. `Emptied` is added: what is shut holds no message, so that the
destructor of a closed mailbox changes nothing. `await_resume` is the interesting
case. One step of the code is a reader that leaves the list, takes the oldest
message, receives the one it was handed, or loses it because the mailbox was
closed meanwhile, and the invariant shows that it is never two of these: who is
in `readers_` was handed nothing and finds the queue empty, and who was handed
something is not in `readers_` any more. That nobody receives after `close()`,
even a reader that was served before, and that no message is queued beside a
waiting reader is part of what the channel promises.

**Tasks.** `Owned` (a function that exists is owned by an unfinished frame, and
awaited by its owner or nobody), `Chain` (a frame that is awaited sleeps nowhere
and awaits for one function only) and `Control` (what `step()` will destroy is
done). `Tree` has no recursive definition to unfold: `TreeIsLeast` is used like
an induction, with the set of the finished frames to show that only those are
destroyed, and with the complement of a tree to show that no frame belongs to two
tasks. For the refinement, `Rooted` says that each frame belongs to a task and
`OneLeaf` that the frames the loop knows belong to different ones; a call adds a
frame to the task of its caller (`CalleeJoins`), a return passes control inside
the task, and the steps of the queue act on tasks as on frames. It ends with
`run()`: `tasks_.clear()` after `stop()` leaves handles of destroyed frames in
`scheduled_`.

**Operations.** `Phases`: an operation is new, asleep, woken or returned, and for
each phase what it may have taken from the kernel and what its socket may offer.
`execute()` is called in two of them, which is why the count it reports and what
it took agree only phase by phase. `Kept` carries what the poller saw to the
resumption: it is still so, or it was withdrawn and the operation is marked.

**Buffers.** `IInv == TypeOK /\ Fixed /\ Kept /\ Contents`. `Contents` is about
all buffers at once, because a write through one changes what the others offer:
`WrittenTells` is about the buffer that is written, `SharedTells` about the
others, byte by byte, and `StoreKeeps` puts them together for the three ways to
write. It needs no assumption about the order of operations. `Kept` is what holds
until a buffer is written after a read: `SharedUnspoilt` says that a write
inside a buffer's own part spoils nobody, and a write is inside that part as
long as the read position is where it began (`OwnPart`). `Fixed` gives that: sizes
and first positions never change, and only a buffer that was read is elsewhere.
Both must hold of dead buffers too, so that construction preserves them.

**Addresses.** `RangeIsMasked` (the network address is the one asked for under
the mask of its prefix) with `MaskMeaning`: the shifted word (`ShiftMeaning`) and
the bytes and rest of a byte (`BytesMeaning`) are the set of the first `prefix()`
positions. `KeysFit` needs only the
types: two sets of positions that differ have a first difference (well-founded
induction on numbers, cited from the library).

**Only model-checked.** Liveness, which is out of the prover's reach as is
ENABLED: `QueuedResumes`, `TimerResumes`, `StopEnds`, `ClosingWakes`, the
`DeadlineReturns` of the mailbox, `DoneIsReaped`, `ReadyReturns`,
`WaitingReturns`.

## 7. Not modelled

* the wire format. `pack` and `unpack` of one element are declared in `iobuf.hpp`
  and defined nowhere, so those of a vector, which call them, cannot be linked;
  what is left is the computation of sizes and the packing of one binary blob,
  and there is no round trip to state;
* iterators, printing, copies and moves of buffers; reads that do not advance;
  Unix paths without a final zero byte and structures whose length cuts an
  abstract name; `to_string` and `<<` of
  addresses, `type_` and `protocol_`, which are copied and never looked at;
  `net/sockmask.hpp` is empty;
* several operations of one loop on one descriptor, `reset` of an operation that got
  somewhere, `socket_config`;
* combinators inside combinators; readers as children of combinators
  (`io_mbox_any` and `io_mbox_all` are empty classes); values and exceptions of
  coroutines;
* `poller::wake`, which nothing calls; the loop states `shutting_down` and
  `shutdown`, which nothing sets;
* logging: it writes out what it is given and nothing depends on it. Error codes,
  platform macros, the build system and the demonstration programs have no state
  of their own;
* third-party headers: json, catch, utest and uri are nine tenths of the lines of
  the repository; `SimpleSignal.hpp` is included by nothing.

## 8. What could follow

* Hazards without a property (`PROJECT.json`): a deadline between completion and
  fetch, a reset under a suspended coroutine, a second `co_await` of a used
  operation, the default offset of `pack`, a prefix that is narrowed before it is
  compared. Most ask what a client may expect where neither
  comments nor tests say.
* `IoOps` over `IoLoop` instead of `RunQueue`, for several operations on one
  descriptor; combinators inside combinators in `IoLoop`.
* Proofs: `run()` called again after `stop()`, for which the handles of destroyed
  coroutines in `scheduled_` would have to be told apart; an abstract wait
  (a promise that happens once) that `IoLoop` implements beside `RunQueue`.
