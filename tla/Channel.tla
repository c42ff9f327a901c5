------------------------------ MODULE Channel ------------------------------
(***************************************************************************)
(* What a mailbox promises about messages and readers, whenever the loop   *)
(* runs its coroutines: a bounded FIFO channel.  A message goes to the     *)
(* reader that waits longest, or into the queue when nobody waits; a full  *)
(* queue drops its oldest one.  While the channel is open, a message that  *)
(* was handed to a reader is received by it and by nobody else; when it is *)
(* shut, nothing is received any more.  IoMbox implements it.              *)
(***************************************************************************)
EXTENDS Naturals, Sequences, SequencesExt

CONSTANTS
  Tasks,     \* readers
  Capacity,  \* messages the queue holds, 0 = unlimited
  None       \* no message

VARIABLES
  open,            \* messages can be sent and received
  queue,           \* the messages nobody was given, oldest first
  waiting,         \* the readers that were given none, in order
  handed,          \* what each reader was given
  sent, got, gone  \* the last message; those received; those discarded
vars == <<open, queue, waiting, handed, sent, got, gone>>

Init ==
  /\ open = TRUE /\ queue = <<>> /\ waiting = <<>>
  /\ handed = [t \in Tasks |-> None]
  /\ sent = 0 /\ got = {} /\ gone = {}

Hand == \* a message for the reader that waits longest
  /\ open /\ waiting # <<>>
  /\ sent' = sent + 1 /\ waiting' = Tail(waiting)
  /\ handed' = [handed EXCEPT ![Head(waiting)] = sent']
  /\ UNCHANGED <<open, queue, got, gone>>

Put == \* a message that nobody waits for
  /\ open /\ waiting = <<>>
  /\ Capacity = 0 \/ Len(queue) < Capacity
  /\ sent' = sent + 1 /\ queue' = Append(queue, sent')
  /\ UNCHANGED <<open, waiting, handed, got, gone>>

PutForOldest == \* one more than fits
  /\ open /\ waiting = <<>>
  /\ Capacity > 0 /\ Len(queue) = Capacity
  /\ sent' = sent + 1 /\ queue' = Append(Tail(queue), sent')
  /\ gone' = gone \cup {Head(queue)}
  /\ UNCHANGED <<open, waiting, handed, got>>

Take == \* a reader finds a message
  /\ open /\ queue # <<>>
  /\ got' = got \cup {Head(queue)} /\ queue' = Tail(queue)
  /\ UNCHANGED <<open, waiting, handed, sent, gone>>

Wait(t) == \* a reader finds none
  /\ open /\ queue = <<>> /\ ~Contains(waiting, t)
  /\ waiting' = Append(waiting, t)
  /\ UNCHANGED <<open, queue, handed, sent, got, gone>>

Leave(t) == \* its deadline came
  /\ open /\ Contains(waiting, t)
  /\ waiting' = RemoveFirst(waiting, t)
  /\ UNCHANGED <<open, queue, handed, sent, got, gone>>

Receive(t) ==
  /\ open /\ handed[t] # None
  /\ got' = got \cup {handed[t]} /\ handed' = [handed EXCEPT ![t] = None]
  /\ UNCHANGED <<open, queue, waiting, sent, gone>>

Lose(t) == \* the channel was shut before the reader ran
  /\ ~open /\ handed[t] # None
  /\ gone' = gone \cup {handed[t]} /\ handed' = [handed EXCEPT ![t] = None]
  /\ UNCHANGED <<open, queue, waiting, sent, got>>

Clear ==
  /\ open /\ queue # <<>>
  /\ queue' = <<>> /\ gone' = gone \cup ToSet(queue)
  /\ UNCHANGED <<open, waiting, handed, sent, got>>

Shut ==
  /\ open /\ open' = FALSE
  /\ queue' = <<>> /\ gone' = gone \cup ToSet(queue) /\ waiting' = <<>>
  /\ UNCHANGED <<handed, sent, got>>

Next ==
  \/ Hand \/ Put \/ PutForOldest \/ Take \/ Clear \/ Shut
  \/ \E t \in Tasks : Wait(t) \/ Leave(t) \/ Receive(t) \/ Lose(t)

Spec == Init /\ [][Next]_vars
=============================================================================
