------------------------------- MODULE IoTask -------------------------------
(***************************************************************************)
(* Nested coroutines (iotask.hpp): a scheduled task co_awaits functions    *)
(* that co_await functions, each with a frame of its own, while the loop   *)
(* knows nothing but the handle that sleeps.  What to the loop is one      *)
(* coroutine (RunQueue) is a chain of frames.                              *)
(*                                                                         *)
(* An io_func object lives in the frame that called the coroutine: as the  *)
(* temporary of a co_await, or as a local variable that is awaited later or*)
(* never.  Only that frame awaits it.  Values and exceptions travel alike  *)
(* and are left out.                                                       *)
(***************************************************************************)
EXTENDS Naturals, Sequences, FiniteSets, SequencesExt

CONSTANTS
  Roots,   \* coroutines given to schedule(io_task&&)
  Funcs,   \* coroutines called by coroutines
  None     \* nullptr

ASSUME TaskAssumption ==
  Roots \cap Funcs = {} /\ None \notin Roots \cup Funcs

Frames == Roots \cup Funcs

VARIABLES
  frame,               \* state of each coroutine frame
  cont,                \* continuation_ of its promise
  owner,               \* the frame that holds its io_func object
  temp,                \* the functions whose io_func is a temporary
  runq, cur, blocked,  \* the loop: handles to resume, frame that runs, sleepers
  handle,              \* the handle step() resumed and looks at afterwards
  finished,            \* finished of step()
  tasks,               \* tasks_
  pc, stopping         \* where run() is; stop() was called

frameVars == <<frame, cont, owner, temp>>
queueVars == <<runq, cur, blocked>>
stepVars  == <<handle, finished, tasks>>
vars == <<frameVars, queueVars, stepVars, pc, stopping>>

FrameStates == {"none", "created", "active", "suspended", "done", "gone"}

LQ == INSTANCE RunQueue WITH Tasks <- Frames, queue <- runq

Init ==
  /\ frame = [f \in Frames |-> "none"]
  /\ cont = [f \in Frames |-> None] /\ owner = [f \in Frames |-> None]
  /\ temp = {} /\ LQ!Init
  /\ handle = None /\ finished = {} /\ tasks = {}
  /\ pc = "off" /\ stopping = FALSE

-----------------------------------------------------------------------------
(* Helpers.                                                                *)

\* The io_func objects that a frame holds are destroyed with it.
ClosedUnderOwnership(C) == \A g \in Funcs : owner[g] \in C => g \in C

\* The frames that are destroyed with those in S: the least such set around S.
Tree(S) ==
  {f \in Frames : \A C \in SUBSET Frames :
                    S \subseteq C /\ ClosedUnderOwnership(C) => f \in C}

Destroyed(S) == [f \in Frames |-> IF f \in Tree(S) THEN "gone" ELSE frame[f]]

\* Mutant: continuation_ is not set.
EnterForgets(f) ==
  /\ frame' = [frame EXCEPT ![f] = "active", ![cur] = "suspended"]
  /\ cur' = f
  /\ UNCHANGED <<cont, runq, blocked, stepVars, pc, stopping>>

\* io_func::await_suspend: control goes from cur to f.
Enter(f) ==
  /\ frame' = [frame EXCEPT ![f] = "active", ![cur] = "suspended"]
  /\ cont' = [cont EXCEPT ![f] = cur]
  /\ cur' = f
  /\ UNCHANGED <<runq, blocked, stepVars, pc, stopping>>

-----------------------------------------------------------------------------
(* Coroutines.                                                             *)

\* schedule(io_task&&), before run() or from a coroutine.
Schedule(r) ==
  /\ cur # None \/ pc = "off"
  /\ frame[r] = "none"
  /\ frame' = [frame EXCEPT ![r] = "created"]
  /\ tasks' = tasks \cup {r}
  /\ LQ!Admit(r)
  /\ UNCHANGED <<cont, owner, temp, handle, finished, pc, stopping>>

\* auto t = f(): the coroutine is created and waits in its initial suspension.
Create(f) ==
  /\ cur # None /\ frame[f] = "none"
  /\ frame' = [frame EXCEPT ![f] = "created"]
  /\ owner' = [owner EXCEPT ![f] = cur]
  /\ UNCHANGED <<cont, temp, queueVars, stepVars, pc, stopping>>

\* co_await f()
Call(f) ==
  /\ cur # None /\ frame[f] = "none"
  /\ owner' = [owner EXCEPT ![f] = cur] /\ temp' = temp \cup {f}
  /\ Enter(f)

\* co_await t
Await(f) ==
  /\ cur # None /\ frame[f] = "created" /\ owner[f] = cur
  /\ Enter(f)
  /\ UNCHANGED <<owner, temp>>

\* The running frame suspends in a promise.
Sleep ==
  /\ LQ!Block
  /\ frame' = [frame EXCEPT ![cur] = "suspended"]
  /\ UNCHANGED <<cont, owner, temp, stepVars, pc, stopping>>

\* Mutant: the continuation is scheduled and not resumed at once.
ReturnLater ==
  /\ cur # None
  /\ frame' = [Destroyed({f \in Funcs : owner[f] = cur}) EXCEPT ![cur] = "done"]
  /\ cur' = None
  /\ runq' = IF cont[cur] = None THEN runq ELSE Append(runq, cont[cur])
  /\ UNCHANGED <<cont, owner, temp, blocked, stepVars, pc, stopping>>

\* co_return: the locals are destroyed, final_awaitable resumes the continuation,
\* and there the co_await expression ends with its temporary.
Return ==
  /\ cur # None
  /\ LET over == IF cur \in temp THEN "gone" ELSE "done" IN
     frame' = [f \in Frames |->
                 IF f = cur THEN over
                 ELSE IF f = cont[cur] THEN "active"
                 ELSE Destroyed({g \in Funcs : owner[g] = cur})[f]]
  /\ cur' = cont[cur]
  /\ UNCHANGED <<cont, owner, temp, runq, blocked, stepVars, pc, stopping>>

\* A promise completes, by the running coroutine or while run() polls.
Wake(f) ==
  /\ cur # None \/ pc = "poll"
  /\ LQ!Wake(f)
  /\ UNCHANGED <<frameVars, stepVars, pc, stopping>>

Stop ==
  /\ cur # None /\ ~stopping /\ stopping' = TRUE
  /\ UNCHANGED <<frameVars, queueVars, stepVars, pc>>

-----------------------------------------------------------------------------
(* The loop.                                                               *)

Run ==
  /\ pc = "off" /\ pc' = "step"
  /\ UNCHANGED <<frameVars, queueVars, stepVars, stopping>>

\* step() resumes a handle.  HandlesAlive shows that it may.
Dispatch ==
  /\ pc = "step" /\ handle = None
  /\ LQ!Resume
  /\ handle' = cur' /\ frame' = [frame EXCEPT ![cur'] = "active"]
  /\ UNCHANGED <<cont, owner, temp, finished, tasks, pc, stopping>>

\* Mutant: every handle that returns is finished.
CheckNothing ==
  /\ handle # None /\ cur = None
  /\ finished' = finished \cup {handle}
  /\ handle' = None
  /\ UNCHANGED <<frameVars, queueVars, tasks, pc, stopping>>

\* Mutant: only a handle that was done before is finished.
CheckBefore ==
  /\ handle # None /\ cur = None
  /\ handle' = None
  /\ UNCHANGED <<frameVars, queueVars, finished, tasks, pc, stopping>>

\* resume() came back and step() asks done().  The frame may have been destroyed
\* meanwhile: done() then reads freed memory.
Check ==
  /\ handle # None /\ cur = None
  /\ \E done \in IF frame[handle] = "gone" THEN BOOLEAN
                                           ELSE {frame[handle] = "done"} :
       finished' = IF done THEN finished \cup {handle} ELSE finished
  /\ handle' = None
  /\ UNCHANGED <<frameVars, queueVars, tasks, pc, stopping>>

\* Mutant: the frame is destroyed, the entry in tasks_ stays.
ReapKeeps ==
  /\ pc = "step" /\ handle = None /\ runq = <<>>
  /\ frame' = Destroyed(finished \cap tasks)
  /\ finished' = {}
  /\ pc' = IF tasks = {} /\ blocked = {} THEN "ended" ELSE "poll"
  /\ UNCHANGED <<cont, owner, temp, queueVars, handle, tasks, stopping>>

\* The end of step(), and the test whether run() is done.
Reap ==
  /\ pc = "step" /\ handle = None /\ runq = <<>>
  /\ tasks' = tasks \ finished
  /\ frame' = Destroyed(finished \cap tasks)
  /\ finished' = {}
  /\ pc' = IF tasks' = {} /\ blocked = {} THEN "ended" ELSE "poll"
  /\ UNCHANGED <<cont, owner, temp, queueVars, handle, stopping>>

LoopAgain ==
  /\ pc = "poll" /\ ~stopping /\ pc' = "step"
  /\ UNCHANGED <<frameVars, queueVars, stepVars, stopping>>

\* run() ends after stop(): tasks_.clear().  A sleeping frame takes its promise
\* along; a handle in scheduled_ stays.
ExitLoop ==
  /\ pc = "poll" /\ stopping /\ pc' = "ended"
  /\ tasks' = {} /\ frame' = Destroyed(tasks)
  /\ blocked' = blocked \ Tree(tasks)
  /\ UNCHANGED <<cont, owner, temp, runq, cur, handle, finished, stopping>>

-----------------------------------------------------------------------------

LoopStep == Run \/ Dispatch \/ Check \/ Reap \/ LoopAgain \/ ExitLoop

Next ==
  \/ LoopStep
  \/ \E r \in Roots : Schedule(r)
  \/ \E f \in Funcs : Create(f) \/ Call(f) \/ Await(f)
  \/ Sleep \/ Return \/ Stop
  \/ \E f \in Frames : Wake(f)

\* The loop's thread keeps going, and a frame that runs suspends or returns
\* sooner or later.
Spec == Init /\ [][Next]_vars /\ WF_vars(LoopStep) /\ WF_vars(Sleep \/ Return)

-----------------------------------------------------------------------------
(* Safety.                                                                 *)

\* The values each variable takes; tasks_ lists the root frames that exist.
TypeOK ==
  /\ frame \in [Frames -> FrameStates]
  /\ {cont, owner} \subseteq [Frames -> Frames \cup {None}]
  /\ temp \subseteq Funcs /\ runq \in Seq(Frames)
  /\ {cur, handle} \subseteq Frames \cup {None}
  /\ blocked \subseteq Frames /\ finished \subseteq Frames
  /\ tasks = {r \in Roots : frame[r] \notin {"none", "gone"}}
  /\ pc \in {"off", "step", "poll", "ended"} /\ stopping \in BOOLEAN

Unfinished(f) == frame[f] \in {"active", "suspended"}
Callees(f)    == {g \in Funcs : cont[g] = f /\ Unfinished(g)}

\* A suspended frame is resumed by exactly one party: the promise it sleeps in,
\* step(), or the function it awaits.
NoLostFrame ==
  pc # "ended" =>
    \A f \in Frames : frame[f] = "suspended" =>
      \/ f \in blocked /\ ~Contains(runq, f) /\ Callees(f) = {}
      \/ f \notin blocked /\ Contains(runq, f) /\ Callees(f) = {}
      \/ f \notin blocked /\ ~Contains(runq, f) /\ Cardinality(Callees(f)) = 1

\* What step() resumes, what a promise will schedule and what final_awaitable
\* resumes are frames that exist and are suspended.
HandlesAlive ==
  pc # "ended" =>
    /\ \A f \in ToSet(runq) \cup blocked : frame[f] \in {"created", "suspended"}
    /\ \A f \in Frames : Unfinished(f) /\ cont[f] # None
                           => frame[cont[f]] = "suspended"

\* Before run() ends no frame is destroyed in the middle of what it does.
DestroyedWhenDone ==
  [][\A f \in Frames :
       Unfinished(f) /\ frame'[f] = "gone" => f = cur \/ pc' = "ended"]_vars

\* To the loop a task with all the functions it awaits is one coroutine: it is
\* queued, runs and sleeps as a whole.
TaskOf(f) == CHOOSE r \in Roots : f \in Tree({r})
TaskQueue    == [i \in 1..Len(runq) |-> TaskOf(runq[i])]
TaskRunning  == IF cur = None THEN None ELSE TaskOf(cur)
TasksBlocked == {TaskOf(f) : f \in blocked}
TaskQ == INSTANCE RunQueue WITH
           Tasks <- Roots,
           queue <- TaskQueue, cur <- TaskRunning, blocked <- TasksBlocked
NestingIsTransparent == TaskQ!Init /\ [][TaskQ!Next \/ pc' = "ended"]_(TaskQ!vars)

-----------------------------------------------------------------------------
(* Liveness.                                                               *)

\* A task that step() itself resumed last is destroyed when it is done, if run()
\* gets to its poller again and again.
DoneIsReaped ==
  []<>(pc \in {"poll", "ended"}) =>
    \A r \in Roots : (handle = r /\ frame[r] = "done") ~> frame[r] = "gone"

\* run() ends when all tasks are completed (impl/io_loop.hpp:159).
AllDoneEnds ==
  (pc = "poll" /\ \A r \in Roots : frame[r] \in {"none", "done", "gone"})
    ~> pc = "ended"
=============================================================================
