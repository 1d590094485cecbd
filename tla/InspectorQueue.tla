---------------------------- MODULE InspectorQueue ----------------------------
(***************************************************************************)
(* Inspector with the BlockingQueue through which its two threads meet.    *)
(* A thread paused at a breakpoint calls pop with the isolate's Locker     *)
(* held and sleeps there on the queue's condition variable; the            *)
(* connection's thread, which never waits for that Locker to push, wakes   *)
(* it.  The pc of a paused thread is "popping" all the time it is in pop;  *)
(* pop says where it is there.  The queue is the one both modules know.    *)
(***************************************************************************)
EXTENDS Inspector

VARIABLES
  pop,    \* of each thread: "out" of pop, "ready" to take the mutex, "waiting" on condvar
  put,    \* ghost: every message pushed
  taken   \* ghost: every message popped

Q == INSTANCE BlockingQueue WITH
       Item <- 1 .. MaxMessages, Consumer <- Thread, MaxPush <- MaxMessages, pc <- pop

queueVars == <<pop, put, taken>>
qVars == <<kind, queue, done, terminated, nested, locker, deleted, pc, pop, put, taken>>

QInit == Init /\ pop = [t \in Thread |-> "out"] /\ put = <<>> /\ taken = <<>>

-----------------------------------------------------------------------------
(* The steps in which the two meet *)

\* The loop reads the flag and calls pop.
StartPop(t) == LoopAgain(t) /\ Q!CallPop(t)

\* Over an empty queue, condvar.wait lets the mutex go, not the Locker.
FallAsleep(t) == Q!Wait(t) /\ UNCHANGED vars

WakeUp(t) == Q!SpuriousWakeUp(t) /\ UNCHANGED vars

\* What pop returns is dispatched.
PopAndDispatch(t) == Q!Pop(t) /\ Dispatch(t, taken'[Len(taken')])

\* onMessageReceive pushes, and notifies who waits on an empty queue.
PushAndNotify ==
  /\ Q!Push(Current)
  /\ Goto(WS, "push", "returning")
  /\ UNCHANGED <<kind, done, terminated, nested, locker, deleted>>

-----------------------------------------------------------------------------
QLoop(t) ==
  \/ StartPop(t)
  \/ LoopEnds(t) /\ UNCHANGED queueVars
  \/ FallAsleep(t)
  \/ PopAndDispatch(t)

QDeliver ==
  \/ (ReadTerminated \/ ReturnFromPush) /\ UNCHANGED queueVars
  \/ PushAndNotify

\* The steps in which the queue has no part.
Elsewhere ==
  /\ \/ \E t \in JSThread : Enter(t)
     \/ \E t \in Thread : Leave(t) \/ Pause(t)
     \/ Receive \/ DispatchDirect \/ StartClose \/ Release
  /\ UNCHANGED queueVars

QNext == Elsewhere \/ QDeliver \/ \E t \in Thread : QLoop(t) \/ WakeUp(t)

\* As in Inspector: scripts end, threads are scheduled, and the Locker is given in
\* the end to who waits for it.  A thread asleep in pop is owed nothing: only a push
\* wakes it, as nothing is assumed of spurious wake-ups.
QFairness ==
  /\ \A t \in Thread : WF_qVars(Leave(t) /\ UNCHANGED queueVars) /\ WF_qVars(QLoop(t))
  /\ WF_qVars(QDeliver)
  /\ SF_qVars(DispatchDirect /\ UNCHANGED queueVars)
  /\ SF_qVars(Release /\ UNCHANGED queueVars)

QSpec == QInit /\ [][QNext]_qVars /\ QFairness

-----------------------------------------------------------------------------
(* Properties *)

(***************************************************************************)
(* No wake-up is lost: a thread asleep in pop is in the debugger's loop,   *)
(* and there is nothing to pop.  push notifies one thread and only on an   *)
(* empty queue; that is enough because the Locker lets one thread only     *)
(* into the loop.                                                          *)
(***************************************************************************)
SleepsOnlyWhenEmpty ==
  \A t \in Thread : pop[t] = "waiting" => pc[t] = "popping" /\ queue = <<>>

(***************************************************************************)
(* What is popped is what was pushed, in its order and each message once,  *)
(* whichever threads push and pop.                                         *)
(***************************************************************************)
FifoOrder == Q!FifoOrder

(***************************************************************************)
(* With the sleeping and waking of the real queue the client still does    *)
(* what Inspector says of it over a sequence: a queued message is taken by *)
(* the loop in the end, and nothing but the loop takes it.                 *)
(***************************************************************************)
InspectorKept == Spec
=============================================================================
