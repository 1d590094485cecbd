---------------------------- MODULE BlockingQueue ----------------------------
(***************************************************************************)
(* BlockingQueue: a std::queue under a mutex, with a condition variable    *)
(* that push notifies only when it finds the queue empty.  push runs as    *)
(* one critical section; pop is cut where condvar.wait lets the mutex go.  *)
(* The thread paused by the debugger pops, the thread of the connection    *)
(* pushes: InspectorQueue.  MaxPush bounds the number of pushes for TLC.   *)
(***************************************************************************)
EXTENDS Naturals, Sequences

CONSTANTS Item, Consumer, MaxPush

VARIABLES
  queue,  \* the std::queue
  pc,     \* of each consumer: "out", "ready" to take the mutex, or "waiting" on condvar
  put,    \* ghost: every item pushed
  taken   \* ghost: every item popped

vars == <<queue, pc, put, taken>>

(***************************************************************************)
(* The queue and the ghosts hold items, a consumer is in pop or out of it. *)
(***************************************************************************)
TypeOK ==
  /\ queue \in Seq(Item)
  /\ pc \in [Consumer -> {"out", "ready", "waiting"}]
  /\ put \in Seq(Item)
  /\ taken \in Seq(Item)

Init ==
  /\ queue = <<>>
  /\ pc = [c \in Consumer |-> "out"]
  /\ put = <<>>
  /\ taken = <<>>

Waiting == {c \in Consumer : pc[c] = "waiting"}

\* notify_one wakes one of the waiting threads, if there is one.
NotifyOne ==
  IF Waiting = {}
  THEN UNCHANGED pc
  ELSE \E c \in Waiting : pc' = [pc EXCEPT ![c] = "ready"]

\* Mutant: the queue is tested after the insertion, where it is never empty.
PushTestsLate(i) ==
  /\ Len(put) < MaxPush
  /\ queue' = Append(queue, i)
  /\ put' = Append(put, i)
  /\ UNCHANGED <<pc, taken>>

Push(i) ==
  /\ Len(put) < MaxPush
  /\ queue' = Append(queue, i)
  /\ put' = Append(put, i)
  /\ IF queue = <<>> THEN NotifyOne ELSE UNCHANGED pc
  /\ UNCHANGED taken

CallPop(c) ==
  /\ pc[c] = "out"
  /\ pc' = [pc EXCEPT ![c] = "ready"]
  /\ UNCHANGED <<queue, put, taken>>

\* The mutex is taken, or taken again after the wait, and the queue is empty.
Wait(c) ==
  /\ pc[c] = "ready"
  /\ queue = <<>>
  /\ pc' = [pc EXCEPT ![c] = "waiting"]
  /\ UNCHANGED <<queue, put, taken>>

SpuriousWakeUp(c) ==
  /\ pc[c] = "waiting"
  /\ pc' = [pc EXCEPT ![c] = "ready"]
  /\ UNCHANGED <<queue, put, taken>>

\* Mutant: the item is read at the front and stays in the queue.
PopKeeps(c) ==
  /\ pc[c] = "ready"
  /\ queue # <<>>
  /\ taken' = Append(taken, Head(queue))
  /\ Len(taken) < MaxPush
  /\ pc' = [pc EXCEPT ![c] = "out"]
  /\ UNCHANGED <<queue, put>>

\* Mutant: the item is taken from the wrong end.
PopNewest(c) ==
  /\ pc[c] = "ready"
  /\ queue # <<>>
  /\ queue' = SubSeq(queue, 1, Len(queue) - 1)
  /\ taken' = Append(taken, queue[Len(queue)])
  /\ pc' = [pc EXCEPT ![c] = "out"]
  /\ UNCHANGED put

Pop(c) ==
  /\ pc[c] = "ready"
  /\ queue # <<>>
  /\ queue' = Tail(queue)
  /\ taken' = Append(taken, Head(queue))
  /\ pc' = [pc EXCEPT ![c] = "out"]
  /\ UNCHANGED put

Next ==
  \/ \E i \in Item : Push(i)
  \/ \E c \in Consumer : CallPop(c) \/ Wait(c) \/ SpuriousWakeUp(c) \/ Pop(c)

Spec == Init /\ [][Next]_vars

-----------------------------------------------------------------------------
(* Properties *)

(***************************************************************************)
(* Notifying only when the queue was empty loses no wake-up: the consumers *)
(* are never all asleep over a queue that holds an item.                   *)
(***************************************************************************)
NoLostWakeup == queue # <<>> => Waiting # Consumer

(***************************************************************************)
(* The queue implements a FIFO channel: pops return the pushed items in    *)
(* their order, and each of them once.                                     *)
(***************************************************************************)
Channel == INSTANCE Fifo
FifoOrder == Channel!Spec
=============================================================================
