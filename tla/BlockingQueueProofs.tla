------------------------- MODULE BlockingQueueProofs -------------------------
(***************************************************************************)
(* For any items, consumers and number of pushes: no wake-up is lost, and  *)
(* the queue is a FIFO channel.                                            *)
(***************************************************************************)
EXTENDS BlockingQueue, TLAPS

(***************************************************************************)
(* What went in is what came out followed by what is still queued, said    *)
(* position by position so that no step needs a fact about concatenation.  *)
(***************************************************************************)
Conserved ==
  /\ Len(put) = Len(taken) + Len(queue)
  /\ \A k \in 1 .. Len(queue) : queue[k] = put[Len(taken) + k]

QueueInv == TypeOK /\ NoLostWakeup /\ Conserved

(***************************************************************************)
(* notify_one on an empty queue leaves at least one consumer awake.        *)
(***************************************************************************)
LEMMA NotifyWakes ==
  ASSUME Consumer # {}, TypeOK, NotifyOne
  PROVE  /\ pc' \in [Consumer -> {"out", "ready", "waiting"}]
         /\ Waiting' # Consumer
<1>1. CASE Waiting = {}
  BY <1>1 DEF TypeOK, NotifyOne, Waiting
<1>2. CASE Waiting # {}
  <2>1. PICK c \in Waiting : pc' = [pc EXCEPT ![c] = "ready"]
    BY <1>2 DEF NotifyOne
  <2>2. c \in Consumer /\ pc'[c] = "ready"
    BY <2>1 DEF Waiting, TypeOK
  <2>3. c \notin Waiting'
    BY <2>2 DEF Waiting
  <2> QED
    BY <2>1, <2>2, <2>3 DEF TypeOK
<1> QED
  BY <1>1, <1>2

(***************************************************************************)
(* push keeps the invariant: the item comes after those that are queued,   *)
(* and a consumer is awake for it.                                         *)
(***************************************************************************)
LEMMA PushKeeps ==
  ASSUME Consumer # {}, QueueInv, NEW i \in Item, Push(i)
  PROVE  QueueInv'
<1> USE DEF QueueInv
<1>1. pc' \in [Consumer -> {"out", "ready", "waiting"}] /\ Waiting' # Consumer
  <2>1. CASE queue = <<>>
    BY <2>1, NotifyWakes DEF Push
  <2>2. CASE queue # <<>>
    BY <2>2 DEF Push, TypeOK, NoLostWakeup, Waiting
  <2> QED
    BY <2>1, <2>2
<1>2. TypeOK' /\ NoLostWakeup'
  BY <1>1 DEF TypeOK, NoLostWakeup, Push
<1>3. Conserved'
  <2>1. /\ Len(queue') = Len(queue) + 1
        /\ Len(put') = Len(put) + 1
        /\ taken' = taken
        /\ Len(taken) \in Nat /\ Len(queue) \in Nat
    BY DEF TypeOK, Push
  <2>2. ASSUME NEW k \in 1 .. Len(queue')
        PROVE  queue'[k] = put'[Len(taken) + k]
    <3>1. CASE k = Len(queue) + 1
      BY <2>1, <3>1 DEF Conserved, TypeOK, Push
    <3>2. CASE k \in 1 .. Len(queue)
      <4>1. Len(taken) + k \in 1 .. Len(put)
        BY <2>1, <3>2 DEF Conserved
      <4>2. put'[Len(taken) + k] = put[Len(taken) + k]
        BY <4>1 DEF TypeOK, Push
      <4>3. queue'[k] = queue[k]
        BY <3>2 DEF TypeOK, Push
      <4> QED
        BY <3>2, <4>2, <4>3 DEF Conserved
    <3> QED
      BY <2>1, <3>1, <3>2
  <2> QED
    BY <2>1, <2>2 DEF Conserved
<1> QED
  BY <1>2, <1>3

(***************************************************************************)
(* pop keeps the invariant: it returns the first of the queued items.      *)
(***************************************************************************)
LEMMA PopKeepsInv ==
  ASSUME QueueInv, NEW c \in Consumer, Pop(c)
  PROVE  QueueInv'
<1> USE DEF QueueInv
<1>1. TypeOK'
  BY DEF TypeOK, Pop
<1>2. NoLostWakeup'
  <2>1. c \notin Waiting'
    BY DEF Pop, TypeOK, Waiting
  <2> QED
    BY <2>1 DEF NoLostWakeup
<1>3. Conserved'
  <2>1. /\ Len(queue') = Len(queue) - 1
        /\ Len(taken') = Len(taken) + 1
        /\ put' = put
        /\ Len(taken) \in Nat /\ Len(queue) \in Nat
    BY DEF TypeOK, Pop
  <2>2. ASSUME NEW k \in 1 .. Len(queue')
        PROVE  queue'[k] = put'[Len(taken') + k]
    <3>1. queue'[k] = queue[k + 1] /\ k + 1 \in 1 .. Len(queue)
      BY <2>1 DEF TypeOK, Pop
    <3>2. queue[k + 1] = put[Len(taken) + (k + 1)]
      BY <3>1 DEF Conserved
    <3> QED
      BY <2>1, <3>1, <3>2
  <2>3. Len(put') = Len(taken') + Len(queue')
    BY <2>1 DEF Conserved
  <2> QED
    BY <2>2, <2>3 DEF Conserved
<1> QED
  BY <1>1, <1>2, <1>3

(***************************************************************************)
(* The inductive invariant of the queue.                                   *)
(***************************************************************************)
THEOREM QueueInvariance ==
  ASSUME Consumer # {}
  PROVE  Spec => []QueueInv
<1>1. Init => QueueInv
  BY DEF Init, QueueInv, TypeOK, NoLostWakeup, Conserved
<1>2. QueueInv /\ [Next]_vars => QueueInv'
  <2> SUFFICES ASSUME QueueInv, [Next]_vars PROVE QueueInv'
    OBVIOUS
  <2>1. ASSUME NEW i \in Item, Push(i) PROVE QueueInv'
    BY <2>1, PushKeeps
  <2>2. ASSUME NEW c \in Consumer, CallPop(c) \/ Wait(c) \/ SpuriousWakeUp(c)
        PROVE  QueueInv'
    <3>1. UNCHANGED <<queue, put, taken>> /\ (queue = <<>> \/ Waiting' \subseteq Waiting)
      BY <2>2 DEF CallPop, Wait, SpuriousWakeUp, QueueInv, TypeOK, Waiting
    <3>2. TypeOK'
      BY <2>2 DEF CallPop, Wait, SpuriousWakeUp, QueueInv, TypeOK
    <3>3. Waiting \subseteq Consumer
      BY DEF Waiting
    <3>4. NoLostWakeup'
      BY <3>1, <3>3 DEF NoLostWakeup, QueueInv
    <3>5. Conserved'
      BY <3>1 DEF Conserved, QueueInv
    <3> QED
      BY <3>2, <3>4, <3>5 DEF QueueInv
  <2>3. ASSUME NEW c \in Consumer, Pop(c) PROVE QueueInv'
    BY <2>3, PopKeepsInv
  <2>4. CASE UNCHANGED vars
    BY <2>4 DEF vars, QueueInv, TypeOK, NoLostWakeup, Conserved, Waiting
  <2> QED
    BY <2>1, <2>2, <2>3, <2>4 DEF Next
<1> QED
  BY <1>1, <1>2, PTL DEF Spec

(***************************************************************************)
(* push and pop keep the queue a sequence of items, and a thread is        *)
(* asleep in pop or not in it at all.                                      *)
(***************************************************************************)
THEOREM QueueTypeCorrect ==
  ASSUME Consumer # {}
  PROVE  Spec => []TypeOK
  BY QueueInvariance, PTL DEF QueueInv

(***************************************************************************)
(* The consumers are never all asleep over a queue that holds an item,     *)
(* although push notifies only when it finds the queue empty.              *)
(***************************************************************************)
THEOREM NoWakeupIsLost ==
  ASSUME Consumer # {}
  PROVE  Spec => []NoLostWakeup
  BY QueueInvariance, PTL DEF QueueInv

(***************************************************************************)
(* The queue implements the FIFO channel: push puts, pop takes the oldest  *)
(* item that was not taken, and the waiting in between is invisible.       *)
(***************************************************************************)
THEOREM QueueImplementsFifo ==
  ASSUME Consumer # {}
  PROVE  Spec => FifoOrder
<1>1. Init => Channel!Init
  BY DEF Init, Channel!Init
<1>2. QueueInv /\ [Next]_vars => [Channel!Next]_<<put, taken>>
  <2> SUFFICES ASSUME QueueInv, [Next]_vars PROVE [Channel!Next]_<<put, taken>>
    OBVIOUS
  <2>1. ASSUME NEW i \in Item, Push(i) PROVE Channel!Next
    BY <2>1 DEF Push, Channel!Next, Channel!Put
  <2>2. ASSUME NEW c \in Consumer, Pop(c) PROVE Channel!Next
    <3>1. Len(queue) > 0 /\ 1 \in 1 .. Len(queue) /\ Head(queue) = queue[1]
      BY <2>2 DEF Pop, QueueInv, TypeOK
    <3>2. Head(queue) = put[Len(taken) + 1]
      BY <3>1 DEF QueueInv, Conserved
    <3>3. Len(taken) < Len(put)
      BY <3>1 DEF QueueInv, Conserved, TypeOK
    <3> QED
      BY <2>2, <3>2, <3>3 DEF Pop, Channel!Next, Channel!Take
  <2>3. ASSUME NEW c \in Consumer, CallPop(c) \/ Wait(c) \/ SpuriousWakeUp(c)
        PROVE  UNCHANGED <<put, taken>>
    BY <2>3 DEF CallPop, Wait, SpuriousWakeUp
  <2>4. CASE UNCHANGED vars
    BY <2>4 DEF vars
  <2> QED
    BY <2>1, <2>2, <2>3, <2>4 DEF Next
<1> QED
  BY <1>1, <1>2, QueueInvariance, PTL DEF Spec, FifoOrder, Channel!Spec
=============================================================================
