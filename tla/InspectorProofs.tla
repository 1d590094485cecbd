--------------------------- MODULE InspectorProofs ---------------------------
(***************************************************************************)
(* The inspector's safety for any threads and any number of messages, and  *)
(* that the queue in which its threads meet loses no wake-up.              *)
(***************************************************************************)
EXTENDS InspectorQueue, TLAPS

IInv == TypeOK /\ MessageAccounted /\ FlagsMatchLoop /\ ClientOutlivesLoop

\* What the flags, the Locker and the program counters have to satisfy.
Control ==
  /\ terminated \in BOOLEAN /\ nested \in BOOLEAN /\ deleted \in BOOLEAN
  /\ locker \in Thread \cup {None}
  /\ pc \in [Thread -> AtWS]
  /\ \A t \in JSThread : pc[t] \in AtJS
  /\ \A t \in Thread : pc[t] \in Inside <=> locker = t

ControlInv == Control /\ FlagsMatchLoop /\ ClientOutlivesLoop

\* What the messages have to satisfy.
Messages ==
  /\ kind \in Seq(MessageKind)
  /\ queue \in Seq(Message)
  /\ done \subseteq Message

MessageInv == Messages /\ MessageAccounted

\* The invariant splits into the part about the threads and the part about the messages.
LEMMA TwoHalves == IInv <=> ControlInv /\ MessageInv
BY DEF IInv, ControlInv, MessageInv, TypeOK, Control, Messages

\* Who holds the Locker, no other thread is inside.
LEMMA OneInside ==
  ASSUME Control, NEW t \in Thread, NEW s \in Thread, pc[t] \in Inside, pc[s] \in Inside
  PROVE  s = t
BY DEF Control

\* The connection's thread is a thread, and none of the program's.
LEMMA WSIsNoProgramThread == WS \in Thread /\ \A t \in JSThread : t # WS /\ t \in Thread
BY ThreadAssumption DEF Thread

-----------------------------------------------------------------------------
(* Control *)

\* Entering the loop: it was not running, and WS is in a dispatch, not closed.
LEMMA PauseControl ==
  ASSUME ControlInv, NEW t \in Thread, Pause(t)
  PROVE  ControlInv'
<1> USE DEF Pause, Goto, ControlInv
<1>1. Control'
  BY WSIsNoProgramThread DEF Control, AtWS, AtJS, Inside, InLoop
<1>2. pc'[t] = "loop"
  BY DEF Control
<1>3. FlagsMatchLoop'
  BY <1>2 DEF FlagsMatchLoop, InLoop
<1>4. ClientOutlivesLoop'
  BY DEF ClientOutlivesLoop
<1> QED
  BY <1>1, <1>3, <1>4

\* Leaving it: no other thread was in it.
LEMMA LoopEndsControl ==
  ASSUME ControlInv, NEW t \in Thread, LoopEnds(t)
  PROVE  ControlInv'
<1> USE DEF LoopEnds, Goto, ControlInv
<1>1. Control'
  BY WSIsNoProgramThread DEF Control, AtWS, AtJS, Inside, InLoop
<1>2. \A s \in Thread : pc'[s] \notin InLoop
  BY OneInside DEF Control, Inside, InLoop
<1>3. FlagsMatchLoop'
  BY <1>2 DEF FlagsMatchLoop
<1>4. ClientOutlivesLoop'
  BY DEF ClientOutlivesLoop, InLoop
<1> QED
  BY <1>1, <1>3, <1>4

\* The steps of the loop that stay in it.
LEMMA InLoopControl ==
  ASSUME ControlInv, NEW t \in Thread, LoopAgain(t) \/ DispatchQueued(t)
  PROVE  ControlInv'
<1> USE DEF LoopAgain, DispatchQueued, Dispatch, Goto, ControlInv
<1>1. pc[t] \in InLoop /\ pc'[t] \in InLoop
  BY DEF Control, InLoop
<1>2. nested' = nested /\ deleted' = deleted /\ nested
  BY <1>1 DEF FlagsMatchLoop
<1>3. Control'
  BY WSIsNoProgramThread DEF Control, AtWS, AtJS, Inside, InLoop
<1>4. FlagsMatchLoop'
  BY <1>1, <1>2 DEF FlagsMatchLoop
<1>5. ~deleted
  BY <1>1 DEF ClientOutlivesLoop
<1> QED
  BY <1>2, <1>3, <1>4, <1>5 DEF ClientOutlivesLoop

\* The steps that neither enter nor leave the loop and that no flag depends on.
LEMMA OutsideLoopControl ==
  ASSUME ControlInv, NEW t \in Thread, NEW from \in AtWS \ InLoop, NEW to \in AtWS \ InLoop,
         Goto(t, from, to), UNCHANGED <<terminated, nested, deleted>>, Control',
         from # "closed"
  PROVE  ControlInv'
<1> USE DEF Goto, ControlInv
<1>1. \A s \in Thread : pc'[s] \in InLoop <=> pc[s] \in InLoop
  BY DEF Control
<1>2. FlagsMatchLoop'
  BY <1>1 DEF FlagsMatchLoop
<1>3. ClientOutlivesLoop'
  BY <1>1, WSIsNoProgramThread DEF ClientOutlivesLoop, Control
<1> QED
  BY <1>2, <1>3

\* Release: the Locker is free, so no thread is in the loop.
LEMMA ReleaseControl ==
  ASSUME ControlInv, Release
  PROVE  ControlInv'
<1> USE DEF Release, Goto, ControlInv, WSIsNoProgramThread
<1>1. \A s \in Thread : pc[s] \notin Inside
  BY ThreadAssumption DEF Control, Thread
<1>2. \A s \in Thread : pc[s] \notin InLoop /\ pc'[s] \notin InLoop
  BY <1>1 DEF Control, Inside, InLoop
<1>3. Control'
  BY WSIsNoProgramThread DEF Control, AtWS, AtJS, Inside, InLoop
<1>4. FlagsMatchLoop'
  BY <1>2 DEF FlagsMatchLoop
<1>5. ClientOutlivesLoop'
  BY <1>2, WSIsNoProgramThread DEF ClientOutlivesLoop, Control
<1> QED
  BY <1>3, <1>4, <1>5

\* Every step keeps the control part.
LEMMA ControlStep == ControlInv /\ [Next]_vars => ControlInv'
<1> SUFFICES ASSUME ControlInv, [Next]_vars PROVE ControlInv'
  OBVIOUS
<1> USE WSIsNoProgramThread
<1>1. ASSUME NEW t \in JSThread, Enter(t) PROVE ControlInv'
  <2>1. Control'
    BY <1>1, ThreadAssumption DEF Enter, Goto, ControlInv, Control, Thread, AtWS, AtJS, Inside, InLoop
  <2>2. Goto(t, "idle", "running") /\ UNCHANGED <<terminated, nested, deleted>>
    BY <1>1 DEF Enter
  <2> QED
    BY <2>1, <2>2, OutsideLoopControl DEF AtWS, AtJS, Inside, InLoop
<1>2. ASSUME NEW t \in Thread, Leave(t) PROVE ControlInv'
  <2>1. Control'
    BY <1>2, ThreadAssumption DEF Leave, Goto, ControlInv, Control, Thread, AtWS, AtJS, Inside, InLoop
  <2>2. Goto(t, "running", "idle") /\ UNCHANGED <<terminated, nested, deleted>>
    BY <1>2 DEF Leave
  <2> QED
    BY <2>1, <2>2, OutsideLoopControl DEF AtWS, AtJS, Inside, InLoop
<1>3. ASSUME NEW t \in Thread, Pause(t) \/ Loop(t) PROVE ControlInv'
  BY <1>3, PauseControl, LoopEndsControl, InLoopControl DEF Loop
<1>4. ASSUME NEW from \in {"idle", "received", "push", "returning"},
             NEW to \in {"idle", "received", "direct", "push", "returning", "closing"},
             Goto(WS, from, to), UNCHANGED <<terminated, nested, locker, deleted>>
      PROVE  ControlInv'
  <2>1. from \in AtWS \ Inside /\ to \in AtWS \ Inside /\ InLoop \subseteq Inside
    BY DEF AtWS, AtJS, Inside, InLoop
  <2>2. Control'
    BY <1>4, <2>1 DEF Goto, ControlInv, Control
  <2> QED
    BY <1>4, <2>1, <2>2, OutsideLoopControl
<1>5. CASE Receive \/ StartClose \/ Deliver
  BY <1>4, <1>5 DEF Receive, StartClose, Deliver, ReadTerminated, Push, ReturnFromPush
<1>6. CASE DispatchDirect
  <2>1. Control'
    BY <1>6, ThreadAssumption DEF DispatchDirect, Goto, ControlInv, Control, Thread, AtWS, AtJS, Inside, InLoop
  <2>2. Goto(WS, "direct", "running") /\ UNCHANGED <<terminated, nested, deleted>>
    BY <1>6 DEF DispatchDirect
  <2> QED
    BY <2>1, <2>2, OutsideLoopControl DEF AtWS, AtJS, Inside, InLoop
<1>7. CASE UNCHANGED vars
  BY <1>7 DEF vars, ControlInv, Control, FlagsMatchLoop, ClientOutlivesLoop
<1> QED
  BY <1>1, <1>2, <1>3, <1>5, <1>6, <1>7, ReleaseControl DEF Next

-----------------------------------------------------------------------------
(* Messages *)

\* Steps that leave the messages where they are.
LEMMA SamePlace ==
  ASSUME MessageInv, UNCHANGED <<kind, queue, done>>, InHand' = InHand
  PROVE  MessageInv'
BY DEF MessageInv, Messages, MessageAccounted, Message, Queued

\* An arriving message is in hand, the others stay where they are.
LEMMA ReceiveKeeps ==
  ASSUME MessageInv, Control, Receive
  PROVE  MessageInv'
<1> USE DEF Receive, MessageInv, Messages
<1>1. pc[WS] = "idle" /\ pc'[WS] = "received"
  BY WSIsNoProgramThread DEF Goto, Control
<1>2. PICK k \in MessageKind : kind' = Append(kind, k)
  OBVIOUS
<1>3. Len(kind) \in Nat /\ Len(kind') = Len(kind) + 1
  BY <1>2
<1>4. InHand = {} /\ InHand' = {Len(kind) + 1}
  BY <1>1, <1>3 DEF InHand, Current
<1>5. Message' = Message \cup {Len(kind) + 1} /\ Len(kind) + 1 \notin Message
  BY <1>3 DEF Message
<1>6. queue' = queue /\ done' = done /\ Queued' = Queued
  BY DEF Queued
<1>7. queue \in Seq(Message')
  BY <1>5
<1>8. Messages'
  BY <1>2, <1>5, <1>6, <1>7
<1>9. Queued \subseteq Message
  BY DEF Queued
<1>10. MessageAccounted'
  BY <1>4, <1>5, <1>6, <1>9 DEF MessageAccounted
<1> QED
  BY <1>8, <1>10

\* The message in hand is later than all those queued, and goes to the end.
LEMMA PushKeeps ==
  ASSUME MessageInv, Control, Push
  PROVE  MessageInv'
<1> USE DEF Push, MessageInv, Messages
<1>1. pc[WS] = "push" /\ pc'[WS] = "returning"
  BY WSIsNoProgramThread DEF Goto, Control
<1>2. InHand = {Current} /\ InHand' = {} /\ Message' = Message
  BY <1>1 DEF InHand, Current, Message
<1>3. Current \in Message /\ Len(queue) \in Nat /\ Len(queue') = Len(queue) + 1
  BY <1>2 DEF MessageAccounted
<1>4. \A i \in 1 .. Len(queue) : queue'[i] = queue[i] /\ queue[i] \in Queued
  BY <1>3 DEF Queued
<1>5. queue'[Len(queue) + 1] = Current
  OBVIOUS
<1>6. Queued' = Queued \cup {Current}
  BY <1>3, <1>4, <1>5 DEF Queued
<1>7. queue' \in Seq(Message) /\ done' = done
  BY <1>3
<1>8. \A i \in 1 .. Len(queue) : queue[i] < Current
  <2> SUFFICES ASSUME NEW i \in 1 .. Len(queue) PROVE queue[i] < Current
    OBVIOUS
  <2>1. queue[i] \in Message /\ queue[i] # Current
    BY <1>2, <1>4 DEF MessageAccounted
  <2> QED
    BY <2>1 DEF Message, Current
<1>9. \A i, j \in 1 .. Len(queue') : i < j => queue'[i] < queue'[j]
  <2> SUFFICES ASSUME NEW i \in 1 .. Len(queue'), NEW j \in 1 .. Len(queue'), i < j
               PROVE  queue'[i] < queue'[j]
    OBVIOUS
  <2>1. i \in 1 .. Len(queue)
    BY <1>3
  <2>2. CASE j = Len(queue) + 1
    BY <2>1, <2>2, <1>4, <1>5, <1>8
  <2>3. CASE j \in 1 .. Len(queue)
    BY <2>1, <2>3, <1>4 DEF MessageAccounted
  <2> QED
    BY <1>3, <2>2, <2>3
<1>10. MessageAccounted'
  BY <1>2, <1>6, <1>7, <1>9 DEF MessageAccounted
<1> QED
  BY <1>2, <1>7, <1>10

\* The first of the queue goes to the session.
LEMMA DispatchQueuedKeepsInv ==
  ASSUME MessageInv, Control, NEW t \in Thread, DispatchQueued(t)
  PROVE  MessageInv'
<1> USE DEF DispatchQueued, Dispatch, MessageInv, Messages
<1>1. InHand' = InHand /\ Message' = Message
  BY WSIsNoProgramThread DEF InHand, Current, Message, Goto, Control
<1>2. Len(queue) \in Nat /\ Len(queue) > 0 /\ Head(queue) = queue[1] /\ 1 \in 1 .. Len(queue)
  OBVIOUS
<1>3. /\ queue' \in Seq(Message) /\ Len(queue') = Len(queue) - 1
      /\ \A i \in 1 .. Len(queue') : queue'[i] = queue[i + 1] /\ i + 1 \in 1 .. Len(queue)
  BY <1>2
<1>4. Queued = Queued' \cup {queue[1]}
  <2>1. Queued' \subseteq Queued
    BY <1>3 DEF Queued
  <2>2. ASSUME NEW i \in 1 .. Len(queue) PROVE queue[i] \in Queued' \cup {queue[1]}
    <3>1. CASE i = 1
      BY <3>1
    <3>2. CASE i # 1
      <4>1. i - 1 \in 1 .. Len(queue') /\ (i - 1) + 1 = i
        BY <1>3, <3>2, <1>2
      <4>2. queue'[i - 1] = queue[i]
        BY <4>1, <1>3
      <4> QED
        BY <4>1, <4>2 DEF Queued
    <3> QED
      BY <3>1, <3>2
  <2> QED
    BY <1>2, <2>1, <2>2 DEF Queued
<1>5. queue[1] \notin Queued'
  <2> SUFFICES ASSUME NEW i \in 1 .. Len(queue'), queue'[i] = queue[1] PROVE FALSE
    BY DEF Queued
  <2>1. queue[1] < queue[i + 1]
    BY <1>2, <1>3 DEF MessageAccounted
  <2>2. queue[1] \in Nat
    BY <1>2 DEF Message
  <2> QED
    BY <1>3, <2>1, <2>2
<1>6. \A i, j \in 1 .. Len(queue') : i < j => queue'[i] < queue'[j]
  BY <1>3 DEF MessageAccounted
<1>7. done' = done \cup {queue[1]} /\ queue[1] \in Message
  BY <1>2
<1>8. MessageAccounted'
  BY <1>1, <1>4, <1>5, <1>6, <1>7 DEF MessageAccounted
<1> QED
  BY <1>1, <1>3, <1>7, <1>8

\* Every step keeps the message part.
LEMMA MessageStep == MessageInv /\ Control /\ [Next]_vars => MessageInv'
<1> SUFFICES ASSUME MessageInv, Control, [Next]_vars PROVE MessageInv'
  OBVIOUS
<1> USE WSIsNoProgramThread
<1>1. ASSUME NEW t \in Thread, Goto(t, "running", "idle") \/ Goto(t, "idle", "running")
                \/ Goto(t, "running", "loop") \/ Goto(t, "loop", "running")
                \/ Goto(t, "loop", "popping"),
             UNCHANGED <<kind, queue, done>>
      PROVE  MessageInv'
  <2>1. InHand' = InHand
    BY <1>1 DEF Goto, Control, InHand, Current
  <2> QED
    BY <1>1, <2>1, SamePlace
<1>2. ASSUME NEW t \in JSThread, Enter(t) PROVE MessageInv'
  BY <1>1, <1>2 DEF Enter
<1>3. ASSUME NEW t \in Thread, Leave(t) \/ Pause(t) \/ LoopAgain(t) \/ LoopEnds(t)
      PROVE  MessageInv'
  BY <1>1, <1>3 DEF Leave, Pause, LoopAgain, LoopEnds
<1>4. ASSUME NEW t \in Thread, DispatchQueued(t) PROVE MessageInv'
  BY <1>4, DispatchQueuedKeepsInv
<1>5. CASE ReadTerminated \/ ReturnFromPush \/ StartClose \/ Release
  <2>1. InHand' = InHand /\ UNCHANGED <<kind, queue, done>>
    BY <1>5 DEF ReadTerminated, ReturnFromPush, StartClose, Release, Goto, Control, InHand, Current
  <2> QED
    BY <2>1, SamePlace
<1>6. CASE DispatchDirect
  <2>1. InHand = {Current} /\ InHand' = {} /\ Message' = Message /\ Queued' = Queued
        /\ kind' = kind /\ queue' = queue /\ done' = done \cup {Current}
    BY <1>6 DEF DispatchDirect, Goto, Control, InHand, Current, Message, Queued
  <2>2. Current \in Message
    BY <2>1 DEF MessageInv, MessageAccounted
  <2>3. MessageAccounted'
    BY <2>1, <2>2 DEF MessageInv, MessageAccounted
  <2> QED
    BY <2>1, <2>2, <2>3 DEF MessageInv, Messages
<1>7. CASE UNCHANGED vars
  <2>1. InHand' = InHand
    BY <1>7 DEF vars, InHand, Current
  <2> QED
    BY <1>7, <2>1, SamePlace DEF vars
<1> QED
  BY <1>2, <1>3, <1>4, <1>5, <1>6, <1>7, ReceiveKeeps, PushKeeps DEF Next, Loop, Deliver

-----------------------------------------------------------------------------
(* Theorems *)

\* No message has arrived and no thread is inside.
LEMMA InitialState == Init => IInv
<1> SUFFICES ASSUME Init PROVE IInv
  OBVIOUS
<1>1. \A t \in Thread : pc[t] = "idle" /\ t # None
  BY ThreadAssumption DEF Init, Thread
<1>2. TypeOK
  <2>1. kind \in Seq(MessageKind) /\ queue \in Seq(Message) /\ done \subseteq Message
    BY DEF Init
  <2>2. pc \in [Thread -> AtWS] /\ \A t \in JSThread : pc[t] \in AtJS
    BY <1>1, WSIsNoProgramThread DEF Init, AtWS, AtJS
  <2>3. \A t \in Thread : pc[t] \notin Inside /\ locker # t
    BY <1>1 DEF Init, Inside, InLoop
  <2> QED
    BY <2>1, <2>2, <2>3 DEF Init, TypeOK
<1>3. FlagsMatchLoop /\ ClientOutlivesLoop
  BY <1>1 DEF Init, FlagsMatchLoop, ClientOutlivesLoop, InLoop
<1>4. MessageAccounted
  BY <1>1, WSIsNoProgramThread DEF Init, MessageAccounted, Message, InHand, Queued
<1> QED
  BY <1>2, <1>3, <1>4 DEF IInv

\* The two halves are kept together.
LEMMA IInvStep == IInv /\ [Next]_vars => IInv'
<1>1. IInv' <=> ControlInv' /\ MessageInv'
  BY DEF IInv, ControlInv, MessageInv, TypeOK, Control, Messages
<1> QED
  BY <1>1, TwoHalves, ControlStep, MessageStep DEF ControlInv

\* The invariant holds in every reachable state.
THEOREM InspectorInvariance == Spec => []IInv
BY InitialState, IInvStep, PTL DEF Spec

\* The state of the inspector is well typed, and the Locker is held by the one thread inside.
THEOREM InspectorTypeCorrect == Spec => []TypeOK
<1>1. IInv => TypeOK
  BY DEF IInv
<1> QED
  BY <1>1, InspectorInvariance, PTL

\* No message is lost or duplicated between the connection and the session.
THEOREM MessagesAccounted == Spec => []MessageAccounted
<1>1. IInv => MessageAccounted
  BY DEF IInv
<1> QED
  BY <1>1, InspectorInvariance, PTL

\* The flags of the client agree with where the threads are.
THEOREM FlagsTellTheTruth == Spec => []FlagsMatchLoop
<1>1. IInv => FlagsMatchLoop
  BY DEF IInv
<1> QED
  BY <1>1, InspectorInvariance, PTL

\* The client is deleted under no thread that runs its loop.
THEOREM ClientIsNotDeletedInUse == Spec => []ClientOutlivesLoop
<1>1. IInv => ClientOutlivesLoop
  BY DEF IInv
<1> QED
  BY <1>1, InspectorInvariance, PTL

-----------------------------------------------------------------------------
(* Pauses that end and pauses that hang *)

\* The thread of the connection ends with the client.
ClosedIsDeleted == pc[WS] = "closed" => deleted

LEMMA ClosedIsDeletedStep == ControlInv /\ ClosedIsDeleted /\ [Next]_vars => ClosedIsDeleted'
BY WSIsNoProgramThread DEF ClosedIsDeleted, ControlInv, Control, Goto, vars, Next, Enter, Leave, Pause,
   Loop, LoopAgain, LoopEnds, DispatchQueued, Dispatch, Receive, Deliver, ReadTerminated, Push, ReturnFromPush,
   DispatchDirect, StartClose, Release

\* A thread that waits for a message has found terminated FALSE, and it alone could have set it
\* since: who else does so needs the Locker.
PopsWhileOpen == \A t \in Thread : pc[t] = "popping" => ~terminated

LEMMA PopsWhileOpenStep == ControlInv /\ PopsWhileOpen /\ [Next]_vars => PopsWhileOpen'
<1> SUFFICES ASSUME ControlInv, PopsWhileOpen, [Next]_vars,
                    NEW s \in Thread, pc'[s] = "popping"
             PROVE  ~terminated'
  BY DEF PopsWhileOpen
<1> USE WSIsNoProgramThread DEF ControlInv, Control, PopsWhileOpen, Goto
<1>1. ASSUME NEW t \in Thread, LoopAgain(t) PROVE ~terminated'
  BY <1>1 DEF LoopAgain
<1>2. ASSUME NEW t \in Thread, DispatchQueued(t) PROVE ~terminated'
  <2>1. pc[t] = "popping" /\ pc'[t] = "loop"
    BY <1>2 DEF DispatchQueued, Dispatch
  <2>2. s # t /\ pc[s] = "popping"
    BY <1>2, <2>1 DEF DispatchQueued, Dispatch
  <2> QED
    BY <2>1, <2>2, OneInside DEF Inside, InLoop
<1>3. ASSUME NEW t \in Thread, Leave(t) \/ Pause(t) \/ LoopEnds(t) PROVE ~terminated'
  BY <1>3 DEF Leave, Pause, LoopEnds
<1>4. ASSUME NEW t \in JSThread, Enter(t) PROVE ~terminated'
  BY <1>4 DEF Enter
<1>5. CASE Receive \/ Deliver \/ DispatchDirect \/ StartClose
  BY <1>5 DEF Receive, Deliver, ReadTerminated, Push, ReturnFromPush, DispatchDirect, StartClose
<1>6. CASE Release
  <2>1. pc[s] = "popping"
    BY <1>6 DEF Release
  <2>2. locker = s /\ locker = None
    BY <1>6, <2>1 DEF Release, Inside, InLoop
  <2> QED
    BY <2>2, ThreadAssumption DEF Thread
<1>7. CASE UNCHANGED vars
  BY <1>7 DEF vars
<1> QED
  BY <1>1, <1>2, <1>3, <1>4, <1>5, <1>6, <1>7 DEF Next, Loop

\* Where the thread of the connection can be while another one, or itself, is in the loop.
LEMMA PauseCanEndFollows == IInv /\ ClosedIsDeleted /\ PopsWhileOpen => PauseCanEnd
<1> SUFFICES ASSUME IInv, ClosedIsDeleted, PopsWhileOpen, NEW t \in Thread,
                    pc[t] = "popping", queue = <<>>, ~Hung
             PROVE  pc[WS] \in {"idle", "received", "push", "returning"}
  BY DEF PauseCanEnd, PopsWhileOpen
<1> USE WSIsNoProgramThread
<1>1. Control
  BY TwoHalves DEF ControlInv
<1>2. pc[WS] \in AtWS
  BY <1>1 DEF Control
<1>3. pc[WS] \notin {"direct", "closing", "popping"}
  BY DEF Hung
<1>4. pc[WS] \notin {"running", "loop"}
  <2> SUFFICES ASSUME pc[WS] \in {"running", "loop"} PROVE FALSE
    OBVIOUS
  <2>1. WS = t
    BY <1>1, OneInside DEF Inside, InLoop
  <2> QED
    BY <2>1
<1>5. pc[WS] # "closed"
  BY DEF ClosedIsDeleted, IInv, ClientOutlivesLoop, InLoop
<1> QED
  BY <1>2, <1>3, <1>4, <1>5 DEF AtWS, AtJS, Inside, InLoop

\* A pause that waits for a message can be ended by one, but for the three ways in which the
\* connection's thread itself waits for the paused thread.
THEOREM PausesCanEnd == Spec => []PauseCanEnd
<1>1. Init => ClosedIsDeleted /\ PopsWhileOpen
  BY WSIsNoProgramThread DEF Init, ClosedIsDeleted, PopsWhileOpen
<1>2. IInv => ControlInv
  BY TwoHalves
<1> QED
  BY <1>1, <1>2, InspectorInvariance, ClosedIsDeletedStep, PopsWhileOpenStep, PauseCanEndFollows,
     PTL DEF Spec

\* Those three are final: no thread takes another step.
LEMMA HungStays == IInv /\ Hung /\ [Next]_vars => UNCHANGED vars
<1> SUFFICES ASSUME IInv, Hung, Next PROVE FALSE
  BY DEF vars
<1> USE WSIsNoProgramThread
<1>1. Control /\ queue = <<>> /\ pc[WS] \in {"direct", "closing", "popping"}
  BY TwoHalves DEF ControlInv, Hung
<1>2. PICK t \in Thread : pc[t] = "popping"
  BY DEF Hung
<1>3. locker # None /\ \A s \in Thread : pc[s] \in Inside => s = t
  BY <1>1, <1>2, ThreadAssumption DEF Control, Inside, InLoop, Thread
<1>4. \A s \in Thread : pc[s] \notin {"running", "loop"}
  BY <1>2, <1>3 DEF Inside, InLoop
<1>5. ASSUME NEW s \in JSThread, Enter(s) PROVE FALSE
  BY <1>3, <1>5 DEF Enter
<1>6. ASSUME NEW s \in Thread, Leave(s) \/ Pause(s) \/ Loop(s) PROVE FALSE
  BY <1>1, <1>4, <1>6 DEF Leave, Pause, Loop, LoopAgain, LoopEnds, DispatchQueued, Dispatch, Goto
<1>7. CASE Receive \/ Deliver \/ DispatchDirect \/ StartClose \/ Release
  BY <1>1, <1>3, <1>7 DEF Receive, Deliver, ReadTerminated, Push, ReturnFromPush, DispatchDirect,
                          StartClose, Release, Goto
<1> QED
  BY <1>5, <1>6, <1>7 DEF Next

\* A pause that hangs is never ended: neither by the debugger nor by any other thread.
THEOREM HungPausesStay == Spec => HungForGood
<1>1. IInv /\ [Next]_vars => [~Hung]_vars
  BY HungStays
<1> QED
  BY <1>1, InspectorInvariance, PTL DEF Spec, HungForGood

\* The first of the queue is the earliest that the session has not been given, except for the
\* one in hand, which is the latest of all; and that one goes directly to the session only when
\* no loop runs.
LEMMA OvertakingStep ==
  ASSUME IInv, [Next]_vars, NEW m \in done' \ done, NEW e \in Message, e < m, e \notin done
  PROVE  LeftBehind(e)
<1> USE WSIsNoProgramThread
<1>1. Control /\ MessageAccounted /\ kind \in Seq(MessageKind) /\ queue \in Seq(Message)
  BY TwoHalves DEF ControlInv, IInv, TypeOK
<1>2. e \in Nat /\ Current \in Nat /\ e <= Current
  BY <1>1 DEF Message, Current
<1>3. e \in InHand \/ e \in Queued
  BY <1>1 DEF MessageAccounted
<1>4. ASSUME NEW t \in Thread, DispatchQueued(t) PROVE FALSE
  <2>1. m = queue[1] /\ m \in Message /\ Len(queue) \in Nat /\ 1 \in 1 .. Len(queue)
    BY <1>1, <1>4 DEF DispatchQueued, Dispatch
  <2>2. e \notin InHand
    BY <1>1, <1>2, <2>1 DEF InHand, Message, Current
  <2>3. PICK i \in 1 .. Len(queue) : e = queue[i]
    BY <1>3, <2>2 DEF Queued
  <2>4. i = 1 \/ queue[1] < queue[i]
    BY <1>1, <2>1 DEF MessageAccounted
  <2> QED
    BY <1>1, <2>1, <2>3, <2>4 DEF Message
<1>5. CASE DispatchDirect
  <2>1. m = Current /\ e # Current /\ locker = None
    BY <1>2, <1>5 DEF DispatchDirect
  <2>2. e \in Queued
    BY <1>3, <2>1 DEF InHand
  <2>3. \A s \in Thread : pc[s] \notin InLoop
    BY <1>1, <2>1, ThreadAssumption DEF Control, Inside, Thread
  <2> QED
    BY <2>2, <2>3 DEF LeftBehind, IInv, FlagsMatchLoop
<1>6. CASE ~DispatchDirect /\ ~\E t \in Thread : DispatchQueued(t)
  <2>1. done' = done
    BY <1>6 DEF Next, vars, Enter, Leave, Pause, Loop, LoopAgain, LoopEnds, Receive, Deliver,
                ReadTerminated, Push, ReturnFromPush, StartClose, Release
  <2> QED
    BY <2>1
<1> QED
  BY <1>4, <1>5, <1>6

\* The session is given the messages in their order, but for those left behind by a pause.
THEOREM MessagesInOrder == Spec => OvertakesLeftOnly
<1>1. IInv /\ [Next]_vars =>
        [\A m \in done' \ done, e \in Message : e < m /\ e \notin done => LeftBehind(e)]_vars
  BY OvertakingStep
<1> QED
  BY <1>1, InspectorInvariance, PTL DEF Spec, OvertakesLeftOnly

-----------------------------------------------------------------------------
(* The queue in the loop *)

\* A thread is in pop exactly while its pc says so, and asleep there only over an empty queue.
PopInv ==
  /\ taken \in Seq(Nat)
  /\ pop \in [Thread -> {"out", "ready", "waiting"}]
  /\ \A t \in Thread : pop[t] # "out" <=> pc[t] = "popping"
  /\ SleepsOnlyWhenEmpty

QInv == IInv /\ PopInv

\* The item that pop returns is the head of the queue, so the composed step is the step of
\* the client over a sequence.
LEMMA PopsTheHead ==
  ASSUME QInv, NEW t \in Thread, PopAndDispatch(t)
  PROVE  DispatchQueued(t)
<1>1. queue # <<>> /\ queue' = Tail(queue) /\ taken' = Append(taken, Head(queue))
  BY DEF PopAndDispatch, Q!Pop
<1>2. Head(queue) \in Nat /\ taken \in Seq(Nat)
  BY <1>1 DEF QInv, PopInv, IInv, TypeOK, Message
<1>3. taken'[Len(taken')] = Head(queue)
  BY <1>1, <1>2
<1> QED
  BY <1>1, <1>3 DEF PopAndDispatch, DispatchQueued

\* Every step of the composition is a step of the client, or leaves it alone.
LEMMA ClientStep == QInv /\ [QNext]_qVars => [Next]_vars
<1> SUFFICES ASSUME QInv, [QNext]_qVars PROVE [Next]_vars
  OBVIOUS
<1>1. CASE Elsewhere
  BY <1>1 DEF Elsewhere, Next
<1>2. CASE QDeliver
  <2>1. PushAndNotify => Push
    BY DEF PushAndNotify, Push, Q!Push
  <2> QED
    BY <1>2, <2>1 DEF QDeliver, Next, Deliver
<1>3. ASSUME NEW t \in Thread, QLoop(t) PROVE [Next]_vars
  <2>1. CASE StartPop(t) \/ LoopEnds(t)
    BY <2>1 DEF StartPop, Next, Loop
  <2>2. CASE FallAsleep(t)
    BY <2>2 DEF FallAsleep
  <2>3. CASE PopAndDispatch(t)
    BY <2>3, PopsTheHead DEF Next, Loop
  <2> QED
    BY <1>3, <2>1, <2>2, <2>3 DEF QLoop
<1>4. ASSUME NEW t \in Thread, WakeUp(t) PROVE [Next]_vars
  BY <1>4 DEF WakeUp
<1>5. CASE UNCHANGED qVars
  BY <1>5 DEF qVars, vars
<1> QED
  BY <1>1, <1>2, <1>3, <1>4, <1>5 DEF QNext

\* A push onto an empty queue finds at most one thread asleep, which it wakes.
LEMMA PushWakes ==
  ASSUME QInv, PushAndNotify
  PROVE  PopInv'
<1> USE WSIsNoProgramThread
<1>1. Control
  BY TwoHalves DEF QInv, ControlInv
<1>2. \A t \in Thread : pc'[t] = "popping" <=> pc[t] = "popping"
  BY <1>1 DEF PushAndNotify, Goto, Control
<1>3. taken' = taken
  BY DEF PushAndNotify, Q!Push
<1>4. \A s, t \in Thread : pop[s] = "waiting" /\ pop[t] = "waiting" => s = t
  BY <1>1, OneInside DEF QInv, PopInv, SleepsOnlyWhenEmpty, Inside, InLoop
<1>5. CASE queue # <<>>
  <2>1. pop' = pop /\ \A t \in Thread : pop[t] # "waiting"
    BY <1>5 DEF PushAndNotify, Q!Push, QInv, PopInv, SleepsOnlyWhenEmpty
  <2> QED
    BY <1>2, <1>3, <2>1 DEF QInv, PopInv, SleepsOnlyWhenEmpty
<1>6. CASE queue = <<>>
  <2>1. Q!NotifyOne
    BY <1>6 DEF PushAndNotify, Q!Push
  <2>2. CASE Q!Waiting = {}
    <3>1. pop' = pop /\ \A t \in Thread : pop[t] # "waiting"
      BY <2>1, <2>2 DEF Q!NotifyOne, Q!Waiting
    <3> QED
      BY <1>2, <1>3, <3>1 DEF QInv, PopInv, SleepsOnlyWhenEmpty
  <2>3. CASE Q!Waiting # {}
    <3>1. PICK c \in Q!Waiting : pop' = [pop EXCEPT ![c] = "ready"]
      BY <2>1, <2>3 DEF Q!NotifyOne
    <3>2. c \in Thread /\ pop[c] = "waiting"
      BY <3>1 DEF Q!Waiting
    <3>3. \A t \in Thread : pop'[t] # "waiting"
      BY <1>4, <3>1, <3>2 DEF QInv, PopInv
    <3>4. pop' \in [Thread -> {"out", "ready", "waiting"}]
      BY <3>1, <3>2 DEF QInv, PopInv
    <3>5. \A t \in Thread : pop'[t] # "out" <=> pc'[t] = "popping"
      BY <1>2, <3>1, <3>2 DEF QInv, PopInv
    <3> QED
      BY <1>3, <3>3, <3>4, <3>5 DEF QInv, PopInv, SleepsOnlyWhenEmpty
  <2> QED
    BY <2>2, <2>3
<1> QED
  BY <1>5, <1>6

\* Every step keeps PopInv.
LEMMA PopStep == QInv /\ [QNext]_qVars => PopInv'
<1> SUFFICES ASSUME QInv, [QNext]_qVars PROVE PopInv'
  OBVIOUS
<1> USE WSIsNoProgramThread
<1>1. Control
  BY TwoHalves DEF QInv, ControlInv
<1>2. ASSUME UNCHANGED queueVars, UNCHANGED queue,
             \A t \in Thread : pc'[t] = "popping" <=> pc[t] = "popping"
      PROVE  PopInv'
  BY <1>2 DEF queueVars, QInv, PopInv, SleepsOnlyWhenEmpty
<1>3. ASSUME NEW t \in Thread, NEW from \in AtWS \ {"popping"}, NEW to \in AtWS \ {"popping"},
             Goto(t, from, to), UNCHANGED queueVars, UNCHANGED queue
      PROVE  PopInv'
  BY <1>1, <1>2, <1>3 DEF Goto, Control
<1>4. CASE Elsewhere
  <2>1. UNCHANGED queueVars /\ UNCHANGED queue
    BY <1>4 DEF Elsewhere, Enter, Leave, Pause, Receive, DispatchDirect, StartClose, Release
  <2>2. PICK t \in Thread, from \in AtWS \ {"popping"}, to \in AtWS \ {"popping"} : Goto(t, from, to)
    <3>1. "idle" \in AtWS \ {"popping"} /\ "running" \in AtWS \ {"popping"}
          /\ "loop" \in AtWS \ {"popping"} /\ "received" \in AtWS \ {"popping"}
          /\ "direct" \in AtWS \ {"popping"} /\ "closing" \in AtWS \ {"popping"}
          /\ "closed" \in AtWS \ {"popping"}
      BY DEF AtWS, AtJS, Inside, InLoop
    <3>2. ASSUME NEW t \in JSThread, Enter(t) PROVE t \in Thread /\ Goto(t, "idle", "running")
      BY <3>2 DEF Enter
    <3>3. ASSUME NEW t \in Thread, Leave(t) \/ Pause(t)
          PROVE  Goto(t, "running", "idle") \/ Goto(t, "running", "loop")
      BY <3>3 DEF Leave, Pause
    <3>4. ASSUME Receive \/ DispatchDirect \/ StartClose \/ Release
          PROVE  Goto(WS, "idle", "received") \/ Goto(WS, "direct", "running")
                 \/ Goto(WS, "idle", "closing") \/ Goto(WS, "closing", "closed")
      BY <3>4 DEF Receive, DispatchDirect, StartClose, Release
    <3> QED
      BY <1>4, <3>1, <3>2, <3>3, <3>4 DEF Elsewhere
  <2> QED
    BY <1>3, <2>1, <2>2
<1>5. CASE (ReadTerminated \/ ReturnFromPush) /\ UNCHANGED queueVars
  BY <1>1, <1>2, <1>5 DEF ReadTerminated, ReturnFromPush, Goto, Control
<1>6. CASE PushAndNotify
  BY <1>6, PushWakes
<1>7. ASSUME NEW t \in Thread, StartPop(t) PROVE PopInv'
  BY <1>1, <1>7 DEF StartPop, LoopAgain, Goto, Q!CallPop, Control, QInv, PopInv, SleepsOnlyWhenEmpty
<1>8. ASSUME NEW t \in Thread, LoopEnds(t), UNCHANGED queueVars PROVE PopInv'
  BY <1>1, <1>2, <1>8 DEF LoopEnds, Goto, Control
<1>9. ASSUME NEW t \in Thread, FallAsleep(t) \/ WakeUp(t) PROVE PopInv'
  BY <1>9 DEF FallAsleep, WakeUp, vars, Q!Wait, Q!SpuriousWakeUp, QInv, PopInv, SleepsOnlyWhenEmpty
<1>10. ASSUME NEW t \in Thread, PopAndDispatch(t) PROVE PopInv'
  <2>1. /\ pop[t] = "ready" /\ queue # <<>> /\ pop' = [pop EXCEPT ![t] = "out"]
        /\ taken' = Append(taken, Head(queue))
        /\ pc' = [pc EXCEPT ![t] = "loop"]
    BY <1>10 DEF PopAndDispatch, Q!Pop, Dispatch, Goto
  <2>2. Head(queue) \in Nat
    BY <2>1 DEF QInv, IInv, TypeOK, Message
  <2>3. taken' \in Seq(Nat)
    BY <2>1, <2>2 DEF QInv, PopInv
  <2>4. \A s \in Thread : pop'[s] # "waiting"
    BY <2>1 DEF QInv, PopInv, SleepsOnlyWhenEmpty
  <2>5. /\ pop' \in [Thread -> {"out", "ready", "waiting"}]
        /\ \A s \in Thread : pop'[s] # "out" <=> pc'[s] = "popping"
    BY <1>1, <2>1 DEF QInv, PopInv, Control
  <2> QED
    BY <2>3, <2>4, <2>5 DEF PopInv, SleepsOnlyWhenEmpty
<1>11. CASE UNCHANGED qVars
  BY <1>2, <1>11 DEF qVars, queueVars
<1> QED
  BY <1>4, <1>5, <1>6, <1>7, <1>8, <1>9, <1>10, <1>11 DEF QNext, QDeliver, QLoop

\* The invariant of the client and that of its queue hold together.
THEOREM QueuedInspectorInvariance == QSpec => []QInv
<1>1. QInit => QInv
  <2> SUFFICES ASSUME QInit PROVE QInv
    OBVIOUS
  <2>1. IInv
    BY InitialState DEF QInit
  <2>2. PopInv
    BY DEF QInit, Init, PopInv, SleepsOnlyWhenEmpty
  <2> QED
    BY <2>1, <2>2 DEF QInv
<1>2. QInv /\ [QNext]_qVars => QInv'
  BY ClientStep, IInvStep, PopStep DEF QInv
<1> QED
  BY <1>1, <1>2, PTL DEF QSpec

\* A thread asleep in pop has nothing to pop, although push notifies one thread and only on an
\* empty queue.
THEOREM NoPausedThreadOversleeps == QSpec => []SleepsOnlyWhenEmpty
<1>1. QInv => SleepsOnlyWhenEmpty
  BY DEF QInv, PopInv
<1> QED
  BY <1>1, QueuedInspectorInvariance, PTL

\* With the real queue in the loop, every step is one that Inspector allows over a sequence.
THEOREM QueueKeepsInspector == QSpec => Init /\ [][Next]_vars
<1>1. QInit => Init
  BY DEF QInit
<1> QED
  BY <1>1, ClientStep, QueuedInspectorInvariance, PTL DEF QSpec
=============================================================================
