------------------------------ MODULE Inspector ------------------------------
(***************************************************************************)
(* InspectorClient: the debugger's messages on their way from the          *)
(* connection to the V8 session.  The thread WS of the connection delivers *)
(* them one at a time; it dispatches a message itself when `terminated`    *)
(* holds and queues it otherwise.  A thread that reaches a breakpoint, with *)
(* the isolate's Locker held, runs a nested loop that pops the queue until *)
(* a message makes the session call quitMessageLoopOnPause.  `terminated`  *)
(* is read by WS without any lock.  The queue is a sequence here;          *)
(* InspectorQueue puts BlockingQueue, where the paused thread sleeps, in    *)
(* its place.                                                              *)
(*                                                                         *)
(* A message is the number of its arrival.  The session is external (V8):  *)
(* only "resume" and "eval", the message that runs code, have an effect    *)
(* here.  MaxMessages bounds the messages for TLC.                         *)
(***************************************************************************)
EXTENDS Naturals, Sequences

CONSTANTS JSThread, WS, None, MaxMessages

ASSUME ThreadAssumption == WS \notin JSThread /\ None \notin JSThread \cup {WS}
ASSUME MaxMessagesAssumption == MaxMessages \in Nat

VARIABLES
  kind,        \* of the messages that arrived, in their order
  queue,       \* messageQueue
  done,        \* ghost: the messages the session has been given
  terminated,  \* the two flags of the client
  nested,      \* runningNestedLoop
  locker,      \* the thread that holds v8::Locker, which is recursive
  deleted,     \* Release has deleted the client
  pc

vars == <<kind, queue, done, terminated, nested, locker, deleted, pc>>

MessageKind == {"plain", "resume", "eval"}
Thread == JSThread \cup {WS}
Message == 1 .. Len(kind)

\* The message WS is delivering: the last that arrived.
Current == Len(kind)

InLoop == {"loop", "popping"}
Inside == {"running"} \cup InLoop          \* program points with the Locker held
AtJS == {"idle"} \cup Inside
AtWS == AtJS \cup {"received", "direct", "push", "returning", "closing", "closed"}

(***************************************************************************)
(* Flags are Booleans, queue and done hold arrived messages, and only a    *)
(* thread that runs code or loops holds the Locker.                        *)
(***************************************************************************)
TypeOK ==
  /\ kind \in Seq(MessageKind)
  /\ queue \in Seq(Message)
  /\ done \subseteq Message
  /\ terminated \in BOOLEAN /\ nested \in BOOLEAN /\ deleted \in BOOLEAN
  /\ locker \in Thread \cup {None}
  /\ pc \in [Thread -> AtWS]
  /\ \A t \in JSThread : pc[t] \in AtJS
  /\ \A t \in Thread : pc[t] \in Inside <=> locker = t

Init ==
  /\ kind = <<>>
  /\ queue = <<>>
  /\ done = {}
  /\ terminated = TRUE
  /\ nested = FALSE
  /\ locker = None
  /\ deleted = FALSE
  /\ pc = [t \in Thread |-> "idle"]

Goto(t, from, to) == pc[t] = from /\ pc' = [pc EXCEPT ![t] = to]

-----------------------------------------------------------------------------
(* Code that runs in the isolate *)

\* Mutant: a native call does not wait for the Locker.
EnterUnlocked(t) ==
  /\ Goto(t, "idle", "running")
  /\ locker' = t
  /\ UNCHANGED <<kind, queue, done, terminated, nested, deleted>>

\* A native call of a program thread: the Locker is taken, code runs.
Enter(t) ==
  /\ locker = None
  /\ Goto(t, "idle", "running")
  /\ locker' = t
  /\ UNCHANGED <<kind, queue, done, terminated, nested, deleted>>

Leave(t) ==
  /\ Goto(t, "running", "idle")
  /\ locker' = None
  /\ UNCHANGED <<kind, queue, done, terminated, nested, deleted>>

\* WS runs code only while it dispatches "eval".
RunsCode(t) == IF t = WS THEN kind[Current] = "eval" ELSE TRUE

\* V8 calls runMessageLoopOnPause at a breakpoint, after a message (plain) has
\* enabled the debugger.  In the loop the call returns at once: no step stands
\* for it.
Pause(t) ==
  /\ ~deleted /\ ~nested
  /\ \E m \in done : kind[m] = "plain"
  /\ Goto(t, "running", "loop")
  /\ RunsCode(t)
  /\ terminated' = FALSE
  /\ nested' = TRUE
  /\ UNCHANGED <<kind, queue, done, locker, deleted>>

\* Mutant: the loop waits for a message before it looks at the flag.
LoopAgainUnread(t) ==
  /\ Goto(t, "loop", "popping")
  /\ UNCHANGED <<kind, queue, done, terminated, nested, locker, deleted>>

LoopAgain(t) ==
  /\ ~terminated
  /\ Goto(t, "loop", "popping")
  /\ UNCHANGED <<kind, queue, done, terminated, nested, locker, deleted>>

\* Mutant: the loop runs until its queue is empty, terminated or not.
LoopDrains(t) ==
  /\ terminated /\ queue = <<>>
  /\ Goto(t, "loop", "running")
  /\ nested' = FALSE
  /\ UNCHANGED <<kind, queue, done, terminated, locker, deleted>>

LoopEnds(t) ==
  /\ terminated
  /\ Goto(t, "loop", "running")
  /\ nested' = FALSE
  /\ UNCHANGED <<kind, queue, done, terminated, locker, deleted>>

\* Mutant: the Locker is not recursive.
DispatchLocks(t, m) ==
  /\ locker = None
  /\ Goto(t, "popping", "loop")
  /\ done' = done \cup {m}
  /\ UNCHANGED <<kind, terminated, nested, locker, deleted>>

\* dispatchMessage in the loop.  The queue holds a view of a text that is freed when
\* onMessageReceive returns: from then on the session may read any message.
Dispatch(t, m) ==
  /\ Goto(t, "popping", "loop")
  /\ done' = done \cup {m}
  /\ \E k \in MessageKind :
       /\ pc[WS] = "returning" /\ m = Current => k = kind[Current]
       /\ terminated' = (terminated \/ k = "resume")
  /\ UNCHANGED <<kind, nested, locker, deleted>>

\* pop and dispatchMessage.
DispatchQueued(t) ==
  /\ queue # <<>>
  /\ Dispatch(t, Head(queue))
  /\ queue' = Tail(queue)

-----------------------------------------------------------------------------
(* The thread of the connection *)

Receive ==
  /\ Len(kind) < MaxMessages
  /\ Goto(WS, "idle", "received")
  /\ \E k \in MessageKind : kind' = Append(kind, k)
  /\ UNCHANGED <<queue, done, terminated, nested, locker, deleted>>

\* The unlocked read of terminated decides where the message goes.
ReadTerminated ==
  /\ Goto(WS, "received", IF terminated THEN "direct" ELSE "push")
  /\ UNCHANGED <<kind, queue, done, terminated, nested, locker, deleted>>

Push ==
  /\ Goto(WS, "push", "returning")
  /\ queue' = Append(queue, Current)
  /\ UNCHANGED <<kind, done, terminated, nested, locker, deleted>>

ReturnFromPush ==
  /\ Goto(WS, "returning", "idle")
  /\ UNCHANGED <<kind, queue, done, terminated, nested, locker, deleted>>

\* Mutant: dispatchMessage takes no Locker.
DispatchUnlocked ==
  /\ Goto(WS, "direct", "running")
  /\ locker' = WS
  /\ done' = done \cup {Current}
  /\ UNCHANGED <<kind, queue, terminated, nested, deleted>>

\* dispatchMessage on WS waits for the Locker.  "resume" outside of a pause has
\* no effect on the client.
DispatchDirect ==
  /\ locker = None
  /\ Goto(WS, "direct", "running")
  /\ locker' = WS
  /\ done' = done \cup {Current}
  /\ UNCHANGED <<kind, queue, terminated, nested, deleted>>

StartClose ==
  /\ Goto(WS, "idle", "closing")
  /\ UNCHANGED <<kind, queue, done, terminated, nested, locker, deleted>>

\* Mutant: Release does not wait for the Locker.
ReleaseUnlocked ==
  /\ Goto(WS, "closing", "closed")
  /\ terminated' = TRUE
  /\ deleted' = TRUE
  /\ UNCHANGED <<kind, queue, done, nested, locker>>

\* Release takes the Locker before it ends the loop and deletes the client.
Release ==
  /\ locker = None
  /\ Goto(WS, "closing", "closed")
  /\ terminated' = TRUE
  /\ deleted' = TRUE
  /\ UNCHANGED <<kind, queue, done, nested, locker>>

-----------------------------------------------------------------------------
Loop(t) == LoopAgain(t) \/ LoopEnds(t) \/ DispatchQueued(t)

Deliver == ReadTerminated \/ Push \/ ReturnFromPush

Next ==
  \/ \E t \in JSThread : Enter(t)
  \/ \E t \in Thread : Leave(t) \/ Pause(t) \/ Loop(t)
  \/ Receive \/ Deliver \/ DispatchDirect \/ StartClose \/ Release

\* Every script ends, the threads are scheduled, and a thread that waits for
\* the Locker gets it if it is freed again and again.  Nothing is assumed of
\* breakpoints, of new native calls and of the debugger's messages.
Fairness ==
  /\ \A t \in Thread : WF_vars(Leave(t)) /\ WF_vars(Loop(t))
  /\ WF_vars(Deliver) /\ SF_vars(DispatchDirect) /\ SF_vars(Release)

Spec == Init /\ [][Next]_vars /\ Fairness

-----------------------------------------------------------------------------
(* Properties *)

(***************************************************************************)
(* A message that arrived is with WS, in the queue or with the session,    *)
(* and in one of these places only; the queue keeps the order of arrival.  *)
(***************************************************************************)
InHand == IF pc[WS] \in {"received", "direct", "push"} THEN {Current} ELSE {}
Queued == {queue[i] : i \in 1 .. Len(queue)}

MessageAccounted ==
  /\ Message = InHand \cup Queued \cup done
  /\ InHand \cap (Queued \cup done) = {} /\ Queued \cap done = {}
  /\ \A i, j \in 1 .. Len(queue) : i < j => queue[i] < queue[j]

(***************************************************************************)
(* The flags tell the truth about the loop: runningNestedLoop is set while *)
(* a thread is in it, and messages are sent to the queue (terminated is    *)
(* FALSE) only while it runs.                                              *)
(***************************************************************************)
FlagsMatchLoop ==
  /\ nested <=> \E t \in Thread : pc[t] \in InLoop
  /\ ~terminated => nested

(***************************************************************************)
(* The client is not deleted under the thread that runs its loop, nor      *)
(* while WS is still in one of its methods.                                *)
(***************************************************************************)
ClientOutlivesLoop ==
  deleted => /\ \A t \in Thread : pc[t] \notin InLoop
             /\ pc[WS] = "closed"

(***************************************************************************)
(* InspectorInstrumentedTest "wait[s] for all messages to be processed".   *)
(* A message that arrived is given to the session, with two exceptions:    *)
(* the pause ends with the message still in the queue, where it stays      *)
(* until the next pause; or WS has read terminated, a thread has paused    *)
(* after it and keeps the Locker for which WS waits, and nobody is left to *)
(* send the message that resumes.                                          *)
(***************************************************************************)
Stuck == pc[WS] = "direct" /\ queue = <<>> /\ \E t \in JSThread : pc[t] = "popping"

LeftBehind(m) == m \in Queued /\ ~nested

MessageHandled ==
  \A m \in 1 .. MaxMessages : m \in Message ~> (m \in done \/ LeftBehind(m) \/ Stuck)

(***************************************************************************)
(* The session is given the messages in the order in which they arrived:   *)
(* the direct way and the queue overtake each other only over a message    *)
(* that was left behind.                                                   *)
(***************************************************************************)
OvertakesLeftOnly ==
  [][\A m \in done' \ done, e \in Message : e < m /\ e \notin done => LeftBehind(e)]_vars

(***************************************************************************)
(* Once a message has asked to resume, the paused thread goes on, whatever *)
(* is still queued.                                                        *)
(***************************************************************************)
ResumeEndsPause == (nested /\ terminated) ~> ~nested

(***************************************************************************)
(* A pause that waits for a message can be ended by one: what WS receives  *)
(* goes to the queue, as terminated is FALSE.  There are three exceptions, *)
(* in each of which WS itself waits for the paused thread: it has read     *)
(* terminated before the pause, it closes the connection, or the code that *)
(* paused is what its message evaluates.                                   *)
(***************************************************************************)
Hung ==
  /\ queue = <<>> /\ pc[WS] \in {"direct", "closing", "popping"}
  /\ \E t \in Thread : pc[t] = "popping"

PauseCanEnd ==
  \A t \in Thread : pc[t] = "popping" =>
    /\ ~terminated
    /\ queue # <<>> \/ Hung \/ pc[WS] \in {"idle", "received", "push", "returning"}

(***************************************************************************)
(* None of these three ends: no thread can take another step, neither the  *)
(* two that wait for each other nor any other that needs the isolate.      *)
(***************************************************************************)
HungForGood == [][~Hung]_vars
=============================================================================
