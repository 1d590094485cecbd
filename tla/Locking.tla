------------------------------- MODULE Locking -------------------------------
(***************************************************************************)
(* The two kinds of lock around V8: `lock' of the one V8 object, shared by *)
(* all runtimes, and the v8::Locker of each isolate.  Both are recursive.  *)
(*                                                                         *)
(* A program thread takes V8.lock, enters the isolate (Isolate::Scope),    *)
(* takes the Locker, runs, and undoes this in the reverse order, so the    *)
(* isolate is entered before, and left after, its Locker is held.  While   *)
(* it runs it may call back into Java, and the callback may call the API   *)
(* again, for this or another isolate.  The trampoline and the finalizers  *)
(* take nothing that their thread does not hold already.                   *)
(*                                                                         *)
(* The thread of an inspector's connection does the same without V8.lock,  *)
(* and the monitor thread of a runtime deletes handles under no lock.      *)
(* MaxNested bounds, for TLC, the callbacks and the calls from within them *)
(* that one outermost call may make; it stands for scripts and callbacks   *)
(* that end.                                                               *)
(***************************************************************************)
EXTENDS Naturals, Sequences

CONSTANTS Program, Connection, Isolate, MaxNested, None

ASSUME ThreadAssumption == Program \cap Connection = {} /\ None \notin Program \cup Connection
ASSUME MaxNestedAssumption == MaxNested \in Nat

VARIABLES
  lock,       \* the thread that owns V8.lock
  locker,     \* of each isolate, the thread that holds its Locker
  calls,      \* of each thread, the isolates of its calls in progress, the outermost first
  pc,         \* where in the innermost of them it is; in the others it is in "java"
  nested,     \* the callbacks and nested calls its outermost call has made
  releasing   \* the isolates whose monitor thread is in releaseReference

vars == <<lock, locker, calls, pc, nested, releasing>>

Thread == Program \cup Connection

Depth(t) == Len(calls[t])
Innermost(t) == calls[t][Depth(t)]

\* The isolates of the calls in which t waits for a callback of its own.
Outer(t) == {calls[t][n] : n \in 1 .. Depth(t) - 1}

\* The isolates t runs in.
Inside(t) == Outer(t) \cup (IF pc[t] \in {"run", "java"} THEN {Innermost(t)} ELSE {})

\* The outermost call of t that takes V8.lock: dispatchMessage and initInspector do not.
FirstLocking(t) == IF t \in Connection THEN 2 ELSE 1

\* A thread has a place in its calls as long as it has calls.
TypeOK ==
  /\ lock \in Thread \cup {None}
  /\ locker \in [Isolate -> Thread \cup {None}]
  /\ calls \in [Thread -> Seq(Isolate)]
  /\ pc \in [Thread -> {"out", "lock", "enter", "locker", "run", "java", "exit", "unlock"}]
  /\ \A t \in Thread : pc[t] = "out" <=> calls[t] = <<>>
  /\ nested \in [Thread -> 0 .. MaxNested]
  /\ releasing \subseteq Isolate

Init ==
  /\ lock = None
  /\ locker = [i \in Isolate |-> None]
  /\ calls = [t \in Thread |-> <<>>]
  /\ pc = [t \in Thread |-> "out"]
  /\ nested = [t \in Thread |-> 0]
  /\ releasing = {}

Goto(t, from, to) == pc[t] = from /\ pc' = [pc EXCEPT ![t] = to]

Spend(t) == nested[t] < MaxNested /\ nested' = [nested EXCEPT ![t] = @ + 1]

----------------------------------------------------------------------------
\* A call and its return.

\* A synchronized method of V8 is called, from the program or from a callback.
CallApi(t, i) ==
  /\ \/ t \in Program /\ Goto(t, "out", "lock") /\ UNCHANGED nested
     \/ Goto(t, "java", "lock") /\ Spend(t)
  /\ calls' = [calls EXCEPT ![t] = Append(@, i)]
  /\ UNCHANGED <<lock, locker, releasing>>

\* A message is dispatched, or a session is opened, on the connection's thread.
Dispatch(t, i) ==
  /\ t \in Connection
  /\ Goto(t, "out", "enter")
  /\ calls' = [calls EXCEPT ![t] = Append(@, i)]
  /\ UNCHANGED <<lock, locker, nested, releasing>>

\* Mutant: the method is not synchronized.
PassLock(t) ==
  /\ Goto(t, "lock", "enter")
  /\ lock' = t
  /\ UNCHANGED <<locker, calls, nested, releasing>>

TakeLock(t) ==
  /\ lock \in {None, t}
  /\ Goto(t, "lock", "enter")
  /\ lock' = t
  /\ UNCHANGED <<locker, calls, nested, releasing>>

\* Isolate::Enter.
Enter(t) ==
  /\ Goto(t, "enter", "locker")
  /\ UNCHANGED <<lock, locker, calls, nested, releasing>>

TakeLocker(t) ==
  /\ Goto(t, "locker", "run")
  /\ locker[Innermost(t)] \in {None, t}
  /\ locker' = [locker EXCEPT ![Innermost(t)] = t]
  /\ UNCHANGED <<lock, calls, nested, releasing>>

\* A function with a Java callback is called.
Callback(t) ==
  /\ Goto(t, "run", "java")
  /\ Spend(t)
  /\ UNCHANGED <<lock, locker, calls, releasing>>

CallbackReturns(t) ==
  /\ Goto(t, "java", "run")
  /\ UNCHANGED <<lock, locker, calls, nested, releasing>>

\* Mutant: the Locker is not recursive, and a nested call frees it.
FreeLockerAtOnce(t) ==
  /\ Goto(t, "run", "exit")
  /\ locker' = [locker EXCEPT ![Innermost(t)] = None]
  /\ UNCHANGED <<lock, calls, nested, releasing>>

\* Mutant: the Locker outlives the call.
KeepLocker(t) ==
  /\ Goto(t, "run", "exit")
  /\ UNCHANGED <<lock, locker, calls, nested, releasing>>

\* The Locker is destroyed; the outermost one of the thread and isolate frees the lock.
FreeLocker(t) ==
  /\ Goto(t, "run", "exit")
  /\ locker' = IF Innermost(t) \in Outer(t)
               THEN locker
               ELSE [locker EXCEPT ![Innermost(t)] = None]
  /\ UNCHANGED <<lock, calls, nested, releasing>>

\* Isolate::Exit.
Exit(t) ==
  /\ Goto(t, "exit", "unlock")
  /\ UNCHANGED <<lock, locker, calls, nested, releasing>>

\* The call is over: t is back in the callback that made it, or out.
Return(t) ==
  /\ pc[t] = "unlock"
  /\ pc' = [pc EXCEPT ![t] = IF Depth(t) = 1 THEN "out" ELSE "java"]
  /\ calls' = [calls EXCEPT ![t] = SubSeq(@, 1, Len(@) - 1)]
  /\ nested' = IF Depth(t) = 1 THEN [nested EXCEPT ![t] = 0] ELSE nested

\* Mutant: the return of a nested call gives V8.lock away.
UnlockAtOnce(t) ==
  /\ Return(t)
  /\ lock' = IF lock = t THEN None ELSE lock
  /\ UNCHANGED <<locker, releasing>>

\* Mutant: the call that ends is forgotten on the stack of calls.
UnlockTwice(t) ==
  /\ Goto(t, "unlock", "out")
  /\ lock' = IF Depth(t) = FirstLocking(t) THEN None ELSE lock
  /\ UNCHANGED <<locker, calls, nested, releasing>>

\* The end of the synchronized block, if there is one.
Unlock(t) ==
  /\ Return(t)
  /\ lock' = IF Depth(t) = FirstLocking(t) THEN None ELSE lock
  /\ UNCHANGED <<locker, releasing>>

----------------------------------------------------------------------------
\* releaseReference: the monitor thread deletes a Persistent of the isolate.

StartRelease(i) ==
  /\ releasing' = releasing \cup {i}
  /\ i \notin releasing
  /\ UNCHANGED <<lock, locker, calls, pc, nested>>

EndRelease(i) ==
  /\ i \in releasing
  /\ releasing' = releasing \ {i}
  /\ UNCHANGED <<lock, locker, calls, pc, nested>>

----------------------------------------------------------------------------
Acquire(t) == TakeLock(t) \/ TakeLocker(t)

Proceed(t) == Enter(t) \/ CallbackReturns(t) \/ FreeLocker(t) \/ Exit(t) \/ Unlock(t)

Next ==
  \/ \E t \in Thread, i \in Isolate : CallApi(t, i)
  \/ \E t \in Connection, i \in Isolate : Dispatch(t, i)
  \/ \E t \in Thread : Acquire(t)
  \/ \E t \in Thread : Callback(t)
  \/ \E t \in Thread : Proceed(t)
  \/ \E i \in Isolate : StartRelease(i)
  \/ \E i \in Isolate : EndRelease(i)

\* Threads are scheduled, scripts and callbacks end, and a lock that is freed again and again
\* is granted in the end.  Nothing is assumed of new calls, messages and of the monitors.
Fairness == \A t \in Thread : WF_vars(Proceed(t)) /\ SF_vars(Acquire(t))

Spec == Init /\ [][Next]_vars /\ Fairness

----------------------------------------------------------------------------
\* Properties.

\* An isolate is used by one thread at a time, its own nested calls included, leaving the
\* monitor's aside: a thread in a callback of an isolate has not lost the Locker to a call it
\* made for the same isolate in between.
OneThreadRuns ==
  /\ \A s, t \in Thread : s # t => Inside(s) \cap Inside(t) = {}
  /\ \A t \in Thread, i \in Isolate : locker[i] = t <=> i \in Inside(t)

\* newLocalContext enters an isolate before it has the Locker and leaves it without; that is no
\* race between threads of the program, as V8.lock keeps them apart.  It is one as soon as an
\* inspector is connected.
EntriesExclusive ==
  \A s, t \in Thread, i \in Isolate :
    /\ s # t
    /\ pc[t] \in {"enter", "exit"} /\ Innermost(t) = i
    /\ i \in Inside(s) \/ (pc[s] \in {"enter", "exit"} /\ Innermost(s) = i)
    => s \in Connection \/ t \in Connection

\* Locks are ordered for the program's threads, callbacks included: one that has to wait for
\* V8.lock holds no Locker.
LockOrder ==
  \A t \in Program, i \in Isolate :
    pc[t] = "lock" /\ lock # t => locker[i] # t

\* A connection's thread evaluates code whose callback calls the API, and waits for V8.lock,
\* while the owner of V8.lock waits for the Locker that the first thread holds.
Deadlocked ==
  \E w \in Connection, t \in Thread :
    /\ pc[w] = "lock" /\ lock = t /\ t # w
    /\ pc[t] = "locker" /\ locker[Innermost(t)] = w

\* t cannot go on: another thread has the lock, or the Locker, that it needs.
Waits(t) ==
  \/ pc[t] = "lock" /\ lock \notin {None, t}
  \/ pc[t] = "locker" /\ locker[Innermost(t)] \notin {None, t}

\* It is the only deadlock: in any other state some call in progress can go on.
OneDeadlockOnly ==
  Deadlocked \/ \A t \in Thread : Waits(t) => \E s \in Thread : calls[s] # <<>> /\ ~Waits(s)

\* Every call returns, from however many threads and callbacks the API is used, but for the
\* one deadlock above.
CallsReturn == \A t \in Thread : calls[t] # <<>> ~> calls[t] = <<>> \/ Deadlocked

\* `Only one thread at a time is allowed to use any given V8 isolate', `accessing handles'
\* included (v8.h:10645): the monitor thread does not, while another thread runs in it.
MonitorAlone == \A i \in releasing : locker[i] = None

----------------------------------------------------------------------------
\* The inductive invariant of LockingProofs adds who owns V8.lock: the threads past the lock
\* of their first locking call.
PastLock(t) ==
  \/ Depth(t) > FirstLocking(t)
  \/ Depth(t) = FirstLocking(t) /\ pc[t] # "lock"

LockOwned ==
  /\ \A t \in Thread : lock = t <=> PastLock(t)
  /\ \A t \in Connection : Depth(t) = 1 => pc[t] # "lock"

IInv == TypeOK /\ OneThreadRuns /\ LockOwned
=============================================================================
