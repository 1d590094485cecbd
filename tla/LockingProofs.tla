---------------------------- MODULE LockingProofs ----------------------------
(***************************************************************************)
(* The safety properties of Locking, for any threads, isolates and depth   *)
(* of nesting.  Two facts carry the invariant: the Locker of an isolate    *)
(* belongs to the thread inside of it, and V8.lock to the thread that is   *)
(* past the lock of its first synchronized call.                           *)
(***************************************************************************)
EXTENDS Locking, SequenceTheorems, TLAPS

USE ThreadAssumption, MaxNestedAssumption

Held == \A t \in Thread, i \in Isolate : locker[i] = t <=> i \in Inside(t)

LInv == TypeOK /\ Held /\ LockOwned

\* That isolates are used by one thread at a time follows from who holds the Lockers.
LEMMA OneThread == TypeOK /\ Held <=> TypeOK /\ OneThreadRuns
<1> SUFFICES ASSUME TypeOK, Held
             PROVE  \A s, t \in Thread : s # t => Inside(s) \cap Inside(t) = {}
  BY DEF Held, OneThreadRuns
<1> SUFFICES ASSUME NEW s \in Thread, NEW t \in Thread, s # t,
                    NEW i \in Inside(s) \cap Inside(t)
             PROVE  FALSE
  OBVIOUS
<1>1. i \in Isolate
  BY DEF TypeOK, Inside, Outer, Innermost, Depth
<1> QED
  BY <1>1 DEF Held

\* A thread in a call has an innermost call.
LEMMA InCall ==
  ASSUME TypeOK, NEW t \in Thread
  PROVE  /\ Depth(t) \in Nat
         /\ pc[t] # "out" => Depth(t) >= 1 /\ Innermost(t) \in Isolate
         /\ Outer(t) \subseteq Isolate
<1>1. calls[t] \in Seq(Isolate)
  BY DEF TypeOK
<1> QED
  BY <1>1 DEF TypeOK, Depth, Innermost, Outer

\* What a thread that does not move is inside of stays the same.
LEMMA Still ==
  ASSUME NEW t, calls'[t] = calls[t], pc'[t] = pc[t]
  PROVE  /\ Inside(t)' = Inside(t)
         /\ Depth(t)' = Depth(t)
BY DEF Inside, Outer, Innermost, Depth


\* V8.lock keeps its owner in a step that moves no thread past the lock or back.
LEMMA SameOwner ==
  ASSUME LockOwned, UNCHANGED <<lock, calls>>,
         \A s \in Thread : pc'[s] = "lock" <=> pc[s] = "lock"
  PROVE  LockOwned'
<1>1. \A s : Depth(s)' = Depth(s) /\ FirstLocking(s)' = FirstLocking(s)
  BY DEF Depth, FirstLocking
<1>2. Connection \subseteq Thread
  BY DEF Thread
<1> QED
  BY <1>1, <1>2 DEF LockOwned, PastLock

\* The calls that are left when the innermost returns.
LEMMA FrontOf ==
  ASSUME NEW S, NEW s \in Seq(S), NEW m \in Nat, Len(s) = m + 1
  PROVE  /\ SubSeq(s, 1, m) \in Seq(S)
         /\ Len(SubSeq(s, 1, m)) = m
         /\ \A n \in 1 .. m : SubSeq(s, 1, m)[n] = s[n]
         /\ SubSeq(s, 1, m) = <<>> <=> m = 0
<1> DEFINE f == SubSeq(s, 1, m)
<1>1. 1 \in Int /\ m \in Int /\ \A n \in 1 .. m : s[n] \in S
  BY LenProperties
<1>2. /\ f \in Seq(S)
      /\ Len(f) = IF 1 <= m THEN m - 1 + 1 ELSE 0
      /\ \A n \in 1 .. m - 1 + 1 : f[n] = s[1 + n - 1]
  <2> HIDE DEF f
  <2> QED
    BY <1>1, SubSeqProperties DEF f
<1> HIDE DEF f
<1>3. Len(f) = m
  BY <1>2
<1>4. \A n \in 1 .. m : f[n] = s[n]
  BY <1>2
<1>5. f = <<>> <=> m = 0
  BY <1>2, <1>3, EmptySeq
<1> QED
  BY <1>2, <1>3, <1>4, <1>5 DEF f

\* The last index of a range.
LEMMA LastOf ==
  ASSUME NEW n \in Nat, n >= 1, n # 1
  PROVE  1 .. n - 1 = (1 .. n - 2) \cup {n - 1}
OBVIOUS

\* A new innermost call: the thread stays inside the isolates of the others.
LEMMA CallInv ==
  ASSUME LInv, NEW t \in Thread, NEW i \in Isolate, CallApi(t, i) \/ Dispatch(t, i)
  PROVE  LInv'
<1> USE DEF LInv
<1>1. /\ calls[t] \in Seq(Isolate)
      /\ calls' = [calls EXCEPT ![t] = Append(calls[t], i)]
      /\ lock' = lock /\ locker' = locker
      /\ pc[t] \in {"out", "java"} /\ pc'[t] \in {"lock", "enter"}
      /\ \A s \in Thread : s # t => pc'[s] = pc[s] /\ calls'[s] = calls[s]
  BY DEF CallApi, Dispatch, Goto, TypeOK
<1>2. TypeOK'
  <2>1. Append(calls[t], i) \in Seq(Isolate) /\ Append(calls[t], i) # <<>>
    BY <1>1, AppendProperties
  <2>2. nested' \in [Thread -> 0 .. MaxNested] /\ releasing' \subseteq Isolate
    BY DEF CallApi, Dispatch, TypeOK, Spend
  <2>3. pc' \in [Thread -> {"out", "lock", "enter", "locker", "run", "java", "exit", "unlock"}]
    BY DEF CallApi, Dispatch, TypeOK, Goto
  <2> QED
    BY <1>1, <2>1, <2>2, <2>3, Zenon DEF TypeOK
<1>3. /\ Depth(t) \in Nat
      /\ Depth(t)' = Depth(t) + 1
      /\ \A n \in 1 .. Depth(t) : calls'[t][n] = calls[t][n]
      /\ calls'[t][Depth(t) + 1] = i
  <2>1. calls'[t] = Append(calls[t], i)
    BY <1>1 DEF TypeOK
  <2> QED
    BY <1>1, <2>1, AppendProperties DEF Depth
<1>4. Inside(t)' = Inside(t)
  <2>1. Inside(t)' = {calls[t][n] : n \in 1 .. Depth(t)}
    <3>1. Inside(t)' = Outer(t)'
      BY <1>1 DEF Inside
    <3>2. Outer(t)' = {calls'[t][n] : n \in 1 .. Depth(t)}
      BY <1>3 DEF Outer
    <3> QED
      BY <1>3, <3>1, <3>2
  <2>2. CASE pc[t] = "out"
    <3>1. Depth(t) = 0
      BY <2>2 DEF TypeOK, Depth
    <3>2. Inside(t) = {}
      BY <2>2, <3>1 DEF Inside, Outer
    <3> QED
      BY <2>1, <3>1, <3>2
  <2>3. CASE pc[t] = "java"
    <3>1. Depth(t) >= 1
      BY <2>3, InCall
    <3>2. {calls[t][n] : n \in 1 .. Depth(t)} = Outer(t) \cup {Innermost(t)}
      BY <1>3, <3>1 DEF Outer, Innermost
    <3> QED
      BY <2>1, <2>3, <3>2 DEF Inside
  <2> QED
    BY <1>1, <2>2, <2>3
<1>5. Held'
  BY <1>1, <1>4, Still DEF Held
<1>6. LockOwned'
  <2>1. ASSUME NEW s \in Thread, s # t
        PROVE  Depth(s)' = Depth(s) /\ pc'[s] = pc[s]
    BY <1>1, <2>1, Still
  <2>2. CASE CallApi(t, i)
    <3>1. pc'[t] = "lock" /\ (pc[t] = "java" \/ t \in Program)
      BY <2>2 DEF CallApi, Goto, TypeOK
    <3>2. pc[t] = "out" => Depth(t) = 0
      BY DEF TypeOK, Depth
    <3>3. pc[t] = "java" => Depth(t) >= 1
      BY InCall
    <3> QED
      BY <1>1, <1>3, <2>1, <3>1, <3>2, <3>3 DEF LockOwned, PastLock, FirstLocking, Thread
  <2>3. CASE Dispatch(t, i)
    <3>1. pc'[t] = "enter" /\ pc[t] = "out" /\ t \in Connection
      BY <2>3 DEF Dispatch, Goto, TypeOK
    <3>2. Depth(t) = 0
      BY <3>1 DEF TypeOK, Depth
    <3> QED
      BY <1>1, <1>3, <2>1, <3>1, <3>2 DEF LockOwned, PastLock, FirstLocking, Thread
  <2> QED
    BY <2>2, <2>3
<1> QED
  BY <1>2, <1>5, <1>6

\* The owner of V8.lock.
LEMMA TakeLockInv == ASSUME LInv, NEW t \in Thread, TakeLock(t) PROVE LInv'
<1> USE DEF LInv
<1>1. /\ pc[t] = "lock" /\ pc' = [pc EXCEPT ![t] = "enter"] /\ lock \in {None, t} /\ lock' = t
      /\ locker' = locker /\ calls' = calls /\ nested' = nested /\ releasing' = releasing
  BY DEF TakeLock, Goto
<1>2. TypeOK'
  BY <1>1 DEF TypeOK
<1>3. Held'
  BY <1>1, Still DEF Held, Inside, Outer, Innermost, Depth, TypeOK
<1>4. LockOwned'
  <2>1. Depth(t) >= FirstLocking(t)
    BY <1>1, InCall DEF LockOwned, PastLock, FirstLocking
  <2>2. \A s \in Thread : Depth(s)' = Depth(s) /\ FirstLocking(s)' = FirstLocking(s)
    BY <1>1 DEF Depth, FirstLocking
  <2>3. ASSUME NEW s \in Thread, s # t
        PROVE  lock # s /\ lock' # s /\ pc'[s] = pc[s]
    BY <1>1, <2>3 DEF TypeOK, Thread
  <2>4. Depth(t) \in Nat /\ FirstLocking(t) \in Nat
    BY InCall DEF FirstLocking
  <2>5. pc'[t] = "enter"
    BY <1>1 DEF TypeOK
  <2> SUFFICES ASSUME NEW s \in Thread
               PROVE  /\ lock' = s <=> PastLock(s)'
                      /\ s \in Connection /\ Depth(s) = 1 => pc'[s] # "lock"
    BY <2>2 DEF LockOwned, Thread
  <2>6. CASE s = t
    BY <1>1, <2>1, <2>2, <2>4, <2>5, <2>6 DEF PastLock
  <2>7. CASE s # t
    BY <2>2, <2>3, <2>7 DEF LockOwned, PastLock
  <2> QED
    BY <2>6, <2>7
<1> QED
  BY <1>2, <1>3, <1>4

\* The holder of a Locker.
LEMMA TakeLockerInv == ASSUME LInv, NEW t \in Thread, TakeLocker(t) PROVE LInv'
<1> USE DEF LInv
<1> DEFINE i == Innermost(t)
<1>1. /\ pc[t] = "locker" /\ pc' = [pc EXCEPT ![t] = "run"] /\ locker[i] \in {None, t}
      /\ locker' = [locker EXCEPT ![i] = t]
      /\ lock' = lock /\ calls' = calls /\ nested' = nested /\ releasing' = releasing
  BY DEF TakeLocker, Goto
<1>2. i \in Isolate
  BY <1>1, InCall
<1>3. TypeOK'
  BY <1>1, <1>2 DEF TypeOK
<1>4. Held'
  <2>1. Inside(t)' = Inside(t) \cup {i}
    BY <1>1 DEF Inside, Outer, Innermost, Depth, TypeOK
  <2>2. ASSUME NEW s \in Thread, s # t
        PROVE  Inside(s)' = Inside(s) /\ i \notin Inside(s)
    BY <1>1, <1>2, <2>2, Still DEF Held, TypeOK, Thread
  <2> QED
    BY <1>1, <1>2, <2>1, <2>2 DEF Held, TypeOK
<1>5. LockOwned'
  BY <1>1, SameOwner DEF TypeOK
<1> QED
  BY <1>3, <1>4, <1>5

\* The Locker goes with the outermost call for its isolate.
LEMMA FreeLockerInv == ASSUME LInv, NEW t \in Thread, FreeLocker(t) PROVE LInv'
<1> USE DEF LInv
<1> DEFINE i == Innermost(t)
<1>1. /\ pc[t] = "run" /\ pc' = [pc EXCEPT ![t] = "exit"]
      /\ locker' = IF i \in Outer(t) THEN locker ELSE [locker EXCEPT ![i] = None]
      /\ lock' = lock /\ calls' = calls /\ nested' = nested /\ releasing' = releasing
  BY DEF FreeLocker, Goto
<1>2. i \in Isolate
  BY <1>1, InCall
<1>3. TypeOK'
  BY <1>1, <1>2 DEF TypeOK
<1>4. Held'
  <2>1. Inside(t) = Outer(t) \cup {i} /\ Inside(t)' = Outer(t)
    BY <1>1 DEF Inside, Outer, Innermost, Depth, TypeOK
  <2>2. locker[i] = t
    BY <1>2, <2>1 DEF Held
  <2>3. ASSUME NEW s \in Thread, s # t
        PROVE  Inside(s)' = Inside(s) /\ i \notin Inside(s)
    BY <1>1, <1>2, <2>2, <2>3, Still DEF Held, TypeOK
  <2>4. None \notin Thread
    BY DEF Thread
  <2> QED
    BY <1>1, <1>2, <2>1, <2>2, <2>3, <2>4 DEF Held, TypeOK
<1>5. LockOwned'
  BY <1>1, SameOwner DEF TypeOK
<1> QED
  BY <1>3, <1>4, <1>5

\* The steps of a thread that concern no lock: into and out of the isolate and a callback.
LEMMA MoveInv ==
  ASSUME LInv, NEW t \in Thread,
         Enter(t) \/ Callback(t) \/ CallbackReturns(t) \/ Exit(t)
  PROVE  LInv'
<1> USE DEF LInv
<1>1. /\ lock' = lock /\ locker' = locker /\ calls' = calls /\ releasing' = releasing
      /\ nested' \in [Thread -> 0 .. MaxNested]
      /\ \/ pc[t] = "enter" /\ pc' = [pc EXCEPT ![t] = "locker"]
         \/ pc[t] = "run" /\ pc' = [pc EXCEPT ![t] = "java"]
         \/ pc[t] = "java" /\ pc' = [pc EXCEPT ![t] = "run"]
         \/ pc[t] = "exit" /\ pc' = [pc EXCEPT ![t] = "unlock"]
  BY DEF Enter, Callback, CallbackReturns, Exit, Goto, Spend, TypeOK
<1>2. TypeOK'
  BY <1>1 DEF TypeOK
<1>3. \A s \in Thread : Inside(s)' = Inside(s)
  BY <1>1 DEF Inside, Outer, Innermost, Depth, TypeOK
<1>4. Held'
  BY <1>1, <1>3 DEF Held
<1>5. LockOwned'
  BY <1>1, SameOwner DEF TypeOK
<1> QED
  BY <1>2, <1>4, <1>5

\* The return to the caller, a callback or nobody.
LEMMA UnlockInv == ASSUME LInv, NEW t \in Thread, Unlock(t) PROVE LInv'
<1> USE DEF LInv
<1> DEFINE d == Depth(t)
<1>1. /\ pc[t] = "unlock"
      /\ pc' = [pc EXCEPT ![t] = IF d = 1 THEN "out" ELSE "java"]
      /\ calls' = [calls EXCEPT ![t] = SubSeq(calls[t], 1, d - 1)]
      /\ lock' = IF d = FirstLocking(t) THEN None ELSE lock
      /\ locker' = locker /\ releasing' = releasing
  BY DEF Unlock, Return, TypeOK, Depth
<1>2. /\ calls[t] \in Seq(Isolate) /\ d = Len(calls[t]) /\ d \in Nat /\ d >= 1
  BY <1>1, InCall DEF TypeOK, Depth
<1>3. /\ calls'[t] = SubSeq(calls[t], 1, d - 1) /\ calls'[t] \in Seq(Isolate)
      /\ Depth(t)' = d - 1
      /\ \A n \in 1 .. d - 1 : calls'[t][n] = calls[t][n]
      /\ calls'[t] = <<>> <=> d = 1
  <2>1. calls'[t] = SubSeq(calls[t], 1, d - 1)
    BY <1>1 DEF TypeOK
  <2> HIDE DEF d
  <2>2. /\ SubSeq(calls[t], 1, d - 1) \in Seq(Isolate)
        /\ Len(SubSeq(calls[t], 1, d - 1)) = d - 1
        /\ \A n \in 1 .. d - 1 : SubSeq(calls[t], 1, d - 1)[n] = calls[t][n]
        /\ SubSeq(calls[t], 1, d - 1) = <<>> <=> d = 1
    <3>1. d - 1 \in Nat /\ Len(calls[t]) = (d - 1) + 1 /\ (d - 1 = 0 <=> d = 1)
      BY <1>2
    <3>2. ASSUME NEW q \in Seq(Isolate), NEW m \in Nat, Len(q) = m + 1
          PROVE  /\ SubSeq(q, 1, m) \in Seq(Isolate)
                 /\ Len(SubSeq(q, 1, m)) = m
                 /\ \A n \in 1 .. m : SubSeq(q, 1, m)[n] = q[n]
                 /\ SubSeq(q, 1, m) = <<>> <=> m = 0
      BY <3>2, FrontOf, Zenon
    <3> QED
      BY <1>2, <3>1, <3>2
  <2> QED
    BY <2>1, <2>2 DEF Depth, d
<1>4. \A s \in Thread : s # t => pc'[s] = pc[s] /\ calls'[s] = calls[s]
  BY <1>1 DEF TypeOK
<1>5. TypeOK'
  <2>1. nested' \in [Thread -> 0 .. MaxNested]
    BY DEF Unlock, Return, TypeOK
  <2>2. calls' \in [Thread -> Seq(Isolate)]
    BY <1>1, <1>3 DEF TypeOK
  <2>3. pc'[t] = "out" <=> calls'[t] = <<>>
    BY <1>1, <1>3 DEF TypeOK
  <2> QED
    BY <1>1, <1>4, <2>1, <2>2, <2>3 DEF TypeOK
<1>6. Inside(t)' = Inside(t)
  <2>1. Inside(t) = {calls[t][n] : n \in 1 .. d - 1}
    BY <1>1 DEF Inside, Outer
  <2>2. CASE d = 1
    BY <1>1, <1>3, <2>1, <2>2 DEF Inside, Outer, TypeOK
  <2>3. CASE d # 1
    <3>1. pc'[t] = "java"
      BY <1>1, <2>3 DEF TypeOK
    <3>2. Inside(t)' = Outer(t)' \cup {Innermost(t)'}
      BY <3>1 DEF Inside
    <3>3. Outer(t)' = {calls'[t][n] : n \in 1 .. d - 2}
      <4>1. Depth(t)' - 1 = d - 2
        BY <1>2, <1>3
      <4> QED
        BY <4>1 DEF Outer
    <3>4. Innermost(t)' = calls'[t][d - 1]
      BY <1>3 DEF Innermost
    <3>5. 1 .. d - 1 = (1 .. d - 2) \cup {d - 1}
      BY <1>2, <2>3, LastOf
    <3> HIDE DEF d
    <3>6. {calls'[t][n] : n \in 1 .. d - 2} \cup {calls'[t][d - 1]} = {calls'[t][n] : n \in 1 .. d - 1}
      BY <3>5
    <3>7. {calls'[t][n] : n \in 1 .. d - 1} = {calls[t][n] : n \in 1 .. d - 1}
      BY <1>3
    <3> QED
      BY <2>1, <3>2, <3>3, <3>4, <3>6, <3>7
  <2> QED
    BY <2>2, <2>3
<1>7. Held'
  BY <1>1, <1>4, <1>6, Still DEF Held
<1>8. LockOwned'
  <2>1. ASSUME NEW s \in Thread, s # t
        PROVE  Depth(s)' = Depth(s) /\ pc'[s] = pc[s] /\ (lock' = s <=> lock = s)
    <3>1. d = FirstLocking(t) => lock = t
      BY <1>1 DEF LockOwned, PastLock
    <3> QED
      BY <1>1, <1>4, <2>1, <3>1, Still DEF Thread
  <2>2. pc'[t] # "lock" /\ FirstLocking(t) \in {1, 2} /\ (t \in Connection <=> FirstLocking(t) = 2)
    BY <1>1 DEF TypeOK, FirstLocking
  <2>3. lock' = t <=> d - 1 >= FirstLocking(t)
    BY <1>1, <1>2, <2>2 DEF LockOwned, PastLock, Thread
  <2>4. FirstLocking(t)' = FirstLocking(t)
    BY DEF FirstLocking
  <2>5. lock' = t <=> PastLock(t)'
    BY <1>2, <1>3, <2>2, <2>3, <2>4 DEF PastLock
  <2> SUFFICES ASSUME NEW s \in Thread
               PROVE  /\ lock' = s <=> PastLock(s)'
                      /\ s \in Connection /\ Depth(s)' = 1 => pc'[s] # "lock"
    BY DEF LockOwned, Thread
  <2>6. CASE s = t
    BY <2>2, <2>5, <2>6
  <2>7. CASE s # t
    BY <2>1, <2>7 DEF LockOwned, PastLock, FirstLocking
  <2> QED
    BY <2>6, <2>7
<1> QED
  BY <1>5, <1>7, <1>8

\* Every step preserves the invariant.
LEMMA LInvStep == LInv /\ [Next]_vars => LInv'
<1> SUFFICES ASSUME LInv, [Next]_vars
             PROVE  LInv'
  OBVIOUS
<1>1. ASSUME NEW t \in Thread, NEW i \in Isolate, CallApi(t, i) PROVE LInv'
  BY <1>1, CallInv
<1>2. ASSUME NEW t \in Connection, NEW i \in Isolate, Dispatch(t, i) PROVE LInv'
  BY <1>2, CallInv DEF Thread
<1>3. ASSUME NEW t \in Thread, Acquire(t) PROVE LInv'
  BY <1>3, TakeLockInv, TakeLockerInv DEF Acquire
<1>4. ASSUME NEW t \in Thread, Callback(t) PROVE LInv'
  BY <1>4, MoveInv
<1>5. ASSUME NEW t \in Thread, Proceed(t) PROVE LInv'
  BY <1>5, MoveInv, FreeLockerInv, UnlockInv DEF Proceed
<1>6. ASSUME NEW i \in Isolate, StartRelease(i) \/ EndRelease(i) PROVE LInv'
  <2>1. UNCHANGED <<lock, locker, calls, pc, nested>> /\ releasing' \subseteq Isolate
    BY <1>6 DEF StartRelease, EndRelease, LInv, TypeOK
  <2>2. TypeOK'
    BY <2>1 DEF LInv, TypeOK
  <2>3. Held'
    BY <2>1, Still DEF LInv, Held
  <2>4. LockOwned'
    BY <2>1, SameOwner DEF LInv
  <2> QED
    BY <2>2, <2>3, <2>4 DEF LInv
<1>7. ASSUME UNCHANGED vars PROVE LInv'
  <2>1. UNCHANGED <<lock, locker, calls, pc, nested, releasing>>
    BY <1>7 DEF vars
  <2>2. TypeOK'
    BY <2>1 DEF LInv, TypeOK
  <2>3. Held'
    BY <2>1, Still DEF LInv, Held
  <2>4. LockOwned'
    BY <2>1, SameOwner DEF LInv
  <2> QED
    BY <2>2, <2>3, <2>4 DEF LInv
<1> QED
  BY <1>1, <1>2, <1>3, <1>4, <1>5, <1>6, <1>7 DEF Next

\* The inductive invariant of the locks holds in every reachable state.
THEOREM LockInvariance == Spec => []IInv
<1>1. Init => LInv
  <2> SUFFICES ASSUME Init PROVE LInv
    OBVIOUS
  <2>1. TypeOK
    BY DEF Init, TypeOK
  <2>2. \A t \in Thread : Depth(t) = 0 /\ Inside(t) = {} /\ pc[t] = "out"
    BY DEF Init, Depth, Inside, Outer
  <2> QED
    BY <2>1, <2>2 DEF Init, LInv, Held, LockOwned, PastLock, FirstLocking, Thread
<1>2. LInv => IInv
  BY OneThread DEF LInv, IInv
<1> QED
  BY <1>1, <1>2, LInvStep, PTL DEF Spec

\* The state of the locks is well typed.
THEOREM LocksTypeCorrect == Spec => []TypeOK
BY LockInvariance, PTL DEF IInv

\* An isolate is used by one thread at a time, and by no other thread in a nested call's wake.
THEOREM OneThreadAtATime == Spec => []OneThreadRuns
BY LockInvariance, PTL DEF IInv

\* V8.lock makes up for entering an isolate before its Locker is held, among program threads.
THEOREM EntriesAreExclusive == Spec => []EntriesExclusive
<1>1. IInv => EntriesExclusive
  <2> SUFFICES ASSUME IInv, NEW s \in Thread, NEW t \in Thread, NEW i \in Isolate, s # t,
                      pc[t] \in {"enter", "exit"},
                      i \in Inside(s) \/ pc[s] \in {"enter", "exit"},
                      s \notin Connection, t \notin Connection
               PROVE  FALSE
    BY DEF EntriesExclusive
  <2>1. TypeOK /\ LockOwned
    BY DEF IInv
  <2>2. Depth(t) \in Nat /\ Depth(t) >= 1
    BY <2>1, InCall
  <2>3. lock = t
    BY <2>1, <2>2 DEF LockOwned, PastLock, FirstLocking
  <2>4. Depth(s) \in Nat /\ Depth(s) >= 1 /\ (Depth(s) = 1 => pc[s] # "lock")
    <3>1. CASE pc[s] \in {"enter", "exit", "run", "java"}
      BY <2>1, <3>1, InCall
    <3>2. CASE i \in Outer(s)
      BY <2>1, <3>2, InCall DEF Outer
    <3> QED
      BY <3>1, <3>2 DEF Inside
  <2>5. lock = s
    BY <2>1, <2>4 DEF LockOwned, PastLock, FirstLocking
  <2> QED
    BY <2>3, <2>5
<1> QED
  BY <1>1, LockInvariance, PTL

\* No thread of the program waits for V8.lock with a Locker in its hands.
THEOREM LocksOrdered == Spec => []LockOrder
<1>1. IInv => LockOrder
  <2> SUFFICES ASSUME IInv, NEW t \in Program, NEW i \in Isolate,
                      pc[t] = "lock", lock # t, locker[i] = t
               PROVE  FALSE
    BY DEF LockOrder
  <2>1. TypeOK /\ OneThreadRuns /\ LockOwned /\ t \in Thread /\ t \notin Connection
    BY DEF IInv, Thread
  <2>2. Depth(t) \in Nat /\ Depth(t) <= 1
    BY <2>1, InCall DEF LockOwned, PastLock, FirstLocking
  <2>3. Inside(t) = {}
    BY <2>2 DEF Inside, Outer
  <2> QED
    BY <2>1, <2>3 DEF OneThreadRuns
<1> QED
  BY <1>1, LockInvariance, PTL

\* A thread that holds the Locker of another's innermost call and has to wait itself waits in a
\* call that is not its first;
LEMMA WaitingHolder ==
  ASSUME IInv, NEW t \in Thread, pc[t] = "locker", Waits(t)
  PROVE  \E u \in Thread \ {t} :
           /\ locker[Innermost(t)] = u
           /\ calls[u] # <<>>
           /\ Waits(u) => Depth(u) >= 2
<1>1. TypeOK /\ OneThreadRuns /\ Innermost(t) \in Isolate
  BY InCall DEF IInv
<1>2. PICK u \in Thread \ {t} : locker[Innermost(t)] = u
  BY <1>1 DEF Waits, TypeOK
<1>3. Innermost(t) \in Inside(u)
  BY <1>1, <1>2 DEF OneThreadRuns
<1>4. Depth(u) \in Nat /\ (calls[u] = <<>> => Depth(u) = 0 /\ pc[u] = "out")
  BY <1>1, InCall DEF TypeOK, Depth
<1>5. calls[u] # <<>>
  BY <1>3, <1>4 DEF Inside, Outer
<1>6. Waits(u) => Depth(u) >= 2
  BY <1>3, <1>4 DEF Waits, Inside, Outer
<1> QED
  BY <1>2, <1>5, <1>6

\* and if it waits for a Locker it owns V8.lock.
LEMMA WaitingOwner ==
  ASSUME IInv, NEW t \in Thread, Depth(t) >= 2, pc[t] # "lock" \/ t \in Program
  PROVE  lock = t
<1>1. TypeOK /\ LockOwned /\ Depth(t) \in Nat /\ (t \in Program => t \notin Connection)
  BY InCall DEF IInv
<1>2. PastLock(t)
  BY <1>1 DEF PastLock, FirstLocking
<1> QED
  BY <1>1, <1>2 DEF LockOwned

\* The owner of V8.lock waits for a Locker, if at all: then for a holder that can go on, or that
\* waits for V8.lock on an inspector's connection.
LEMMA OwnerWaits ==
  ASSUME IInv, NEW t \in Thread, lock = t,
         \A s \in Thread : calls[s] # <<>> => Waits(s), Waits(t)
  PROVE  Deadlocked
<1>1. pc[t] = "locker"
  BY DEF Waits
<1>2. PICK u \in Thread \ {t} :
        locker[Innermost(t)] = u /\ calls[u] # <<>> /\ (Waits(u) => Depth(u) >= 2)
  BY <1>1, WaitingHolder
<1>3. Waits(u) /\ Depth(u) >= 2
  BY <1>2
<1>4. pc[u] = "lock" /\ u \notin Program
  BY <1>3, WaitingOwner
<1>5. u \in Connection
  BY <1>4 DEF Thread
<1> QED
  BY <1>1, <1>2, <1>4, <1>5 DEF Deadlocked

\* Threads wait for each other in one way only: a connection's, from a callback, for V8.lock and
\* its owner for the Locker that the first holds.  Without an inspector there is no deadlock.
THEOREM LocksDeadlockOnce == Spec => []OneDeadlockOnly
<1>1. IInv => OneDeadlockOnly
  <2> SUFFICES ASSUME IInv, NEW t \in Thread, Waits(t),
                      \A s \in Thread : calls[s] # <<>> => Waits(s)
               PROVE  Deadlocked
    BY DEF OneDeadlockOnly
  <2>1. TypeOK /\ LockOwned
    BY DEF IInv
  <2>2. ASSUME NEW s \in Thread, pc[s] = "lock", Waits(s) PROVE Deadlocked
    <3>1. PICK o \in Thread : lock = o
      BY <2>1, <2>2 DEF Waits, TypeOK
    <3>2. PastLock(o) /\ Depth(o) \in Nat
      BY <2>1, <3>1, InCall DEF LockOwned
    <3>3. calls[o] # <<>>
      BY <3>2 DEF PastLock, FirstLocking, Depth
    <3> QED
      BY <3>1, <3>3, OwnerWaits
  <2>3. CASE pc[t] = "locker"
    <3>1. PICK u \in Thread \ {t} : calls[u] # <<>> /\ (Waits(u) => Depth(u) >= 2)
      BY <2>3, WaitingHolder
    <3>2. Waits(u) /\ Depth(u) >= 2
      BY <3>1
    <3>3. pc[u] # "lock" => lock = u
      BY <3>2, WaitingOwner
    <3> QED
      BY <2>2, <3>2, <3>3, OwnerWaits
  <2> QED
    BY <2>2, <2>3 DEF Waits
<1> QED
  BY <1>1, LockInvariance, PTL

\* Without an inspector there is no deadlock at all: whenever a thread waits, the call of another
\* can go on, however deep callbacks and calls are nested and however many isolates there are.
THEOREM NoInspectorNoDeadlock ==
  ASSUME Connection = {}
  PROVE  Spec => [](\A t \in Thread : Waits(t) =>
                      \E s \in Thread : calls[s] # <<>> /\ ~Waits(s))
<1>1. ~Deadlocked
  BY DEF Deadlocked
<1>2. OneDeadlockOnly =>
        \A t \in Thread : Waits(t) => \E s \in Thread : calls[s] # <<>> /\ ~Waits(s)
  BY <1>1 DEF OneDeadlockOnly
<1> QED
  BY <1>2, LocksDeadlockOnce, PTL
=============================================================================
