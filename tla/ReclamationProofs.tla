------------------------- MODULE ReclamationProofs -------------------------
(***************************************************************************)
(* That the composition of Handles and ReferenceMonitor keeps what each    *)
(* promises, for any References, addresses, data and threads, when no      *)
(* closing thread is interrupted.  The invariants of the two components    *)
(* are taken from their own proofs: every step of the composition is a     *)
(* step of the monitor, and one of the handles, or leaves them alone.      *)
(***************************************************************************)
EXTENDS Reclamation, TLAPS

HP == INSTANCE HandlesProofs
MP == INSTANCE ReferenceMonitorProofs WITH Object <- Ref

\* What the components assume of their constants.
LEMMA Constants ==
  /\ Interruptible \in BOOLEAN
  /\ None \notin Ref \cup Tracker
  /\ Kind \subseteq {"Value", "External", "Function"}
  /\ None \notin Ref \cup Addr \cup Data \cup Obj \cup {"Value", "External", "Function"}
  /\ Data \cap Kind = {}
  BY ReclamationAssumption

LEMMA MonitorVars ==
  (UNCHANGED monitorVars <=> UNCHANGED MP!vars) /\ (UNCHANGED monitorVars <=> UNCHANGED M!vars)
  BY DEF monitorVars, MP!vars, MP!trackVars, MP!monitorVars, MP!closeVars,
         M!vars, M!trackVars, M!monitorVars, M!closeVars

LEMMA HandlesVars ==
  (UNCHANGED handlesVars <=> UNCHANGED HP!vars) /\ (UNCHANGED handlesVars <=> UNCHANGED H!vars)
  BY DEF handlesVars, HP!vars, HP!refVars, HP!handleVars, HP!dataVars, HP!cacheVars, HP!frameVars,
         H!vars, H!refVars, H!handleVars, H!dataVars, H!cacheVars, H!frameVars

\* Every step of the composition is one of the monitor or leaves it alone.
LEMMA MonitorStep == ASSUME [Next]_vars PROVE [M!Next]_(M!vars)
  <1> USE MonitorVars
  <1>1. ASSUME NEW t \in Tracker, NEW r \in Ref, Create(t, r) PROVE M!Next
    BY <1>1 DEF Create, M!Next
  <1>2. ASSUME NEW t \in Tracker, Created(t) PROVE M!Next
    BY <1>2 DEF Created, M!Next
  <1>3. ASSUME NEW r \in Ref, LoseRef(r) \/ Enqueue(r) PROVE M!Next
    BY <1>3 DEF LoseRef, Enqueue, M!Next
  <1>4. CASE Monitor
    BY <1>4 DEF Monitor, CleanUp, M!Monitor, M!Next
  <1>5. ASSUME NEW c \in Closer, CloseEnter(c) PROVE M!Next
    BY <1>5 DEF CloseEnter, M!Next
  <1>6. ASSUME NEW c \in Closer, Closing(c) PROVE [M!Next]_(M!vars)
    BY <1>6 DEF Closing, StartRelease, FinishRelease, M!Closing, M!Next
  <1>7. ASSUME Operate \/ (\E r \in Ref : DropProxy(r)) \/ UNCHANGED vars PROVE UNCHANGED M!vars
    <2>1. UNCHANGED monitorVars
      BY <1>7 DEF Operate, DropProxy, vars
    <2> QED
      BY <2>1
  <1> QED
    BY <1>1, <1>2, <1>3, <1>4, <1>5, <1>6, <1>7 DEF Next

LEMMA MonitorSame == ASSUME [M!Next]_(M!vars) PROVE [MP!Next]_(MP!vars)
  <1> USE DEF MP!trackVars, MP!monitorVars, MP!closeVars, M!trackVars, M!monitorVars, M!closeVars
  <1>1. ASSUME NEW t \in Tracker, NEW o \in Ref, M!TrackEnter(t, o) PROVE MP!TrackEnter(t, o)
    BY <1>1 DEF M!TrackEnter, MP!TrackEnter
  <1>2. ASSUME NEW t \in Tracker, M!TrackExit(t) PROVE MP!TrackExit(t)
    BY <1>2 DEF M!TrackExit, MP!TrackExit
  <1>3. ASSUME NEW o \in Ref, M!LoseObject(o) PROVE MP!LoseObject(o)
    BY <1>3 DEF M!LoseObject, MP!LoseObject, M!InHand, MP!InHand
  <1>4. ASSUME NEW o \in Ref, M!Enqueue(o) PROVE MP!Enqueue(o)
    BY <1>4 DEF M!Enqueue, MP!Enqueue
  <1>5. ASSUME M!Monitor PROVE MP!Monitor
    BY <1>5 DEF M!Monitor, MP!Monitor, M!Loop, MP!Loop, M!Poll, MP!Poll, M!PollTimeout,
       MP!PollTimeout, M!CleanUpStep, MP!CleanUpStep, M!RemoveRead, MP!RemoveRead, M!RemoveWrite,
       MP!RemoveWrite
  <1>6. ASSUME NEW c \in Closer, M!CloseEnter(c) PROVE MP!CloseEnter(c)
    BY <1>6 DEF M!CloseEnter, MP!CloseEnter
  <1>7. ASSUME NEW c \in Closer, M!Closing(c) PROVE MP!Closing(c)
    BY <1>7 DEF M!Closing, MP!Closing, M!Join, MP!Join, M!ReleaseRuntime, MP!ReleaseRuntime,
       M!CloseExit, MP!CloseExit
  <1> QED
    BY <1>1, <1>2, <1>3, <1>4, <1>5, <1>6, <1>7, MonitorVars DEF M!Next, MP!Next

\* A step of the composition is one of the handles, or leaves them alone: the monitor deletes
\* a handle only of a lost Reference, in an open runtime.
LEMMA HandlesStep ==
  ASSUME Link, MP!MInv, [Next]_vars
  PROVE  [H!Next]_(H!vars)
  <1> USE HandlesVars
  <1>1. ASSUME NEW t \in Tracker, NEW r \in Ref, Create(t, r) PROVE H!Next
    BY <1>1 DEF Create, H!Next, H!Value
  <1>2. CASE Operate
    BY <1>2 DEF Operate, H!Next
  <1>3. ASSUME NEW r \in Ref, DropProxy(r) \/ LoseRef(r) PROVE H!Next
    BY <1>3 DEF DropProxy, LoseRef, H!Next
  <1>4. CASE CleanUp
    <2>1. current \in Ref /\ objState[current] = "enqueued" /\ mpc # "ended"
      BY <1>4 DEF CleanUp, M!CleanUpStep, MP!MInv, MP!TypeOK, MP!Places
    <2>2. phase = "open" /\ refState[current] = "lost"
      BY <2>1 DEF Link, Agree, ReleasedLast
    <2>3. H!Release(current)
      BY <1>4, <2>2 DEF CleanUp, H!Release
    <2> QED
      BY <2>1, <2>3 DEF H!Next
  <1>5. ASSUME NEW c \in Closer, Closing(c) PROVE [H!Next]_(H!vars)
    BY <1>5 DEF Closing, StartRelease, FinishRelease, H!Next
  <1>6. CASE \/ \E t \in Tracker : Created(t)
             \/ \E r \in Ref : Enqueue(r)
             \/ Monitor /\ ~CleanUp
             \/ \E c \in Closer : CloseEnter(c)
             \/ UNCHANGED vars
    <2>1. UNCHANGED handlesVars
      BY <1>6 DEF Created, Enqueue, Monitor, CloseEnter, vars
    <2> QED
      BY <2>1
  <1> QED
    BY <1>1, <1>2, <1>3, <1>4, <1>5, <1>6 DEF Next

LEMMA HandlesSame == ASSUME [H!Next]_(H!vars) PROVE [HP!Next]_(HP!vars)
  <1> USE DEF H!refVars, HP!refVars, H!handleVars, HP!handleVars, H!dataVars, HP!dataVars,
       H!cacheVars, HP!cacheVars, H!frameVars, HP!frameVars
  <1>1. ASSUME NEW r \in Ref, NEW a \in Addr, H!NewValue(r, a) PROVE HP!NewValue(r, a)
    BY <1>1 DEF H!NewValue, HP!NewValue, H!ApiOpen, HP!ApiOpen, H!NewReference, HP!NewReference,
       H!FreshRef, HP!FreshRef
  <1>2. ASSUME NEW r \in Ref, NEW k \in Kind, H!InitValue(r, k) PROVE HP!InitValue(r, k)
    BY <1>2 DEF H!InitValue, HP!InitValue, H!ApiOpen, HP!ApiOpen
  <1>3. ASSUME NEW r \in Ref, NEW a \in Addr, NEW v \in H!Value, H!ReadFromJS(r, a, v) PROVE HP!ReadFromJS(r, a, v)
    BY <1>3 DEF H!ReadFromJS, HP!ReadFromJS, H!ApiOpen, HP!ApiOpen, H!NewReference,
       HP!NewReference, H!FreshRef, HP!FreshRef
  <1>4. ASSUME NEW r \in Ref, NEW a \in Addr, NEW v \in H!Value, H!RunScript(r, a, v) PROVE HP!RunScript(r, a, v)
    BY <1>4 DEF H!RunScript, HP!RunScript, H!ApiOpen, HP!ApiOpen, H!NewReference,
       HP!NewReference, H!FreshRef, HP!FreshRef
  <1>5. ASSUME NEW s \in Ref, NEW r \in Ref, NEW a \in Addr, NEW v \in H!Value, H!Invoke(s, r, a, v) PROVE HP!Invoke(s, r, a, v)
    BY <1>5 DEF H!Invoke, HP!Invoke, H!Usable, HP!Usable, H!RunScript, HP!RunScript, H!ApiOpen,
       HP!ApiOpen, H!NewReference, HP!NewReference, H!FreshRef, HP!FreshRef
  <1>6. ASSUME NEW r \in Ref, H!WriteToJS(r) PROVE HP!WriteToJS(r)
    BY <1>6 DEF H!WriteToJS, HP!WriteToJS, H!ApiOpen, HP!ApiOpen
  <1>7. ASSUME NEW v \in H!Value, H!DropFromJS(v) PROVE HP!DropFromJS(v)
    BY <1>7 DEF H!DropFromJS, HP!DropFromJS, H!ApiOpen, HP!ApiOpen
  <1>8. ASSUME NEW r \in Ref, H!Resolve(r) PROVE HP!Resolve(r)
    BY <1>8 DEF H!Resolve, HP!Resolve, H!ApiOpen, HP!ApiOpen
  <1>9. ASSUME NEW r \in Ref, H!DropProxy(r) PROVE HP!DropProxy(r)
    BY <1>9 DEF H!DropProxy, HP!DropProxy
  <1>10. ASSUME NEW r \in Ref, NEW o \in Obj, NEW d \in Data, H!SetPayload(r, o, d) PROVE HP!SetPayload(r, o, d)
    BY <1>10 DEF H!SetPayload, HP!SetPayload, H!ApiOpen, HP!ApiOpen, H!Usable, HP!Usable,
       H!KindOf, HP!KindOf, H!FreshData, HP!FreshData, H!Rooted, HP!Rooted, H!StoreInCache,
       HP!StoreInCache, H!ClearReference, HP!ClearReference, H!Store, HP!Store, H!Delete,
       HP!Delete, H!CachesOf, HP!CachesOf, H!CacheName, HP!CacheName
  <1>11. ASSUME NEW r \in Ref, H!LoseRef(r) PROVE HP!LoseRef(r)
    BY <1>11 DEF H!LoseRef, HP!LoseRef
  <1>12. ASSUME NEW r \in Ref, H!Release(r) PROVE HP!Release(r)
    BY <1>12 DEF H!Release, HP!Release, H!FreeHandle, HP!FreeHandle
  <1>13. ASSUME NEW a \in Addr, H!Finalize(a) PROVE HP!Finalize(a)
    BY <1>13 DEF H!Finalize, HP!Finalize, H!CanFinalize, HP!CanFinalize, H!Rooted, HP!Rooted,
       H!ClearReference, HP!ClearReference, H!Delete, HP!Delete, H!CachesOf, HP!CachesOf,
       H!CacheName, HP!CacheName
  <1>14. ASSUME NEW d \in Data, NEW x \in H!Value \cup {None}, NEW r \in Ref, NEW a \in Addr, H!Call(d, x, r, a) PROVE HP!Call(d, x, r, a)
    BY <1>14 DEF H!Call, HP!Call, H!ApiOpen, HP!ApiOpen, H!Callable, HP!Callable, H!Usable,
       HP!Usable, H!CachesOf, HP!CachesOf, H!CacheName, HP!CacheName, H!Lookup, HP!Lookup,
       H!NewReference, HP!NewReference, H!FreshRef, HP!FreshRef
  <1>15. ASSUME H!CallbackThrows PROVE HP!CallbackThrows
    BY <1>15 DEF H!CallbackThrows, HP!CallbackThrows
  <1>16. ASSUME NEW r \in Ref, H!CallbackReturns(r) PROVE HP!CallbackReturns(r)
    BY <1>16 DEF H!CallbackReturns, HP!CallbackReturns
  <1>17. ASSUME H!UseResult PROVE HP!UseResult
    BY <1>17 DEF H!UseResult, HP!UseResult, H!Unreleased, HP!Unreleased
  <1>18. ASSUME H!StartRelease PROVE HP!StartRelease
    BY <1>18 DEF H!StartRelease, HP!StartRelease
  <1>19. ASSUME H!FinishRelease PROVE HP!FinishRelease
    BY <1>19 DEF H!FinishRelease, HP!FinishRelease, H!CacheName, HP!CacheName
  <1> QED
    BY HandlesVars, <1>1, <1>2, <1>3, <1>4, <1>5, <1>6, <1>7, <1>8, <1>9, <1>10, <1>11, <1>12,
       <1>13, <1>14, <1>15, <1>16, <1>17, <1>18, <1>19 DEF H!Next, HP!Next, H!Value, HP!Value

----------------------------------------------------------------------------
\* What one half knows of a Reference the other knows, too.
LEMMA AgreeStep ==
  ASSUME Agree, MP!MInv, HP!TypeOK, [Next]_vars
  PROVE  Agree'
  <1> USE DEF Agree, MP!MInv, MP!TypeOK, HP!TypeOK, HP!RefState
  <1>1. ASSUME NEW t \in Tracker, NEW r \in Ref, Create(t, r) PROVE Agree'
    <2>1. objState' = [objState EXCEPT ![r] = "reachable"]
      BY <1>1 DEF Create, M!TrackEnter
    <2>2. \/ refState' = [refState EXCEPT ![r] = "fresh"]
          \/ refState' = [refState EXCEPT ![r] = "held"]
      BY <1>1, Constants DEF Create, H!NewValue, H!ReadFromJS, H!RunScript, H!Call, H!NewReference,
         H!Value
    <2> QED
      BY <2>1, <2>2
  <1>2. CASE Operate
    <2>1. objState' = objState
      BY <1>2 DEF Operate, monitorVars
    <2>2. refState' = refState \/ \E r \in Ref : /\ refState[r] = "fresh"
                                               /\ refState' = [refState EXCEPT ![r] = "held"]
      BY <1>2 DEF Operate, H!InitValue, H!SetPayload, H!WriteToJS, H!Resolve, H!CallbackReturns,
         H!DropFromJS, H!Call, H!Finalize, H!CallbackThrows, H!UseResult, H!refVars
    <2> QED
      BY <2>1, <2>2
  <1>3. ASSUME NEW r \in Ref, LoseRef(r) PROVE Agree'
    BY <1>3 DEF LoseRef, H!LoseRef, M!LoseObject
  <1>4. ASSUME NEW r \in Ref, Enqueue(r) PROVE Agree'
    BY <1>4 DEF Enqueue, M!Enqueue, handlesVars
  <1>5. CASE CleanUp
    <2>1. current \in Ref /\ objState[current] = "enqueued"
      BY <1>5 DEF CleanUp, M!CleanUpStep, MP!Places
    <2>2. /\ objState' = [objState EXCEPT ![current] = "cleaned"]
          /\ refState' = [refState EXCEPT ![current] = "released"]
      BY <1>5 DEF CleanUp, M!CleanUpStep, H!FreeHandle
    <2> QED
      BY <2>1, <2>2
  <1>6. CASE \/ \E t \in Tracker : Created(t)
             \/ \E r \in Ref : DropProxy(r)
             \/ Monitor /\ ~CleanUp
             \/ \E c \in Closer : CloseEnter(c) \/ Closing(c)
             \/ UNCHANGED vars
    <2>1. objState' = objState
      BY <1>6 DEF Created, M!TrackExit, DropProxy, Monitor, M!Loop, M!Poll, M!PollTimeout,
         M!RemoveRead, M!RemoveWrite, CloseEnter, M!CloseEnter, Closing, M!Join, M!CloseExit,
         StartRelease, FinishRelease, M!ReleaseRuntime, monitorVars, vars
    <2>2. refState' = refState
      BY <1>6 DEF Created, DropProxy, H!DropProxy, Monitor, CloseEnter, Closing, StartRelease,
         H!StartRelease, FinishRelease, H!FinishRelease, H!refVars, handlesVars, vars
    <2> QED
      BY <2>1, <2>2
  <1> QED
    BY <1>1, <1>2, <1>3, <1>4, <1>5, <1>6 DEF Next

\* An entry of the map, also one that a put or a remove has read, is of a tracked Reference.
LEMMA MapTrackedStep ==
  ASSUME MapTracked, MP!MInv, [Next]_vars
  PROVE  MapTracked'
  <1> USE DEF MapTracked, MP!MInv, MP!TypeOK
  <1>0. ASSUME NEW r \in Ref, objState[r] # "new" PROVE objState'[r] # "new"
    BY <1>0, MonitorStep
    DEF M!Next, M!TrackEnter, M!TrackExit, M!LoseObject, M!Enqueue, M!Monitor, M!Loop, M!Poll,
        M!PollTimeout, M!CleanUpStep, M!RemoveRead, M!RemoveWrite, M!CloseEnter, M!Closing,
        M!Join, M!ReleaseRuntime, M!CloseExit, M!vars
  <1>1. ASSUME NEW t \in Tracker, NEW r \in Ref, M!TrackEnter(t, r) PROVE MapTracked'
    BY <1>0, <1>1 DEF M!TrackEnter, M!monitorVars
  <1>2. ASSUME NEW t \in Tracker, M!TrackExit(t) PROVE MapTracked'
    BY <1>0, <1>2 DEF M!TrackExit, M!monitorVars, MP!Places
  <1>3. CASE M!Monitor
    BY <1>0, <1>3 DEF M!Monitor, M!Loop, M!Poll, M!PollTimeout, M!CleanUpStep, M!RemoveRead,
       M!RemoveWrite, M!trackVars
  <1>4. CASE \/ \E r \in Ref : M!LoseObject(r) \/ M!Enqueue(r)
             \/ \E c \in Closer : M!CloseEnter(c) \/ M!Closing(c)
             \/ UNCHANGED M!vars
    <2>1. UNCHANGED <<references, mseen, seen>>
      BY <1>4 DEF M!LoseObject, M!Enqueue, M!CloseEnter, M!Closing, M!Join, M!ReleaseRuntime,
         M!CloseExit, M!vars, M!trackVars, M!monitorVars
    <2> QED
      BY <1>0, <2>1
  <1> QED
    BY <1>1, <1>2, <1>3, <1>4, MonitorStep DEF M!Next

\* The runtime is released after the monitor has ended, which it never leaves again.
LEMMA ReleasedLastStep ==
  ASSUME ReleasedLast, MP!Joined, [Next]_vars
  PROVE  ReleasedLast'
  <1> USE DEF ReleasedLast
  <1>1. mpc = "ended" => mpc' = "ended"
    BY MonitorStep
    DEF M!Next, M!TrackEnter, M!TrackExit, M!LoseObject, M!Enqueue, M!Monitor, M!Loop, M!Poll,
        M!PollTimeout, M!CleanUpStep, M!RemoveRead, M!RemoveWrite, M!CloseEnter, M!Closing,
        M!Join, M!ReleaseRuntime, M!CloseExit, M!monitorVars, M!vars
  <1>2. ASSUME NEW c \in Closer, StartRelease(c) PROVE ReleasedLast'
    BY <1>1, <1>2 DEF StartRelease, MP!Joined
  <1>3. ASSUME NEW c \in Closer, FinishRelease(c) PROVE ReleasedLast'
    BY <1>1, <1>3 DEF FinishRelease, H!FinishRelease
  <1>4. CASE ~\E c \in Closer : StartRelease(c) \/ FinishRelease(c)
    <2>1. phase' = phase
      BY <1>4 DEF Next, Create, H!NewValue, H!ReadFromJS, H!RunScript, H!Call, Created, Operate,
         H!InitValue, H!SetPayload, H!WriteToJS, H!Resolve, H!CallbackReturns, H!DropFromJS,
         H!Finalize, H!CallbackThrows, H!UseResult, DropProxy, H!DropProxy, LoseRef, H!LoseRef,
         Enqueue, Monitor, CleanUp, H!FreeHandle, CloseEnter, Closing, handlesVars, vars
    <2> QED
      BY <1>1, <2>1
  <1> QED
    BY <1>2, <1>3, <1>4

----------------------------------------------------------------------------
RInv == MP!MInv /\ MP!Joined /\ HP!IInv /\ Link

LEMMA InitRInv == Init => RInv
  <1> SUFFICES ASSUME Init PROVE RInv
    OBVIOUS
  <1>1. MP!Init
    BY DEF Init, M!Init, MP!Init
  <1>2. HP!Init
    BY DEF Init, H!Init, HP!Init, H!CacheName, HP!CacheName
  <1>3. MP!MInv /\ MP!Joined
    <2>1. MP!MInv
      BY <1>1, Constants, MP!MInvInit
    <2>2. MP!Joined
      BY <1>1 DEF MP!Init, MP!Joined
    <2> QED
      BY <2>1, <2>2
  <1>4. HP!IInv
    BY <1>2, Constants, HP!InitInv
  <1>5. Link
    BY DEF Init, H!Init, M!Init, Link, Agree, MapTracked, ReleasedLast
  <1> QED
    BY <1>3, <1>4, <1>5 DEF RInv

LEMMA StepRInv ==
  ASSUME ~Interruptible
  PROVE  RInv /\ [Next]_vars => RInv'
  <1> SUFFICES ASSUME RInv, [Next]_vars PROVE RInv'
    OBVIOUS
  <1> USE DEF RInv
  <1>1. [MP!Next]_(MP!vars)
    BY MonitorStep, MonitorSame
  <1>2. MP!MInv'
    BY <1>1, Constants, MP!MInvStep
  <1>3. MP!Joined'
    BY <1>1, Constants, MP!JoinedStep DEF MP!MInv
  <1>4. HP!IInv'
    BY HandlesStep, HandlesSame, Constants, HP!NextInv
  <1>5. Link'
    BY AgreeStep, MapTrackedStep, ReleasedLastStep DEF Link, HP!IInv
  <1> QED
    BY <1>2, <1>3, <1>4, <1>5

\* The invariant of the composition: those of its two components, and what links them.
THEOREM ReclamationInvariance ==
  ASSUME ~Interruptible
  PROVE  Spec => []RInv
  BY InitRInv, StepRInv, PTL DEF Spec

\* The composition implements Handles: the clean-up that the monitor runs deletes a handle once,
\* of a lost Reference, and never in or after the release of the runtime.
THEOREM CompositionKeepsHandles ==
  ASSUME ~Interruptible
  PROVE  Spec => HandlesKept
  <1>1. Init => H!Init
    BY DEF Init
  <1>2. RInv /\ [Next]_vars => [H!Next]_(H!vars)
    BY HandlesStep DEF RInv
  <1> QED
    BY <1>1, <1>2, ReclamationInvariance, PTL DEF Spec, HandlesKept, H!Spec

\* While the monitor runs, and without an overlap of put and remove, the Handles allocated are
\* exactly those whose References the map will have cleaned.
THEOREM HandlesAreMonitored ==
  ASSUME ~Interruptible
  PROVE  Spec => []HandlesMonitored
  <1>1. RInv => HandlesMonitored
    <2> SUFFICES ASSUME RInv, ~raced, mpc # "ended"
                 PROVE  live = {refHandle[r] : r \in {s \in Ref : /\ s \in references \/ M!InHand(s)
                                                                  /\ objState[s] # "cleaned"}}
      BY DEF HandlesMonitored
    <2> USE DEF RInv, MP!MInv, Link
    <2>1. ASSUME NEW r \in Ref
          PROVE  HP!Unreleased(r) <=> (r \in references \/ M!InHand(r)) /\ objState[r] # "cleaned"
      <3>1. HP!Unreleased(r) <=> objState[r] \in {"reachable", "unreachable", "enqueued"}
        BY DEF HP!Unreleased, Agree
      <3>2. objState[r] \in {"reachable", "unreachable", "enqueued"} => r \in references \/ M!InHand(r)
        BY DEF MP!MapExact, MP!InHand, M!InHand
      <3>3. r \in references \/ M!InHand(r) => objState[r] # "new"
        BY Constants DEF M!InHand, MP!Places, MapTracked, MP!TypeOK
      <3> QED
        BY <3>1, <3>2, <3>3 DEF MP!TypeOK
    <2>2. live = {refHandle[r] : r \in {s \in Ref : HP!Unreleased(s)}}
      BY DEF HP!IInv, HP!HandleOwnedOnce, HP!TypeOK
    <2> QED
      BY <2>1, <2>2
  <1> QED
    BY <1>1, ReclamationInvariance, PTL

----------------------------------------------------------------------------
\* What the components promise alone, carried over to the composition.

\* The composition is a ReferenceMonitor of which the objects are References and the clean-up
\* deletes their Handles: nothing that the handles do disturbs it, interrupted or not.
THEOREM CompositionKeepsMonitor == Spec => M!Init /\ [][M!Next]_(M!vars)
  <1>1. Init => M!Init
    BY DEF Init
  <1>2. [Next]_vars => [M!Next]_(M!vars)
    BY MonitorStep
  <1> QED
    BY <1>1, <1>2, PTL DEF Spec

\* Handles never deletes one twice nor runs a finalizer on deleted data, and the caches match
\* the handles, when the clean-up is run by the monitor thread whenever it comes to it.
THEOREM CompositionHandlesSafe ==
  ASSUME ~Interruptible
  PROVE  Spec => [](/\ H!TypeOK
                    /\ H!HandleOwnedOnce
                    /\ H!FinalizerSafe
                    /\ H!CacheMatchesHandle
                    /\ H!CacheEntryBacked)
  <1>1. RInv => /\ H!TypeOK
                /\ H!HandleOwnedOnce
                /\ H!FinalizerSafe
                /\ H!CacheMatchesHandle
                /\ H!CacheEntryBacked
    <2> SUFFICES ASSUME HP!IInv
                 PROVE  /\ H!TypeOK
                        /\ H!HandleOwnedOnce
                        /\ H!FinalizerSafe
                        /\ H!CacheMatchesHandle
                        /\ H!CacheEntryBacked
      BY DEF RInv
    <2> USE DEF HP!IInv
    <2>1. H!TypeOK
      BY DEF HP!TypeOK, H!TypeOK, HP!RefState, H!RefState, HP!Value, H!Value, HP!CacheName,
             H!CacheName
    <2>2. H!HandleOwnedOnce
      BY DEF HP!HandleOwnedOnce, H!HandleOwnedOnce, HP!Unreleased, H!Unreleased
    <2>3. H!FinalizerSafe
      BY DEF HP!FinalizerSafe, H!FinalizerSafe
    <2>4. H!CacheMatchesHandle
      BY DEF HP!CacheMatchesHandle, H!CacheMatchesHandle, HP!CachesOf, H!CachesOf
    <2>5. H!CacheEntryBacked
      BY DEF HP!CacheEntryBacked, H!CacheEntryBacked, HP!CachesOf, H!CachesOf, HP!CacheName,
             H!CacheName
    <2> QED
      BY <2>1, <2>2, <2>3, <2>4, <2>5
  <1> QED
    BY <1>1, ReclamationInvariance, PTL

\* With one closing thread the composition implements CleanUp: the Handle of a Reference is
\* deleted after the Reference was lost, once, and while the native runtime exists.
THEOREM CompositionKeepsPromise ==
  ASSUME ~Interruptible, \A b, c \in Closer : b = c, Closer # {}
  PROVE  Spec => MP!PromiseKept
  <1>1. Init => MP!Counted /\ MP!Promise!Init
    BY DEF Init, M!Init, MP!Counted, MP!Promise!Init
  <1>2. RInv /\ MP!Counted /\ [Next]_vars => MP!Counted'
    BY MonitorStep, MonitorSame, Constants, MP!CountedStep DEF RInv, MP!MInv
  <1>3. RInv /\ MP!Counted /\ [Next]_vars => [MP!Promise!Next]_<<MP!AState, MP!ARuntime>>
    BY MonitorStep, MonitorSame, Constants, MP!PromiseStep DEF RInv
  <1>4. Spec => []MP!Counted
    BY <1>1, <1>2, ReclamationInvariance, PTL DEF Spec
  <1> QED
    BY <1>1, <1>3, <1>4, ReclamationInvariance, PTL
    DEF Spec, MP!PromiseKept, MP!Promise!Spec, MP!AState, MP!ARuntime

\* Also the steps keep what Handles promises of them: data is deleted only when no cache keeps
\* its object, and what a value in the script stands for changes only under a set or finalizer.
THEOREM CompositionStepsSafe ==
  ASSUME ~Interruptible
  PROVE  Spec => HP!FreedDataForgotten /\ HP!LookupStable
  <1>1. Init => HP!Init
    BY DEF Init, H!Init, HP!Init, H!CacheName, HP!CacheName
  <1>2. RInv /\ [Next]_vars => [HP!Next]_(HP!vars)
    BY HandlesStep, HandlesSame DEF RInv
  <1>3. Spec => HP!Spec
    BY <1>1, <1>2, ReclamationInvariance, PTL DEF Spec, HP!Spec
  <1>4. HP!Spec => HP!FreedDataForgotten
    BY Constants, HP!FreedDataIsForgotten
  <1>5. HP!Spec => HP!LookupStable
    BY Constants, HP!LookupsStable
  <1> QED
    BY <1>3, <1>4, <1>5
=============================================================================
