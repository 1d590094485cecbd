----------------------- MODULE ReferenceMonitorProofs -----------------------
(***************************************************************************)
(* Proofs about ReferenceMonitor, for every set of objects and threads.    *)
(* What depends on how close is used is stated with its condition: that no *)
(* closing thread is interrupted, that one thread at a time closes.        *)
(***************************************************************************)
EXTENDS ReferenceMonitor, TLAPS

USE InterruptibleAssumption, NoneAssumption

Safety == Init /\ [][Next]_vars

MInv == TypeOK /\ Places /\ Fresh /\ MapExact

\* The invariant holds of the initial state.
LEMMA MInvInit == Init => MInv
<1> SUFFICES ASSUME Init
             PROVE  MInv
  OBVIOUS
<1> USE DEF Init
<1>1. TypeOK
  BY DEF TypeOK
<1>2. Places
  BY DEF Places
<1>3. Fresh /\ MapExact
  BY DEF Fresh, MapExact
<1> QED
  BY <1>1, <1>2, <1>3 DEF MInv

\* Every step of a tracker, the monitor or a closing thread preserves the invariant.
LEMMA MInvStep == MInv /\ [Next]_vars => MInv'
<1> SUFFICES ASSUME MInv, [Next]_vars
             PROVE  MInv'
  OBVIOUS
<1> USE DEF MInv, TypeOK, trackVars, monitorVars, closeVars
<1>1. ASSUME NEW t \in Tracker, NEW o \in Object, TrackEnter(t, o)
      PROVE  MInv'
  <2> USE <1>1 DEF TrackEnter
  <2>1. TypeOK'
    OBVIOUS
  <2>2. Places'
    BY DEF Places
  <2>3. Fresh'
    BY DEF Fresh, Places
  <2>4. MapExact'
    BY DEF MapExact, Places, InHand
  <2> QED
    BY <2>1, <2>2, <2>3, <2>4
<1>2. ASSUME NEW t \in Tracker, TrackExit(t)
      PROVE  MInv'
  <2> USE <1>2 DEF TrackExit
  <2>1. TypeOK'
    OBVIOUS
  <2>2. \A s \in Tracker : s # t => hand[s] = None
    BY DEF Places
  <2>3. Places'
    BY <2>2 DEF Places
  <2>4. Fresh'
    BY <2>2 DEF Fresh, Places
  <2>5. MapExact'
    BY <2>2 DEF MapExact, Fresh, Places, InHand
  <2> QED
    BY <2>1, <2>3, <2>4, <2>5
<1>3. ASSUME NEW o \in Object, LoseObject(o)
      PROVE  MInv'
  BY <1>3 DEF LoseObject, Places, Fresh, MapExact, InHand
<1>4. ASSUME NEW o \in Object, Enqueue(o)
      PROVE  MInv'
  BY <1>4 DEF Enqueue, Places, Fresh, MapExact, InHand
<1>5. ASSUME Loop
      PROVE  MInv'
  BY <1>5 DEF Loop, Places, Fresh, MapExact, InHand
<1>6. ASSUME NEW o \in Object, Poll(o)
      PROVE  MInv'
  BY <1>6 DEF Poll, Places, Fresh, MapExact, InHand
<1>7. ASSUME PollTimeout
      PROVE  MInv'
  BY <1>7 DEF PollTimeout, Places, Fresh, MapExact, InHand
<1>8. ASSUME CleanUpStep
      PROVE  MInv'
  BY <1>8 DEF CleanUpStep, Places, Fresh, MapExact, InHand
<1>9. ASSUME RemoveRead
      PROVE  MInv'
  BY <1>9 DEF RemoveRead, Places, Fresh, MapExact, InHand
<1>10. ASSUME RemoveWrite
       PROVE  MInv'
  <2> USE <1>10 DEF RemoveWrite
  <2>1. TypeOK' /\ Places'
    BY DEF Places
  <2>2. ~raced => references' = references \ {current} /\ lock = None
    BY DEF Fresh
  <2>3. ~raced => \A t \in Tracker : hand[t] = None
    BY <2>2 DEF Places
  <2>4. Fresh'
    BY <2>3 DEF Fresh
  <2>5. MapExact'
    <3> SUFFICES ASSUME ~raced
                 PROVE  /\ \A o \in Object : objState[o] \in {"reachable", "unreachable", "enqueued"}
                                              => o \in references'
                        /\ \A o \in references' : objState[o] # "cleaned"
      BY DEF MapExact
    <3>1. objState[current] = "cleaned"
      BY DEF Places
    <3> QED
      BY <2>2, <2>3, <3>1 DEF MapExact, InHand
  <2> QED
    BY <2>1, <2>4, <2>5
<1>11. ASSUME NEW c \in Closer, CloseEnter(c) \/ Closing(c)
       PROVE  MInv'
  <2> USE DEF CloseEnter, Closing, Join, ReleaseRuntime, CloseExit
  <2>1. UNCHANGED <<objState, references, queue, trackVars, monitorVars, raced>>
    BY <1>11
  <2>2. TypeOK'
    <3>1. cpc' \in [Closer -> {"out", "join", "release", "end"}]
      BY <1>11
    <3>2. interrupted' \in BOOLEAN /\ closed' \in BOOLEAN
      BY <1>11
    <3>3. releases' \in Nat
      BY <1>11
    <3> QED
      BY <2>1, <3>1, <3>2, <3>3
  <2>3. Places' /\ Fresh' /\ MapExact'
    BY <2>1 DEF Places, Fresh, MapExact, InHand
  <2> QED
    BY <2>2, <2>3
<1>12. ASSUME UNCHANGED vars
       PROVE  MInv'
  BY <1>12 DEF vars, Places, Fresh, MapExact, InHand
<1> QED
  BY <1>1, <1>2, <1>3, <1>4, <1>5, <1>6, <1>7, <1>8, <1>9, <1>10, <1>11, <1>12
  DEF Next, Monitor

\* The safety part of the specification, without its fairness.
LEMMA SpecSafety == Spec => Safety
BY DEF Spec, Safety

\* The inductive invariant holds in every reachable state.
LEMMA MInvariance == Spec => []MInv
<1>1. Safety => []MInv
  BY MInvInit, MInvStep, PTL DEF Safety
<1> QED
  BY <1>1, SpecSafety

\* The state is well typed.
THEOREM MonitorTypeCorrect == Spec => []TypeOK
<1>1. MInv => TypeOK
  BY DEF MInv
<1> QED
  BY <1>1, MInvariance, PTL

\* As long as no track has overlapped a remove, no object tracked is forgotten by the map and
\* no object cleaned is kept in it: the data race on the HashMap is the only way to lose one.
THEOREM MapIsExact == Spec => []MapExact
<1>1. MInv => MapExact
  BY DEF MInv
<1> QED
  BY <1>1, MInvariance, PTL

----------------------------------------------------------------------------
\* The release of the runtime.

\* Once the monitor has ended it stays so, and who has got past join knows that it has.
LEMMA JoinedStep ==
  ASSUME ~Interruptible, TypeOK, Joined, [Next]_vars
  PROVE  Joined'
<1> USE DEF TypeOK, Joined, monitorVars, closeVars
<1>1. mpc = "ended" => mpc' = "ended"
  BY DEF Next, TrackEnter, TrackExit, LoseObject, Enqueue, Monitor, Loop, Poll, PollTimeout,
     CleanUpStep, RemoveRead, RemoveWrite, CloseEnter, Closing, Join, ReleaseRuntime,
     CloseExit, vars
<1>2. ASSUME NEW c \in Closer, CloseEnter(c)
      PROVE  Joined'
  BY <1>2 DEF CloseEnter
<1>3. ASSUME NEW c \in Closer, Join(c)
      PROVE  Joined'
  BY <1>3 DEF Join
<1>4. ASSUME NEW c \in Closer, ReleaseRuntime(c)
      PROVE  Joined'
  BY <1>4 DEF ReleaseRuntime
<1>5. ASSUME NEW c \in Closer, CloseExit(c)
      PROVE  Joined'
  BY <1>5 DEF CloseExit
<1>6. CASE ~\E c \in Closer : CloseEnter(c) \/ Closing(c)
  <2>1. UNCHANGED <<closed, releases, cpc>>
    BY <1>6 DEF Next, TrackEnter, TrackExit, LoseObject, Enqueue, Monitor, Loop, Poll,
       PollTimeout, CleanUpStep, RemoveRead, RemoveWrite, vars
  <2> QED
    BY <2>1, <1>1
<1> QED
  BY <1>2, <1>3, <1>4, <1>5, <1>6 DEF Closing

\* If no closing thread is interrupted, no clean-up action runs on a released runtime: join
\* orders the end of the monitor before the release, whatever the number of closing threads.
THEOREM NoCleanAfterReleaseIfJoined ==
  ASSUME ~Interruptible
  PROVE  Spec => []NoCleanAfterRelease
<1>1. Init => Joined
  BY DEF Init, Joined
<1>2. TypeOK /\ Joined /\ [Next]_vars => Joined'
  BY JoinedStep
<1>3. Joined => NoCleanAfterRelease
  BY DEF Joined, NoCleanAfterRelease
<1> QED
  BY <1>1, <1>2, <1>3, MonitorTypeCorrect, PTL DEF Spec

\* With a single closing thread the count of releases follows its place in close.
LEMMA CountedStep ==
  ASSUME \A b, c \in Closer : b = c, Closer # {}, TypeOK, Counted, [Next]_vars
  PROVE  Counted'
<1> USE DEF TypeOK, Counted
<1>1. ASSUME NEW c \in Closer, CloseEnter(c)
      PROVE  Counted'
  BY <1>1 DEF CloseEnter
<1>2. ASSUME NEW c \in Closer, Join(c)
      PROVE  Counted'
  BY <1>2 DEF Join
<1>3. ASSUME NEW c \in Closer, ReleaseRuntime(c)
      PROVE  Counted'
  BY <1>3 DEF ReleaseRuntime
<1>4. ASSUME NEW c \in Closer, CloseExit(c)
      PROVE  Counted'
  BY <1>4 DEF CloseExit
<1>5. CASE ~\E c \in Closer : CloseEnter(c) \/ Closing(c)
  BY <1>5 DEF Next, TrackEnter, TrackExit, LoseObject, Enqueue, Monitor, Loop, Poll,
     PollTimeout, CleanUpStep, RemoveRead, RemoveWrite, vars, closeVars
<1> QED
  BY <1>1, <1>2, <1>3, <1>4, <1>5 DEF Closing

\* One closing thread, however often it calls close, releases the runtime once.
THEOREM ReleasedOnceByOne ==
  ASSUME \A b, c \in Closer : b = c, Closer # {}
  PROVE  Spec => []ReleasedOnce
<1>1. Init => Counted
  BY DEF Init, Counted
<1>2. TypeOK /\ Counted /\ [Next]_vars => Counted'
  BY CountedStep
<1>3. TypeOK /\ Counted => ReleasedOnce
  BY DEF Counted, ReleasedOnce, TypeOK
<1> QED
  BY <1>1, <1>2, <1>3, MonitorTypeCorrect, PTL DEF Spec

----------------------------------------------------------------------------
\* The monitor implements its abstract specification.

AState ==
  [o \in Object |->
     CASE objState[o] = "new" -> "untracked"
       [] objState[o] = "reachable" -> "tracked"
       [] objState[o] \in {"unreachable", "enqueued"} -> "unreachable"
       [] OTHER -> "cleaned"]
ARuntime == IF releases = 0 THEN "alive" ELSE "released"

\* A step that moves one object moves its abstract state, or leaves it alone.
LEMMA AStateMoves ==
  ASSUME TypeOK, NEW o \in Object,
         NEW s \in {"reachable", "unreachable", "enqueued", "cleaned"},
         objState' = [objState EXCEPT ![o] = s]
  PROVE  AState' = [AState EXCEPT ![o] =
                      CASE s = "reachable" -> "tracked"
                        [] s \in {"unreachable", "enqueued"} -> "unreachable"
                        [] OTHER -> "cleaned"]
BY DEF AState, TypeOK

\* Every step is an abstract step or leaves the abstract state alone.
LEMMA PromiseStep ==
  ASSUME MInv, Joined, Counted, [Next]_vars
  PROVE  [Promise!Next]_<<AState, ARuntime>>
<1> USE DEF MInv, trackVars, monitorVars, closeVars
<1>1. ASSUME NEW t \in Tracker, NEW o \in Object, TrackEnter(t, o)
      PROVE  Promise!Track(o)
  <2>1. AState' = [AState EXCEPT ![o] = "tracked"] /\ AState[o] = "untracked"
    BY <1>1, AStateMoves DEF TrackEnter, AState
  <2> QED
    BY <1>1, <2>1 DEF TrackEnter, Promise!Track, Promise!Move, AState, ARuntime
<1>2. ASSUME NEW o \in Object, LoseObject(o)
      PROVE  Promise!BecomeUnreachable(o)
  <2>1. AState' = [AState EXCEPT ![o] = "unreachable"] /\ AState[o] = "tracked"
    BY <1>2, AStateMoves DEF LoseObject, AState
  <2> QED
    BY <1>2, <2>1 DEF LoseObject, Promise!BecomeUnreachable, Promise!Move, AState, ARuntime
<1>3. ASSUME NEW o \in Object, Enqueue(o)
      PROVE  UNCHANGED <<AState, ARuntime>>
  BY <1>3 DEF Enqueue, AState, ARuntime, TypeOK
<1>4. ASSUME NEW o \in Object, o = current, CleanUpStep
      PROVE  Promise!Clean(o)
  <2>1. objState[o] = "enqueued" /\ objState' = [objState EXCEPT ![o] = "cleaned"]
    BY <1>4 DEF CleanUpStep, TypeOK, Places
  <2>2. AState' = [AState EXCEPT ![o] = "cleaned"] /\ AState[o] = "unreachable"
    BY <2>1, AStateMoves DEF AState
  <2>3. releases = 0
    BY <1>4 DEF CleanUpStep, Joined, TypeOK
  <2> QED
    BY <1>4, <2>2, <2>3 DEF CleanUpStep, Promise!Clean, Promise!Move, AState, ARuntime
<1>5. ASSUME NEW c \in Closer, ReleaseRuntime(c)
      PROVE  Promise!ReleaseRuntime
  <2>1. releases = 0 /\ releases' = 1
    BY <1>5 DEF ReleaseRuntime, Counted
  <2> QED
    BY <1>5, <2>1 DEF ReleaseRuntime, Promise!ReleaseRuntime, AState, ARuntime
<1>6. CASE UNCHANGED <<objState, releases>>
  BY <1>6 DEF AState, ARuntime
<1>7. CASE \E t \in Tracker, o \in Object : TrackEnter(t, o)
  BY <1>1, <1>7 DEF Promise!Next
<1>8. CASE \E o \in Object : LoseObject(o)
  BY <1>2, <1>8 DEF Promise!Next
<1>9. CASE \E o \in Object : Enqueue(o)
  BY <1>3, <1>9
<1>10. CASE CleanUpStep
  <2>1. PICK o \in Object : o = current
    BY <1>10 DEF CleanUpStep, TypeOK, Places
  <2>2. Promise!Clean(o)
    BY <1>4, <1>10, <2>1
  <2> QED
    BY <2>2 DEF Promise!Next
<1>11. CASE \E c \in Closer : ReleaseRuntime(c)
  BY <1>5, <1>11 DEF Promise!Next
<1>12. ASSUME ~\E t \in Tracker, o \in Object : TrackEnter(t, o),
              ~\E o \in Object : LoseObject(o) \/ Enqueue(o), ~CleanUpStep,
              ~\E c \in Closer : ReleaseRuntime(c)
       PROVE  UNCHANGED <<objState, releases>>
  BY <1>12 DEF Next, TrackExit, Monitor, Loop, Poll, PollTimeout, RemoveRead, RemoveWrite,
     CloseEnter, Closing, Join, CloseExit, vars
<1> QED
  BY <1>6, <1>7, <1>8, <1>9, <1>10, <1>11, <1>12

\* The monitor and close implement CleanUp: every clean-up action runs after its object has
\* become unreachable and while the runtime is alive, and the runtime is released once.
THEOREM MonitorImplementsCleanUp ==
  ASSUME ~Interruptible, \A b, c \in Closer : b = c, Closer # {}
  PROVE  Spec => PromiseKept
<1>1. Init => Joined /\ Counted
  BY DEF Init, Joined, Counted
<1>2. TypeOK /\ Joined /\ [Next]_vars => Joined'
  BY JoinedStep
<1>3. TypeOK /\ Counted /\ [Next]_vars => Counted'
  BY CountedStep
<1>4. Init => Promise!Init
  BY DEF Init, Promise!Init
<1>5. MInv /\ Joined /\ Counted /\ [Next]_vars => [Promise!Next]_<<AState, ARuntime>>
  BY PromiseStep
<1>6. Spec => [](Joined /\ Counted)
  BY <1>1, <1>2, <1>3, MonitorTypeCorrect, PTL DEF Spec
<1> QED
  BY <1>4, <1>5, <1>6, MInvariance, PTL
  DEF Spec, PromiseKept, Promise!Spec, AState, ARuntime
=============================================================================
