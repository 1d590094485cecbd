----------------------------- MODULE Reclamation -----------------------------
(***************************************************************************)
(* Handles and ReferenceMonitor composed: from the creation of a Reference *)
(* over the Java map, the reference queue and the monitor thread back to   *)
(* the Handle, and Runtime.close, which ends both.                         *)
(*                                                                         *)
(* A native operation that makes a Reference tracks it before it returns,  *)
(* so that there is no other operation between the two halves of track;    *)
(* the monitor's clean-up action is releaseReference on the handle that    *)
(* track was given; close releases the runtime in two steps, between which *)
(* V8 collects.  The guards of Handles on the clean-up (Release) are not   *)
(* part of CleanUp here: that they hold is HandlesKept.                    *)
(***************************************************************************)
CONSTANTS
  Ref, Addr, Data, Obj, Kind,      \* of Handles; a Reference is an Object of ReferenceMonitor
  Tracker, Closer, Interruptible,  \* of ReferenceMonitor
  None

ASSUME ReclamationAssumption ==
  /\ Kind \subseteq {"Value", "External", "Function"}
  /\ Data \cap Kind = {}
  /\ None \notin Ref \cup Addr \cup Data \cup Obj \cup Tracker \cup {"Value", "External", "Function"}
  /\ Interruptible \in BOOLEAN

VARIABLES
  refState, refHandle, proxies, live, hValue, hParam, jsHeld, dLive, dHandle, dKind, dObj,
  cache, cacheRef, framePc, frameFun, frameRef, phase,
  objState, references, queue, lock, hand, seen, mpc, current, mseen, interrupted, cpc, closed,
  releases, raced

H == INSTANCE Handles
M == INSTANCE ReferenceMonitor WITH Object <- Ref

handlesVars ==
  <<refState, refHandle, proxies, live, hValue, hParam, jsHeld, dLive, dHandle, dKind, dObj,
    cache, cacheRef, framePc, frameFun, frameRef, phase>>

monitorVars ==
  <<objState, references, queue, lock, hand, seen, mpc, current, mseen, interrupted, cpc, closed,
    releases, raced>>

vars == <<handlesVars, monitorVars>>

Init == H!Init /\ M!Init

----------------------------------------------------------------------------
\* The program.

\* Mutant: the argument of a callback is not tracked.
CreateUntracked(t, r) ==
  \/ /\ \E a \in Addr :
          \/ H!NewValue(r, a)
          \/ \E v \in H!Value : H!ReadFromJS(r, a, v)
          \/ \E k \in Kind : H!RunScript(r, a, k)
     /\ M!TrackEnter(t, r)
  \/ /\ \E a \in Addr, d \in Data, v \in H!Value : H!Call(d, v, r, a)
     /\ UNCHANGED monitorVars

\* An operation that returns, or passes to a callback, a new Reference, up to the read of the
\* monitor's map in track.
Create(t, r) ==
  /\ \E a \in Addr :
       \/ H!NewValue(r, a)
       \/ \E v \in H!Value : H!ReadFromJS(r, a, v)
       \/ \E k \in Kind : H!RunScript(r, a, k)
       \/ \E d \in Data, v \in H!Value : H!Call(d, v, r, a)
  /\ M!TrackEnter(t, r)

\* track returns, and the operation goes on.
Created(t) == M!TrackExit(t) /\ UNCHANGED handlesVars

\* The operations, and the finalizers that V8 runs in them, that make no Reference.
Operate ==
  /\ lock = None
  /\ \/ \E r \in Ref, k \in Kind : H!InitValue(r, k)
     \/ \E r \in Ref, o \in Obj, d \in Data : H!SetPayload(r, o, d)
     \/ \E r \in Ref : H!WriteToJS(r) \/ H!Resolve(r) \/ H!CallbackReturns(r)
     \/ \E v \in H!Value : H!DropFromJS(v)
     \/ \E d \in Data : \E r \in Ref, a \in Addr : H!Call(d, None, r, a)
     \/ \E a \in Addr : H!Finalize(a)
     \/ H!CallbackThrows
     \/ H!UseResult
  /\ UNCHANGED monitorVars

DropProxy(r) == H!DropProxy(r) /\ UNCHANGED monitorVars

----------------------------------------------------------------------------
\* The JVM's collector and the monitor thread.

LoseRef(r) == H!LoseRef(r) /\ M!LoseObject(r)

Enqueue(r) == M!Enqueue(r) /\ UNCHANGED handlesVars

\* The clean-up action that Runtime.track has given to the monitor.
CleanUp == M!CleanUpStep /\ H!FreeHandle(current)

Monitor ==
  \/ CleanUp
  \/ /\ M!Loop \/ (\E r \in Ref : M!Poll(r)) \/ M!PollTimeout \/ M!RemoveRead \/ M!RemoveWrite
     /\ UNCHANGED handlesVars

----------------------------------------------------------------------------
\* Runtime.close.

CloseEnter(c) == M!CloseEnter(c) /\ UNCHANGED handlesVars

\* releaseRuntime begins.  The code looks at nothing here: that no operation is in progress, nor
\* createNewReference between its two, is what it expects of the program.
StartRelease(c) ==
  /\ cpc[c] = "release"
  /\ lock = None
  /\ \A r \in Ref : refState[r] # "fresh"
  /\ H!StartRelease
  /\ UNCHANGED monitorVars

FinishRelease(c) == H!FinishRelease /\ M!ReleaseRuntime(c)

Closing(c) ==
  \/ (M!Join(c) \/ M!CloseExit(c)) /\ UNCHANGED handlesVars
  \/ StartRelease(c)
  \/ FinishRelease(c)

Next ==
  \/ \E t \in Tracker, r \in Ref : Create(t, r)
  \/ \E t \in Tracker : Created(t)
  \/ Operate
  \/ \E r \in Ref : DropProxy(r)
  \/ \E r \in Ref : LoseRef(r)
  \/ \E r \in Ref : Enqueue(r)
  \/ Monitor
  \/ \E c \in Closer : CloseEnter(c)
  \/ \E c \in Closer : Closing(c)

\* As in ReferenceMonitor: of the monitor thread and of a track that has begun.
Fairness == WF_vars(Monitor) /\ \A t \in Tracker : WF_vars(Created(t))

Spec == Init /\ [][Next]_vars /\ Fairness

----------------------------------------------------------------------------
\* Properties.

\* What the two halves take of each other for granted: the monitor deletes a handle once, after
\* its Reference was lost, and never during or after the release of the runtime.  With it every
\* property of Handles holds of the composition.
HandlesKept == H!Spec

\* No handle escapes the monitor: while it runs, and as long as no track has overlapped a
\* remove, the Handles allocated in C++ are those of the References in the map, or on their way
\* into it, of which the clean-up is still to come.
HandlesMonitored ==
  ~raced /\ mpc # "ended" =>
    live = {refHandle[r] : r \in {s \in Ref : /\ s \in references \/ M!InHand(s)
                                              /\ objState[s] # "cleaned"}}

\* The inductive invariant of ReclamationProofs, besides those of the two components: what the
\* two halves know of a Reference agrees, the map knows only tracked ones, and the release of
\* the runtime finds the monitor ended.
Agree ==
  \A r \in Ref :
    /\ objState[r] = "new" <=> refState[r] = "none"
    /\ objState[r] = "reachable" <=> refState[r] \in {"fresh", "held"}
    /\ objState[r] \in {"unreachable", "enqueued"} <=> refState[r] = "lost"

MapTracked ==
  \A r \in references \cup mseen \cup UNION {seen[t] : t \in Tracker} : objState[r] # "new"

ReleasedLast == phase # "open" => mpc = "ended"

Link == Agree /\ MapTracked /\ ReleasedLast

\* The memory of a Reference is given back on both sides of the border: once its phantom
\* reference is enqueued, its Handle and the entry of the map go, unless close comes first.
HandleReclaimed ==
  \A r \in Ref :
    objState[r] = "enqueued" ~>
      (refState[r] = "released" /\ r \notin references) \/ interrupted
=============================================================================
