-------------------------- MODULE ReferenceMonitor --------------------------
(***************************************************************************)
(* ReferenceMonitor and Runtime.close: API threads track objects, the JVM  *)
(* enqueues the phantom references of those that become unreachable, the   *)
(* monitor thread runs their clean-up actions (V8.releaseReference), and a *)
(* closing thread interrupts and joins the monitor before it releases the  *)
(* native runtime the clean-up actions work on.                            *)
(*                                                                         *)
(* `references' is a HashMap.  track is synchronized, clean is not, so a   *)
(* put and a remove may overlap.  Each is modelled as reading the bucket   *)
(* and later writing back what it read, with or without its key: a put     *)
(* that hangs its node on the node being removed is lost, and a remove     *)
(* that overlaps a put may be undone.                                      *)
(***************************************************************************)
EXTENDS Naturals

CONSTANTS
  Object,         \* the objects tracked
  Tracker,        \* the threads that call track
  Closer,         \* the threads that call close
  Interruptible,  \* whether a thread that calls close may be interrupted
  None

ASSUME InterruptibleAssumption == Interruptible \in BOOLEAN
ASSUME NoneAssumption == None \notin Object \cup Tracker

VARIABLES
  objState,     \* what became of each object
  references,   \* the objects of which the NativeReference is in the map
  lock,         \* the thread inside the synchronized track
  hand,         \* the object each tracker is tracking
  seen,         \* the bucket as each tracker's put read it
  queue,        \* the ReferenceQueue
  mpc,          \* the monitor thread's place in run
  current,      \* the NativeReference it works on
  mseen,        \* the bucket as its remove read it
  interrupted,  \* the AtomicBoolean
  cpc,          \* each closing thread's place in close
  closed,       \* JSBaseRuntime's flag
  releases,     \* how often the native runtime was released
  raced         \* ghost: a put and a remove have overlapped

trackVars == <<lock, hand, seen>>
monitorVars == <<mpc, current, mseen>>
closeVars == <<interrupted, cpc, closed, releases>>
vars == <<objState, references, queue, trackVars, monitorVars, closeVars, raced>>

TypeOK ==
  /\ objState \in [Object -> {"new", "reachable", "unreachable", "enqueued", "cleaned"}]
  /\ references \subseteq Object
  /\ lock \in Tracker \cup {None}
  /\ hand \in [Tracker -> Object \cup {None}]
  /\ seen \in [Tracker -> SUBSET Object]
  /\ queue \subseteq Object
  /\ mpc \in {"loop", "poll", "clean", "remove", "write", "ended"}
  /\ current \in Object \cup {None}
  /\ mseen \subseteq Object
  /\ interrupted \in BOOLEAN
  /\ cpc \in [Closer -> {"out", "join", "release", "end"}]
  /\ closed \in BOOLEAN
  /\ releases \in Nat
  /\ raced \in BOOLEAN

Init ==
  /\ objState = [o \in Object |-> "new"]
  /\ references = {}
  /\ lock = None
  /\ hand = [t \in Tracker |-> None]
  /\ seen = [t \in Tracker |-> {}]
  /\ queue = {}
  /\ mpc = "loop"
  /\ current = None
  /\ mseen = {}
  /\ interrupted = FALSE
  /\ cpc = [c \in Closer |-> "out"]
  /\ closed = FALSE
  /\ releases = 0
  /\ raced = FALSE

----------------------------------------------------------------------------
\* The application and the JVM's collector.

\* Mutant: track is not synchronized.
TrackEnterUnlocked(t, o) ==
  /\ hand[t] = None
  /\ objState[o] = "new"
  /\ lock' = t
  /\ objState' = [objState EXCEPT ![o] = "reachable"]
  /\ hand' = [hand EXCEPT ![t] = o]
  /\ seen' = [seen EXCEPT ![t] = references]
  /\ raced' = (raced \/ mpc = "write")
  /\ UNCHANGED <<references, queue, monitorVars, closeVars>>

\* track, up to the read of the bucket: the lock, the id, the NativeReference.
TrackEnter(t, o) ==
  /\ lock = None
  /\ objState[o] = "new"
  /\ lock' = t
  /\ objState' = [objState EXCEPT ![o] = "reachable"]
  /\ hand' = [hand EXCEPT ![t] = o]
  /\ seen' = [seen EXCEPT ![t] = references]
  /\ raced' = (raced \/ mpc = "write")
  /\ UNCHANGED <<references, queue, monitorVars, closeVars>>

\* Mutant: the put has its arguments wrong.
TrackExitWrongKey(t) ==
  /\ hand[t] # None
  /\ references' = seen[t] \cup {t}
  /\ hand' = [hand EXCEPT ![t] = None]
  /\ seen' = [seen EXCEPT ![t] = {}]
  /\ lock' = None
  /\ UNCHANGED <<objState, queue, monitorVars, closeVars, raced>>

\* The write of the put and the end of track.
TrackExit(t) ==
  /\ hand[t] # None
  /\ references' = seen[t] \cup {hand[t]}
  /\ hand' = [hand EXCEPT ![t] = None]
  /\ seen' = [seen EXCEPT ![t] = {}]
  /\ lock' = None
  /\ UNCHANGED <<objState, queue, monitorVars, closeVars, raced>>

InHand(o) == \E t \in Tracker : hand[t] = o

\* The application drops its last path to o.
LoseObject(o) ==
  /\ objState[o] = "reachable"
  /\ ~InHand(o)
  /\ objState' = [objState EXCEPT ![o] = "unreachable"]
  /\ UNCHANGED <<references, queue, trackVars, monitorVars, closeVars, raced>>

\* The collector enqueues a phantom reference that is itself still reachable: once.
Enqueue(o) ==
  /\ objState[o] = "unreachable"
  /\ o \in references
  /\ objState' = [objState EXCEPT ![o] = "enqueued"]
  /\ queue' = queue \cup {o}
  /\ UNCHANGED <<references, trackVars, monitorVars, closeVars, raced>>

----------------------------------------------------------------------------
\* The monitor thread: run and clean.

\* Mutant: the loop waits for the next reference before it looks at the flag again.
LoopIgnoresFlag ==
  /\ mpc = "loop"
  /\ mpc' = "poll"
  /\ UNCHANGED <<objState, references, queue, trackVars, current, mseen, closeVars, raced>>

\* The test of the loop; on the way out the map is cleared.
Loop ==
  /\ mpc = "loop"
  /\ IF interrupted
     THEN mpc' = "ended" /\ references' = {}
     ELSE mpc' = "poll" /\ UNCHANGED references
  /\ UNCHANGED <<objState, queue, trackVars, current, mseen, closeVars, raced>>

\* Mutant: a reference polled is not cleaned.
PollDrops(o) ==
  /\ mpc = "poll"
  /\ o \in queue
  /\ queue' = queue \ {o}
  /\ mpc' = "loop"
  /\ UNCHANGED <<objState, references, trackVars, current, mseen, closeVars, raced>>

\* referenceQueue.remove(millisPause) returns a reference, any of those enqueued.
Poll(o) ==
  /\ mpc = "poll"
  /\ o \in queue
  /\ queue' = queue \ {o}
  /\ current' = o
  /\ mpc' = "clean"
  /\ UNCHANGED <<objState, references, trackVars, mseen, closeVars, raced>>

\* The pause ends with an empty queue.
PollTimeout ==
  /\ mpc = "poll"
  /\ queue = {}
  /\ mpc' = "loop"
  /\ UNCHANGED <<objState, references, queue, trackVars, current, mseen, closeVars, raced>>

\* ref.cleanUp().
CleanUpStep ==
  /\ mpc = "clean"
  /\ objState' = [objState EXCEPT ![current] = "cleaned"]
  /\ mpc' = "remove"
  /\ UNCHANGED <<references, queue, trackVars, current, mseen, closeVars, raced>>

\* references.remove(ref.id): the read of the bucket.
RemoveRead ==
  /\ mpc = "remove"
  /\ mseen' = references
  /\ mpc' = "write"
  /\ raced' = (raced \/ lock # None)
  /\ UNCHANGED <<objState, references, queue, trackVars, current, closeVars>>

\* The write.
RemoveWrite ==
  /\ mpc = "write"
  /\ references' = mseen \ {current}
  /\ mseen' = {}
  /\ current' = None
  /\ mpc' = "loop"
  /\ UNCHANGED <<objState, queue, trackVars, closeVars, raced>>

Monitor ==
  \/ Loop
  \/ \E o \in Object : Poll(o)
  \/ PollTimeout
  \/ CleanUpStep
  \/ RemoveRead
  \/ RemoveWrite

----------------------------------------------------------------------------
\* Runtime.close.

\* Mutant: the test of isClosed is dropped.
CloseEnterAlways(c) ==
  /\ cpc[c] = "out"
  /\ interrupted' = TRUE
  /\ cpc' = [cpc EXCEPT ![c] = "join"]
  /\ UNCHANGED <<objState, references, queue, trackVars, monitorVars, closed, releases, raced>>

\* The test of isClosed, and the interrupt of the monitor.
CloseEnter(c) ==
  /\ cpc[c] = "out"
  /\ ~closed
  /\ interrupted' = TRUE
  /\ cpc' = [cpc EXCEPT ![c] = "join"]
  /\ UNCHANGED <<objState, references, queue, trackVars, monitorVars, closed, releases, raced>>

\* Mutant: the monitor is not joined.
JoinAtOnce(c) ==
  /\ cpc[c] = "join"
  /\ cpc' = [cpc EXCEPT ![c] = "release"]
  /\ UNCHANGED <<objState, references, queue, trackVars, monitorVars, interrupted, closed,
                 releases, raced>>

\* join returns once the monitor has ended, or with an InterruptedException, which is ignored.
Join(c) ==
  /\ cpc[c] = "join"
  /\ mpc = "ended" \/ Interruptible
  /\ cpc' = [cpc EXCEPT ![c] = "release"]
  /\ UNCHANGED <<objState, references, queue, trackVars, monitorVars, interrupted, closed,
                 releases, raced>>

\* releaseRuntime.
ReleaseRuntime(c) ==
  /\ cpc[c] = "release"
  /\ releases' = releases + 1
  /\ cpc' = [cpc EXCEPT ![c] = "end"]
  /\ UNCHANGED <<objState, references, queue, trackVars, monitorVars, interrupted, closed, raced>>

\* super.close().
CloseExit(c) ==
  /\ cpc[c] = "end"
  /\ closed' = TRUE
  /\ cpc' = [cpc EXCEPT ![c] = "out"]
  /\ UNCHANGED <<objState, references, queue, trackVars, monitorVars, interrupted, releases,
                 raced>>

Closing(c) == Join(c) \/ ReleaseRuntime(c) \/ CloseExit(c)

Next ==
  \/ \E t \in Tracker, o \in Object : TrackEnter(t, o)
  \/ \E t \in Tracker : TrackExit(t)
  \/ \E o \in Object : LoseObject(o)
  \/ \E o \in Object : Enqueue(o)
  \/ Monitor
  \/ \E c \in Closer : CloseEnter(c)
  \/ \E c \in Closer : Closing(c)

\* The JVM schedules every thread that can run; it need not collect, nor the application
\* drop an object or close the runtime.
Fairness ==
  /\ WF_vars(Monitor)
  /\ \A t \in Tracker : WF_vars(TrackExit(t))
  /\ \A c \in Closer : WF_vars(Closing(c))

Spec == Init /\ [][Next]_vars /\ Fairness

----------------------------------------------------------------------------
\* Properties.

\* While the monitor runs, and as long as no track has overlapped a remove, the map holds
\* the NativeReferences of exactly the objects whose clean-up is still to come: without its
\* entry an object would never be cleaned, an entry too many is a leak.
MapExact ==
  ~raced /\ mpc # "ended" =>
    /\ \A o \in Object : objState[o] \in {"reachable", "unreachable", "enqueued"} =>
                           o \in references \/ InHand(o)
    /\ \A o \in references : objState[o] = "cleaned" => o = current

\* The inductive invariant of ReferenceMonitorProofs.  The threads' places in their code:
Places ==
  /\ \A t \in Tracker : hand[t] # None => lock = t
  /\ \A t \in Tracker : hand[t] # None => objState[hand[t]] = "reachable"
  /\ lock # None => hand[lock] # None
  /\ mpc \in {"clean", "remove", "write"} <=> current # None
  /\ mpc = "clean" => objState[current] = "enqueued"
  /\ mpc \in {"remove", "write"} => objState[current] = "cleaned"
  /\ \A o \in queue : objState[o] = "enqueued"
  /\ mpc = "clean" => current \notin queue

\* Without an overlap, what a put or a remove read is still what is there.
Fresh ==
  ~raced =>
    /\ mpc = "write" => lock = None /\ mseen = references
    /\ mpc # "ended" => \A t \in Tracker : hand[t] # None => seen[t] = references

\* The closing threads that got past join did so after the monitor had ended.
Joined ==
  /\ closed \/ releases > 0 => mpc = "ended"
  /\ \A c \in Closer : cpc[c] \in {"release", "end"} => mpc = "ended"

\* With one closing thread: what it has released.
Counted ==
  /\ \A c \in Closer : cpc[c] \in {"join", "release"} => releases = 0 /\ ~closed
  /\ \A c \in Closer : cpc[c] = "end" => releases = 1 /\ ~closed
  /\ \A c \in Closer : cpc[c] = "out" => (releases = 1 /\ closed) \/ (releases = 0 /\ ~closed)

\* releaseReference is never called on, nor a clean-up in progress during the release of, a
\* native runtime: once it is released the monitor thread has ended.
NoCleanAfterRelease == releases > 0 => mpc = "ended"

\* However often close is called, the native runtime is released once.
ReleasedOnce == releases <= 1

\* Clean-up actions run once, after the object became unreachable, before the release.
Promise ==
  INSTANCE CleanUp WITH
    state <- [o \in Object |->
                CASE objState[o] = "new" -> "untracked"
                  [] objState[o] = "reachable" -> "tracked"
                  [] objState[o] \in {"unreachable", "enqueued"} -> "unreachable"
                  [] OTHER -> "cleaned"],
    runtime <- IF releases = 0 THEN "alive" ELSE "released"

PromiseKept == Promise!Spec

\* A phantom reference that is enqueued is cleaned up, unless the monitor is interrupted first.
EnqueuedIsCleaned ==
  \A o \in Object : objState[o] = "enqueued" ~> (objState[o] = "cleaned" \/ interrupted)

\* close returns: the monitor notices the interrupt, whatever it was doing.
CloseReturns == \A c \in Closer : cpc[c] = "join" ~> cpc[c] = "out"

\* `Once all references to `obj` are lost, the garbage collector will detect `obj` can be
\* cleared, and the clean up action will be performed' (ReferenceMonitor.java:26-27): while
\* the monitor runs, the phantom reference of a tracked object stays reachable.
NeverForgotten ==
  mpc # "ended" =>
    \A o \in Object :
      objState[o] \in {"reachable", "unreachable"} => o \in references \/ InHand(o)
=============================================================================
