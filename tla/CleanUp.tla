------------------------------- MODULE CleanUp -------------------------------
(***************************************************************************)
(* What ReferenceMonitor promises: the clean-up action of an object runs   *)
(* after the object has become unreachable, once, and only while the       *)
(* native runtime it would act upon exists.  Nothing is said of WHEN: an   *)
(* object may stay unreachable for ever.                                   *)
(***************************************************************************)
CONSTANT Object

VARIABLES
  state,    \* of each object: "untracked", "tracked", "unreachable" or "cleaned"
  runtime   \* "alive" or "released"

Init == state = [o \in Object |-> "untracked"] /\ runtime = "alive"

Move(o, from, to) == state[o] = from /\ state' = [state EXCEPT ![o] = to]

Track(o) == Move(o, "untracked", "tracked") /\ UNCHANGED runtime

BecomeUnreachable(o) == Move(o, "tracked", "unreachable") /\ UNCHANGED runtime

Clean(o) == runtime = "alive" /\ Move(o, "unreachable", "cleaned") /\ UNCHANGED runtime

ReleaseRuntime == runtime = "alive" /\ runtime' = "released" /\ UNCHANGED state

Next ==
  \/ \E o \in Object : Track(o) \/ BecomeUnreachable(o) \/ Clean(o)
  \/ ReleaseRuntime

Spec == Init /\ [][Next]_<<state, runtime>>
=============================================================================
