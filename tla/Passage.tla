------------------------------ MODULE Passage ------------------------------
(***************************************************************************)
(* What the border promises of exceptions, with no JNI references: an      *)
(* Error thrown for a Java exception carries that exception, and what Java *)
(* gets when the Error leaves JavaScript is an ExecutionException caused   *)
(* by it.  The promise ends for an Error that outlives the native call in  *)
(* which its callback was called.                                          *)
(***************************************************************************)
EXTENDS Throwables

CONSTANTS Error, Nothing, MaxDepth

VARIABLES
  depth,     \* native calls in progress
  side,      \* which side runs
  flight,    \* what is being thrown there
  cause,     \* the throwable an Error carries
  home,      \* the native call an Error that carries one belongs to, 0 for the others
  outlived   \* Errors whose native call has returned

vars == <<depth, side, flight, cause, home, outlived>>

Init ==
  /\ depth = 0
  /\ side = "java"
  /\ flight = None
  /\ cause = [e \in Error |-> Plain(None)]
  /\ home = [e \in Error |-> 0]
  /\ outlived = {}

\* Within one side: a throw or a catch.
JavaThrows ==
  /\ side = "java"
  /\ flight = None
  /\ depth > 0
  /\ \E x \in Exc : flight' = Plain(x)
  /\ UNCHANGED <<depth, side, cause, home, outlived>>

ScriptThrows ==
  /\ side = "js"
  /\ flight = None
  /\ flight' \in Error \cup {Nothing}
  /\ \/ UNCHANGED <<cause, home, outlived>>
     \/ /\ flight' # Nothing
        /\ cause' = [cause EXCEPT ![flight'] = Plain(None)]
        /\ home' = [home EXCEPT ![flight'] = 0]
        /\ outlived' = outlived \ {flight'}
  /\ UNCHANGED <<depth, side>>

Catch ==
  /\ flight # None
  /\ flight' = None
  /\ UNCHANGED <<depth, side, cause, home, outlived>>

\* Calls and returns of callbacks.
EnterScript ==
  /\ side = "java"
  /\ flight = None
  /\ side' = "js"
  /\ depth' \in {depth, depth + 1}
  /\ UNCHANGED <<flight, cause, home, outlived>>

EnterCallback ==
  /\ side = "js"
  /\ flight = None
  /\ side' = "java"
  /\ UNCHANGED <<depth, flight, cause, home, outlived>>

\* The Error thrown for a Java exception carries it.
CarryIn ==
  /\ side = "java"
  /\ flight # None
  /\ side' = "js"
  /\ flight' \in Error
  /\ cause' = [cause EXCEPT ![flight'] = flight]
  /\ home' = [home EXCEPT ![flight'] = depth]
  /\ outlived' = outlived \ {flight'}
  /\ UNCHANGED depth

\* The end of a native call: it takes the Errors made in it along.
Ended ==
  /\ side = "js"
  /\ side' = "java"
  /\ depth > 0
  /\ depth' = depth - 1
  /\ outlived' = outlived \cup {e \in Error : home[e] = depth}
  /\ cause' = [e \in Error |-> IF home[e] = depth THEN Plain(None) ELSE cause[e]]
  /\ home' = [e \in Error |-> IF home[e] = depth THEN 0 ELSE home[e]]

\* Without an exception of the script Java gets none, or one that no callback caused.
Return ==
  /\ flight = None
  /\ flight' \in {None, Wrap(Plain(None)), Wrap(Plain(Unknown))}
  /\ Ended

CarryOut ==
  /\ flight # None
  /\ \/ flight \in Error \ outlived /\ flight' = Wrap(cause[flight])
     \/ flight \in outlived \cup {Nothing} /\ \E t \in Throwable : flight' = Wrap(t)
  /\ Ended

Next ==
  \/ JavaThrows
  \/ ScriptThrows
  \/ Catch
  \/ EnterScript
  \/ EnterCallback
  \/ CarryIn
  \/ Return
  \/ CarryOut

Spec == Init /\ [][Next]_vars
=============================================================================
