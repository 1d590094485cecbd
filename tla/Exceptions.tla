----------------------------- MODULE Exceptions -----------------------------
(***************************************************************************)
(* Exceptions that cross the border between Java and JavaScript.  What a   *)
(* Java callback throws is cleared from the JNI environment and thrown in  *)
(* JavaScript as an Error, of which the property _nativeException is an    *)
(* External that holds the JNI LOCAL reference to the throwable.  What     *)
(* JavaScript does not catch is thrown in Java as an ExecutionException,   *)
(* with the throwable of that local reference as its cause.  A local       *)
(* reference lives as long as the native call in which it was made; the    *)
(* Error may be kept by the script for longer.                             *)
(*                                                                         *)
(* Java and JavaScript call each other on one stack: V8.lock lets no other *)
(* thread in.  A native call is executeScript, an invocation, a property   *)
(* or a date conversion, all of which run JavaScript under a TryCatch.     *)
(***************************************************************************)
EXTENDS Throwables

CONSTANTS
  Error,     \* JavaScript Error objects
  Local,     \* slots of the table of JNI local references
  Nothing,   \* a thrown JavaScript null or undefined
  MaxDepth   \* bound: native calls in progress at once

ASSUME ExceptionsAssumption ==
  /\ MaxDepth \in Nat \ {0}
  /\ None \notin Local \cup Error \cup {Nothing}
  /\ Nothing \notin Error

VARIABLES
  depth,    \* native calls in progress
  side,     \* which side runs
  flight,   \* what is being thrown on that side, None when nothing is
  table,    \* the throwable each local reference designates, None when it is free
  frame,    \* the native call a local reference was made in
  native,   \* the local reference in each Error's _nativeException, None without one
  kept,     \* the Errors the script keeps
  stale     \* ghost: the Errors whose native call has returned

tableVars == <<table, frame>>
vars == <<depth, side, flight, tableVars, native, kept, stale>>

\* Type invariant: no Java exception is pending in the JNI environment while JavaScript runs,
\* nor is a JavaScript value being thrown while Java runs.
TypeOK ==
  /\ depth \in 0 .. MaxDepth
  /\ side \in {"java", "js"}
  /\ flight \in (IF side = "java" THEN Throwable ELSE Error \cup {Nothing}) \cup {None}
  /\ table \in [Local -> Throwable \cup {None}]
  /\ frame \in [Local -> 0 .. MaxDepth]
  /\ native \in [Error -> Local \cup {None}]
  /\ kept \subseteq Error
  /\ stale \subseteq Error

Init ==
  /\ depth = 0
  /\ side = "java"
  /\ flight = None
  /\ table = [l \in Local |-> None]
  /\ frame = [l \in Local |-> 0]
  /\ native = [e \in Error |-> None]
  /\ kept = {}
  /\ stale = {}

----------------------------------------------------------------------------
\* The application.

\* A native call: the JVM opens a frame of local references.
CallNative ==
  /\ side = "java"
  /\ flight = None
  /\ depth < MaxDepth
  /\ depth' = depth + 1
  /\ side' = "js"
  /\ UNCHANGED <<flight, tableVars, native, kept, stale>>

\* The code of a callback throws an exception of its own.
JavaThrows(x) ==
  /\ side = "java"
  /\ depth > 0
  /\ flight = None
  /\ flight' = Plain(x)
  /\ UNCHANGED <<depth, side, tableVars, native, kept, stale>>

\* The application catches what a native call threw.  (Where it does not, inside a callback,
\* the callback throws it: CallbackThrows.)
JavaCatches ==
  /\ side = "java"
  /\ flight # None
  /\ flight' = None
  /\ UNCHANGED <<depth, side, tableVars, native, kept, stale>>

----------------------------------------------------------------------------
\* The script.

ScriptCallsCallback ==
  /\ side = "js"
  /\ flight = None
  /\ side' = "java"
  /\ UNCHANGED <<depth, flight, tableVars, native, kept, stale>>

\* throw of an Error of the script's own, of null, or of an Error it kept.
ScriptThrowsNew(e) ==
  /\ side = "js"
  /\ flight = None
  /\ e \notin kept
  /\ flight' = e
  /\ native' = [native EXCEPT ![e] = None]
  /\ stale' = stale \ {e}
  /\ UNCHANGED <<depth, side, tableVars, kept>>

ScriptThrowsKept(v) ==
  /\ side = "js"
  /\ flight = None
  /\ v \in kept \cup {Nothing}
  /\ flight' = v
  /\ UNCHANGED <<depth, side, tableVars, native, kept, stale>>

\* A catch or finally block, which may keep the Error.
ScriptCatches(K) ==
  /\ side = "js"
  /\ flight # None
  /\ flight' = None
  /\ kept' = K
  /\ K \in {kept, kept \cup ({flight} \cap Error)}
  /\ UNCHANGED <<depth, side, tableVars, native, stale>>

ScriptDrops(e) ==
  /\ side = "js"
  /\ e \in kept
  /\ kept' = kept \ {e}
  /\ UNCHANGED <<depth, side, flight, tableVars, native, stale>>

----------------------------------------------------------------------------
\* The border.

\* The trampoline returns the callback's result to the script.
CallbackReturns ==
  /\ side = "java"
  /\ depth > 0
  /\ flight = None
  /\ side' = "js"
  /\ UNCHANGED <<depth, flight, tableVars, native, kept, stale>>

\* Mutant: the local reference is deleted like all the others of the trampoline.
CallbackThrowsDeletesLocal(e, l) ==
  /\ side = "java"
  /\ depth > 0
  /\ flight # None
  /\ flight.wraps < MaxWraps
  /\ e \notin kept
  /\ table[l] = None
  /\ frame' = [frame EXCEPT ![l] = depth]
  /\ native' = [native EXCEPT ![e] = l]
  /\ stale' = stale \ {e}
  /\ flight' = e
  /\ side' = "js"
  /\ UNCHANGED <<depth, table, kept>>

\* ExceptionOccurred makes a local reference, ExceptionClear ends the throwable's flight in
\* Java, throwJNIExceptionInJS throws an Error that keeps the reference as a bare pointer.
\* Nothing deletes the reference before the native call returns.
CallbackThrows(e, l) ==
  /\ side = "java"
  /\ depth > 0
  /\ flight # None
  /\ flight.wraps < MaxWraps
  /\ e \notin kept
  /\ table[l] = None
  /\ table' = [table EXCEPT ![l] = flight]
  /\ frame' = [frame EXCEPT ![l] = depth]
  /\ native' = [native EXCEPT ![e] = l]
  /\ stale' = stale \ {e}
  /\ flight' = e
  /\ side' = "js"
  /\ UNCHANGED <<depth, kept>>

\* Mutant: the return of a nested call frees the references of the calls around it too.
InAnyFrame(d) == {l \in Local : table[l] # None}

\* The local references made in the native call number d.
InFrame(d) == {l \in Local : table[l] # None /\ frame[l] = d}

\* The end of a native call: the JVM frees its local references.
Leave ==
  /\ depth' = depth - 1
  /\ side' = "java"
  /\ table' = [l \in Local |-> IF l \in InFrame(depth) THEN None ELSE table[l]]
  /\ stale' = stale \cup {e \in Error : native[e] \in InFrame(depth)}
  /\ UNCHANGED <<frame, native, kept>>

ScriptReturns ==
  /\ side = "js"
  /\ flight = None
  /\ flight' = None
  /\ Leave

\* Mutant: executeScript goes on although compileScript threw.
CompilationFailsGoesOn ==
  /\ side = "js"
  /\ flight = None
  /\ flight' = Wrap(Plain(None))
  /\ UNCHANGED <<depth, side, tableVars, native, kept, stale>>

\* compileScript: the exception has no cause.
CompilationFails ==
  /\ side = "js"
  /\ flight = None
  /\ flight' = Wrap(Plain(None))
  /\ Leave

\* What throwExecutionException takes for the cause when v was thrown: the throwable of the
\* reference in _nativeException; a null pointer when v has no such property.  A freed
\* reference designates anything; and when the property cannot be read, as on null, the
\* constructor of two arguments is given the message alone, and takes anything for the cause.
CauseOf(v) ==
  CASE v = Nothing -> Plain(Unknown)
    [] v # Nothing /\ native[v] = None -> Plain(None)
    [] v # Nothing /\ native[v] # None ->
         IF table[native[v]] = None THEN Plain(Unknown) ELSE table[native[v]]

\* The TryCatch of the native call has caught what the script threw.
ScriptFails ==
  /\ side = "js"
  /\ flight # None
  /\ flight' = Wrap(CauseOf(flight))
  /\ Leave

\* Nothing was caught and there is no result either, which V8 allows for an exception pending
\* from before: the constructor of two arguments is given the message alone here too.
ScriptYieldsNothing ==
  /\ side = "js"
  /\ flight = None
  /\ flight' = Wrap(Plain(Unknown))
  /\ Leave

Next ==
  \/ CallNative
  \/ \E x \in Exc : JavaThrows(x)
  \/ JavaCatches
  \/ ScriptCallsCallback
  \/ \E e \in Error : ScriptThrowsNew(e)
  \/ \E v \in Error \cup {Nothing} : ScriptThrowsKept(v)
  \/ \E K \in SUBSET Error : ScriptCatches(K)
  \/ \E e \in Error : ScriptDrops(e)
  \/ CallbackReturns
  \/ \E e \in Error, l \in Local : CallbackThrows(e, l)
  \/ ScriptReturns
  \/ CompilationFails
  \/ ScriptFails
  \/ ScriptYieldsNothing

Spec == Init /\ [][Next]_vars

----------------------------------------------------------------------------
\* Properties.

\* As long as the native call in which a callback threw is in progress, nested calls and
\* their returns included, the pointer in its Error is a valid local reference of that call.
ReferencesValid ==
  \A e \in Error : native[e] # None /\ e \notin stale =>
    /\ table[native[e]] # None
    /\ frame[native[e]] \in 1 .. depth

\* The inductive invariant of ExceptionsProofs adds that JavaScript runs in a native call only,
\* and the bound on what is kept.
IInv ==
  /\ TypeOK
  /\ ReferencesValid
  /\ side = "js" => depth > 0
  /\ \A l \in Local : table[l] # None => table[l].wraps < MaxWraps

\* The abstract passage, in which an Error carries the throwable itself: what Java gets has
\* the throwable of the callback as its cause, except for an Error that outlived its call.
Carried ==
  INSTANCE Passage WITH
    home <- [e \in Error |->
               IF native[e] = None \/ e \in stale THEN 0 ELSE frame[native[e]]],
    cause <- [e \in Error |->
                IF native[e] = None \/ e \in stale THEN Plain(None) ELSE table[native[e]]],
    outlived <- stale

PassageKept == Carried!Spec
=============================================================================
