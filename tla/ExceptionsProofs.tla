-------------------------- MODULE ExceptionsProofs --------------------------
(***************************************************************************)
(* That Exceptions keeps its invariant and implements Passage, for any     *)
(* number of exceptions, Errors and local references and any depth of      *)
(* nested calls.                                                           *)
(***************************************************************************)
EXTENDS Exceptions, TLAPS

USE ThrowableAssumption, ExceptionsAssumption

\* Wrapping stays within the bound for what the border keeps.
LEMMA WrapType ==
  ASSUME NEW t \in Throwable, t.wraps < MaxWraps
  PROVE  Wrap(t) \in Throwable
  BY DEF Wrap, Throwable

LEMMA PlainType ==
  ASSUME NEW x \in Exc \cup {None, Unknown}
  PROVE  /\ Plain(x) \in Throwable
         /\ Plain(x).wraps < MaxWraps
  BY DEF Plain, Throwable

\* The cause is always something a throwable can have for a cause.
LEMMA CauseType ==
  ASSUME IInv, NEW v \in Error \cup {Nothing}
  PROVE  /\ CauseOf(v) \in Throwable
         /\ CauseOf(v).wraps < MaxWraps
  <1>1. CASE v = Nothing
    BY <1>1, PlainType DEF CauseOf
  <1>2. CASE v # Nothing /\ native[v] = None
    BY <1>2, PlainType DEF CauseOf
  <1>3. CASE v # Nothing /\ native[v] # None
    <2>1. native[v] \in Local
      BY <1>3 DEF IInv, TypeOK
    <2>2. CauseOf(v) = IF table[native[v]] = None THEN Plain(Unknown) ELSE table[native[v]]
      BY <1>3 DEF CauseOf
    <2> QED
      BY <2>1, <2>2, PlainType DEF IInv, TypeOK
  <1> QED
    BY <1>1, <1>2, <1>3

LEMMA InitIInv == Init => IInv
  BY DEF Init, IInv, TypeOK, ReferencesValid

\* The end of a native call, whatever is thrown at it.
LEMMA LeaveIInv ==
  ASSUME IInv, side = "js", Leave, flight' \in Throwable \cup {None}
  PROVE  IInv'
  <1>1. depth \in 1 .. MaxDepth
    BY DEF IInv, TypeOK
  <1>2. TypeOK'
    BY <1>1 DEF IInv, TypeOK, Leave, InFrame
  <1>3. ReferencesValid'
    <2> SUFFICES ASSUME NEW e \in Error, native'[e] # None, e \notin stale'
                 PROVE  /\ table'[native[e]] # None
                        /\ frame[native[e]] \in 1 .. depth'
      BY DEF ReferencesValid, Leave
    <2>1. native[e] \in Local /\ native[e] # None
      BY DEF IInv, TypeOK, Leave
    <2>2. e \notin stale /\ native[e] \notin InFrame(depth)
      BY DEF Leave
    <2>3. table[native[e]] # None /\ frame[native[e]] \in 1 .. depth
      BY <2>1, <2>2 DEF IInv, ReferencesValid
    <2>4. frame[native[e]] # depth
      BY <2>1, <2>2, <2>3 DEF InFrame
    <2>5. table'[native[e]] = table[native[e]]
      BY <2>1, <2>2 DEF Leave
    <2> QED
      BY <1>1, <2>3, <2>4, <2>5 DEF Leave
  <1>4. \A l \in Local : table'[l] # None => table'[l].wraps < MaxWraps
    BY DEF IInv, Leave
  <1>5. side' = "java"
    BY DEF Leave
  <1> QED
    BY <1>2, <1>3, <1>4, <1>5 DEF IInv

\* The steps that leave the local references and the Errors alone.
LEMMA QuietIInv ==
  ASSUME IInv,
         UNCHANGED <<tableVars, native, stale>>,
         depth' \in depth .. MaxDepth,
         side' \in {"java", "js"},
         side' = "js" => depth' > 0,
         flight' \in (IF side' = "java" THEN Throwable ELSE Error \cup {Nothing}) \cup {None},
         kept' \subseteq Error
  PROVE  IInv'
  <1>1. TypeOK'
    BY DEF IInv, TypeOK, tableVars
  <1>2. ReferencesValid'
    BY DEF IInv, TypeOK, ReferencesValid, tableVars
  <1> QED
    BY <1>1, <1>2 DEF IInv, tableVars

LEMMA CallbackThrowsIInv ==
  ASSUME IInv, NEW e \in Error, NEW l \in Local, CallbackThrows(e, l)
  PROVE  IInv'
  <1> USE DEF CallbackThrows
  <1>1. flight \in Throwable /\ flight.wraps < MaxWraps /\ depth \in 1 .. MaxDepth
    BY DEF IInv, TypeOK
  <1>2. TypeOK'
    BY <1>1 DEF IInv, TypeOK
  <1>3. ReferencesValid'
    <2> SUFFICES ASSUME NEW f \in Error, native'[f] # None, f \notin stale'
                 PROVE  /\ table'[native'[f]] # None
                        /\ frame'[native'[f]] \in 1 .. depth'
      BY DEF ReferencesValid
    <2>1. CASE f = e
      <3>1. native'[f] = l
        BY <2>1 DEF IInv, TypeOK
      <3>2. table'[l] = flight /\ frame'[l] = depth
        BY DEF IInv, TypeOK
      <3> QED
        BY <1>1, <3>1, <3>2
    <2>2. CASE f # e
      <3>1. native'[f] = native[f] /\ f \notin stale
        BY <2>2 DEF IInv, TypeOK
      <3>2. table[native[f]] # None /\ frame[native[f]] \in 1 .. depth
        BY <3>1 DEF IInv, ReferencesValid
      <3>3. native[f] \in Local /\ native[f] # l
        BY <3>1, <3>2 DEF IInv, TypeOK
      <3> QED
        BY <3>1, <3>2, <3>3 DEF IInv, TypeOK
    <2> QED
      BY <2>1, <2>2
  <1>4. \A m \in Local : table'[m] # None => table'[m].wraps < MaxWraps
    BY <1>1 DEF IInv, TypeOK
  <1> QED
    BY <1>1, <1>2, <1>3, <1>4 DEF IInv

LEMMA ThrowsNewIInv ==
  ASSUME IInv, NEW e \in Error, ScriptThrowsNew(e)
  PROVE  IInv'
  <1>1. TypeOK'
    BY DEF IInv, TypeOK, ScriptThrowsNew, tableVars
  <1>2. ReferencesValid'
    BY DEF IInv, TypeOK, ReferencesValid, ScriptThrowsNew, tableVars
  <1> QED
    BY <1>1, <1>2 DEF IInv, ScriptThrowsNew, tableVars

LEMMA StepIInv == IInv /\ [Next]_vars => IInv'
  <1> SUFFICES ASSUME IInv, [Next]_vars PROVE IInv'
    OBVIOUS
  <1>0. TypeOK /\ (side = "js" => depth > 0)
    BY DEF IInv
  <1>1. CASE CallNative
    BY <1>0, <1>1, QuietIInv DEF CallNative, TypeOK
  <1>2. ASSUME NEW x \in Exc, JavaThrows(x) PROVE IInv'
    BY <1>0, <1>2, QuietIInv, PlainType DEF JavaThrows, TypeOK
  <1>3. CASE JavaCatches
    BY <1>0, <1>3, QuietIInv DEF JavaCatches, TypeOK
  <1>4. CASE ScriptCallsCallback
    BY <1>0, <1>4, QuietIInv DEF ScriptCallsCallback, TypeOK
  <1>5. ASSUME NEW e \in Error, ScriptThrowsNew(e) PROVE IInv'
    BY <1>5, ThrowsNewIInv
  <1>6. ASSUME NEW v \in Error \cup {Nothing}, ScriptThrowsKept(v) PROVE IInv'
    BY <1>0, <1>6, QuietIInv DEF ScriptThrowsKept, TypeOK
  <1>7. ASSUME NEW K \in SUBSET Error, ScriptCatches(K) PROVE IInv'
    BY <1>0, <1>7, QuietIInv DEF ScriptCatches, TypeOK
  <1>8. ASSUME NEW e \in Error, ScriptDrops(e) PROVE IInv'
    BY <1>0, <1>8, QuietIInv DEF ScriptDrops, TypeOK
  <1>9. CASE CallbackReturns
    BY <1>0, <1>9, QuietIInv DEF CallbackReturns, TypeOK
  <1>10. ASSUME NEW e \in Error, NEW l \in Local, CallbackThrows(e, l) PROVE IInv'
    BY <1>10, CallbackThrowsIInv
  <1>11. CASE ScriptReturns
    BY <1>11, LeaveIInv DEF ScriptReturns
  <1>12. CASE CompilationFails
    BY <1>12, LeaveIInv, PlainType, WrapType DEF CompilationFails
  <1>13. CASE ScriptFails
    <2>1. flight \in Error \cup {Nothing}
      BY <1>0, <1>13 DEF ScriptFails, TypeOK
    <2> QED
      BY <1>13, <2>1, CauseType, WrapType, LeaveIInv DEF ScriptFails
  <1>14. CASE ScriptYieldsNothing
    BY <1>14, LeaveIInv, PlainType, WrapType DEF ScriptYieldsNothing
  <1>15. CASE UNCHANGED vars
    BY <1>15 DEF vars, tableVars, IInv, TypeOK, ReferencesValid
  <1> QED
    BY <1>1, <1>2, <1>3, <1>4, <1>5, <1>6, <1>7, <1>8, <1>9, <1>10, <1>11, <1>12, <1>13,
       <1>14, <1>15 DEF Next

\* The inductive invariant holds in every reachable state.
THEOREM ExceptionInvariance == Spec => []IInv
  BY InitIInv, StepIInv, PTL DEF Spec

\* The state is well typed: nothing is thrown on the side that does not run.
THEOREM ExceptionsTypeCorrect == Spec => []TypeOK
  <1>1. IInv => TypeOK
    BY DEF IInv
  <1> QED
    BY <1>1, ExceptionInvariance, PTL

\* While the call in which a callback threw is in progress, the pointer in the Error made of its
\* exception is valid.
THEOREM ReferencesAreValid == Spec => []ReferencesValid
  <1>1. IInv => ReferencesValid
    BY DEF IInv
  <1> QED
    BY <1>1, ExceptionInvariance, PTL

----------------------------------------------------------------------------
(* The refinement.  Home and Cause are the mapping of Exceptions!Carried.  *)

Home == [e \in Error |-> IF native[e] = None \/ e \in stale THEN 0 ELSE frame[native[e]]]

Cause ==
  [e \in Error |->
     IF native[e] = None \/ e \in stale THEN Plain(None) ELSE table[native[e]]]

LEMMA MappingsAreFunctions ==
  /\ Cause = [y \in Error |-> Cause[y]] /\ Cause' = [y \in Error |-> Cause'[y]]
  /\ Home = [y \in Error |-> Home[y]] /\ Home' = [y \in Error |-> Home'[y]]
  BY DEF Cause, Home

LEMMA SameWrap ==
  /\ \A x : Carried!Plain(x) = Plain(x)
  /\ \A t : Carried!Wrap(t) = Wrap(t)
  /\ Carried!Throwable = Throwable
  BY DEF Carried!Plain, Carried!Wrap, Carried!Throwable, Plain, Wrap, Throwable

\* EXCEPT, point by point.
LEMMA ExceptAt ==
  ASSUME NEW S, NEW f, NEW g, NEW e \in S, NEW x,
         f = [y \in S |-> f[y]], g = [y \in S |-> g[y]],
         \A y \in S : g[y] = IF y = e THEN x ELSE f[y]
  PROVE  g = [f EXCEPT ![e] = x]
  <1> DEFINE h == [f EXCEPT ![e] = x]
  <1>1. h = [y \in S |-> h[y]] /\ \A y \in S : h[y] = IF y = e THEN x ELSE f[y]
    OBVIOUS
  <1> QED
    BY <1>1

\* A step that leaves the references, the Errors and the ghost alone leaves the mapping alone.
LEMMA QuietMapping ==
  ASSUME UNCHANGED <<tableVars, native, stale>>
  PROVE  UNCHANGED <<Cause, Home, stale>>
  BY DEF Cause, Home, tableVars

LEMMA InitRefines == Init => Carried!Init
  BY SameWrap DEF Init, Carried!Init

\* The end of a native call takes along the Errors of that call and no others.
LEMMA LeaveRefines ==
  ASSUME IInv, side = "js", Leave
  PROVE  Carried!Ended
  <1>1. depth \in 1 .. MaxDepth
    BY DEF IInv, TypeOK
  <1>2. \A e \in Error : Home[e] = depth <=>
          (native[e] # None /\ e \notin stale /\ frame[native[e]] = depth)
    BY <1>1 DEF Home
  <1>3. \A e \in Error : native[e] # None /\ e \notin stale =>
          native[e] \in Local /\ table[native[e]] # None
    BY DEF IInv, TypeOK, ReferencesValid
  <1>4. None \notin InFrame(depth)
    BY DEF InFrame
  <1>5. \A e \in Error : Home[e] = depth <=> (e \notin stale /\ native[e] \in InFrame(depth))
    BY <1>2, <1>3, <1>4 DEF InFrame
  <1>6. stale' = stale \cup {e \in Error : Home[e] = depth}
    BY <1>5 DEF Leave
  <1>7. \A e \in Error : e \in stale' <=> (e \in stale \/ Home[e] = depth)
    BY <1>6
  <1>8. Cause' = [e \in Error |-> IF Home[e] = depth THEN Plain(None) ELSE Cause[e]]
    <2> SUFFICES ASSUME NEW e \in Error
                 PROVE  Cause'[e] = (IF Home[e] = depth THEN Plain(None) ELSE Cause[e])
      BY DEF Cause
    <2>1. CASE native[e] = None \/ e \in stale'
      BY <1>7, <2>1 DEF Cause, Leave
    <2>2. CASE ~(native[e] = None \/ e \in stale')
      <3>1. e \notin stale /\ Home[e] # depth /\ native[e] \in Local \ InFrame(depth)
        BY <1>3, <1>5, <1>7, <2>2
      <3>2. table'[native[e]] = table[native[e]]
        BY <3>1 DEF Leave
      <3> QED
        BY <2>2, <3>1, <3>2 DEF Cause, Leave
    <2> QED
      BY <2>1, <2>2
  <1>9. Home' = [e \in Error |-> IF Home[e] = depth THEN 0 ELSE Home[e]]
    <2> SUFFICES ASSUME NEW e \in Error
                 PROVE  Home'[e] = (IF Home[e] = depth THEN 0 ELSE Home[e])
      BY DEF Home
    <2>1. CASE native[e] = None \/ e \in stale'
      BY <1>7, <2>1 DEF Home, Leave
    <2>2. CASE ~(native[e] = None \/ e \in stale')
      BY <1>7, <2>2 DEF Home, Leave
    <2> QED
      BY <2>1, <2>2
  <1>10. side' = "java" /\ depth' = depth - 1
    BY DEF Leave
  <1> QED
    BY <1>1, <1>6, <1>8, <1>9, <1>10, SameWrap DEF Carried!Ended, Home, Cause

\* The Error of a callback carries what the callback threw.
LEMMA CallbackThrowsRefines ==
  ASSUME IInv, NEW e \in Error, NEW l \in Local, CallbackThrows(e, l)
  PROVE  Carried!CarryIn
  <1> USE DEF CallbackThrows
  <1>1. flight \in Throwable /\ depth \in 1 .. MaxDepth
    BY DEF IInv, TypeOK
  <1>2. \A f \in Error \ {e} : native[f] # None /\ f \notin stale => native[f] \in Local \ {l}
    BY DEF IInv, TypeOK, ReferencesValid
  <1>3. \A f \in Error : native'[f] = IF f = e THEN l ELSE native[f]
    BY DEF IInv, TypeOK
  <1>4. \A m \in Local : /\ table'[m] = IF m = l THEN flight ELSE table[m]
                         /\ frame'[m] = IF m = l THEN depth ELSE frame[m]
    BY DEF IInv, TypeOK
  <1>5. Cause' = [Cause EXCEPT ![e] = flight]
    <2> SUFFICES ASSUME NEW f \in Error
                 PROVE  Cause'[f] = IF f = e THEN flight ELSE Cause[f]
      BY ExceptAt, MappingsAreFunctions
    <2>1. CASE f = e
      BY <1>3, <1>4, <2>1 DEF Cause
    <2>2. CASE f # e
      BY <1>2, <1>3, <1>4, <2>2 DEF Cause
    <2> QED
      BY <2>1, <2>2
  <1>6. Home' = [Home EXCEPT ![e] = depth]
    <2> SUFFICES ASSUME NEW f \in Error
                 PROVE  Home'[f] = IF f = e THEN depth ELSE Home[f]
      BY ExceptAt, MappingsAreFunctions
    <2>1. CASE f = e
      BY <1>3, <1>4, <2>1 DEF Home
    <2>2. CASE f # e
      BY <1>2, <1>3, <1>4, <2>2 DEF Home
    <2> QED
      BY <2>1, <2>2
  <1> QED
    BY <1>5, <1>6, SameWrap DEF Carried!CarryIn, Cause, Home

LEMMA ThrowsNewRefines ==
  ASSUME IInv, NEW e \in Error, ScriptThrowsNew(e)
  PROVE  Carried!ScriptThrows
  <1> USE DEF ScriptThrowsNew, tableVars
  <1>1. \A f \in Error : native'[f] = IF f = e THEN None ELSE native[f]
    BY DEF IInv, TypeOK
  <1>2. Cause' = [Cause EXCEPT ![e] = Plain(None)]
    <2>1. \A f \in Error : Cause'[f] = IF f = e THEN Plain(None) ELSE Cause[f]
      BY <1>1 DEF Cause
    <2> QED
      BY <2>1, ExceptAt, MappingsAreFunctions
  <1>3. Home' = [Home EXCEPT ![e] = 0]
    <2>1. \A f \in Error : Home'[f] = IF f = e THEN 0 ELSE Home[f]
      BY <1>1 DEF Home
    <2> QED
      BY <2>1, ExceptAt, MappingsAreFunctions
  <1> QED
    BY <1>2, <1>3, SameWrap DEF Carried!ScriptThrows, Cause, Home

\* What reaches Java is caused by what the Error carries.
LEMMA ScriptFailsRefines ==
  ASSUME IInv, ScriptFails
  PROVE  Carried!CarryOut
  <1>1. flight \in Error \cup {Nothing} /\ side = "js" /\ Leave /\ flight # None
    BY DEF ScriptFails, IInv, TypeOK
  <1>2. Carried!Ended
    BY <1>1, LeaveRefines
  <1>3. CASE flight \in Error \ stale
    <2>1. CASE native[flight] = None
      <3>1. Cause[flight] = Plain(None) /\ CauseOf(flight) = Plain(None)
        BY <1>3, <2>1 DEF Cause, CauseOf
      <3> QED
        BY <1>1, <1>2, <1>3, <3>1, SameWrap DEF Carried!CarryOut, ScriptFails, Cause
    <2>2. CASE native[flight] # None
      <3>1. table[native[flight]] # None
        BY <1>3, <2>2 DEF IInv, ReferencesValid
      <3>2. Cause[flight] = table[native[flight]] /\ CauseOf(flight) = table[native[flight]]
        BY <1>3, <2>2, <3>1 DEF Cause, CauseOf
      <3> QED
        BY <1>1, <1>2, <1>3, <3>2, SameWrap DEF Carried!CarryOut, ScriptFails, Cause
    <2> QED
      BY <2>1, <2>2
  <1>4. CASE flight \in stale \cup {Nothing}
    <2>1. CauseOf(flight) \in Throwable
      BY <1>1, CauseType
    <2> QED
      BY <1>1, <1>2, <1>4, <2>1, SameWrap DEF Carried!CarryOut, ScriptFails
  <1> QED
    BY <1>1, <1>3, <1>4

LEMMA StepRefines == IInv /\ [Next]_vars => [Carried!Next]_Carried!vars
  <1> SUFFICES ASSUME IInv, [Next]_vars PROVE Carried!Next \/ UNCHANGED Carried!vars
    OBVIOUS
  <1> USE DEF Carried!Next
  <1>1. CASE CallNative
    BY <1>1, QuietMapping DEF CallNative, IInv, TypeOK, Carried!EnterScript, Cause, Home
  <1>2. ASSUME NEW x \in Exc, JavaThrows(x) PROVE Carried!Next
    BY <1>2, QuietMapping, SameWrap DEF JavaThrows, Carried!JavaThrows, Cause, Home
  <1>3. CASE JavaCatches
    BY <1>3, QuietMapping DEF JavaCatches, Carried!Catch, Cause, Home
  <1>4. CASE ScriptCallsCallback
    BY <1>4, QuietMapping DEF ScriptCallsCallback, Carried!EnterCallback, Cause, Home
  <1>5. ASSUME NEW e \in Error, ScriptThrowsNew(e) PROVE Carried!Next
    BY <1>5, ThrowsNewRefines
  <1>6. ASSUME NEW v \in Error \cup {Nothing}, ScriptThrowsKept(v) PROVE Carried!Next
    BY <1>6, QuietMapping DEF ScriptThrowsKept, Carried!ScriptThrows, Cause, Home, IInv, TypeOK
  <1>7. ASSUME NEW K \in SUBSET Error, ScriptCatches(K) PROVE Carried!Next
    BY <1>7, QuietMapping DEF ScriptCatches, Carried!Catch, Cause, Home
  <1>8. ASSUME NEW e \in Error, ScriptDrops(e) PROVE UNCHANGED Carried!vars
    BY <1>8, QuietMapping DEF ScriptDrops, Carried!vars, Cause, Home
  <1>9. CASE CallbackReturns
    BY <1>9, QuietMapping DEF CallbackReturns, IInv, TypeOK, Carried!EnterScript, Cause, Home
  <1>10. ASSUME NEW e \in Error, NEW l \in Local, CallbackThrows(e, l) PROVE Carried!Next
    BY <1>10, CallbackThrowsRefines
  <1>11. CASE ScriptReturns
    BY <1>11, LeaveRefines DEF ScriptReturns, Carried!Return
  <1>12. CASE CompilationFails
    BY <1>12, LeaveRefines, SameWrap DEF CompilationFails, Carried!Return
  <1>13. CASE ScriptFails
    BY <1>13, ScriptFailsRefines
  <1>14. CASE ScriptYieldsNothing
    BY <1>14, LeaveRefines, SameWrap DEF ScriptYieldsNothing, Carried!Return
  <1>15. CASE UNCHANGED vars
    BY <1>15, QuietMapping DEF vars, tableVars, Carried!vars, Cause, Home
  <1> QED
    BY <1>1, <1>2, <1>3, <1>4, <1>5, <1>6, <1>7, <1>8, <1>9, <1>10, <1>11, <1>12, <1>13,
       <1>14, <1>15 DEF Next

\* The border passes exceptions as Passage promises: what a callback threw is the cause of what
\* reaches Java, through any depth of calls, as long as its Error stays within its native call.
THEOREM BorderImplementsPassage == Spec => PassageKept
  BY InitRefines, StepRefines, ExceptionInvariance, PTL DEF Spec, PassageKept, Carried!Spec
=============================================================================
