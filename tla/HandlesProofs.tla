--------------------------- MODULE HandlesProofs ---------------------------
(***************************************************************************)
(* Proofs about Handles: its inductive invariant, and the properties that  *)
(* follow from it for every set of References, addresses, data, Java       *)
(* objects and kinds of value.                                             *)
(***************************************************************************)
EXTENDS Handles, TLAPS

USE KindAssumption, NoneAssumption, DataAssumption

\* Data keeps its entries in caches only.
LEMMA CachesOfNames == \A k : CachesOf(k) \subseteq CacheName
BY DEF CachesOf, CacheName

\* The initial state satisfies the invariant.
LEMMA InitInv == Init => IInv
BY DEF Init, IInv, TypeOK, HandleOwnedOnce, FinalizerSafe, CacheMatchesHandle,
       CacheEntryBacked, Bookkeeping, RefState, CacheName, Unreleased, Value

\* A step that leaves every variable alone preserves the invariant.
LEMMA StutterInv == IInv /\ UNCHANGED vars => IInv'
BY DEF IInv, TypeOK, HandleOwnedOnce, FinalizerSafe, CacheMatchesHandle,
       CacheEntryBacked, Bookkeeping, Unreleased, CacheName, vars, refVars, handleVars,
       dataVars, cacheVars, frameVars

\* A new handle and Reference: the address had no owner, so it has one now.
LEMMA NewReferenceInv ==
  ASSUME IInv,
         NEW r \in Ref, NEW a \in Addr, NEW v \in Value \cup {None},
         NEW state \in {"fresh", "held"},
         NewReference(r, a, v, state),
         UNCHANGED <<dataVars, cacheVars, phase>>,
         jsHeld' = jsHeld,
         framePc' \in {"idle", "java"} \/ UNCHANGED frameVars,
         framePc' \in {"idle", "java", "result"},
         frameFun' \in Data \cup {None}, frameRef' \in Ref \cup {None}
  PROVE  IInv'
<1> USE DEF NewReference, IInv
<1>1. refState[r] \notin {"fresh", "held", "lost"}
  BY DEF FreshRef
<1>2. TypeOK'
  BY DEF TypeOK, RefState, dataVars, cacheVars
<1>3. HandleOwnedOnce'
  <2>1. \A s \in Ref : Unreleased(s)' <=> (Unreleased(s) \/ s = r)
    BY <1>1 DEF Unreleased, TypeOK
  <2>2. \A s \in Ref : Unreleased(s) => refHandle'[s] = refHandle[s] /\ refHandle[s] # a
    BY <1>1 DEF Unreleased, TypeOK, HandleOwnedOnce
  <2>3. refHandle'[r] = a
    BY DEF TypeOK
  <2> QED
    BY <2>1, <2>2, <2>3 DEF HandleOwnedOnce
<1>4. hParam[a] = None /\ hParam' = hParam
  BY DEF FinalizerSafe, TypeOK
<1>5. FinalizerSafe'
  BY <1>4 DEF FinalizerSafe, TypeOK, dataVars
<1>6. CacheMatchesHandle'
  BY <1>4 DEF CacheMatchesHandle, dataVars, cacheVars
<1>7. CacheEntryBacked'
  BY DEF CacheEntryBacked, dataVars, cacheVars
<1>8. Bookkeeping'
  BY <1>4 DEF Bookkeeping, TypeOK, frameVars, dataVars
<1> QED
  BY <1>2, <1>3, <1>5, <1>6, <1>7, <1>8

\* The first critical section of createNewReference preserves the invariant.
LEMMA NewValueInv ==
  ASSUME IInv, NEW r \in Ref, NEW a \in Addr, NewValue(r, a)
  PROVE  IInv'
BY NewReferenceInv DEF NewValue, frameVars, IInv, TypeOK

\* The handle of a fresh Reference is strong, so filling it disturbs no finalizer.
LEMMA InitValueInv ==
  ASSUME IInv, NEW r \in Ref, NEW k \in Kind, InitValue(r, k)
  PROVE  IInv'
<1> USE DEF InitValue, IInv
<1>1. \A s \in Ref : Unreleased(s)' <=> Unreleased(s)
  BY DEF Unreleased, TypeOK
<1>2. TypeOK'
  BY DEF TypeOK, RefState, Value, dataVars, cacheVars, frameVars
<1>3. HandleOwnedOnce'
  BY <1>1 DEF HandleOwnedOnce
<1>4. FinalizerSafe'
  BY DEF FinalizerSafe, Bookkeeping, TypeOK, dataVars
<1>5. CacheMatchesHandle' /\ CacheEntryBacked'
  BY DEF CacheMatchesHandle, CacheEntryBacked, dataVars, cacheVars
<1>6. Bookkeeping'
  BY DEF Bookkeeping, TypeOK, frameVars, dataVars
<1> QED
  BY <1>2, <1>3, <1>4, <1>5, <1>6

\* A Reference to a value read from the script preserves the invariant.
LEMMA ReadFromJSInv ==
  ASSUME IInv, NEW r \in Ref, NEW a \in Addr, NEW v \in Value, ReadFromJS(r, a, v)
  PROVE  IInv'
BY NewReferenceInv DEF ReadFromJS, frameVars, IInv, TypeOK

\* executeScript, and with it the call of a function of the script, preserves the invariant.
LEMMA RunScriptInv ==
  ASSUME IInv, NEW r \in Ref, NEW a \in Addr, NEW v \in Value, RunScript(r, a, v)
  PROVE  IInv'
BY NewReferenceInv DEF RunScript, frameVars, IInv, TypeOK

\* The actions that touch neither a handle, nor data, nor a cache.
LEMMA SmallStepInv ==
  ASSUME IInv,
         UNCHANGED <<handleVars, dataVars, cacheVars>>,
         TypeOK', Bookkeeping', phase = "disposed" => phase' = "disposed",
         \A r \in Ref : (Unreleased(r)' <=> Unreleased(r)) /\ refHandle'[r] = refHandle[r]
  PROVE  IInv'
<1>1. HandleOwnedOnce'
  BY DEF IInv, HandleOwnedOnce, handleVars
<1>2. FinalizerSafe'
  BY DEF IInv, FinalizerSafe, handleVars, dataVars
<1>3. CacheMatchesHandle' /\ CacheEntryBacked'
  BY DEF IInv, CacheMatchesHandle, CacheEntryBacked, handleVars, dataVars, cacheVars
<1> QED
  BY <1>1, <1>2, <1>3 DEF IInv

\* set: the new entries replace those of the old data in every cache of its kind, and
\* no other handle refers to the old data.
LEMMA SetPayloadInv ==
  ASSUME IInv, NEW r \in Ref, NEW o \in Obj, NEW d \in Data, SetPayload(r, o, d)
  PROVE  IInv'
<1> DEFINE a == refHandle[r]
           k == KindOf(hValue[a])
           old == hParam[a]
<1> USE DEF SetPayload, IInv
<1>1. a \in live /\ a \in Addr
  BY DEF Usable, HandleOwnedOnce, Unreleased, TypeOK
<1>2. k \in Kind
  BY <1>1 DEF KindOf, TypeOK, Value, Usable
<1>3. old # None => old \in dLive /\ dHandle[old] = a /\ old # d
  BY <1>1 DEF FinalizerSafe, FreshData
<1>4. hValue' = [hValue EXCEPT ![a] = d]
  BY <1>1, <1>3 DEF TypeOK
<1>5. dLive' = (dLive \ {old}) \cup {d}
  BY <1>3 DEF TypeOK
<1>6. \A n \in CacheName, b \in Addr :
        cache'[n][b] = IF b # a THEN cache[n][b]
                       ELSE IF n \in CachesOf(k) THEN o
                       ELSE IF old # None /\ n \in CachesOf(dKind[old]) THEN None
                       ELSE cache[n][b]
  BY <1>1, <1>3 DEF StoreInCache, ClearReference, Store, Delete, TypeOK
<1>7. cache' \in [CacheName -> [Addr -> Obj \cup {None}]]
  BY <1>1, <1>3 DEF StoreInCache, ClearReference, Store, Delete, TypeOK
<1>8. TypeOK'
  BY <1>1, <1>2, <1>4, <1>5, <1>7 DEF TypeOK, Value, refVars, frameVars
<1>9. HandleOwnedOnce'
  BY DEF HandleOwnedOnce, Unreleased, refVars
<1>10. d \notin dLive /\ \A b \in Addr : hParam[b] # d
  BY DEF FreshData, FinalizerSafe, TypeOK
<1>11. FinalizerSafe'
  <2> SUFFICES ASSUME NEW b \in Addr, hParam'[b] # None
               PROVE  /\ b \in live'
                      /\ hParam'[b] \in dLive'
                      /\ dHandle'[hParam'[b]] = b
                      /\ hValue'[b] = hParam'[b]
    BY DEF FinalizerSafe
  <2>1. CASE b = a
    BY <2>1, <1>1, <1>4, <1>5 DEF TypeOK
  <2>2. CASE b # a
    <3>1. hParam'[b] = hParam[b] /\ hValue'[b] = hValue[b]
      BY <2>2, <1>1, <1>4 DEF TypeOK
    <3>2. hParam[b] \in dLive /\ dHandle[hParam[b]] = b /\ hValue[b] = hParam[b] /\ b \in live
      BY <3>1 DEF FinalizerSafe
    <3>3. hParam[b] # old /\ hParam[b] # d
      BY <3>2, <2>2, <1>3, <1>10
    <3> QED
      BY <3>1, <3>2, <3>3, <1>5 DEF TypeOK
  <2> QED
    BY <2>1, <2>2
<1>12. CacheMatchesHandle'
  <2> SUFFICES ASSUME phase # "disposed", NEW b \in Addr, hParam'[b] # None,
                      NEW n \in CachesOf(dKind'[hParam'[b]]), n \in CacheName
               PROVE  cache'[n][b] = dObj'[hParam'[b]]
    BY CachesOfNames DEF CacheMatchesHandle
  <2>1. CASE b = a
    BY <2>1, <1>1, <1>6 DEF TypeOK
  <2>2. CASE b # a
    <3>1. hParam'[b] = hParam[b] /\ hParam[b] \in Data /\ hParam[b] # d
      BY <2>2, <1>1, <1>10 DEF TypeOK
    <3>2. cache'[n][b] = cache[n][b]
      BY <2>2, <1>6
    <3> QED
      BY <3>1, <3>2 DEF CacheMatchesHandle, TypeOK
  <2> QED
    BY <2>1, <2>2
<1>13. CacheEntryBacked'
  <2> SUFFICES ASSUME phase # "disposed", NEW n \in CacheName, NEW b \in Addr,
                      cache'[n][b] # None
               PROVE  \E e \in dLive' : dHandle'[e] = b /\ n \in CachesOf(dKind'[e])
    BY DEF CacheEntryBacked
  <2>1. CASE b = a /\ n \in CachesOf(k)
    BY <2>1, <1>5 DEF TypeOK
  <2>2. CASE ~(b = a /\ n \in CachesOf(k))
    <3>1. cache[n][b] = cache'[n][b]
      BY <2>2, <1>6
    <3>2. PICK e \in dLive : dHandle[e] = b /\ n \in CachesOf(dKind[e])
      BY <3>1 DEF CacheEntryBacked
    <3>3. e # old
      BY <2>2, <3>2, <1>3, <1>6 DEF TypeOK
    <3> QED
      BY <3>2, <3>3, <1>5, <1>10 DEF TypeOK
  <2> QED
    BY <2>1, <2>2
<1>14. Bookkeeping'
  BY <1>1 DEF Bookkeeping, HandleOwnedOnce, Unreleased, Usable, TypeOK, refVars, frameVars
<1> QED
  BY <1>8, <1>9, <1>11, <1>12, <1>13, <1>14

\* Release takes away one handle and its only owner.
LEMMA ReleaseInv ==
  ASSUME IInv, NEW r \in Ref, Release(r)
  PROVE  IInv'
<1> USE DEF Release, FreeHandle, IInv
<1>1. refHandle[r] \in live /\ refHandle[r] \in Addr
  BY DEF HandleOwnedOnce, Unreleased, TypeOK
<1>2. TypeOK'
  BY <1>1 DEF TypeOK, RefState, dataVars, cacheVars, frameVars
<1>3. HandleOwnedOnce'
  <2>1. \A s \in Ref : Unreleased(s)' <=> (Unreleased(s) /\ s # r)
    BY DEF Unreleased, TypeOK
  <2> QED
    BY <2>1 DEF HandleOwnedOnce, Unreleased
<1>4. \A b \in Addr : hParam'[b] # None => b # refHandle[r] /\ hParam'[b] = hParam[b]
  BY <1>1 DEF TypeOK
<1>5. FinalizerSafe'
  BY <1>1, <1>4 DEF FinalizerSafe, TypeOK, dataVars
<1>6. CacheMatchesHandle' /\ CacheEntryBacked'
  BY <1>4 DEF CacheMatchesHandle, CacheEntryBacked, dataVars, cacheVars
<1>7. Bookkeeping'
  BY <1>1 DEF Bookkeeping, TypeOK, frameVars, dataVars
<1> QED
  BY <1>2, <1>3, <1>5, <1>6, <1>7

\* The finalizer empties its own handle and drops the entries of its own data.
LEMMA FinalizeInv ==
  ASSUME IInv, NEW a \in Addr, Finalize(a)
  PROVE  IInv'
<1> DEFINE d == hParam[a]
<1> USE DEF Finalize, CanFinalize, IInv
<1>1. d \in dLive /\ d \in Data /\ dHandle[d] = a
  BY DEF FinalizerSafe, TypeOK
<1>2. \A n \in CacheName, b \in Addr :
        cache'[n][b] = IF b = a /\ n \in CachesOf(dKind[d]) THEN None ELSE cache[n][b]
  BY <1>1 DEF ClearReference, Delete, TypeOK
<1>3. TypeOK'
  BY <1>1 DEF TypeOK, ClearReference, Delete, refVars, frameVars
<1>4. HandleOwnedOnce'
  BY DEF HandleOwnedOnce, Unreleased, refVars
<1>5. \A b \in Addr : hParam'[b] # None => b # a /\ hParam'[b] = hParam[b] /\ hParam[b] # d
  BY <1>1 DEF TypeOK, FinalizerSafe
<1>6. FinalizerSafe'
  BY <1>1, <1>5 DEF FinalizerSafe, TypeOK
<1>7. CacheMatchesHandle'
  <2> SUFFICES ASSUME phase # "disposed", NEW b \in Addr, hParam'[b] # None,
                      NEW n \in CachesOf(dKind[hParam'[b]]), n \in CacheName
               PROVE  cache'[n][b] = dObj[hParam'[b]]
    BY CachesOfNames DEF CacheMatchesHandle
  <2> QED
    BY <1>2, <1>5 DEF CacheMatchesHandle
<1>8. CacheEntryBacked'
  <2> SUFFICES ASSUME phase # "disposed", NEW n \in CacheName, NEW b \in Addr,
                      cache'[n][b] # None
               PROVE  \E e \in dLive' : dHandle[e] = b /\ n \in CachesOf(dKind[e])
    BY DEF CacheEntryBacked
  <2>1. cache[n][b] = cache'[n][b] /\ ~(b = a /\ n \in CachesOf(dKind[d]))
    BY <1>2
  <2>2. PICK e \in dLive : dHandle[e] = b /\ n \in CachesOf(dKind[e])
    BY <2>1 DEF CacheEntryBacked
  <2>3. e # d
    BY <2>1, <2>2, <1>1
  <2> QED
    BY <2>2, <2>3
<1>9. Bookkeeping'
  BY <1>1 DEF Bookkeeping, TypeOK, refVars, frameVars
<1> QED
  BY <1>3, <1>4, <1>6, <1>7, <1>8, <1>9

\* The end of releaseRuntime preserves the invariant.
LEMMA FinishReleaseInv == IInv /\ FinishRelease => IInv'
BY DEF FinishRelease, IInv, TypeOK, HandleOwnedOnce, FinalizerSafe, CacheMatchesHandle,
       CacheEntryBacked, Bookkeeping, Unreleased, CacheName, refVars, handleVars,
       dataVars, frameVars

\* The trampoline, up to the call of the Java callback, preserves the invariant.
LEMMA CallInv ==
  ASSUME IInv, NEW d \in Data, NEW x \in Value \cup {None}, NEW r \in Ref, NEW a \in Addr,
         Call(d, x, r, a)
  PROVE  IInv'
<1>1. CASE x = None
  BY <1>1, SmallStepInv DEF Call, IInv, TypeOK, Bookkeeping, Unreleased, refVars,
     handleVars, dataVars, cacheVars
<1>2. CASE x # None
  BY <1>2, NewReferenceInv DEF Call
<1> QED
  BY <1>1, <1>2

\* Every action preserves the invariant.
LEMMA NextInv == IInv /\ [Next]_vars => IInv'
<1> SUFFICES ASSUME IInv, [Next]_vars
             PROVE  IInv'
  OBVIOUS
<1> USE DEF IInv, TypeOK, Bookkeeping, RefState, Unreleased, refVars, handleVars, dataVars,
        cacheVars, frameVars
<1>1. ASSUME NEW r \in Ref, WriteToJS(r) PROVE IInv'
  BY <1>1, SmallStepInv DEF WriteToJS, HandleOwnedOnce
<1>2. ASSUME NEW v \in Value, DropFromJS(v) PROVE IInv'
  BY <1>2, SmallStepInv DEF DropFromJS
<1>3. ASSUME NEW r \in Ref, Resolve(r) PROVE IInv'
  BY <1>3, SmallStepInv DEF Resolve
<1>4. ASSUME NEW r \in Ref, DropProxy(r) PROVE IInv'
  BY <1>4, SmallStepInv DEF DropProxy
<1>5. ASSUME NEW r \in Ref, LoseRef(r) PROVE IInv'
  BY <1>5, SmallStepInv DEF LoseRef
<1>6. ASSUME CallbackThrows PROVE IInv'
  BY <1>6, SmallStepInv DEF CallbackThrows
<1>7. ASSUME NEW r \in Ref, CallbackReturns(r) PROVE IInv'
  BY <1>7, SmallStepInv DEF CallbackReturns
<1>8. ASSUME UseResult PROVE IInv'
  BY <1>8, SmallStepInv DEF UseResult, HandleOwnedOnce
<1>9. ASSUME StartRelease PROVE IInv'
  BY <1>9, SmallStepInv DEF StartRelease
<1>10. ASSUME NEW s \in Ref, NEW r \in Ref, NEW a \in Addr, NEW v \in Value, Invoke(s, r, a, v)
       PROVE  IInv'
  BY <1>10, RunScriptInv DEF Invoke
<1> QED
  BY NewValueInv, InitValueInv, ReadFromJSInv, RunScriptInv, SetPayloadInv, ReleaseInv,
     FinalizeInv, CallInv, FinishReleaseInv, StutterInv,
     <1>1, <1>2, <1>3, <1>4, <1>5, <1>6, <1>7, <1>8, <1>9, <1>10 DEF Next

\* The invariant holds in every reachable state.
THEOREM Invariance == Spec => []IInv
<1>1. Init => IInv
  BY InitInv
<1>2. IInv /\ [Next]_vars => IInv'
  BY NextInv
<1> QED
  BY <1>1, <1>2, PTL DEF Spec

\* The state is well typed.
THEOREM TypeCorrect == Spec => []TypeOK
<1>1. IInv => TypeOK
  BY DEF IInv
<1> QED
  BY <1>1, Invariance, PTL

\* Handles and the References that are not released yet are in one-to-one correspondence.
THEOREM HandlesOwned == Spec => []HandleOwnedOnce
<1>1. IInv => HandleOwnedOnce
  BY DEF IInv
<1> QED
  BY <1>1, Invariance, PTL

\* A finalizer parameter is always live data of its own handle: the finalizers and the setters
\* delete no data twice and touch no released handle.
THEOREM FinalizersSafe == Spec => []FinalizerSafe
<1>1. IInv => FinalizerSafe
  BY DEF IInv
<1> QED
  BY <1>1, Invariance, PTL

\* A weak handle's cache entries are those of the last set through it.
THEOREM CachesMatchHandles == Spec => []CacheMatchesHandle
<1>1. IInv => CacheMatchesHandle
  BY DEF IInv
<1> QED
  BY <1>1, Invariance, PTL

\* No cache entry outlives all the data that names it.
THEOREM CacheEntriesBacked == Spec => []CacheEntryBacked
<1>1. IInv => CacheEntryBacked
  BY DEF IInv
<1> QED
  BY <1>1, Invariance, PTL

----------------------------------------------------------------------------
\* What one step may do.

\* Only set and the finalizers delete data, and they leave no entry of it in a cache.
LEMMA FreedDataStep ==
  ASSUME IInv, [Next]_vars, NEW d \in dLive, d \notin dLive'
  PROVE  /\ hParam[dHandle[d]] = d
         /\ \A n \in CachesOf(dKind[d]) :
              \/ cache'[n][dHandle[d]] = None
              \/ \E e \in dLive' \ dLive :
                   /\ hParam'[dHandle[d]] = e
                   /\ cache'[n][dHandle[d]] = dObj'[e]
         /\ d \in jsHeld => \E e \in dLive' \ dLive : hParam'[dHandle[d]] = e
<1> USE DEF IInv
<1>1. CASE \E r \in Ref, o \in Obj, e \in Data : SetPayload(r, o, e)
  <2>1. PICK r \in Ref, o \in Obj, e \in Data : SetPayload(r, o, e)
    BY <1>1
  <2> DEFINE a == refHandle[r]
             k == KindOf(hValue[a])
  <2>2. a \in Addr /\ a \in live
    BY <2>1 DEF SetPayload, Usable, HandleOwnedOnce, Unreleased, TypeOK
  <2>3. d = hParam[a] /\ d # None /\ d \in Data
    BY <2>1 DEF SetPayload, TypeOK
  <2>4. dHandle[d] = a
    BY <2>2, <2>3 DEF FinalizerSafe
  <2>5. e \in dLive' \ dLive /\ hParam'[a] = e /\ dObj'[e] = o
    BY <2>1, <2>2 DEF SetPayload, FreshData, TypeOK
  <2>6. \A n \in CachesOf(dKind[d]) : cache'[n][a] = None \/ cache'[n][a] = o
    <3> SUFFICES ASSUME NEW n \in CachesOf(dKind[d]), n \in CacheName
                 PROVE  cache'[n][a] = None \/ cache'[n][a] = o
      BY CachesOfNames
    <3>1. cache' = StoreInCache(ClearReference(cache, d), k, a, o)
      BY <2>1, <2>3 DEF SetPayload
    <3> QED
      BY <3>1, <2>2, <2>4 DEF StoreInCache, ClearReference, Store, Delete, TypeOK
  <2> QED
    BY <2>3, <2>4, <2>5, <2>6
<1>2. CASE \E a \in Addr : Finalize(a)
  <2>1. PICK a \in Addr : Finalize(a)
    BY <1>2
  <2>2. d = hParam[a] /\ d \in Data /\ dHandle[d] = a /\ d \notin jsHeld
    BY <2>1 DEF Finalize, CanFinalize, Rooted, FinalizerSafe, TypeOK
  <2>3. \A n \in CachesOf(dKind[d]) : cache'[n][a] = None
    BY <2>1, <2>2, CachesOfNames DEF Finalize, ClearReference, Delete, TypeOK
  <2> QED
    BY <2>2, <2>3
<1>3. CASE /\ ~\E r \in Ref, o \in Obj, e \in Data : SetPayload(r, o, e)
           /\ ~\E a \in Addr : Finalize(a)
  <2>1. dLive' = dLive
    BY <1>3 DEF Next, NewValue, InitValue, ReadFromJS, RunScript, Invoke, WriteToJS,
       DropFromJS, Resolve, DropProxy, LoseRef, Release, FreeHandle, Call, CallbackThrows, CallbackReturns, UseResult,
       StartRelease, FinishRelease, dataVars, vars
  <2> QED
    BY <2>1
<1> QED
  BY <1>1, <1>2, <1>3

\* Data deleted by any step is forgotten by the caches in that step.
THEOREM FreedDataIsForgotten == Spec => FreedDataForgotten
<1> DEFINE A == \A d \in dLive : d \notin dLive' =>
                  /\ hParam[dHandle[d]] = d
                  /\ \A n \in CachesOf(dKind[d]) :
                       \/ cache'[n][dHandle[d]] = None
                       \/ \E e \in dLive' \ dLive :
                            /\ hParam'[dHandle[d]] = e
                            /\ cache'[n][dHandle[d]] = dObj'[e]
                  /\ d \in jsHeld => \E e \in dLive' \ dLive : hParam'[dHandle[d]] = e
<1>1. IInv /\ [Next]_vars => [A]_vars
  BY FreedDataStep
<1> QED
  BY <1>1, Invariance, PTL DEF Spec, FreedDataForgotten

\* A changed lookup is the doing of a set or a finalizer at the address of the data.
LEMMA LookupStep ==
  ASSUME IInv, [Next]_vars, NEW d \in jsHeld \cap dLive, NEW n \in CacheName,
         phase' # "disposed", Lookup(n, d)' # Lookup(n, d)
  PROVE  LET before == hParam[dHandle[d]]
             after  == hParam'[dHandle[d]]
         IN \/ after # None /\ after \notin dLive
            \/ before # None /\ before \notin dLive'
<1> USE DEF IInv
<1>1. d \in Data /\ d \in dLive /\ dHandle[d] \in Addr
  BY DEF TypeOK, Bookkeeping
<1>2. CASE \E r \in Ref, o \in Obj, e \in Data : SetPayload(r, o, e)
  <2>1. PICK r \in Ref, o \in Obj, e \in Data : SetPayload(r, o, e)
    BY <1>2
  <2> DEFINE a == refHandle[r]
             k == KindOf(hValue[a])
             old == hParam[a]
  <2>2. a \in Addr /\ a \in live
    BY <2>1 DEF SetPayload, Usable, HandleOwnedOnce, Unreleased, TypeOK
  <2>3. e \notin dLive /\ e # None /\ hParam'[a] = e /\ dHandle'[d] = dHandle[d]
    BY <2>1, <2>2, <1>1 DEF SetPayload, FreshData, TypeOK
  <2>4. old # None => dHandle[old] = a
    BY <2>2 DEF FinalizerSafe
  <2>5. \A b \in Addr : b # a => cache'[n][b] = cache[n][b]
    BY <2>1, <2>2, <2>4
    DEF SetPayload, StoreInCache, ClearReference, Store, Delete, TypeOK
  <2>6. dHandle[d] = a
    BY <1>1, <2>3, <2>5 DEF Lookup
  <2> QED
    BY <2>3, <2>6
<1>3. CASE \E a \in Addr : Finalize(a)
  <2>1. PICK a \in Addr : Finalize(a)
    BY <1>3
  <2>2. hParam[a] # None /\ dHandle[hParam[a]] = a
    BY <2>1 DEF Finalize, CanFinalize, FinalizerSafe
  <2>3. \A b \in Addr : b # a => cache'[n][b] = cache[n][b]
    BY <2>1, <2>2 DEF Finalize, ClearReference, Delete, TypeOK
  <2>4. dHandle' = dHandle /\ hParam[a] \notin dLive'
    BY <2>1 DEF Finalize
  <2>5. dHandle[d] = a
    BY <1>1, <2>3, <2>4 DEF Lookup
  <2> QED
    BY <2>2, <2>4, <2>5
<1>4. CASE /\ ~\E r \in Ref, o \in Obj, e \in Data : SetPayload(r, o, e)
           /\ ~\E a \in Addr : Finalize(a)
  <2>1. cache' = cache /\ dHandle' = dHandle
    BY <1>4 DEF Next, NewValue, InitValue, ReadFromJS, RunScript, Invoke, WriteToJS,
       DropFromJS, Resolve, DropProxy, LoseRef, Release, FreeHandle, Call, CallbackThrows, CallbackReturns, UseResult,
       StartRelease, FinishRelease, dataVars, cacheVars, vars
  <2> QED
    BY <2>1 DEF Lookup
<1> QED
  BY <1>2, <1>3, <1>4

\* What a value of the script stands for changes only by a set or a finalizer of a handle at
\* the address of its data.
THEOREM LookupsStable == Spec => LookupStable
<1> DEFINE A == \A d \in jsHeld \cap dLive, n \in CacheName :
                  phase' # "disposed" /\ Lookup(n, d)' # Lookup(n, d)
                  => LET before == hParam[dHandle[d]]
                         after  == hParam'[dHandle[d]]
                     IN \/ after # None /\ after \notin dLive
                        \/ before # None /\ before \notin dLive'
<1>1. IInv /\ [Next]_vars => [A]_vars
  BY LookupStep
<1> QED
  BY <1>1, Invariance, PTL DEF Spec, LookupStable
=============================================================================
