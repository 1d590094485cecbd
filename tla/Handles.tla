------------------------------ MODULE Handles ------------------------------
(***************************************************************************)
(* The lifetime of the objects that tie a Java `Reference' to a JavaScript *)
(* value: the C++ `Handle' behind the reference, the `ExternalData' or     *)
(* `FunctionCallbackData' a V8 External or Function carries, and the Java  *)
(* caches, keyed by the ADDRESS of a handle, that hold the Java object the *)
(* External or Function stands for.                                        *)
(*                                                                         *)
(* Two collectors take part.  The JVM's discovers that a Reference is      *)
(* unreachable, after which the monitor thread releases its handle; V8's   *)
(* discovers that the value of a weak handle is unreachable, after which   *)
(* it runs the finalizer of that handle.  malloc may give a new Handle the *)
(* address of a released one.                                              *)
(*                                                                         *)
(* Every operation here is one critical section: the Java methods hold     *)
(* V8.lock and the isolate's Locker from start to end.  The exceptions are *)
(* Release, which the monitor thread runs under neither, and the two steps *)
(* of a callback's return, between which that thread may run.              *)
(***************************************************************************)
CONSTANTS
  Ref,      \* Java Reference objects
  Addr,     \* addresses of C++ Handle objects
  Data,     \* ExternalData and FunctionCallbackData objects
  Obj,      \* Java objects kept in the caches
  Kind,     \* the kinds of value in use, among "Value", "External", "Function"
  None

ASSUME KindAssumption == Kind \subseteq {"Value", "External", "Function"}
ASSUME NoneAssumption ==
  None \notin Ref \cup Addr \cup Data \cup Obj \cup {"Value", "External", "Function"}
ASSUME DataAssumption == Data \cap Kind = {}

VARIABLES
  refState,   \* what became of each Reference
  refHandle,  \* Reference.handle
  proxies,    \* References of which a JSValue object (it keeps the handle only) is in use
  live,       \* addresses at which a Handle is allocated
  hValue,     \* Handle.persistent: the value, None when empty
  hParam,     \* the finalizer parameter; None when the persistent is strong
  jsHeld,     \* values the script's own objects reach
  dLive,      \* data objects not deleted
  dHandle,    \* data->handle
  dKind,      \* "External" for an ExternalData, "Function" for a FunctionCallbackData
  dObj,       \* ghost: the Java object the data was made for
  cache,      \* the four Java caches
  cacheRef,   \* the caches of which the Runtime has a JNI global reference
  framePc,    \* the callback in progress
  frameFun,   \* the function it runs
  frameRef,   \* the Reference it returned, from which the handle was read
  phase       \* of the runtime

refVars == <<refState, refHandle, proxies>>
handleVars == <<live, hValue, hParam>>
dataVars == <<dLive, dHandle, dKind, dObj>>
cacheVars == <<cache, cacheRef>>
frameVars == <<framePc, frameFun, frameRef>>
vars == <<refVars, handleVars, jsHeld, dataVars, cacheVars, frameVars, phase>>

(***************************************************************************)
(* A V8 value.  An External or a Function made by setExternalValue or      *)
(* setFunctionHandler is the only value that carries its data, and is      *)
(* named by it: d stands for the data while d \in dLive and for a value    *)
(* that points to deleted memory afterwards.  All the values of a kind     *)
(* that carry no data of this sort (plain values, the functions of         *)
(* initFunctionValue, the Externals of initExternalValue, of which the     *)
(* data has a null handle) behave alike, and are named by the kind; so     *)
(* the setters of booleans, numbers, strings and dates, which reset a      *)
(* strong persistent to another plain value, leave this state as it is.    *)
(***************************************************************************)
Value == Data \cup Kind

KindOf(v) == IF v \in Data THEN dKind[v] ELSE v

CacheName == {"function", "typeGetter", "equalityChecker", "external"}

\* The caches in which a data object of kind k keeps its entry.
CachesOf(k) ==
  CASE k = "Function" -> {"function", "typeGetter", "equalityChecker"}
    [] k = "External" -> {"external"}
    [] OTHER -> {}

RefState == {"none", "fresh", "held", "lost", "released"}

\* Type invariant: the Java, C++ and V8 sides hold values of their own sorts.
TypeOK ==
  /\ refState \in [Ref -> RefState]
  /\ refHandle \in [Ref -> Addr \cup {None}]
  /\ proxies \subseteq Ref
  /\ live \subseteq Addr
  /\ hValue \in [Addr -> Value \cup {None}]
  /\ hParam \in [Addr -> Data \cup {None}]
  /\ jsHeld \subseteq Value
  /\ dLive \subseteq Data
  /\ dHandle \in [Data -> Addr \cup {None}]
  /\ dKind \in [Data -> Kind \cup {None}]
  /\ dObj \in [Data -> Obj \cup {None}]
  /\ cache \in [CacheName -> [Addr -> Obj \cup {None}]]
  /\ cacheRef \subseteq CacheName
  /\ framePc \in {"idle", "java", "result"}
  /\ frameFun \in Data \cup {None}
  /\ frameRef \in Ref \cup {None}
  /\ phase \in {"open", "collecting", "disposed"}

----------------------------------------------------------------------------
\* Reachability.

\* A Reference whose handle is allocated.
Unreleased(r) == refState[r] \in {"fresh", "held", "lost"}

\* V8 may not collect v: the script, a strong handle or the stack reaches it.
Rooted(v) ==
  \/ v \in jsHeld
  \/ \E a \in live : hValue[a] = v /\ hParam[a] = None
  \/ framePc # "idle" /\ frameFun = v

\* Nothing names the Reference r: the id stands for an object yet to be made.
FreshRef(r) ==
  \/ refState[r] = "none"
  \/ refState[r] = "released" /\ r \notin proxies /\ frameRef # r

\* Neither the data d nor a value that carries it exists.
FreshData(d) ==
  /\ d \notin dLive
  /\ ~Rooted(d)
  /\ \A a \in live : hValue[a] # d

\* The Java side may call the runtime: between the two steps of a callback's return
\* the thread that could do so is inside the native trampoline.
ApiOpen == phase = "open" /\ framePc # "result"

\* A JSValue for r can be operated on: its handle is allocated and holds a value.
\* On a released handle, or an empty one, the code's behaviour is undefined; the
\* properties ProxyUsable and HeldReferenceHoldsValue say when that can happen.
Usable(r) ==
  /\ r \in proxies
  /\ refState[r] \in {"held", "lost"}
  /\ hValue[refHandle[r]] # None

----------------------------------------------------------------------------
\* The caches.

\* Mutant: put(value, key).
StoreKeyAsValue(m, a, o) == [m EXCEPT ![a] = a]

\* Cache.store and Cache.delete: m is a HashMap from handles to objects.
Store(m, a, o) == [m EXCEPT ![a] = o]

Delete(m, a) == [m EXCEPT ![a] = None]

StoreInCache(f, k, a, o) ==
  [n \in CacheName |-> IF n \in CachesOf(k) THEN Store(f[n], a, o) ELSE f[n]]

\* Mutant: the entry of the type getter is forgotten.
ClearReferencePartly(f, d) ==
  [n \in CacheName |->
     IF n \in CachesOf(dKind[d]) \ {"typeGetter"} THEN Delete(f[n], dHandle[d]) ELSE f[n]]

\* Mutant: the entries of all four caches stay.
ClearReferenceNever(f, d) == f

\* The cache half of clearReference; the other half empties the handle.
ClearReference(f, d) ==
  [n \in CacheName |->
     IF n \in CachesOf(dKind[d]) THEN Delete(f[n], dHandle[d]) ELSE f[n]]

----------------------------------------------------------------------------
Init ==
  /\ refState = [r \in Ref |-> "none"]
  /\ refHandle = [r \in Ref |-> None]
  /\ proxies = {}
  /\ live = {}
  /\ hValue = [a \in Addr |-> None]
  /\ hParam = [a \in Addr |-> None]
  /\ jsHeld = {}
  /\ dLive = {}
  /\ dHandle = [d \in Data |-> None]
  /\ dKind = [d \in Data |-> None]
  /\ dObj = [d \in Data |-> None]
  /\ cache = [n \in CacheName |-> [a \in Addr |-> None]]
  /\ cacheRef = CacheName
  /\ framePc = "idle"
  /\ frameFun = None
  /\ frameRef = None
  /\ phase = "open"

\* A new Handle at any free address, holding c (None: empty), and a tracked Reference to it.
NewReference(r, a, c, state) ==
  /\ FreshRef(r)
  /\ a \notin live
  /\ live' = live \cup {a}
  /\ hValue' = [hValue EXCEPT ![a] = c]
  /\ hParam' = [hParam EXCEPT ![a] = None]
  /\ refState' = [refState EXCEPT ![r] = state]
  /\ refHandle' = [refHandle EXCEPT ![r] = a]
  /\ proxies' = proxies

\* createNewReference, first critical section: the handle is tracked and still empty.
NewValue(r, a) ==
  /\ ApiOpen
  /\ NewReference(r, a, None, "fresh")
  /\ UNCHANGED <<jsHeld, dataVars, cacheVars, frameVars, phase>>

\* createNewReference, second critical section: the initXValue of the type.
InitValue(r, k) ==
  /\ ApiOpen
  /\ refState[r] = "fresh"
  /\ refState' = [refState EXCEPT ![r] = "held"]
  /\ hValue' = [hValue EXCEPT ![refHandle[r]] = k]
  /\ UNCHANGED <<refHandle, proxies, live, hParam, jsHeld, dataVars, cacheVars, frameVars, phase>>

\* A property, an array item or the global object: a new strong handle to a value the script
\* reaches.
ReadFromJS(r, a, v) ==
  /\ ApiOpen
  /\ v \in jsHeld
  /\ NewReference(r, a, v, "held")
  /\ UNCHANGED <<jsHeld, dataVars, cacheVars, frameVars, phase>>

\* executeScript: the result is a value the script reaches or a plain one of its own making.
\* What the script does on the way are steps of their own: DropFromJS, Call.
RunScript(r, a, v) ==
  /\ ApiOpen
  /\ v \in jsHeld \cup Kind
  /\ NewReference(r, a, v, "held")
  /\ UNCHANGED <<jsHeld, dataVars, cacheVars, frameVars, phase>>

\* invokeFunction and invokeConstructor on the JSFunction for s, a function of the script.
\* (On a function with a Java callback they are a Call.)
Invoke(s, r, a, v) ==
  /\ Usable(s)
  /\ hValue[refHandle[s]] = "Function"
  /\ RunScript(r, a, v)

\* set of a property or an array item, an argument of a call: the script reaches the value from
\* now on.
WriteToJS(r) ==
  /\ ApiOpen
  /\ refState[r] = "held"
  /\ hValue[refHandle[r]] # None
  /\ jsHeld' = jsHeld \cup {hValue[refHandle[r]]}
  /\ UNCHANGED <<refVars, handleVars, dataVars, cacheVars, frameVars, phase>>

\* The script drops its last path to v.
DropFromJS(v) ==
  /\ ApiOpen
  /\ v \in jsHeld
  /\ jsHeld' = jsHeld \ {v}
  /\ UNCHANGED <<refVars, handleVars, dataVars, cacheVars, frameVars, phase>>

\* resolve: the JSValue's accessors capture reference.handle, not the Reference.
Resolve(r) ==
  /\ ApiOpen
  /\ refState[r] = "held"
  /\ proxies' = proxies \cup {r}
  /\ UNCHANGED <<refState, refHandle, handleVars, jsHeld, dataVars, cacheVars,
                 frameVars, phase>>

DropProxy(r) ==
  /\ r \in proxies
  /\ proxies' = proxies \ {r}
  /\ UNCHANGED <<refState, refHandle, handleVars, jsHeld, dataVars, cacheVars,
                 frameVars, phase>>

\* Mutant: the old data is cleared after the new object is stored.
SetPayloadLateClear(r, o, d) ==
  LET a   == refHandle[r]
      k   == KindOf(hValue[a])
      old == hParam[a]
  IN
  /\ ApiOpen
  /\ Usable(r)
  /\ k \in {"External", "Function"}
  /\ FreshData(d)
  /\ IF old # None
     THEN /\ dLive' = (dLive \ {old}) \cup {d}
          /\ cache' = ClearReference(StoreInCache(cache, k, a, o), old)
     ELSE /\ dLive' = dLive \cup {d}
          /\ cache' = StoreInCache(cache, k, a, o)
  /\ hValue' = [hValue EXCEPT ![a] = d]
  /\ hParam' = [hParam EXCEPT ![a] = d]
  /\ dHandle' = [dHandle EXCEPT ![d] = a]
  /\ dKind' = [dKind EXCEPT ![d] = k]
  /\ dObj' = [dObj EXCEPT ![d] = o]
  /\ UNCHANGED <<refVars, live, jsHeld, cacheRef, frameVars, phase>>

\* setExternalValue and setFunctionHandler.  The old data, if the handle was weak, is cleared
\* and deleted; new data d for the object o goes into the caches under the handle's address;
\* the handle gets a new External or Function that carries d, and becomes weak.
SetPayload(r, o, d) ==
  LET a   == refHandle[r]
      k   == KindOf(hValue[a])
      old == hParam[a]
  IN
  /\ ApiOpen
  /\ Usable(r)
  /\ k \in {"External", "Function"}
  /\ FreshData(d)
  /\ IF old # None
     THEN /\ dLive' = (dLive \ {old}) \cup {d}
          /\ cache' = StoreInCache(ClearReference(cache, old), k, a, o)
          /\ hValue' = [hValue EXCEPT ![dHandle[old]] = None, ![a] = d]
     ELSE /\ dLive' = dLive \cup {d}
          /\ cache' = StoreInCache(cache, k, a, o)
          /\ hValue' = [hValue EXCEPT ![a] = d]
  /\ hParam' = [hParam EXCEPT ![a] = d]
  /\ dHandle' = [dHandle EXCEPT ![d] = a]
  /\ dKind' = [dKind EXCEPT ![d] = k]
  /\ dObj' = [dObj EXCEPT ![d] = o]
  /\ UNCHANGED <<refVars, live, jsHeld, cacheRef, frameVars, phase>>

----------------------------------------------------------------------------
\* The two collectors.

\* The Reference becomes unreachable and the JVM enqueues its PhantomReference.
LoseRef(r) ==
  /\ refState[r] = "held"
  /\ refState' = [refState EXCEPT ![r] = "lost"]
  /\ UNCHANGED <<refHandle, proxies, handleVars, jsHeld, dataVars, cacheVars,
                 frameVars, phase>>

\* Mutant: the Handle is not deleted, its persistent is.
ReleaseKeepsHandle(r) ==
  /\ phase = "open"
  /\ refState[r] = "lost"
  /\ refState' = [refState EXCEPT ![r] = "released"]
  /\ hValue' = [hValue EXCEPT ![refHandle[r]] = None]
  /\ hParam' = [hParam EXCEPT ![refHandle[r]] = None]
  /\ UNCHANGED <<refHandle, proxies, live, jsHeld, dataVars, cacheVars, frameVars, phase>>

\* Mutant: the entries under the released address are dropped too.
ReleaseDropsEntries(r) ==
  /\ phase = "open"
  /\ refState[r] = "lost"
  /\ refState' = [refState EXCEPT ![r] = "released"]
  /\ live' = live \ {refHandle[r]}
  /\ hValue' = [hValue EXCEPT ![refHandle[r]] = None]
  /\ hParam' = [hParam EXCEPT ![refHandle[r]] = None]
  /\ cache' = [n \in CacheName |-> Delete(cache[n], refHandle[r])]
  /\ UNCHANGED <<refHandle, proxies, jsHeld, dataVars, cacheRef, frameVars, phase>>

\* releaseReference: the persistent and the Handle of r are deleted.  A deleted weak persistent
\* takes its finalizer with it.
FreeHandle(r) ==
  /\ refState' = [refState EXCEPT ![r] = "released"]
  /\ live' = live \ {refHandle[r]}
  /\ hValue' = [hValue EXCEPT ![refHandle[r]] = None]
  /\ hParam' = [hParam EXCEPT ![refHandle[r]] = None]
  /\ UNCHANGED <<refHandle, proxies, jsHeld, dataVars, cacheVars, frameVars, phase>>

\* The clean-up action of r.  That the monitor thread runs it only when its guard holds is
\* what Reclamation checks.
Release(r) ==
  /\ phase = "open"
  /\ refState[r] = "lost"
  /\ FreeHandle(r)

CanFinalize(a) ==
  /\ phase # "disposed"
  /\ framePc # "result"
  /\ a \in live
  /\ hParam[a] # None
  /\ ~Rooted(hValue[a])

\* Mutant: the data is deleted, the handle not emptied.
FinalizeKeepsValue(a) ==
  LET d == hParam[a] IN
  /\ CanFinalize(a)
  /\ cache' = ClearReference(cache, d)
  /\ dLive' = dLive \ {d}
  /\ UNCHANGED <<refVars, handleVars, jsHeld, dHandle, dKind, dObj, cacheRef, frameVars, phase>>

\* V8 runs the finalizer of a weak handle of which the value is unreachable otherwise.
Finalize(a) ==
  LET d == hParam[a] IN
  /\ CanFinalize(a)
  /\ cache' = ClearReference(cache, d)
  /\ hValue' = [hValue EXCEPT ![dHandle[d]] = None]
  /\ hParam' = [hParam EXCEPT ![dHandle[d]] = None]
  /\ dLive' = dLive \ {d}
  /\ UNCHANGED <<refVars, live, jsHeld, dHandle, dKind, dObj, cacheRef, frameVars, phase>>

----------------------------------------------------------------------------
\* A Java callback called from JavaScript.

\* What the trampoline of a function, or get of an External, finds in cache n for the value d.
Lookup(n, d) == cache[n][dHandle[d]]

Callable(v) ==
  \/ v \in jsHeld
  \/ \E r \in proxies : Usable(r) /\ hValue[refHandle[r]] = v

\* The call of the function d: its callback, type getter and equality checker are fetched
\* from the caches, a Reference r is made for the argument x (None: no argument).
\* The guard leaves out deleted data and a missing callback, where the behaviour is undefined.
Call(d, x, r, a) ==
  /\ ApiOpen
  /\ framePc = "idle"
  /\ Callable(d)
  /\ d \in dLive
  /\ dKind[d] = "Function"
  /\ \A n \in CachesOf("Function") : Lookup(n, d) # None
  /\ IF x = None
     THEN UNCHANGED <<refVars, handleVars>>
     ELSE x \in jsHeld /\ NewReference(r, a, x, "held")
  /\ framePc' = "java"
  /\ frameFun' = d
  /\ frameRef' = None
  /\ UNCHANGED <<jsHeld, dataVars, cacheVars, phase>>

\* The callback throws: the exception is rethrown in JavaScript and the result is undefined.
CallbackThrows ==
  /\ framePc = "java"
  /\ framePc' = "idle"
  /\ frameFun' = None
  /\ UNCHANGED <<frameRef, refVars, handleVars, jsHeld, dataVars, cacheVars, phase>>

\* The callback returns the Reference r: its handle is read and the local reference deleted.
CallbackReturns(r) ==
  /\ framePc = "java"
  /\ refState[r] = "held"
  /\ framePc' = "result"
  /\ frameRef' = r
  /\ UNCHANGED <<frameFun, refVars, handleVars, jsHeld, dataVars, cacheVars, phase>>

\* The result's handle is dereferenced and its value, if any, returned to JavaScript.
\* The guard leaves out a handle released in between: the behaviour is undefined.
UseResult ==
  /\ framePc = "result"
  /\ Unreleased(frameRef)
  /\ jsHeld' = jsHeld \cup ({hValue[refHandle[frameRef]]} \ {None})
  /\ framePc' = "idle"
  /\ frameFun' = None
  /\ frameRef' = None
  /\ UNCHANGED <<refVars, handleVars, dataVars, cacheVars, phase>>

----------------------------------------------------------------------------
\* releaseRuntime.

\* LowMemoryNotification: V8 collects, and runs any of the finalizers it can.
StartRelease ==
  /\ phase = "open"
  /\ framePc = "idle"
  /\ phase' = "collecting"
  /\ UNCHANGED <<refVars, handleVars, jsHeld, dataVars, cacheVars, frameVars>>

\* The caches are cleared and their global references deleted, all but equalityChecker's.
FinishRelease ==
  /\ phase = "collecting"
  /\ cache' = [n \in CacheName |->
                 IF n = "equalityChecker" THEN cache[n] ELSE [a \in Addr |-> None]]
  /\ cacheRef' = {"equalityChecker"}
  /\ phase' = "disposed"
  /\ UNCHANGED <<refVars, handleVars, jsHeld, dataVars, frameVars>>

Next ==
  \/ \E r \in Ref, a \in Addr : NewValue(r, a)
  \/ \E r \in Ref, k \in Kind : InitValue(r, k)
  \/ \E r \in Ref, a \in Addr, v \in Value : ReadFromJS(r, a, v)
  \/ \E r \in Ref, a \in Addr, v \in Value : RunScript(r, a, v)
  \/ \E s, r \in Ref, a \in Addr, v \in Value : Invoke(s, r, a, v)
  \/ \E r \in Ref : WriteToJS(r)
  \/ \E v \in Value : DropFromJS(v)
  \/ \E r \in Ref : Resolve(r)
  \/ \E r \in Ref : DropProxy(r)
  \/ \E r \in Ref, o \in Obj, d \in Data : SetPayload(r, o, d)
  \/ \E r \in Ref : LoseRef(r)
  \/ \E r \in Ref : Release(r)
  \/ \E a \in Addr : Finalize(a)
  \/ \E d \in Data, x \in Value \cup {None}, r \in Ref, a \in Addr : Call(d, x, r, a)
  \/ CallbackThrows
  \/ \E r \in Ref : CallbackReturns(r)
  \/ UseResult
  \/ StartRelease
  \/ FinishRelease

Spec == Init /\ [][Next]_vars

----------------------------------------------------------------------------
\* Properties.

\* trackReference and the clean-up pair up: every allocated Handle belongs to exactly one
\* Reference that is not released yet, so a clean-up never deletes a Handle twice nor the
\* Handle of another Reference that reuses the address, and no Handle is forgotten.
HandleOwnedOnce ==
  /\ \A r \in Ref : Unreleased(r) => refHandle[r] \in live
  /\ \A r, s \in Ref :
       Unreleased(r) /\ Unreleased(s) /\ refHandle[r] = refHandle[s] => r = s
  /\ \A a \in live : \E r \in Ref : Unreleased(r) /\ refHandle[r] = a

\* What setExternalValue, setFunctionHandler and the finalizers take for granted when they
\* clear and delete the parameter of a weak handle: it is data not deleted before, made for
\* this very handle, which is allocated and holds the value that carries the data.
FinalizerSafe ==
  \A a \in Addr : hParam[a] # None =>
    /\ a \in live
    /\ hParam[a] \in dLive
    /\ dHandle[hParam[a]] = a
    /\ hValue[a] = hParam[a]

\* A get or a call through a weak handle finds the Java object of the last set through that
\* handle, in every cache of its kind, although the caches are keyed by an address that other
\* handles had before and although their orphaned data is still alive.
CacheMatchesHandle ==
  phase # "disposed" =>
    \A a \in Addr : hParam[a] # None =>
      \A n \in CachesOf(dKind[hParam[a]]) : cache[n][a] = dObj[hParam[a]]

\* A cache keeps a Java object alive only under the address, and in a cache of the kind, of
\* data that is not deleted: set and the finalizers leave no entry behind.
CacheEntryBacked ==
  phase # "disposed" =>
    \A n \in CacheName, a \in Addr : cache[n][a] # None =>
      \E d \in dLive : dHandle[d] = a /\ n \in CachesOf(dKind[d])

\* The handle of a Reference still being created is not weak, a callback that has returned
\* has a result, and data is made for a handle.
Bookkeeping ==
  /\ \A r \in Ref : refState[r] = "fresh" => hParam[refHandle[r]] = None
  /\ framePc = "result" => frameRef \in Ref
  /\ \A d \in dLive : dHandle[d] \in Addr

\* The inductive invariant of HandlesProofs.
IInv ==
  /\ TypeOK
  /\ HandleOwnedOnce
  /\ FinalizerSafe
  /\ CacheMatchesHandle
  /\ CacheEntryBacked
  /\ Bookkeeping

\* Data is deleted only by the set or the finalizer of the weak handle it is the parameter of,
\* and then no cache keeps its object: the entries are gone, or those of the data that a set
\* has just put in its place.  Under a value that the script can reach only a set deletes it.
FreedDataForgotten ==
  [][\A d \in dLive : d \notin dLive' =>
       /\ hParam[dHandle[d]] = d
       /\ \A n \in CachesOf(dKind[d]) :
            \/ cache'[n][dHandle[d]] = None
            \/ \E e \in dLive' \ dLive :
                 /\ hParam'[dHandle[d]] = e
                 /\ cache'[n][dHandle[d]] = dObj'[e]
       /\ d \in jsHeld => \E e \in dLive' \ dLive : hParam'[dHandle[d]] = e]_vars

\* Releasing a Reference, creating others and running JavaScript leave alone what a value in
\* the script stands for: while its data lives, only a set or a finalizer of a handle at the
\* address of that data changes what its lookup finds.
LookupStable ==
  [][\A d \in jsHeld \cap dLive, n \in CacheName :
       phase' # "disposed" /\ Lookup(n, d)' # Lookup(n, d)
       => LET before == hParam[dHandle[d]]
              after  == hParam'[dHandle[d]]
          IN \/ after # None /\ after \notin dLive
             \/ before # None /\ before \notin dLive']_vars

\* A Reference `holds a reference to a JavaScript value inside V8 engine memory'
\* (Reference.java:7): as long as it is reachable, its handle is not empty.
HeldReferenceHoldsValue ==
  \A r \in Ref : refState[r] = "held" => hValue[refHandle[r]] # None

\* A JSValue in use operates on a handle that is still allocated.
ProxyUsable == \A r \in proxies : Unreleased(r)
=============================================================================
