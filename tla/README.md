# A TLA+ model of jjbridge-engine-v8

jjbridge-engine-v8 lets a Java program run JavaScript in V8. Its Java half
(`src/main/java`) gives out `Reference`s to JavaScript values and `JSValue`s to work on them;
its C++ half (`src/main/cpp`) keeps a `Handle` with a `v8::Persistent` behind each reference and
calls back into Java for functions, externals and the inspector. This directory models
the parts of it in which two threads, two garbage collectors or two languages have to agree, checks
them on small instances with TLC and proves the safety of them in general with TLAPS.

Paths below are relative to the repository.

## 1. Inventory

| Component | Code | State | Operations | Correct when |
|---|---|---|---|---|
| Reference and Handle lifetime | `runtime/Runtime.java`, `runtime/Reference.java`, `cpp/V8/Handle.h`, `V8-wrapper.cpp` | per `Reference` the address of a `Handle`; per `Handle` a `Persistent`, strong or weak with a finalizer parameter | `createNewReference`, `init*Value`, `get*`/`set*`, `resolveReference`, `releaseReference`, `executeScript`, `invoke*` | every allocated Handle has one owner; a finalizer finds the data and the handle it expects |
| Data and caches | `ExternalData.h`, `FunctionCallbackData.h`, `V8Data.h`, `Runtime.cpp` (`storeInCache`), `utils/Cache.java` | four `HashMap`s from a handle's address to a Java object | set, get, call, finalizer | a look-up finds the object that was set; nothing stays behind when data is deleted |
| Callback trampoline | `V8-wrapper.cpp:520-600`, `Environment.cpp` | the C++ frame | call, throw, return | the callback is the one of the function that is called; its result is usable |
| ReferenceMonitor | `utils/ReferenceMonitor.java`, `Runtime.close` | map of phantom references, reference queue, `interrupted` | `track`, `clean`, `run`, `interrupt`, `close` | a clean-up runs once, after the object is unreachable and before the native runtime is gone |
| BlockingQueue | `cpp/V8/BlockingQueue.h` | queue, mutex, condition variable | `push`, `pop` | FIFO, and nobody sleeps over an item |
| Inspector | `InspectorClient.cpp/.h`, `inspector/*.java` | `terminated`, `runningNestedLoop`, the queue | a message arrives, pause, resume, close | a message gets to the session once; a pause ends when asked to |
| Locks | `V8.java` (`lock`), `Runtime.h` (`v8::Locker`) | the two locks | every native call | no two threads in V8 at once; no cycle of waiting |
| Library loading | `utils/NativeLibraryLoader.java`, `V8.getInstance` | the singleton, extracted files | load, retry with dependencies, extract, preload, initialise | V8 is initialised once, from whole files; a failed attempt leaves nothing that breaks the next |
| Exceptions | `Runtime.cpp` (`throwJNIExceptionInJS`, `throwExecutionException`), `Environment.h`, `V8-wrapper.cpp` | exception objects kept in JavaScript | throw, rethrow | the Java exception that comes out is the one that went in |
| JNI environment, accessors, platform and channel | `cpp/V8/Environment.*`, `runtime/AccessorsFactory.java`, `cpp/V8/Channel.h`, `cpp/V8/MyPlatform.h` | none after start-up | forwarding | - |

How they interact. Program threads call `Runtime`, which takes `V8.lock`, calls a native method and,
there, takes the isolate's `Locker`. A native method calls Java while it holds both: the
cache operations, and through the trampoline the callbacks of the program, which may call
`Runtime` again. The monitor thread calls `releaseReference` under neither lock. `close` talks to it through the
`interrupted` flag and `join`. The connection of a debugger has a thread of its own that enters through
`onReceiveMessage`, with the Locker only when it dispatches.

What is hard about it: two collectors that know nothing of each other decide about the two ends
of one object; the caches are keyed by an address that `malloc` uses again; operations that
look like one from the outside are two critical sections (`createNewReference`); the return of a callback
is a step in which no lock is held that the monitor respects; a Java exception crosses JavaScript as a bare pointer that is valid for one native call; the monitor's map is locked on one side
only; the inspector reads a flag without a lock and waits for a lock after it. `hazards` in
`PROJECT.json` lists each at its line, with the properties that are about it.

## 2. The modules

### Handles

Models the first three components together, as they share their state. A V8 value
is named by the data it carries (`d`), or by its kind when it has none of interest; a value
the script reaches is in `jsHeld`. `refState` tells how far a `Reference` is: `fresh`
(created, its handle still empty), `held`, `lost` (unreachable and enqueued), `released`; an
identifier is used again for a new object, and so is an address, which is where the caches get
interesting.

| Action | Code |
|---|---|
| `NewValue`, `InitValue` | the two critical sections of `createNewReference` |
| `ReadFromJS`, `RunScript`, `Invoke` | the operations that return a new strong handle |
| `WriteToJS`, `DropFromJS` | a value becomes reachable for the script, or stops being so |
| `Resolve`, `DropProxy` | a `JSValue`, which keeps the handle and not the `Reference` |
| `SetPayload` | `setExternalValue`, `setFunctionHandler`: clear the old data, cache the new object, make the handle weak |
| `LoseRef`, `Release` | the JVM's collector; the monitor's `releaseReference` |
| `Finalize` | V8's collector: `clearReference` of the data, and its deletion |
| `Call`, `CallbackThrows`, `CallbackReturns`, `UseResult` | the trampoline, cut where it has read the result's handle and let go of the `Reference` |
| `StartRelease`, `FinishRelease` | `releaseRuntime`: a collection, then the caches |

An action is a critical section under both locks, except `Release` and the cut in the
trampoline. Where the code would dereference a released or an empty handle its behaviour is undefined; the actions have
guards that stop short of it (`Usable`, the guards of `Call` and `UseResult`), and
`ProxyUsable`, `HeldReferenceHoldsValue` say that the program gets
there. It gets to deleted data as well: a second `set` deletes the data of the first, to which a function the script kept
still points. `FreedDataForgotten` says that nothing but a second `set` does that.

`Release` is the clean-up action of `Runtime.track`, guarded by what the code expects of its caller;
`FreeHandle` is what the action does. The setters of plain values are not actions of their own: they put another plain value in a strong handle, which this model names alike.
The cost of adding them would be states that differ in nothing a property can see.

### CleanUp and ReferenceMonitor

`CleanUp` is the abstract specification: an object is tracked, becomes unreachable, is
cleaned once, and only while the native runtime exists. `ReferenceMonitor` is the code: `put` and `remove`
on the `HashMap` are each a read of the bucket and a write, since `clean` does not take the lock
that `track` takes. `TrackEnter`/`TrackExit` are the two halves of `track`; `Loop`, `Poll`, `PollTimeout`,
`CleanUpStep`, `RemoveRead`, `RemoveWrite` are `run` and `clean`; `CloseEnter`, `Join`,
`ReleaseRuntime`, `CloseExit` are `Runtime.close`. `raced` is a ghost that remembers an overlap. Two constants name what
the code does not decide: `Interruptible`, whether a closing thread can be interrupted in `join`,
and `Closer`, the threads that close.

### Reclamation

`Handles` and `ReferenceMonitor` composed, by `INSTANCE`, over one set of References. A native operation that makes a
`Reference` is at the same time the first half of `track` (`Create`), and nothing else happens under the Locker before its
second half (`Created`). The monitor's clean-up is `FreeHandle` of its current object, without the guards of
`Release`: that they hold is `HandlesKept`, the refinement of `Handles`, which gives every property of `Handles` to the
composition. `close` is `CloseEnter` and `Join` of the monitor, then the two steps of `releaseRuntime`. The code
expects of the program that no operation is in progress at that point (`StartRelease`), and does not check it. `HandlesMonitored` relates
the C++ heap to the Java map; `HandleReclaimed` follows a reference from the collector to the freed handle.

### Fifo and BlockingQueue

`Fifo` is the abstract channel: what was taken is what was put, in its order. `BlockingQueue` is the code, with
`pop` cut at `condvar.wait` and with spurious wake-ups. The ghosts `put` and `taken` are the refinement mapping.

### Inspector and InspectorQueue

`Inspector`: the connection's thread `WS` and the program's threads around the client's two flags and the queue, which is taken as a
sequence. A message is the number of its arrival. `ReadTerminated` and what follows it are
separate steps, as nothing protects them together. `Pause`, `LoopAgain`, `DispatchQueued`, `LoopEnds` are
`runMessageLoopOnPause`; `Release` is the end of the connection. The V8 session is external: `resume` calls
`quitMessageLoopOnPause`, `eval` runs code. A queued message is a view of a string that is freed when
`onMessageReceive` returns, so after that `Dispatch` lets the session read any message.

`InspectorQueue` puts `BlockingQueue` (by `INSTANCE`) in the place of the sequence: `StartPop`, `FallAsleep`, `WakeUp` and
`PopAndDispatch` are the paused thread in `pop`, with the Locker held all the time, and `PushAndNotify` is the connection's thread. That the rest of
`Inspector` does not notice is `InspectorKept`, the refinement of `Inspector` with its fairness.

### Locking

`V8.lock` and the `Locker` of each isolate, under the calls of any number of threads. `lock` and `locker`
name the owners, `calls` is, per thread, the isolates of its calls in progress (a callback may call the API again, for
the same or another isolate), and `pc` is where it is in the innermost. `V8` is a singleton, so all runtimes
share one `V8.lock`; a thread of a `Connection` dispatches messages without it. The recursion counters are not
state of their own: a lock is freed by the outermost call that took it (`FirstLocking`, `Outer`).

| Action | Code |
|---|---|
| `CallApi`, `TakeLock`, `Unlock` | a synchronized method of `V8.java`, from the program or from a callback |
| `Dispatch` | `InspectorClient`: a message or a new session, with the Locker but without `V8.lock` |
| `Enter`, `TakeLocker`, `FreeLocker`, `Exit` | `Runtime::newLocalContext`: `Isolate::Scope` first, then `Locker`, and their destructors |
| `Callback`, `CallbackReturns` | the trampoline calls Java with everything it holds |
| `StartRelease`, `EndRelease` | `releaseReference` on the monitor thread, under no lock |

### Throwables, Passage and Exceptions

`Exceptions` is the stack on which Java and JavaScript call each other. What a callback throws is thrown in JavaScript as an Error whose
`_nativeException` is the bare pointer of a JNI local reference, and what JavaScript does not catch is thrown in Java with
that reference as its cause. `table` and `frame` are the JVM's local references and the native call each was made in; the return of a
call (`Leave`) frees those of its frame, and no others. `native` is the pointer in each Error, `kept` are the Errors that the script keeps, `stale` is a ghost
for those whose call has returned. `Passage` is the abstract specification, in which an Error carries the throwable itself; `PassageKept` is the
refinement. `Throwables` tells throwables apart by the exception at their root and the number of
`ExecutionException`s around it.

| Action | Code |
|---|---|
| `CallNative`, `ScriptReturns`, `ScriptFails`, `ScriptYieldsNothing`, `CompilationFails` | `executeScript` (the invocations and accessors alike): into JavaScript, and out of it with a result, an exception of the script, neither (for which V8's `MaybeLocal` allows), or an exception of the compiler |
| `ScriptCallsCallback`, `CallbackReturns`, `CallbackThrows` | the trampoline |
| `JavaThrows`, `JavaCatches`, `ScriptThrowsNew`, `ScriptThrowsKept`, `ScriptCatches`, `ScriptDrops` | the program and the script |

What the code does with an Error that is kept beyond its call, with a thrown `null`, or without a result, is undefined: the cause is any
throwable (`Unknown`), in `Exceptions` as in `Passage`.

### LibraryLoader

The class initialiser of `V8` and `getInstance`, for any number of threads. `world` is what the code finds (platform, what is on
`java.library.path`, whether there is a jar, which library needs which, which ones fail to load for a reason of their own); it never changes. `class` is the JVM's state of the class, `pc` the statement a thread is at.

| Action | Code |
|---|---|
| `Call`, `EnterClass` | the first use of the class, by one thread; the others wait, or meet the failure |
| `LoadFromPath`, `ForceDependency`, `ReloadFromPath` | `automaticLoad` |
| `MakeDirectory`, `Extract`, `Copy` | `createTempDirectory`, `extractJniLibraries`: a file is `partial` while it is copied |
| `Preload`, `PreloadFails`, `WalkBreaks`, `LoadFromDirectory` | `manualLoad`; the preloading is on Windows only |
| `EnterMonitor`, `Check`, `CopyAsset` (with `OpenCopy`, `CopyFails`), `InitializeV8`, `MakeInstance` | `getInstance` and `getResourcePath`, with the copy of the ICU data on Android |
| `Restart` | the process dies at any point; the files in the directory of the `AssetLoader` stay |

What may fail: making the directory, listing the jar, each copy, the deletion of a copy that failed, a walk at its start (caught) or on its way
(an `UncheckedIOException`, which ends the initialiser), the load of the engine's library, the copy of the ICU data at its open or later, its deletion, and the initialisation
of V8; and of the other libraries those in `world.flaky`. The result of the load from `java.library.path` is the world's as well. `undeleted` is a ghost for the one failure that the code hides:
`getResourcePath` ignores whether the failed copy could be deleted, and returns its path all the same. `WholeFilesUsed` has it as its exception.

`PreloadReaches` says what the two rounds of preloading achieve: nothing is loaded that is out of reach, and everything is that is in reach and `Sound`. The comment at
`NativeLibraryLoader.java:172` has them "resolve possible circular dependencies"; a
cycle is never resolved (`CyclesResolved`, which the run `circular` violates; `CyclesStayOut`, proved), and a chain only as far as it runs against the order of the walk once.

## 3. The runs

| Run | Instance | What it shows |
|---|---|---|
| `handles` | 2 references, 2 addresses, 2 data, 2 objects, functions | ownership (`HandleOwnedOnce`), finalizers (`FinalizerSafe`), caches (`CacheMatchesHandle`, `CacheEntryBacked`), deletions (`FreedDataForgotten`) and look-ups (`LookupStable`) |
| `monitor` | 3 objects, 2 trackers, 1 closer that is not interrupted | the map, no clean-up after the release, one release, the refinement of `CleanUp`; enqueued objects are cleaned and `close` returns |
| `inspector` | 2 program threads, 4 messages | a thread sleeps in `pop` over an empty queue only (`SleepsOnlyWhenEmpty`), the queue is a FIFO channel (`FifoOrder`), and with it the client behaves as over a sequence (`InspectorKept`); no message is lost or doubled (`MessageAccounted`), overtaken only if left behind (`OvertakesLeftOnly`), and the client outlives its loop; every message gets to the session, with the two exceptions `MessageHandled` names; a pause can be ended, but for the three ways of `Hung`, and ends when asked |
| `locks` | 2 program threads, 1 connection, 2 isolates, 3 nested steps | one thread in an isolate, through nested calls too; isolates entered early do not collide; in every state but one kind, `Deadlocked`, some call can go on (`OneDeadlockOnly`), and calls return but for that one |
| `exceptions` | 2 native calls deep, 2 exceptions, 2 Errors, 3 local references, 2 wrappings | an Error's pointer is valid during its call (`ReferencesValid`), and the cause that comes out is the exception that went in (`PassageKept`) |
| `loader` | 2 threads, 3 libraries, 1 restart, all platforms and dependencies | one initialisation (`InitializedOnce`), no part of a file used (`WholeFilesUsed`), what preloading achieves (`PreloadReaches`), no thread left waiting (`CallsAnswered`) |
| `reclamation` | 2 references, 2 addresses, 1 function, 1 thread that tracks, 1 that closes | the composition implements `Handles` (`HandlesKept`), no handle escapes the monitor (`HandlesMonitored`), all are given back (`HandleReclaimed`) |

Why the bounds are enough. The bad cases of `Handles` need an address used again (two references
on one address), a weak handle replaced (two data) and an answer that can be told from the right
one (two objects). Functions alone are enough there, as they have three of the caches and the externals one; that
the kinds do not get in each other's way is proved for both. Two addresses are needed for one handle to hold another's value. `monitor`
needs two trackers to have one wait for the lock, and three objects for an
overlap of `put` and `remove` while a third is in the queue. `inspector` needs one message to enable the debugger, one to end a pause, one
that is left behind and one that overtakes it, and two program threads for one to enter while the other is asleep in `pop`; as the Locker lets one thread
pause, a second reader of the queue exists only in the proofs of `BlockingQueue`. `locks` needs two isolates for a call that
holds one Locker and waits for the other, and three nested steps for a callback, a call from within it, and a callback
of that call. `exceptions` needs two calls for a reference of the outer one to outlive the return of the inner one, two Errors
for one to be kept while another is thrown, and two wrappings for an exception that is rethrown by the outer callback. `loader` needs three
libraries for a chain that runs against the walk twice, two threads for the races, and one restart for
what a dead process leaves; `MCLibraryLoader` leaves out the worlds that differ only in what the code does not look at. `reclamation` needs two references on two
addresses for a handle to be freed while another is tracked, and an address to be used again. A bound of the counters
exists only in `MaxMessages` (of which `MaxPush` is an instance), `MaxNested`, `MaxDepth`, `MaxWraps` and `MaxRestarts`; `MaxNested` is also what says
that a script ends. Deadlock is checked for `exceptions`; in the other models the program may stop
(identifiers, messages or restarts are used up, the runtime is closed, a class has failed). The runs of `Handles` use the symmetry of the sets of
identifiers; they check safety only.

Five runs show properties that the code does not have, each quoting the text it is at odds with
(`findings` in `PROJECT.json`):

| Run | Property | What happens |
|---|---|---|
| `held_reference` | `HeldReferenceHoldsValue` | a `Reference` to a function or external does not keep its value: its only handle is weak |
| `proxy` | `ProxyUsable` | a `JSValue` outlives its `Reference`; the handle is released under it |
| `forgotten` | `NeverForgotten` | `remove` undoes an overlapping `put`: an object is never cleaned |
| `monitor_alone` | `MonitorAlone` | the monitor thread deletes a `Persistent` while another thread runs in the isolate, which V8's header forbids |
| `circular` | `CyclesResolved` | two libraries that need each other are not loaded by the second walk either, which the comment on it says it is for |

More behaviours are worth knowing, of which no text of the repository says the contrary:

- A function the script kept can find the callback of a later handle at the same address (`LookupStable` says what does hold of look-ups),
  and after a second `set` it points to deleted data (`FreedDataForgotten`).
- A message left in the queue when a pause ends stays there until the next one, and is overtaken by the messages after it;
  and a message whose thread has read `terminated` before a pause and waits for the Locker during it is stuck, and the paused thread
  with it. These are `LeftBehind` and `Stuck`, the exceptions of `MessageHandled`. Closing the connection during a pause hangs in the same way, and so
  does code that the debugger evaluates and that meets a breakpoint: the thread that would deliver the message that resumes is the one that waits for it.
- The cause of an Error that the script kept beyond its native call is read through a freed local reference; that of a
  thrown `null` or `undefined` is read from an argument that was not given (`Environment.h:141`). Both are in `PassageKept`.
- When the copy of the ICU data fails on Android and its deletion as well, `getResourcePath` returns the path of a partial file (`undeleted` in `WholeFilesUsed`).
- Outside of a jar nothing is extracted, without an exception, and the load of the engine's library fails.
- With several entries in `java.library.path` the path of the ICU data is not a file's (`NativeLibraryLoader.java:148`): this is the world
  with `resource` FALSE, in which `getInstance` fails each time. The temporary directory is never removed, as it is not
  empty when the JVM gets to its `deleteOnExit`.

## 4. Fairness

`ReferenceMonitor`: weak fairness of the monitor thread, of a `track` that has begun, of a `close` that has
begun: the JVM schedules threads that can run. None of the collector, of the program, or of the start of a
`close`. `Inspector` and `InspectorQueue`:
weak fairness of code that runs and of the loop, as scripts are assumed to end; strong fairness of the two
operations of `WS` that wait for the Locker, which others take and free again and again (a
lock that is freed infinitely often is granted). Nothing is assumed of new messages, so that no
property holds because the debugger is kind, nor of spurious wake-ups: who sleeps in `pop` is woken by a push or not at all.
`BlockingQueue` by itself has no fairness. `Locking`: weak fairness of each
thread's own steps, callbacks included, which end; strong fairness of `Acquire`, as for `WS`. Nothing is assumed of new
calls, of messages and of the monitors. `Handles` has no fairness: when a collector runs is its own affair.
`Reclamation`: weak fairness of the monitor thread and of a `track` that has begun, as in `ReferenceMonitor`. `LibraryLoader`: weak fairness of
each thread's steps; strong fairness of `EnterMonitor`, as the monitor of `getInstance` is taken and freed
again and again. `Exceptions` has no fairness.

## 5. What is proved

For every value of the constants (TLAPS, SMT and Zenon, LS4 for the temporal steps):

- `HandlesProofs`: `TypeOK`, `HandleOwnedOnce`, `FinalizerSafe`, `CacheMatchesHandle`, `CacheEntryBacked`,
  `FreedDataForgotten`, `LookupStable`. The invariant is `IInv`. The properties are not inductive one by one: that the caches match
  the weak handles (`CacheMatchesHandle`) needs that the parameter of a weak handle is data for that very handle (`FinalizerSafe`), which needs that no
  two references own a handle (`HandleOwnedOnce`), as `Release` would otherwise free the address of another; and
  all need `Bookkeeping`, that the handle of a reference still being made is strong. There is one lemma per action.
  Assumed: the constants are disjoint (`NoneAssumption`, `DataAssumption`, `KindAssumption`).
- `ReferenceMonitorProofs`: `TypeOK` and `MapExact` without further assumption; `NoCleanAfterRelease` if no closing thread is
  interrupted (`~Interruptible`); `ReleasedOnce` for a single closing thread; `PromiseKept`, the refinement of `CleanUp`, under
  both. Each hypothesis is needed: TLC violates the property without it (two concurrent `close` release twice; an interrupted `join` releases early).
  `MInv` adds to `MapExact` where the threads are (`Places`) and that what a `put` or `remove` has read is still there unless they overlapped (`Fresh`);
  `Joined` and `Counted` extend it for `close`.
- `BlockingQueueProofs`: `TypeOK`, `NoLostWakeup` and `FifoOrder`, the refinement of `Fifo`, for any readers (at least one), of which TLC checks the instance in `InspectorQueue`. The invariant says what has been taken followed by
  the queue is what was put, and that not all readers wait when the queue is not empty.
- `InspectorProofs`: `TypeOK`, `MessageAccounted`, `FlagsMatchLoop`, `ClientOutlivesLoop`, `PauseCanEnd`, `HungForGood`, `OvertakesLeftOnly`. The invariant has two halves, about where the
  threads are and about the messages; the first makes the Locker a lock, on which the other rests. `PauseCanEnd` adds that a thread that waits for a message has
  found `terminated` FALSE and that nobody can have set it since (`PopsWhileOpen`); the exceptions, `Hung`, are shown to be final (`HungForGood`: no thread takes another step).
  `OvertakesLeftOnly` needs both halves: the queue is sorted, and a message that goes directly to the session finds no loop under way.
  With the queue composed, `SleepsOnlyWhenEmpty` and the safety half of `InspectorKept` (`QueueKeepsInspector`) are proved: the invariant adds that a thread is in `pop` exactly while it is in the loop (`PopInv`), so that by the
  Locker at most one sleeps there, which is why one notification on the empty queue is enough.
- `LockingProofs`: `TypeOK`, `OneThreadRuns`, `EntriesExclusive`, `LockOrder`, `OneDeadlockOnly`, for any threads, isolates and depth of nesting. The
  invariant says who owns what: the Locker of an isolate belongs to the thread inside of it (`Held`), and `V8.lock` to the
  thread past the lock of its first synchronized call (`LockOwned`). Exclusion and `LockOrder` follow: a thread
  that does not own `V8.lock` and waits for it is in its first call, inside of nothing. `OneDeadlockOnly` goes round the circle:
  who waits for `V8.lock` waits for a thread with a call in progress (`OwnerWaits`); if that one waits, it is for a Locker; whoever has this Locker
  waits as well, without `V8.lock`, so for `V8.lock`, while inside an isolate: by `LockOrder` it is a connection's thread. `NoInspectorNoDeadlock` is the
  corollary for `Connection = {}`. Assumed: program threads and connections are different threads (`ThreadAssumption`).
- `ExceptionsProofs`: `TypeOK`, `ReferencesValid`, and `PassageKept`, the refinement of `Passage`, for any depth. The invariant adds to
  `ReferencesValid` that JavaScript runs in a native call only, and the bound on the wrappings. The step that needs it is the return of a call: the references it frees are those of the
  Errors that become stale, no more and no fewer.
- `LibraryLoaderProofs`: `TypeOK`, `InitializedOnce`, `WholeFilesUsed`, for any threads, libraries, jars and restarts, whatever fails. Neither property is inductive: one
  initialisation needs that there is one thread in `getInstance` (`MonitorOwned`) and that V8 is initialised without an
  instance only where that thread is about to make it (`Making`); whole files need that one thread extracts them (`InitialiserAlone`) and that those before `entry` are whole (`Extracting`).
  `PreloadReaches`, `CyclesStayOut` and `NobodyAbandoned` are proved as well. The first, which libraries the walks of the directory
  load, has the invariant `Preloading`: at any point of a walk the libraries loaded are among those all of whose chains turn against the walk fewer than
  `Walks` times, a number that is one higher for places the walk has passed and one lower for each walk that failed, and all of those that are `Sound` are loaded. A step of the walk then makes chains one link longer or shorter (`ChainLonger`, `ChainShorter`),
  and needs no induction along them; that a chain of more libraries than there are goes round a circle, and is as long again from its second
  library on, is the pigeonhole principle (`LongChainTurns`). `CyclesStayOut` says that no library on a circle of dependencies is ever loaded from the directory.
  `NobodyAbandoned` is the safe half of `CallsAnswered`: who waits for the class or the monitor of `getInstance` waits for a thread that is in it.
- `ReclamationProofs`: `HandlesKept`, the refinement of `Handles`, and `HandlesMonitored`, if no closing thread is interrupted (`~Interruptible`).
  The invariant is that of `Handles`, those of `ReferenceMonitor` (`MInv`, `Joined`), and `Link`: what the two know of a `Reference` agrees,
  the map has only tracked ones, and the release finds the monitor ended. The lemmas of both components' proofs are
  used, by instance, for their halves of each step; what remains is `Link`. The hypothesis is needed: a monitor that has not been joined deletes handles during the release.
  What the components promise alone is then carried over: the composition implements `ReferenceMonitor` without any hypothesis (`CompositionKeepsMonitor`), has the
  invariants and action properties of `Handles` (`CompositionHandlesSafe`, `CompositionStepsSafe`), and with one closing thread implements `CleanUp` (`CompositionKeepsPromise`).

With TLC only: every liveness property (fairness and `ENABLED` are beyond the prover), and the refutations. `CallsReturn`, `CallsAnswered`, `MessageHandled` and `ResumeEndsPause` have
their safe halves proved: `OneDeadlockOnly`, `NobodyAbandoned`, `SleepsOnlyWhenEmpty`, `PauseCanEnd`. `LockOrder`, `FlagsMatchLoop`, `CyclesStayOut`, `NobodyAbandoned`,
`NoLostWakeup` and `HungForGood` are proved, and not in a run.
No module declares a `RECURSIVE` operator, and no proof needs induction over data: the queue's order is
stated position by position, and a chain of libraries is compared with one that has one link more or fewer.

## 6. Not modelled

- V8 and the JVM (the collectors, the debugger's session, class initialisation, local references) and jjbridge-api and jjbridge-utils, which are other
  repositories: modelled from their use, and marked external. `src/jni/v8` is V8's headers and binaries; it is the greater part
  of the repository's lines, and none of it is this project's code.
- The accessors (they forward to the native methods; `Resolve` has what matters of them, that they keep the handle), the
  tables of JNI classes and methods (no state after start-up), the platform and channel adapters (stateless), `setFlags`, the
  contents and formats of values, and the equality, type and date operations, which change no state.
- The build files and the tests, from which `findings` and `hazards` quote.

Simplified in what is modelled, and why:

- `Handles` has one callback in progress. Nesting adds frames that hold no handle, only what is reachable from the program; the local references
  of nested frames are in `Exceptions`, their locks in `Locking`.
- A callback that returns null, and a JNI call that fails for want of memory: the code dereferences a null pointer there. They are hazards without
  a property, as no behaviour of the code could be stated. So are the handle of a callback's result, released between
  two lines of the trampoline, and a full table of local references.
- `Locking` has no creation and release of isolates: `Runtime.close` takes neither lock, and expects that no other
  thread uses the runtime. `Reclamation` has `close`, with that precondition.
- A cache call that throws half-way through `clearReference` or `storeInCache` (`FunctionCallbackData.h:31-65`), a `trackReference` that throws, and a
  `toString` of a Java exception that throws in its turn (`Runtime.cpp:108`): the operations are one step that cannot fail.
- `Locking` takes every synchronized method to go through the Locker; `newValue` takes `V8.lock` alone.
- What a property exempts because the code really does it is in the `note` of its hazard.
