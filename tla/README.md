# A TLA+ model of the Apigee iOS SDK

The SDK is three libraries in one: a client of the App Services REST API
(`src/source/Classes/AppServices`), an agent that monitors the application it is
linked into (`src/source/Classes/Services`, `UIEventTracking`), and a crash reporter
(`src/source/Classes/CrashReporter`, PLCrashReporter built into the SDK under names of its
own). The first two are driven by callbacks and timers on several threads and keep state in
objects that outlive a call. The third runs in a process that has just crashed: without
locks, without malloc, on data that may be incomplete. This directory models nine of their
components and checks them with TLC; the safety properties of all nine are proved with
TLAPS for every value of the constants.

## 1. Inventory

| Component | State it keeps | Operations | Works with |
|---|---|---|---|
| `ApigeeDataClient` + `ApigeeHTTPManager`: transactions | pool of managers; per manager: in use, transaction ID, delegate, handler, received data, lock; the client's delegate and its lock; the global ID counter | `getHTTPManager`, `httpTransaction` in three modes, asset calls, connection callbacks, `cancel`, `setDelegate:` | the application's delegate and handlers, called back from within; `NSURLConnection`, run loops, the main queue |
| `ApigeeDataClient`: OAuth session | token and logged in user; a copy of the token in each manager | `logInUser...`, `logInAdmin`, `logOut...`, `setAuth:`, `createResponse:jsonStr:` | the pool (every request is built by a manager), the server |
| `ApigeeCollection` | page, iterator, cursor, next, stack of previous cursors | `fetch`, `getNextPage`, `getPrevPage`, `resetPaging`, the iterator, `addEntity:`, `destroyEntity:` | the data client (synchronous calls), `ApigeeEntity`, other clients of the server |
| `ApigeeMonitoringClient`, `ApigeeIntervalTimer`, `ApigeeQueue` | active configuration, active / sampled / initialized / paused flags, current timer, queue of metrics | start, restart on a new configuration, `timerFired`, `uploadEvents`, `pause`, `resume`, app lifecycle, reachability, memory warning | the main run loop, the global dispatch queue, the interceptors, the server |
| Configuration cache, `ApigeeActiveSettings` | cached JSON file, parsed settings and their date | `retrieveCachedConfig`, `retrieveServerConfig`, `saveConfig` | the monitoring client |
| Log capture (`ApigeeLogCompiler`) | timestamp of the last entry sent (user defaults) | `compileLogsForSettings:` | the system log, `uploadEvents` |
| Session metrics | session ID and its expiry, `networkChanged` | `compileMetricsForSettings:` | `uploadEvents` |
| Crash report upload | the report on disk | upload, notification, purge at startup | the crash reporter, the server |
| Network interception | registry of data tasks; per connection: metric under way | swizzled `NSURLConnection` and `NSURLSession` | the monitoring client, the application's delegates |
| `ApigeeHTTPClient` | connection, count of the activity indicator | start, callbacks, `cancel` | nothing in the SDK's core |
| Entities, location, UI tracking, categories, `ApigeeClient` | property dictionaries | wrappers | the data client, system services |
| Crash reporter: list of binary images | a doubly linked list, its free list, a spin lock, the number of readers | append and remove (dyld's callbacks), iterate (crash handler) | dyld's threads, frame walking, symbolication, the report writer |
| Crash reporter: DWARF call frame information | a fixed table of register rules, shared by a stack of saved rows through buckets and a free list | `set_register`, `remove_register`, `push_state`, `pop_state`, the iterator; the interpreter `eval_program` | the DWARF frame reader |
| Crash reporter: DWARF expressions | a bounded stack of words, the place in the program | every opcode of `dwarf_expression_eval` | the application of register rules |
| Crash reporter: walking the stack | a cursor: the frame, the one before, its depth | `frame_cursor_init`, `frame_cursor_next`, the compact unwind, DWARF and frame pointer readers | the image list, the two above, the thread's registers and memory |
| Crash reporter: symbolication | the cache of mapped Objective-C sections and of classes | `find_symbol`, `find_method`, `cache_free`; the report writer's size and write passes | the symbol tables and Objective-C metadata of the images |
| Crash reporter: reports | signal handlers, the report file | install, crash, encode | everything above |
| ThirdParty, protobuf-c, samples | | vendored or generated code, applications | not part of this verification |

What is hard here:

* **Callbacks into the application that call back.** A delegate or handler may start
  transactions or replace the delegate before its own transaction's manager is released.
* **State read before a lock and used after it**: a manager's `m_delegate` is tested
  before its lock is taken; `isAvailable` and `setAvailable:` have no lock.
* **Two kinds of lock, nested**: each manager's and the client's.
* **Late answers**: `setDelegate:` and `logOut:` do not stop what is under way.
* **Failures that look like success**: a failed request is an empty page.
* **Timers that are one-shot, asynchronous and replaced**: the agent goes on only if
  every one that fires establishes another.
* **Lifecycle notifications during startup**, on another thread than the startup.
* **Readers without a lock beside writers with one**: the crash handler walks the image list
  while dyld changes it; nodes are recycled, and freed only when nobody reads.
* **One fixed pool of entries for all saved rows** of a table that arbitrary programs push,
  pop, overwrite and fill.
* **Several sources that know different things**: a frame is read by the first of three readers
  that can, and what it does not restore the next frame lacks.
* **A cache between two passes that must agree**: the report's sizes are computed by lookups
  that are then made again, with a cache that the first ones changed.

The full list, each at its line, is `hazards` in `PROJECT.json`.

## 2. Modules

| Module | Contents |
|---|---|
| `DataClient` | transactions: pool, modes, callbacks, `cancel`, `setDelegate:`, locks |
| `ClientPromise` | what it promises the application of each call |
| `DataClientProofs` | its safety and the refinement for a client used from one thread, its locks for any threads, any number of calls |
| `AuthSession` | the token, its copies, logins and logouts, the server's tokens |
| `Collection` | paging, iterating, adding, destroying, with a changing server |
| `AppServicesProofs` | the safety of both: of the session for any users, tokens and pool, of a collection for any page size |
| `MonitoringClient` | start and restart, timers, lifecycle, recording and uploading |
| `MonitoringClientProofs` | its safety for any number of metrics, workers, timers and uploads |
| `AsyncImageList` | the list of images, one step per read or write that others can see |
| `ImageListPromise` | what it promises: a sequence of images that calls change at once |
| `AsyncImageListProofs` | its safety for any number of writers, readers, nodes and images |
| `DwarfCFA` | the table of register rules and the interpreter of CFA programs |
| `DwarfRows` | what each opcode means: rows, each a function from registers to rules, and the two deviations of the code |
| `DwarfCFAProofs` | its safety, and that its rows change as the opcodes mean, for any table and any rules |
| `DwarfExpression` | the stack machine of DWARF expressions |
| `ExpressionTrees` | expressions, their value without a stack, and their compilation |
| `ExpressionProofs` | the types of the evaluator, and the values of expressions of any depth, for words of any width |
| `ThreadState` | a thread's registers, their DWARF numbers, which of them are preserved |
| `CompactUnwind` | register permutations, the search in the unwind section, an encoding's effect |
| `DwarfUnwind` | the search in the frame section, the application of a row |
| `FrameUnwind` | a thread that calls and crashes, and the cursor that walks back, using the three above |
| `FrameUnwindProofs` | the safety of the search, the lists and the walk, for any program and stack |
| `MachOSymbols` | the search of a symbol table for the closest symbol |
| `Symbolication` | a lookup in symbol table and classes, the cache, the writer's passes; uses `MachOSymbols` |
| `SymbolicationProofs` | the safety of the cache, for any process and stack |
| `MC...` | each extends a module for TLC; the `.cfg` files give the constants |

Operators whose comment begins with "Fault:" are not part of any specification: each is
an action with one plausible mistake, kept next to the right one, to show that a property
would notice it. `PROJECT.json` pairs each with its property under `mutants`.

### DataClient

*State.* A manager is its position in `m_httpManagerPool`; the functions on `Managers`
are its instance variables (`m_bAvailable`, `m_transactionID`, `mgrDelegate` for
`m_delegate`, which is the client or nil, `completionHandler`, `m_receivedData`,
`mgrLock` for `m_delegateLock`). `m_delegate` and `m_delegateLock` are the client's.
A request is the number of its call. `state`, `managerOf`, `idOf`, `asked`, `threadOf`
say where it is; `answered`, `answer`, `cancelled` record what the application saw.
`pc`, `cur`, `call`, `newDelegate`, `frame` are a thread's place in the client's code
and the application callback on its stack.

*Actions.* `getHTTPManager` is split where another thread can come between, at the read
of `isAvailable` and the write of `setAvailable:NO` (`getHTTPManager`, `takeManager`,
`growPool`). The call then goes on in one of its modes: `syncTransaction` and
`syncReturn`, `asyncTransactionDelegate`, `asyncTransactionHandler`, or the early return
of an asset call with an empty argument (`startBadArgs` with a completion handler, `syncBadArgs` without).
`blockingCallEnds` is the end of every blocking call: it answers its caller, but for an upload
(`attachAssetToEntity`, `assetUpload` in the model) that has failed, for which the code returns nil. `didReceiveResponse`,
`didReceiveData`, `connectionEnds` and `connectionEndsUnheard` are the
`NSURLConnection` callbacks of a delegate-mode transaction; `callbackLock` and
`httpManagerCallback` take the two locks in the code's order. `completionBlock` is the
block that runs on the main queue. `delegateReturns` and `handlerReturns` are the code
after the application's callback. `setDelegate`, `cancel` (one manager a step) and
`installDelegate` are `setDelegate:`. Between a callback's start and its return the
application may make any call on that thread.

`ClientPromise` knows of each call only whether it is unmade, made, sent, answered, abandoned or ended with nil, whether it is a
blocking upload (only such a call may end with nil), to whom it was sent
and by which ID; of the client, its delegate and whether `setDelegate:` is running (`pc[Main] = "cancel"`). `ClientKeepsItsPromise`
maps a call's state, answers and cancellation to that (`Status`). A call that the code ends without an answer or answers twice
has a status that the promise does not have, so that the refinement would fail.

*A thread serves its run loop only when it is out of the client* (`RunLoopFree`), and
not from within a callback: nested run loops are not modelled.

*Not modelled:* the CRUD methods (each is one `httpTransaction`), custom headers,
`lastError`, and that a blocking download reads its manager's ID and error after the release.

### AuthSession

`m_auth`, `m_loggedInUser`, `poolSize` and `mgrAuth` (the managers' copies) are the
client's state; `flight` is the request of each manager with the header and URL that
were put into it, `lastToken`, `owner`, `valid` the server's tokens and `dropped` the
tokens that logouts removed. Every call is one action: a clearing of the token where the
code has one, and `httpTransaction`, which takes the first free manager and builds the
request with the manager's copy. `serve` is the server and leaves open whether it accepts; requests and replies
may be lost and come in any order (`createResponse` with `delivered` false or late). A
Facebook login is taken to be answered with a fresh token like the others. Calls are
atomic here; their interleaving is `DataClient`'s subject, as is cancellation.

### Collection

An entity is the number the server gave it; a query is answered with the first
`PageSize` entities after the cursor, and a cursor if there are more (`Answers`,
`PageCursor`, external). The five ivars are variables of the same names; `page`, `seen`,
`upTo`, `unbroken` are history: what has been shown to the application since the
traversal began, and whether it has been in order. Every method is one action that ends
with the fetch it makes. A request that fails gives a response without entities and
without a cursor, because `fetch` tests `error` and `createResponse` never sets it. The pending response of a client with a delegate is the same case.
Not modelled: setting the properties and `saveCursor:` from outside,
`getEntityByUuid:`, use of a collection while its asynchronous initializer still runs.

### MonitoringClient

`settings` is `activeSettings` up to whether it disables monitoring, the flags are the
properties of the same names. An `ApigeeIntervalTimer` is a number: `tstate` says whether
its `NSTimer` is still to be set up on the main thread (`pending`) or `scheduled`, `timer`
is the one that `self.timer` holds; the code loses hold of timers that go on living.
A worker is a block on the global queue that retrieves the configuration and runs
`startMonitoring`, in steps where the main thread can come between (`startMonitoring`,
`forgetTimer`, `notStarted` or `flipCoin`, `fire`, `establish`, `finish`), under
`@synchronized (self)` (`syncLock`). Main-thread code is atomic. Recording is two steps (`recordNetworkEntry`, the
checks; `enqueue`), since `pause` on the main thread may run between them. An upload
dequeues everything, posts, and gets an answer or not.

Assumed of the server: its configurations carry `lastModifiedDate` and the application's
identification, so that `isAbleToSendDataToServer` holds once there is one (the
branch of `timerFired` that retrieves the configuration is then never taken).
`applicationWillTerminate:` cancels the timer as the background does. Not modelled: crash
reports, listeners, location, the data task registry, the dates of configurations.

### AsyncImageList

*State.* `head`, `tail`, `free`, `refcount`, `write_lock` are `async_list`'s, `value`, `prev`
and `next` the fields of its nodes, `heap` the nodes that malloc has given out; `imageNode` is
the `_node` that the image list caches in each image. `pc`, `op`, `image`, `header`, `node` are
each thread's place and locals. `must`, `seen`, `strayed` are a reader's history: images that
have been there since it began, images it returned, and whether its node was removed under it.

*Actions.* A step is one read or write that another thread can see; `OSSpinLockLock` is `lock`.
Appending: `lock`, `recycleNode` or `newNode`, `resetNode`, `pointAtHead`, `linkFirst`,
`linkLast` or `linkHead`, `unlock`. Removing by header (`seek`, which itself reads like a
reader and is counted as one) or by node: `unlink`, `testCount`, `toFreeList` or `delete`,
`unlockRemove`. Reading:
`startReading`, `fetchNode` (the first time through the head, then through the image's node),
`noteNode`, `returnImage`, `endReading`. Only the count lives outside the lock.

`ImageListPromise` is the sequence of images in the list; `ListKeepsItsPromise` says that each
append and each removal takes effect at one step, the compare and swap.
Images of dyld come and go in any order, but one header is not handled by two threads at once
(`Busy`). Not modelled: destructors, an image that cannot be read.

### DwarfCFA

`stack` holds a record per saved state (`table` of buckets, `count`, `cfa`), `entries` and
`free` are the shared pool, `rm` the progress of `remove_register`, whose loop takes one step
per removed entry because it goes on along the link that the removal has just rewritten.
`program`, `pc`, `location`, `step` and `initial` are the interpreter's: the CIE's program,
whose result is kept for `restore`, then the FDE's. An opcode is an action of the
name it has in the code; the program is not fixed beforehand but is any sequence of opcodes.
`DwarfRows` knows nothing of entries: it has the rows and the initial rules, and an operator for what each opcode does to them.
`StepMeans` (in `DwarfCFA`) says of every action which of these it is, with its own register and rule, or that it fails and
changes no row. The meaning is that of DWARF 4, section 6.4.2, but for two opcodes: `RememberState` begins an empty row where the
standard's `KeepState` goes on with the saved one, and `RestoreExtended` removes register 0 where `Restore` removes its own.

### DwarfExpression and ExpressionTrees

`program`, `ip`, `stack`, `status` and `result` are those of the evaluation; words are of `Width` bits, and every
arithmetic operation wraps. Each opcode is an action, with each of its failures. `Trees` are expressions, each of which
is higher (`Height`) than its operands (`IsTree`); `Compile` gives the code a compiler would emit for one (with temporaries by
`dup`, `over`, `rot`, conditionals by `bra` and `skip`, loads of either address space),
`Values` the value it has, `Need` the stack it needs: recursive functions on the set of trees. The meaning of an operation (`Apply`) is written on
the integers that words stand for, apart from the evaluator's own arithmetic (`Binary`). Which integers these are in a division
or an order comparison is a constant, `Reading`: signed ones as in DWARF 4, section 2.5, or unsigned ones as the evaluator has it. Shifts by the width or more are undefined in C++ and are
left open by both. `Exact` says where the evaluator computes what a compiler meant: it is the hypothesis under which
`ExpressionValue` is proved (section 4 has the three observations behind it). `tree` does not
change and is not read by the evaluator. Trees of kind `malformed` are programs that no compiler emits; the run has them for the error paths.

### ThreadState, CompactUnwind, DwarfUnwind, FrameUnwind

The environment is a program: functions with what their prologues do and what describes
them. The thread calls (`Call`) and crashes (`crash`); `regs` and `mem` then are what the walker
sees, `callers` is what it should find. `UnwindInfo`, `FrameSection`, `Encoding` and `RowRules` are
what compiler and linker write about the program, in one of several page layouts. The cursor is
`depth`, `frame`, `prev_frame`; `firstFrame`, `cursor_next`, and for each reader in turn `tryReader`
with the whole check of the result (`takeFrame`: there is a pc, and it is not in the first page) are `frame_cursor_next_with_readers`. Each reader is an operator
that returns a state or an error: `read_compact_unwind` with `find_pc`, `entry_init` and `entry_apply`,
`read_dwarf_unwind` with `find_fde`, `cfa_value`, `apply_state`, and `read_frame_ptr`. Either section may be missing; a
function without a section that describes it is left to the frame pointer.

Assumed: a crash happens in a function's body and not in its prologue; a call is not the last
instruction of its function; a frame pointer used for something else holds no address. Not
modelled: the bit fields of encodings, malformed sections, the parsing of CIEs and FDEs, ARM
(for which only frame pointers are read). An expression is evaluated by what the simplest of its kind does: that of a CFA is a
register and an offset (a `breg`), that of a register's rule the CFA and an offset; other expressions (`DwarfExpression` has them all),
and an expression whose bytes cannot be mapped, are left out. Addresses count words.

### MachOSymbols and Symbolication

A process is a record of what its memory holds: images with their symbol tables, class and
category lists, `class_rw_t` and `class_ro_t`, some of them unreadable or unrealized.
`cache` is `objc_cache`: which sections are mapped, of which image, and a table from
`class_rw_t` to `class_ro_t` in which addresses collide. `live` counts the mappings that exist.
A lookup is a series of steps: `searchSymbolTable`, `parse_from_module_info` (the first
runtime), `map_sections`, `parseClass`, `parseMetaclass`, `endOfClasses`, `parseCategory`,
`endOfCategories`, each of which keeps the closest method (`objc_symbol_callback`) and sets `err` the
way the code's `continue`s leave it. The writer (`write_thread_frame`, `write_thread`) asks for each symbol
twice per message, each frame's message is packed once for its size and once in earnest,
and a thread's frames are visited in both of the thread's passes. `cache_free` ends the report.

Assumed: every image has an `LC_DYSYMTAB` (without it the code reads uninitialized counts),
names can be read, metadata of the first runtime can be read, a process has one runtime, a frame's image
is known, a section that is missing is reported as not found.

## 3. Runs

| Run | Question | Result |
|---|---|---|
| `DataClientMain` | one thread, two calls of any kind, two delegates: are managers shared, do answers go astray, twice or missing? | holds |
| `DataClientThreads` | two threads: does the client's lock keep delegate callbacks apart, and `setDelegate:` from returning during one? | holds |
| `DataClientLocks` | can two threads wait for each other's locks? | violated |
| `CollectionPaging` | does a traversal skip anything, is the iterator in bounds, is there always a cursor? | holds |
| `AuthSession` | do token, copies and user agree under any order of replies? | holds |
| `MonitoringClient` | is a metric posted twice, does the chain of timers break, do metrics get uploaded? | holds |
| `AsyncImageList` | can a reader come upon a freed node, a broken link or a cycle, or miss an image that stays? | holds |
| `AsyncImageListView` | does every reader see every image that stays? | violated |
| `DwarfCFA` | does an opcode ever change a rule or a row but the one it names, does the iterator return a row whole? | holds |
| `ExpressionTrees` | does a compiled expression evaluate to its value, in the evaluator's reading of numbers, and end? | holds |
| `FrameUnwind` | are the frames found real, with the right registers, and is none missing? | holds |
| `Symbolication` | is the cache sound, do sizes agree with messages, is the closest symbol named? | holds |

### Bounds and why they are enough

* `MaxRequests = 2` in `DataClientMain` (120 thousand states): the second call can reuse
  the first one's manager, be made from its callback, or run beside it. The proofs lift the
  bound for the four invariants and the refinement; liveness is for two calls. Two delegates: the old one and the new.
  A delegate that is rejected is always among the choices.
* `DataClientThreads` (4.3 million states): two threads, two calls, one delegate: the
  mutual exclusions relate two callbacks, or a callback and a `setDelegate:`. Callbacks
  nested in `setDelegate:` loops are included.
* `CollectionPaging`: `PageSize = 2`, five entities: three pages, the last one short;
  `MaxPrevious = 2`: two steps forward and back. The proofs lift all three.
* `AuthSession` (640 thousand states): two users and an administrator, two requests in
  flight, two tokens: two logins under way in either order, a logout between them. The
  proofs lift them all.
* `MonitoringClient` (160 thousand states): `MaxTimers = 4`: a timer that has fired and up to three alive, which
  resume, foreground and a start leave behind together; `MaxUploads = 2`:
  two concurrent uploads; two workers: the initializer's and a refresh. `MaxEvents = 2`: any pair of events (background
  and foreground, pause and resume, network change and background) at any points of the start-up,
  the refresh and the timers. One metric: uploads treat them alike and take the whole
  queue. A guard stops an action that would exceed a bound.

* `AsyncImageList` (640 thousand states): two writers and a reader; three nodes, so that one can be
  listed, one on the free list and one in hand; three images of two headers, so that
  an image is loaded again at an address that was in use. Nodes and writers are symmetric. The proofs lift these
  bounds for the invariants. `AsyncImageListView` needs one writer only.
* `DwarfCFA` (140 thousand states): three registers in two buckets, so that two share one; two
  entries, so that the table is full before every register has a rule; two states, so that one is saved and
  `push_state` fails; counts up to 2, so that they wrap. There is one rule besides none: with two the run takes longer than
  is reasonable, so that TLC never sees a rule replaced by a different one. The proofs lift all of these, this one too.
* `ExpressionTrees` (700 thousand states): words of four bits, so that every sign and overflow
  occurs, in two bytes, so that loads of both sizes do; a stack of four with one word on it, so that
  some of the trees overflow it. Every operator is applied to all leaves, and
  to results of others on either side; `Malformed` has the programs that no compiler emits. `Reading` is the evaluator's.
* `FrameUnwind` (750 thousand states): up to three calls in programs of a plain function and two
  of any of the twelve shapes, so that each reader follows each other; both architectures, four layouts of the
  sections (functions on one page or two, of either kind, no frame section, or no unwind section); besides, each of the
  1956 lists of saved registers in a program of its own.
* `Symbolication` (370 thousand states): two images, so that one evicts the other's sections;
  stacks of up to two frames; a cache of two slots; one failed allocation at any time;
  seventeen processes, which vary in the runtime, in which
  class is realized, whether there are categories, whether metadata is readable, Thumb code.

Deadlock is checked where a caller can always act (`DataClientMain`, `CollectionPaging`,
`AuthSession`, `AsyncImageList`). It is off in the other runs: the lock cycle is a real
stop of the two-threaded client (`DataClientLocks` shows it), a paused or disabled agent whose
events are used up has nothing left to do, and a CFA program, an evaluation, a walk and a report end.

### Properties

* `OneTransactionPerManager`: an unfinished transaction's manager is not offered again
  and serves no other.
* `ResponsesMatchRequests`: a response carries its own call's ID and bytes, though both
  are read from fields of a manager that the next transaction overwrites.
* `AnswersGoToTheAskingDelegate`: across cancellation, late events and replaced delegates.
* `ClientKeepsItsPromise`: the refinement of `ClientPromise`, across the same: no call is answered
  twice, answered after it was abandoned, or lost.
* `EveryCallIsAnswered` (liveness): or cancelled by `setDelegate:`. Both have one exception, which the code
  really has: a blocking upload that fails ends without an answer, as the caller gets nil (section 4).
* `DelegateCallsExcludeEachOther`, `setDelegateWaitsForCallback`: what the client's lock
  is for.
* `NothingRaises` (`NextHasCursor` and `IteratorInList`), `NextPageFollows`, `NothingSkipped`: a page's cursor
  exists and is its end, the iterator survives every replacement of the list, and pages
  asked for in order have shown every entity that still exists up to where they have come.
* `ManagersCarryTheToken`, `LoggedInUserOwnsTheToken`, `DroppedTokensAreNotSent`: the
  copies of the token agree, also in managers that are busy or join later; user and token
  come from the same reply; a request built after a logout never carries the token it removed.
* `PostedAtMostOnce`, `UploadsGoOn`, `MetricsGetUploaded`: the upload's dequeue is the only
  way out of the queue that posts; a monitoring agent has a timer coming; a queued metric is taken up or
  monitoring has stopped. `UploadsGoOn` has one exception, which the code really has: if the app goes to
  the background and returns while the agent starts, the new timer is cancelled and
  the foreground does not re-establish it because `isInitialized` is not yet set
  (history variable `missed`).
* `ListIsSound`: while no writer is at work the links lead from the head to the tail and back;
  and at any time a walk ends, also one that strayed onto the free list. `ReadersAreSafe`: the count is that
  of the readers, and neither list nor reader holds a freed node.
* `UndisturbedReaderSeesAll`: a reader whose node stays in the list returns every image that was there
  throughout, and none twice. `ListKeepsItsPromise`: the refinement of `ImageListPromise`.
* `EntriesAreShared`: the chains of all buckets of all saved states and the free list are disjoint, and a
  chain has a register once. `IterationIsComplete`: the iterator returns each of the current row's entries
  once. `RowsAreKept`: each opcode does to the rows what `DwarfRows` says of it, or fails: it changes the current row in the one
  place it names and no other rule or row, however entries are shared, `restore_state` goes back to the row that was saved, and `restore` to the
  rule the program began with. For `remember_state` and `restore_extended` this is what the code does, not the standard or its comment (section 4).
* `ExpressionValue`: the result is the value of the tree and the rest of the stack is untouched; an
  error comes only where the tree has no value or needs more stack than there is. For division and the order comparisons
  the value is the unsigned one (section 4). `EvaluationEnds` (liveness).
* `FramesAreReal`: each frame is a caller of the one before and every register that the walker claims to know has the value
  it would have had. `NoFrameIsMissing`: where all functions on the stack are described, the walk is complete.
  `LookupFindsTheFunction` and `RegistersRoundTrip` are about pure functions: the two-level
  search against the list of functions, decoding against encoding.
* `CacheOK`: no section is mapped twice, lost, or taken for another image's, and all are
  unmapped in the end. `FramesFitTheirSize`: the
  lookups of a frame agree with each other in every pass. `NearestSymbolIsNamed`: the answer is the
  closest symbol before the pc in all tables. The exceptions are stated in the property: an image whose metadata is not searched to its end (`IsSearchable`:
  a section is missing, a class cannot be read, the methods of one that is realized are not in the image's own section, only
  one of it and its metaclass is realized, or the last item is skipped); a pc at the first instruction of a Thumb method, whose IMP is one more than that; and
  a symbol that begins inside of that instruction (`IsDisjoint`), which no linker emits. The third, and the
  parts of `IsSearchable` about the sections of methods and about metaclasses, were found by the proof: in the run's processes they do not occur.

### Fairness

*DataClient.* A thread in the client's code goes on and a blocking request returns (weak
fairness: threads are scheduled, requests time out). The application's callbacks return;
every connection ends with `didFailWithError:` or `connectionDidFinishLoading:`
because `NSURLConnection` times out; and a run loop serves all its sources even if the
application keeps calling the client. The last two need strong fairness, since a call on
the same thread disables the callback for its duration.

*MonitoringClient.* Some worker, some timer and some post that can go on does (weak
fairness of the dispatch queue, the main run loop and the connection's timeout), and an
upload that is dispatched again and again finds at some time a network that it may use (strong fairness). Nothing
is assumed of the application or of the lifecycle.

*ExpressionTrees.* The evaluator is sequential code: as long as it can take a step it does (weak
fairness). Nothing else has fairness; the other components' properties are safety properties.

## 4. Findings and observations

Two runs show a disagreement of the code with a comment:

1. `NoLockCycle` (`DataClientLocks`): a delegate callback that calls `setDelegate:` waits for another
   manager's lock while holding the client's; a callback of that manager on another thread waits for
   the client's. The comment says "it's safe to call cancel at all times".
2. `ReaderSeesAll` (`AsyncImageListView`): `nasync_remove_node` may not free a node that a reader stands on and puts it
   on the free list, by writing the `_next` that the reader is about to follow. The reader goes on into the free
   list and misses images that stay loaded. The comment promises "a consistent view of the list for readers".

The modules state further properties that the code does not have and that no run lists; TLC refutes each when it is put
as the only property into the component's configuration:

* `CancelledManagerComesBack` (`DataClient`): `cancel` clears delegate and handler, and the callback of a
  manager with neither does nothing, so it is never released, although the comment in `cancel` says it
  remains in use "until we receive a response or error". Each `setDelegate:` leaks the managers under way.
* `UploadsReturnAResponse` (`DataClient`): when a blocking upload fails, `attachAssetToEntity` fills a second variable
  `response`, declared in the `else` branch (`ApigeeDataClient.m:609`), and returns the first, which is still nil (`:617`). The header says
  "@return ApigeeClientResponse instance" (`ApigeeDataClient.h:1818`). The caller cannot tell why the upload failed; a message
  to nil makes `completedSuccessfully` read as NO. The blocking download, written the same way, does return its failure.
* `OneTransactionPerManager` with two threads (the configuration of `DataClientThreads` with `MaxRequests = 3`:
  one call leaves a manager that two others then take at once): the scan of the pool has no lock. The SDK
  itself uses the client off the main thread in the asynchronous initializers of `ApigeeCollection`.
* `PrevPageGoesBack` (`Collection`): the cursor pushed by `getNextPage` leads to the page being fetched, so
  the first `getPrevPage` fetches the same page. `HasNextPageIsTruthful`: a failed request ends the traversal.
* `LogOutDestroysTheToken` (`AuthSession`): `logOut:` clears the token before it names it.
* `BackgroundTurnsOffTheTimer` (`MonitoringClient`): timers that are pending, or were replaced
  without being cancelled, survive `applicationDidEnterBackground:`.
* `CountsTheRules` (`DwarfCFA`): `remove_register` goes on from the entry that it has put on the free list
  (`ApigeePLCrashAsyncDwarfCFAState.cpp:219`) and counts down for free entries of the same register.
* `RememberKeepsTheRow` (`DwarfCFA`): `push_state` begins with an empty row, and `DW_CFA_remember_state` leaves it at that, so
  that a row after it has only the rules that follow. The comment before `eval_program` says "as defined in the
  DWARF 4 Specification, Section 6.4.2" (`ApigeePLCrashAsyncDwarfCFAStateEvaluation.cpp:57`), where the rules are saved and go on to apply.
* `RestoreRemovesItsOwnRule` (`DwarfCFA`): `DW_CFA_restore_extended` of a register without an initial rule removes the register
  `const_operand`, which is 0 for this opcode (`:428`); the comment there says "or remove the register if the initial state has
  no associated value" (`:423`).
* `ExpressionValue` with `Reading = "signed"` (`ExpressionTrees`): `DW_OP_div`, `le`, `ge`, `lt` and `gt` work in the unsigned type
  `machine_ptr` (`ApigeePLCrashAsyncDwarfExpression.cpp:430`, where the divisor is signed but the dividend is not; `:563`), whereas the comment before `dwarf_expression_eval` says "as defined in the
  DWARF 4 Specification, Section 2.5" (`:48`), where they are signed. `Exact => ExpressionValue` holds of all trees of the run with either reading.
* `ExpressionValue` with `Trees <- MCRegisterTrees` (`ExpressionTrees`): `DW_OP_bregx` falls through
  into `DW_OP_dup`.
* `ExpressionValue` with two words on the initial stack and the well-formed trees of the run (`ExpressionTrees`): `pick` ignores that `push` fails on a full
  stack and returns success (`dwarf_stack.hpp:157`), so that an `over` goes on without the copy and the evaluation ends with a wrong value instead
  of an error. The proof found it; `Exact => ExpressionValue` holds of all trees there.
* `MethodsAreFound` (`Symbolication`): the error of a last class or category that is skipped because it is not
  realized is what the search returns, though it found the method (`ApigeePLCrashAsyncObjCSection.cpp:932`).

Met while modelling, and part of the models or excluded by a stated assumption (file names without `ApigeePLCrashAsync`): images without `__objc_catlist`
get no Objective-C symbols (`ObjCSection.cpp:350-356`); the IMP of a Thumb method is one past its first
instruction's pc (`:1120`); counts of symbols are uninitialized without `LC_DYSYMTAB` (`MachOImage.c:880`);
`pop_state` does not return the entries of the
state it drops; the order in which the two operands of `DW_CFA_def_cfa` and of `DW_OP_bregx` are read is unspecified in
C++ (`DwarfCFAStateEvaluation.cpp:230`, `DwarfExpression.cpp:281`; taken to be the written one); a node taken from the free list is reset so that the rest of the list is lost
(`LinkedList.hpp:263`).

## 5. Proofs

The theorems have the form `Spec => []P`, or say that `Spec` implements an abstract specification, from an inductive invariant `IndInv` that is
defined in the component's module next to the properties (for expressions, with their proofs).

*`DataClientProofs`* assumes `SingleThread` (`Threads = {Main}`): section 4 says why the
ownership of managers is false without it. The properties are not inductive. That an
unfinished transaction's manager is not available (`OwnershipInv`) depends on what the thread
holds between the scan and the start (`CallInv`); that an answer has its call's ID and bytes
depends on the fields of a manager staying those of its owner (`FieldsInv`, `BufferInv`);
that an answer goes to the delegate that was asked depends on `setDelegate:` having
cancelled every manager it has passed (`CancelInv`) and on no callback being past its lock meanwhile
(`FrameInv`). Each conjunct is preserved by each action in a lemma of its own; lemmas
about the shape of a step (what a call, a callback, a return changes) come first.

`CallsAreAnsweredOrAbandoned` is the refinement by `ClientPromise`. A call's abstract status is computed from its state
(`Status`). That it only moves as the promise says needs `PromiseInv` besides `IndInv`: transaction IDs grow, so that a new one is new; a call
under way in delegate mode was cancelled exactly if its manager has lost its delegate, so that a callback that finds none drops only what was abandoned; and a
call that has ended was answered or abandoned, or is a blocking upload that returned nil. Each action is then a step of the promise or leaves every status alone; a step of
`cancel` abandons one call, because a manager has one owner.

The two properties of the locks are proved without that assumption, from an invariant of their own: `LockInv` says that
a thread within a delegate's callback stands, with its whole stack of callbacks, under the client's lock
(`CalledUnderLock`), and that a thread's calls and frames are those the code can be in. With it two threads cannot both be called back,
and `setDelegate:`, which takes the lock to change the delegate, comes after the callback that is running.

*`AppServicesProofs`*, of `Collection`: `NothingRaises` and `NextPageFollows` follow from the shape of an answer,
for which the main lemmas say that its last element is its greatest and that nothing
before it is missing. `NothingSkipped` needs `ResumesWhereSeen` (an unbroken traversal resumes
at or before the place up to which it has seen everything) and `KnownEntities` (an
entity created later has a greater number).

*`AppServicesProofs`*, of `AuthSession` (whose invariant is `AuthIndInv`): `LoggedInUserOwnsTheToken` and `DroppedTokensAreNotSent` need that a token is in
one place at a time (`TokenInOnePlace`): the client's, a reply's, or dropped. This holds because the server issues
each once (`TokensAreIssued`). `DroppedTokensAreNotSent` is a property of steps: the request is built with
the copy that `ManagersCarryTheToken` identifies with the client's token.

*`MonitoringClientProofs`*: `PostedAtMostOnce` follows from `MetricInOnePlace`: a metric that has yet to be
posted is being recorded or queued, not both, and one that was posted is neither. `UploadsGoOn` follows from
`ChainHolds`: an agent that is to monitor, initialized or not, has a timer that is pending or scheduled, or a worker
at one of the steps that lead to one (`Starting`); that is said of each such step, because the main
thread can come between any two of them.

*`AsyncImageListProofs`*: the difficulty is that the list is a walk over a heap that changes by one link
at a time. `Walk(h, next)` is defined as the nodes that are in every set which contains `h` and is closed
under `next`, so that it needs no recursion, and lemmas say what one changed link does to it (`WalkAppended`,
`WalkUnlinked`, `WalkFromNext` and others). The rest of `IndInv` is local: `prev` is the inverse of `next`
but for the node in the writer's hand (`Linked`), nothing leads to that node (`NodeInHand`), an image
has one node (`OneNodePerImage`). With these, a writer that read a count of zero after it unlinked
its node knows that no reader stands on it and that none can come to it (`StandsSafely`). `NoCycle` is kept because a
step takes a link away, or adds one to or from a node to which nothing leads. Each action that changes links has a lemma;
one lemma covers all that do not. The count is kept by the cardinality lemmas of finite sets.

`UndisturbedReaderSeesAll` follows from `ReadersInv`: what a reader has to return is returned or lies ahead of it (`Ahead`, the
walk from where it stands), nothing is both, and a reader that was not strayed stands on a node of the list.
`ListKeepsItsPromise` is the refinement by `ImageListPromise`, whose list is the sequence of the images along `next`. That it exists
is part of the invariant (`HasOrder`: some sequence of nodes is in the order of the links), and lemmas say what the sequence
becomes when a node is appended, prepended or unlinked; each action of a writer then is a step of the promise or leaves its list alone.

*`DwarfCFAProofs`*: chains are least closed sets too (`Reach`). `EntriesAreShared` is strengthened by `OneParent`
and `HeadsHaveNone` (an entry follows one other entry or begins one list, never both), and by the existence
of a labelling of the entries with the state they belong to (`Belongs`), which moves along
with every entry that is taken or put back. `RowsAreKept`, for any set of rules: lemmas say how inserting,
revaluing and removing an entry change `Row`, and each action is then what `DwarfRows` says of its opcode (`StepsMean`):
`set_register` a `DefineRule` of its register and rule, `remove_register`, which takes several steps but changes the
row in the first, an `Undefine`, `push_state` and `pop_state` a `RememberState` and a `RestoreState`.

`IterationIsComplete` is about an iterator that moves over the buckets and along their chains: each register of the state has
a position (its bucket, and how far along the chain), positions are ordered, and the iterator goes from each to the next.

*`SymbolicationProofs`*: `CacheOK` is preserved by the steps of a search because none touches the
sections; `map_sections`, with its early return and its failures in between, and `cache_free` are the two that do.
`FramesFitTheirSize` says of lookups that run at different times with different caches that they find the same. The invariant
behind it has two parts. `CacheIsTrue`: a class in the table is the process's own, the mapped sections are those of the image whose lists are
parsed, and `gotObjC2Info` is set only where some image has Objective-C 2 sections. With it each step of
a lookup is one of `Follows`, a relation in which the cache does not occur and which is deterministic (`OneFollows`); a lookup that
has come to `Here` has been `Reached` from its beginning along `Follows`, so that two lookups for a frame come to one answer (`OneAnswer`).
`WriterInv`: what has been written and announced for the frames up to the writer's turn is made of these answers.

`NearestSymbolIsNamed` is about one lookup, so that it is proved along `Follows` as well. The search of the symbol table is a fold, and its beginnings
are folds of their own (`IsFold`), by which what was found so far is the greatest of the entries so far (`IsBest`). `Progress` says of every stage
of a lookup which methods have been visited: in the first parse `best` is the greatest IMP of these up to the pc, in the second `best` is that of all,
and the callback has been called if one of those visited has it (`IsSound`). A class that is not realized has no methods to visit, but leaves its error, which has to have been
overwritten when the parse ends. So a lookup ends with the closest method if there is one, compared with the symbol table's answer
(`Concluded`, `Better`), and the rest is arithmetic with the low-order bit of Thumb functions (`AnswerIsNearest`).

*`ExpressionProofs`* has four parts. The first is arithmetic: the library has no theorem on division, powers or bits, so that these
are derived from the natural numbers, up to `BinaryIsApplied`: the evaluator's operations compute on words what `Apply` says of integers. In the signed
reading this is so where `Agree` says: a division of words with a clear top bit, a comparison exactly where the top bits are the same. A word is determined by
its bits (`FromBits`), which gives `and`, `or` and `xor`. The second is the types of the evaluator, for
any program (`EvaluatorIsTyped`). The third shows that the recursive functions `Compile`, `Values` and `Need`
exist, since operands are lower than their tree.

The fourth is `ExpressionsHaveTheirValue`. The invariant cannot follow the evaluation through the tree, as a branch may leave an operand's code from
anywhere. It says instead that the present instruction and stack are among the safe ones (`OnTheWay`): `Safe(p, f, Y)`
is the greatest set of configurations of a program `p` from which each step leads into the set, or to an end that `Y` admits, or to an
error where `f` admits one. Keeping it is then trivial, and what is to be proved is that the start of a tree's program is in it (`Claim`): for
a program in which the code of a tree stands anywhere, if the configurations after that code with any value of the
tree on top of the stack are safe, then so is the one before it with the stack as it was. For each kind of tree this composes the claims of its
operands, backwards from the last opcode (one lemma per kind); for all trees it follows because a lowest tree without it
would be a counterexample to that. `Exact` is needed in the claims of `bregx`, which pushes twice, of `over`, whose copy must fit, and of the binary
operations: in the signed reading `ReadAlike` excludes the programs that divide or compare.

`ExpressionsStepForward` says that each step of an evaluation that goes on moves forward in the program, because the distances
of the branches are natural numbers (`Forwards`, by the same induction on the height). This is the safety part of `EvaluationEnds`: what
remains for the liveness is that a program is finite and the evaluator is scheduled.

*`FrameUnwindProofs`* holds for every program that `ProgramAssumption` admits, however its functions call each other.
The search (`LookupFindsTheFunction`): any solution of the recursive equation of the binary search is right for all bounds, by the width between
them (`AnswersExist`), and what the linker writes is in order, so that the entry found is that of the function, in either kind of page. The lists
(`RegistersRoundTrip`): the digits of the mixed-radix number are taken off one by one (`DigitsComeBack`), and the k-th digit counts the smaller names
that are not used yet.

`FramesAreReal`, `NoFrameIsMissing` and `TypeOK` rest on three invariants. `StackInv` relates the stack, the registers and the history: for every
call in progress there is a function (`CallIs`) such that the words it pushed still hold the caller's registers (`Words`), and the registers that
it left are the caller's but for those it says it changes (`Kept`); and a frame pointer is zero, no address, or where some caller's was pushed (`IsFramePtr`).
A call preserves it because it writes below the stack pointer only (`CallKeepsStack`). `WalkInv`: the frames were read from
levels farther and farther out, and each register that is valid in a frame has the value of its level. It is preserved
because whatever a reader returns is the caller's state as far as it goes: the compact reader's (`CompactReads`), where encoding, list and
frame layout are inverse to the prologue; the DWARF reader's (`DwarfReads`), where every rule of the row is true of the frame (`RulesAreTrue`) and the
registers that a row does not mention are preserved, so that applying it lays the caller's values over the callee's (`Overlay`); and the frame pointer
reader's, which may find a caller farther out (`FramePtrReads`). `CompleteInv`: with information about every function in progress
the k-th frame is of the k-th level, has all registers that a reader needs (`Full`), and what the compact section does not describe the
frame section does, so that the third reader, which could leave out a frame, never has its turn.

Where a fact is about every step up to the n-th, or every position up to one, it is proved by the least number that would be an exception
(`LeastNumber`, from the well-foundedness of the natural numbers): the provers cannot instantiate the library's induction rules, but
need no more than that there is a least one.

The constants' assumptions (`DataClientAssumption`, `CollectionAssumption`, `AuthAssumption`,
`NilAssumption`, `MonitoringAssumption`, `ListAssumption`, `CFAAssumption`, `ExpressionAssumption`, `TreesAssumption`, `SymbolicationAssumption`, `UnwindAssumption`)
say that nil is not one of the values it stands beside, that bounds are natural numbers, that
threads and nodes are finitely many, that an image's lists are sequences of addresses, that the stack lies between the first page and the image, and what a table's sizes have to do with each other. TLC evaluates them in the runs.
`ExpressionAssumption` also says that a word has one, two, four or eight bytes, as the code's sizes do (the real widths are 32 and 64), and that memory and registers hold
words; `TreesAssumption` that the operands of a tree are lower trees, which is what makes it finite.

`ProgramAssumption` of `FrameUnwind` says what the compiler and the linker guarantee: a prologue pushes no register twice, an encoding fits its
format, a DWARF rule is true of the function it is for, and the image's functions are below what is outside of it.

`RuntimeAssumption` of `Symbolication` is about the process: it has one of the two Objective-C runtimes, so that no image has the modules of the
old one where another has all sections of the new. The code relies on it (the comment at `gotObjC2Info`,
`ApigeePLCrashAsyncObjCSection.h:71`, "If it has, then ObjC1 info can be skipped"): otherwise a lookup for the first
kind of image would find less once one of the second kind has been searched.

`CodeAssumption` says of a process that its lists are sequences, its addresses numbers, and that no symbol and no method begins at address 0, which
the code takes for "nothing found".

*Model-checked only:* the liveness properties `EveryCallIsAnswered`, `MetricsGetUploaded` and
`EvaluationEnds`, as liveness under fairness is out of the prover's reach; `ExpressionValue` of the malformed programs, each of
which is a case of its own; and the two violations.

## 6. Plan

The order is by what an application loses when the component is wrong.

Done: 1. `DataClient`, with its abstract specification `ClientPromise`, 2. `Collection`, 3. `AuthSession`, 4. `MonitoringClient`, each with proofs.
5. The crash reporter: `AsyncImageList`, `DwarfCFA`, `DwarfExpression`, `FrameUnwind` and `Symbolication`, each with proofs.

What could follow:

6. `ConfigCache`: cached and server configurations with dates, two retrievals at a time,
   restarts, a configuration that does not parse.
7. `LogCompiler` with the session metrics: the transmission timestamp, the limit of 100
   entries, two uploads at a time, failed posts.
8. `CrashUpload`: a report is uploaded at least once across restarts, purged only then.
9. `Interceptor`: the application's delegate sees what it would have seen without the
    interceptor, whatever the agent's state.
10. The activity indicator of `ApigeeHTTPClient`.

### Not modelled

* Formatting and parsing: URLs, JSON, dates, Mach-O load commands, ULEB128 and the pointer encodings of
  DWARF, CIEs and FDEs, the protocol buffers of a report. They are functions of bytes, without state
  whose interleaving matters; the models begin where the bytes have been read, and say which reads can fail.
* Signal and Mach exception handlers: what they do is the kernel's and the C library's
  semantics more than this code's.
* Swizzling itself, UI tracking, location, entity classes: wrappers without behaviour of their own.
* protobuf-c, google-toolbox-for-mac, Reachability, SSKeychain, the samples: other projects' code.
