# A TLA+ verification of the MiLahaina face HAL

This directory holds a formal model of the biometric face HAL in this repository: the C++ service under
`src/default`, the engine stub under `src/lib` and the enrolment screen of the app under `src/App`. The modules are
TLA+; TLC checks them on small instances and TLAPS proves part of what is checked for every instance.

`PROJECT.json` lists the components, the runs, the mutants each property is sensitive to, the source lines behind every
definition, the hazards of the code and the theorems.

## 1. Inventory of the system

One process, `service.cpp: main`, with four binder threads and threads of the camera NDK. Paths below are relative to
`src/default` unless they start with `src/`.

### Camera backend (`Camera2NdkBackend.cpp`)
- *State*: seven NDK objects (`mMgr`, `mRdr`, `mDev`, `mSess`, `mReq`, `mTgt`, the outputs), `mIsRunning`,
  `mIsStopping`, `mInCallback`, `mCallbackThreadId`, `mSessionClosed`, `mLastStartFailure`, all under `mLock` with the
  condition variable `mCv`; the process-wide warm-up id under a mutex of its own.
- *Operations*: `warmUpAtHalStart`, `start`, `stop`, `teardown` (called by both, drops `mLock` to free the objects),
  the NDK callbacks `onImageAvailable`, `onDeviceDisconnected`, `onDeviceError`, `onSessionClosed`.
- *Hard*: `start` and `stop` from several binder threads and the destructor, `stop` from inside the frame callback
  (deferred to a thread), `stop` from the NDK's state callbacks, objects freed without the lock, a wait for a callback
  with a limit of one second, a dozen stages at which `start` fails.
- *Correct when*: every object is freed once, in dependency order, never under an executing callback; `stop` quiesces
  the callback; calls return; a lost camera is released.

### Session (`Session.cpp`)
- *State*: the flags of the operation (`mIsAuthenticating`, `mIsDetecting`, `mIsEnrolling`), `mProcessingFrame`, the
  reason and display state, the auth start time, the callback queue and its worker; shares the engine and a
  `CameraClient`.
- *Operations*: `authenticate`, `detectInteraction`, `enroll` (with and without context), `cancel`, `close`,
  `onContextChanged`, `onCameraFrame` (camera thread, then a detached frame thread), the callback worker; challenges,
  features, enumeration and removal, which post one callback each.
- *Hard*: none of the flags is under a lock; `cancel` and the frame thread both end an operation in several steps; the
  frame thread outlives the call that started it and holds a reference to the session; whichever thread drops the last
  reference runs the destructor, which resets the engine's frame callback and cancel flag, whoever uses them by then.
- *Correct when*: each operation comes to a reported end, the camera streams exactly while something watches it, no
  frame blocks the next for ever, the reason for an authentication agrees with the display, no callback leads into a
  session that is freed, and a session that goes leaves nothing behind.

### Camera client and cancellation signal (`CameraClient.cpp`, `CancellationSignal.cpp`)
Forwarders: `CameraClient` to the backend, whose destructor stops it, and `CancellationSignal` to `Session::cancel`
through a weak reference.

### Face engine (`src/lib/FaceEngineStub.cpp`, `include/FaceEngine.h`)
- *State*: `mCancelled`, `mEnrollFrameCount`, the map of enrolled templates under `enrollmentMutex`, the frame
  callbacks of the session and of the vision service.
- *Operations*: `startOperation`, `authenticate`, `analyzeFaceQuality`, `enroll`, `cancelAll`, `deleteEnrollment`,
  `restoreEnrollments`.
- *Hard*: one engine for all sessions; the count is a plain `int` used by two threads; the frame callbacks are
  unguarded `std::function`s.

### Template storage (`FaceStorageManager.cpp`, `FaceStorageCallbacks.h`)
- *State*: one directory per user; for each face `<id>.dat`, or `<id>_without_encryption.dat` when Keystore2 cannot
  encrypt, and the `.tmp` either is written to.
- *Operations*: `saveTemplate`, `loadTemplate`, `loadAllTemplatesForUser` (which cleans up), `deleteTemplate`,
  `removeUser`.
- *Hard*: crashes between file operations, failing Keystore2 calls and writes, operations on different threads with no
  lock of the storage.
- *Correct when*: an acknowledged template survives until it is deleted, no torn file is ever accepted, a new session
  sees exactly what is stored.

### Template serializer and crypto client (`FaceTemplateSerializer.cpp`, `CryptoClient.cpp`)
Stateless formats and calls of Keystore2. Here by verdict: a call succeeds or fails, a file is whole, torn or outdated.

### Face and the service (`Face.cpp`, `service.cpp`)
`createSession` checks the sensor id and makes a new `Session` on the shared engine; `main` registers the services and
warms up the camera.

### Vision service (`VisionServiceImpl.cpp`, `VendorStateManager.h`)
The app's frame callback under a mutex, the engine's vision callback, and a vendor code that is consumed by a read.
*Hard*: a failed call resets the callback after it was read outside the mutex.

### Enrolment app (`src/App`)
- *State*: of each `EnrollActivity` its life cycle, the current `CancellationSignal`, `mFinishScheduled`,
  `mIsActivityPaused`, `mToken`, the delayed runnable that opens the finish screen; for the preview
  `mIsProcessingFrame`, two bitmaps that take turns, a handler thread, the bitmap the view shows.
- *Operations*: `onCreate` (registers with the vision service), `onResume` (starts an enrolment, if there is a token),
  `onPause` (cancels it), `onDestroy`, `onBackPressed`, `onActivityResult`, the enrolment callbacks, `onFrame`,
  `renderFrame`, `setFrame`.
- *Hard*: callbacks of an enrolment that was cancelled arrive in the next one; a delayed runnable meets a screen that
  was paused, resumed or finished; frames cross three threads; a destroyed activity stays registered.
- *Correct when*: no enrolment runs behind another screen, a screen in front that has a token is always waiting for
  something that comes, a confirmed result reaches the caller, the newest screen gets the frames, and the preview
  neither freezes nor draws over the bitmap on the screen.

The rest of the app is screens and drawing.

### Declarations
AIDL, overlay, permissions and policy: no behaviour.

### How they interact
```
 framework --calls--> Session --start/stop--> CameraClient --> Camera2NdkBackend <--callbacks-- NDK
    ^                  |   ^                                            |
    |  postCallback    |   +------------ FaceEngine.onCameraFrame <-----+  (camera thread)
    +--- worker <------+                      |      \--> vision callback --> app
                       +--frame thread--> FaceEngine.enroll/authenticate
                                              |
                       Session constructor --restore--> FaceStorageManager <--> files, Keystore2
```

## 2. Modules

| module | models | main state |
|---|---|---|
| `CameraPromise` | *abstract*: what a camera client promises its session | `running`, `stopping`, `delivering` |
| `CameraBackend` | the camera backend | `pc` (each thread's place), `member` and `local` (who owns which object), `live` (objects not freed), the code's flags |
| `Session` | the operations of one session, with the parts of the engine a frame reaches | flags, `pc` of each binder thread, `callback` and `frame` (camera and frame threads), `queue`, `posted`/`reported` |
| `SessionLifetimes` | sessions that follow one another on the one engine: references, construction, destruction, the engine's frame callback | `place` and `purpose` (the call or destructor that has each session), `held`, `registered`, `cam`/`into`/`frame` (each session's threads) |
| `SessionContext` | reason inference and `onContextChanged` | reason, display state, `active`, whether the grace period is over |
| `TemplateMap` | *abstract*: what the storage promises the engine | `stored`, `broken` and `cache` |
| `TemplateStore` | the storage, with engine, serializer and crypto client as far as it reaches them | `disk`, `cache`, `save`, `load`, `delete` in progress |
| `VisionService` | the app's callback object in `VisionServiceImpl` | `mCallback`, `visit` and `cb` of each camera thread |
| `EnrollActivity` | the screens and enrolments of the app | `life`, `mToken`, `finishing`, `front`, `enrolment`, `timers`, `screens` |
| `FramePreview` | the frames on their way through the app's threads | `mIsProcessingFrame`, `reading`, `rendering`, `mUsingBitmap1`, `ui`, `shown` |
| `EnrollApp` | *composition* of the last three | theirs |
| `MC*` | instances for TLC | – |
| `*Proofs` | theorems and proofs about the module of that name; `TemplateMapProofs`: that `TemplateStore` keeps the promise of `TemplateMap` | – |

**CameraBackend.** An action is a stretch of code that runs under `mLock` or that makes one NDK call without it. A
thread is a client (a binder thread, or the destructor), the listener of a reader, the device or session callback
thread of a generation, or the thread `stop` defers to. Objects are pairs of a kind and the number of the `start` that
made them, so that "freed twice" and "freed the object of the next stream" can be told apart. `start` is one action
because it holds `mLock` from the end of its wait to its return or its `teardown`; `StartOutcomes` is the set of
states it can be in by then, one per stage that fails. That `AImageReader_delete` waits for a listener that is
executing is the NDK's behaviour (`ReaderDrained`, external), as the code relies on.

`KeepsPromise` says that the backend implements `CameraPromise` with its fairness: `running` is `mIsRunning`, `stopping`
is `mIsStopping`, and `delivering` is a listener inside the frame callback. It is what `Session` and `SessionLifetimes`
take the camera to be: a frame is delivered only between a start and the stop that ends it, and a stop that has ended
leaves no frame being delivered.

**Session.** The flags are read and written in separate actions because no lock joins them; posting is an action, and
so is delivery. `CameraBackend` is abstracted to what its own module shows: `start` waits for a stop in progress and
succeeds or fails, `stop` lets no new frame in and returns when no frame callback executes (`StopQuiesces`,
`CallsReturn`). What the engine sees in a frame is a free choice; what it does to its count and flag is not.
`mEnrollFrameCount++` on a plain `int` is a read and a write, so that the reset in `cancelAll` may be lost. The calls
that touch no operation (`OtherCall`) post their one callback, or none (`invalidateAuthenticatorId`), in one step.
With `Serial` the framework makes a call when none is running, and starts an operation when the last one has reported
an end (`MayStart`). It cannot know whether a frame of that operation is still being processed: `cancel` posts
CANCELED and returns while the detached thread runs on. Two history variables tell what becomes of that thread:
`outlived`, an operation has started beside it, and `crossed`, such a thread has ended a later operation, and no
`cancel` has returned since.

**SessionLifetimes.** A session is freed when nobody refers to it: the framework's proxy, a call in progress, the
frame thread, or the camera's callback thread between `ref<Session>()` and its return. Every action that drops a
reference decides whether it was the last, and if so the same thread goes on in the destructor: the call's, the
frame's (`frame = "destroying"`) or the camera's own (`cam = "destroying"`), which is why the destructor's `stop` may
be one from the callback thread. Operations take three steps here (start, cancel, final result), since their
interleavings are `Session`'s subject. The frame callback of the engine is tested and called in two steps. The
framework has one open session, makes one call at a time and closes a session before it drops it; its proxies are
collected late, and with `FrameworkMayDie` all of them go at once, in the middle of anything, and it may come back.
`late` and `died` record that an older session's destructor or cancel came after a newer session was made, and that
the framework died: some properties hold only without them, as they say.

**SessionContext.** One call at a time, because its subject is the decision table of `onContextChanged`; how calls
interleave is `Session`'s. An operation starts only when none is active, as the framework's scheduler does.

**TemplateStore.** An action is one file operation or one call of Keystore2. A crash keeps the directory and loses the
rest. `RestoreEntry` visits the entries in any order, a `.tmp` included, since the scan takes the id from the name's
prefix; a scan may end when no entry that existed when it began is `due`, so one that was made meanwhile may be
missed. The history variable `missed` holds the stored faces that the last restore left out of the engine's map.
`Overlapping` names the operations that may be in progress together; two restores at once are not modelled.
`TemplateMap` promises nothing once operations have overlapped (`Overlap`); the other properties of `store_safety`
cover that case.

**EnrollApp.** `EnrollActivity`, `FramePreview` and `VisionService` meet in three places: `onCreate` registers the
activity's object with the service, a frame the service sends is queued for that activity, and `onDestroy` ends the
handler thread and does *not* unregister. In `EnrollActivity` the activity manager and the face service are external:
`front` is what the user sees, an activity pauses when something else is in front or when it is finishing, and the
service runs one enrolment at a time, in order, and reports one end of each, late. An activity gets its token in
`Create`: always from the try-again screen, which hands on the one it got, while other callers may leave it out
(`Tokenless`); without one `Resume` enrols nobody. After `MSG_UNLOCK_FAILED` the try-again screen has no token and
hides its button (`TryAgainHidden`). `FramePreview`'s claim passes from the binder thread to the handler's; a job
posted to a handler that has quit is dropped with its claim, which is what the code does. `VisionService` reads the
callback, calls it, and resets it in three steps.

## 3. Runs

| run | question | bounds and result |
|---|---|---|
| `camera_safety` | Do handles leak, are they freed twice or too early, does `stop` quiesce the callback, does anybody wait in vain? | two clients, two starts, failing opens and repeating requests, session closes at any time, a callback that stops its own camera. Holds. |
| `camera_calls` | Do calls return, is a lost camera released, is a device freed only after its session closed, and is `CameraPromise` kept? | one client, two starts, every stage may fail, sessions close within the second. Holds, without deadlock. |
| `camera_late_close` | Does a late `onSessionClosed` only concern its own stream? | **Violated**, see findings. |
| `camera_callback_wait` | Is `stop` on the callback thread never blocked? | **Violated**, see findings. |
| `session_serial` | Under a framework that makes one call at a time and waits for each outcome, is a cancelled operation reported, and does an operation without an end have its flag and its stream, and one with an end neither? | two operations of any kind, two cancels or other calls, three frames, two good frames to enrol. The second operation may start beside the frame thread of the first. Holds, with the exception of `crossed`. |
| `session_overlap` | With calls that do not wait for the end of the operation before, is the framework ever left without a word, is every outcome delivered and every frame released? | an authentication and an enrolment in any order, a cancel, two frames, lost cameras. Holds. |
| `context_safety` | Does a context change leave reason and display in agreement, or cancel? | all AIDL values, complete. Holds. |
| `context_prompt` | Does a prompt's authentication end with the prompt? | **Violated**, see findings. |
| `store_safety` | Does the storage implement `TemplateMap`; does memory match the directory between operations; is a template lost or replaced, a file torn, a session started from leftovers? | three faces, three saves, two crashes, an outdated file, failing signatures and encryptions, a disk that may fill, a save beside a restore. Holds; a save may replace a template that a restore missed. |
| `store_decrypt` | Does the clean-up remove only invalid templates? | **Violated**, see findings. |
| `session_lifetimes` | Does a callback ever lead into a freed session, does a frame find its session alive, does an operation get its frames, does a destroyed session leave anything, does every destructor end? | two sessions, two operations, two frames, a framework that may die once and return. Holds, with the exceptions the properties name. |
| `enrol_app` | Does an enrolment run behind another screen, does a screen get stuck, is a confirmed result lost, does the newest screen get the frames, does the preview freeze or draw over what is shown? | two activities, the first perhaps without a token, two resumes, one camera thread, two frames. Holds. |

**Why the bounds are enough.** Two starts are the least for an event of an old stream to meet a new one, and a third
adds only older events; two clients are the least for a `start` and a `stop` beside a `teardown`; the theorems remove
both bounds for the invariants they cover. In `session_serial` two operations let a leftover of the first meet the
second, and two cancels let one follow another's effect; three frames complete an enrolment of two good frames with
one to spare (the code needs five; only "not yet" and "enough" are told apart). In `session_overlap` one client
suffices for calls to overlap frames and deliveries; two clients with liveness exceed what TLC can do in minutes, and
`FrameFlag` and `TypeOK` are proved for any number. Three faces and three saves let a face be deleted and its id given
out again. `context_safety` has no bound. Two sessions are the least for a late destructor to meet a newer session,
and only the newest and one older matter to `registered`; two operations let each session have one. Two activities and
two resumes are the least for a late end to meet the next enrolment and for a new screen to take over the callback,
and two frames for one to meet another's claim. The proofs remove the bounds for the invariants of both.

**Deadlock.** TLC checks it except in five runs. `camera_safety` admits a callback that stops its own camera, and that
really deadlocks (the finding of `camera_callback_wait`), and its bound on starts may leave a second client waiting in
`start`; `camera_calls` checks deadlock without either. The two session runs, `session_lifetimes` and `enrol_app` end in
states where the bounds are used up and nothing runs; in `session_lifetimes` also in a crash, and `DestructionEnds` says
where the code may hang.

**Fairness.** A thread inside a call goes on (weak fairness of its steps): nothing in the code suspends it, and waits
are conjuncts of the guards. Nothing makes a client call, a frame arrive or a camera go away. A session that was asked
to close reports it: the NDK promises that, and the one-second limit is modelled for the other case. The frame thread
and the callback worker run on, and so do the threads of `SessionLifetimes` until the process crashes. `KeepsPromise`
asks of the backend the fairness of `CameraPromise`: a frame callback that returns and a stop that ends, which follow
from the above. `PromptEndsWithItsContext`, the storage and the app are safety and need none.

### Findings

1. *A late close stops the next stream* (`camera_late_close`). `teardown` waits one second for `onSessionClosed`; the
   handler does not know whose session closed, and decides under `mLock` but calls `stop` after it.
2. *`stop` on the callback thread can deadlock* (`camera_callback_wait`). The deferral comes after the wait for a `stop`
   in progress, which in turn waits for the callback. The destructor of a session that ends on the callback thread
   stops its camera twice, and the second stop waits for the deferred first.
3. *The prompt's end is missed* (`context_prompt`). `onContextChanged` overwrites the reason before it compares it.
4. *A failed decryption deletes a valid template* (`store_decrypt`). `loadTemplate` reports both as `false`.

Seen in the models and not made runs, for want of a sentence in the repository that says otherwise, or because they
restate what the code lacks:
- Two teardowns at once share `mSessionClosed`, so that one may free its device on the other's close (two clients).
- A match found when `cancel` has already posted CANCELED is posted as well: an operation with two ends. `cancel` does
  not wait for the frame that is being processed, so a framework that waits for CANCELED may start the next operation
  beside that thread. Its final result then clears the new operation's flag (`Session.cpp:229`) and stops the new
  stream, or, when the kinds differ, stops the stream and leaves the flag set; the framework gets the old operation's
  result for the new one. `StreamMatchesOperation` names it as its exception (`crossed`); the next `cancel` restores
  order.
- The enrolment count may survive a cancel (lost reset, or a frame counted after it), although
  `src/lib/FaceEngineStub.cpp:217` resets it and `startOperation` does not.
- A reason inferred by `authenticate` stays when the camera does not start, and passes for "explicitly set"
  (`Session.cpp:374`) at the next.
- A write that is cut short is renamed over the template, and the enrolment reported as done: "Atomic write"
  (`FaceStorageManager.cpp:107`) is atomic against crashes only. `CacheMatchesDisk` and `SessionStartsClean` allow for
  it.
- An outdated template is removed as corrupted before anyone asks for a new enrolment (`src/README.md:145`).
- A template in the plaintext form still needs a signature of Keystore2 to be saved and to be loaded, and is not
  encrypted again later (`src/README.md:133`, `135`).
- With a deletion overlapping as well, `OnlyDeletionLoses` fails: a restore decides to clean an entry, the face is
  deleted and enrolled again under its id, and the clean-up removes the new template.
- A restore replaces the engine's map by a scan that a save or a deletion has overtaken. Such a deletion may also
  bring back an older plaintext file that the removed `.dat` had hidden. The id of such a save is free for `enroll`
  again (`src/lib/FaceEngineStub.cpp:127`): the next enrolment renames its file over the acknowledged template,
  without any deletion (`OnlyDeletionLoses`'s exception: the face is in `missed`).
- A destructor that comes late, because a proxy was collected late, unregisters the newer session from the engine and
  cancels its operation's frames; nobody tells the framework (`FramesReachOperation`'s exception).
- A framework that dies while the camera streams: `ref<Session>()` may be null in the frame callback and the process
  crashes (`FrameFindsSession`'s exception), or the callback thread runs the destructor and waits for itself
  (`DestructionEnds`'s exception). If it comes back before the old session is gone, the old camera's frames are routed
  to the new session, whose destructor does not wait for them (`NoDanglingSession`'s exception).
- `mSessionClosed` is one flag for all capture sessions. When two `start`s fail after making their sessions and tear
  them down side by side, the first `onSessionClosed` lets both go on, and one closes its device under a session that
  is not closed yet: `CloseAcknowledged` is claimed for one client, or where no such `start` fails.
- The engine's frame callback is tested and called without a lock: emptied in between, the call aborts the process.
- The CANCELED of an enrolment that a pause cancelled finishes the activity whose resume has started the next; a finish
  screen that was scheduled before may open over it, and its result is dropped by the finished activity
  (`ResultReachesCaller`'s exception).
- With a null or empty token `startEnrollment` enrols nobody (`EnrollActivity.kt:264`) and says nothing: the screen
  stays in front with nothing under way until the user leaves it. `NeverStuck` is about screens with a token.
- A call to the app that fails because its queue is full takes its callback away for good (`CallbackKept`'s exception).

## 4. Proofs

Every theorem is for all values of the constants under the assumptions named in its module, which only fix types. Some
say more in an `ASSUME` of their own: those for a framework that makes one call at a time (`CallsInTurn`) or that
waits for each outcome (`Serial`), one of them also for a device that keeps streaming (`~CameraMayBeLost`); those for
a Keystore2 that fails no restore (`~DecryptFails`, `~VerifyFails`; what a failing decryption does is the run
`store_decrypt`), one of them also for deletions that overlap nothing (`"delete" \notin Overlapping`); and one for a
camera service that answers a close within the second the code waits (`ClosesInTime`) and for teardowns of failed
starts that do not overlap (`ClosesAlone`). Each is an instance of a run above, and section 3 says what happens
without it.

- **CameraBackendProofs.** `IInv` (at the end of `CameraBackend`) is inductive. The safety properties are not: whether
  a teardown may free an object depends on nobody else holding it, so `IInv` adds who may hold handles at which place
  (`PhasesOK`), that one `stop` is under way exactly while `mIsStopping` is set (`OneStopper`), that members are
  non-empty only for a running stream or a `stop` about to take them (`MembersOwned`), that a failed `start` never
  streamed, so that its teardown has no listener to fear (`FailedNeverStreamed`), that an active listener's reader is
  still owned (`ActiveListener`), and that a callback executes only between the guard's ends (`CallbackGuarded`). One
  lemma per action; then `TypeCorrect`, `NoLeak`, `Complete`, `CurrentListener`, `Quiescence` and `TeardownAlone`
  follow. `FreeingOrder` needs one more invariant on top (`OwnersWhole`): an owner that holds an object holds those
  the object depends on. `CloseIsAwaited` needs `OneUnclosed`: at most one capture session is not closed, the flag is
  not set for the sake of another, and whoever owns it has yet to wait for it.
- **CameraPromiseProofs.** `PromiseKept`: every step of the backend is a step of `CameraPromise` or leaves its
  variables alone, under `IInv` (the safety half of `KeepsPromise`). `NoVainWait`, the safety half of `CallsReturn`:
  for any number of clients a thread that tears down can go on, or waits for a thread that can. It needs where the
  threads it waits for may be (`CallbackThread`, `Places`), that a teardown with handles always has one to free next,
  and that the listener whose reader is freed has not joined that very `stop`. What is left is the frame callback that
  joins the `stop` draining it (`camera_callback_wait`), which `NobodyWaitsInVain` excepts by name.
- **SessionLifetimesProofs.** `IInv` (at the end of `SessionLifetimes`) is inductive. `NoDanglingSession` needs the
  order of life (`LifeInOrder`: sessions are made one at a time, die once, and nobody refers to one that has begun
  to), that only the newest may be registered (`CallbackOfLast`), when a camera may stream (`CameraInLife`) and that
  without a death of the framework only one does (`OneCameraAlive`); `GoneLeavesNothing` needs who owes an end
  (`EndsOwed`). Then `TypeCorrect`, `NothingDangles` and `DestructorIsThorough`. On top of it `ServiceInv` follows
  whom the engine works for: the session the framework has open is the last (`OpenIsLast`), and unless an older one
  came late the engine has its callback and was not cancelled after its operation began (`EngineServesLast`). From it
  `FramesFindTheirSession` and `OperationGetsFrames`.
- **EnrollAppProofs.** Each part has an inductive invariant of its own (`IInv` in `VisionService`, `FramePreview` and
  `EnrollActivity`), and the composition keeps all three (`Invariance`); seven theorems, one for each property of
  `enrol_app`. `NeverStuck` needs that a resumed activity with a token has an enrolment (`Numbered`) and that a
  scheduled finish has its timer (`InFrontWaits`); `ResultReachesCaller` needs that a screen comes from a completed
  enrolment and an error from a failed one (`HasCause`), so that an activity with one enrolment has at most one of
  them (`OneScreen`).
- **SessionProofs.** `FrameFlagHolds` alone is inductive. `TypeCorrect` rests on it: the count cannot pass its limit
  in spite of the race because the one frame thread that increments it is the only one, and the race with `cancelAll`
  can only lose a reset. `SettledHasOutcome` and `StreamMatchesOperation` speak of settled states only and need to
  know, for every state between, who will settle it. For the first it is enough that calls come one at a time
  (`CallsInTurn`: `Serial`, or a framework with one thread that waits for no outcome): `OutcomeInv` (at the end of
  `Session`) says who owes the end of an operation without a flag (`EndOwed`), and that `cancel` has posted it before
  it clears one (`CancelHasPosted`). With two calls side by side it fails: a `cancel` that read no flag clears the one
  an operation has set since, and posts nothing. For the second, `SerialInv` adds that an operation whose stream is
  off has its end posted or in somebody's hands (`StreamOrEnd`), that a posted end leaves nothing on but what a
  `cancel` is about to clear (`EndIsQuiet`), that an operation starts beside nothing but a frame thread of an earlier
  one (`StartsAlone`), that a frame thread of its own works for the active operation or none (`FrameServesOperation`),
  and that `cancel` leaves no flag that it has not answered for (`CancelProgress`). `StartsAlone` needs to know that
  what is reported was posted (`PostedFirst`), since the framework waits for the report only. A frame thread that has
  outlived its operation (`outlived`) is bound by none of this; once it hands a result into a later operation,
  `StartsAlone`, `FrameServesOperation` and `EndIsQuiet` are off (`crossed`), and the end of the next `cancel`, which
  leaves no flag and no stream, brings them back. Without `Serial`, `StreamMatchesOperation` fails.
- **SessionContextProofs.** The conjunction of type and three properties is inductive.
- **TemplateStoreProofs.** `TypeCorrect`, which includes that nothing torn or outdated is ever accepted, whatever
  overlaps, and `AtomicWrite`: from `WholeIInv` (`WholeInvariance`), where the `.tmp` of a save about to rename is
  whole or gone (`Written`) unless a write was cut short (`cut`), no template file is torn, also with deletions and
  crashes anywhere.
- **TemplateMapProofs.** `MapIInv` (at the end of `TemplateStore`) is inductive. `CacheMatchesDisk` holds between
  operations only, so `MapIInv` has one part for each operation that runs alone, saying how far the directory and the
  map may differ at each of its places (`SaveProgress`, `LoadProgress`, `DeleteProgress`), one for the time between
  (`IdleMatches`), and one for the files a face may have before anything has overlapped (`FilesProgress`). After an
  overlap nothing is claimed until a session starts afresh. Then `DirectoryHoldsMap` and `SessionsStartClean`, and
  `StorageImplementsMap`: `Spec => ImplementsMap`, one lemma per action. That refinement needs that a template being
  saved is not stored yet (`Newest`): the rename must make the face's template a new one. `OnlyDeletionsLose` is about
  overlaps, of which `MapIInv` says nothing. It rests on `OverlapInv`: a save makes a face that the engine's map does
  not have until the save ends (`SavesNewFace`), so that no second save of the face comes between; after the rename
  its template stays in its file (`SavedIsThere`); and an entry that a restore could not load was outdated, which can
  only be before the first session (`OldIsFirst`), or has been replaced by the face's other file and is gone, so that
  its removal removes nothing (`EntryReplaced`). That no template takes another's place needs `MissedInv`: `enroll`
  gives out the ids that the engine's map lacks, and a stored face that the map lacks was left out by the last
  restore, or is being saved or deleted (`LeftOutWasMissed`).

Model-checked only: liveness (`CallsReturn`, `EventReleasesCamera`, `KeepsPromise`'s fairness, `OutcomesDelivered`,
`FrameReleased`, `CancelIsReported`, `DestructionEnds`), which the prover does not reach.

## 5. Not modelled

- Byte formats, colour conversion, drawing, preferences, resolution queries, the vendor code table: pure data.
- The size a frame is scaled to (`Session.cpp:174-207`): a floating-point product, without state.
- `getVendorCode` and `getLastLandmarks` of the vision service: one atomic exchange, which nobody in the repository
  calls, and an empty list. `onFrame` and `setCallback` in the direction that is "not used".
- The sensor id's check, the registration of the services and the assignment of the vision callback at start-up.
- `FaceEngine::init` assigning `mCallbacks` again from each session: equal values, without a lock; a torn
  `std::function` is undefined behaviour with no outcome to enumerate.
- Memory below the level of an object: what a read of a freed session or a recycled bitmap returns. The models say
  where it can happen, and stop there (`crashed`).
- The challenge of an authentication token: see the hazard at `Session.cpp:300`.
- The real recogniser, behind the engine's interface; the stub's detection is a free choice.
- The framework, the activity manager and the NDK, except for what the code relies on, marked external.

## 6. Plan

The plan's modules are written: `CameraBackend`, `Session`, the storage, `SessionContext`, the sessions' lives, the
vision service with the app, and `CameraPromise`. `FrameScaling` was dropped, for the reason given above. Every safety
property of the passing runs is proved. What is left is to weaken what the theorems assume.
