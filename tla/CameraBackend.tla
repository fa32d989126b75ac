---------------------------- MODULE CameraBackend ----------------------------
(***************************************************************************)
(* Camera2NdkBackend: the camera pipeline behind CameraClient.             *)
(*                                                                         *)
(* The backend is a monitor: every member below is read and written under  *)
(* mLock, so one section between taking and releasing mLock is one action, *)
(* and a wait on mCallbackCv is an action whose guard is the predicate of  *)
(* the wait.  The interleavings that matter are the ones between sections: *)
(*   - teardown() releases mLock while it closes and frees the NDK         *)
(*     handles it took out of the members;                                 *)
(*   - onImageAvailable() takes mLock three times: first check, the        *)
(*     CallbackGuard, second check;                                        *)
(*   - the state callbacks of the device and of the capture session decide *)
(*     under mLock and call stop() after releasing it.                     *)
(*                                                                         *)
(* A generation is one execution of start() past its "already running"     *)
(* return.  NDK handles are pairs <<kind, generation>>.                    *)
(***************************************************************************)
EXTENDS Integers, Sequences

CONSTANTS
    Clients,         \* threads of the HAL that call start() and stop()
    MaxStarts,       \* bound: generations explored
    FailureStages,   \* bound: the failures of start() explored
    CallbackMayStop, \* may the frame callback call stop() on its own thread
    ClosesInTime     \* does onSessionClosed always come within a second of a close

Gens == 1..MaxStarts

(* The threads of the NDK and of the backend, one of each per generation.  *)
Listener(g) == <<"listener", g>>     \* the AImageReader's listener thread
DeviceThread(g) == <<"device", g>>   \* delivers the device state callbacks
SessionThread(g) == <<"session", g>> \* delivers the session state callbacks
Deferred(g) == <<"deferred", g>>     \* the detached thread of stop()
Threads ==
    Clients \cup {Listener(g) : g \in Gens} \cup {DeviceThread(g) : g \in Gens}
            \cup {SessionThread(g) : g \in Gens} \cup {Deferred(g) : g \in Gens}

ASSUME ClientsAssumption ==
    Clients \cap ({"listener", "device", "session", "deferred"} \X Gens) = {}
ASSUME MaxStartsAssumption == MaxStarts \in Nat \ {0}
ASSUME ScenarioAssumption == CallbackMayStop \in BOOLEAN /\ ClosesInTime \in BOOLEAN

NoThread == <<"none", 0>>

(* The members that own an NDK object; mWin is owned by the reader.        *)
Kinds == {"mgr", "rdr", "dev", "out", "outC", "sess", "req", "tgt"}
Handles == Kinds \X Gens

VARIABLES
    pc,                 \* where each thread is
    call,               \* the backend function a thread's teardown belongs to
    local,              \* handles held in the locals of a thread in teardown()
    member,             \* handles the members point to
    live,               \* NDK objects that exist
    gen,                \* generations so far; also the owner of mCallback
    mIsRunning, mIsStopping, mSessionClosed,
    mInCallback, mCallbackThreadId,
    mLastStartFailure,  \* a failure is noted (which code is left out)
    warm,               \* gCameraWarmValid, and whether the warm-up has run
    streamed,           \* generations whose repeating request was accepted
    sessState           \* NDK capture session of each generation

threadVars == <<pc, call, local>>
handleVars == <<member, live>>
flagVars == <<mIsRunning, mIsStopping>>
callbackVars == <<mInCallback, mCallbackThreadId>>
startVars == <<gen, mLastStartFailure, warm, streamed>>
vars == <<threadVars, handleVars, flagVars, callbackVars, startVars,
          mSessionClosed, sessState>>

Init ==
    /\ pc = [t \in Threads |-> "idle"]
    /\ call = [t \in Threads |-> "none"]
    /\ local = [t \in Threads |-> {}]
    /\ member = {} /\ live = {}
    /\ gen = 0
    /\ mIsRunning = FALSE /\ mIsStopping = FALSE
    /\ mInCallback = FALSE /\ mCallbackThreadId = NoThread
    /\ mSessionClosed = FALSE
    /\ mLastStartFailure = FALSE
    /\ warm = "pending"
    /\ streamed = {}
    /\ sessState = [g \in Gens |-> "none"]

Goto(t, l) == pc' = [pc EXCEPT ![t] = l]

(* Where a thread continues when the backend function it called returns:   *)
(* the listener is still inside the frame callback.                        *)
Resume(t) == IF \E g \in Gens : t = Listener(g) THEN "inCallback" ELSE "idle"

Return(t) == /\ Goto(t, Resume(t))
             /\ call' = [call EXCEPT ![t] = "none"]

-----------------------------------------------------------------------------
(* The camera list may stay empty or be refused; else the front camera, or   *)
(* the first one, is selected.                                             *)
ProbeVerdicts == {"valid", "invalid"}

(* warmUpAtHalStart(), run once by main() while sessions may already start. *)
WarmUpAtHalStart ==
    /\ warm = "pending"
    /\ warm' \in ProbeVerdicts
    /\ UNCHANGED <<threadVars, handleVars, flagVars, callbackVars, gen,
                   mLastStartFailure, streamed, mSessionClosed, sessState>>

(***************************************************************************)
(* What one run of start() can come to: the failure it notes and the       *)
(* members it has filled in by then.  A reader whose window or whose       *)
(* camera cannot be had is deleted by start() itself, so those failures    *)
(* leave only the manager to teardown().  The failures are named after the *)
(* vendor codes 50 to 58 ("noCamera" is 50 and 51, "reader" 54 and 55).    *)
(***************************************************************************)
Opened == {"mgr", "rdr", "dev"}
StartOutcomes ==
    {[code |-> "manager", held |-> {}]}
    \cup {[code |-> c, held |-> {"mgr"}] : c \in {"noCamera", "reader", "open"}}
    \cup {[code |-> "session", held |-> Opened \cup h] :
            h \in {{}, {"out"}, {"out", "outC"}}}
    \cup {[code |-> "request", held |-> Opened \cup {"out", "outC", "sess"} \cup h] :
            h \in {{}, {"req"}, {"req", "tgt"}}}
    \cup {[code |-> "streaming", held |-> Kinds], [code |-> "none", held |-> Kinds]}

(* The warm-up id is tried first.  If it cannot be opened the cache is      *)
(* cleared and the camera list probed again, once.                         *)
OutcomeAllowed(o, reprobed) ==
    /\ o.code \in FailureStages \cup {"none"}
    /\ IF reprobed THEN warm = "valid" /\ o.code # "manager"
       ELSE warm = "valid" => o.code \notin {"noCamera", "open"}

(* A thread that enters function f now: an idle client may call it, an      *)
(* event handler or the frame callback has decided to.                     *)
Enters(t, f) == pc[t] = f \/ (t \in Clients /\ pc[t] = "idle")

(* A client in start(), or about to call it, while generations are left.    *)
MayStart(t) ==
    t \in Clients /\ pc[t] \in {"idle", "start"} /\ gen < MaxStarts

(* start() waits while a stop is in progress. *)
StartWait(t) ==
    /\ pc[t] = "idle" /\ MayStart(t) /\ mIsStopping
    /\ Goto(t, "start")
    /\ UNCHANGED <<call, local, handleVars, flagVars, callbackVars, startVars,
                   mSessionClosed, sessState>>

(* start() finds, after the wait, that another thread has started the       *)
(* stream; without a wait it is a call that changes nothing.               *)
StartAlready(t) ==
    /\ t \in Clients /\ pc[t] = "start" /\ ~mIsStopping /\ mIsRunning
    /\ Goto(t, "idle")
    /\ UNCHANGED <<call, local, handleVars, flagVars, callbackVars, startVars,
                   mSessionClosed, sessState>>

(* The part of teardown() before it releases mLock: the handles move to     *)
(* locals.                                                                 *)
MutantTakeKeepsMembers(t, held) ==
    local' = [local EXCEPT ![t] = held] /\ member' = held /\ Goto(t, "close")
TakeMembers(t, held) ==
    /\ local' = [local EXCEPT ![t] = held]
    /\ member' = {}
    /\ Goto(t, "close")

(* start() goes on once no stop is in progress, unless the stream runs. *)
MutantStartIgnoresStop(t) == MayStart(t) /\ ~mIsRunning
StartReady(t) == MayStart(t) /\ ~mIsStopping /\ ~mIsRunning

(* mSessionClosed is cleared before the session is created. *)
MutantKeepsClosed(held) == mSessionClosed
ClosedAfterStart(held) ==
    IF {"out", "outC"} \subseteq held THEN FALSE ELSE mSessionClosed

(* start(): one section, from the wait for a stop in progress to success    *)
(* or to the unlock in teardown().                                         *)
StartBody(t) ==
    /\ StartReady(t)
    /\ gen' = gen + 1
    /\ \E o \in StartOutcomes, reprobed \in BOOLEAN :
          LET acquired == o.held \X {gen + 1}
              kept == {h \in member : h[1] \notin o.held}
          IN  /\ OutcomeAllowed(o, reprobed)
              /\ warm' = IF reprobed THEN "invalid" ELSE warm
              /\ mLastStartFailure' = (o.code # "none")
              /\ live' = live \cup acquired
              /\ sessState' = IF "sess" \in o.held
                              THEN [sessState EXCEPT ![gen + 1] = "open"]
                              ELSE sessState
              /\ mSessionClosed' = ClosedAfterStart(o.held)
              /\ IF o.code = "none"
                 THEN /\ mIsRunning' = TRUE
                      /\ streamed' = streamed \cup {gen + 1}
                      /\ member' = kept \cup acquired
                      /\ Goto(t, "idle")
                      /\ UNCHANGED <<call, local>>
                 ELSE /\ TakeMembers(t, kept \cup acquired)
                      /\ call' = [call EXCEPT ![t] = "start"]
                      /\ UNCHANGED <<mIsRunning, streamed>>
    /\ UNCHANGED <<mIsStopping, callbackVars>>

-----------------------------------------------------------------------------
(* Nothing to stop; for an idle client a call that changes nothing. *)
MutantNothingIfAnyFlag == ~mIsStopping
NothingToStop == ~mIsRunning /\ ~mIsStopping /\ \A h \in member : h[1] # "mgr"

StopNothing(t) ==
    /\ Enters(t, "stop")
    /\ NothingToStop
    /\ Return(t)
    /\ UNCHANGED <<local, handleVars, flagVars, callbackVars, startVars,
                   mSessionClosed, sessState>>

(* A stop is in progress on another thread: wait for it and return. *)
StopJoin(t) ==
    /\ Enters(t, "stop") /\ mIsStopping
    /\ Goto(t, "stopWait")
    /\ UNCHANGED <<call, local, handleVars, flagVars, callbackVars, startVars,
                   mSessionClosed, sessState>>

StopJoined(t) ==
    /\ pc[t] = "stopWait" /\ ~mIsStopping
    /\ Return(t)
    /\ UNCHANGED <<local, handleVars, flagVars, callbackVars, startVars,
                   mSessionClosed, sessState>>

Stoppable == ~mIsStopping /\ (mIsRunning \/ \E h \in member : h[1] = "mgr")

MutantStopUnmarked == mIsRunning' = FALSE /\ mIsStopping' = mIsStopping
BeginStop == mIsRunning' = FALSE /\ mIsStopping' = TRUE

(* stop() on a thread other than the one in the frame callback. *)
StopBody(t) ==
    /\ Enters(t, "stop") /\ Stoppable
    /\ ~(mInCallback /\ mCallbackThreadId = t)
    /\ BeginStop
    /\ Goto(t, "drain")
    /\ call' = [call EXCEPT ![t] = "stop"]
    /\ UNCHANGED <<local, handleVars, callbackVars, startVars,
                   mSessionClosed, sessState>>

(* stop() on the callback thread hands the rest to a detached thread and    *)
(* returns to the callback.                                                *)
StopDeferred(t) ==
    /\ pc[t] = "stop" /\ Stoppable
    /\ mInCallback /\ mCallbackThreadId = t
    /\ BeginStop
    /\ pc' = [pc EXCEPT ![t] = Resume(t), ![Deferred(gen)] = "drain"]
    /\ call' = [call EXCEPT ![t] = "none", ![Deferred(gen)] = "stop"]
    /\ UNCHANGED <<local, handleVars, callbackVars, startVars,
                   mSessionClosed, sessState>>

(* The stopping thread waits for the callback to leave, then tears down. *)
MutantNoDrain(t) == pc[t] = "drain"
Drained(t) == pc[t] = "drain" /\ ~mInCallback

StopDrained(t) ==
    /\ Drained(t)
    /\ TakeMembers(t, member)
    /\ UNCHANGED <<call, live, flagVars, callbackVars, startVars,
                   mSessionClosed, sessState>>

-----------------------------------------------------------------------------
(* teardown() after the unlock. *)

Holds(t, k) == \E h \in local[t] : h[1] = k

(* Stop the repeating request and close the session, if there is one. *)
TeardownClose(t) ==
    /\ pc[t] = "close"
    /\ IF Holds(t, "sess")
       THEN /\ Goto(t, "waitClosed")
            /\ sessState' = [g \in Gens |->
                   IF <<"sess", g>> \in local[t] /\ sessState[g] = "open"
                   THEN "closing" ELSE sessState[g]]
            /\ live' = live \ {h \in local[t] : h[1] = "sess"}
            /\ local' = [local EXCEPT ![t] = {h \in @ : h[1] # "sess"}]
       ELSE /\ Goto(t, "free")
            /\ UNCHANGED <<sessState, live, local>>
    /\ UNCHANGED <<call, member, flagVars, callbackVars, startVars,
                   mSessionClosed>>

(* wait_for(1 s, mSessionClosed): the flag is set, or the second has passed, *)
(* which with ClosesInTime is after the callback of the session closed here. *)
SecondMayPass(t) ==
    ClosesInTime => \A g \in Gens : <<"dev", g>> \in local[t] => sessState[g] # "closing"

TeardownWaited(t) ==
    /\ pc[t] = "waitClosed"
    /\ mSessionClosed \/ SecondMayPass(t)
    /\ Goto(t, "free")
    /\ UNCHANGED <<call, local, handleVars, flagVars, callbackVars, startVars,
                   mSessionClosed, sessState>>

(* The order of the frees.  Those of the first group have no effect on any  *)
(* other thread and are one step.                                          *)
MutantReaderFirst == <<{"rdr"}, {"tgt", "req", "outC", "out"}, {"dev"}, {"mgr"}>>
FreeOrder == <<{"tgt", "req", "outC", "out"}, {"dev"}, {"rdr"}, {"mgr"}>>

(* The handles that are freed next: none held comes before them. *)
NextFree(t) ==
    {h \in local[t] : \E i \in DOMAIN FreeOrder :
        /\ h[1] \in FreeOrder[i]
        /\ \A j \in 1..(i - 1) : \A k \in FreeOrder[j] : ~Holds(t, k)}

(* External: AImageReader_delete returns once the reader's listener thread  *)
(* has left the listener, which is why it must not run under mLock.        *)
ReaderDrained(h) == h[1] = "rdr" => pc[Listener(h[2])] = "idle"

TeardownFree(t) ==
    /\ pc[t] = "free"
    /\ NextFree(t) # {} /\ \A h \in NextFree(t) : ReaderDrained(h)
    /\ live' = live \ NextFree(t)
    /\ local' = [local EXCEPT ![t] = @ \ NextFree(t)]
    /\ UNCHANGED <<pc, call, member, flagVars, callbackVars, startVars,
                   mSessionClosed, sessState>>

(* Re-lock and return to start(), which returns false, or to stop(), which  *)
(* ends the stop.                                                          *)
TeardownDone(t) ==
    /\ pc[t] = "free" /\ local[t] = {}
    /\ mIsStopping' = IF call[t] = "stop" THEN FALSE ELSE mIsStopping
    /\ Return(t)
    /\ UNCHANGED <<local, handleVars, mIsRunning, callbackVars, startVars,
                   mSessionClosed, sessState>>

-----------------------------------------------------------------------------
(* onImageAvailable() on the listener thread of generation g. *)

(* External: images arrive at a reader whose request was accepted, for as   *)
(* long as it exists.  The first check, under mLock.                       *)
ImageAvailable(g) ==
    /\ pc[Listener(g)] = "idle"
    /\ g \in streamed /\ <<"rdr", g>> \in live
    /\ mIsRunning
    /\ Goto(Listener(g), "checked")
    /\ UNCHANGED <<call, local, handleVars, flagVars, callbackVars, startVars,
                   mSessionClosed, sessState>>

(* The constructor of CallbackGuard. *)
GuardEnter(g) ==
    /\ pc[Listener(g)] = "checked"
    /\ mInCallback' = TRUE /\ mCallbackThreadId' = Listener(g)
    /\ Goto(Listener(g), "acquire")
    /\ UNCHANGED <<call, local, handleVars, flagVars, startVars,
                   mSessionClosed, sessState>>

(* packAImageToNv21() refuses an image without size, planes or plane data. *)
PackVerdicts == {"deliver", "guardExit"}

(* acquireLatestImage and the packing: an image, or nothing to deliver. *)
AcquireImage(g) ==
    /\ pc[Listener(g)] = "acquire"
    /\ \E l \in PackVerdicts : Goto(Listener(g), l)
    /\ UNCHANGED <<call, local, handleVars, flagVars, callbackVars, startVars,
                   mSessionClosed, sessState>>

(* The second check, under mLock, and the call of the frame callback. *)
MutantNextImage == IF mIsRunning THEN "inCallback" ELSE "acquire"
MutantNoRecheck == "inCallback"
AfterSecondCheck == IF mIsRunning THEN "inCallback" ELSE "guardExit"

DeliverFrame(g) ==
    /\ pc[Listener(g)] = "deliver"
    /\ Goto(Listener(g), AfterSecondCheck)
    /\ UNCHANGED <<call, local, handleVars, flagVars, callbackVars, startVars,
                   mSessionClosed, sessState>>

(* The frame callback returns, or calls stop(), which it may do again: the   *)
(* callback that drops the last reference of its session runs ~Session() and *)
(* ~CameraClient(), and each of them stops the camera.                     *)
CallbackEnds(g) ==
    /\ pc[Listener(g)] = "inCallback"
    /\ \/ Goto(Listener(g), "guardExit")
       \/ CallbackMayStop /\ Goto(Listener(g), "stop")
    /\ UNCHANGED <<call, local, handleVars, flagVars, callbackVars, startVars,
                   mSessionClosed, sessState>>

(* The destructor of CallbackGuard. *)
MutantExitKeepsFlag == mInCallback' = mInCallback /\ mCallbackThreadId' = NoThread
MutantExitKeepsThread == mInCallback' = FALSE /\ mCallbackThreadId' = mCallbackThreadId
LeaveCallback == mInCallback' = FALSE /\ mCallbackThreadId' = NoThread

GuardExit(g) ==
    /\ pc[Listener(g)] = "guardExit"
    /\ LeaveCallback
    /\ Goto(Listener(g), "idle")
    /\ UNCHANGED <<call, local, handleVars, flagVars, startVars,
                   mSessionClosed, sessState>>

-----------------------------------------------------------------------------
(* onDeviceDisconnected() and onDeviceError(): the same decision. *)
DeviceGone(g) ==
    /\ pc[DeviceThread(g)] = "idle" /\ <<"dev", g>> \in live
    /\ mIsRunning /\ ~mIsStopping
    /\ Goto(DeviceThread(g), "stop")
    /\ UNCHANGED <<call, local, handleVars, flagVars, callbackVars, startVars,
                   mSessionClosed, sessState>>

(* onSessionClosed(), once per session: after the backend closed it, or     *)
(* because the camera service did.                                         *)
OnSessionClosed(g) ==
    /\ pc[SessionThread(g)] = "idle"
    /\ sessState[g] \in {"open", "closing"}
    /\ sessState' = [sessState EXCEPT ![g] = "closed"]
    /\ mSessionClosed' = TRUE
    /\ Goto(SessionThread(g), IF mIsRunning /\ ~mIsStopping THEN "stop" ELSE "idle")
    /\ UNCHANGED <<call, local, handleVars, flagVars, callbackVars, startVars>>

-----------------------------------------------------------------------------
(* The steps of a thread in start() or stop(), the call included. *)
Proceed(t) ==
    \/ StartWait(t) \/ StartAlready(t) \/ StartBody(t)
    \/ StopNothing(t) \/ StopJoin(t) \/ StopJoined(t)
    \/ StopBody(t) \/ StopDeferred(t) \/ StopDrained(t)
    \/ TeardownClose(t) \/ TeardownWaited(t) \/ TeardownFree(t) \/ TeardownDone(t)

(* The steps of the listener after its first check. *)
ListenerStep(g) ==
    GuardEnter(g) \/ AcquireImage(g) \/ DeliverFrame(g) \/ CallbackEnds(g) \/ GuardExit(g)

Next ==
    \/ WarmUpAtHalStart
    \/ \E t \in Threads : Proceed(t)
    \/ \E g \in Gens : ImageAvailable(g) \/ ListenerStep(g)
                       \/ DeviceGone(g) \/ OnSessionClosed(g)

(* A thread inside the backend, and a listener inside its callback, keep    *)
(* running; nothing forces a call, an image or an event to happen.         *)
Fairness ==
    /\ \A t \in Threads : WF_vars(pc[t] # "idle" /\ Proceed(t))
    /\ \A g \in Gens : WF_vars(ListenerStep(g))
    /\ \A g \in Gens : WF_vars(sessState[g] = "closing" /\ OnSessionClosed(g))

Spec == Init /\ [][Next]_vars /\ Fairness

-----------------------------------------------------------------------------
(* Properties. *)

PCs == {"idle", "start", "stop", "stopWait", "drain", "close", "waitClosed", "free",
        "checked", "acquire", "deliver", "inCallback", "guardExit"}
SessStates == {"none", "open", "closing", "closed"}

(* The members have the types the header declares, and every thread is at   *)
(* a point of the function it is in.                                       *)
TypeOK ==
    /\ pc \in [Threads -> PCs]
    /\ call \in [Threads -> {"none", "start", "stop"}]
    /\ local \in [Threads -> SUBSET Handles]
    /\ member \in SUBSET Handles
    /\ live \in SUBSET Handles
    /\ gen \in 0..MaxStarts
    /\ mIsRunning \in BOOLEAN /\ mIsStopping \in BOOLEAN
    /\ mSessionClosed \in BOOLEAN /\ mInCallback \in BOOLEAN
    /\ \/ ~mInCallback /\ mCallbackThreadId = NoThread
       \/ mInCallback /\ \E g \in Gens : mCallbackThreadId = Listener(g)
    /\ mLastStartFailure \in BOOLEAN
    /\ warm \in {"pending", "valid", "invalid"}
    /\ streamed \in SUBSET Gens
    /\ sessState \in [Gens -> SessStates]

(* Every NDK object start() creates is owned in exactly one place until it  *)
(* is freed: by the members or by the locals of one teardown().  Whatever   *)
(* stage start() fails at, and whoever runs start() or stop() while a       *)
(* teardown() has released mLock, nothing leaks and nothing is freed twice. *)
HandlesBalanced ==
    /\ live = member \cup UNION {local[t] : t \in Threads}
    /\ \A t \in Threads : local[t] \cap member = {}
    /\ \A t, u \in Threads : t # u => local[t] \cap local[u] = {}

(* What an NDK object is built on. *)
DependsOn(k) ==
    CASE k = "dev" -> {"mgr"}
      [] k \in {"out", "tgt"} -> {"rdr"}
      [] k = "sess" -> {"dev", "outC", "out", "rdr"}
      [] k = "req" -> {"dev"}
      [] OTHER -> {}

(* teardown() frees in an order in which no live object has lost one it was *)
(* created from: the device outlives its session and requests, the reader   *)
(* the outputs on its window, the manager the device.                      *)
FreedInOrder ==
    \A h \in live : \A k \in DependsOn(h[1]) : <<k, h[2]>> \in live

(* After stop() has returned, and until the next start(), no frame callback *)
(* is executing or in a stop() of its own: mIsStopping outlasts the wait for the callback, a deferred *)
(* stop() included, and the check after the CallbackGuard keeps out a frame *)
(* that passed the check before it.                                        *)
Delivering(g) == pc[Listener(g)] \in {"inCallback", "stop", "stopWait"}
StopQuiesces == ~mIsRunning /\ ~mIsStopping => \A g \in Gens : ~Delivering(g)

(* A listener thread inside onImageAvailable() is the one of the current    *)
(* generation, so a frame is never handed to the callback of a later        *)
(* start(), and mInCallback and mCallbackThreadId describe one thread.      *)
ListenerIsCurrent ==
    \A g \in Gens : pc[Listener(g)] # "idle" => g = gen /\ <<"rdr", g>> \in live

(* stop() waits for the callback before it takes the handles: while one     *)
(* teardown() of a stop() runs, no other thread tears down a stop() and the *)
(* frame callback is not executing.                                        *)
TearingDown(t) == call[t] = "stop" /\ pc[t] \in {"close", "waitClosed", "free"}
TeardownExcludesCallback ==
    \A t \in Threads : TearingDown(t) =>
        /\ mIsStopping /\ member = {}
        /\ \A g \in Gens : ~Delivering(g)
        /\ \A u \in Threads : TearingDown(u) => u = t

(* When closes are answered within the second, teardown() frees the device  *)
(* and the outputs of a session only after that session reported closed.    *)
CloseAcknowledged ==
    \A t \in Threads, g \in Gens :
        pc[t] = "free" /\ <<"dev", g>> \in local[t] => sessState[g] \in {"none", "closed"}

(* Every call of start() and stop() by a client returns. *)
CallsReturn == \A t \in Clients : pc[t] # "idle" ~> pc[t] = "idle"

(* A camera that went away, or a session the service closed, ends the       *)
(* stream and releases every handle.                                       *)
EventReleasesCamera ==
    \A g \in Gens :
        pc[DeviceThread(g)] = "stop" \/ pc[SessionThread(g)] = "stop"
            ~> \A k \in Kinds : <<k, g>> \notin live

(* teardown() waits for onSessionClosed "to prevent race": the stop() that  *)
(* onSessionClosed calls ends the stream of the session that closed, never  *)
(* the stream of a later start().                                          *)
LateCloseStopsNothing ==
    \A g \in Gens : mIsRunning /\ gen # g => pc[SessionThread(g)] # "stop"

(* All the waiting, draining and freeing of the backend is, to its callers,   *)
(* a stream that is on, being stopped, or off: frames come only while it is  *)
(* on, a stop begun from anywhere comes to its end, and none ends while a    *)
(* frame is being delivered.                                               *)
Promise == INSTANCE CameraPromise WITH
    running <- mIsRunning,
    stopping <- mIsStopping,
    delivering <- \E g \in Gens : Delivering(g)
KeepsPromise == Promise!Spec

(* A stop in progress has a thread that will end it, and a thread that tears *)
(* down, in start() or stop(), can go on or waits for one that can: a        *)
(* listener on its way out of onImageAvailable(), or the session callback of *)
(* a session being closed.  The exception, the frame callback that joins the *)
(* stop() draining it, is the one CallbackThreadNeverWaits is about.       *)
ListenerMoves == {"checked", "acquire", "deliver", "inCallback", "stop", "guardExit"}
WaitOver(t) ==
    \/ pc[t] = "drain" /\ ~mInCallback
    \/ pc[t] = "close"
    \/ pc[t] = "waitClosed" /\ (mSessionClosed \/ SecondMayPass(t))
    \/ pc[t] = "free" /\ local[t] = {}
    \/ pc[t] = "free" /\ NextFree(t) # {} /\ \A h \in NextFree(t) : ReaderDrained(h)
AwaitsListener(t, g) ==
    \/ pc[t] = "drain" /\ mInCallback /\ mCallbackThreadId = Listener(g)
    \/ pc[t] = "free" /\ <<"rdr", g>> \in NextFree(t)
AwaitsReport(t, g) ==
    pc[t] = "waitClosed" /\ <<"dev", g>> \in local[t] /\ sessState[g] = "closing"
NobodyWaitsInVain ==
    /\ mIsStopping => \E t \in Threads : call[t] = "stop"
    /\ \A t \in Threads : call[t] # "none" =>
          \/ WaitOver(t)
          \/ \E g \in Gens :
                \/ AwaitsListener(t, g) /\ pc[Listener(g)] \in ListenerMoves
                \/ AwaitsReport(t, g) /\ pc[SessionThread(g)] = "idle"
                \/ pc[t] = "drain" /\ AwaitsListener(t, g) /\ pc[Listener(g)] = "stopWait"

(* stop() on the callback thread never blocks it: teardown is deferred. *)
CallbackThreadNeverWaits == \A g \in Gens : pc[Listener(g)] # "stopWait"

-----------------------------------------------------------------------------
(***************************************************************************)
(* The inductive invariant the proofs rest on (CameraBackendProofs).       *)
(***************************************************************************)

(* A running stream owns all its handles, all of the current generation. *)
RunningIsComplete == mIsRunning => member = Kinds \X {gen}

TeardownPCs == {"close", "waitClosed", "free"}

(* Only a teardown() has handles in its locals, and call says whose it is. *)
PhasesOK ==
    \A t \in Threads :
        /\ call[t] = "none" <=> pc[t] \notin TeardownPCs \cup {"drain"}
        /\ pc[t] = "drain" => call[t] = "stop"
        /\ pc[t] \notin TeardownPCs => local[t] = {}
        /\ call[t] = "start" => t \in Clients

(* mIsStopping stands for the one stop() that is under way. *)
OneStopper ==
    /\ mIsStopping <=> \E t \in Threads : call[t] = "stop"
    /\ \A t, u \in Threads : call[t] = "stop" /\ call[u] = "stop" => t = u
    /\ ~(mIsRunning /\ mIsStopping)

(* Without a stream the members are empty, but for a stop() that has not    *)
(* taken them yet.                                                         *)
MembersOwned ==
    member # {} => mIsRunning \/ \E t \in Threads : pc[t] = "drain"

(* Handles and streams belong to generations begun. *)
NoFutureHandles ==
    /\ \A h \in live : h[2] <= gen
    /\ \A g \in streamed : g <= gen

(* A start() that failed after its reader was created never streamed. *)
FailedNeverStreamed ==
    \A t \in Threads : call[t] = "start" => \A h \in local[t] : h[2] \notin streamed

(* The reader of an active listener is a member or held by the stop().     *)
ActiveListener ==
    \A g \in Gens : pc[Listener(g)] # "idle" =>
        /\ g = gen
        /\ \/ <<"rdr", g>> \in member
           \/ \E t \in Threads : call[t] = "stop" /\ <<"rdr", g>> \in local[t]

(* A frame callback executes only between CallbackGuard's constructor and   *)
(* destructor, and a stop() that has begun has not drained it yet.         *)
CallbackGuarded ==
    \A g \in Gens :
        /\ pc[Listener(g)] \notin {"idle", "checked"} => mInCallback
        /\ Delivering(g) => mIsRunning \/ \E t \in Threads : pc[t] = "drain"

IInv ==
    /\ TypeOK /\ HandlesBalanced /\ RunningIsComplete
    /\ PhasesOK /\ OneStopper /\ MembersOwned /\ NoFutureHandles
    /\ FailedNeverStreamed /\ ActiveListener /\ CallbackGuarded

(* What NobodyWaitsInVain needs besides: the named callback thread is inside *)
(* the guard, a listener is never in a teardown() of its own, and a session  *)
(* thread is busy only after its session reported closed.                  *)
CallbackThread == mInCallback => pc[mCallbackThreadId] \notin {"idle", "checked"}
Places ==
    \A g \in Gens :
        /\ pc[Listener(g)] \in ListenerMoves \cup {"idle", "stopWait"}
        /\ pc[SessionThread(g)] # "idle" => sessState[g] = "closed"
        /\ sessState[g] # "none" => g <= gen

(* What FreedInOrder needs besides: each owner holds what its handles depend *)
(* on, and a teardown() that frees has closed its session.                 *)
Whole(held) == \A h \in held : \A k \in DependsOn(h[1]) : <<k, h[2]>> \in held
OwnersWhole ==
    /\ Whole(member) /\ \A t \in Threads : Whole(local[t])
    /\ \A t \in Threads : pc[t] \in {"waitClosed", "free"} => ~Holds(t, "sess")

(* What CloseAcknowledged needs besides.  mSessionClosed says that some session *)
(* closed, so it speaks for the one a teardown() waits for only if there is no *)
(* other: no two failing starts tear down a session side by side.          *)
ClosesAlone ==
    (\A c, d \in Clients : c = d) \/ FailureStages \cap {"request", "streaming"} = {}

Unclosed(g) == sessState[g] \in {"open", "closing"}
AwaitsClose(t, g) ==
    \/ pc[t] = "close" /\ <<"sess", g>> \in local[t] /\ sessState[g] = "open"
    \/ pc[t] = "waitClosed" /\ <<"dev", g>> \in local[t] /\ sessState[g] = "closing"

(* At most one session is not closed, the flag is not set for another's sake,  *)
(* and whoever owns the session has yet to wait for it.                    *)
OneUnclosed ==
    /\ \A g, h \in Gens : Unclosed(g) /\ Unclosed(h) => g = h
    /\ \A g \in Gens : Unclosed(g) =>
          /\ ~mSessionClosed
          /\ \/ <<"sess", g>> \in member /\ sessState[g] = "open"
             \/ \E t \in Threads : AwaitsClose(t, g)
    /\ FailureStages \cap {"request", "streaming"} = {} =>
          \A t \in Threads : call[t] = "start" => ~Holds(t, "sess") /\ pc[t] # "waitClosed"
=============================================================================
