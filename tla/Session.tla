------------------------------- MODULE Session -------------------------------
(***************************************************************************)
(* Session: the operations of one biometric session.                       *)
(*                                                                         *)
(* Four kinds of threads share its members, which are atomics or plain     *)
(* fields, never under one lock:                                           *)
(*   - the framework's binder threads (Clients), which start operations,   *)
(*     cancel them and close the session;                                  *)
(*   - the camera's callback thread, in onCameraFrame();                   *)
(*   - the detached thread onCameraFrame() starts for a frame;             *)
(*   - the worker that delivers the callbacks posted by all of them.       *)
(*                                                                         *)
(* The camera is CameraBackend seen from outside: start() succeeds or      *)
(* fails, stop() returns when no frame callback is executing.  What the    *)
(* engine sees in a frame is a nondeterministic choice.  The reason and    *)
(* the display state of an operation are SessionContext's.                 *)
(***************************************************************************)
EXTENDS Integers, Sequences

CONSTANTS
    Clients,                      \* binder threads of the framework
    Kinds,                        \* operations explored, of "auth", "detect", "enroll"
    MaxOps,                       \* bound: operations started
    MaxCancels,                   \* bound: calls other than those that start operations
    MaxFrames,                    \* bound: frames claimed for processing
    ENROLL_REQUIRED_GOOD_FRAMES,  \* 5 in the code
    Serial,                       \* does the framework make one call at a time, and
                                  \* start an operation only when the last has reported
                                  \* an outcome
    CameraMayBeLost               \* may the device or the service end the stream

ASSUME KindsAssumption == Kinds \subseteq {"auth", "detect", "enroll"}
ASSUME BoundsAssumption ==
    MaxOps \in Nat /\ MaxCancels \in Nat /\ MaxFrames \in Nat
ASSUME GoodFramesAssumption == ENROLL_REQUIRED_GOOD_FRAMES \in Nat \ {0}
ASSUME ScenarioAssumption == Serial \in BOOLEAN /\ CameraMayBeLost \in BOOLEAN

VARIABLES
    active,            \* kinds whose flag (mIsAuthenticating, ...) is set
    mCancelled,        \* FaceEngine::mCancelled
    mEnrollFrameCount, \* FaceEngine::mEnrollFrameCount
    mProcessingFrame,
    camera,            \* "on" while the stream runs
    pc,                \* where each client is
    kind,              \* the operation a client is starting, or "none"
    closing,           \* clients whose cancel() was called by close()
    callback,          \* where the camera's callback thread is
    frame,             \* where the frame thread is
    result,            \* what the frame thread has found out
    tally,             \* the enrolment count it has read
    queue,             \* SessionCallbackQueue::queue
    outlived,          \* history: an operation has started beside the frame thread
    crossed,           \* history: such a frame thread has ended a later operation
                       \* than its own, and no cancel() has returned since
    ops,               \* operations started so far
    cancels, frames,   \* such calls and claimed frames so far, for the bounds
    posted, reported   \* outcomes posted for, and delivered of, each operation

engineVars == <<mCancelled, mEnrollFrameCount>>
clientVars == <<pc, kind, closing>>
frameVars == <<frame, result, tally>>
historyVars == <<outlived, crossed>>
callbackVars == <<queue, posted>>
countVars == <<ops, cancels, frames>>
vars == <<active, engineVars, mProcessingFrame, camera, clientVars,
          callback, frameVars, callbackVars, reported, historyVars, countVars>>

Ops == 1..MaxOps

(* The callbacks that end an operation for the framework, and the others.   *)
Outcomes == {"canceled", "vendorError", "succeeded", "detected", "enrolled"}
Others == {"failed", "frame", "progress", "closed", "result"}

Init ==
    /\ active = {}
    /\ mCancelled = FALSE /\ mEnrollFrameCount = 0
    /\ mProcessingFrame = FALSE
    /\ camera = "off"
    /\ pc = [c \in Clients |-> "idle"]
    /\ kind = [c \in Clients |-> "none"]
    /\ closing = {}
    /\ callback = "idle"
    /\ frame = "idle" /\ result = "none" /\ tally = 0
    /\ queue = <<>>
    /\ outlived = FALSE /\ crossed = FALSE
    /\ ops = 0 /\ cancels = 0 /\ frames = 0
    /\ posted = [n \in Ops |-> {}] /\ reported = [n \in Ops |-> {}]

Goto(c, l) == pc' = [pc EXCEPT ![c] = l]

(* postCallback(): the worker delivers the callbacks in this order. *)
MutantDropsWhenBusy(cb) ==
    /\ queue' = IF queue = <<>> THEN <<[cb |-> cb, op |-> ops]>> ELSE queue
    /\ posted' = IF ops > 0 /\ cb \in Outcomes
                 THEN [posted EXCEPT ![ops] = @ \cup {cb}] ELSE posted
PostCallback(cb) ==
    /\ queue' = Append(queue, [cb |-> cb, op |-> ops])
    /\ posted' = IF ops > 0 /\ cb \in Outcomes
                 THEN [posted EXCEPT ![ops] = @ \cup {cb}] ELSE posted

NothingPosted == UNCHANGED callbackVars

(* CameraClient::stop() lets no new frame in, and returns once no frame       *)
(* callback is executing.                                                  *)
StopCamera == camera' = "off"
Stopped == callback = "idle"
StopInProgress == frame = "awaitStopped" \/ \E c \in Clients : pc[c] = "awaitStopped"

-----------------------------------------------------------------------------
(* authenticate(), detectInteraction() and enroll(). *)

(* A framework that serialises its calls makes one when none is running, and  *)
(* starts an operation when the last one has reported an outcome.  Whether a  *)
(* frame of that operation is still being processed nobody tells it.         *)
NoCallRuns == Serial => \A c \in Clients : pc[c] = "idle"
MayStart == NoCallRuns /\ (Serial /\ ops > 0 => reported[ops] # {})

(* startOperation() *)
StartOperation(c, k) ==
    /\ pc[c] = "idle" /\ ops < MaxOps /\ MayStart
    /\ ops' = ops + 1
    /\ kind' = [kind EXCEPT ![c] = k]
    /\ mCancelled' = FALSE
    /\ outlived' = (frame # "idle")
    /\ Goto(c, "setFlag")
    /\ NothingPosted
    /\ UNCHANGED <<active, mEnrollFrameCount, mProcessingFrame, camera, closing,
                   callback, frameVars, reported, crossed, cancels, frames>>

SetFlag(c) ==
    /\ pc[c] = "setFlag"
    /\ active' = active \cup {kind[c]}
    /\ Goto(c, "startCamera")
    /\ NothingPosted
    /\ UNCHANGED <<engineVars, mProcessingFrame, camera, kind,
                   closing, callback, frameVars, reported, historyVars, countVars>>

(* CameraClient::start() waits for a stop() in progress: already running,     *)
(* started, or failed.                                                      *)
StartCamera(c) ==
    /\ pc[c] = "startCamera"
    /\ ~StopInProgress
    /\ \/ camera' = "on" /\ Goto(c, "idle") /\ kind' = [kind EXCEPT ![c] = "none"]
       \/ /\ camera = "off" /\ camera' = "off"
          /\ Goto(c, "cameraFailed") /\ UNCHANGED kind
    /\ NothingPosted
    /\ UNCHANGED <<active, engineVars, mProcessingFrame, closing, callback, frameVars,
                   reported, historyVars, countVars>>

(* The flag is cleared, then onError(VENDOR, code) is posted. *)
CameraFailed(c) ==
    /\ pc[c] = "cameraFailed"
    /\ active' = active \ {kind[c]}
    /\ Goto(c, "postError")
    /\ NothingPosted
    /\ UNCHANGED <<engineVars, mProcessingFrame, camera, kind,
                   closing, callback, frameVars, reported, historyVars, countVars>>

PostError(c) ==
    /\ pc[c] = "postError"
    /\ PostCallback("vendorError")
    /\ Goto(c, "idle") /\ kind' = [kind EXCEPT ![c] = "none"]
    /\ UNCHANGED <<active, engineVars, mProcessingFrame, camera, closing, callback,
                   frameVars, reported, historyVars, countVars>>

-----------------------------------------------------------------------------
(* cancel(), called by the cancellation signal, by onContextChanged() and   *)
(* by close().                                                             *)

CallCancel(c) ==
    /\ pc[c] = "idle" /\ cancels < MaxCancels
    /\ NoCallRuns
    /\ cancels' = cancels + 1
    /\ closing' \in {closing, closing \cup {c}}
    /\ Goto(c, "readFlags")
    /\ NothingPosted
    /\ UNCHANGED <<active, engineVars, mProcessingFrame, camera, kind,
                   callback, frameVars, reported, historyVars, ops, frames>>

(* CANCELED is posted if some operation was active when the flags were read. *)
MutantPostsAfterClear == "clearFlags"
AfterReadFlags == IF active = {} THEN "clearFlags" ELSE "postCanceled"

ReadFlags(c) ==
    /\ pc[c] = "readFlags"
    /\ Goto(c, AfterReadFlags)
    /\ NothingPosted
    /\ UNCHANGED <<active, engineVars, mProcessingFrame, camera, kind,
                   closing, callback, frameVars, reported, historyVars, countVars>>

PostCanceled(c) ==
    /\ pc[c] = "postCanceled"
    /\ PostCallback("canceled")
    /\ Goto(c, "clearFlags")
    /\ UNCHANGED <<active, engineVars, mProcessingFrame, camera, kind,
                   closing, callback, frameVars, reported, historyVars, countVars>>

ClearFlags(c) ==
    /\ pc[c] = "clearFlags"
    /\ active' = {}
    /\ Goto(c, "cancelAll")
    /\ NothingPosted
    /\ UNCHANGED <<engineVars, mProcessingFrame, camera, kind,
                   closing, callback, frameVars, reported, historyVars, countVars>>

(* FaceEngine::cancelAll(), which also resets the enrolment.                 *)
CancelAll(c) ==
    /\ pc[c] = "cancelAll"
    /\ mCancelled' = TRUE /\ mEnrollFrameCount' = 0
    /\ Goto(c, "stopCamera")
    /\ NothingPosted
    /\ UNCHANGED <<active, mProcessingFrame, camera, kind,
                   closing, callback, frameVars, reported, historyVars, countVars>>

MutantCancelLeavesCamera == UNCHANGED camera
CancelStopsCamera == StopCamera

CancelStop(c) ==
    /\ pc[c] = "stopCamera"
    /\ CancelStopsCamera
    /\ Goto(c, "awaitStopped")
    /\ NothingPosted
    /\ UNCHANGED <<active, engineVars, mProcessingFrame, kind,
                   closing, callback, frameVars, reported, historyVars, countVars>>

CancelStopped(c) ==
    /\ pc[c] = "awaitStopped" /\ Stopped
    /\ Goto(c, IF c \in closing THEN "postClosed" ELSE "idle")
    /\ crossed' = FALSE
    /\ NothingPosted
    /\ UNCHANGED <<active, engineVars, mProcessingFrame, camera, kind,
                   closing, callback, frameVars, reported, outlived, countVars>>

PostClosed(c) ==
    /\ pc[c] = "postClosed"
    /\ PostCallback("closed")
    /\ closing' = closing \ {c}
    /\ Goto(c, "idle")
    /\ UNCHANGED <<active, engineVars, mProcessingFrame, camera, kind,
                   callback, frameVars, reported, historyVars, countVars>>

-----------------------------------------------------------------------------
(* The calls that touch no operation: challenges, features, enumeration,     *)
(* removal (whose files are TemplateStore's), the authenticator id and the    *)
(* lockout.  All but invalidateAuthenticatorId() post one callback.          *)
OtherCall(c) ==
    /\ pc[c] = "idle" /\ cancels < MaxCancels /\ NoCallRuns
    /\ cancels' = cancels + 1
    /\ PostCallback("result") \/ NothingPosted
    /\ UNCHANGED <<active, engineVars, mProcessingFrame, camera, clientVars,
                   callback, frameVars, reported, historyVars, ops, frames>>

-----------------------------------------------------------------------------
(* onCameraFrame() on the camera's callback thread. *)

(* A frame is dropped at once if the engine is cancelled. *)
FrameArrives ==
    /\ callback = "idle" /\ camera = "on" /\ ~mCancelled /\ frames < MaxFrames
    /\ callback' = "claim"
    /\ NothingPosted
    /\ UNCHANGED <<active, engineVars, mProcessingFrame, camera,
                   clientVars, frameVars, reported, historyVars, countVars>>

(* compare_exchange on mProcessingFrame; the winner starts the frame thread. *)
ClaimFrame ==
    /\ callback = "claim"
    /\ callback' = "idle"
    /\ IF ~mProcessingFrame
       THEN /\ mProcessingFrame' = TRUE
            /\ frame' = "check" /\ result' = "none" /\ UNCHANGED tally
            /\ outlived' = FALSE
            /\ frames' = frames + 1
       ELSE UNCHANGED <<mProcessingFrame, frameVars, outlived, frames>>
    /\ NothingPosted
    /\ UNCHANGED <<active, engineVars, camera, clientVars,
                   reported, crossed, ops, cancels>>

(* The stream ends without a word to the session. *)
CameraLost ==
    /\ CameraMayBeLost /\ camera = "on" /\ callback = "idle"
    /\ camera' = "off"
    /\ NothingPosted
    /\ UNCHANGED <<active, engineVars, mProcessingFrame, clientVars,
                   callback, frameVars, reported, historyVars, countVars>>

-----------------------------------------------------------------------------
(* The frame thread. *)

FrameGoto(l) == frame' = l

MutantForgetsFlag == mProcessingFrame' = mProcessingFrame
ReleaseFrame == mProcessingFrame' = FALSE

(* Cancelled since: nothing to do but release the frame. *)
FrameCancelled ==
    /\ frame = "check" /\ mCancelled
    /\ ReleaseFrame
    /\ FrameGoto("idle")
    /\ NothingPosted
    /\ UNCHANGED <<active, engineVars, camera, clientVars,
                   callback, result, tally, reported, historyVars, countVars>>

(* The flags choose the engine call, authentication first.  A call that     *)
(* finds the engine cancelled does nothing.                                *)
EngineCall ==
    CASE "auth" \in active -> "auth"
      [] "auth" \notin active /\ "detect" \in active -> "detect"
      [] "auth" \notin active /\ "detect" \notin active /\ "enroll" \in active -> "enroll"
      [] OTHER -> "release"

FrameDispatch ==
    /\ frame = "check" /\ ~mCancelled
    /\ FrameGoto(EngineCall)
    /\ NothingPosted
    /\ UNCHANGED <<active, engineVars, mProcessingFrame, camera,
                   clientVars, callback, result, tally, reported, historyVars, countVars>>

(* FaceEngine::authenticate(): a match, no match, a quality code, or nothing. *)
EngineAuthenticate ==
    /\ frame = "auth"
    /\ IF mCancelled
       THEN FrameGoto("release") /\ UNCHANGED result
       ELSE \/ result' = "succeeded" /\ FrameGoto("clear")
            \/ result' \in {"failed", "frame"} /\ FrameGoto("post")
            \/ FrameGoto("release") /\ UNCHANGED result
    /\ NothingPosted
    /\ UNCHANGED <<active, engineVars, mProcessingFrame, camera,
                   clientVars, callback, tally, reported, historyVars, countVars>>

(* FaceEngine::analyzeFaceQuality(): a face, or anything else. *)
EngineDetect ==
    /\ frame = "detect"
    /\ \/ ~mCancelled /\ result' = "detected" /\ FrameGoto("clear")
       \/ FrameGoto("release") /\ UNCHANGED result
    /\ NothingPosted
    /\ UNCHANGED <<active, engineVars, mProcessingFrame, camera,
                   clientVars, callback, tally, reported, historyVars, countVars>>

(* FaceEngine::enroll(): the cancelled check, which posts a frame message;   *)
(* mEnrollFrameCount++ on a plain int, which a reset in cancelAll() may come  *)
(* in between; then the verdict on the count.                              *)
EngineEnroll ==
    /\ frame = "enroll"
    /\ IF mCancelled
       THEN result' = "frame" /\ FrameGoto("post")
       ELSE FrameGoto("count") /\ UNCHANGED result
    /\ NothingPosted
    /\ UNCHANGED <<active, engineVars, mProcessingFrame, camera,
                   clientVars, callback, tally, reported, historyVars, countVars>>

ReadCount ==
    /\ frame = "count"
    /\ tally' = mEnrollFrameCount
    /\ FrameGoto("increment")
    /\ NothingPosted
    /\ UNCHANGED <<active, engineVars, mProcessingFrame, camera,
                   clientVars, callback, result, reported, historyVars, countVars>>

WriteCount ==
    /\ frame = "increment"
    /\ mEnrollFrameCount' = tally + 1
    /\ FrameGoto("verdict")
    /\ NothingPosted
    /\ UNCHANGED <<active, mCancelled, mProcessingFrame, camera,
                   clientVars, callback, result, tally, reported, historyVars, countVars>>

(* Not enough good frames yet, or the template is saved, or that failed.     *)
MutantOneFrameMore == mEnrollFrameCount <= ENROLL_REQUIRED_GOOD_FRAMES
MoreFramesNeeded == mEnrollFrameCount < ENROLL_REQUIRED_GOOD_FRAMES

EnrollVerdict ==
    /\ frame = "verdict"
    /\ IF MoreFramesNeeded
       THEN result' = "progress" /\ FrameGoto("post") /\ UNCHANGED mEnrollFrameCount
       ELSE /\ mEnrollFrameCount' = 0
            /\ \/ result' = "enrolled" /\ FrameGoto("clear")
               \/ result' = "frame" /\ FrameGoto("post")
    /\ NothingPosted
    /\ UNCHANGED <<active, mCancelled, mProcessingFrame, camera,
                   clientVars, callback, tally, reported, historyVars, countVars>>

(* A terminal result: clear the flag, stop the camera, post the outcome.  No   *)
(* step asks whether the operation is still the one the frame was claimed for. *)
KindOf(r) == CASE r = "succeeded" -> "auth" [] r = "detected" -> "detect"
               [] r = "enrolled" -> "enroll"

EndsOperation == crossed' = (crossed \/ outlived)

FrameClear ==
    /\ frame = "clear" /\ EndsOperation
    /\ active' = active \ {KindOf(result)}
    /\ FrameGoto("stop")
    /\ NothingPosted
    /\ UNCHANGED <<engineVars, mProcessingFrame, camera, clientVars,
                   callback, result, tally, reported, outlived, countVars>>

FrameStop ==
    /\ frame = "stop" /\ EndsOperation
    /\ StopCamera
    /\ FrameGoto("awaitStopped")
    /\ NothingPosted
    /\ UNCHANGED <<active, engineVars, mProcessingFrame, clientVars,
                   callback, result, tally, reported, outlived, countVars>>

FrameStopped ==
    /\ frame = "awaitStopped" /\ Stopped
    /\ FrameGoto("post")
    /\ NothingPosted
    /\ UNCHANGED <<active, engineVars, mProcessingFrame, camera, clientVars,
                   callback, result, tally, reported, historyVars, countVars>>

FramePost ==
    /\ frame = "post"
    /\ PostCallback(result)
    /\ IF result \in Outcomes THEN EndsOperation ELSE UNCHANGED crossed
    /\ FrameGoto("release")
    /\ UNCHANGED <<active, engineVars, mProcessingFrame, camera,
                   clientVars, callback, result, tally, reported, outlived, countVars>>

FrameDone ==
    /\ frame = "release"
    /\ ReleaseFrame
    /\ FrameGoto("idle")
    /\ NothingPosted
    /\ UNCHANGED <<active, engineVars, camera, clientVars,
                   callback, result, tally, reported, historyVars, countVars>>

-----------------------------------------------------------------------------
(* The callback worker delivers one callback at a time. *)
Deliver ==
    /\ queue # <<>>
    /\ queue' = Tail(queue)
    /\ reported' = IF Head(queue).op > 0 /\ Head(queue).cb \in Outcomes
                   THEN [reported EXCEPT ![Head(queue).op] = @ \cup {Head(queue).cb}]
                   ELSE reported
    /\ UNCHANGED <<active, engineVars, mProcessingFrame, camera,
                   clientVars, callback, frameVars, posted, historyVars, countVars>>

-----------------------------------------------------------------------------
ClientStep(c) ==
    \/ SetFlag(c) \/ StartCamera(c) \/ CameraFailed(c) \/ PostError(c)
    \/ ReadFlags(c) \/ PostCanceled(c) \/ ClearFlags(c) \/ CancelAll(c)
    \/ CancelStop(c) \/ CancelStopped(c) \/ PostClosed(c)

FrameStep ==
    \/ FrameCancelled \/ FrameDispatch
    \/ EngineAuthenticate \/ EngineDetect \/ EngineEnroll
    \/ ReadCount \/ WriteCount \/ EnrollVerdict
    \/ FrameClear \/ FrameStop \/ FrameStopped \/ FramePost \/ FrameDone

Next ==
    \/ \E c \in Clients : CallCancel(c) \/ OtherCall(c) \/ ClientStep(c)
                          \/ \E k \in Kinds : StartOperation(c, k)
    \/ FrameArrives \/ ClaimFrame \/ CameraLost
    \/ FrameStep
    \/ Deliver

(* Threads inside a call run on; calls, frames and camera losses may never   *)
(* happen.                                                                 *)
Fairness ==
    /\ \A c \in Clients : WF_vars(ClientStep(c))
    /\ WF_vars(ClaimFrame) /\ WF_vars(FrameStep) /\ WF_vars(Deliver)

Spec == Init /\ [][Next]_vars /\ Fairness

(***************************************************************************)
(* Properties.                                                             *)
(***************************************************************************)
Places == {"idle", "setFlag", "startCamera", "cameraFailed", "postError", "readFlags",
           "postCanceled", "clearFlags", "cancelAll", "stopCamera", "awaitStopped",
           "postClosed"}
FramePlaces == {"idle", "check", "auth", "detect", "enroll", "count", "increment",
                "verdict", "clear", "stop", "awaitStopped", "post", "release"}

(* Every variable is in the range the code gives it: the enrolment's count     *)
(* never passes the number of good frames it needs, and is that number only  *)
(* until the verdict; the frame thread stops the camera for a final result    *)
(* only, and posts any result but "none".                                    *)
TypeOK ==
    /\ active \subseteq Kinds
    /\ mCancelled \in BOOLEAN /\ mProcessingFrame \in BOOLEAN
    /\ mEnrollFrameCount \in 0..ENROLL_REQUIRED_GOOD_FRAMES
    /\ mEnrollFrameCount = ENROLL_REQUIRED_GOOD_FRAMES => frame = "verdict"
    /\ tally \in 0..(ENROLL_REQUIRED_GOOD_FRAMES - 1)
    /\ camera \in {"off", "on"}
    /\ pc \in [Clients -> Places] /\ kind \in [Clients -> Kinds \cup {"none"}]
    /\ \A c \in Clients :
          pc[c] \in {"setFlag", "startCamera", "cameraFailed"} => kind[c] # "none"
    /\ closing \subseteq Clients
    /\ callback \in {"idle", "claim"}
    /\ frame \in FramePlaces
    /\ result \in {"none"} \cup Outcomes \cup Others
    /\ frame \in {"clear", "stop", "awaitStopped"} =>
          result \in {"succeeded", "detected", "enrolled"}
    /\ frame = "post" => result # "none"
    /\ queue \in Seq([cb : Outcomes \cup Others, op : 0..MaxOps])
    /\ outlived \in BOOLEAN /\ crossed \in BOOLEAN
    /\ ops \in 0..MaxOps /\ cancels \in Nat /\ frames \in Nat
    /\ posted \in [Ops -> SUBSET Outcomes] /\ reported \in [Ops -> SUBSET Outcomes]

(* mProcessingFrame is set exactly while a frame thread runs: a frame never   *)
(* finds the session busy for ever, and never runs beside another (the       *)
(* compare_exchange, and every return of the thread's function).             *)
FrameFlag == mProcessingFrame <=> frame # "idle"

(* No call is running and no frame is being processed. *)
Settled == (\A c \in Clients : pc[c] = "idle") /\ callback = "idle" /\ frame = "idle"

(* A framework that makes one call at a time is never left without a word:    *)
(* when the session has settled and no flag is set, an end has been posted     *)
(* since the last operation began, whatever frames, cancellations and failed  *)
(* starts met on the way, and even if that operation began before the one     *)
(* before it was over.  With Serial that end is the operation's own.         *)
SettledHasOutcome == Settled /\ active = {} /\ ops > 0 => posted[ops] # {}

(* For a framework that makes one call at a time and waits for each outcome: an *)
(* operation it still waits for always has its stream and its flag, and once   *)
(* an operation has reported its end nothing streams and no flag is left       *)
(* (cancel(), a failed start, a final result).  The one exception: a frame      *)
(* thread that outlived its own operation, because cancel() waits for no frame *)
(* being processed, hands its final result into a later one; the flag and the  *)
(* stream it meets there may then stay up, or go, until the next cancel().     *)
HasEnd == ops > 0 /\ posted[ops] # {}
StreamMatchesOperation ==
    Settled => IF HasEnd \/ ops = 0
               THEN crossed \/ (camera = "off" /\ active = {})
               ELSE camera = "on" /\ active # {}

(* A callback that ends an operation, once posted, is delivered, however many *)
(* others are queued before it (postCallback() and its worker).              *)
OutcomesDelivered ==
    \A n \in Ops, o \in Outcomes : o \in posted[n] ~> o \in reported[n]

(* Every frame that is claimed is released, so that frames never stop being   *)
(* processed while the stream runs (each path of the frame thread).          *)
FrameReleased == mProcessingFrame ~> ~mProcessingFrame

(* A cancellation of an active operation ends in a callback that reports the  *)
(* operation's end (cancel() reads the flags before it clears them).         *)
CancelIsReported ==
    \A c \in Clients, n \in Ops :
        pc[c] = "readFlags" /\ active # {} /\ ops = n ~> reported[n] # {}

-----------------------------------------------------------------------------
(***************************************************************************)
(* What SettledHasOutcome needs where the framework's calls come one at a   *)
(* time but wait for no outcome: operations may begin while the frame thread *)
(* still ends the last one.                                                *)
(***************************************************************************)
CallsInTurn == Serial \/ \A c, d \in Clients : c = d

At(places) == \E c \in Clients : pc[c] \in places
HasResult == frame = "post" /\ result \in Outcomes

OneCall == \A c, d \in Clients : pc[c] # "idle" /\ pc[d] # "idle" => c = d

(* cancel() has posted an end before it clears a flag.                     *)
CancelHasPosted ==
    \A c \in Clients : pc[c] = "clearFlags" /\ active # {} /\ ops > 0 => HasEnd

(* While no flag is set the end is posted, or somebody is about to post it or  *)
(* to set a flag.                                                          *)
EndOwed ==
    active = {} /\ ops > 0 =>
        HasEnd \/ At({"setFlag", "postError"}) \/ frame \in {"stop", "awaitStopped"} \/ HasResult

OutcomeInv == OneCall /\ CancelHasPosted /\ EndOwed

(***************************************************************************)
(* The inductive invariant behind StreamMatchesOperation, of a framework    *)
(* that serialises its calls: it adds to OutcomeInv.                       *)
(***************************************************************************)
Quiet == camera = "off" /\ callback = "idle" /\ active = {}

(* cancel() leaves nothing running. *)
CancelProgress ==
    \A c \in Clients :
        /\ pc[c] \in {"cancelAll", "stopCamera", "awaitStopped", "postClosed"} => active = {}
        /\ pc[c] = "awaitStopped" => camera = "off"

(* Before the first operation there is nothing. *)
QuietAtFirst ==
    ops = 0 => /\ Quiet /\ frame = "idle"
               /\ ~At({"setFlag", "startCamera", "cameraFailed", "postError"})

(* The end of an operation without a stream is posted or in somebody's hands,   *)
(* unless its stream is being started.                                     *)
StreamOrEnd ==
    ops > 0 /\ camera = "off" =>
        \/ HasEnd
        \/ At({"setFlag", "startCamera", "cameraFailed", "postError"})
        \/ frame \in {"stop", "awaitStopped"} \/ HasResult

(* An operation starts beside nothing but a frame thread of an earlier one. *)
StartsAlone ==
    \A c \in Clients : pc[c] \in {"setFlag", "startCamera", "cameraFailed", "postError"} =>
        /\ (frame = "idle" \/ outlived) /\ callback = "idle" /\ camera = "off"
        /\ ~HasEnd
        /\ active = IF pc[c] \in {"startCamera", "cameraFailed"} THEN {kind[c]} ELSE {}

(* One operation is active; a frame thread of its own works for it, or for none  *)
(* any more, and an outcome in its hands has ended the operation and its stream. *)
FrameServesOperation ==
    /\ \A k, l \in active : k = l
    /\ ~outlived =>
        /\ frame = "auth" => active \subseteq {"auth"}
        /\ frame = "detect" => active \subseteq {"detect"}
        /\ frame \in {"enroll", "count", "increment", "verdict"} => active \subseteq {"enroll"}
        /\ frame = "clear" => active \subseteq {KindOf(result)}
        /\ frame \in {"stop", "awaitStopped"} => active = {}
        /\ frame = "awaitStopped" => camera = "off"
        /\ HasResult => Quiet

(* An operation with a posted end is over or being cancelled. *)
EndIsQuiet ==
    HasEnd => Quiet \/ At({"clearFlags", "cancelAll", "stopCamera", "awaitStopped"})

(* What is reported was posted. *)
PostedFirst ==
    /\ \A n \in Ops : (n > ops => posted[n] = {}) /\ reported[n] \subseteq posted[n]
    /\ \A i \in 1..Len(queue) :
          queue[i].op > 0 /\ queue[i].cb \in Outcomes => queue[i].cb \in posted[queue[i].op]

(* The last three parts are what a frame thread of an earlier operation breaks,  *)
(* and what the next cancel() restores.                                    *)
SerialInv ==
    /\ TypeOK /\ FrameFlag /\ OutcomeInv /\ PostedFirst
    /\ CancelProgress /\ QuietAtFirst /\ (CameraMayBeLost \/ StreamOrEnd)
    /\ crossed \/ (StartsAlone /\ FrameServesOperation /\ EndIsQuiet)
=============================================================================
