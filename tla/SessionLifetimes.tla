--------------------------- MODULE SessionLifetimes ---------------------------
(***************************************************************************)
(* SessionLifetimes: sessions come and go on the one FaceEngine.           *)
(*                                                                         *)
(* A Session lives as long as somebody refers to it: the framework's       *)
(* proxy, a binder call in progress, the thread that processes a frame,    *)
(* and the camera's callback thread after it has started one.  Whoever     *)
(* drops the last reference runs the destructor.  The engine keeps one     *)
(* frame callback, a bare pointer to the session that registered last, and *)
(* one cancel flag; each session has a camera of its own, whose frames go  *)
(* to whatever session the engine has registered.                          *)
(*                                                                         *)
(* The operations themselves are Session's; here they start, end and are   *)
(* cancelled in as few steps as the life of the sessions needs.            *)
(***************************************************************************)
EXTENDS Integers

CONSTANTS
    MaxSessions,      \* bound: sessions created
    MaxOps,           \* bound: operations started
    MaxFrames,        \* bound: frames
    FrameworkMayDie   \* may the framework's process die, once

ASSUME BoundsAssumption ==
    MaxSessions \in Nat \ {0} /\ MaxOps \in Nat /\ MaxFrames \in Nat
ASSUME ScenarioAssumption == FrameworkMayDie \in BOOLEAN

Sessions == 1..MaxSessions

VARIABLES
    created,      \* sessions so far; the last is the framework's
    place,        \* where the call or the destructor that has the session is
    purpose,      \* what it is for: "create", "orphan" (created for a framework
                  \* that has died), "cancel", "close" or "destroy"
    held,         \* sessions the framework has a proxy of
    closed,       \* sessions whose close() is over
    active,       \* sessions with an operation's flag set
    unreported,   \* sessions whose operation has not come to a posted end
    running,      \* sessions whose camera streams
    processing,   \* sessions with mProcessingFrame set
    cam, into,    \* the camera's callback thread of each session, and the
                  \* session whose onCameraFrame() it is in
    frame,        \* the frame thread of each session
    registered,   \* mSessionFrameCallback: a session, or 0
    mCancelled,   \* FaceEngine::mCancelled
    crashed,      \* a null session or an empty callback has been used
    died,         \* has the framework died
    late,         \* has a session been cancelled or destroyed beside a newer one
    ops, frames

objectVars == <<created, place, purpose, held, closed>>
opVars == <<active, unreported, running, processing>>
threadVars == <<cam, into, frame>>
engineVars == <<registered, mCancelled>>
historyVars == <<crashed, died, late>>
countVars == <<ops, frames>>
vars == <<objectVars, opVars, threadVars, engineVars, historyVars, countVars>>

Init ==
    /\ created = 0
    /\ place = [s \in Sessions |-> "none"] /\ purpose = [s \in Sessions |-> "create"]
    /\ held = {} /\ closed = {}
    /\ active = {} /\ unreported = {} /\ running = {} /\ processing = {}
    /\ cam = [s \in Sessions |-> "idle"] /\ into = [s \in Sessions |-> s]
    /\ frame = [s \in Sessions |-> "idle"]
    /\ registered = 0 /\ mCancelled = FALSE
    /\ crashed = FALSE /\ died = FALSE /\ late = FALSE
    /\ ops = 0 /\ frames = 0

(* The references to a session besides the framework's: a call, a frame, a     *)
(* camera thread that has just handed one over.                            *)
InCall(s) == place[s] # "idle" /\ purpose[s] # "destroy"
FrameHolds(s) == frame[s] \notin {"idle", "destroying"}
CameraHolds(c, s) == cam[c] = "holding" /\ into[c] = s

Referenced(s) ==
    s \in held \/ InCall(s) \/ FrameHolds(s) \/ \E c \in Sessions : CameraHolds(c, s)

(* The destructor starts. *)
Destroy(s) ==
    /\ place' = [place EXCEPT ![s] = "unregister"]
    /\ purpose' = [purpose EXCEPT ![s] = "destroy"]

Keep == UNCHANGED <<place, purpose>>

-----------------------------------------------------------------------------
(* Face::createSession() and the calls of the framework, which makes one at a *)
(* time and has one session open.                                          *)

OpenSession == \E s \in held : s \notin closed

CreateSession ==
    /\ created < MaxSessions /\ ~OpenSession
    /\ \A s \in Sessions : place[s] # "constructing"
    /\ created' = created + 1
    /\ place' = [place EXCEPT ![created + 1] = "constructing"]
    /\ UNCHANGED <<purpose, held, closed, opVars, threadVars, engineVars, historyVars, countVars>>

(* The constructor registers the callback; the proxy goes to the framework,    *)
(* or is dropped if that has died.                                         *)
Register(s) ==
    /\ place[s] = "constructing"
    /\ registered' = s
    /\ IF purpose[s] = "create"
       THEN /\ place' = [place EXCEPT ![s] = "idle"]
            /\ held' = held \cup {s}
            /\ UNCHANGED purpose
       ELSE Destroy(s) /\ UNCHANGED held
    /\ UNCHANGED <<created, closed, opVars, threadVars, mCancelled, historyVars, countVars>>

MutantStaysCancelled == mCancelled
CancelledAtStart == FALSE

(* authenticate(), detectInteraction() or enroll(). *)
StartOperation(s) ==
    /\ place[s] = "idle" /\ s \in held \ (closed \cup active) /\ ops < MaxOps
    /\ ops' = ops + 1
    /\ mCancelled' = CancelledAtStart
    /\ active' = active \cup {s} /\ unreported' = unreported \cup {s}
    /\ place' = [place EXCEPT ![s] = "startCamera"]
    /\ purpose' = [purpose EXCEPT ![s] = "cancel"]
    /\ UNCHANGED <<created, held, closed, running, processing, threadVars, registered,
                   historyVars, frames>>

(* The end of a call: the transaction's reference goes. *)
CallEnds(s) ==
    IF s \in held \/ FrameHolds(s) \/ \E c \in Sessions : CameraHolds(c, s)
    THEN place' = [place EXCEPT ![s] = "idle"] /\ UNCHANGED purpose
    ELSE Destroy(s)

(* The camera starts, or onError(VENDOR) is posted. *)
StartCamera(s) ==
    /\ place[s] = "startCamera"
    /\ \/ running' = running \cup {s} /\ UNCHANGED <<active, unreported>>
       \/ /\ active' = active \ {s} /\ unreported' = unreported \ {s}
          /\ UNCHANGED running
    /\ CallEnds(s)
    /\ UNCHANGED <<created, held, closed, processing, threadVars, engineVars, historyVars, countVars>>

CallCancel(s) ==
    /\ place[s] = "idle" /\ s \in held \ closed
    /\ \E p \in {"cancel", "close"} : purpose' = [purpose EXCEPT ![s] = p]
    /\ place' = [place EXCEPT ![s] = "cancel"]
    /\ UNCHANGED <<created, held, closed, opVars, threadVars, engineVars, historyVars, countVars>>

(* Garbage collection of a proxy may come long after close(). *)
DropProxy(s) ==
    /\ s \in held \cap closed /\ place[s] = "idle"
    /\ held' = held \ {s}
    /\ IF FrameHolds(s) \/ \E c \in Sessions : CameraHolds(c, s) THEN Keep ELSE Destroy(s)
    /\ UNCHANGED <<created, closed, opVars, threadVars, engineVars, historyVars, countVars>>

(* Every proxy goes at once; a call that is running ends by itself. *)
FrameworkDies ==
    /\ FrameworkMayDie /\ ~died /\ died' = TRUE
    /\ held' = {}
    /\ LET Orphaned(s) ==
               /\ s \in held /\ place[s] = "idle" /\ ~FrameHolds(s)
               /\ \A c \in Sessions : ~CameraHolds(c, s)
       IN  /\ place' = [s \in Sessions |-> IF Orphaned(s) THEN "unregister" ELSE place[s]]
           /\ purpose' = [s \in Sessions |->
                  IF Orphaned(s) THEN "destroy"
                  ELSE IF place[s] = "constructing" THEN "orphan" ELSE purpose[s]]
    /\ UNCHANGED <<created, closed, opVars, threadVars, engineVars, crashed, late, countVars>>

-----------------------------------------------------------------------------
(* ~Session() and cancel(), which it calls. *)

MutantStaysRegistered(s) == registered
RegisteredAfter(s) == 0

Unregister(s) ==
    /\ place[s] = "unregister"
    /\ registered' = RegisteredAfter(s)
    /\ late' = (late \/ created > s)
    /\ place' = [place EXCEPT ![s] = "cancel"]
    /\ UNCHANGED <<created, purpose, held, closed, opVars, threadVars, mCancelled, crashed, died, countVars>>

(* CANCELED is posted for an active operation; the engine is cancelled,        *)
(* whichever session it works for.                                         *)
MutantNothingPosted(s) == unreported
ReportedAfterCancel(s) == IF s \in active THEN unreported \ {s} ELSE unreported

CancelOperation(s) ==
    /\ place[s] = "cancel"
    /\ unreported' = ReportedAfterCancel(s)
    /\ active' = active \ {s}
    /\ mCancelled' = TRUE
    /\ late' = (late \/ created > s)
    /\ place' = [place EXCEPT ![s] = "stopCamera"]
    /\ UNCHANGED <<created, purpose, held, closed, running, processing, threadVars, registered,
                   crashed, died, countVars>>

StopCamera(s) ==
    /\ place[s] = "stopCamera"
    /\ running' = running \ {s}
    /\ place' = [place EXCEPT ![s] = "awaitStopped"]
    /\ UNCHANGED <<created, purpose, held, closed, active, unreported, processing, threadVars,
                   engineVars, historyVars, countVars>>

(* stop() returns when no frame callback executes, or at once on the           *)
(* callback's own thread, where the teardown is left to another.           *)
MutantNoWait(s) == TRUE
MutantWaitsForFrame(s) == cam[s] = "idle" /\ frame[s] # "destroying"
CameraStopped(s) == cam[s] = "idle" \/ (cam[s] = "destroying" /\ into[s] = s)

CallStopped(s) ==
    /\ place[s] = "awaitStopped" /\ CameraStopped(s)
    /\ IF purpose[s] = "destroy"
       THEN place' = [place EXCEPT ![s] = "release"] /\ UNCHANGED <<purpose, closed>>
       ELSE /\ CallEnds(s)
            /\ closed' = IF purpose[s] = "close" THEN closed \cup {s} ELSE closed
    /\ UNCHANGED <<created, held, opVars, threadVars, engineVars, historyVars, countVars>>

(* The members go.  ~CameraClient() stops the camera again, and waits if the   *)
(* teardown left to another thread is not done.  The thread that ran the      *)
(* destructor goes on.                                                     *)
MayRelease(s) == cam[s] = "idle"

ReleaseMembers(s) ==
    /\ place[s] = "release" /\ MayRelease(s)
    /\ place' = [place EXCEPT ![s] = "gone"]
    /\ cam' = [c \in Sessions |->
                  IF cam[c] = "destroying" /\ into[c] = s THEN "idle" ELSE cam[c]]
    /\ frame' = [frame EXCEPT ![s] = IF @ = "destroying" THEN "idle" ELSE @]
    /\ UNCHANGED <<created, purpose, held, closed, opVars, into, engineVars, historyVars, countVars>>

-----------------------------------------------------------------------------
(* FaceEngine::onCameraFrame() and Session::onCameraFrame() on the callback    *)
(* thread of the camera of session c.                                      *)

FrameArrives(c) ==
    /\ c \in running /\ cam[c] = "idle" /\ frames < MaxFrames
    /\ frames' = frames + 1
    /\ cam' = [cam EXCEPT ![c] = "vision"]
    /\ UNCHANGED <<objectVars, opVars, into, frame, engineVars, historyVars, ops>>

MutantUntested == FALSE
NoCallback == registered = 0

(* The vision callback has returned; is a session registered?              *)
CheckCallback(c) ==
    /\ cam[c] = "vision"
    /\ cam' = [cam EXCEPT ![c] = IF NoCallback THEN "idle" ELSE "route"]
    /\ UNCHANGED <<objectVars, opVars, into, frame, engineVars, historyVars, countVars>>

(* The frame goes to the session that is registered by now.  The callback is   *)
(* read again, without a lock: an empty one aborts the process.            *)
RouteFrame(c) ==
    /\ cam[c] = "route"
    /\ IF NoCallback
       THEN crashed' = TRUE /\ UNCHANGED <<cam, into>>
       ELSE /\ cam' = [cam EXCEPT ![c] = "session"]
            /\ into' = [into EXCEPT ![c] = registered]
            /\ UNCHANGED crashed
    /\ UNCHANGED <<objectVars, opVars, frame, engineVars, died, late, countVars>>

ClaimFrame(c) ==
    /\ cam[c] = "session"
    /\ IF mCancelled \/ into[c] \in processing
       THEN cam' = [cam EXCEPT ![c] = "idle"] /\ UNCHANGED processing
       ELSE /\ processing' = processing \cup {into[c]}
            /\ cam' = [cam EXCEPT ![c] = "copy"]
    /\ UNCHANGED <<objectVars, active, unreported, running, into, frame, engineVars,
                   historyVars, countVars>>

(* ref<Session>(), after the copy: null if the destructor has begun. *)
StartFrameThread(c) ==
    /\ cam[c] = "copy"
    /\ IF Referenced(into[c])
       THEN /\ frame' = [frame EXCEPT ![into[c]] = "run"]
            /\ cam' = [cam EXCEPT ![c] = "holding"]
            /\ UNCHANGED crashed
       ELSE crashed' = TRUE /\ UNCHANGED <<frame, cam>>
    /\ UNCHANGED <<objectVars, opVars, into, engineVars, died, late, countVars>>

(* The callback returns and drops its reference. *)
ReturnFromFrame(c) ==
    /\ CameraHolds(c, into[c])
    /\ LET s == into[c]
           others == \/ s \in held \/ InCall(s) \/ FrameHolds(s)
                     \/ \E d \in Sessions \ {c} : CameraHolds(d, s)
       IN  IF others THEN Keep /\ cam' = [cam EXCEPT ![c] = "idle"]
                     ELSE Destroy(s) /\ cam' = [cam EXCEPT ![c] = "destroying"]
    /\ UNCHANGED <<created, held, closed, opVars, into, frame, engineVars, historyVars, countVars>>

-----------------------------------------------------------------------------
(* The frame thread of session s. *)

(* Cancelled or without an operation, no final result, or one. *)
ProcessFrame(s) ==
    /\ frame[s] = "run"
    /\ \/ frame' = [frame EXCEPT ![s] = "done"] /\ UNCHANGED active
       \/ /\ ~mCancelled /\ s \in active
          /\ active' = active \ {s} /\ frame' = [frame EXCEPT ![s] = "stop"]
    /\ UNCHANGED <<objectVars, unreported, running, processing, cam, into, engineVars,
                   historyVars, countVars>>

FrameStop(s) ==
    /\ frame[s] = "stop"
    /\ running' = running \ {s}
    /\ frame' = [frame EXCEPT ![s] = "awaitStopped"]
    /\ UNCHANGED <<objectVars, active, unreported, processing, cam, into, engineVars,
                   historyVars, countVars>>

FrameStopped(s) ==
    /\ frame[s] = "awaitStopped" /\ CameraStopped(s)
    /\ unreported' = unreported \ {s}
    /\ frame' = [frame EXCEPT ![s] = "done"]
    /\ UNCHANGED <<objectVars, active, running, processing, cam, into, engineVars,
                   historyVars, countVars>>

(* The frame is released, then the reference. *)
FrameDone(s) ==
    /\ frame[s] = "done"
    /\ processing' = processing \ {s}
    /\ IF s \in held \/ InCall(s) \/ \E c \in Sessions : CameraHolds(c, s)
       THEN Keep /\ frame' = [frame EXCEPT ![s] = "idle"]
       ELSE Destroy(s) /\ frame' = [frame EXCEPT ![s] = "destroying"]
    /\ UNCHANGED <<created, held, closed, active, unreported, running, cam, into, engineVars,
                   historyVars, countVars>>

-----------------------------------------------------------------------------
(* The steps of a call or of a destructor; of the callback thread of a camera;  *)
(* of a frame thread.                                                      *)
CallStep(s) ==
    \/ Register(s) \/ StartCamera(s) \/ Unregister(s) \/ CancelOperation(s)
    \/ StopCamera(s) \/ CallStopped(s) \/ ReleaseMembers(s)

CameraStep(c) ==
    CheckCallback(c) \/ RouteFrame(c) \/ ClaimFrame(c) \/ StartFrameThread(c) \/ ReturnFromFrame(c)

FrameStep(s) == ProcessFrame(s) \/ FrameStop(s) \/ FrameStopped(s) \/ FrameDone(s)

FrameworkStep ==
    \/ CreateSession \/ FrameworkDies
    \/ \E s \in Sessions : StartOperation(s) \/ CallCancel(s) \/ DropProxy(s)

(* A null session ends the process. *)
Next ==
    /\ ~crashed
    /\ \/ FrameworkStep
       \/ \E s \in Sessions : CallStep(s) \/ FrameArrives(s) \/ CameraStep(s) \/ FrameStep(s)

(* Threads run on; the framework, the collector and the camera need not.       *)
Fairness ==
    \A s \in Sessions :
        WF_vars(~crashed /\ CallStep(s)) /\ WF_vars(~crashed /\ CameraStep(s))
        /\ WF_vars(~crashed /\ FrameStep(s))

Spec == Init /\ [][Next]_vars /\ Fairness

(***************************************************************************)
(* Properties.                                                             *)
(***************************************************************************)
Places == {"none", "constructing", "idle", "startCamera", "unregister", "cancel", "stopCamera",
           "awaitStopped", "release", "gone"}

(* Every variable is in its range. *)
TypeOK ==
    /\ created \in 0..MaxSessions
    /\ place \in [Sessions -> Places]
    /\ purpose \in [Sessions -> {"create", "orphan", "cancel", "close", "destroy"}]
    /\ held \subseteq Sessions /\ closed \subseteq Sessions
    /\ active \subseteq Sessions /\ unreported \subseteq Sessions
    /\ running \subseteq Sessions /\ processing \subseteq Sessions
    /\ cam \in [Sessions -> {"idle", "vision", "route", "session", "copy", "holding", "destroying"}]
    /\ into \in [Sessions -> Sessions]
    /\ frame \in [Sessions -> {"idle", "run", "stop", "awaitStopped", "done", "destroying"}]
    /\ registered \in Sessions \cup {0} /\ mCancelled \in BOOLEAN
    /\ crashed \in BOOLEAN /\ died \in BOOLEAN /\ late \in BOOLEAN
    /\ ops \in 0..MaxOps /\ frames \in 0..MaxFrames

(* The engine's frame callback is a bare pointer: it never leads to a session  *)
(* that is freed, whoever ran the destructor.  The callback thread of a       *)
(* session's own camera is never in that session after it is freed; it is in  *)
(* another's, whose destructor does not wait for it, only where a framework   *)
(* that died came back before its sessions were gone.                      *)
NoDanglingSession ==
    /\ registered # 0 => place[registered] # "gone"
    /\ \A c \in Sessions : cam[c] \in {"session", "copy", "holding"} =>
          IF into[c] = c THEN place[c] # "gone" ELSE died

(* With a framework that closes a session before it lets go of it, a frame in  *)
(* progress finds its session alive: "Grab self shared pointer to keep        *)
(* Session alive" (Session.cpp:212) comes in time.  A framework that dies     *)
(* while the camera streams may take the service with it.                  *)
FrameFindsSession == crashed => died \/ late

(* While an operation waits for frames, the engine leads to its session and is *)
(* not cancelled - unless an older session's destructor came late, which      *)
(* resets both.                                                            *)
FramesReachOperation ==
    \A s \in held \cap active \cap running :
        place[s] = "idle" /\ ~late => registered = s /\ ~mCancelled

(* A session that is gone has left nothing behind: no stream, no frame, no     *)
(* thread, and no operation whose end was not posted.                      *)
GoneLeavesNothing ==
    \A s \in Sessions : place[s] = "gone" =>
        /\ s \notin running \cup active \cup unreported \cup held
        /\ cam[s] = "idle" /\ frame[s] = "idle"

(* Every destructor comes to its end, on whichever thread, with frames in      *)
(* progress - except in a process whose framework died while the camera       *)
(* streamed: there the callback's own thread may wait for itself.           *)
DestructionEnds ==
    \A s \in Sessions : place[s] = "unregister" ~> place[s] = "gone" \/ died \/ crashed

-----------------------------------------------------------------------------
(* What makes NoDanglingSession inductive.                                 *)

Dying == {"unregister", "cancel", "stopCamera", "awaitStopped", "release", "gone"}
Unborn == {"none", "constructing"}

(* Sessions are created in order, one at a time, and die once; a session that  *)
(* somebody refers to has not begun to.                                    *)
LifeInOrder ==
    /\ \A s \in Sessions : place[s] = "none" <=> s > created
    /\ \A s \in Sessions : place[s] = "constructing" => s = created
    /\ \A s \in Sessions : s > created => purpose[s] = "create"
    /\ \A s \in Sessions : purpose[s] = "destroy" => place[s] \in Dying
    /\ \A s \in Sessions : place[s] \in {"unregister", "release", "gone"} => purpose[s] = "destroy"
    /\ \A s \in held : place[s] \notin Unborn
    /\ \A s \in Sessions : FrameHolds(s) => place[s] \notin Unborn
    /\ \A s \in Sessions : s \in held \/ FrameHolds(s) => purpose[s] # "destroy"
    /\ \A c \in Sessions :
          cam[c] \in {"session", "copy", "holding"} => place[into[c]] \notin Unborn
    /\ \A c \in Sessions : cam[c] = "holding" => purpose[into[c]] # "destroy"
    /\ \A c \in Sessions : cam[c] = "destroying" => purpose[into[c]] = "destroy"

(* The engine's callback is the last session's, or none, or is about to be     *)
(* replaced; it is gone before the session's members are.                  *)
CallbackOfLast ==
    registered # 0 =>
        /\ created \in Sessions
        /\ registered = created \/ place[created] = "constructing"
        /\ place[registered] \notin Unborn
        /\ purpose[registered] = "destroy" => place[registered] = "unregister"

(* A camera streams only between the construction of its session and the end   *)
(* of stop(); its callback thread keeps the session's members.             *)
CameraInLife ==
    /\ \A s \in running : place[s] \notin Unborn \cup {"awaitStopped", "release", "gone"}
    /\ \A c \in Sessions : cam[c] # "idle" => place[c] \notin Unborn \cup {"gone"}

(* As long as the framework lives, a session's camera is silent once it is     *)
(* closed, and all but the last are closed.                                *)
OneCameraAlive ==
    ~died =>
        /\ \A s \in Sessions : place[s] = "constructing" => purpose[s] = "create"
        /\ \A s \in Sessions : place[s] \notin Unborn => s \in held \cup closed
        /\ \A s \in Sessions : s < created => s \in closed
        /\ \A s \in closed :
              /\ s \notin running /\ cam[s] = "idle"
              /\ place[s] \notin Unborn \cup {"startCamera"}
        /\ \A c \in Sessions : cam[c] \in {"session", "copy", "holding"} => into[c] = c

(* One frame at a time is a session's, whichever camera it is from.        *)
FrameClaimed ==
    /\ \A s \in Sessions : FrameHolds(s) => s \in processing
    /\ \A c \in Sessions : cam[c] = "copy" =>
          /\ into[c] \in processing /\ ~FrameHolds(into[c])
          /\ \A d \in Sessions \ {c} : cam[d] = "copy" => into[d] # into[c]

(* An operation without its flag and without a posted end has a frame thread   *)
(* that will post it; a destructor past CancelOperation has neither.         *)
EndsOwed ==
    /\ \A s \in unreported \ active : frame[s] \in {"stop", "awaitStopped"}
    /\ \A s \in active : /\ place[s] \notin Unborn
                         /\ purpose[s] = "destroy" => place[s] \in {"unregister", "cancel"}
    /\ \A s \in Sessions : place[s] = "gone" => frame[s] # "destroying"

IInv ==
    /\ TypeOK /\ LifeInOrder /\ CallbackOfLast /\ CameraInLife /\ OneCameraAlive
    /\ FrameClaimed /\ EndsOwed

(* The session the framework has open is the last; a call that has cancelled   *)
(* its operation, and one that is closed, have none.                       *)
OpenIsLast ==
    /\ \A s \in held \ closed : s = created
    /\ \A s \in active : s \notin closed /\ place[s] \notin {"stopCamera", "awaitStopped"}

(* As long as no older session came late, the engine works for the last one:   *)
(* it has its callback, and has not been cancelled under its operation.      *)
EngineServesLast ==
    ~late =>
        /\ created # 0 /\ purpose[created] # "destroy" /\ place[created] # "constructing"
               => registered = created
        /\ created \in active => ~mCancelled

ServiceInv == OpenIsLast /\ EngineServesLast /\ FrameFindsSession
=============================================================================
