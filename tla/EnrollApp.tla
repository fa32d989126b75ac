------------------------------ MODULE EnrollApp ------------------------------
(***************************************************************************)
(* The enrolment app and the service's end of its preview: EnrollActivity,  *)
(* its frames (FramePreview) and VisionServiceImpl (VisionService).         *)
(*                                                                         *)
(* The three meet in onCreate(), which registers the activity's callback    *)
(* object with the service, in the oneway onFrame(), and in onDestroy(),    *)
(* which ends the thread that renders and does not unregister the object.   *)
(***************************************************************************)
EXTENDS EnrollActivity, Sequences

CONSTANTS
    Cameras,    \* threads that bring frames
    MaxFrames   \* bound: frames that reach an activity

VARIABLES
    mCallback, visit, cb, registered, failed, overtaken,
    arrived, mIsProcessingFrame, reading, rendering, quit, mUsingBitmap1, ui, shown,
    sent        \* frames so far

Vision == INSTANCE VisionService WITH Apps <- Activities, NoApp <- 0
Preview == INSTANCE FramePreview

visionVars == <<mCallback, visit, cb, registered, failed, overtaken>>
previewVars == <<arrived, mIsProcessingFrame, reading, rendering, quit, mUsingBitmap1, ui, shown>>
appVars == <<vars, visionVars, previewVars, sent>>

AppInit == Init /\ Vision!Init /\ Preview!Init /\ sent = 0

(* onCreate() and bindVisionService(), which may not find the service.         *)
OnCreate(a) ==
    /\ Create(a)
    /\ Vision!SetCallback(a) \/ UNCHANGED visionVars
    /\ UNCHANGED <<previewVars, sent>>

(* onDestroy() *)
OnDestroy(a) ==
    /\ Destroy(a) /\ Preview!Quit(a)
    /\ UNCHANGED <<visionVars, sent>>

(* IVisionService.onFrame(), from the service's thread into the app's queue.   *)
OnFrameSent(c) ==
    /\ Vision!SendFrame(c)
    /\ sent < MaxFrames /\ sent' = sent + 1
    /\ Preview!FrameArrives(cb[c])
    /\ UNCHANGED vars

(* What the parts do by themselves. *)
ServiceStep(c) ==
    /\ Vision!ReadCallback(c) \/ Vision!NoMemory(c) \/ Vision!CallFails(c)
       \/ Vision!ResetCallback(c)
    /\ UNCHANGED <<vars, previewVars, sent>>

PreviewStep(a) ==
    /\ Preview!Step(a)
    /\ UNCHANGED <<vars, visionVars, sent>>

ScreenStep ==
    /\ \/ \E a \in Activities : ActivityStep(a) \/ UserStep(a)
       \/ \E e \in Enrolments : EnrolmentStep(e)
       \/ LeaveTryAgain
    /\ UNCHANGED <<visionVars, previewVars, sent>>

AppNext ==
    \/ \E a \in Activities : OnCreate(a) \/ OnDestroy(a) \/ PreviewStep(a)
    \/ \E c \in Cameras : OnFrameSent(c) \/ ServiceStep(c)
    \/ ScreenStep

AppSpec == AppInit /\ [][AppNext]_appVars

-----------------------------------------------------------------------------
(* The app that registered last gets the frames until a call to itself has    *)
(* failed (VisionServiceImpl::onCameraFrame(), setCallback()).             *)
CallbackKept == Vision!CallbackKept

(* At most one frame of an activity is read or rendered, the claimed one       *)
(* (mIsProcessingFrame).                                                   *)
OneFrameAtATime == Preview!OneFrameAtATime

(* A claim has a frame that will release it (each path of onFrame() and of the *)
(* job it posts).                                                          *)
ClaimHasFrame == Preview!ClaimHasFrame

(* A frame is rendered over the one on the screen only if the main thread has  *)
(* not yet taken the frame before it (mUsingBitmap1).                      *)
TakesTurns == Preview!TakesTurns

(* The inductive invariant of the whole. *)
AppIInv == IInv /\ Vision!IInv /\ Preview!IInv
=============================================================================
