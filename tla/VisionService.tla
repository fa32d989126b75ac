---------------------------- MODULE VisionService ----------------------------
(***************************************************************************)
(* VisionServiceImpl: the preview frames on their way to the enrolment app. *)
(*                                                                         *)
(* An app registers its callback object with setCallback(); the camera's    *)
(* callback thread reads the callback under mCallbackMutex, releases the    *)
(* mutex, and calls the app.  A call that fails takes the callback away, in *)
(* a second section.  Apps unregister by no other way.                     *)
(***************************************************************************)
CONSTANTS
    Apps,      \* the callback objects
    NoApp,     \* no callback, and not one of them
    Cameras    \* threads that bring frames

VARIABLES
    mCallback,
    visit,      \* where each camera thread is in onCameraFrame()
    cb,         \* the callback it has read
    registered, \* the last callback to register
    failed,     \* has a call to it failed since
    overtaken   \* was a call under way when it registered

Init ==
    /\ mCallback = NoApp
    /\ visit = [c \in Cameras |-> "idle"] /\ cb = [c \in Cameras |-> NoApp]
    /\ registered = NoApp /\ failed = FALSE /\ overtaken = FALSE

SetCallback(a) ==
    /\ mCallback' = a
    /\ registered' = a /\ failed' = FALSE
    /\ overtaken' = \E c \in Cameras : visit[c] # "idle"
    /\ UNCHANGED <<visit, cb>>

(* The first section of onCameraFrame(), with an app to send the frame to. *)
ReadCallback(c) ==
    /\ visit[c] = "idle" /\ mCallback # NoApp
    /\ cb' = [cb EXCEPT ![c] = mCallback]
    /\ visit' = [visit EXCEPT ![c] = "send"]
    /\ UNCHANGED <<mCallback, registered, failed, overtaken>>

(* There is memory for the frame, and the app's queue takes the call. *)
SendFrame(c) ==
    /\ visit[c] = "send"
    /\ visit' = [visit EXCEPT ![c] = "idle"]
    /\ UNCHANGED <<mCallback, cb, registered, failed, overtaken>>

(* The shared memory cannot be had: the frame is dropped. *)
MutantGiveUp == "reset"
AfterNoMemory == "idle"

NoMemory(c) ==
    /\ visit[c] = "send"
    /\ visit' = [visit EXCEPT ![c] = AfterNoMemory]
    /\ UNCHANGED <<mCallback, cb, registered, failed, overtaken>>

(* The call fails: the app is gone, or it has not emptied its queue. *)
CallFails(c) ==
    /\ visit[c] = "send"
    /\ visit' = [visit EXCEPT ![c] = "reset"]
    /\ failed' = (failed \/ cb[c] = registered)
    /\ UNCHANGED <<mCallback, cb, registered, overtaken>>

(* Whatever is registered by now goes. *)
ResetCallback(c) ==
    /\ visit[c] = "reset"
    /\ mCallback' = NoApp
    /\ visit' = [visit EXCEPT ![c] = "idle"]
    /\ UNCHANGED <<cb, registered, failed, overtaken>>

CameraStep(c) ==
    ReadCallback(c) \/ SendFrame(c) \/ NoMemory(c) \/ CallFails(c) \/ ResetCallback(c)

TypeOK ==
    /\ {mCallback, registered} \subseteq Apps \cup {NoApp}
    /\ visit \in [Cameras -> {"idle", "send", "reset"}]
    /\ cb \in [Cameras -> Apps \cup {NoApp}]
    /\ failed \in BOOLEAN /\ overtaken \in BOOLEAN

(* The app that registered last gets the frames until a call to itself has    *)
(* failed: a failing call to an older app takes its callback away only if it  *)
(* was under way when the newer one registered.                            *)
CallbackKept == failed \/ overtaken \/ mCallback = registered

(* The inductive invariant: what a call under way may still do.                *)
IInv ==
    /\ TypeOK /\ CallbackKept
    /\ \A c \in Cameras :
          /\ visit[c] = "send" =>
                cb[c] \in Apps /\ (failed \/ overtaken \/ cb[c] = registered)
          /\ visit[c] = "reset" => failed \/ overtaken
=============================================================================
