----------------------------- MODULE FramePreview -----------------------------
(***************************************************************************)
(* The preview of EnrollActivity: its callback object's onFrame() on a      *)
(* binder thread, renderFrame() on the background handler's thread, and     *)
(* CircleSurfaceView.setFrame() on the main thread.  mIsProcessingFrame is  *)
(* claimed by the first and released by the second, so that one frame at a  *)
(* time is copied and rendered; two bitmaps take turns, so that a frame is  *)
(* not drawn over the one on the screen.                                   *)
(***************************************************************************)
EXTENDS Naturals, Sequences

CONSTANT Activities

VARIABLES
    arrived,             \* frames in the binder queue of each activity's object
    mIsProcessingFrame,  \* activities whose frame is claimed
    reading,             \* activities whose onFrame() reads the frame's data
    rendering,           \* activities with a job queued or running at their handler
    quit,                \* activities whose handler thread was told to quit
    mUsingBitmap1,       \* activities that wrote bitmap 1 last
    ui,                  \* bitmaps posted to the main thread
    shown                \* mFrameBitmap of the view, 0 before the first

Init ==
    /\ arrived = [a \in Activities |-> 0]
    /\ mIsProcessingFrame = {} /\ reading = {} /\ rendering = {}
    /\ quit = {} /\ mUsingBitmap1 = Activities
    /\ ui = [a \in Activities |-> <<>>] /\ shown = [a \in Activities |-> 0]

(* External: the oneway call is queued. *)
FrameArrives(a) ==
    /\ arrived' = [arrived EXCEPT ![a] = @ + 1]
    /\ UNCHANGED <<mIsProcessingFrame, reading, rendering, quit, mUsingBitmap1, ui, shown>>

(* onFrame() claims the frame, or closes it.  External: the calls of one       *)
(* oneway interface are made one after the other.                          *)
OnFrame(a) ==
    /\ arrived[a] > 0 /\ a \notin reading
    /\ arrived' = [arrived EXCEPT ![a] = @ - 1]
    /\ reading' = IF a \in mIsProcessingFrame THEN reading ELSE reading \cup {a}
    /\ mIsProcessingFrame' = mIsProcessingFrame \cup {a}
    /\ UNCHANGED <<rendering, quit, mUsingBitmap1, ui, shown>>

(* The data is read and the rendering posted; a handler that has quit drops    *)
(* the job, and the claim stays.                                           *)
MutantReleasedEarly(a) == mIsProcessingFrame \ {a}
ClaimAfterPost(a) == mIsProcessingFrame

PostRendering(a) ==
    /\ a \in reading /\ reading' = reading \ {a}
    /\ rendering' = IF a \in quit THEN rendering ELSE rendering \cup {a}
    /\ mIsProcessingFrame' = ClaimAfterPost(a)
    /\ UNCHANGED <<arrived, quit, mUsingBitmap1, ui, shown>>

(* The data cannot be read. *)
MutantClaimLeaks(a) == mIsProcessingFrame
ClaimAfterError(a) == mIsProcessingFrame \ {a}

ReadFails(a) ==
    /\ a \in reading /\ reading' = reading \ {a}
    /\ mIsProcessingFrame' = ClaimAfterError(a)
    /\ UNCHANGED <<arrived, rendering, quit, mUsingBitmap1, ui, shown>>

(* renderFrame() takes the bitmap that was not written last. *)
Bitmap(a) == IF a \in mUsingBitmap1 THEN 2 ELSE 1

MutantNoToggle(a) == mUsingBitmap1
Toggled(a) ==
    IF a \in mUsingBitmap1 THEN mUsingBitmap1 \ {a} ELSE mUsingBitmap1 \cup {a}

(* The frame is converted and posted to the main thread, or an exception is    *)
(* caught; the claim is released in any case.                              *)
Rendered(a) ==
    /\ a \in rendering /\ rendering' = rendering \ {a}
    /\ mIsProcessingFrame' = mIsProcessingFrame \ {a}
    /\ \/ /\ mUsingBitmap1' = Toggled(a)
          /\ ui' = [ui EXCEPT ![a] = Append(@, Bitmap(a))]
       \/ UNCHANGED <<mUsingBitmap1, ui>>
    /\ UNCHANGED <<arrived, reading, quit, shown>>

(* runOnUiThread: setFrame(). *)
SetFrame(a) ==
    /\ ui[a] # <<>>
    /\ shown' = [shown EXCEPT ![a] = Head(ui[a])]
    /\ ui' = [ui EXCEPT ![a] = Tail(@)]
    /\ UNCHANGED <<arrived, mIsProcessingFrame, reading, rendering, quit, mUsingBitmap1>>

(* onDestroy(): quitSafely(), which lets a queued job run. *)
Quit(a) ==
    /\ quit' = quit \cup {a}
    /\ UNCHANGED <<arrived, mIsProcessingFrame, reading, rendering, mUsingBitmap1, ui, shown>>

Step(a) ==
    OnFrame(a) \/ PostRendering(a) \/ ReadFails(a) \/ Rendered(a) \/ SetFrame(a)

(* Every variable is in its range. *)
TypeOK ==
    /\ arrived \in [Activities -> Nat]
    /\ mIsProcessingFrame \subseteq Activities
    /\ reading \subseteq Activities /\ rendering \subseteq Activities
    /\ quit \subseteq Activities /\ mUsingBitmap1 \subseteq Activities
    /\ ui \in [Activities -> Seq({1, 2})] /\ shown \in [Activities -> 0..2]

(* At most one frame of an activity is being read or rendered, and it is the   *)
(* claimed one: onFrame() never posts a job beside one queued or running.      *)
OneFrameAtATime ==
    /\ reading \cup rendering \subseteq mIsProcessingFrame
    /\ reading \cap rendering = {}

(* A claim has a frame that will release it, whatever failed on the way: the   *)
(* preview does not freeze as long as the activity's handler runs.             *)
ClaimHasFrame == mIsProcessingFrame \subseteq reading \cup rendering \cup quit

(* A frame is rendered over the one on the screen only if the main thread has  *)
(* not yet taken the frame before it.                                      *)
TakesTurns ==
    \A a \in rendering : shown[a] = Bitmap(a) => ui[a] # <<>>

(* The inductive invariant: the bitmap written last is the one on the screen,  *)
(* or the last on its way there.                                           *)
LastWritten(a) == IF ui[a] = <<>> THEN shown[a] ELSE ui[a][Len(ui[a])]
IInv ==
    /\ TypeOK /\ OneFrameAtATime /\ ClaimHasFrame
    /\ \A a \in Activities : LastWritten(a) # Bitmap(a)
=============================================================================
