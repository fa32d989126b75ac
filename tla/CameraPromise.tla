---------------------------- MODULE CameraPromise ----------------------------
(***************************************************************************)
(* CameraPromise: what CameraClient promises the session that starts and    *)
(* stops a camera.  Frames are delivered one at a time, and only between a  *)
(* start and the stop that ends it; a stop that has begun comes to its end, *)
(* and when it has, no frame is being delivered.  How the backend opens,    *)
(* drains and frees the camera is CameraBackend's.                         *)
(***************************************************************************)

VARIABLES
    running,     \* the stream is on
    stopping,    \* a stop is under way
    delivering   \* the frame callback executes

vars == <<running, stopping, delivering>>

Init == ~running /\ ~stopping /\ ~delivering

Start ==
    /\ ~running /\ ~stopping
    /\ running' = TRUE
    /\ UNCHANGED <<stopping, delivering>>

Deliver ==
    /\ running /\ ~delivering
    /\ delivering' = TRUE
    /\ UNCHANGED <<running, stopping>>

CallbackDone ==
    /\ delivering
    /\ delivering' = FALSE
    /\ UNCHANGED <<running, stopping>>

(* By a caller, by the frame callback, or because the camera went away.    *)
BeginStop ==
    /\ running
    /\ running' = FALSE /\ stopping' = TRUE
    /\ UNCHANGED delivering

EndStop ==
    /\ stopping /\ ~delivering
    /\ stopping' = FALSE
    /\ UNCHANGED <<running, delivering>>

Next == Start \/ Deliver \/ CallbackDone \/ BeginStop \/ EndStop

Safe == Init /\ [][Next]_vars

Spec == Safe /\ WF_vars(CallbackDone) /\ WF_vars(EndStop)
=============================================================================
