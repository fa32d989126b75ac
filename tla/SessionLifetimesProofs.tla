------------------------ MODULE SessionLifetimesProofs ------------------------
(***************************************************************************)
(* Proofs about SessionLifetimes: its type invariant, and that no session   *)
(* is freed while the engine's frame callback or its own camera leads to it,*)
(* for any number of sessions, operations and frames.                      *)
(***************************************************************************)
EXTENDS SessionLifetimes, TLAPS

USE BoundsAssumption

(* Sessions are numbered from 1. *)
LEMMA Numbers ==
    /\ 0 \notin Sessions /\ \A s \in Sessions : s \in Nat
    /\ \A n \in 0..MaxSessions : n < MaxSessions => n + 1 \in Sessions /\ n + 1 \in 0..MaxSessions
BY DEF Sessions

(* Every step keeps the variables in their ranges. *)
LEMMA TypeStep ==
    ASSUME IInv, NEW s \in Sessions,
           \/ CreateSession \/ FrameworkDies \/ StartOperation(s) \/ CallCancel(s)
           \/ DropProxy(s) \/ CallStep(s) \/ FrameArrives(s) \/ CameraStep(s) \/ FrameStep(s)
    PROVE  TypeOK'
<1> USE DEF IInv, TypeOK, Places, objectVars, opVars, threadVars, engineVars, historyVars, countVars
<1>1. CASE CreateSession
    BY <1>1, Numbers DEF CreateSession, OpenSession
<1>2. CASE FrameworkDies
    BY <1>2 DEF FrameworkDies, FrameHolds, CameraHolds
<1>3. CASE StartOperation(s)
    <2>1. ops' \in 0..MaxOps
        BY <1>3 DEF StartOperation
    <2> QED
        BY <1>3, <2>1 DEF StartOperation, CancelledAtStart
<1>4. CASE CallCancel(s)
    BY <1>4 DEF CallCancel
<1>5. CASE DropProxy(s)
    BY <1>5 DEF DropProxy, Destroy, Keep, FrameHolds, CameraHolds
<1>6. CASE Register(s)
    BY <1>6, Numbers DEF Register, Destroy
<1>7. CASE StartCamera(s)
    BY <1>7 DEF StartCamera, CallEnds, Destroy, FrameHolds, CameraHolds
<1>8. CASE Unregister(s)
    BY <1>8 DEF Unregister, RegisteredAfter
<1>9. CASE CancelOperation(s)
    BY <1>9 DEF CancelOperation, ReportedAfterCancel
<1>10. CASE StopCamera(s)
    BY <1>10 DEF StopCamera
<1>11. CASE CallStopped(s)
    BY <1>11 DEF CallStopped, CallEnds, Destroy, CameraStopped, FrameHolds, CameraHolds
<1>12. CASE ReleaseMembers(s)
    BY <1>12 DEF ReleaseMembers, MayRelease
<1>13. CASE FrameArrives(s)
    BY <1>13 DEF FrameArrives
<1>14. CASE CheckCallback(s)
    BY <1>14 DEF CheckCallback, NoCallback
<1>15. CASE RouteFrame(s)
    BY <1>15 DEF RouteFrame, NoCallback
<1>16. CASE ClaimFrame(s)
    BY <1>16 DEF ClaimFrame
<1>17. CASE StartFrameThread(s)
    BY <1>17 DEF StartFrameThread, Referenced, InCall, FrameHolds, CameraHolds
<1>18. CASE ReturnFromFrame(s)
    BY <1>18 DEF ReturnFromFrame, Destroy, Keep, InCall, FrameHolds, CameraHolds
<1>19. CASE ProcessFrame(s)
    BY <1>19 DEF ProcessFrame
<1>20. CASE FrameStop(s)
    BY <1>20 DEF FrameStop
<1>21. CASE FrameStopped(s)
    BY <1>21 DEF FrameStopped, CameraStopped
<1>22. CASE FrameDone(s)
    BY <1>22 DEF FrameDone, Destroy, Keep, InCall, FrameHolds, CameraHolds
<1> QED
    BY <1>1, <1>2, <1>3, <1>4, <1>5, <1>6, <1>7, <1>8, <1>9, <1>10, <1>11, <1>12, <1>13, <1>14, <1>15, <1>16, <1>17, <1>18, <1>19, <1>20, <1>21, <1>22 DEF CallStep, CameraStep, FrameStep

(* Every step keeps the order of a session's life. *)
LEMMA LifeStep ==
    ASSUME IInv, NEW s \in Sessions,
           \/ CreateSession \/ FrameworkDies \/ StartOperation(s) \/ CallCancel(s)
           \/ DropProxy(s) \/ CallStep(s) \/ FrameArrives(s) \/ CameraStep(s) \/ FrameStep(s)
    PROVE  LifeInOrder'
<1> USE DEF IInv, TypeOK, Places, LifeInOrder, Dying, Unborn, FrameHolds, objectVars, opVars, threadVars, engineVars, historyVars, countVars
<1>1. CASE CreateSession
    BY <1>1, Numbers DEF CreateSession, OpenSession
<1>2. CASE FrameworkDies
    BY <1>2 DEF FrameworkDies, FrameHolds, CameraHolds
<1>3. CASE StartOperation(s)
    BY <1>3 DEF StartOperation, CancelledAtStart
<1>4. CASE CallCancel(s)
    BY <1>4 DEF CallCancel
<1>5. CASE DropProxy(s)
    BY <1>5 DEF DropProxy, Destroy, Keep, FrameHolds, CameraHolds
<1>6. CASE Register(s)
    <2>1. CASE purpose[s] = "create"
        BY <1>6, <2>1 DEF Register
    <2>2. CASE purpose[s] # "create"
        BY <1>6, <2>2 DEF Register, Destroy
    <2> QED
        BY <2>1, <2>2
<1>7. CASE StartCamera(s)
    BY <1>7 DEF StartCamera, CallEnds, Destroy, FrameHolds, CameraHolds
<1>8. CASE Unregister(s)
    BY <1>8 DEF Unregister, RegisteredAfter
<1>9. CASE CancelOperation(s)
    BY <1>9 DEF CancelOperation, ReportedAfterCancel
<1>10. CASE StopCamera(s)
    BY <1>10 DEF StopCamera
<1>11. CASE CallStopped(s)
    BY <1>11 DEF CallStopped, CallEnds, Destroy, CameraStopped, FrameHolds, CameraHolds
<1>12. CASE ReleaseMembers(s)
    BY <1>12 DEF ReleaseMembers, MayRelease
<1>13. CASE FrameArrives(s)
    BY <1>13 DEF FrameArrives
<1>14. CASE CheckCallback(s)
    BY <1>14 DEF CheckCallback, NoCallback
<1>15. CASE RouteFrame(s)
    BY <1>15 DEF CallbackOfLast, RouteFrame, NoCallback
<1>16. CASE ClaimFrame(s)
    BY <1>16 DEF ClaimFrame
<1>17. CASE StartFrameThread(s)
    BY <1>17 DEF StartFrameThread, Referenced, InCall, FrameHolds, CameraHolds
<1>18. CASE ReturnFromFrame(s)
    BY <1>18 DEF ReturnFromFrame, Destroy, Keep, InCall, FrameHolds, CameraHolds
<1>19. CASE ProcessFrame(s)
    BY <1>19 DEF ProcessFrame
<1>20. CASE FrameStop(s)
    BY <1>20 DEF FrameStop
<1>21. CASE FrameStopped(s)
    BY <1>21 DEF FrameStopped, CameraStopped
<1>22. CASE FrameDone(s)
    <2>1. CASE Keep
        BY <1>22, <2>1 DEF FrameDone, Keep
    <2>2. CASE ~Keep
        <3>1. Destroy(s) /\ frame' = [frame EXCEPT ![s] = "destroying"] /\ s \notin held
            BY <1>22, <2>2 DEF FrameDone
        <3>2. place[s] = "idle" /\ \A c \in Sessions : ~CameraHolds(c, s)
            BY <1>22, <2>2 DEF FrameDone, InCall
        <3> QED
            BY <1>22, <3>1, <3>2 DEF FrameDone, Destroy, CameraHolds
    <2> QED
        BY <2>1, <2>2
<1> QED
    BY <1>1, <1>2, <1>3, <1>4, <1>5, <1>6, <1>7, <1>8, <1>9, <1>10, <1>11, <1>12, <1>13, <1>14, <1>15, <1>16, <1>17, <1>18, <1>19, <1>20, <1>21, <1>22 DEF CallStep, CameraStep, FrameStep

(* Every step keeps the engine's callback with the last session. *)
LEMMA CallbackStep ==
    ASSUME IInv, NEW s \in Sessions,
           \/ CreateSession \/ FrameworkDies \/ StartOperation(s) \/ CallCancel(s)
           \/ DropProxy(s) \/ CallStep(s) \/ FrameArrives(s) \/ CameraStep(s) \/ FrameStep(s)
    PROVE  CallbackOfLast'
<1> USE DEF IInv, TypeOK, Places, LifeInOrder, CallbackOfLast, Dying, Unborn, objectVars, opVars, threadVars, engineVars, historyVars, countVars
<1>1. CASE CreateSession
    BY <1>1, Numbers DEF CreateSession, OpenSession
<1>2. CASE FrameworkDies
    BY <1>2, Numbers DEF FrameworkDies, FrameHolds, CameraHolds
<1>3. CASE StartOperation(s)
    BY <1>3, Numbers DEF StartOperation, CancelledAtStart
<1>4. CASE CallCancel(s)
    BY <1>4, Numbers DEF CallCancel
<1>5. CASE DropProxy(s)
    BY <1>5, Numbers DEF DropProxy, Destroy, Keep, FrameHolds, CameraHolds
<1>6. CASE Register(s)
    BY <1>6, Numbers DEF Register, Destroy
<1>7. CASE StartCamera(s)
    BY <1>7, Numbers DEF StartCamera, CallEnds, Destroy, FrameHolds, CameraHolds
<1>8. CASE Unregister(s)
    BY <1>8, Numbers DEF Unregister, RegisteredAfter
<1>9. CASE CancelOperation(s)
    BY <1>9, Numbers DEF CancelOperation, ReportedAfterCancel
<1>10. CASE StopCamera(s)
    BY <1>10, Numbers DEF StopCamera
<1>11. CASE CallStopped(s)
    BY <1>11, Numbers DEF CallStopped, CallEnds, Destroy, CameraStopped, FrameHolds, CameraHolds
<1>12. CASE ReleaseMembers(s)
    BY <1>12, Numbers DEF ReleaseMembers, MayRelease
<1>13. CASE FrameArrives(s)
    BY <1>13, Numbers DEF FrameArrives
<1>14. CASE CheckCallback(s)
    BY <1>14, Numbers DEF CheckCallback, NoCallback
<1>15. CASE RouteFrame(s)
    BY <1>15, Numbers DEF RouteFrame, NoCallback
<1>16. CASE ClaimFrame(s)
    BY <1>16, Numbers DEF ClaimFrame
<1>17. CASE StartFrameThread(s)
    BY <1>17, Numbers DEF StartFrameThread, Referenced, InCall, FrameHolds, CameraHolds
<1>18. CASE ReturnFromFrame(s)
    BY <1>18, Numbers DEF ReturnFromFrame, Destroy, Keep, InCall, FrameHolds, CameraHolds
<1>19. CASE ProcessFrame(s)
    BY <1>19, Numbers DEF ProcessFrame
<1>20. CASE FrameStop(s)
    BY <1>20, Numbers DEF FrameStop
<1>21. CASE FrameStopped(s)
    BY <1>21, Numbers DEF FrameStopped, CameraStopped
<1>22. CASE FrameDone(s)
    BY <1>22, Numbers DEF FrameDone, Destroy, Keep, InCall, FrameHolds, CameraHolds
<1> QED
    BY <1>1, <1>2, <1>3, <1>4, <1>5, <1>6, <1>7, <1>8, <1>9, <1>10, <1>11, <1>12, <1>13, <1>14, <1>15, <1>16, <1>17, <1>18, <1>19, <1>20, <1>21, <1>22 DEF CallStep, CameraStep, FrameStep

(* Every step keeps the cameras within their sessions' lives. *)
LEMMA CameraLifeStep ==
    ASSUME IInv, NEW s \in Sessions,
           \/ CreateSession \/ FrameworkDies \/ StartOperation(s) \/ CallCancel(s)
           \/ DropProxy(s) \/ CallStep(s) \/ FrameArrives(s) \/ CameraStep(s) \/ FrameStep(s)
    PROVE  CameraInLife'
<1> USE DEF IInv, TypeOK, Places, LifeInOrder, CameraInLife, Dying, Unborn, objectVars, opVars, threadVars, engineVars, historyVars, countVars
<1>1. CASE CreateSession
    BY <1>1, Numbers DEF CreateSession, OpenSession
<1>2. CASE FrameworkDies
    BY <1>2 DEF FrameworkDies, FrameHolds, CameraHolds
<1>3. CASE StartOperation(s)
    BY <1>3 DEF StartOperation, CancelledAtStart
<1>4. CASE CallCancel(s)
    BY <1>4 DEF CallCancel
<1>5. CASE DropProxy(s)
    BY <1>5 DEF DropProxy, Destroy, Keep, FrameHolds, CameraHolds
<1>6. CASE Register(s)
    BY <1>6, Numbers DEF Register, Destroy
<1>7. CASE StartCamera(s)
    BY <1>7 DEF StartCamera, CallEnds, Destroy, FrameHolds, CameraHolds
<1>8. CASE Unregister(s)
    BY <1>8 DEF Unregister, RegisteredAfter
<1>9. CASE CancelOperation(s)
    BY <1>9 DEF CancelOperation, ReportedAfterCancel
<1>10. CASE StopCamera(s)
    BY <1>10 DEF StopCamera
<1>11. CASE CallStopped(s)
    BY <1>11 DEF CallStopped, CallEnds, Destroy, CameraStopped, FrameHolds, CameraHolds
<1>12. CASE ReleaseMembers(s)
    BY <1>12 DEF ReleaseMembers, MayRelease
<1>13. CASE FrameArrives(s)
    BY <1>13 DEF FrameArrives
<1>14. CASE CheckCallback(s)
    BY <1>14 DEF CheckCallback, NoCallback
<1>15. CASE RouteFrame(s)
    BY <1>15 DEF RouteFrame, NoCallback
<1>16. CASE ClaimFrame(s)
    BY <1>16 DEF ClaimFrame
<1>17. CASE StartFrameThread(s)
    BY <1>17 DEF StartFrameThread, Referenced, InCall, FrameHolds, CameraHolds
<1>18. CASE ReturnFromFrame(s)
    BY <1>18 DEF ReturnFromFrame, Destroy, Keep, InCall, FrameHolds, CameraHolds
<1>19. CASE ProcessFrame(s)
    BY <1>19 DEF ProcessFrame
<1>20. CASE FrameStop(s)
    BY <1>20 DEF FrameStop
<1>21. CASE FrameStopped(s)
    BY <1>21 DEF FrameStopped, CameraStopped
<1>22. CASE FrameDone(s)
    BY <1>22 DEF FrameDone, Destroy, Keep, InCall, FrameHolds, CameraHolds
<1> QED
    BY <1>1, <1>2, <1>3, <1>4, <1>5, <1>6, <1>7, <1>8, <1>9, <1>10, <1>11, <1>12, <1>13, <1>14, <1>15, <1>16, <1>17, <1>18, <1>19, <1>20, <1>21, <1>22 DEF CallStep, CameraStep, FrameStep

(* Every step keeps a frame claimed by one thread. *)
LEMMA ClaimStep ==
    ASSUME IInv, NEW s \in Sessions,
           \/ CreateSession \/ FrameworkDies \/ StartOperation(s) \/ CallCancel(s)
           \/ DropProxy(s) \/ CallStep(s) \/ FrameArrives(s) \/ CameraStep(s) \/ FrameStep(s)
    PROVE  FrameClaimed'
<1> USE DEF IInv, TypeOK, Places, LifeInOrder, FrameClaimed, FrameHolds, Dying, Unborn, objectVars, opVars, threadVars, engineVars, historyVars, countVars
<1>1. CASE CreateSession
    BY <1>1, Numbers DEF CreateSession, OpenSession
<1>2. CASE FrameworkDies
    BY <1>2 DEF FrameworkDies, FrameHolds, CameraHolds
<1>3. CASE StartOperation(s)
    BY <1>3 DEF StartOperation, CancelledAtStart
<1>4. CASE CallCancel(s)
    BY <1>4 DEF CallCancel
<1>5. CASE DropProxy(s)
    BY <1>5 DEF DropProxy, Destroy, Keep, FrameHolds, CameraHolds
<1>6. CASE Register(s)
    BY <1>6, Numbers DEF Register, Destroy
<1>7. CASE StartCamera(s)
    BY <1>7 DEF StartCamera, CallEnds, Destroy, FrameHolds, CameraHolds
<1>8. CASE Unregister(s)
    BY <1>8 DEF Unregister, RegisteredAfter
<1>9. CASE CancelOperation(s)
    BY <1>9 DEF CancelOperation, ReportedAfterCancel
<1>10. CASE StopCamera(s)
    BY <1>10 DEF StopCamera
<1>11. CASE CallStopped(s)
    BY <1>11 DEF CallStopped, CallEnds, Destroy, CameraStopped, FrameHolds, CameraHolds
<1>12. CASE ReleaseMembers(s)
    BY <1>12 DEF ReleaseMembers, MayRelease
<1>13. CASE FrameArrives(s)
    BY <1>13 DEF FrameArrives
<1>14. CASE CheckCallback(s)
    BY <1>14 DEF CheckCallback, NoCallback
<1>15. CASE RouteFrame(s)
    BY <1>15 DEF RouteFrame, NoCallback
<1>16. CASE ClaimFrame(s)
    BY <1>16 DEF ClaimFrame
<1>17. CASE StartFrameThread(s)
    BY <1>17 DEF StartFrameThread, Referenced, InCall, FrameHolds, CameraHolds
<1>18. CASE ReturnFromFrame(s)
    BY <1>18 DEF ReturnFromFrame, Destroy, Keep, InCall, FrameHolds, CameraHolds
<1>19. CASE ProcessFrame(s)
    BY <1>19 DEF ProcessFrame
<1>20. CASE FrameStop(s)
    BY <1>20 DEF FrameStop
<1>21. CASE FrameStopped(s)
    BY <1>21 DEF FrameStopped, CameraStopped
<1>22. CASE FrameDone(s)
    BY <1>22 DEF FrameDone, Destroy, Keep, InCall, FrameHolds, CameraHolds
<1> QED
    BY <1>1, <1>2, <1>3, <1>4, <1>5, <1>6, <1>7, <1>8, <1>9, <1>10, <1>11, <1>12, <1>13, <1>14, <1>15, <1>16, <1>17, <1>18, <1>19, <1>20, <1>21, <1>22 DEF CallStep, CameraStep, FrameStep

(* The frame thread's session has not begun to die. *)
LEMMA FrameThreadAlive ==
    ASSUME IInv, NEW s \in Sessions, frame[s] = "done"
    PROVE  purpose[s] # "destroy"
BY DEF IInv, LifeInOrder, FrameHolds

(* Every step keeps an end to every operation in sight. *)
LEMMA EndStep ==
    ASSUME IInv, NEW s \in Sessions,
           \/ CreateSession \/ FrameworkDies \/ StartOperation(s) \/ CallCancel(s)
           \/ DropProxy(s) \/ CallStep(s) \/ FrameArrives(s) \/ CameraStep(s) \/ FrameStep(s)
    PROVE  EndsOwed'
<1> USE DEF IInv, TypeOK, Places, LifeInOrder, FrameClaimed, EndsOwed, FrameHolds, Dying, Unborn, objectVars, opVars, threadVars, engineVars, historyVars, countVars
<1>1. CASE CreateSession
    BY <1>1, Numbers DEF CreateSession, OpenSession
<1>2. CASE FrameworkDies
    BY <1>2 DEF FrameworkDies, FrameHolds, CameraHolds
<1>3. CASE StartOperation(s)
    BY <1>3 DEF StartOperation, CancelledAtStart
<1>4. CASE CallCancel(s)
    BY <1>4 DEF CallCancel
<1>5. CASE DropProxy(s)
    BY <1>5 DEF DropProxy, Destroy, Keep, FrameHolds, CameraHolds
<1>6. CASE Register(s)
    BY <1>6, Numbers DEF Register, Destroy
<1>7. CASE StartCamera(s)
    BY <1>7 DEF StartCamera, CallEnds, Destroy, FrameHolds, CameraHolds
<1>8. CASE Unregister(s)
    BY <1>8 DEF Unregister, RegisteredAfter
<1>9. CASE CancelOperation(s)
    BY <1>9 DEF CancelOperation, ReportedAfterCancel
<1>10. CASE StopCamera(s)
    BY <1>10 DEF StopCamera
<1>11. CASE CallStopped(s)
    BY <1>11 DEF CallStopped, CallEnds, Destroy, CameraStopped, FrameHolds, CameraHolds
<1>12. CASE ReleaseMembers(s)
    BY <1>12 DEF ReleaseMembers, MayRelease
<1>13. CASE FrameArrives(s)
    BY <1>13 DEF FrameArrives
<1>14. CASE CheckCallback(s)
    BY <1>14 DEF CheckCallback, NoCallback
<1>15. CASE RouteFrame(s)
    BY <1>15 DEF RouteFrame, NoCallback
<1>16. CASE ClaimFrame(s)
    BY <1>16 DEF ClaimFrame
<1>17. CASE StartFrameThread(s)
    BY <1>17 DEF StartFrameThread, Referenced, InCall, FrameHolds, CameraHolds
<1>18. CASE ReturnFromFrame(s)
    BY <1>18 DEF ReturnFromFrame, Destroy, Keep, InCall, FrameHolds, CameraHolds
<1>19. CASE ProcessFrame(s)
    BY <1>19 DEF ProcessFrame
<1>20. CASE FrameStop(s)
    BY <1>20 DEF FrameStop
<1>21. CASE FrameStopped(s)
    BY <1>21 DEF FrameStopped, CameraStopped
<1>22. CASE FrameDone(s)
    BY <1>22 DEF FrameDone, Destroy, Keep, InCall, FrameHolds, CameraHolds
<1> QED
    BY <1>1, <1>2, <1>3, <1>4, <1>5, <1>6, <1>7, <1>8, <1>9, <1>10, <1>11, <1>12, <1>13, <1>14, <1>15, <1>16, <1>17, <1>18, <1>19, <1>20, <1>21, <1>22 DEF CallStep, CameraStep, FrameStep

(* Every step of a living framework keeps to one camera. *)
LEMMA AloneStep ==
    ASSUME IInv, NEW s \in Sessions,
           \/ CreateSession \/ FrameworkDies \/ StartOperation(s) \/ CallCancel(s)
           \/ DropProxy(s) \/ CallStep(s) \/ FrameArrives(s) \/ CameraStep(s) \/ FrameStep(s)
    PROVE  OneCameraAlive'
<1> USE DEF IInv, TypeOK, Places, LifeInOrder, CallbackOfLast, CameraInLife, OneCameraAlive, Dying, Unborn, objectVars, opVars, threadVars, engineVars, historyVars, countVars
<1>1. CASE CreateSession
    BY <1>1, Numbers DEF CreateSession, OpenSession
<1>2. CASE FrameworkDies
    BY <1>2 DEF FrameworkDies, FrameHolds, CameraHolds
<1>3. CASE StartOperation(s)
    BY <1>3 DEF StartOperation, CancelledAtStart
<1>4. CASE CallCancel(s)
    BY <1>4 DEF CallCancel
<1>5. CASE DropProxy(s)
    BY <1>5 DEF DropProxy, Destroy, Keep, FrameHolds, CameraHolds
<1>6. CASE Register(s)
    BY <1>6, Numbers DEF Register, Destroy
<1>7. CASE StartCamera(s)
    BY <1>7 DEF StartCamera, CallEnds, Destroy, FrameHolds, CameraHolds
<1>8. CASE Unregister(s)
    BY <1>8 DEF Unregister, RegisteredAfter
<1>9. CASE CancelOperation(s)
    BY <1>9 DEF CancelOperation, ReportedAfterCancel
<1>10. CASE StopCamera(s)
    BY <1>10 DEF StopCamera
<1>11. CASE CallStopped(s)
    BY <1>11 DEF CallStopped, CallEnds, Destroy, CameraStopped, FrameHolds, CameraHolds
<1>12. CASE ReleaseMembers(s)
    BY <1>12 DEF ReleaseMembers, MayRelease
<1>13. CASE FrameArrives(s)
    BY <1>13 DEF FrameArrives
<1>14. CASE CheckCallback(s)
    BY <1>14 DEF CheckCallback, NoCallback
<1>15. CASE RouteFrame(s)
    <2> SUFFICES ASSUME ~died PROVE OneCameraAlive'
        BY <1>15 DEF RouteFrame
    <2>1. CASE NoCallback
        BY <1>15, <2>1 DEF RouteFrame
    <2>2. CASE ~NoCallback
        <3>1. registered \in Sessions /\ s = created /\ place[s] # "constructing"
            BY <1>15, <2>2, Numbers DEF RouteFrame, NoCallback
        <3>2. registered = s
            BY <3>1, <2>2 DEF NoCallback
        <3> QED
            BY <1>15, <2>2, <3>2 DEF RouteFrame
    <2> QED
        BY <2>1, <2>2
<1>16. CASE ClaimFrame(s)
    BY <1>16 DEF ClaimFrame
<1>17. CASE StartFrameThread(s)
    BY <1>17 DEF StartFrameThread, Referenced, InCall, FrameHolds, CameraHolds
<1>18. CASE ReturnFromFrame(s)
    BY <1>18 DEF ReturnFromFrame, Destroy, Keep, InCall, FrameHolds, CameraHolds
<1>19. CASE ProcessFrame(s)
    BY <1>19 DEF ProcessFrame
<1>20. CASE FrameStop(s)
    BY <1>20 DEF FrameStop
<1>21. CASE FrameStopped(s)
    BY <1>21 DEF FrameStopped, CameraStopped
<1>22. CASE FrameDone(s)
    <2>1. CASE Keep
        BY <1>22, <2>1 DEF FrameDone, Keep
    <2>2. CASE ~Keep
        <3>1. Destroy(s) /\ frame' = [frame EXCEPT ![s] = "destroying"]
            BY <1>22, <2>2 DEF FrameDone
        <3>2. place[s] = "idle"
            <4>1. purpose[s] # "destroy"
                <5>1. frame[s] = "done"
                    BY <1>22 DEF FrameDone
                <5> QED
                    BY <5>1, FrameThreadAlive
            <4>2. ~InCall(s)
                BY <1>22, <2>2 DEF FrameDone
            <4> QED
                BY <4>1, <4>2 DEF InCall
        <3> QED
            BY <1>22, <3>1, <3>2 DEF FrameDone, Destroy
    <2> QED
        BY <2>1, <2>2
<1> QED
    BY <1>1, <1>2, <1>3, <1>4, <1>5, <1>6, <1>7, <1>8, <1>9, <1>10, <1>11, <1>12, <1>13, <1>14, <1>15, <1>16, <1>17, <1>18, <1>19, <1>20, <1>21, <1>22 DEF CallStep, CameraStep, FrameStep

(* Init and Next, for the whole invariant. *)
LEMMA Inductive ==
    /\ Init => IInv
    /\ IInv /\ [Next]_vars => IInv'
<1>1. Init => IInv
    <2> SUFFICES ASSUME Init PROVE IInv
        OBVIOUS
    <2>1. TypeOK
        <3>1. created \in 0..MaxSessions /\ ops \in 0..MaxOps /\ frames \in 0..MaxFrames
            BY DEF Init
        <3> QED
            BY <3>1 DEF Init, TypeOK, Places
    <2>2. LifeInOrder
        <3>1. \A s \in Sessions : s > created
            BY DEF Init, Sessions
        <3> QED
            BY <3>1 DEF Init, LifeInOrder, Unborn, FrameHolds
    <2>3. CallbackOfLast /\ CameraInLife /\ FrameClaimed /\ EndsOwed
        BY DEF Init, CallbackOfLast, CameraInLife, FrameClaimed, EndsOwed, FrameHolds
    <2>4. OneCameraAlive
        BY DEF Init, OneCameraAlive, Unborn, Sessions
    <2> QED
        BY <2>1, <2>2, <2>3, <2>4 DEF IInv
<1>2. IInv /\ [Next]_vars => IInv'
    <2> SUFFICES ASSUME IInv, [Next]_vars PROVE IInv'
        OBVIOUS
    <2>1. CASE UNCHANGED vars
        BY <2>1 DEF vars, objectVars, opVars, threadVars, engineVars, historyVars, countVars,
           IInv, TypeOK, LifeInOrder, CallbackOfLast, CameraInLife, OneCameraAlive,
           FrameClaimed, EndsOwed, FrameHolds
    <2>2. CASE Next
        <3>1. 1 \in Sessions
            BY Numbers
        <3>2. PICK s \in Sessions :
                  \/ CreateSession \/ FrameworkDies \/ StartOperation(s) \/ CallCancel(s)
                  \/ DropProxy(s) \/ CallStep(s) \/ FrameArrives(s) \/ CameraStep(s)
                  \/ FrameStep(s)
            BY <2>2, <3>1 DEF Next, FrameworkStep
        <3> QED
            BY <3>2, TypeStep, LifeStep, CallbackStep, CameraLifeStep, AloneStep, ClaimStep, EndStep
               DEF IInv
    <2> QED
        BY <2>1, <2>2
<1> QED
    BY <1>1, <1>2

(* The invariant holds of every behaviour, with any number of sessions. *)
THEOREM Invariance == Spec => []IInv
<1>1. Init => IInv
    BY Inductive
<1>2. IInv /\ [Next]_vars => IInv'
    BY Inductive
<1> QED
    BY <1>1, <1>2, PTL DEF Spec

(* The variables stay in their ranges. *)
THEOREM TypeCorrect == Spec => []TypeOK
<1>1. IInv => TypeOK
    BY DEF IInv
<1> QED
    BY <1>1, Invariance, PTL

(* The bare pointer in the engine and the threads of a session's own camera    *)
(* (FaceEngine.h, Session.cpp) never lead to a freed session.              *)
THEOREM NothingDangles == Spec => []NoDanglingSession
<1>1. IInv => NoDanglingSession
    <2> SUFFICES ASSUME IInv PROVE NoDanglingSession
        OBVIOUS
    <2> USE DEF IInv, TypeOK, LifeInOrder, CallbackOfLast, CameraInLife, OneCameraAlive, Unborn
    <2>1. registered # 0 => place[registered] # "gone"
        <3> SUFFICES ASSUME registered # 0, place[registered] = "gone" PROVE FALSE
            OBVIOUS
        <3>1. registered \in Sessions
            OBVIOUS
        <3>2. purpose[registered] = "destroy"
            BY <3>1
        <3> QED
            BY <3>2
    <2>2. \A c \in Sessions : cam[c] \in {"session", "copy", "holding"} =>
              IF into[c] = c THEN place[c] # "gone" ELSE died
        OBVIOUS
    <2> QED
        BY <2>1, <2>2 DEF NoDanglingSession
<1> QED
    BY <1>1, Invariance, PTL

(* ~Session() leaves no stream, thread or unreported operation behind.     *)
THEOREM DestructorIsThorough == Spec => []GoneLeavesNothing
<1>1. IInv => GoneLeavesNothing
    BY DEF IInv, TypeOK, LifeInOrder, CameraInLife, EndsOwed, FrameHolds, Unborn,
       GoneLeavesNothing
<1> QED
    BY <1>1, Invariance, PTL

(* The framework's open session is the last, and stopped ones have no operation. *)
LEMMA OpenStep ==
    ASSUME IInv, OpenIsLast, NEW s \in Sessions,
           \/ CreateSession \/ FrameworkDies \/ StartOperation(s) \/ CallCancel(s)
           \/ DropProxy(s) \/ CallStep(s) \/ FrameArrives(s) \/ CameraStep(s) \/ FrameStep(s)
    PROVE  OpenIsLast'
<1> USE DEF IInv, TypeOK, OpenIsLast
<1>1. CASE CreateSession
    BY <1>1, Numbers DEF CreateSession, objectVars, opVars, engineVars, historyVars, OpenSession, LifeInOrder, EndsOwed, Unborn
<1>2. CASE FrameworkDies
    BY <1>2 DEF FrameworkDies, objectVars, opVars, engineVars, historyVars, FrameHolds, CameraHolds
<1>3. CASE StartOperation(s)
    BY <1>3 DEF StartOperation, objectVars, opVars, engineVars, historyVars
<1>4. CASE CallCancel(s)
    BY <1>4 DEF CallCancel, objectVars, opVars, engineVars, historyVars
<1>5. CASE DropProxy(s)
    BY <1>5 DEF DropProxy, objectVars, opVars, engineVars, historyVars, Destroy, Keep
<1>6. CASE Register(s)
    BY <1>6 DEF Register, objectVars, opVars, engineVars, historyVars, Destroy, LifeInOrder
<1>7. CASE StartCamera(s)
    BY <1>7 DEF StartCamera, objectVars, opVars, engineVars, historyVars, CallEnds, Destroy
<1>8. CASE Unregister(s)
    BY <1>8 DEF Unregister, objectVars, opVars, engineVars, historyVars
<1>9. CASE CancelOperation(s)
    BY <1>9 DEF CancelOperation, objectVars, opVars, engineVars, historyVars
<1>10. CASE StopCamera(s)
    BY <1>10 DEF StopCamera, objectVars, opVars, engineVars, historyVars
<1>11. CASE CallStopped(s)
    BY <1>11 DEF CallStopped, objectVars, opVars, engineVars, historyVars, CallEnds, Destroy
<1>12. CASE ReleaseMembers(s)
    BY <1>12 DEF ReleaseMembers, objectVars, opVars, engineVars, historyVars
<1>13. CASE FrameArrives(s)
    BY <1>13 DEF FrameArrives, objectVars, opVars, engineVars, historyVars
<1>14. CASE CheckCallback(s)
    BY <1>14 DEF CheckCallback, objectVars, opVars, engineVars, historyVars
<1>15. CASE RouteFrame(s)
    BY <1>15 DEF RouteFrame, objectVars, opVars, engineVars, historyVars
<1>16. CASE ClaimFrame(s)
    BY <1>16 DEF ClaimFrame, objectVars, opVars, engineVars, historyVars
<1>17. CASE StartFrameThread(s)
    BY <1>17 DEF StartFrameThread, objectVars, opVars, engineVars, historyVars
<1>18. CASE ReturnFromFrame(s)
    BY <1>18 DEF ReturnFromFrame, objectVars, opVars, engineVars, historyVars, Destroy, Keep
<1>19. CASE ProcessFrame(s)
    BY <1>19 DEF ProcessFrame, objectVars, opVars, engineVars, historyVars
<1>20. CASE FrameStop(s)
    BY <1>20 DEF FrameStop, objectVars, opVars, engineVars, historyVars
<1>21. CASE FrameStopped(s)
    BY <1>21 DEF FrameStopped, objectVars, opVars, engineVars, historyVars
<1>22. CASE FrameDone(s)
    BY <1>22 DEF FrameDone, objectVars, opVars, engineVars, historyVars, Destroy, Keep
<1> QED
    BY <1>1, <1>2, <1>3, <1>4, <1>5, <1>6, <1>7, <1>8, <1>9, <1>10, <1>11, <1>12, <1>13, <1>14, <1>15, <1>16, <1>17, <1>18, <1>19, <1>20, <1>21, <1>22 DEF CallStep, CameraStep, FrameStep

(* The engine works for the last session as long as no older one came late.  *)
LEMMA EngineStep ==
    ASSUME IInv, OpenIsLast, EngineServesLast, NEW s \in Sessions,
           \/ CreateSession \/ FrameworkDies \/ StartOperation(s) \/ CallCancel(s)
           \/ DropProxy(s) \/ CallStep(s) \/ FrameArrives(s) \/ CameraStep(s) \/ FrameStep(s)
    PROVE  EngineServesLast'
<1> USE Numbers DEF IInv, TypeOK, EngineServesLast
<1>0. created # 0 => created \in Sessions
    BY BoundsAssumption DEF Sessions
<1>1. CASE CreateSession
    BY <1>1, Numbers DEF CreateSession, objectVars, opVars, engineVars, historyVars, OpenSession, LifeInOrder, EndsOwed, Unborn
<1>2. CASE FrameworkDies
    <2> SUFFICES ASSUME ~late', created # 0, purpose'[created] # "destroy",
                        place'[created] # "constructing"
                 PROVE  registered = created
        BY <1>2 DEF FrameworkDies, opVars, engineVars
    <2>1. purpose[created] # "destroy" /\ place[created] # "constructing"
        BY <1>0, <1>2 DEF FrameworkDies
    <2> QED
        BY <1>2, <2>1 DEF FrameworkDies
<1>3. CASE StartOperation(s)
    BY <1>3 DEF StartOperation, objectVars, opVars, engineVars, historyVars, LifeInOrder, CancelledAtStart, OpenIsLast
<1>4. CASE CallCancel(s)
    <2>1. created # 0 => \/ place[created] # "constructing" /\ purpose[created] # "destroy"
                         \/ s # created
        BY <1>0, <1>4 DEF LifeInOrder, CallCancel
    <2>2. s # created => place'[created] = place[created] /\ purpose'[created] = purpose[created]
        BY <1>0, <1>4 DEF CallCancel
    <2> QED
        BY <1>4, <2>1, <2>2 DEF CallCancel, opVars, engineVars, historyVars
<1>5. CASE DropProxy(s)
    <2>1. created # 0 /\ place'[created] # "constructing" /\ purpose'[created] # "destroy" =>
              place[created] # "constructing" /\ purpose[created] # "destroy"
        BY <1>0, <1>5 DEF DropProxy, Destroy, Keep
    <2> QED
        BY <1>5, <2>1 DEF DropProxy, opVars, engineVars, historyVars
<1>6. CASE Register(s)
    BY <1>6 DEF Register, objectVars, opVars, engineVars, historyVars, Destroy, LifeInOrder
<1>7. CASE StartCamera(s)
    BY <1>7 DEF StartCamera, objectVars, opVars, engineVars, historyVars, CallEnds, Destroy
<1>8. CASE Unregister(s)
    <2>1. s <= created /\ purpose[s] = "destroy"
        BY <1>8 DEF LifeInOrder, Unregister
    <2>2. CASE s = created
        BY <1>8, <2>1, <2>2 DEF Unregister, opVars
    <2>3. CASE s # created
        <3>1. created > s
            BY <2>1, <2>3
        <3>2. late'
            BY <1>8, <3>1 DEF Unregister
        <3> QED
            BY <3>2
    <2> QED
        BY <2>2, <2>3
<1>9. CASE CancelOperation(s)
    <2>1. s <= created
        BY <1>9 DEF LifeInOrder, CancelOperation
    <2>2. CASE s = created
        BY <1>0, <1>9, <2>2 DEF CancelOperation
    <2>3. CASE s # created
        <3>1. created > s
            BY <2>1, <2>3
        <3>2. late'
            BY <1>9, <3>1 DEF CancelOperation
        <3> QED
            BY <3>2
    <2> QED
        BY <2>2, <2>3
<1>10. CASE StopCamera(s)
    BY <1>10 DEF StopCamera, objectVars, opVars, engineVars, historyVars
<1>11. CASE CallStopped(s)
    BY <1>11 DEF CallStopped, objectVars, opVars, engineVars, historyVars, CallEnds, Destroy
<1>12. CASE ReleaseMembers(s)
    BY <1>12 DEF ReleaseMembers, objectVars, opVars, engineVars, historyVars
<1>13. CASE FrameArrives(s)
    BY <1>13 DEF FrameArrives, objectVars, opVars, engineVars, historyVars
<1>14. CASE CheckCallback(s)
    BY <1>14 DEF CheckCallback, objectVars, opVars, engineVars, historyVars
<1>15. CASE RouteFrame(s)
    BY <1>15 DEF RouteFrame, objectVars, opVars, engineVars, historyVars
<1>16. CASE ClaimFrame(s)
    BY <1>16 DEF ClaimFrame, objectVars, opVars, engineVars, historyVars
<1>17. CASE StartFrameThread(s)
    BY <1>17 DEF StartFrameThread, objectVars, opVars, engineVars, historyVars
<1>18. CASE ReturnFromFrame(s)
    BY <1>18 DEF ReturnFromFrame, objectVars, opVars, engineVars, historyVars, Destroy, Keep
<1>19. CASE ProcessFrame(s)
    BY <1>19 DEF ProcessFrame, objectVars, opVars, engineVars, historyVars
<1>20. CASE FrameStop(s)
    BY <1>20 DEF FrameStop, objectVars, opVars, engineVars, historyVars
<1>21. CASE FrameStopped(s)
    BY <1>21 DEF FrameStopped, objectVars, opVars, engineVars, historyVars
<1>22. CASE FrameDone(s)
    BY <1>22 DEF FrameDone, objectVars, opVars, engineVars, historyVars, Destroy, Keep
<1> QED
    BY <1>1, <1>2, <1>3, <1>4, <1>5, <1>6, <1>7, <1>8, <1>9, <1>10, <1>11, <1>12, <1>13, <1>14, <1>15, <1>16, <1>17, <1>18, <1>19, <1>20, <1>21, <1>22 DEF CallStep, CameraStep, FrameStep

(* A frame in progress finds its session, unless an older one came late.     *)
LEMMA FrameFinds ==
    ASSUME IInv, EngineServesLast, FrameFindsSession, ~crashed, NEW c \in Sessions,
           \/ CreateSession \/ FrameworkDies \/ StartOperation(c) \/ CallCancel(c)
           \/ DropProxy(c) \/ CallStep(c) \/ FrameArrives(c) \/ CameraStep(c) \/ FrameStep(c)
    PROVE  FrameFindsSession'
<1>1. CASE ~RouteFrame(c) /\ ~StartFrameThread(c)
    BY <1>1 DEF FrameFindsSession, historyVars, CreateSession, FrameworkDies, StartOperation,
        CallCancel, DropProxy, CallStep, Register, StartCamera, Unregister, CancelOperation,
        StopCamera, CallStopped, ReleaseMembers, FrameArrives, CameraStep, CheckCallback,
        ClaimFrame, ReturnFromFrame, FrameStep, ProcessFrame, FrameStop, FrameStopped, FrameDone
<1>2. CASE RouteFrame(c) \/ StartFrameThread(c)
    <2>1. SUFFICES ASSUME ~died, ~late, cam[c] \in {"route", "copy"}
                   PROVE  ~crashed'
        BY <1>2 DEF FrameFindsSession, RouteFrame, StartFrameThread
    <2>2. place[c] \notin Unborn
        BY <2>1 DEF IInv, CameraInLife
    <2>3. c \in held /\ c \notin closed
        BY <2>1, <2>2 DEF IInv, OneCameraAlive, TypeOK
    <2>4. CASE RouteFrame(c)
        <3>1. c <= created /\ created \in Sessions /\ ~(c < created)
            BY <2>1, <2>2, <2>3, Numbers DEF IInv, OneCameraAlive, TypeOK, LifeInOrder, Unborn, Sessions
        <3>2. c = created
            BY <3>1, Numbers
        <3>3. registered = c
            BY <2>1, <2>2, <2>3, <3>2, Numbers DEF IInv, LifeInOrder, EngineServesLast, Unborn
        <3> QED
            BY <2>4, <3>3, Numbers DEF RouteFrame, NoCallback
    <2>5. CASE StartFrameThread(c)
        <3>1. into[c] = c
            BY <2>1, <2>5 DEF IInv, OneCameraAlive, StartFrameThread
        <3> QED
            BY <2>3, <2>5, <3>1 DEF StartFrameThread, Referenced
    <2> QED
        BY <1>2, <2>4, <2>5
<1> QED
    BY <1>1, <1>2

(* The engine and the last session, for any number of sessions.            *)
THEOREM ServiceInvHolds == Spec => []ServiceInv
<1>1. Init => ServiceInv
    BY DEF Init, ServiceInv, OpenIsLast, EngineServesLast, FrameFindsSession
<1>2. IInv /\ ServiceInv /\ [Next]_vars => ServiceInv'
    <2> SUFFICES ASSUME IInv, ServiceInv, [Next]_vars PROVE ServiceInv'
        OBVIOUS
    <2>1. CASE UNCHANGED vars
        BY <2>1 DEF vars, objectVars, opVars, threadVars, engineVars, historyVars, countVars,
           ServiceInv, OpenIsLast, EngineServesLast, FrameFindsSession
    <2>2. CASE Next
        <3>1. 1 \in Sessions
            BY Numbers, BoundsAssumption DEF Sessions
        <3>2. PICK s \in Sessions :
                  \/ CreateSession \/ FrameworkDies \/ StartOperation(s) \/ CallCancel(s)
                  \/ DropProxy(s) \/ CallStep(s) \/ FrameArrives(s) \/ CameraStep(s)
                  \/ FrameStep(s)
            BY <2>2, <3>1 DEF Next, FrameworkStep
        <3> QED
            BY <2>2, <3>2, OpenStep, EngineStep, FrameFinds DEF Next, ServiceInv
    <2> QED
        BY <2>1, <2>2
<1> QED
    BY <1>1, <1>2, Invariance, PTL DEF Spec

(* "Grab self shared pointer to keep Session alive" (Session.cpp:212) comes in   *)
(* time, and the callback tested in onCameraFrame() is still there when it is  *)
(* called, for a framework that lives and whose proxies are collected in time. *)
THEOREM FramesFindTheirSession == Spec => []FrameFindsSession
<1>1. ServiceInv => FrameFindsSession
    BY DEF ServiceInv
<1> QED
    BY <1>1, ServiceInvHolds, PTL

(* An operation that waits for frames gets them, and the engine processes them, *)
(* unless an older session's end came late.                                *)
THEOREM OperationGetsFrames == Spec => []FramesReachOperation
<1>1. IInv /\ ServiceInv => FramesReachOperation
    <2> SUFFICES ASSUME IInv, ServiceInv, NEW s \in held \cap active \cap running,
                        place[s] = "idle", ~late
                 PROVE  registered = s /\ ~mCancelled
        BY DEF FramesReachOperation
    <2>1. s \in Sessions /\ s = created
        BY DEF IInv, TypeOK, ServiceInv, OpenIsLast
    <2>2. purpose[s] # "destroy" /\ created # 0
        BY <2>1, Numbers DEF IInv, LifeInOrder
    <2> QED
        BY <2>1, <2>2 DEF ServiceInv, EngineServesLast
<1> QED
    BY <1>1, Invariance, ServiceInvHolds, PTL
=============================================================================
