---------------------------- MODULE SessionProofs ----------------------------
(***************************************************************************)
(* Proofs about Session: its type invariant, and that mProcessingFrame is   *)
(* set exactly while a frame is being processed, for any number of clients  *)
(* and operations, in whatever order their steps interleave.               *)
(***************************************************************************)
EXTENDS Session, SequenceTheorems, TLAPS

USE DEF Ops

(* mProcessingFrame is set exactly while a frame thread runs, so no frame is  *)
(* processed beside another and none leaves the session busy: the claim sets *)
(* it only when it is clear, and each return of the thread clears it.        *)
THEOREM FrameFlagHolds == Spec => []FrameFlag
<1>1. Init => FrameFlag
    BY DEF Init, FrameFlag
<1>2. FrameFlag /\ [Next]_vars => FrameFlag'
    <2> SUFFICES ASSUME FrameFlag, [Next]_vars PROVE FrameFlag'
        OBVIOUS
    <2> USE DEF FrameFlag, clientVars, frameVars
    <2>1. CASE UNCHANGED vars
        BY <2>1 DEF vars
    <2>2. ASSUME NEW c \in Clients, NEW k \in Kinds, StartOperation(c, k)
          PROVE  FrameFlag'
        BY <2>2 DEF StartOperation
    <2>3. ASSUME NEW c \in Clients, CallCancel(c) \/ OtherCall(c) \/ ClientStep(c)
          PROVE  FrameFlag'
        BY <2>3 DEF CallCancel, OtherCall, ClientStep, SetFlag, StartCamera, CameraFailed, PostError,
                    ReadFlags, PostCanceled, ClearFlags, CancelAll, CancelStop,
                    CancelStopped, PostClosed
    <2>4. CASE FrameArrives \/ ClaimFrame \/ CameraLost \/ Deliver
        BY <2>4 DEF FrameArrives, ClaimFrame, CameraLost, Deliver
    <2>5. CASE FrameStep
        <3>1. EngineCall # "idle"
            BY DEF EngineCall
        <3> QED
            BY <2>5, <3>1 DEF FrameStep, FrameGoto, ReleaseFrame, FrameCancelled,
                FrameDispatch, EngineAuthenticate, EngineDetect, EngineEnroll,
                ReadCount, WriteCount, EnrollVerdict, FrameClear, FrameStop, FrameStopped, FramePost, FrameDone
    <2> QED
        BY <2>1, <2>2, <2>3, <2>4, <2>5 DEF Next
<1> QED
    BY <1>1, <1>2, PTL DEF Spec

(* What PostCallback() keeps of the type invariant. *)
LEMMA PostCallbackType ==
    ASSUME TypeOK, NEW cb \in Outcomes \cup Others, PostCallback(cb)
    PROVE  /\ queue' \in Seq([cb : Outcomes \cup Others, op : 0..MaxOps])
           /\ posted' \in [Ops -> SUBSET Outcomes]
<1>1. [cb |-> cb, op |-> ops] \in [cb : Outcomes \cup Others, op : 0..MaxOps]
    BY DEF TypeOK
<1>2. queue' \in Seq([cb : Outcomes \cup Others, op : 0..MaxOps])
    BY <1>1 DEF TypeOK, PostCallback
<1>3. posted' \in [Ops -> SUBSET Outcomes]
    BY DEF TypeOK, PostCallback
<1> QED
    BY <1>2, <1>3

(* A client's move keeps the clients' places. *)
LEMMA GotoType ==
    ASSUME TypeOK, NEW c \in Clients, NEW l \in Places, Goto(c, l)
    PROVE  pc' \in [Clients -> Places]
BY DEF TypeOK, Goto

(* The steps of a client inside authenticate(), enroll() or                *)
(* detectInteraction().                                                    *)
LEMMA StartType ==
    ASSUME BoundsAssumption, GoodFramesAssumption, TypeOK, NEW c \in Clients,
           \/ \E k \in Kinds : StartOperation(c, k)
           \/ SetFlag(c) \/ StartCamera(c) \/ CameraFailed(c)
    PROVE  TypeOK'
<1> USE DEF NothingPosted, callbackVars, clientVars, frameVars, historyVars, engineVars, countVars
<1> USE BoundsAssumption, GoodFramesAssumption
<1>1. CASE \E k \in Kinds : StartOperation(c, k)
    <2> PICK k \in Kinds : StartOperation(c, k)
        BY <1>1
    <2>1. pc' \in [Clients -> Places]
        BY GotoType DEF StartOperation, Places
    <2>2. ops' \in 0..MaxOps
        BY DEF StartOperation, TypeOK
    <2>3. kind' \in [Clients -> Kinds \cup {"none"}]
        BY DEF StartOperation, TypeOK
    <2>4. \A d \in Clients :
            pc'[d] \in {"setFlag", "startCamera", "cameraFailed"} => kind'[d] # "none"
        <3>1. "none" \notin Kinds
            BY KindsAssumption DEF KindsAssumption
        <3> QED
            BY <3>1 DEF StartOperation, Goto, TypeOK
    <2> QED
        BY <2>1, <2>2, <2>3, <2>4 DEF StartOperation, TypeOK
<1>2. CASE SetFlag(c)
    <2>1. pc' \in [Clients -> Places]
        BY <1>2, GotoType DEF SetFlag, Places
    <2>2. active' \subseteq Kinds
        <3>1. active \subseteq Kinds /\ kind[c] \in Kinds
            BY <1>2 DEF SetFlag, TypeOK
        <3> QED
            BY <1>2, <3>1 DEF SetFlag
    <2> QED
        BY <1>2, <2>1, <2>2 DEF SetFlag, Goto, TypeOK
<1>3. CASE StartCamera(c)
    <2>1. pc' \in [Clients -> Places]
        BY <1>3, GotoType DEF StartCamera, Places
    <2>2. kind' \in [Clients -> Kinds \cup {"none"}]
        BY <1>3 DEF StartCamera, TypeOK
    <2> QED
        BY <1>3, <2>1, <2>2 DEF StartCamera, Goto, TypeOK
<1>4. CASE CameraFailed(c)
    <2>1. pc' \in [Clients -> Places]
        BY <1>4, GotoType DEF CameraFailed, Places
    <2> QED
        BY <1>4, <2>1 DEF CameraFailed, Goto, TypeOK
<1> QED
    BY <1>1, <1>2, <1>3, <1>4

(* The other steps of a client: the failed start's report, and cancel() and  *)
(* close().                                                                *)
LEMMA CancelType ==
    ASSUME BoundsAssumption, GoodFramesAssumption, TypeOK, NEW c \in Clients,
           \/ PostError(c) \/ CallCancel(c) \/ ReadFlags(c) \/ PostCanceled(c)
           \/ ClearFlags(c) \/ CancelAll(c) \/ CancelStop(c) \/ CancelStopped(c)
           \/ PostClosed(c) \/ OtherCall(c)
    PROVE  TypeOK'
<1> USE DEF NothingPosted, callbackVars, clientVars, frameVars, historyVars, engineVars, countVars
<1> USE BoundsAssumption, GoodFramesAssumption
<1>1. CASE PostError(c)
    <2>1. pc' \in [Clients -> Places]
        BY <1>1, GotoType DEF PostError, Places
    <2>2. /\ queue' \in Seq([cb : Outcomes \cup Others, op : 0..MaxOps])
          /\ posted' \in [Ops -> SUBSET Outcomes]
        BY <1>1, PostCallbackType DEF PostError, Outcomes
    <2> QED
        BY <1>1, <2>1, <2>2 DEF PostError, Goto, TypeOK
<1>2. CASE CallCancel(c)
    <2>1. pc' \in [Clients -> Places]
        BY <1>2, GotoType DEF CallCancel, Places
    <2> QED
        BY <1>2, <2>1 DEF CallCancel, Goto, TypeOK
<1>3. CASE ReadFlags(c)
    <2>1. pc' \in [Clients -> Places]
        BY <1>3, GotoType DEF ReadFlags, AfterReadFlags, Places
    <2> QED
        BY <1>3, <2>1 DEF ReadFlags, AfterReadFlags, Goto, TypeOK
<1>4. CASE PostCanceled(c)
    <2>1. pc' \in [Clients -> Places]
        BY <1>4, GotoType DEF PostCanceled, Places
    <2>2. /\ queue' \in Seq([cb : Outcomes \cup Others, op : 0..MaxOps])
          /\ posted' \in [Ops -> SUBSET Outcomes]
        BY <1>4, PostCallbackType DEF PostCanceled, Outcomes
    <2> QED
        BY <1>4, <2>1, <2>2 DEF PostCanceled, Goto, TypeOK
<1>5. CASE ClearFlags(c)
    <2>1. pc' \in [Clients -> Places]
        BY <1>5, GotoType DEF ClearFlags, Places
    <2> QED
        BY <1>5, <2>1 DEF ClearFlags, Goto, TypeOK
<1>6. CASE CancelAll(c)
    <2>1. pc' \in [Clients -> Places]
        BY <1>6, GotoType DEF CancelAll, Places
    <2> QED
        BY <1>6, <2>1 DEF CancelAll, Goto, TypeOK
<1>7. CASE CancelStop(c)
    <2>1. pc' \in [Clients -> Places]
        BY <1>7, GotoType DEF CancelStop, Places
    <2> QED
        BY <1>7, <2>1 DEF CancelStop, CancelStopsCamera, StopCamera, Goto, TypeOK
<1>8. CASE CancelStopped(c)
    <2>1. pc' \in [Clients -> Places]
        BY <1>8, GotoType DEF CancelStopped, Places
    <2> QED
        BY <1>8, <2>1 DEF CancelStopped, Goto, TypeOK
<1>9. CASE PostClosed(c)
    <2>1. pc' \in [Clients -> Places]
        BY <1>9, GotoType DEF PostClosed, Places
    <2>2. /\ queue' \in Seq([cb : Outcomes \cup Others, op : 0..MaxOps])
          /\ posted' \in [Ops -> SUBSET Outcomes]
        BY <1>9, PostCallbackType DEF PostClosed, Others
    <2> QED
        BY <1>9, <2>1, <2>2 DEF PostClosed, Goto, TypeOK
<1>10. CASE OtherCall(c)
    <2>1. /\ queue' \in Seq([cb : Outcomes \cup Others, op : 0..MaxOps])
          /\ posted' \in [Ops -> SUBSET Outcomes]
        BY <1>10, PostCallbackType DEF OtherCall, Others, TypeOK
    <2> QED
        BY <1>10, <2>1 DEF OtherCall, TypeOK
<1> QED
    BY <1>1, <1>2, <1>3, <1>4, <1>5, <1>6, <1>7, <1>8, <1>9, <1>10

(* The camera's callback thread and the worker.                             *)
LEMMA CallbackType ==
    ASSUME BoundsAssumption, GoodFramesAssumption, TypeOK, FrameFlag,
           FrameArrives \/ ClaimFrame \/ CameraLost \/ Deliver
    PROVE  TypeOK'
<1> USE DEF NothingPosted, callbackVars, clientVars, frameVars, historyVars, engineVars, countVars
<1> USE BoundsAssumption, GoodFramesAssumption
<1>1. CASE FrameArrives
    BY <1>1 DEF FrameArrives, TypeOK
<1>2. CASE ClaimFrame
    <2>1. /\ mProcessingFrame' \in BOOLEAN /\ frames' \in Nat
          /\ \/ frame' = "check" /\ result' = "none" /\ frame = "idle"
             \/ frame' = frame /\ result' = result
        <3>1. CASE ~mProcessingFrame
            BY <1>2, <3>1 DEF ClaimFrame, TypeOK, FrameFlag
        <3>2. CASE mProcessingFrame
            BY <1>2, <3>2 DEF ClaimFrame, TypeOK
        <3> QED
            BY <3>1, <3>2
    <2>2. /\ callback' = "idle"
          /\ UNCHANGED active /\ UNCHANGED mCancelled /\ UNCHANGED mEnrollFrameCount
          /\ UNCHANGED camera /\ UNCHANGED pc /\ UNCHANGED kind /\ UNCHANGED closing
          /\ UNCHANGED queue /\ UNCHANGED posted /\ UNCHANGED reported
          /\ UNCHANGED ops /\ UNCHANGED cancels /\ UNCHANGED tally
          /\ UNCHANGED crossed /\ outlived' \in {FALSE, outlived}
        BY <1>2 DEF ClaimFrame
    <2>3. /\ frame' \in FramePlaces
          /\ result' \in {"none"} \cup Outcomes \cup Others
          /\ frame' \in {"clear", "stop", "awaitStopped"} =>
                result' \in {"succeeded", "detected", "enrolled"}
          /\ frame' = "post" => result' # "none"
          /\ mEnrollFrameCount = ENROLL_REQUIRED_GOOD_FRAMES => frame' = "verdict"
        <3>1. CASE frame' = "check" /\ result' = "none" /\ frame = "idle"
            BY <3>1 DEF FramePlaces, TypeOK
        <3>2. CASE frame' = frame /\ result' = result
            BY <3>2 DEF TypeOK
        <3> QED
            BY <2>1, <3>1, <3>2
    <2> QED
        BY <2>1, <2>2, <2>3 DEF TypeOK
<1>3. CASE CameraLost
    BY <1>3 DEF CameraLost, TypeOK
<1>4. CASE Deliver
    <2> DEFINE Callbacks == [cb : Outcomes \cup Others, op : 0..MaxOps]
    <2>1. queue \in Seq(Callbacks) /\ queue # <<>>
        BY <1>4 DEF Deliver, TypeOK
    <2>2. Tail(queue) \in Seq(Callbacks) /\ Head(queue) \in Callbacks
        <3> HIDE DEF Callbacks
        <3> QED
            BY <2>1, HeadTailProperties
    <2>3. reported' \in [Ops -> SUBSET Outcomes]
        <3>1. reported \in [Ops -> SUBSET Outcomes]
            BY DEF TypeOK
        <3>2. \/ reported' = reported
              \/ /\ Head(queue).cb \in Outcomes
                 /\ reported' = [reported EXCEPT ![Head(queue).op] = @ \cup {Head(queue).cb}]
            BY <1>4 DEF Deliver
        <3> QED
            BY <3>1, <3>2
    <2> QED
        BY <1>4, <2>2, <2>3 DEF Deliver, TypeOK
<1> QED
    BY <1>1, <1>2, <1>3, <1>4

(* The frame thread.                                                        *)
LEMMA FrameType ==
    ASSUME BoundsAssumption, GoodFramesAssumption, TypeOK, FrameStep
    PROVE  TypeOK'
<1> USE DEF NothingPosted, callbackVars, clientVars, frameVars, historyVars, engineVars, countVars,
            FrameGoto
<1> USE BoundsAssumption, GoodFramesAssumption
<1>1. CASE FrameCancelled
    BY <1>1 DEF FrameCancelled, ReleaseFrame, TypeOK, FramePlaces
<1>2. CASE FrameDispatch
    <2>1. EngineCall \in {"auth", "detect", "enroll", "release"}
        BY DEF EngineCall
    <2> QED
        BY <1>2, <2>1 DEF FrameDispatch, TypeOK, FramePlaces
<1>3. CASE EngineAuthenticate
    BY <1>3 DEF EngineAuthenticate, TypeOK, FramePlaces, Outcomes, Others
<1>4. CASE EngineDetect
    BY <1>4 DEF EngineDetect, TypeOK, FramePlaces, Outcomes, Others
<1>5. CASE EngineEnroll
    BY <1>5 DEF EngineEnroll, TypeOK, FramePlaces, Outcomes, Others
<1>6. CASE ReadCount \/ WriteCount
    BY <1>6 DEF ReadCount, WriteCount, TypeOK, FramePlaces
<1>12. CASE EnrollVerdict
    <2>1. /\ mEnrollFrameCount' \in 0..(ENROLL_REQUIRED_GOOD_FRAMES - 1)
          /\ tally' = tally
        BY <1>12 DEF EnrollVerdict, MoreFramesNeeded, TypeOK, GoodFramesAssumption
    <2>2. /\ frame' \in FramePlaces
          /\ result' \in {"none"} \cup Outcomes \cup Others
          /\ frame' \in {"clear", "stop", "awaitStopped"} => result' = "enrolled"
          /\ frame' = "post" => result' # "none"
        BY <1>12 DEF EnrollVerdict, FramePlaces, Outcomes, Others
    <2> QED
        BY <1>12, <2>1, <2>2 DEF EnrollVerdict, TypeOK, GoodFramesAssumption
<1>7. CASE FrameClear
    BY <1>7 DEF FrameClear, EndsOperation, TypeOK, FramePlaces
<1>8. CASE FrameStop
    BY <1>8 DEF FrameStop, EndsOperation, StopCamera, TypeOK, FramePlaces
<1>9. CASE FrameStopped
    BY <1>9 DEF FrameStopped, TypeOK, FramePlaces
<1>10. CASE FramePost
    <2>1. result \in Outcomes \cup Others
        BY <1>10 DEF FramePost, TypeOK
    <2>2. /\ queue' \in Seq([cb : Outcomes \cup Others, op : 0..MaxOps])
          /\ posted' \in [Ops -> SUBSET Outcomes]
        BY <1>10, <2>1, PostCallbackType DEF FramePost
    <2> QED
        BY <1>10, <2>2 DEF FramePost, EndsOperation, TypeOK, FramePlaces
<1>11. CASE FrameDone
    BY <1>11 DEF FrameDone, ReleaseFrame, TypeOK, FramePlaces
<1> QED
    BY <1>1, <1>2, <1>3, <1>4, <1>5, <1>6, <1>7, <1>8, <1>9, <1>10, <1>11, <1>12 DEF FrameStep

(* The type invariant holds of Session, whatever the framework does.  A frame *)
(* claimed while another is at its verdict would leave the count at its      *)
(* limit, so this rests on FrameFlag.                                       *)
THEOREM TypeCorrect == Spec => []TypeOK
<1> USE BoundsAssumption, GoodFramesAssumption
<1>1. Init => TypeOK
    <2> SUFFICES ASSUME Init PROVE TypeOK
        OBVIOUS
    <2>1. /\ mEnrollFrameCount \in 0..ENROLL_REQUIRED_GOOD_FRAMES
          /\ mEnrollFrameCount # ENROLL_REQUIRED_GOOD_FRAMES
          /\ tally \in 0..(ENROLL_REQUIRED_GOOD_FRAMES - 1)
        BY DEF Init, GoodFramesAssumption
    <2>2. ops \in 0..MaxOps /\ cancels \in Nat /\ frames \in Nat
        BY DEF Init, BoundsAssumption
    <2>3. queue \in Seq([cb : Outcomes \cup Others, op : 0..MaxOps])
        BY DEF Init
    <2>4. /\ pc \in [Clients -> Places] /\ kind \in [Clients -> Kinds \cup {"none"}]
          /\ \A c \in Clients : pc[c] = "idle"
        BY DEF Init, Places
    <2>5. posted \in [Ops -> SUBSET Outcomes] /\ reported \in [Ops -> SUBSET Outcomes]
        BY DEF Init
    <2> QED
        BY <2>1, <2>2, <2>3, <2>4, <2>5 DEF Init, TypeOK, FramePlaces
<1>2. TypeOK /\ FrameFlag /\ [Next]_vars => TypeOK'
    <2> SUFFICES ASSUME TypeOK, FrameFlag, [Next]_vars PROVE TypeOK'
        OBVIOUS
    <2>1. CASE UNCHANGED vars
        BY <2>1 DEF TypeOK, vars, callbackVars, clientVars, frameVars, historyVars, engineVars, countVars
    <2>2. CASE Next
        BY <2>2, StartType, CancelType, CallbackType, FrameType DEF Next, ClientStep
    <2> QED
        BY <2>1, <2>2
<1> QED
    BY <1>1, <1>2, FrameFlagHolds, PTL DEF Spec

-----------------------------------------------------------------------------
(***************************************************************************)
(* A framework whose calls come one at a time but that does not wait for the *)
(* last operation's outcome: OutcomeInv is inductive.                      *)
(***************************************************************************)

(* A posted outcome is the end of the operation. *)
LEMMA PostCallbackEnds ==
    ASSUME TypeOK, NEW cb, PostCallback(cb), UNCHANGED ops
    PROVE  HasEnd' <=> HasEnd \/ (ops > 0 /\ cb \in Outcomes)
<1>1. MaxOps \in Nat /\ ops \in 0..MaxOps /\ posted \in [1..MaxOps -> SUBSET Outcomes]
    BY BoundsAssumption DEF TypeOK, BoundsAssumption
<1>2. CASE ops > 0 /\ cb \in Outcomes
    <2>1. posted'[ops] = posted[ops] \cup {cb}
        BY <1>1, <1>2 DEF PostCallback
    <2> QED
        BY <1>2, <2>1 DEF HasEnd
<1>3. CASE ~(ops > 0 /\ cb \in Outcomes)
    BY <1>3 DEF HasEnd, PostCallback
<1> QED
    BY <1>2, <1>3

(* The steps of authenticate(), detectInteraction() and enroll(). *)
LEMMA StartKeepsOutcome ==
    ASSUME CallsInTurn, TypeOK, OutcomeInv, NEW c \in Clients,
           \/ \E k \in Kinds : StartOperation(c, k)
           \/ SetFlag(c) \/ StartCamera(c) \/ CameraFailed(c) \/ PostError(c)
    PROVE  OutcomeInv'
<1> USE DEF NothingPosted, callbackVars, clientVars, frameVars, historyVars, engineVars, countVars, Goto
<1>1. pc \in [Clients -> Places] /\ OneCall /\ EndOwed
    BY DEF TypeOK, OutcomeInv
<1>2. \A d \in Clients : d # c => pc[d] = "idle"
    BY <1>1 DEF CallsInTurn, OneCall, StartOperation, MayStart, NoCallRuns, SetFlag, StartCamera, CameraFailed, PostError
<1>3. \A d \in Clients : d # c => pc'[d] = "idle"
    BY <1>1, <1>2 DEF StartOperation, SetFlag, StartCamera, CameraFailed, PostError
<1>4. pc'[c] \in {"setFlag", "startCamera", "cameraFailed", "postError", "idle"}
    BY <1>1 DEF StartOperation, SetFlag, StartCamera, CameraFailed, PostError
<1>5. OneCall' /\ CancelHasPosted'
    BY <1>3, <1>4 DEF OneCall, CancelHasPosted
<1>6. CASE pc'[c] \in {"setFlag", "postError"}
    BY <1>5, <1>6 DEF OutcomeInv, EndOwed, At
<1>7. CASE SetFlag(c)
    BY <1>5, <1>7 DEF OutcomeInv, EndOwed, SetFlag
<1>8. CASE StartCamera(c)
    <2>1. UNCHANGED <<active, ops, posted, frame, result>> /\ pc[c] = "startCamera"
        BY <1>8 DEF StartCamera
    <2>2. EndOwed'
        BY <1>1, <1>2, <2>1 DEF EndOwed, At, HasEnd, HasResult
    <2> QED
        BY <1>5, <2>2 DEF OutcomeInv
<1>9. CASE PostError(c)
    <2>1. HasEnd' <=> HasEnd \/ ops > 0
        BY <1>9, PostCallbackEnds DEF PostError, Outcomes
    <2> QED
        BY <1>5, <1>9, <2>1 DEF OutcomeInv, EndOwed, PostError
<1>10. CASE (\E k \in Kinds : StartOperation(c, k)) \/ CameraFailed(c)
    BY <1>1, <1>6, <1>10 DEF StartOperation, CameraFailed
<1> QED
    BY <1>7, <1>8, <1>9, <1>10

(* The steps of cancel() and close(), and the calls that touch no operation. *)
LEMMA CancelKeepsOutcome ==
    ASSUME CallsInTurn, TypeOK, OutcomeInv, NEW c \in Clients,
           \/ CallCancel(c) \/ OtherCall(c) \/ ReadFlags(c) \/ PostCanceled(c) \/ ClearFlags(c)
           \/ CancelAll(c) \/ CancelStop(c) \/ CancelStopped(c) \/ PostClosed(c)
    PROVE  OutcomeInv'
<1> USE DEF NothingPosted, callbackVars, clientVars, frameVars, historyVars, engineVars, countVars, Goto
<1>1. pc \in [Clients -> Places] /\ OneCall /\ EndOwed /\ CancelHasPosted
    BY DEF TypeOK, OutcomeInv
<1>2. UNCHANGED <<ops, frame, result>>
    BY DEF CallCancel, OtherCall, ReadFlags, PostCanceled, ClearFlags, CancelAll, CancelStop,
           CancelStopped, PostClosed
<1>3. CASE OtherCall(c)
    <2>1. UNCHANGED <<active, pc>> /\ (HasEnd => HasEnd')
        BY <1>3, PostCallbackEnds DEF OtherCall, HasEnd
    <2> QED
        BY <1>1, <1>2, <2>1 DEF OutcomeInv, OneCall, CancelHasPosted, EndOwed, At, HasResult
<1>4. CASE ~OtherCall(c)
    <2>1. \A d \in Clients : d # c => pc[d] = "idle"
        BY <1>1, <1>4 DEF CallsInTurn, OneCall, CallCancel, NoCallRuns, ReadFlags, PostCanceled, ClearFlags,
            CancelAll, CancelStop, CancelStopped, PostClosed
    <2>2. /\ pc[c] \notin {"setFlag", "postError"}
          /\ \A d \in Clients : d # c => pc'[d] = "idle"
        BY <1>1, <1>4, <2>1 DEF CallCancel, ReadFlags, PostCanceled, ClearFlags,
            CancelAll, CancelStop, CancelStopped, PostClosed
    <2>3. OneCall'
        BY <2>2 DEF OneCall
    <2>4. /\ HasEnd => HasEnd'
          /\ PostCanceled(c) /\ ops > 0 => HasEnd'
        <3>1. CASE PostCanceled(c)
            BY <3>1, <1>2, PostCallbackEnds DEF PostCanceled, Outcomes
        <3>2. CASE PostClosed(c)
            BY <3>2, <1>2, PostCallbackEnds DEF PostClosed, PostCanceled
        <3>3. CASE ~PostCanceled(c) /\ ~PostClosed(c)
            BY <1>4, <3>3 DEF HasEnd, CallCancel, ReadFlags, ClearFlags, CancelAll, CancelStop, CancelStopped
        <3> QED
            BY <3>1, <3>2, <3>3
    <2>5. CancelHasPosted'
        <3> SUFFICES ASSUME pc'[c] = "clearFlags", active' # {}, ops > 0 PROVE HasEnd'
            BY <1>2, <2>2 DEF CancelHasPosted
        <3>1. CASE PostCanceled(c)
            BY <2>4, <3>1
        <3>2. CASE ~PostCanceled(c)
            BY <1>1, <1>4, <3>2 DEF CallCancel, ReadFlags, AfterReadFlags, ClearFlags, CancelAll,
                CancelStop, CancelStopped, PostClosed
        <3> QED
            BY <3>1, <3>2
    <2>6. EndOwed'
        <3>1. CASE ClearFlags(c)
            <4>1. ops > 0 /\ active # {} => HasEnd
                BY <1>1, <3>1 DEF ClearFlags, CancelHasPosted
            <4> QED
                BY <1>1, <1>2, <2>1, <2>2, <2>4, <4>1 DEF EndOwed, At, HasResult
        <3>2. CASE ~ClearFlags(c)
            <4>1. UNCHANGED active
                BY <1>4, <3>2 DEF CallCancel, ReadFlags, PostCanceled, CancelAll, CancelStop,
                    CancelStopped, PostClosed
            <4> QED
                BY <1>1, <1>2, <2>1, <2>2, <2>4, <4>1 DEF EndOwed, At, HasResult
        <3> QED
            BY <3>1, <3>2
    <2> QED
        BY <2>3, <2>5, <2>6 DEF OutcomeInv
<1> QED
    BY <1>3, <1>4

(* The threads' steps. *)
LEMMA ThreadsKeepOutcome ==
    ASSUME TypeOK, FrameFlag, OutcomeInv,
           FrameArrives \/ ClaimFrame \/ CameraLost \/ Deliver \/ FrameStep
    PROVE  OutcomeInv'
<1> USE DEF NothingPosted, callbackVars, clientVars, frameVars, historyVars, engineVars, countVars, FrameGoto
<1>1. UNCHANGED <<pc, ops>> /\ active' \subseteq active
    BY DEF FrameArrives, ClaimFrame, CameraLost, Deliver, FrameStep, FrameCancelled, FrameDispatch,
        EngineAuthenticate, EngineDetect, EngineEnroll, ReadCount, WriteCount, EnrollVerdict,
        FrameClear, FrameStop, FrameStopped, FramePost, FrameDone
<1>2. OneCall'
    BY <1>1 DEF OutcomeInv, OneCall
<1>3. /\ HasEnd => HasEnd'
      /\ FramePost /\ result \in Outcomes /\ ops > 0 => HasEnd'
    <2>1. CASE FramePost
        BY <2>1, <1>1, PostCallbackEnds DEF FramePost
    <2>2. CASE ~FramePost
        BY <2>2 DEF HasEnd, FrameArrives, ClaimFrame, CameraLost, Deliver, FrameStep, FrameCancelled,
            FrameDispatch, EngineAuthenticate, EngineDetect, EngineEnroll, ReadCount, WriteCount,
            EnrollVerdict, FrameClear, FrameStop, FrameStopped, FrameDone
    <2> QED
        BY <2>1, <2>2
<1>4. CancelHasPosted'
    BY <1>1, <1>3 DEF OutcomeInv, CancelHasPosted
<1>5. EndOwed'
    <2> SUFFICES ASSUME active' = {}, ops > 0, ~HasEnd', ~At({"setFlag", "postError"})
                 PROVE  frame' \in {"stop", "awaitStopped"} \/ HasResult'
        BY <1>1 DEF EndOwed, At
    <2>1. CASE FrameClear
        BY <2>1 DEF FrameClear
    <2>2. CASE ~FrameClear
        <3>1. active = {}
            BY <2>2 DEF FrameArrives, ClaimFrame, CameraLost, Deliver, FrameStep, FrameCancelled,
                FrameDispatch, EngineAuthenticate, EngineDetect, EngineEnroll, ReadCount, WriteCount,
                EnrollVerdict, FrameStop, FrameStopped, FramePost, FrameDone
        <3>2. frame \in {"stop", "awaitStopped"} \/ HasResult
            BY <1>3, <3>1 DEF OutcomeInv, EndOwed
        <3>3. CASE FrameStop
            BY <3>3 DEF FrameStop
        <3>4. CASE FrameStopped
            <4>1. frame' = "post" /\ result' \in {"succeeded", "detected", "enrolled"}
                BY <3>4 DEF FrameStopped, TypeOK
            <4> QED
                BY <4>1 DEF HasResult, Outcomes
        <3>5. CASE FramePost
            BY <1>3, <3>2, <3>5 DEF FramePost, HasResult
        <3>6. CASE ClaimFrame
            BY <3>2, <3>6 DEF ClaimFrame, FrameFlag, HasResult
        <3>7. CASE FrameArrives \/ CameraLost \/ Deliver
            BY <3>2, <3>7 DEF FrameArrives, CameraLost, Deliver, HasResult
        <3> QED
            BY <2>2, <3>2, <3>3, <3>4, <3>5, <3>6, <3>7 DEF FrameStep, FrameCancelled, FrameDispatch,
                EngineAuthenticate, EngineDetect, EngineEnroll, ReadCount, WriteCount, EnrollVerdict,
                FrameDone, HasResult
    <2> QED
        BY <2>1, <2>2
<1> QED
    BY <1>2, <1>4, <1>5 DEF OutcomeInv

(* The invariant of a framework whose calls come one at a time. *)
THEOREM OutcomeInvHolds == ASSUME CallsInTurn PROVE Spec => []OutcomeInv
<1>1. Init => OutcomeInv
    BY DEF Init, OutcomeInv, OneCall, CancelHasPosted, EndOwed
<1>2. TypeOK /\ FrameFlag /\ OutcomeInv /\ [Next]_vars => OutcomeInv'
    <2> SUFFICES ASSUME TypeOK, FrameFlag, OutcomeInv, [Next]_vars PROVE OutcomeInv'
        OBVIOUS
    <2>1. CASE UNCHANGED vars
        BY <2>1 DEF vars, callbackVars, clientVars, frameVars, historyVars, engineVars, countVars, OutcomeInv,
            OneCall, CancelHasPosted, EndOwed, HasResult, HasEnd, At
    <2>2. CASE Next
        BY <2>2, StartKeepsOutcome, CancelKeepsOutcome, ThreadsKeepOutcome DEF Next, ClientStep
    <2> QED
        BY <2>1, <2>2
<1> QED
    BY <1>1, <1>2, TypeCorrect, FrameFlagHolds, PTL DEF Spec

(* The framework is never left without a word: when the session has settled with *)
(* no flag set, an end was posted since the last operation began, even if that   *)
(* operation did not wait for the one before it.                           *)
THEOREM SettledHasOutcomeHolds == ASSUME CallsInTurn PROVE Spec => []SettledHasOutcome
<1>1. OutcomeInv => SettledHasOutcome
    BY DEF OutcomeInv, EndOwed, HasResult, HasEnd, At, Settled, SettledHasOutcome
<1> QED
    BY <1>1, OutcomeInvHolds, PTL

-----------------------------------------------------------------------------
(***************************************************************************)
(* A framework that makes one call at a time and waits for each outcome:    *)
(* SerialInv is inductive, beside frame threads that outlive their operation. *)
(***************************************************************************)
Parts ==
    /\ CancelProgress /\ QuietAtFirst /\ (CameraMayBeLost \/ StreamOrEnd)
    /\ crossed \/ (StartsAlone /\ FrameServesOperation /\ EndIsQuiet)

(* A client that moves is the only one that is not idle. *)
LEMMA Alone ==
    ASSUME OneCall, NEW c \in Clients, pc[c] # "idle"
    PROVE  \A d \in Clients : d # c => pc[d] = "idle"
BY DEF OneCall

(* With every client but c idle, what SerialInv says of the calls is what it   *)
(* says of c.                                                              *)
Only(c) == \A d \in Clients : d # c => pc[d] = "idle"

Starting == {"setFlag", "startCamera", "cameraFailed", "postError"}

PartsFor(c) ==
    /\ pc[c] \in {"cancelAll", "stopCamera", "awaitStopped", "postClosed"} => active = {}
    /\ pc[c] = "awaitStopped" => camera = "off"
    /\ ops = 0 => Quiet /\ frame = "idle" /\ pc[c] \notin Starting
    /\ CameraMayBeLost \/
         (ops > 0 /\ camera = "off" =>
            HasEnd \/ pc[c] \in Starting \/ frame \in {"stop", "awaitStopped"} \/ HasResult)
    /\ crossed \/
         /\ pc[c] \in Starting =>
              /\ (frame = "idle" \/ outlived) /\ callback = "idle" /\ camera = "off"
              /\ ~HasEnd
              /\ active = IF pc[c] \in {"startCamera", "cameraFailed"} THEN {kind[c]} ELSE {}
         /\ FrameServesOperation
         /\ HasEnd => Quiet \/ pc[c] \in {"clearFlags", "cancelAll", "stopCamera", "awaitStopped"}

LEMMA PartsBefore ==
    ASSUME NEW c \in Clients, Only(c), Parts PROVE PartsFor(c)
BY DEF Only, Parts, PartsFor, Starting, StartsAlone, CancelProgress, QuietAtFirst, StreamOrEnd,
       EndIsQuiet, At

LEMMA PartsAfter ==
    ASSUME NEW c \in Clients, Only(c)', PartsFor(c)' PROVE Parts'
<1>1. CancelProgress'
    BY DEF Only, PartsFor, CancelProgress
<1>2. QuietAtFirst'
    BY DEF Only, PartsFor, QuietAtFirst, Starting, At
<1>3. CameraMayBeLost \/ StreamOrEnd'
    BY DEF PartsFor, StreamOrEnd, Starting, At
<1>4. crossed' \/ (StartsAlone' /\ FrameServesOperation' /\ EndIsQuiet')
    BY DEF Only, PartsFor, StartsAlone, EndIsQuiet, Starting, At
<1> QED
    BY <1>1, <1>2, <1>3, <1>4 DEF Parts

(* The steps of authenticate(), detectInteraction() and enroll(). *)
LEMMA StartSerial ==
    ASSUME Serial, TypeOK, PostedFirst, OneCall, Parts, NEW c \in Clients,
           \/ \E k \in Kinds : StartOperation(c, k)
           \/ SetFlag(c) \/ StartCamera(c) \/ CameraFailed(c) \/ PostError(c)
    PROVE  Parts'
<1> USE DEF NothingPosted, callbackVars, clientVars, frameVars, historyVars, engineVars, countVars, Goto
<1>1. pc \in [Clients -> Places] /\ kind \in [Clients -> Kinds \cup {"none"}]
    BY DEF TypeOK
<1>2. Only(c)
    BY Alone DEF Only, StartOperation, MayStart, NoCallRuns, SetFlag, StartCamera, CameraFailed, PostError
<1>3. PartsFor(c)
    BY <1>2, PartsBefore
<1>4. Only(c)'
    BY <1>1, <1>2 DEF Only, StartOperation, SetFlag, StartCamera, CameraFailed, PostError
<1> SUFFICES PartsFor(c)'
    BY <1>4, PartsAfter
<1> USE DEF PartsFor, Starting, FrameServesOperation, HasResult, Quiet
<1>5. CASE \E k \in Kinds : StartOperation(c, k)
    <2> PICK k \in Kinds : StartOperation(c, k)
        BY <1>5
    <2>1. MaxOps \in Nat /\ ops \in 0..MaxOps /\ ops < MaxOps
        BY BoundsAssumption DEF TypeOK, BoundsAssumption, StartOperation
    <2>2. ops > 0 => HasEnd
        <3>1. ops > 0 => ops \in 1..MaxOps /\ reported[ops] # {}
            BY <2>1 DEF StartOperation, MayStart
        <3> QED
            BY <3>1 DEF PostedFirst, HasEnd
    <2>3. crossed \/ Quiet
        BY <1>3, <2>1, <2>2 DEF StartOperation
    <2>4. ops' = ops + 1 /\ posted'[ops'] = {} /\ pc'[c] = "setFlag"
        BY <1>1, <2>1 DEF StartOperation, PostedFirst
    <2>5. /\ outlived' = (frame # "idle")
          /\ UNCHANGED <<frame, callback, camera, active, crossed>>
        BY DEF StartOperation
    <2>6. ops' > 0 /\ ops' # 0 /\ ~HasEnd'
        BY <2>1, <2>4 DEF HasEnd
    <2> QED
        BY <2>3, <2>4, <2>5, <2>6
<1>6. CASE SetFlag(c)
    <2>1. pc[c] = "setFlag" /\ pc'[c] = "startCamera"
        BY <1>1, <1>6 DEF SetFlag
    <2> QED
        BY <1>3, <1>6, <2>1 DEF SetFlag, HasEnd
<1>7. CASE StartCamera(c)
    <2>1. pc[c] = "startCamera" /\ pc'[c] \in {"idle", "cameraFailed"}
        BY <1>1, <1>7 DEF StartCamera
    <2>2. \/ pc'[c] = "idle" /\ camera' = "on"
          \/ pc'[c] = "cameraFailed" /\ camera' = "off" /\ kind' = kind
        BY <1>1, <1>7 DEF StartCamera
    <2> QED
        BY <1>3, <1>7, <2>1, <2>2 DEF StartCamera, HasEnd
<1>8. CASE CameraFailed(c)
    <2>1. pc[c] = "cameraFailed" /\ pc'[c] = "postError"
        BY <1>1, <1>8 DEF CameraFailed
    <2>2. crossed \/ active' = {}
        BY <1>3, <1>8, <2>1 DEF CameraFailed
    <2> QED
        BY <1>3, <1>8, <2>1, <2>2 DEF CameraFailed, HasEnd
<1>9. CASE PostError(c)
    <2>1. pc[c] = "postError" /\ pc'[c] = "idle"
        BY <1>1, <1>9 DEF PostError
    <2>2. ops \in Nat
        BY DEF TypeOK
    <2>3. HasEnd'
        BY <1>3, <1>9, <2>1, <2>2, PostCallbackEnds DEF PostError, Outcomes
    <2> QED
        BY <1>3, <1>9, <2>1, <2>3 DEF PostError
<1> QED
    BY <1>5, <1>6, <1>7, <1>8, <1>9

(* The steps of cancel() and close(), and the calls that touch no operation. *)
LEMMA CancelSerial ==
    ASSUME Serial, TypeOK, OutcomeInv, Parts, NEW c \in Clients,
           \/ CallCancel(c) \/ ReadFlags(c) \/ PostCanceled(c) \/ ClearFlags(c)
           \/ CancelAll(c) \/ CancelStop(c) \/ CancelStopped(c) \/ PostClosed(c)
           \/ OtherCall(c)
    PROVE  Parts'
<1> USE DEF NothingPosted, callbackVars, clientVars, frameVars, historyVars, engineVars, countVars, Goto
<1>1. pc \in [Clients -> Places]
    BY DEF TypeOK
<1>2. Only(c)
    BY Alone DEF OutcomeInv, Only, CallCancel, NoCallRuns, ReadFlags, PostCanceled, ClearFlags,
        CancelAll, CancelStop, CancelStopped, PostClosed, OtherCall
<1>3. PartsFor(c)
    BY <1>2, PartsBefore
<1>4. Only(c)'
    BY <1>1, <1>2 DEF Only, CallCancel, ReadFlags, PostCanceled, ClearFlags,
        CancelAll, CancelStop, CancelStopped, PostClosed, OtherCall
<1> SUFFICES PartsFor(c)'
    BY <1>4, PartsAfter
<1> USE DEF PartsFor, Starting, FrameServesOperation, HasResult, Quiet
<1>5. CASE CallCancel(c)
    <2>1. pc[c] = "idle" /\ pc'[c] = "readFlags"
        BY <1>1, <1>5 DEF CallCancel
    <2> QED
        BY <1>3, <1>5, <2>1 DEF CallCancel, HasEnd
<1>6. CASE ReadFlags(c)
    <2>1. pc[c] = "readFlags" /\ pc'[c] = IF active = {} THEN "clearFlags" ELSE "postCanceled"
        BY <1>1, <1>6 DEF ReadFlags, AfterReadFlags
    <2> QED
        BY <1>3, <1>6, <2>1 DEF ReadFlags, HasEnd
<1>7. CASE PostCanceled(c)
    <2>1. pc[c] = "postCanceled" /\ pc'[c] = "clearFlags"
        BY <1>1, <1>7 DEF PostCanceled
    <2>2. HasEnd' <=> HasEnd \/ ops > 0
        BY <1>7, PostCallbackEnds DEF PostCanceled, Outcomes
    <2> QED
        BY <1>3, <1>7, <2>1, <2>2 DEF PostCanceled
<1>8. CASE ClearFlags(c)
    <2>1. pc[c] = "clearFlags" /\ pc'[c] = "cancelAll"
        BY <1>1, <1>8 DEF ClearFlags
    <2> QED
        BY <1>3, <1>8, <2>1 DEF ClearFlags, HasEnd
<1>9. CASE CancelAll(c)
    <2>1. pc[c] = "cancelAll" /\ pc'[c] = "stopCamera"
        BY <1>1, <1>9 DEF CancelAll
    <2> QED
        BY <1>3, <1>9, <2>1 DEF CancelAll, HasEnd
<1>10. CASE CancelStop(c)
    <2>1. pc[c] = "stopCamera" /\ pc'[c] = "awaitStopped"
        BY <1>1, <1>10 DEF CancelStop
    <2>2. active = {} /\ ~At({"setFlag", "postError"})
        BY <1>2, <1>3, <2>1 DEF Only, At
    <2>3. ops > 0 => HasEnd \/ frame \in {"stop", "awaitStopped"} \/ HasResult
        BY <2>2 DEF OutcomeInv, EndOwed
    <2> QED
        BY <1>3, <1>10, <2>1, <2>3 DEF CancelStop, CancelStopsCamera, StopCamera, HasEnd
<1>11. CASE CancelStopped(c)
    <2>1. /\ pc[c] = "awaitStopped" /\ pc'[c] \in {"postClosed", "idle"}
          /\ callback = "idle"
        BY <1>1, <1>11 DEF CancelStopped, Stopped
    <2>2. Quiet /\ Quiet' /\ UNCHANGED <<active, frame, result, ops, posted, camera, outlived>>
        BY <1>3, <1>11, <2>1 DEF CancelStopped
    <2> QED
        BY <1>3, <2>1, <2>2 DEF HasEnd
<1>12. CASE PostClosed(c)
    <2>1. pc[c] = "postClosed" /\ pc'[c] = "idle"
        BY <1>1, <1>12 DEF PostClosed
    <2>2. HasEnd' <=> HasEnd
        BY <1>12, PostCallbackEnds DEF PostClosed, Outcomes
    <2> QED
        BY <1>3, <1>12, <2>1, <2>2 DEF PostClosed
<1>13. CASE OtherCall(c)
    <2>1. HasEnd' <=> HasEnd
        <3>1. CASE PostCallback("result")
            BY <1>13, <3>1, PostCallbackEnds DEF OtherCall, Outcomes
        <3>2. CASE NothingPosted
            BY <1>13, <3>2 DEF OtherCall, HasEnd
        <3> QED
            BY <1>13, <3>1, <3>2 DEF OtherCall
    <2> QED
        BY <1>3, <1>13, <2>1 DEF OtherCall
<1> QED
    BY <1>5, <1>6, <1>7, <1>8, <1>9, <1>10, <1>11, <1>12, <1>13

(* A frame, an end of the stream, or a delivery. *)
LEMMA CallbackSerial ==
    ASSUME FrameFlag, Parts, FrameArrives \/ ClaimFrame \/ CameraLost \/ Deliver
    PROVE  Parts'
<1> USE DEF NothingPosted, callbackVars, clientVars, frameVars, historyVars, engineVars, countVars
<1>1. /\ UNCHANGED <<active, pc, kind, ops, posted, crossed>>
      /\ HasEnd' <=> HasEnd
    BY DEF HasEnd, FrameArrives, ClaimFrame, CameraLost, Deliver
<1> USE DEF StartsAlone, FrameServesOperation, CancelProgress, QuietAtFirst, StreamOrEnd,
            EndIsQuiet, HasResult, Quiet, At
<1>2. CASE FrameArrives
    <2>1. camera = "on" /\ UNCHANGED <<camera, frame, result, outlived>>
        BY <1>2 DEF FrameArrives
    <2> QED
        BY <1>1, <1>2, <2>1 DEF Parts, FrameArrives
<1>3. CASE ClaimFrame
    <2>1. /\ callback = "claim" /\ callback' = "idle" /\ UNCHANGED camera
          /\ \/ frame = "idle" /\ frame' = "check"
             \/ UNCHANGED <<frame, result, outlived>>
        BY <1>3 DEF ClaimFrame, FrameFlag
    <2> QED
        BY <1>1, <2>1 DEF Parts
<1>4. CASE CameraLost
    <2>1. /\ CameraMayBeLost /\ camera = "on" /\ camera' = "off"
          /\ UNCHANGED <<frame, result, callback, outlived>>
        BY <1>4 DEF CameraLost
    <2> QED
        BY <1>1, <2>1 DEF Parts
<1>5. CASE Deliver
    BY <1>1, <1>5 DEF Parts, Deliver
<1> QED
    BY <1>2, <1>3, <1>4, <1>5

(* The frame thread. *)
LEMMA FrameSerial ==
    ASSUME TypeOK, Parts, FrameStep
    PROVE  Parts'
<1> USE DEF NothingPosted, callbackVars, clientVars, frameVars, historyVars, engineVars, countVars, FrameGoto
<1> DEFINE Acts == \/ FrameCancelled \/ FrameDispatch \/ EngineAuthenticate \/ EngineDetect
                   \/ EngineEnroll \/ ReadCount \/ WriteCount \/ EnrollVerdict
<1>1. UNCHANGED <<pc, kind, callback, ops, outlived>> /\ frame # "idle"
    BY DEF FrameStep, FrameCancelled, FrameDispatch, EngineAuthenticate, EngineDetect,
        EngineEnroll, ReadCount, WriteCount, EnrollVerdict, FrameClear, FrameStop,
        FrameStopped, FramePost, FrameDone
<1>2. ops # 0 /\ QuietAtFirst'
    BY <1>1 DEF Parts, QuietAtFirst
<1> USE DEF StartsAlone, FrameServesOperation, CancelProgress, StreamOrEnd,
            EndIsQuiet, HasResult, Quiet, At
<1>3. CASE Acts
    <2>1. /\ UNCHANGED <<active, camera, posted, crossed>>
          /\ frame \notin {"stop", "awaitStopped", "post"}
          /\ HasEnd' <=> HasEnd
        BY <1>1, <1>3 DEF HasEnd, FrameCancelled, FrameDispatch, EngineAuthenticate,
            EngineDetect, EngineEnroll, ReadCount, WriteCount, EnrollVerdict
    <2>2. frame' \notin {"stop", "awaitStopped"} /\ ~HasResult'
        <3>1. EngineCall \in {"auth", "detect", "enroll", "release"}
            BY DEF EngineCall
        <3> QED
            BY <1>3, <3>1 DEF FrameCancelled, FrameDispatch, EngineAuthenticate, EngineDetect,
                EngineEnroll, ReadCount, WriteCount, EnrollVerdict, Outcomes
    <2>3. ASSUME FrameServesOperation, ~outlived
          PROVE  /\ frame' = "auth" => active \subseteq {"auth"}
                 /\ frame' = "detect" => active \subseteq {"detect"}
                 /\ frame' \in {"enroll", "count", "increment", "verdict"} => active \subseteq {"enroll"}
                 /\ frame' = "clear" => active \subseteq {KindOf(result')}
        <3>1. CASE FrameDispatch
            <4>1. \/ "auth" \in active /\ EngineCall = "auth"
                  \/ "detect" \in active /\ EngineCall = "detect"
                  \/ "enroll" \in active /\ EngineCall = "enroll"
                  \/ EngineCall = "release"
                BY DEF EngineCall
            <4>2. \A k \in active : active \subseteq {k}
                BY <2>3
            <4> QED
                BY <3>1, <4>1, <4>2 DEF FrameDispatch
        <3>2. CASE EngineAuthenticate \/ EngineDetect
            BY <2>3, <3>2 DEF EngineAuthenticate, EngineDetect, KindOf, Outcomes
        <3>3. CASE EngineEnroll \/ ReadCount \/ WriteCount
            BY <2>3, <3>3 DEF EngineEnroll, ReadCount, WriteCount, Outcomes
        <3>4. CASE EnrollVerdict
            BY <2>3, <3>4 DEF EnrollVerdict, KindOf, Outcomes
        <3>5. CASE FrameCancelled
            BY <3>5 DEF FrameCancelled
        <3> QED
            BY <1>3, <3>1, <3>2, <3>3, <3>4, <3>5
    <2>4. CancelProgress' /\ (CameraMayBeLost \/ StreamOrEnd')
        BY <1>1, <2>1, <2>2 DEF Parts
    <2>5. crossed \/ (StartsAlone' /\ EndIsQuiet')
        BY <1>1, <2>1 DEF Parts
    <2>6. crossed \/ FrameServesOperation'
        BY <1>1, <2>1, <2>2, <2>3 DEF Parts
    <2> QED
        BY <1>2, <2>1, <2>4, <2>5, <2>6 DEF Parts
<1>4. CASE FrameClear
    <2>1. /\ active' \subseteq active /\ frame' = "stop" /\ UNCHANGED <<camera, posted, result>>
          /\ frame = "clear" /\ crossed' = (crossed \/ outlived)
          /\ HasEnd' <=> HasEnd
        BY <1>1, <1>4 DEF FrameClear, EndsOperation, HasEnd
    <2>2. crossed' \/ active' = {}
        BY <1>4, <2>1 DEF Parts, FrameClear
    <2> QED
        BY <1>1, <1>2, <2>1, <2>2 DEF Parts
<1>5. CASE FrameStop
    <2>1. /\ frame = "stop" /\ frame' = "awaitStopped" /\ camera' = "off"
          /\ UNCHANGED <<active, posted, result>> /\ crossed' = (crossed \/ outlived)
        BY <1>5 DEF FrameStop, StopCamera, EndsOperation
    <2> QED
        BY <1>1, <1>2, <2>1 DEF Parts, HasEnd
<1>6. CASE FrameStopped
    <2>1. /\ frame = "awaitStopped" /\ frame' = "post" /\ callback = "idle"
          /\ result \in Outcomes
          /\ UNCHANGED <<active, posted, result, camera, crossed>>
        BY <1>6 DEF FrameStopped, Stopped, TypeOK, Outcomes
    <2> QED
        BY <1>1, <1>2, <2>1 DEF Parts, HasEnd
<1>7. CASE FramePost
    <2>1. /\ frame = "post" /\ frame' = "release"
          /\ UNCHANGED <<active, camera, result>>
          /\ IF result \in Outcomes THEN crossed' = (crossed \/ outlived) ELSE UNCHANGED crossed
        BY <1>7 DEF FramePost, EndsOperation
    <2>2. HasEnd' <=> HasEnd \/ (ops > 0 /\ result \in Outcomes)
        BY <1>1, <1>7, PostCallbackEnds DEF FramePost
    <2> QED
        BY <1>1, <1>2, <2>1, <2>2 DEF Parts
<1>8. CASE FrameDone
    <2>1. /\ frame = "release" /\ frame' = "idle"
          /\ UNCHANGED <<active, camera, result, posted, crossed>>
        BY <1>8 DEF FrameDone
    <2> QED
        BY <1>1, <1>2, <2>1 DEF Parts, HasEnd
<1> QED
    BY <1>3, <1>4, <1>5, <1>6, <1>7, <1>8 DEF FrameStep

(* PostCallback() and Deliver keep PostedFirst: outcomes are only ever added,  *)
(* and reported from the queue.                                            *)
LEMMA PostingKeepsPosted ==
    ASSUME TypeOK, PostedFirst, NEW cb \in Outcomes \cup Others, PostCallback(cb),
           UNCHANGED <<ops, reported>>
    PROVE  PostedFirst'
<1>1. /\ MaxOps \in Nat /\ ops \in 0..MaxOps
      /\ posted \in [1..MaxOps -> SUBSET Outcomes] /\ reported \in [1..MaxOps -> SUBSET Outcomes]
      /\ queue \in Seq([cb : Outcomes \cup Others, op : 0..MaxOps])
    BY BoundsAssumption DEF TypeOK, BoundsAssumption
<1>2. /\ \A n \in 1..MaxOps : posted[n] \subseteq posted'[n]
      /\ \A n \in 1..MaxOps : n > ops => posted'[n] = posted[n]
      /\ ops > 0 /\ cb \in Outcomes => cb \in posted'[ops]
    BY <1>1 DEF PostCallback
<1>3. /\ Len(queue') = Len(queue) + 1
      /\ \A i \in 1..Len(queue) : queue'[i] = queue[i]
      /\ queue'[Len(queue) + 1] = [cb |-> cb, op |-> ops]
    BY <1>1 DEF PostCallback
<1>4. \A i \in 1..Len(queue') :
        queue'[i].op > 0 /\ queue'[i].cb \in Outcomes => queue'[i].cb \in posted'[queue'[i].op]
    <2> SUFFICES ASSUME NEW i \in 1..Len(queue'), queue'[i].op > 0, queue'[i].cb \in Outcomes
                 PROVE  queue'[i].cb \in posted'[queue'[i].op]
        OBVIOUS
    <2>1. CASE i = Len(queue) + 1
        BY <1>2, <1>3, <2>1
    <2>2. CASE i # Len(queue) + 1
        <3>1. i \in 1..Len(queue)
            BY <1>1, <1>3, <2>2
        <3> DEFINE Callbacks == [cb : Outcomes \cup Others, op : 0..MaxOps]
        <3>3. queue[i] \in Callbacks
            <4> HIDE DEF Callbacks
            <4>1. queue \in Seq(Callbacks)
                BY <1>1 DEF Callbacks
            <4> QED
                BY <3>1, <4>1, ElementOfSeq
        <3>2. queue[i].op \in 1..MaxOps /\ queue[i].cb \in posted[queue[i].op]
            BY <1>3, <3>1, <3>3 DEF PostedFirst
        <3> QED
            BY <1>2, <1>3, <3>1, <3>2
    <2> QED
        BY <2>1, <2>2
<1> QED
    BY <1>1, <1>2, <1>4 DEF PostedFirst

LEMMA DeliveryKeepsPosted ==
    ASSUME TypeOK, PostedFirst, Deliver
    PROVE  PostedFirst'
<1> DEFINE Callbacks == [cb : Outcomes \cup Others, op : 0..MaxOps]
<1>1. /\ queue \in Seq(Callbacks) /\ queue # <<>> /\ queue' = Tail(queue)
      /\ UNCHANGED <<posted, ops>>
    BY DEF TypeOK, Deliver, callbackVars, countVars
<1>2. /\ Len(queue) \in Nat \ {0} /\ Len(queue') = Len(queue) - 1
      /\ \A i \in 1..Len(queue') : queue'[i] = queue[i + 1]
      /\ Head(queue) = queue[1] /\ queue[1] \in Callbacks
    <2> HIDE DEF Callbacks
    <2> QED
        BY <1>1, HeadTailProperties, EmptySeq, LenProperties, ElementOfSeq
<1>3. \A i \in 1..Len(queue') :
        queue'[i].op > 0 /\ queue'[i].cb \in Outcomes => queue'[i].cb \in posted'[queue'[i].op]
    <2> HIDE DEF Callbacks
    <2> QED
        BY <1>1, <1>2 DEF PostedFirst
<1>4. \A n \in Ops : reported'[n] \subseteq posted[n]
    <2>1. reported \in [Ops -> SUBSET Outcomes] /\ 1 \in 1..Len(queue)
        BY <1>2 DEF TypeOK
    <2>2. CASE queue[1].op > 0 /\ queue[1].cb \in Outcomes
        <3>1. queue[1].op \in Ops /\ queue[1].cb \in posted[queue[1].op]
            BY <1>2, <2>1, <2>2 DEF PostedFirst
        <3>2. reported' = [reported EXCEPT ![queue[1].op] = @ \cup {queue[1].cb}]
            BY <1>2, <2>2 DEF Deliver
        <3> QED
            BY <2>1, <3>1, <3>2 DEF PostedFirst
    <2>3. CASE ~(queue[1].op > 0 /\ queue[1].cb \in Outcomes)
        BY <1>2, <2>3 DEF PostedFirst, Deliver
    <2> QED
        BY <2>2, <2>3
<1> QED
    BY <1>1, <1>3, <1>4 DEF PostedFirst

LEMMA PostedFirstKept ==
    ASSUME TypeOK, PostedFirst, Next
    PROVE  PostedFirst'
<1> USE DEF NothingPosted, callbackVars, countVars
<1>1. CASE Deliver
    BY <1>1, DeliveryKeepsPosted
<1>2. ASSUME NEW c \in Clients, NEW k \in Kinds, StartOperation(c, k)
      PROVE  PostedFirst'
    <2>1. UNCHANGED <<queue, posted, reported>> /\ ops' = ops + 1 /\ ops \in Nat
        BY <1>2 DEF StartOperation, TypeOK
    <2>2. \A n \in Ops : n > ops' => n > ops
        BY <2>1
    <2> QED
        BY <2>1, <2>2 DEF PostedFirst
<1>3. ASSUME NEW c \in Clients, PostError(c) \/ PostCanceled(c) \/ PostClosed(c) \/ OtherCall(c)
      PROVE  PostedFirst'
    BY <1>3, PostingKeepsPosted DEF PostError, PostCanceled, PostClosed, OtherCall, Outcomes, Others,
        PostedFirst
<1>4. CASE FramePost
    <2>1. result \in Outcomes \cup Others
        BY <1>4 DEF FramePost, TypeOK
    <2> QED
        BY <1>4, <2>1, PostingKeepsPosted DEF FramePost
<1>5. ASSUME UNCHANGED <<queue, posted, reported, ops>>
      PROVE  PostedFirst'
    BY <1>5 DEF PostedFirst
<1>6. ASSUME NEW c \in Clients, CallCancel(c) \/ ClientStep(c)
      PROVE  PostedFirst'
    BY <1>3, <1>5, <1>6 DEF CallCancel, ClientStep, SetFlag, StartCamera, CameraFailed,
        ReadFlags, ClearFlags, CancelAll, CancelStop, CancelStopped
<1>7. CASE FrameArrives \/ ClaimFrame \/ CameraLost
    BY <1>5, <1>7 DEF FrameArrives, ClaimFrame, CameraLost
<1>8. CASE FrameStep
    BY <1>4, <1>5, <1>8 DEF FrameStep, FrameCancelled, FrameDispatch, EngineAuthenticate,
        EngineDetect, EngineEnroll, ReadCount, WriteCount, EnrollVerdict, FrameClear, FrameStop,
        FrameStopped, FrameDone
<1> QED
    BY <1>1, <1>2, <1>3, <1>6, <1>7, <1>8 DEF Next

(* The invariant of a framework that waits for each outcome. *)
THEOREM SerialInvHolds == ASSUME Serial PROVE Spec => []SerialInv
<1>1. Init => Parts /\ PostedFirst
    BY BoundsAssumption DEF Init, Parts, PostedFirst, StartsAlone, FrameServesOperation,
        CancelProgress, QuietAtFirst, StreamOrEnd, EndIsQuiet, HasResult, HasEnd, Quiet, At,
        BoundsAssumption
<1>2. TypeOK /\ FrameFlag /\ OutcomeInv /\ Parts /\ PostedFirst /\ [Next]_vars
        => (Parts /\ PostedFirst)'
    <2> SUFFICES ASSUME TypeOK, FrameFlag, OutcomeInv, Parts, PostedFirst, [Next]_vars
                 PROVE  Parts' /\ PostedFirst'
        OBVIOUS
    <2>1. CASE UNCHANGED vars
        BY <2>1 DEF vars, callbackVars, clientVars, frameVars, historyVars, engineVars, countVars, Parts,
            PostedFirst, StartsAlone, FrameServesOperation, CancelProgress, QuietAtFirst,
            StreamOrEnd, EndIsQuiet, HasResult, HasEnd, Quiet, At
    <2>2. CASE Next
        <3>1. OneCall
            BY DEF OutcomeInv
        <3>2. Parts'
            BY <2>2, <3>1, StartSerial, CancelSerial, CallbackSerial, FrameSerial DEF Next, ClientStep
        <3> QED
            BY <2>2, <3>2, PostedFirstKept
    <2> QED
        BY <2>1, <2>2
<1>3. TypeOK /\ FrameFlag /\ OutcomeInv /\ Parts /\ PostedFirst => SerialInv
    BY DEF Parts, SerialInv
<1>4. CallsInTurn
    BY DEF CallsInTurn
<1>5. Spec => []OutcomeInv
    BY <1>4, OutcomeInvHolds
<1> QED
    BY <1>1, <1>2, <1>3, <1>5, TypeCorrect, FrameFlagHolds, PTL DEF Spec

(* While the device keeps streaming, an operation the framework waits for has    *)
(* its stream, and one that has reported its end has left nothing on, except    *)
(* where a frame thread of an earlier operation has ended a later one.         *)
THEOREM StreamMatchesOperationHolds ==
    ASSUME Serial, ~CameraMayBeLost PROVE Spec => []StreamMatchesOperation
<1>1. SerialInv => StreamMatchesOperation
    <2> SUFFICES ASSUME SerialInv, Settled PROVE StreamMatchesOperation
        BY DEF StreamMatchesOperation
    <2>1. \A places : "idle" \notin places => ~At(places)
        BY DEF Settled, At
    <2>2. CASE HasEnd
        BY <2>1, <2>2 DEF SerialInv, EndIsQuiet, Quiet, StreamMatchesOperation
    <2>3. CASE ops = 0
        BY <2>3 DEF SerialInv, QuietAtFirst, Quiet, StreamMatchesOperation
    <2>4. CASE ~HasEnd /\ ops # 0
        <3>1. ops > 0 /\ camera \in {"off", "on"} /\ ~HasResult /\ frame = "idle"
            BY <2>4 DEF SerialInv, TypeOK, Settled, HasResult
        <3>2. camera # "off" /\ active # {}
            BY <2>1, <2>4, <3>1 DEF SerialInv, OutcomeInv, EndOwed, StreamOrEnd
        <3> QED
            BY <2>4, <3>1, <3>2 DEF StreamMatchesOperation
    <2> QED
        BY <2>2, <2>3, <2>4
<1> QED
    BY <1>1, SerialInvHolds, PTL
=============================================================================
