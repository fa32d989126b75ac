------------------------- MODULE CameraPromiseProofs -------------------------
(***************************************************************************)
(* Camera2NdkBackend keeps CameraPromise: every step of the backend is a    *)
(* step of the promise or changes nothing a caller can tell, for any number *)
(* of callers and of starts.                                               *)
(***************************************************************************)
EXTENDS CameraBackendProofs

SomeDelivering == \E g \in Gens : Delivering(g)
Step == [Promise!Next]_(Promise!vars)

(* A thread that moves within the frame callback, or outside it, changes    *)
(* nothing about the delivery.                                             *)
LEMMA DeliveryKept ==
    ASSUME IInv, NEW t \in Threads, NEW l, pc' = [pc EXCEPT ![t] = l],
           (\E g \in Gens : t = Listener(g)) => (pc[t] \in InFrameCallback <=> l \in InFrameCallback)
    PROVE  SomeDelivering' = SomeDelivering
  <1>1. \A g \in Gens : Delivering(g)' <=> Delivering(g)
    BY ThreadNames DEF IInv, TypeOK, Delivering, InFrameCallback
  <1> QED BY <1>1 DEF SomeDelivering

(* The thread that mCallbackThreadId names is in the frame callback's guard. *)
LEMMA CallbackThreadKept ==
    ASSUME IInv, CallbackThread, [Next]_vars PROVE CallbackThread'
  <1>1. CASE WarmUpAtHalStart \/ UNCHANGED vars
    BY <1>1 DEF WarmUpAtHalStart, vars, threadVars, callbackVars, CallbackThread
  <1>2. ASSUME NEW t \in Threads, Proceed(t) PROVE CallbackThread'
    <2>1. UNCHANGED <<mInCallback, mCallbackThreadId>>
      BY <1>2 DEF Proceed, StartWait, StartAlready, StartBody, StopNothing, StopJoin, StopJoined,
         StopBody, StopDeferred, StopDrained, TeardownClose, TeardownWaited, TeardownFree,
         TeardownDone, callbackVars
    <2> SUFFICES ASSUME mInCallback PROVE pc'[mCallbackThreadId] \notin {"idle", "checked"}
      BY <2>1 DEF CallbackThread
    <2>2. PICK g \in Gens : mCallbackThreadId = Listener(g)
      BY DEF IInv, TypeOK
    <2>3. /\ Listener(g) \in Threads /\ Listener(g) \notin Clients
          /\ \A h \in Gens : Listener(g) # Deferred(h)
      BY ThreadNames
    <2>4. /\ pc \in [Threads -> PCs] /\ pc[Listener(g)] \notin {"idle", "checked"}
          /\ call[t] = "start" => t \in Clients
      BY <2>2 DEF IInv, TypeOK, PhasesOK, CallbackThread
    <2>5. CASE StopDeferred(t)
      <3>1. /\ pc' = [pc EXCEPT ![t] = Resume(t), ![Deferred(gen)] = "drain"]
            /\ t = Listener(g)
        BY <2>2, <2>5 DEF StopDeferred
      <3>2. Resume(t) = "inCallback"
        BY <3>1 DEF Resume
      <3>3. pc'[Listener(g)] \in {"inCallback", "drain"}
        BY <2>3, <2>4, <3>1, <3>2
      <3> QED BY <2>2, <3>3
    <2>6. CASE ~StopDeferred(t) /\ t = Listener(g)
      <3>1. Resume(t) = "inCallback"
        BY <2>6 DEF Resume
      <3>2. \E l \in PCs \ {"idle", "checked"} : pc' = [pc EXCEPT ![t] = l] \/ pc' = pc
        <4>1. ~StartWait(t) /\ ~StartBody(t) /\ ~StartAlready(t)
          BY <2>3, <2>6 DEF StartWait, MayStart, StartBody, StartReady, StartAlready
        <4>2. CASE StopNothing(t) \/ StopJoin(t) \/ StopJoined(t) \/ StopBody(t)
          BY <3>1, <4>2 DEF StopNothing, StopJoin, StopJoined, StopBody, Return, Goto, PCs
        <4>3. CASE StopDrained(t) \/ TeardownClose(t) \/ TeardownWaited(t) \/ TeardownFree(t)
                   \/ TeardownDone(t)
          BY <3>1, <4>3 DEF StopDrained, TakeMembers, TeardownClose, TeardownWaited,
             TeardownFree, TeardownDone, Return, Goto, PCs
        <4> QED BY <1>2, <2>6, <4>1, <4>2, <4>3 DEF Proceed
      <3> QED BY <2>2, <2>3, <2>4, <2>6, <3>2
    <2>7. CASE ~StopDeferred(t) /\ t # Listener(g)
      <3>1. \E l : pc' = [pc EXCEPT ![t] = l] \/ pc' = pc
        BY <1>2, <2>7
           DEF Proceed, StartWait, StartAlready, StartBody, StopNothing,
               StopJoin, StopJoined, StopBody, StopDrained, TakeMembers, TeardownClose,
               TeardownWaited, TeardownFree, TeardownDone, Return, Goto
      <3> QED BY <2>2, <2>3, <2>4, <2>7, <3>1
    <2> QED BY <2>5, <2>6, <2>7
  <1>3. ASSUME NEW g \in Gens, ImageAvailable(g) \/ ListenerStep(g) PROVE CallbackThread'
    <2>1. Listener(g) \in Threads /\ \A h \in Gens : Listener(h) = Listener(g) => h = g
      BY ThreadNames
    <2>2. PICK l \in PCs : pc' = [pc EXCEPT ![Listener(g)] = l]
      BY <1>3 DEF ImageAvailable, ListenerStep, GuardEnter, AcquireImage, PackVerdicts,
         DeliverFrame, AfterSecondCheck, CallbackEnds, GuardExit, Goto, PCs
    <2>3. CASE ImageAvailable(g)
      BY <2>1, <2>3 DEF ImageAvailable, Goto, CallbackThread, callbackVars, IInv, TypeOK
    <2>4. CASE GuardEnter(g)
      BY <2>1, <2>4 DEF GuardEnter, Goto, CallbackThread, IInv, TypeOK
    <2>5. CASE AcquireImage(g) \/ DeliverFrame(g) \/ CallbackEnds(g)
      <3>1. /\ UNCHANGED <<mInCallback, mCallbackThreadId>>
            /\ \E m \in {"deliver", "guardExit", "inCallback", "stop"} :
                  pc' = [pc EXCEPT ![Listener(g)] = m]
        BY <2>5 DEF AcquireImage, PackVerdicts, DeliverFrame, AfterSecondCheck, CallbackEnds,
           Goto, callbackVars
      <3> QED BY <2>1, <3>1 DEF CallbackThread, IInv, TypeOK
    <2>6. CASE GuardExit(g)
      BY <2>6 DEF GuardExit, LeaveCallback, CallbackThread
    <2> QED BY <1>3, <2>3, <2>4, <2>5, <2>6 DEF ListenerStep
  <1>4. ASSUME NEW g \in Gens, DeviceGone(g) \/ OnSessionClosed(g) PROVE CallbackThread'
    <2>1. PICK t \in {DeviceThread(g), SessionThread(g)}, l \in {"stop", "idle"} :
              pc' = [pc EXCEPT ![t] = l] /\ UNCHANGED <<mInCallback, mCallbackThreadId>>
      BY <1>4 DEF DeviceGone, OnSessionClosed, Goto, callbackVars
    <2>2. \A h \in Gens : t # Listener(h) /\ Listener(h) \in Threads
      BY ThreadNames
    <2> QED BY <2>1, <2>2 DEF CallbackThread, IInv, TypeOK
  <1> QED BY <1>1, <1>2, <1>3, <1>4 DEF Next

LEMMA Stutter ==
    ASSUME SomeDelivering' = SomeDelivering, UNCHANGED <<mIsRunning, mIsStopping>>
    PROVE  Step
BY DEF Step, Promise!vars, SomeDelivering

(* Only the listener of the current generation delivers. *)
LEMMA OneDelivers ==
    ASSUME IInv, NEW g \in Gens, pc[Listener(g)] # "idle"
    PROVE  \A h \in Gens : Delivering(h) => h = g
BY DEF IInv, ActiveListener, Delivering

LEMMA StartRefines ==
    ASSUME IInv, NEW t \in Threads, StartBody(t) PROVE Step
  <1>1. /\ ~mIsRunning /\ ~mIsStopping /\ mIsStopping' = mIsStopping
        /\ t \in Clients /\ mIsRunning' \in {TRUE, mIsRunning}
    BY DEF StartBody, StartReady, MayStart
  <1>2. SomeDelivering' = SomeDelivering
    <2>1. PICK l \in {"idle", "close"} : pc' = [pc EXCEPT ![t] = l]
      BY DEF StartBody, TakeMembers, Goto
    <2>2. ~\E g \in Gens : t = Listener(g)
      BY <1>1, ThreadNames
    <2> QED BY <2>1, <2>2, DeliveryKept
  <1>3. CASE mIsRunning' = TRUE
    BY <1>1, <1>2, <1>3 DEF Step, Promise!Next, Promise!Start, SomeDelivering
  <1>4. CASE mIsRunning' = mIsRunning
    BY <1>1, <1>2, <1>4, Stutter
  <1> QED BY <1>1, <1>3, <1>4

LEMMA StopRefines ==
    ASSUME IInv, CallbackThread, NEW t \in Threads, StopBody(t) \/ StopDeferred(t) PROVE Step
  <1>1. Stoppable /\ mIsRunning' = FALSE /\ mIsStopping' = TRUE
    BY DEF StopBody, StopDeferred, BeginStop
  <1>2. mIsRunning
    BY <1>1 DEF Stoppable, IInv, MembersOwned, OneStopper, PhasesOK
  <1>3. SomeDelivering' = SomeDelivering
    <2>1. CASE StopBody(t)
      <3>1. /\ pc[t] = "stop" \/ (t \in Clients /\ pc[t] = "idle")
            /\ pc' = [pc EXCEPT ![t] = "drain"]
            /\ ~(mInCallback /\ mCallbackThreadId = t)
        BY <2>1 DEF StopBody, Enters, Goto
      <3>2. ASSUME NEW g \in Gens, t = Listener(g) PROVE FALSE
        <4>1. pc[Listener(g)] = "stop"
          BY <3>1, <3>2, ThreadNames
        <4>2. mInCallback /\ g = gen
          BY <4>1 DEF IInv, CallbackGuarded, ActiveListener
        <4>3. PICK h \in Gens : mCallbackThreadId = Listener(h)
          BY <4>2 DEF IInv, TypeOK
        <4>4. h = gen
          BY <4>2, <4>3 DEF CallbackThread, IInv, ActiveListener
        <4> QED BY <3>1, <3>2, <4>2, <4>3, <4>4
      <3> QED BY <3>1, <3>2, DeliveryKept
    <2>2. CASE StopDeferred(t)
      <3>1. PICK g \in Gens : t = Listener(g)
        BY <2>2 DEF StopDeferred, IInv, TypeOK
      <3>2. /\ pc[t] = "stop" /\ Resume(t) = "inCallback" /\ gen \in Gens
            /\ pc' = [pc EXCEPT ![t] = Resume(t), ![Deferred(gen)] = "drain"]
        BY <2>2, <3>1 DEF StopDeferred, Resume, IInv, ActiveListener
      <3>3. \A h \in Gens : pc'[Listener(h)] = IF h = g THEN "inCallback" ELSE pc[Listener(h)]
        BY <3>1, <3>2, ThreadNames DEF IInv, TypeOK
      <3>4. \A h \in Gens : Delivering(h)' <=> Delivering(h)
        BY <3>1, <3>2, <3>3 DEF Delivering
      <3> QED BY <3>4 DEF SomeDelivering
    <2> QED BY <2>1, <2>2
  <1> QED BY <1>1, <1>2, <1>3 DEF Step, Promise!Next, Promise!BeginStop, SomeDelivering

LEMMA DoneRefines ==
    ASSUME IInv, NEW t \in Threads, TeardownDone(t) PROVE Step
  <1>1. /\ pc[t] = "free" /\ local[t] = {} /\ mIsRunning' = mIsRunning
        /\ mIsStopping' = IF call[t] = "stop" THEN FALSE ELSE mIsStopping
        /\ pc' = [pc EXCEPT ![t] = Resume(t)]
    BY DEF TeardownDone, Return, Goto
  <1>2. CASE call[t] = "start"
    <2>1. t \in Clients
      BY <1>2 DEF IInv, PhasesOK
    <2>2. SomeDelivering' = SomeDelivering
      BY <1>1, <2>1, ThreadNames, DeliveryKept
    <2> QED BY <1>1, <1>2, <2>2, Stutter
  <1>3. CASE call[t] = "stop"
    <2>1. mIsStopping /\ ~mIsRunning /\ \A u \in Threads : call[u] = "stop" => u = t
      BY <1>3 DEF IInv, OneStopper
    <2>2. member = {}
      BY <1>1, <2>1 DEF IInv, MembersOwned, PhasesOK
    <2>3. \A g \in Gens : pc[Listener(g)] = "idle"
      BY <1>1, <2>1, <2>2 DEF IInv, ActiveListener
    <2>4. \A g \in Gens : pc'[Listener(g)] = "idle"
      BY <1>1, <2>3, ThreadNames DEF IInv, TypeOK
    <2>5. ~SomeDelivering /\ ~SomeDelivering'
      BY <2>3, <2>4 DEF SomeDelivering, Delivering
    <2> QED BY <1>1, <1>3, <2>1, <2>5 DEF Step, Promise!Next, Promise!EndStop, SomeDelivering
  <1>4. call[t] \in {"start", "stop"}
    BY <1>1 DEF IInv, TypeOK, PhasesOK, TeardownPCs
  <1> QED BY <1>2, <1>3, <1>4

LEMMA MovesRefine ==
    ASSUME IInv, NEW t \in Threads,
           \/ StartWait(t) \/ StartAlready(t) \/ StopNothing(t) \/ StopJoin(t) \/ StopJoined(t)
           \/ StopDrained(t) \/ TeardownClose(t) \/ TeardownWaited(t) \/ TeardownFree(t)
    PROVE  Step
  <1>1. UNCHANGED <<mIsRunning, mIsStopping>>
    BY DEF StartWait, StartAlready, StopNothing, StopJoin, StopJoined, StopDrained,
           TeardownClose, TeardownWaited, TeardownFree, flagVars
  <1>2. SomeDelivering' = SomeDelivering
    <2>1. CASE StartWait(t) \/ StartAlready(t)
      <3>1. PICK l \in {"idle", "start"} :
                pc' = [pc EXCEPT ![t] = l] /\ pc[t] \in {"idle", "start"}
        BY <2>1 DEF StartWait, StartAlready, Goto
      <3> QED BY <3>1, DeliveryKept DEF InFrameCallback
    <2>2. CASE StopNothing(t) \/ StopJoin(t) \/ StopJoined(t)
      <3>1. PICK l \in {"idle", "inCallback", "stopWait"} :
                /\ pc' = [pc EXCEPT ![t] = l]
                /\ (\E g \in Gens : t = Listener(g)) => l # "idle"
                /\ pc[t] \in {"stop", "stopWait"} \/ t \in Clients
        BY <2>2 DEF StopNothing, StopJoin, StopJoined, Enters, Return, Resume, Goto
      <3>2. (\E g \in Gens : t = Listener(g)) =>
                pc[t] \in InFrameCallback /\ l \in InFrameCallback
        BY <3>1, ThreadNames DEF InFrameCallback
      <3> QED BY <3>1, <3>2, DeliveryKept
    <2>3. CASE StopDrained(t) \/ TeardownClose(t) \/ TeardownWaited(t)
      <3>1. PICK l \in TeardownPCs : pc' = [pc EXCEPT ![t] = l]
        BY <2>3 DEF StopDrained, TakeMembers, TeardownClose, TeardownWaited, Goto, TeardownPCs
      <3>2. pc[t] \notin InFrameCallback /\ l \notin InFrameCallback
        BY <2>3, <3>1 DEF StopDrained, Drained, TeardownClose, TeardownWaited, TeardownPCs,
                          InFrameCallback
      <3> QED BY <3>1, <3>2, DeliveryKept
    <2>4. CASE TeardownFree(t)
      BY <2>4 DEF TeardownFree, SomeDelivering, Delivering
    <2> QED BY <2>1, <2>2, <2>3, <2>4
  <1> QED BY <1>1, <1>2, Stutter

LEMMA ListenerRefines ==
    ASSUME IInv, NEW g \in Gens, ImageAvailable(g) \/ ListenerStep(g) PROVE Step
  <1> USE DEF InFrameCallback
  <1>1. UNCHANGED <<mIsRunning, mIsStopping>>
    BY DEF ImageAvailable, ListenerStep, GuardEnter, AcquireImage, DeliverFrame, CallbackEnds,
           GuardExit, flagVars
  <1>2. Listener(g) \in Threads
    BY ThreadNames
  <1>3. CASE ImageAvailable(g) \/ GuardEnter(g) \/ AcquireImage(g) \/ GuardExit(g)
    <2>1. PICK l \in {"checked", "acquire", "deliver", "guardExit", "idle"} :
              pc' = [pc EXCEPT ![Listener(g)] = l]
      BY <1>3 DEF ImageAvailable, GuardEnter, AcquireImage, PackVerdicts, GuardExit, Goto
    <2>2. pc[Listener(g)] \notin InFrameCallback
      BY <1>3 DEF ImageAvailable, GuardEnter, AcquireImage, GuardExit
    <2>3. SomeDelivering' = SomeDelivering
      BY <1>2, <2>1, <2>2, DeliveryKept
    <2> QED BY <1>1, <2>3, Stutter
  <1>4. CASE DeliverFrame(g)
    <2>1. /\ pc[Listener(g)] = "deliver"
          /\ pc' = [pc EXCEPT ![Listener(g)] = IF mIsRunning THEN "inCallback" ELSE "guardExit"]
      BY <1>4 DEF DeliverFrame, AfterSecondCheck, Goto
    <2>2. CASE mIsRunning
      <3>1. ~SomeDelivering
        BY <2>1, OneDelivers DEF SomeDelivering, Delivering
      <3>2. SomeDelivering'
        <4>1. pc'[Listener(g)] = "inCallback"
          BY <1>2, <2>1, <2>2 DEF IInv, TypeOK
        <4> QED BY <4>1 DEF SomeDelivering, Delivering
      <3> QED BY <1>1, <2>2, <3>1, <3>2 DEF Step, Promise!Next, Promise!Deliver, SomeDelivering
    <2>3. CASE ~mIsRunning
      <3>1. SomeDelivering' = SomeDelivering
        BY <1>2, <2>1, <2>3, DeliveryKept
      <3> QED BY <1>1, <3>1, Stutter
    <2> QED BY <2>2, <2>3
  <1>5. CASE CallbackEnds(g)
    <2>1. /\ pc[Listener(g)] = "inCallback"
          /\ \E l \in {"guardExit", "stop"} : pc' = [pc EXCEPT ![Listener(g)] = l]
      BY <1>5 DEF CallbackEnds, Goto
    <2>2. CASE pc' = [pc EXCEPT ![Listener(g)] = "guardExit"]
      <3>1. SomeDelivering
        BY <2>1 DEF SomeDelivering, Delivering
      <3>2. ~SomeDelivering'
        <4>1. \A h \in Gens : h # g => ~Delivering(h)
          BY <2>1, OneDelivers
        <4>2. \A h \in Gens :
                  pc'[Listener(h)] = IF h = g THEN "guardExit" ELSE pc[Listener(h)]
          BY <2>2, ThreadNames DEF IInv, TypeOK
        <4> QED BY <4>1, <4>2 DEF SomeDelivering, Delivering
      <3> QED BY <1>1, <3>1, <3>2 DEF Step, Promise!Next, Promise!CallbackDone, SomeDelivering
    <2>3. CASE pc' = [pc EXCEPT ![Listener(g)] = "stop"]
      <3>1. SomeDelivering' = SomeDelivering
        BY <1>2, <2>1, <2>3, DeliveryKept
      <3> QED BY <1>1, <3>1, Stutter
    <2> QED BY <2>1, <2>2, <2>3
  <1> QED BY <1>3, <1>4, <1>5 DEF ListenerStep

LEMMA EventRefines ==
    ASSUME IInv, NEW g \in Gens, DeviceGone(g) \/ OnSessionClosed(g) PROVE Step
  <1>1. UNCHANGED <<mIsRunning, mIsStopping>>
    BY DEF DeviceGone, OnSessionClosed, flagVars
  <1>2. PICK t \in {DeviceThread(g), SessionThread(g)}, l \in {"stop", "idle"} : pc' = [pc EXCEPT ![t] = l]
    BY DEF DeviceGone, OnSessionClosed, Goto
  <1>3. t \in Threads /\ \A h \in Gens : t # Listener(h)
    BY ThreadNames
  <1>4. SomeDelivering' = SomeDelivering
    BY <1>2, <1>3, DeliveryKept
  <1> QED BY <1>1, <1>4, Stutter

(* Every behaviour of the backend, with any number of callers and of starts,  *)
(* is one of the promise: one delivery at a time, only while the stream is    *)
(* on, and no stop that ends while the frame callback executes.            *)
THEOREM PromiseKept == Spec => Promise!Safe
  <1>1. Init => Promise!Init
    BY ThreadNames DEF Init, Promise!Init, Delivering
  <1>2. IInv /\ CallbackThread /\ [Next]_vars => [Promise!Next]_(Promise!vars)
    <2> SUFFICES ASSUME IInv, CallbackThread, [Next]_vars PROVE Step
      BY DEF Step
    <2>1. CASE WarmUpAtHalStart \/ UNCHANGED vars
      <3>1. UNCHANGED <<pc, mIsRunning, mIsStopping>>
        BY <2>1 DEF WarmUpAtHalStart, vars, threadVars, flagVars
      <3>2. SomeDelivering' = SomeDelivering
        BY <3>1 DEF SomeDelivering, Delivering
      <3> QED BY <3>1, <3>2, Stutter
    <2>2. ASSUME NEW t \in Threads, Proceed(t) PROVE Step
      BY <2>2, MovesRefine, StartRefines, StopRefines, DoneRefines DEF Proceed
    <2>3. ASSUME NEW g \in Gens,
                 ImageAvailable(g) \/ ListenerStep(g) \/ DeviceGone(g) \/ OnSessionClosed(g)
          PROVE  Step
      BY <2>3, ListenerRefines, EventRefines
    <2> QED BY <2>1, <2>2, <2>3 DEF Next
  <1>3. Init => CallbackThread
    BY DEF Init, CallbackThread
  <1> QED BY <1>1, <1>2, <1>3, CallbackThreadKept, Invariance, PTL DEF Spec, Promise!Safe

-----------------------------------------------------------------------------
(* No wait of a teardown() is in vain.                                      *)

LEMMA SessionNames ==
    \A g, h \in Gens : /\ SessionThread(g) = SessionThread(h) => g = h
                       /\ SessionThread(g) # DeviceThread(h)
                       /\ SessionThread(g) # Listener(h)
                       /\ SessionThread(g) \notin Clients
BY ClientsAssumption DEF SessionThread, DeviceThread, Listener

(* stop() on the callback thread finds itself in mCallbackThreadId. *)
LEMMA CallbackIsMine ==
    ASSUME IInv, CallbackThread, NEW g \in Gens, pc[Listener(g)] = "stop"
    PROVE  mInCallback /\ mCallbackThreadId = Listener(g)
  <1>1. mInCallback /\ g = gen
    BY DEF IInv, CallbackGuarded, ActiveListener
  <1>2. PICK h \in Gens : mCallbackThreadId = Listener(h)
    BY <1>1 DEF IInv, TypeOK
  <1>3. h = gen
    BY <1>1, <1>2 DEF CallbackThread, IInv, ActiveListener
  <1> QED BY <1>1, <1>2, <1>3

(* Where the steps of a call take a listener and a session thread. *)
LEMMA PlacesOfCalls ==
    ASSUME IInv, CallbackThread, Places, NEW t \in Threads, Proceed(t), NEW g \in Gens
    PROVE  /\ pc'[Listener(g)] \in ListenerMoves \cup {"idle", "stopWait"}
           /\ pc'[SessionThread(g)] # "idle" => pc[SessionThread(g)] # "idle"
  <1>1. /\ Listener(g) \in Threads /\ SessionThread(g) \in Threads
        /\ Listener(g) \notin Clients /\ SessionThread(g) \notin Clients
        /\ Listener(g) # Deferred(gen) /\ SessionThread(g) # Deferred(gen)
        /\ pc \in [Threads -> PCs]
    BY ThreadNames, SessionNames DEF Listener, SessionThread, Deferred, IInv, TypeOK
  <1>2. \A u \in {Listener(g), SessionThread(g)} : u # t => pc'[u] = pc[u]
    <2>1. CASE StopDeferred(t)
      BY <1>1, <2>1 DEF StopDeferred
    <2>2. CASE ~StopDeferred(t)
      <3>1. \E l : pc' = [pc EXCEPT ![t] = l] \/ pc' = pc
        BY <2>2 DEF Proceed, StartWait, StartAlready, StartBody, StopNothing,
           StopJoin, StopJoined, StopBody, StopDrained, TakeMembers, TeardownClose,
           TeardownWaited, TeardownFree, TeardownDone, Return, Goto
      <3> QED BY <1>1, <3>1
    <2> QED BY <2>1, <2>2
  <1>3. t \notin Clients => pc[t] # "idle" /\ ~StartWait(t) /\ ~StartAlready(t) /\ ~StartBody(t)
    BY DEF Proceed, StartWait, StartAlready, StartBody, StartReady, MayStart, StopNothing,
       StopJoin, StopJoined, StopBody, StopDeferred, StopDrained, Drained, TeardownClose,
       TeardownWaited, TeardownFree, TeardownDone, Enters
  <1>4. t = Listener(g) => pc'[t] \in ListenerMoves \cup {"idle", "stopWait"}
    <2> SUFFICES ASSUME t = Listener(g)
                 PROVE  pc'[t] \in ListenerMoves \cup {"idle", "stopWait"}
      OBVIOUS
    <2>1. Resume(t) = "inCallback"
      BY DEF Resume
    <2>2. pc[t] \in ListenerMoves \cup {"idle", "stopWait"} /\ t \notin Clients
      BY <1>1 DEF Places
    <2>3. ~StopBody(t)
      BY <2>2, CallbackIsMine DEF StopBody, Enters
    <2>4. ~StopDrained(t) /\ ~TeardownClose(t) /\ ~TeardownWaited(t) /\ ~TeardownFree(t)
          /\ ~TeardownDone(t)
      BY <2>2 DEF ListenerMoves, StopDrained, Drained, TeardownClose, TeardownWaited,
         TeardownFree, TeardownDone
    <2>5. CASE StopDeferred(t)
      BY <1>1, <2>1, <2>5 DEF StopDeferred, ListenerMoves
    <2>6. CASE StopNothing(t) \/ StopJoin(t) \/ StopJoined(t)
      <3>1. PICK l \in {"inCallback", "stopWait"} : pc' = [pc EXCEPT ![t] = l]
        BY <2>1, <2>6 DEF StopNothing, StopJoin, StopJoined, Return, Goto
      <3> QED BY <1>1, <3>1 DEF ListenerMoves
    <2> QED BY <1>1, <1>3, <2>3, <2>4, <2>5, <2>6 DEF Proceed
  <1>5. t # Listener(g) => pc'[Listener(g)] \in ListenerMoves \cup {"idle", "stopWait"}
    BY <1>2 DEF Places
  <1> QED BY <1>1, <1>2, <1>3, <1>4, <1>5

(* What the steps of a call do to the sessions. *)
LEMMA SessionsOfCalls ==
    ASSUME IInv, NEW t \in Threads, Proceed(t), NEW g \in Gens
    PROVE  /\ gen <= gen'
           /\ sessState[g] = "closed" /\ g <= gen => sessState'[g] = "closed"
           /\ sessState'[g] # "none" => sessState[g] # "none" \/ g <= gen'
  <1>1. gen \in Int /\ g \in Int /\ sessState \in [Gens -> SessStates]
    BY GensFacts DEF IInv, TypeOK
  <1>2. CASE StartBody(t)
    <2>1. gen' = gen + 1 /\ sessState' \in {sessState, [sessState EXCEPT ![gen + 1] = "open"]}
      BY <1>2 DEF StartBody
    <2> QED BY <1>1, <2>1
  <1>3. CASE TeardownClose(t)
    <2>1. gen' = gen
      BY <1>3 DEF TeardownClose, startVars
    <2>2. sessState' = sessState \/
          sessState' = [h \in Gens |->
              IF <<"sess", h>> \in local[t] /\ sessState[h] = "open" THEN "closing" ELSE sessState[h]]
      BY <1>3 DEF TeardownClose
    <2>3. sessState'[g] \in {sessState[g]} \/ sessState[g] = "open"
      BY <2>2
    <2>4. sessState[g] = "closed" => sessState'[g] = "closed"
      BY <2>3
    <2>5. sessState[g] = "none" => sessState'[g] = "none"
      BY <2>3
    <2> QED BY <1>1, <2>1, <2>4, <2>5
  <1>4. CASE ~StartBody(t) /\ ~TeardownClose(t)
    <2>1. gen' = gen /\ sessState' = sessState
      BY <1>4 DEF Proceed, StartWait, StartAlready, StopNothing, StopJoin, StopJoined, StopBody,
         StopDeferred, StopDrained, TeardownWaited, TeardownFree, TeardownDone, startVars
    <2> QED BY <1>1, <2>1
  <1> QED BY <1>2, <1>3, <1>4

LEMMA PlacesKept ==
    ASSUME IInv, CallbackThread, Places, [Next]_vars PROVE Places'
  <1>1. CASE WarmUpAtHalStart \/ UNCHANGED vars
    BY <1>1 DEF WarmUpAtHalStart, vars, threadVars, startVars, Places
  <1>2. ASSUME NEW t \in Threads, Proceed(t) PROVE Places'
    <2> SUFFICES ASSUME NEW g \in Gens
                 PROVE  /\ pc'[Listener(g)] \in ListenerMoves \cup {"idle", "stopWait"}
                        /\ pc'[SessionThread(g)] # "idle" => sessState'[g] = "closed"
                        /\ sessState'[g] # "none" => g <= gen'
      BY DEF Places
    <2>1. gen \in Int /\ gen' \in Int /\ g \in Int
      BY <1>2, NextIInv, GensFacts DEF IInv, TypeOK, Next
    <2> QED BY <1>2, <2>1, PlacesOfCalls, SessionsOfCalls DEF Places
  <1>3. ASSUME NEW h \in Gens, ImageAvailable(h) \/ ListenerStep(h) PROVE Places'
    <2>1. PICK l \in ListenerMoves \cup {"idle"} : pc' = [pc EXCEPT ![Listener(h)] = l]
      BY <1>3 DEF ImageAvailable, ListenerStep, GuardEnter, AcquireImage, PackVerdicts,
         DeliverFrame, AfterSecondCheck, CallbackEnds, GuardExit, Goto, ListenerMoves
    <2>2. UNCHANGED <<gen, sessState>>
      BY <1>3 DEF ImageAvailable, ListenerStep, GuardEnter, AcquireImage, DeliverFrame,
         CallbackEnds, GuardExit, startVars
    <2>3. pc \in [Threads -> PCs]
      BY DEF IInv, TypeOK
    <2> QED BY <2>1, <2>2, <2>3, ThreadNames DEF Places
  <1>4. ASSUME NEW h \in Gens, DeviceGone(h) PROVE Places'
    <2>1. pc' = [pc EXCEPT ![DeviceThread(h)] = "stop"] /\ UNCHANGED <<gen, sessState>>
      BY <1>4 DEF DeviceGone, Goto, startVars
    <2> QED BY <2>1, ThreadNames, SessionNames DEF Places, IInv, TypeOK
  <1>5. ASSUME NEW h \in Gens, OnSessionClosed(h) PROVE Places'
    <2>1. PICK l : /\ pc' = [pc EXCEPT ![SessionThread(h)] = l] /\ gen' = gen
                   /\ sessState' = [sessState EXCEPT ![h] = "closed"] /\ sessState[h] # "none"
      BY <1>5 DEF OnSessionClosed, Goto, startVars
    <2>2. /\ pc \in [Threads -> PCs] /\ sessState \in [Gens -> SessStates]
          /\ SessionThread(h) \in Threads
      BY ThreadNames DEF IInv, TypeOK
    <2> QED BY <2>1, <2>2, ThreadNames, SessionNames DEF Places
  <1> QED BY <1>1, <1>2, <1>3, <1>4, <1>5 DEF Next

(* A teardown() that has closed its session frees something next, while it   *)
(* holds anything.                                                         *)
LEMMA SomethingIsNext ==
    ASSUME IInv, NEW t \in Threads, ~Holds(t, "sess"), local[t] # {}
    PROVE  NextFree(t) # {}
  <1>1. \A h \in local[t] : h[1] \in Kinds \ {"sess"}
    BY DEF IInv, TypeOK, Handles, Holds
  <1>2. /\ DOMAIN FreeOrder = 1..4
        /\ FreeOrder[1] = {"tgt", "req", "outC", "out"} /\ FreeOrder[2] = {"dev"}
        /\ FreeOrder[3] = {"rdr"} /\ FreeOrder[4] = {"mgr"}
    BY DEF FreeOrder
  <1>3. ASSUME NEW i \in 1..4, NEW h \in local[t], h[1] \in FreeOrder[i],
               \A j \in 1..(i - 1) : \A k \in FreeOrder[j] : ~Holds(t, k)
        PROVE  NextFree(t) # {}
    BY <1>2, <1>3 DEF NextFree
  <1>4. PICK h \in local[t] : TRUE
    OBVIOUS
  <1>5. CASE \E k \in FreeOrder[1] : Holds(t, k)
    BY <1>3, <1>5 DEF Holds
  <1>6. CASE (\A k \in FreeOrder[1] : ~Holds(t, k)) /\ Holds(t, "dev")
    <2>1. \A j \in 1..(2 - 1) : j = 1
      OBVIOUS
    <2> QED BY <1>2, <1>3, <1>6, <2>1 DEF Holds
  <1>7. CASE (\A k \in FreeOrder[1] : ~Holds(t, k)) /\ ~Holds(t, "dev") /\ Holds(t, "rdr")
    <2>1. \A j \in 1..(3 - 1) : j = 1 \/ j = 2
      OBVIOUS
    <2> QED BY <1>2, <1>3, <1>7, <2>1 DEF Holds
  <1>8. CASE /\ \A k \in FreeOrder[1] : ~Holds(t, k)
             /\ ~Holds(t, "dev") /\ ~Holds(t, "rdr")
    <2>1. \A j \in 1..(4 - 1) : j = 1 \/ j = 2 \/ j = 3
      OBVIOUS
    <2>2. h[1] = "mgr"
      BY <1>1, <1>2, <1>8 DEF Holds, Kinds
    <2> QED BY <1>2, <1>3, <1>8, <2>1, <2>2
  <1> QED BY <1>5, <1>6, <1>7, <1>8

(* The listener whose reader a teardown() frees is not in a stop() it joined: *)
(* that stop() would still be draining.                                    *)
LEMMA FreedListenerMoves ==
    ASSUME IInv, Places, NEW t \in Threads, pc[t] = "free", NEW g \in Gens,
           <<"rdr", g>> \in local[t], pc[Listener(g)] # "idle"
    PROVE  pc[Listener(g)] \in ListenerMoves
  <1>1. <<"rdr", g>> \notin member
    BY DEF IInv, HandlesBalanced
  <1>2. PICK u \in Threads : call[u] = "stop" /\ <<"rdr", g>> \in local[u]
    BY <1>1 DEF IInv, ActiveListener
  <1>3. u = t
    BY <1>2 DEF IInv, HandlesBalanced
  <1>4. ~mIsRunning /\ \A v \in Threads : pc[v] # "drain"
    BY <1>2, <1>3 DEF IInv, OneStopper, PhasesOK
  <1>5. ~Delivering(g)
    BY <1>4 DEF IInv, CallbackGuarded
  <1> QED BY <1>5 DEF Delivering, Places

(* The monitor has no deadlock but the one of a frame callback that stops the *)
(* camera while another thread does: whoever tears down can go on or waits    *)
(* for a thread that can, however many clients start and stop the camera.  *)
THEOREM NoVainWait == Spec => []NobodyWaitsInVain
  <1>1. Init => OwnersWhole
    BY DEF Init, OwnersWhole, Whole, Holds
  <1>2. Init => CallbackThread
    BY DEF Init, CallbackThread
  <1>3. Init => Places
    BY ThreadNames DEF Init, Places
  <1>4. IInv /\ OwnersWhole /\ CallbackThread /\ Places => NobodyWaitsInVain
    <2> SUFFICES ASSUME IInv, OwnersWhole, CallbackThread, Places PROVE NobodyWaitsInVain
      OBVIOUS
    <2> DEFINE Waits(t) ==
          \E g \in Gens :
              \/ AwaitsListener(t, g) /\ pc[Listener(g)] \in ListenerMoves
              \/ AwaitsReport(t, g) /\ pc[SessionThread(g)] = "idle"
              \/ pc[t] = "drain" /\ AwaitsListener(t, g) /\ pc[Listener(g)] = "stopWait"
    <2>1. mIsStopping => \E t \in Threads : call[t] = "stop"
      BY DEF IInv, OneStopper
    <2>2. ASSUME NEW t \in Threads, call[t] # "none" PROVE WaitOver(t) \/ Waits(t)
      <3>1. pc[t] \in {"drain", "close", "waitClosed", "free"}
        BY <2>2 DEF IInv, PhasesOK, TeardownPCs
      <3>2. CASE pc[t] = "drain" /\ mInCallback
        <4>1. PICK g \in Gens : mCallbackThreadId = Listener(g)
          BY <3>2 DEF IInv, TypeOK
        <4>2. pc[Listener(g)] \in ListenerMoves \cup {"stopWait"}
          BY <3>2, <4>1 DEF CallbackThread, Places
        <4> QED BY <3>2, <4>1, <4>2 DEF AwaitsListener
      <3>3. CASE pc[t] = "waitClosed" /\ ~SecondMayPass(t)
        <4>1. PICK g \in Gens : <<"dev", g>> \in local[t] /\ sessState[g] = "closing"
          BY <3>3 DEF SecondMayPass
        <4>2. pc[SessionThread(g)] = "idle"
          BY <4>1 DEF Places
        <4> QED BY <3>3, <4>1, <4>2 DEF AwaitsReport
      <3>4. CASE pc[t] = "free" /\ local[t] # {}
        <4>1. NextFree(t) # {}
          BY <3>4, SomethingIsNext DEF OwnersWhole
        <4>2. SUFFICES ASSUME NEW h \in NextFree(t), ~ReaderDrained(h) PROVE Waits(t)
          BY <3>4, <4>1 DEF WaitOver
        <4>3. h \in local[t] /\ h[1] = "rdr" /\ pc[Listener(h[2])] # "idle"
          BY <4>2 DEF NextFree, ReaderDrained
        <4>4. h = <<"rdr", h[2]>> /\ h[2] \in Gens
          BY <4>3 DEF IInv, TypeOK, Handles
        <4>5. pc[Listener(h[2])] \in ListenerMoves
          BY <3>4, <4>3, <4>4, FreedListenerMoves
        <4> QED BY <3>4, <4>2, <4>4, <4>5 DEF AwaitsListener
      <3> HIDE DEF Waits
      <3> QED BY <3>1, <3>2, <3>3, <3>4 DEF WaitOver
    <2> QED BY <2>1, <2>2 DEF NobodyWaitsInVain
  <1> QED BY <1>1, <1>2, <1>3, <1>4, OwnersStep, CallbackThreadKept, PlacesKept, Invariance,
             PTL DEF Spec
=============================================================================
