------------------------- MODULE CameraBackendProofs -------------------------
(***************************************************************************)
(* Proofs about CameraBackend, for every number of clients, generations    *)
(* and explored failures.  IInv is inductive; the safety properties follow *)
(* from it.                                                                *)
(***************************************************************************)
EXTENDS CameraBackend, TLAPS

(* The names of the threads are distinct. *)
LEMMA ThreadNames ==
    /\ \A g \in Gens : /\ Listener(g) \in Threads /\ Deferred(g) \in Threads
                       /\ DeviceThread(g) \in Threads /\ SessionThread(g) \in Threads
    /\ Clients \subseteq Threads
    /\ \A g, h \in Gens : /\ Listener(g) = Listener(h) => g = h
                          /\ Listener(g) # Deferred(h)
                          /\ Listener(g) # DeviceThread(h)
                          /\ Listener(g) # SessionThread(h)
    /\ \A g \in Gens : Listener(g) \notin Clients /\ Deferred(g) \notin Clients
    /\ \A g \in Gens : Listener(g) # NoThread
  <1>1. \A g \in Gens : Listener(g) \notin Clients /\ Deferred(g) \notin Clients
    BY ClientsAssumption DEF Listener, Deferred
  <1>2. \A g, h \in Gens : /\ Listener(g) = Listener(h) => g = h
                           /\ Listener(g) # Deferred(h)
                           /\ Listener(g) # DeviceThread(h)
                           /\ Listener(g) # SessionThread(h)
    BY DEF Listener, Deferred, DeviceThread, SessionThread
  <1>3. \A g \in Gens : Listener(g) # NoThread
    BY DEF Listener, NoThread
  <1> QED BY <1>1, <1>2, <1>3 DEF Threads

(* What start() has filled in: some of the handles, and all on success. *)
LEMMA OutcomesHold ==
    ASSUME NEW o \in StartOutcomes
    PROVE  o.held \subseteq Kinds /\ (o.code = "none" => o.held = Kinds)
  BY DEF StartOutcomes, Opened, Kinds

LEMMA GensFacts == (\A g \in Gens : g \in Int) /\ (\A g \in 0..MaxStarts : g \in Int)
  BY MaxStartsAssumption DEF Gens

-----------------------------------------------------------------------------
(* The initial state of the backend satisfies the inductive invariant. *)
THEOREM InitIInv == Init => IInv
  <1> SUFFICES ASSUME Init PROVE IInv
    OBVIOUS
  <1> USE DEF Init
  <1>1. TypeOK
    <2>1. pc \in [Threads -> PCs] /\ call \in [Threads -> {"none", "start", "stop"}]
      BY DEF PCs
    <2>2. local \in [Threads -> SUBSET Handles] /\ sessState \in [Gens -> SessStates]
      BY DEF SessStates
    <2>3. gen \in 0..MaxStarts
      BY MaxStartsAssumption
    <2> QED BY <2>1, <2>2, <2>3 DEF TypeOK
  <1>2. HandlesBalanced
    BY DEF HandlesBalanced
  <1>3. RunningIsComplete /\ OneStopper /\ MembersOwned /\ NoFutureHandles
    BY DEF RunningIsComplete, OneStopper, MembersOwned, NoFutureHandles
  <1>4. PhasesOK /\ FailedNeverStreamed
    BY DEF PhasesOK, TeardownPCs, FailedNeverStreamed
  <1>5. ActiveListener /\ CallbackGuarded
    BY ThreadNames DEF ActiveListener, CallbackGuarded, Delivering
  <1> QED BY <1>1, <1>2, <1>3, <1>4, <1>5 DEF IInv

(***************************************************************************)
(* A thread moves on without touching a handle or a flag, and without      *)
(* entering or leaving a stop or a teardown().                             *)
(***************************************************************************)
Outside == PCs \ (TeardownPCs \cup {"drain"})
InFrameCallback == {"inCallback", "stop", "stopWait"}

LEMMA MoveThread ==
    ASSUME IInv, NEW t \in Threads, NEW l \in PCs, Goto(t, l),
           \/ pc[t] \in TeardownPCs /\ l \in TeardownPCs
           \/ pc[t] \in Outside /\ l \in Outside,
           \A g \in Gens : t = Listener(g) /\ l # "idle" =>
               /\ g = gen
               /\ \/ <<"rdr", g>> \in member
                  \/ \E u \in Threads : call[u] = "stop" /\ <<"rdr", g>> \in local[u]
               /\ l # "checked" => mInCallback
               /\ l \in InFrameCallback => mIsRunning \/ pc[t] \in InFrameCallback,
           UNCHANGED <<call, local, member, live, gen, mIsRunning, mIsStopping,
                       mInCallback, mCallbackThreadId, mLastStartFailure, warm,
                       streamed>>,
           mSessionClosed' \in BOOLEAN, sessState' \in [Gens -> SessStates]
    PROVE  IInv'
  <1> USE DEF IInv, Goto
  <1>1. TypeOK'
    BY DEF TypeOK
  <1>2. HandlesBalanced' /\ RunningIsComplete' /\ OneStopper' /\ NoFutureHandles'
        /\ FailedNeverStreamed'
    BY DEF HandlesBalanced, RunningIsComplete, OneStopper, NoFutureHandles,
           FailedNeverStreamed
  <1>3. \A u \in Threads : pc'[u] = IF u = t THEN l ELSE pc[u]
    BY DEF TypeOK
  <1>4. PhasesOK'
    BY <1>3 DEF PhasesOK, Outside, TeardownPCs
  <1>5. \A u \in Threads : pc[u] = "drain" => pc'[u] = "drain"
    BY <1>3 DEF Outside, TeardownPCs
  <1>6. MembersOwned'
    BY <1>5 DEF MembersOwned
  <1>7. ActiveListener'
    BY <1>3, ThreadNames DEF ActiveListener
  <1>8. CallbackGuarded'
    BY <1>3, <1>5, ThreadNames DEF CallbackGuarded, Delivering, InFrameCallback
  <1> QED BY <1>1, <1>2, <1>4, <1>6, <1>7, <1>8

-----------------------------------------------------------------------------
(***************************************************************************)
(* The actions that do more than move a thread.                            *)
(***************************************************************************)

LEMMA StartBodyKeepsIInv ==
    ASSUME IInv, NEW t \in Threads, StartBody(t) PROVE IInv'
  <1> DEFINE n == gen + 1
  <1>1. PICK o \in StartOutcomes, reprobed \in BOOLEAN :
            LET acquired == o.held \X {n}
                kept == {h \in member : h[1] \notin o.held}
            IN  /\ warm' = IF reprobed THEN "invalid" ELSE warm
                /\ mLastStartFailure' = (o.code # "none")
                /\ live' = live \cup acquired
                /\ sessState' = IF "sess" \in o.held
                                THEN [sessState EXCEPT ![n] = "open"]
                                ELSE sessState
                /\ mSessionClosed' = ClosedAfterStart(o.held)
                /\ IF o.code = "none"
                   THEN /\ mIsRunning' = TRUE
                        /\ streamed' = streamed \cup {n}
                        /\ member' = kept \cup acquired
                        /\ Goto(t, "idle")
                        /\ UNCHANGED <<call, local>>
                   ELSE /\ TakeMembers(t, kept \cup acquired)
                        /\ call' = [call EXCEPT ![t] = "start"]
                        /\ UNCHANGED <<mIsRunning, streamed>>
    BY DEF StartBody
  <1>2. /\ t \in Clients /\ pc[t] \in {"idle", "start"}
        /\ ~mIsStopping /\ ~mIsRunning /\ gen < MaxStarts
        /\ gen' = n
        /\ UNCHANGED <<mIsStopping, mInCallback, mCallbackThreadId>>
    BY DEF StartBody, StartReady, MayStart, callbackVars
  <1>3. /\ member = {}
        /\ \A u \in Threads : pc[u] # "drain" /\ call[u] # "stop"
        /\ call[t] = "none" /\ local[t] = {}
        /\ \A g \in Gens : pc[Listener(g)] = "idle"
    <2>1. \A u \in Threads : pc[u] # "drain" /\ call[u] # "stop"
      BY <1>2 DEF IInv, OneStopper, PhasesOK
    <2>2. member = {}
      BY <1>2, <2>1 DEF IInv, MembersOwned
    <2>3. call[t] = "none" /\ local[t] = {}
      BY <1>2 DEF IInv, PhasesOK, TeardownPCs
    <2>4. \A g \in Gens : pc[Listener(g)] = "idle"
      BY <2>1, <2>2 DEF IInv, ActiveListener
    <2> QED BY <2>1, <2>2, <2>3, <2>4
  <1> DEFINE acquired == o.held \X {n}
  <1>4. /\ acquired \subseteq Handles /\ n \in Gens /\ n \in 0..MaxStarts
        /\ \A h \in live : h \notin acquired
        /\ \A h \in acquired : h[2] = n
        /\ n \notin streamed
    <2>1. n \in Gens /\ n \in 0..MaxStarts /\ gen \in Int
      BY <1>2, MaxStartsAssumption DEF IInv, TypeOK, Gens
    <2>2. acquired \subseteq Handles
      BY <2>1, OutcomesHold DEF Handles
    <2>3. \A h \in acquired : h[2] = n
      OBVIOUS
    <2>4. \A h \in live : h \notin acquired
      BY <2>1, <2>3, GensFacts DEF IInv, NoFutureHandles, TypeOK, Handles
    <2>5. n \notin streamed
      BY <2>1, GensFacts DEF IInv, NoFutureHandles
    <2> QED BY <2>1, <2>2, <2>3, <2>4, <2>5
  <1>5. {h \in member : h[1] \notin o.held} \cup acquired = acquired
    BY <1>3
  <1> DEFINE l == IF o.code = "none" THEN "idle" ELSE "close"
  <1>6. /\ pc' = [pc EXCEPT ![t] = l]
        /\ call' = IF o.code = "none" THEN call ELSE [call EXCEPT ![t] = "start"]
        /\ local' = IF o.code = "none" THEN local ELSE [local EXCEPT ![t] = acquired]
        /\ member' = IF o.code = "none" THEN acquired ELSE {}
        /\ mIsRunning' = (o.code = "none")
        /\ streamed' = IF o.code = "none" THEN streamed \cup {n} ELSE streamed
        /\ live' = live \cup acquired
    <2>1. CASE o.code = "none"
      BY <1>1, <1>2, <1>5, <2>1 DEF Goto
    <2>2. CASE o.code # "none"
      <3>1. TakeMembers(t, acquired) /\ call' = [call EXCEPT ![t] = "start"]
            /\ UNCHANGED <<mIsRunning, streamed>> /\ live' = live \cup acquired
        BY <1>1, <1>5, <2>2
      <3>2. mIsRunning = FALSE
        BY <1>2 DEF IInv, TypeOK
      <3> QED BY <2>2, <3>1, <3>2 DEF Goto, TakeMembers
    <2> QED BY <2>1, <2>2
  <1>7. \A u \in Threads :
            /\ pc'[u] = IF u = t THEN l ELSE pc[u]
            /\ call'[u] = IF u = t /\ o.code # "none" THEN "start" ELSE call[u]
            /\ local'[u] = IF u = t /\ o.code # "none" THEN acquired ELSE local[u]
    BY <1>6 DEF IInv, TypeOK
  <1>8. /\ sessState' \in [Gens -> SessStates] /\ mSessionClosed' \in BOOLEAN
        /\ warm' \in {"pending", "valid", "invalid"} /\ mLastStartFailure' \in BOOLEAN
    BY <1>1 DEF IInv, TypeOK, SessStates, ClosedAfterStart
  <1> HIDE DEF acquired, n
  <1>9. TypeOK'
    <2>1. /\ pc' \in [Threads -> PCs]
          /\ call' \in [Threads -> {"none", "start", "stop"}]
          /\ local' \in [Threads -> SUBSET Handles]
      BY <1>4, <1>6 DEF IInv, TypeOK, PCs
    <2>2. /\ member' \in SUBSET Handles /\ live' \in SUBSET Handles
          /\ gen' \in 0..MaxStarts /\ streamed' \in SUBSET Gens
          /\ mIsRunning' \in BOOLEAN
      BY <1>2, <1>4, <1>6 DEF IInv, TypeOK
    <2> QED BY <1>2, <1>8, <2>1, <2>2 DEF IInv, TypeOK
  <1>10. HandlesBalanced'
    <2>1. live' = member' \cup UNION {local'[u] : u \in Threads}
      BY <1>3, <1>6, <1>7 DEF IInv, HandlesBalanced
    <2>2. \A u \in Threads : local[u] \cap acquired = {}
      BY <1>4 DEF IInv, HandlesBalanced
    <2>3. \A u \in Threads : local'[u] \cap member' = {}
      BY <1>6, <1>7, <2>2
    <2>4. \A u, v \in Threads : u # v => local'[u] \cap local'[v] = {}
      BY <1>7, <2>2 DEF IInv, HandlesBalanced
    <2> QED BY <2>1, <2>3, <2>4 DEF HandlesBalanced
  <1>11. RunningIsComplete'
    BY <1>2, <1>6, OutcomesHold DEF RunningIsComplete, acquired
  <1>12. PhasesOK'
    BY <1>2, <1>3, <1>7 DEF IInv, PhasesOK, TeardownPCs
  <1>13. OneStopper'
    BY <1>2, <1>3, <1>7 DEF IInv, OneStopper
  <1>14. MembersOwned'
    BY <1>6 DEF MembersOwned
  <1>15. NoFutureHandles'
    <2>1. gen \in Int /\ n = gen + 1
      BY GensFacts DEF IInv, TypeOK, n
    <2>2. \A h \in live : h[2] \in Int /\ h[2] <= gen
      <3>1. \A h \in live : h[2] \in Gens
        BY DEF IInv, TypeOK, Handles
      <3>2. \A h \in live : h[2] <= gen
        BY DEF IInv, NoFutureHandles
      <3>3. \A h \in live : h[2] \in Int
        BY <3>1, GensFacts
      <3> QED BY <3>2, <3>3
    <2>3. \A g \in streamed : g \in Int /\ g <= gen
      BY GensFacts DEF IInv, TypeOK, NoFutureHandles
    <2>4. \A h \in live' : h[2] <= gen'
      BY <1>2, <1>4, <1>6, <2>1, <2>2
    <2>5. \A g \in streamed' : g <= gen'
      BY <1>2, <1>6, <2>1, <2>3
    <2> QED BY <2>4, <2>5 DEF NoFutureHandles
  <1>16. FailedNeverStreamed'
    <2> SUFFICES ASSUME NEW u \in Threads, call'[u] = "start", NEW h \in local'[u]
                 PROVE  h[2] \notin streamed'
      BY DEF FailedNeverStreamed
    <2>1. CASE u = t
      BY <1>3, <1>4, <1>6, <1>7, <2>1
    <2>2. CASE u # t
      <3>1. h \in live /\ h[2] \notin streamed
        BY <1>7, <2>2 DEF IInv, HandlesBalanced, FailedNeverStreamed
      <3>2. h[2] # n
        BY <3>1, GensFacts DEF IInv, NoFutureHandles, TypeOK, Handles, n
      <3> QED BY <1>6, <3>1, <3>2
    <2> QED BY <2>1, <2>2
  <1>17. ActiveListener' /\ CallbackGuarded'
    <2>1. \A g \in Gens : pc'[Listener(g)] = "idle"
      BY <1>2, <1>3, <1>7, ThreadNames
    <2> QED BY <2>1 DEF ActiveListener, CallbackGuarded, Delivering
  <1> QED BY <1>9, <1>10, <1>11, <1>12, <1>13, <1>14, <1>15, <1>16, <1>17 DEF IInv

LEMMA StopBodyKeepsIInv ==
    ASSUME IInv, NEW t \in Threads, StopBody(t) PROVE IInv'
  <1>1. /\ pc[t] = "stop" \/ (t \in Clients /\ pc[t] = "idle")
        /\ ~mIsStopping /\ mIsRunning' = FALSE /\ mIsStopping' = TRUE
        /\ pc' = [pc EXCEPT ![t] = "drain"] /\ call' = [call EXCEPT ![t] = "stop"]
        /\ UNCHANGED <<local, member, live, mInCallback, mCallbackThreadId, gen,
                       mLastStartFailure, warm, streamed, mSessionClosed, sessState>>
    BY DEF StopBody, Enters, Stoppable, BeginStop, Goto, handleVars, callbackVars,
           startVars
  <1>2. \A u \in Threads : /\ pc'[u] = IF u = t THEN "drain" ELSE pc[u]
                           /\ call'[u] = IF u = t THEN "stop" ELSE call[u]
    BY <1>1 DEF IInv, TypeOK
  <1>3. \A u \in Threads : call[u] # "stop"
    BY <1>1 DEF IInv, OneStopper
  <1>4. TypeOK'
    BY <1>1 DEF IInv, TypeOK, PCs
  <1>5. HandlesBalanced' /\ RunningIsComplete' /\ NoFutureHandles'
    BY <1>1 DEF IInv, HandlesBalanced, RunningIsComplete, NoFutureHandles
  <1>6. PhasesOK' /\ OneStopper' /\ MembersOwned'
    BY <1>1, <1>2, <1>3 DEF IInv, PhasesOK, TeardownPCs, OneStopper, MembersOwned
  <1>7. FailedNeverStreamed'
    BY <1>1, <1>2 DEF IInv, FailedNeverStreamed
  <1>8. ActiveListener' /\ CallbackGuarded'
    BY <1>1, <1>2, <1>3, ThreadNames DEF IInv, ActiveListener, CallbackGuarded, Delivering
  <1> QED BY <1>4, <1>5, <1>6, <1>7, <1>8 DEF IInv

LEMMA StopDeferredKeepsIInv ==
    ASSUME IInv, NEW t \in Threads, StopDeferred(t) PROVE IInv'
  <1> DEFINE d == Deferred(gen)
  <1>1. PICK g \in Gens : t = Listener(g) /\ mInCallback
    BY DEF StopDeferred, IInv, TypeOK
  <1>2. /\ pc[t] = "stop" /\ ~mIsStopping
        /\ mIsRunning' = FALSE /\ mIsStopping' = TRUE
        /\ pc' = [pc EXCEPT ![t] = "inCallback", ![d] = "drain"]
        /\ call' = [call EXCEPT ![t] = "none", ![d] = "stop"]
        /\ UNCHANGED <<local, member, live, mInCallback, mCallbackThreadId, gen,
                       mLastStartFailure, warm, streamed, mSessionClosed, sessState>>
    BY <1>1, ThreadNames
       DEF StopDeferred, Enters, Stoppable, BeginStop, Resume, handleVars, callbackVars,
           startVars
  <1>3. gen \in Gens
    BY <1>1, <1>2 DEF IInv, ActiveListener
  <1>4. d \in Threads /\ d \notin Clients /\ d # t
        /\ \A h \in Gens : Listener(h) # d
    BY <1>1, <1>3, ThreadNames
  <1> HIDE DEF d
  <1>5. \A u \in Threads :
            /\ pc'[u] = IF u = d THEN "drain" ELSE IF u = t THEN "inCallback" ELSE pc[u]
            /\ call'[u] = IF u = d THEN "stop" ELSE IF u = t THEN "none" ELSE call[u]
    BY <1>2, <1>4 DEF IInv, TypeOK
  <1>6. \A u \in Threads : call[u] # "stop"
    BY <1>2 DEF IInv, OneStopper
  <1>7. call[t] = "none" /\ call[d] = "none" /\ local[t] = {} /\ local[d] = {}
    BY <1>2, <1>4, <1>6 DEF IInv, TypeOK, PhasesOK, TeardownPCs
  <1>8. TypeOK'
    BY <1>2 DEF IInv, TypeOK, PCs
  <1>9. HandlesBalanced' /\ RunningIsComplete' /\ NoFutureHandles'
    BY <1>2 DEF IInv, HandlesBalanced, RunningIsComplete, NoFutureHandles
  <1>10. PhasesOK'
    <2> SUFFICES ASSUME NEW u \in Threads
                 PROVE  /\ call'[u] = "none" <=> pc'[u] \notin TeardownPCs \cup {"drain"}
                        /\ pc'[u] = "drain" => call'[u] = "stop"
                        /\ pc'[u] \notin TeardownPCs => local'[u] = {}
                        /\ call'[u] = "start" => u \in Clients
      BY DEF PhasesOK
    <2>1. CASE u = d
      <3>1. pc'[u] = "drain" /\ call'[u] = "stop"
        BY <1>5, <2>1
      <3>2. local'[u] = {}
        BY <1>2, <1>7, <2>1
      <3> QED BY <3>1, <3>2
    <2>2. CASE u = t
      <3>1. pc'[u] = "inCallback" /\ call'[u] = "none"
        BY <1>4, <1>5, <2>2
      <3>2. local'[u] = {}
        BY <1>2, <1>7, <2>2
      <3> QED BY <3>1, <3>2 DEF TeardownPCs
    <2>3. CASE u # d /\ u # t
      BY <1>2, <1>5, <2>3 DEF IInv, PhasesOK
    <2> QED BY <2>1, <2>2, <2>3
  <1>11. OneStopper' /\ MembersOwned'
    <2>1. pc'[d] = "drain" /\ \A u \in Threads : call'[u] = "stop" <=> u = d
      BY <1>4, <1>5, <1>6
    <2> QED BY <1>2, <1>4, <2>1 DEF OneStopper, MembersOwned
  <1>12. FailedNeverStreamed'
    BY <1>2, <1>5 DEF IInv, FailedNeverStreamed
  <1>13. ActiveListener' /\ CallbackGuarded'
    BY <1>1, <1>2, <1>4, <1>5, <1>6, ThreadNames
       DEF IInv, ActiveListener, CallbackGuarded, Delivering
  <1> QED BY <1>8, <1>9, <1>10, <1>11, <1>12, <1>13 DEF IInv

LEMMA StopDrainedKeepsIInv ==
    ASSUME IInv, NEW t \in Threads, StopDrained(t) PROVE IInv'
  <1>1. /\ pc[t] = "drain" /\ ~mInCallback
        /\ pc' = [pc EXCEPT ![t] = "close"]
        /\ local' = [local EXCEPT ![t] = member] /\ member' = {}
        /\ UNCHANGED <<call, live, mIsRunning, mIsStopping, mInCallback,
                       mCallbackThreadId, gen, mLastStartFailure, warm, streamed,
                       mSessionClosed, sessState>>
    BY DEF StopDrained, Drained, TakeMembers, Goto, flagVars, callbackVars, startVars
  <1>2. \A u \in Threads : /\ pc'[u] = IF u = t THEN "close" ELSE pc[u]
                           /\ local'[u] = IF u = t THEN member ELSE local[u]
    BY <1>1 DEF IInv, TypeOK
  <1>3. call[t] = "stop" /\ mIsStopping /\ ~mIsRunning /\ local[t] = {}
    BY <1>1 DEF IInv, PhasesOK, OneStopper, TeardownPCs
  <1>4. TypeOK'
    BY <1>1 DEF IInv, TypeOK, PCs
  <1>5. HandlesBalanced'
    <2>1. live' = member' \cup UNION {local'[u] : u \in Threads}
      BY <1>1, <1>2, <1>3 DEF IInv, HandlesBalanced
    <2>2. \A u \in Threads : local'[u] \cap member' = {}
      BY <1>1
    <2>3. \A u, v \in Threads : u # v => local'[u] \cap local'[v] = {}
      BY <1>2 DEF IInv, HandlesBalanced
    <2> QED BY <2>1, <2>2, <2>3 DEF HandlesBalanced
  <1>6. RunningIsComplete' /\ NoFutureHandles' /\ OneStopper' /\ MembersOwned'
    BY <1>1, <1>3 DEF IInv, RunningIsComplete, NoFutureHandles, OneStopper, MembersOwned
  <1>7. PhasesOK'
    BY <1>1, <1>2, <1>3 DEF IInv, PhasesOK, TeardownPCs
  <1>8. FailedNeverStreamed'
    BY <1>1, <1>2, <1>3 DEF IInv, FailedNeverStreamed
  <1>9. ActiveListener'
    BY <1>1, <1>2, <1>3, ThreadNames DEF IInv, ActiveListener
  <1>10. CallbackGuarded'
    BY <1>1, <1>2, ThreadNames DEF IInv, CallbackGuarded, Delivering
  <1> QED BY <1>4, <1>5, <1>6, <1>7, <1>8, <1>9, <1>10 DEF IInv

(* A teardown() gives up handles it holds; it frees a reader only when the  *)
(* reader's listener is idle.                                              *)
LEMMA DropHandlesKeepsIInv ==
    ASSUME IInv, NEW t \in Threads, NEW X \in SUBSET local[t], NEW l \in TeardownPCs,
           pc[t] \in TeardownPCs, pc' = [pc EXCEPT ![t] = l],
           local' = [local EXCEPT ![t] = local[t] \ X], live' = live \ X,
           \A g \in Gens : <<"rdr", g>> \in X => pc[Listener(g)] = "idle",
           UNCHANGED <<call, member, mIsRunning, mIsStopping, mInCallback,
                       mCallbackThreadId, gen, mLastStartFailure, warm, streamed,
                       mSessionClosed>>,
           sessState' \in [Gens -> SessStates]
    PROVE  IInv'
  <1>1. \A u \in Threads : /\ pc'[u] = IF u = t THEN l ELSE pc[u]
                           /\ local'[u] = IF u = t THEN local[t] \ X ELSE local[u]
    BY DEF IInv, TypeOK
  <1>2. TypeOK'
    BY DEF IInv, TypeOK, PCs, TeardownPCs
  <1>3. HandlesBalanced'
    <2>1. member \cap X = {} /\ \A u \in Threads : u # t => local[u] \cap X = {}
      BY DEF IInv, HandlesBalanced
    <2>2. live' = member' \cup UNION {local'[u] : u \in Threads}
      BY <1>1, <2>1 DEF IInv, HandlesBalanced
    <2>3. \A u \in Threads : local'[u] \cap member' = {}
      BY <1>1 DEF IInv, HandlesBalanced
    <2>4. \A u, v \in Threads : u # v => local'[u] \cap local'[v] = {}
      BY <1>1 DEF IInv, HandlesBalanced
    <2> QED BY <2>2, <2>3, <2>4 DEF HandlesBalanced
  <1>4. RunningIsComplete' /\ OneStopper' /\ NoFutureHandles'
    BY DEF IInv, RunningIsComplete, OneStopper, NoFutureHandles
  <1>5. PhasesOK'
    BY <1>1 DEF IInv, PhasesOK, TeardownPCs
  <1>6. MembersOwned' /\ FailedNeverStreamed'
    BY <1>1 DEF IInv, MembersOwned, FailedNeverStreamed, TeardownPCs
  <1>7. ActiveListener'
    <2> SUFFICES ASSUME NEW g \in Gens, pc'[Listener(g)] # "idle"
                 PROVE  /\ g = gen
                        /\ \/ <<"rdr", g>> \in member
                           \/ \E u \in Threads : call[u] = "stop" /\ <<"rdr", g>> \in local'[u]
      BY DEF ActiveListener
    <2>1. pc[Listener(g)] # "idle"
      BY <1>1, ThreadNames DEF TeardownPCs
    <2> QED BY <1>1, <2>1 DEF IInv, ActiveListener
  <1>8. CallbackGuarded'
    BY <1>1, ThreadNames DEF IInv, CallbackGuarded, Delivering, TeardownPCs
  <1> QED BY <1>2, <1>3, <1>4, <1>5, <1>6, <1>7, <1>8 DEF IInv

LEMMA TeardownCloseKeepsIInv ==
    ASSUME IInv, NEW t \in Threads, TeardownClose(t) PROVE IInv'
  <1>1. pc[t] = "close"
        /\ UNCHANGED <<call, member, mIsRunning, mIsStopping, mInCallback,
                       mCallbackThreadId, gen, mLastStartFailure, warm, streamed,
                       mSessionClosed>>
    BY DEF TeardownClose, flagVars, callbackVars, startVars
  <1>2. CASE Holds(t, "sess")
    <2> DEFINE X == {h \in local[t] : h[1] = "sess"}
    <2>1. /\ pc' = [pc EXCEPT ![t] = "waitClosed"] /\ live' = live \ X
          /\ local' = [local EXCEPT ![t] = local[t] \ X]
      <3>1. local' = [local EXCEPT ![t] = {h \in local[t] : h[1] # "sess"}]
        BY <1>2 DEF TeardownClose
      <3>2. {h \in local[t] : h[1] # "sess"} = local[t] \ X
        OBVIOUS
      <3> QED BY <1>2, <3>1, <3>2 DEF TeardownClose, Goto
    <2>2. sessState' \in [Gens -> SessStates]
      BY <1>2 DEF TeardownClose, IInv, TypeOK, SessStates
    <2>3. \A g \in Gens : <<"rdr", g>> \notin X
      OBVIOUS
    <2> HIDE DEF X
    <2>4. X \in SUBSET local[t]
      BY DEF X
    <2>5. pc[t] \in TeardownPCs /\ "waitClosed" \in TeardownPCs
      BY <1>1 DEF TeardownPCs
    <2> QED BY <1>1, <2>1, <2>2, <2>3, <2>4, <2>5, DropHandlesKeepsIInv
  <1>3. CASE ~Holds(t, "sess")
    <2>1. Goto(t, "free") /\ UNCHANGED <<sessState, live, local>>
      BY <1>3 DEF TeardownClose
    <2>2. /\ pc[t] \in TeardownPCs /\ "free" \in TeardownPCs /\ "free" \in PCs
          /\ "free" \notin InFrameCallback
          /\ sessState \in [Gens -> SessStates] /\ mSessionClosed \in BOOLEAN
      BY <1>1 DEF TeardownPCs, PCs, InFrameCallback, IInv, TypeOK
    <2>3. \A g \in Gens : t = Listener(g) =>
               /\ g = gen /\ mInCallback
               /\ \/ <<"rdr", g>> \in member
                  \/ \E u \in Threads : call[u] = "stop" /\ <<"rdr", g>> \in local[u]
      BY <1>1 DEF IInv, ActiveListener, CallbackGuarded, Delivering
    <2> QED BY <1>1, <2>1, <2>2, <2>3, MoveThread
  <1> QED BY <1>2, <1>3

LEMMA TeardownFreeKeepsIInv ==
    ASSUME IInv, NEW t \in Threads, TeardownFree(t) PROVE IInv'
  <1> DEFINE X == NextFree(t)
  <1>1. /\ pc[t] = "free" /\ \A h \in X : ReaderDrained(h)
        /\ live' = live \ X /\ local' = [local EXCEPT ![t] = local[t] \ X]
        /\ UNCHANGED <<pc, call, member, mIsRunning, mIsStopping, mInCallback,
                       mCallbackThreadId, gen, mLastStartFailure, warm, streamed,
                       mSessionClosed, sessState>>
    BY DEF TeardownFree, flagVars, callbackVars, startVars
  <1>2. X \in SUBSET local[t]
    BY DEF NextFree
  <1>3. pc' = [pc EXCEPT ![t] = "free"] /\ pc[t] \in TeardownPCs /\ "free" \in TeardownPCs
    BY <1>1 DEF IInv, TypeOK, TeardownPCs
  <1>4. \A g \in Gens : <<"rdr", g>> \in X => pc[Listener(g)] = "idle"
    BY <1>1 DEF ReaderDrained
  <1>5. sessState' \in [Gens -> SessStates]
    BY <1>1 DEF IInv, TypeOK
  <1> HIDE DEF X
  <1> QED BY <1>1, <1>2, <1>3, <1>4, <1>5, DropHandlesKeepsIInv

LEMMA TeardownDoneKeepsIInv ==
    ASSUME IInv, NEW t \in Threads, TeardownDone(t) PROVE IInv'
  <1>1. /\ pc[t] = "free" /\ local[t] = {}
        /\ mIsStopping' = IF call[t] = "stop" THEN FALSE ELSE mIsStopping
        /\ pc' = [pc EXCEPT ![t] = Resume(t)] /\ call' = [call EXCEPT ![t] = "none"]
        /\ UNCHANGED <<local, member, live, mIsRunning, mInCallback, mCallbackThreadId,
                       gen, mLastStartFailure, warm, streamed, mSessionClosed,
                       sessState>>
    BY DEF TeardownDone, Return, Goto, handleVars, callbackVars, startVars
  <1>2. Resume(t) \in {"idle", "inCallback"}
    BY DEF Resume
  <1>3. \A u \in Threads : /\ pc'[u] = IF u = t THEN Resume(t) ELSE pc[u]
                           /\ call'[u] = IF u = t THEN "none" ELSE call[u]
    BY <1>1 DEF IInv, TypeOK
  <1>4. call[t] \in {"start", "stop"}
    BY <1>1 DEF IInv, PhasesOK, TeardownPCs, TypeOK
  <1>5. TypeOK'
    BY <1>1, <1>2 DEF IInv, TypeOK, PCs
  <1>6. HandlesBalanced' /\ RunningIsComplete' /\ NoFutureHandles'
    BY <1>1 DEF IInv, HandlesBalanced, RunningIsComplete, NoFutureHandles
  <1>7. PhasesOK'
    BY <1>1, <1>2, <1>3 DEF IInv, PhasesOK, TeardownPCs
  <1>8. MembersOwned'
    BY <1>1, <1>3 DEF IInv, MembersOwned
  <1>9. OneStopper'
    <2>1. CASE call[t] = "stop"
      BY <1>1, <1>3, <2>1 DEF IInv, OneStopper
    <2>2. CASE call[t] = "start"
      BY <1>1, <1>3, <2>2 DEF IInv, OneStopper
    <2> QED BY <1>4, <2>1, <2>2
  <1>10. FailedNeverStreamed'
    BY <1>1, <1>3 DEF IInv, FailedNeverStreamed
  <1>11. ActiveListener' /\ CallbackGuarded'
    <2>1. CASE call[t] = "start"
      <3>1. t \in Clients /\ \A g \in Gens : t # Listener(g)
        BY <2>1, ThreadNames DEF IInv, PhasesOK
      <3>2. ActiveListener'
        BY <1>1, <1>3, <2>1, <3>1, ThreadNames DEF IInv, ActiveListener
      <3>3. CallbackGuarded'
        BY <1>1, <1>3, <3>1, ThreadNames DEF IInv, CallbackGuarded, Delivering
      <3> QED BY <3>2, <3>3
    <2>2. CASE call[t] = "stop"
      <3>1. ~mIsRunning /\ \A u \in Threads : pc[u] # "drain"
        BY <1>1, <2>2 DEF IInv, OneStopper, PhasesOK
      <3>2. member = {}
        BY <3>1 DEF IInv, MembersOwned
      <3>3. \A u \in Threads : call[u] = "stop" => u = t
        BY <2>2 DEF IInv, OneStopper
      <3>4. \A g \in Gens : pc[Listener(g)] = "idle"
        BY <1>1, <3>2, <3>3 DEF IInv, ActiveListener
      <3>5. \A g \in Gens : pc'[Listener(g)] = "idle"
        BY <1>1, <1>3, <3>4, ThreadNames
      <3> QED BY <3>5 DEF ActiveListener, CallbackGuarded, Delivering
    <2> QED BY <1>4, <2>1, <2>2
  <1> QED BY <1>5, <1>6, <1>7, <1>8, <1>9, <1>10, <1>11 DEF IInv

LEMMA GuardEnterKeepsIInv ==
    ASSUME IInv, NEW g \in Gens, GuardEnter(g) PROVE IInv'
  <1>1. /\ pc[Listener(g)] = "checked" /\ pc' = [pc EXCEPT ![Listener(g)] = "acquire"]
        /\ mInCallback' = TRUE /\ mCallbackThreadId' = Listener(g)
        /\ UNCHANGED <<call, local, member, live, mIsRunning, mIsStopping, gen,
                       mLastStartFailure, warm, streamed, mSessionClosed, sessState>>
    BY DEF GuardEnter, Goto, handleVars, flagVars, startVars
  <1>2. \A u \in Threads : pc'[u] = IF u = Listener(g) THEN "acquire" ELSE pc[u]
    BY <1>1 DEF IInv, TypeOK
  <1>3. TypeOK'
    BY <1>1 DEF IInv, TypeOK, PCs
  <1>4. HandlesBalanced' /\ RunningIsComplete' /\ NoFutureHandles' /\ OneStopper'
        /\ FailedNeverStreamed'
    BY <1>1 DEF IInv, HandlesBalanced, RunningIsComplete, NoFutureHandles, OneStopper,
                FailedNeverStreamed
  <1>5. PhasesOK' /\ MembersOwned'
    BY <1>1, <1>2 DEF IInv, PhasesOK, TeardownPCs, MembersOwned
  <1>6. ActiveListener'
    BY <1>1, <1>2, ThreadNames DEF IInv, ActiveListener
  <1>7. CallbackGuarded'
    BY <1>1, <1>2, ThreadNames DEF IInv, CallbackGuarded, Delivering
  <1> QED BY <1>3, <1>4, <1>5, <1>6, <1>7 DEF IInv

LEMMA GuardExitKeepsIInv ==
    ASSUME IInv, NEW g \in Gens, GuardExit(g) PROVE IInv'
  <1>1. /\ pc[Listener(g)] = "guardExit" /\ pc' = [pc EXCEPT ![Listener(g)] = "idle"]
        /\ mInCallback' = FALSE /\ mCallbackThreadId' = NoThread
        /\ UNCHANGED <<call, local, member, live, mIsRunning, mIsStopping, gen,
                       mLastStartFailure, warm, streamed, mSessionClosed, sessState>>
    BY DEF GuardExit, LeaveCallback, Goto, handleVars, flagVars, startVars
  <1>2. \A u \in Threads : pc'[u] = IF u = Listener(g) THEN "idle" ELSE pc[u]
    BY <1>1 DEF IInv, TypeOK
  <1>3. TypeOK'
    BY <1>1 DEF IInv, TypeOK, PCs
  <1>4. HandlesBalanced' /\ RunningIsComplete' /\ NoFutureHandles' /\ OneStopper'
        /\ FailedNeverStreamed'
    BY <1>1 DEF IInv, HandlesBalanced, RunningIsComplete, NoFutureHandles, OneStopper,
                FailedNeverStreamed
  <1>5. PhasesOK' /\ MembersOwned'
    BY <1>1, <1>2 DEF IInv, PhasesOK, TeardownPCs, MembersOwned
  <1>6. \A h \in Gens : pc'[Listener(h)] = "idle"
    BY <1>1, <1>2, ThreadNames DEF IInv, ActiveListener
  <1>7. ActiveListener' /\ CallbackGuarded'
    BY <1>6 DEF ActiveListener, CallbackGuarded, Delivering
  <1> QED BY <1>3, <1>4, <1>5, <1>7 DEF IInv

(* An active listener stays active: what MoveThread asks of it. *)
LEMMA ListenerKept ==
    ASSUME IInv, NEW t \in Threads, pc[t] \notin {"idle", "checked"}
    PROVE  \A g \in Gens : t = Listener(g) =>
               /\ g = gen /\ mInCallback
               /\ \/ <<"rdr", g>> \in member
                  \/ \E u \in Threads : call[u] = "stop" /\ <<"rdr", g>> \in local[u]
  BY DEF IInv, ActiveListener, CallbackGuarded, Delivering

LEMMA ImageAvailableKeepsIInv ==
    ASSUME IInv, NEW g \in Gens, ImageAvailable(g) PROVE IInv'
  <1>1. /\ pc[Listener(g)] = "idle" /\ g \in streamed /\ <<"rdr", g>> \in live
        /\ mIsRunning /\ Goto(Listener(g), "checked")
        /\ UNCHANGED <<call, local, member, live, gen, mIsRunning, mIsStopping,
                       mInCallback, mCallbackThreadId, mLastStartFailure, warm,
                       streamed, mSessionClosed, sessState>>
    BY DEF ImageAvailable, handleVars, flagVars, callbackVars, startVars
  <1>2. \A u \in Threads : <<"rdr", g>> \notin local[u]
    <2> SUFFICES ASSUME NEW u \in Threads, <<"rdr", g>> \in local[u] PROVE FALSE
      OBVIOUS
    <2>1. call[u] \in {"start", "stop"}
      BY DEF IInv, PhasesOK, TypeOK
    <2>2. call[u] # "stop"
      BY <1>1 DEF IInv, OneStopper
    <2>3. call[u] # "start"
      <3>1. call[u] = "start" => \A h \in local[u] : h[2] \notin streamed
        BY DEF IInv, FailedNeverStreamed
      <3>2. <<"rdr", g>>[2] = g
        OBVIOUS
      <3> QED BY <1>1, <3>1, <3>2
    <2> QED BY <2>1, <2>2, <2>3
  <1>3. <<"rdr", g>> \in member
    BY <1>1, <1>2 DEF IInv, HandlesBalanced
  <1>4. g = gen
    BY <1>1, <1>3 DEF IInv, RunningIsComplete
  <1>5. /\ pc[Listener(g)] \in Outside /\ "checked" \in Outside /\ "checked" \in PCs
        /\ Listener(g) \in Threads
        /\ mSessionClosed' \in BOOLEAN /\ sessState' \in [Gens -> SessStates]
    BY <1>1, ThreadNames DEF Outside, TeardownPCs, PCs, IInv, TypeOK
  <1>6. \A h \in Gens : Listener(g) = Listener(h) => h = g
    BY ThreadNames
  <1> QED BY <1>1, <1>3, <1>4, <1>5, <1>6, MoveThread

LEMMA ListenerStepKeepsIInv ==
    ASSUME IInv, NEW g \in Gens, AcquireImage(g) \/ DeliverFrame(g) \/ CallbackEnds(g)
    PROVE  IInv'
  <1>1. /\ pc[Listener(g)] \in {"acquire", "deliver", "inCallback"}
        /\ UNCHANGED <<call, local, member, live, gen, mIsRunning, mIsStopping,
                       mInCallback, mCallbackThreadId, mLastStartFailure, warm,
                       streamed, mSessionClosed, sessState>>
    BY DEF PackVerdicts, AcquireImage, DeliverFrame, CallbackEnds, handleVars, flagVars,
           callbackVars, startVars
  <1>2. PICK l \in {"deliver", "guardExit", "inCallback", "stop"} :
            /\ Goto(Listener(g), l)
            /\ l \in InFrameCallback => mIsRunning \/ pc[Listener(g)] \in InFrameCallback
    BY DEF PackVerdicts, AcquireImage, DeliverFrame, AfterSecondCheck, CallbackEnds,
           InFrameCallback
  <1>3. /\ Listener(g) \in Threads /\ l \in PCs
        /\ pc[Listener(g)] \in Outside /\ l \in Outside
        /\ mSessionClosed' \in BOOLEAN /\ sessState' \in [Gens -> SessStates]
    BY <1>1, ThreadNames DEF Outside, TeardownPCs, PCs, IInv, TypeOK
  <1>4. \A h \in Gens : Listener(g) = Listener(h) =>
            /\ h = gen /\ mInCallback
            /\ \/ <<"rdr", h>> \in member
               \/ \E u \in Threads : call[u] = "stop" /\ <<"rdr", h>> \in local[u]
    BY <1>1, <1>3, ListenerKept
  <1> QED BY <1>1, <1>2, <1>3, <1>4, MoveThread

LEMMA EventKeepsIInv ==
    ASSUME IInv, NEW g \in Gens, DeviceGone(g) \/ OnSessionClosed(g) PROVE IInv'
  <1>1. PICK t \in {DeviceThread(g), SessionThread(g)}, l \in {"idle", "stop"} :
            /\ pc[t] = "idle" /\ Goto(t, l)
            /\ UNCHANGED <<call, local, member, live, gen, mIsRunning, mIsStopping,
                           mInCallback, mCallbackThreadId, mLastStartFailure, warm,
                           streamed>>
    BY DEF DeviceGone, OnSessionClosed, handleVars, flagVars, callbackVars, startVars
  <1>2. mSessionClosed' \in BOOLEAN /\ sessState' \in [Gens -> SessStates]
    BY DEF DeviceGone, OnSessionClosed, IInv, TypeOK, SessStates
  <1>3. t \in Threads /\ \A h \in Gens : t # Listener(h)
    BY ThreadNames
  <1>4. l \in PCs /\ pc[t] \in Outside /\ l \in Outside
    BY <1>1 DEF Outside, TeardownPCs, PCs
  <1> QED BY <1>1, <1>2, <1>3, <1>4, MoveThread

LEMMA CallMovesKeepIInv ==
    ASSUME IInv, NEW t \in Threads,
           \/ StartWait(t) \/ StartAlready(t)
           \/ StopNothing(t) \/ StopJoin(t) \/ StopJoined(t)
    PROVE  IInv'
  <1>1. /\ UNCHANGED <<local, member, live, gen, mIsRunning, mIsStopping, mInCallback,
                       mCallbackThreadId, mLastStartFailure, warm, streamed,
                       mSessionClosed, sessState>>
        /\ pc[t] \in {"idle", "start", "stop", "stopWait"}
    <2>1. CASE StartWait(t)
      BY <2>1 DEF StartWait, handleVars, flagVars, callbackVars, startVars
    <2>2. CASE StartAlready(t)
      BY <2>2 DEF StartAlready, handleVars, flagVars, callbackVars, startVars
    <2>3. CASE StopNothing(t)
      BY <2>3 DEF StopNothing, Enters, handleVars, flagVars, callbackVars, startVars
    <2>4. CASE StopJoin(t)
      BY <2>4 DEF StopJoin, Enters, handleVars, flagVars, callbackVars, startVars
    <2>5. CASE StopJoined(t)
      BY <2>5 DEF StopJoined, handleVars, flagVars, callbackVars, startVars
    <2> QED BY <2>1, <2>2, <2>3, <2>4, <2>5
  <1>2. PICK l \in {"idle", "start", "inCallback", "stopWait"} :
            /\ Goto(t, l)
            /\ l # "idle" /\ t \notin Clients => pc[t] \in {"stop", "stopWait"}
    BY DEF StartWait, MayStart, StartAlready, StopNothing, StopJoin, StopJoined,
           Enters, Return, Resume
  <1>3. call[t] = "none"
    BY <1>1 DEF IInv, PhasesOK, TeardownPCs
  <1>4. call' = call
    <2>1. [call EXCEPT ![t] = "none"] = call
      BY <1>3 DEF IInv, TypeOK
    <2> QED BY <2>1 DEF StartWait, StartAlready, StopNothing, StopJoin, StopJoined, Return
  <1>5. /\ l \in PCs /\ pc[t] \in Outside /\ l \in Outside
        /\ mSessionClosed' \in BOOLEAN /\ sessState' \in [Gens -> SessStates]
    BY <1>1 DEF Outside, TeardownPCs, PCs, IInv, TypeOK
  <1>6. \A g \in Gens : t = Listener(g) /\ l # "idle" =>
            /\ g = gen /\ mInCallback
            /\ \/ <<"rdr", g>> \in member
               \/ \E u \in Threads : call[u] = "stop" /\ <<"rdr", g>> \in local[u]
    BY <1>2, ThreadNames, ListenerKept
  <1>7. \A g \in Gens : t = Listener(g) /\ l \in InFrameCallback => pc[t] \in InFrameCallback
    BY <1>2, ThreadNames DEF InFrameCallback
  <1> QED BY <1>1, <1>2, <1>4, <1>5, <1>6, <1>7, MoveThread

LEMMA TeardownWaitedKeepsIInv ==
    ASSUME IInv, NEW t \in Threads, TeardownWaited(t) PROVE IInv'
  <1>1. /\ pc[t] = "waitClosed" /\ Goto(t, "free")
        /\ UNCHANGED <<call, local, member, live, gen, mIsRunning, mIsStopping,
                       mInCallback, mCallbackThreadId, mLastStartFailure, warm,
                       streamed, mSessionClosed, sessState>>
    BY DEF TeardownWaited, handleVars, flagVars, callbackVars, startVars
  <1>2. /\ pc[t] \in TeardownPCs /\ "free" \in TeardownPCs /\ "free" \in PCs
        /\ "free" \notin InFrameCallback
        /\ mSessionClosed' \in BOOLEAN /\ sessState' \in [Gens -> SessStates]
    BY <1>1 DEF TeardownPCs, PCs, InFrameCallback, IInv, TypeOK
  <1>3. \A g \in Gens : t = Listener(g) =>
            /\ g = gen /\ mInCallback
            /\ \/ <<"rdr", g>> \in member
               \/ \E u \in Threads : call[u] = "stop" /\ <<"rdr", g>> \in local[u]
    BY <1>1, ListenerKept
  <1> QED BY <1>1, <1>2, <1>3, MoveThread

LEMMA FrameKeepsIInv ==
    ASSUME IInv, WarmUpAtHalStart \/ UNCHANGED vars PROVE IInv'
  <1>1. /\ UNCHANGED <<pc, call, local, member, live, gen, mIsRunning, mIsStopping,
                       mInCallback, mCallbackThreadId, mLastStartFailure, streamed,
                       mSessionClosed, sessState>>
        /\ warm' \in {"pending", "valid", "invalid"}
    BY DEF ProbeVerdicts, WarmUpAtHalStart, IInv, TypeOK, vars, threadVars, handleVars, flagVars,
           callbackVars, startVars
  <1>2. TypeOK' /\ HandlesBalanced' /\ RunningIsComplete'
    BY <1>1 DEF IInv, TypeOK, HandlesBalanced, RunningIsComplete
  <1>3. PhasesOK' /\ OneStopper' /\ MembersOwned' /\ NoFutureHandles'
    BY <1>1 DEF IInv, PhasesOK, OneStopper, MembersOwned, NoFutureHandles
  <1>4. FailedNeverStreamed' /\ ActiveListener' /\ CallbackGuarded'
    BY <1>1 DEF IInv, FailedNeverStreamed, ActiveListener, CallbackGuarded, Delivering
  <1> QED BY <1>2, <1>3, <1>4 DEF IInv

-----------------------------------------------------------------------------
(* Every step of the backend, of any thread, keeps the inductive invariant. *)
THEOREM NextIInv == IInv /\ [Next]_vars => IInv'
  <1> SUFFICES ASSUME IInv, [Next]_vars PROVE IInv'
    OBVIOUS
  <1>1. CASE WarmUpAtHalStart \/ UNCHANGED vars
    BY <1>1, FrameKeepsIInv
  <1>2. ASSUME NEW t \in Threads, Proceed(t) PROVE IInv'
    <2>1. CASE StartWait(t) \/ StartAlready(t) \/ StopNothing(t) \/ StopJoin(t)
               \/ StopJoined(t)
      BY <2>1, CallMovesKeepIInv
    <2>2. CASE StartBody(t)
      BY <2>2, StartBodyKeepsIInv
    <2>3. CASE StopBody(t)
      BY <2>3, StopBodyKeepsIInv
    <2>4. CASE StopDeferred(t)
      BY <2>4, StopDeferredKeepsIInv
    <2>5. CASE StopDrained(t)
      BY <2>5, StopDrainedKeepsIInv
    <2>6. CASE TeardownClose(t)
      BY <2>6, TeardownCloseKeepsIInv
    <2>7. CASE TeardownWaited(t)
      BY <2>7, TeardownWaitedKeepsIInv
    <2>8. CASE TeardownFree(t)
      BY <2>8, TeardownFreeKeepsIInv
    <2>9. CASE TeardownDone(t)
      BY <2>9, TeardownDoneKeepsIInv
    <2> QED BY <1>2, <2>1, <2>2, <2>3, <2>4, <2>5, <2>6, <2>7, <2>8, <2>9 DEF Proceed
  <1>3. ASSUME NEW g \in Gens, ImageAvailable(g) \/ ListenerStep(g) PROVE IInv'
    <2>1. CASE ImageAvailable(g)
      BY <2>1, ImageAvailableKeepsIInv
    <2>2. CASE GuardEnter(g)
      BY <2>2, GuardEnterKeepsIInv
    <2>3. CASE GuardExit(g)
      BY <2>3, GuardExitKeepsIInv
    <2>4. CASE AcquireImage(g) \/ DeliverFrame(g) \/ CallbackEnds(g)
      BY <2>4, ListenerStepKeepsIInv
    <2> QED BY <1>3, <2>1, <2>2, <2>3, <2>4 DEF ListenerStep
  <1>4. ASSUME NEW g \in Gens, DeviceGone(g) \/ OnSessionClosed(g) PROVE IInv'
    BY <1>4, EventKeepsIInv
  <1> QED BY <1>1, <1>2, <1>3, <1>4 DEF Next

(* The inductive invariant holds in every reachable state. *)
THEOREM Invariance == Spec => []IInv
  <1> QED BY InitIInv, NextIInv, PTL DEF Spec

(* The members keep their types. *)
THEOREM TypeCorrect == Spec => []TypeOK
  <1>1. IInv => TypeOK
    BY DEF IInv
  <1> QED BY <1>1, Invariance, PTL

(* No NDK object leaks and none is freed twice, whatever start() fails at.  *)
THEOREM NoLeak == Spec => []HandlesBalanced
  <1>1. IInv => HandlesBalanced
    BY DEF IInv
  <1> QED BY <1>1, Invariance, PTL

(* A running stream owns all its handles. *)
THEOREM Complete == Spec => []RunningIsComplete
  <1>1. IInv => RunningIsComplete
    BY DEF IInv
  <1> QED BY <1>1, Invariance, PTL

(* A thread in onImageAvailable() uses the reader of the current stream,    *)
(* and that reader exists.                                                 *)
THEOREM CurrentListener == Spec => []ListenerIsCurrent
  <1>1. IInv => ListenerIsCurrent
    BY DEF IInv, ActiveListener, HandlesBalanced, ListenerIsCurrent
  <1> QED BY <1>1, Invariance, PTL

(* After stop() no frame callback executes until the next start(). *)
THEOREM Quiescence == Spec => []StopQuiesces
  <1>1. IInv => StopQuiesces
    BY ThreadNames DEF IInv, CallbackGuarded, Delivering, OneStopper, PhasesOK, StopQuiesces
  <1> QED BY <1>1, Invariance, PTL

(* One teardown() of a stop() at a time, never beside the frame callback. *)
THEOREM TeardownAlone == Spec => []TeardownExcludesCallback
  <1>1. ASSUME IInv PROVE TeardownExcludesCallback
    <2> SUFFICES ASSUME NEW t \in Threads, TearingDown(t)
                 PROVE  /\ mIsStopping /\ member = {}
                        /\ \A g \in Gens : ~Delivering(g)
                        /\ \A u \in Threads : TearingDown(u) => u = t
      BY DEF TeardownExcludesCallback
    <2>1. /\ mIsStopping /\ ~mIsRunning
          /\ \A u \in Threads : call[u] = "stop" => u = t
      BY <1>1 DEF TearingDown, IInv, OneStopper
    <2>2. \A u \in Threads : pc[u] # "drain"
      BY <1>1, <2>1 DEF TearingDown, IInv, PhasesOK
    <2>3. member = {}
      BY <1>1, <2>1, <2>2 DEF IInv, MembersOwned
    <2>4. \A g \in Gens : ~Delivering(g)
      BY <1>1, <2>1, <2>2 DEF IInv, CallbackGuarded, Delivering
    <2> QED BY <2>1, <2>3, <2>4 DEF TearingDown
  <1> QED BY <1>1, Invariance, PTL

-----------------------------------------------------------------------------
(* No object is freed before one that was created from it. *)

LEMMA HandlePairs ==
    ASSUME NEW held \in SUBSET Handles
    PROVE  \A h \in held : h = <<h[1], h[2]>> /\ h[1] \in Kinds
BY DEF Handles

(* start() fills the members in the order of their dependences. *)
LEMMA OutcomesWhole ==
    ASSUME NEW o \in StartOutcomes, NEW g PROVE Whole(o.held \X {g})
  <1>1. \A k \in o.held : DependsOn(k) \subseteq o.held
    BY DEF StartOutcomes, Opened, DependsOn, Kinds
  <1> QED BY <1>1 DEF Whole

LEMMA TakeWhole ==
    ASSUME IInv, NEW t \in Threads, NEW held, TakeMembers(t, held), OwnersWhole, Whole(held)
    PROVE  OwnersWhole'
  <1>1. /\ local' = [local EXCEPT ![t] = held] /\ member' = {}
        /\ pc' = [pc EXCEPT ![t] = "close"]
    BY DEF TakeMembers, Goto
  <1>2. \A u \in Threads : /\ local'[u] = IF u = t THEN held ELSE local[u]
                           /\ pc'[u] = IF u = t THEN "close" ELSE pc[u]
    BY <1>1 DEF IInv, TypeOK
  <1> QED BY <1>1, <1>2 DEF OwnersWhole, Whole, Holds

(* Each step of a free leaves the rest whole: nothing held depends on what is *)
(* freed next.                                                             *)
LEMMA FreeWhole ==
    ASSUME IInv, NEW t \in Threads, Whole(local[t]), ~Holds(t, "sess")
    PROVE  Whole(local[t] \ NextFree(t))
  <1> DEFINE L == local[t]
  <1>0. L \in SUBSET Handles
    BY DEF IInv, TypeOK
  <1>1. SUFFICES ASSUME NEW h \in L \ NextFree(t), NEW k \in DependsOn(h[1]),
                        <<k, h[2]>> \in NextFree(t)
                 PROVE  FALSE
    BY DEF Whole
  <1>2. PICK i \in 1..4 : /\ k \in FreeOrder[i]
                          /\ \A j \in 1..(i - 1) : \A m \in FreeOrder[j] : ~Holds(t, m)
    BY <1>1 DEF NextFree, FreeOrder
  <1>3. Holds(t, h[1]) /\ h[1] \in Kinds /\ h[1] # "sess"
    BY <1>0 DEF Holds, Handles
  <1>4. /\ FreeOrder[1] = {"tgt", "req", "outC", "out"} /\ FreeOrder[2] = {"dev"}
        /\ FreeOrder[3] = {"rdr"} /\ FreeOrder[4] = {"mgr"}
    BY DEF FreeOrder
  <1>5. /\ h[1] \in {"out", "tgt", "dev", "req"}
        /\ h[1] \in {"out", "tgt"} => k = "rdr"
        /\ h[1] = "dev" => k = "mgr"
        /\ h[1] = "req" => k = "dev"
    BY <1>3 DEF DependsOn, Kinds
  <1>6. CASE h[1] \in {"out", "tgt"}
    <2>1. i = 3
      BY <1>2, <1>4, <1>5, <1>6
    <2> QED BY <1>2, <1>3, <1>4, <1>6, <2>1
  <1>7. CASE h[1] = "dev"
    <2>1. i = 4
      BY <1>2, <1>4, <1>5, <1>7
    <2> QED BY <1>2, <1>3, <1>4, <1>7, <2>1
  <1>8. CASE h[1] = "req"
    <2>1. i = 2
      BY <1>2, <1>4, <1>5, <1>8
    <2> QED BY <1>2, <1>3, <1>4, <1>8, <2>1
  <1> QED BY <1>5, <1>6, <1>7, <1>8

LEMMA OwnersStep ==
    ASSUME IInv, OwnersWhole, [Next]_vars PROVE OwnersWhole'
  <1> USE DEF handleVars
  <1>1. CASE WarmUpAtHalStart \/ UNCHANGED vars
    BY <1>1 DEF WarmUpAtHalStart, vars, threadVars, OwnersWhole, Whole, Holds
  <1>2. ASSUME NEW t \in Threads, StartBody(t) PROVE OwnersWhole'
    <2>1. PICK o \in StartOutcomes :
              LET acquired == o.held \X {gen + 1}
                  kept == {h \in member : h[1] \notin o.held}
              IN  IF o.code = "none"
                  THEN member' = kept \cup acquired /\ Goto(t, "idle") /\ UNCHANGED local
                  ELSE TakeMembers(t, kept \cup acquired)
      BY <1>2 DEF StartBody
    <2>2. member = {}
      BY <1>2 DEF StartBody, StartReady, IInv, MembersOwned, OneStopper, PhasesOK
    <2>3. Whole(o.held \X {gen + 1})
      BY OutcomesWhole
    <2>4. CASE o.code = "none"
      <3>1. member' = o.held \X {gen + 1} /\ pc' = [pc EXCEPT ![t] = "idle"] /\ local' = local
        BY <2>1, <2>2, <2>4 DEF Goto
      <3>2. \A u \in Threads : pc'[u] = IF u = t THEN "idle" ELSE pc[u]
        BY <3>1 DEF IInv, TypeOK
      <3> QED BY <2>3, <3>1, <3>2 DEF OwnersWhole, Whole, Holds
    <2>5. CASE o.code # "none"
      <3>1. TakeMembers(t, o.held \X {gen + 1})
        BY <2>1, <2>2, <2>5
      <3> QED BY <2>3, <3>1, TakeWhole
    <2> QED BY <2>4, <2>5
  <1>3. ASSUME NEW t \in Threads, StopDrained(t) PROVE OwnersWhole'
    BY <1>3, TakeWhole DEF StopDrained, OwnersWhole
  <1>4. ASSUME NEW t \in Threads, TeardownClose(t) PROVE OwnersWhole'
    <2>1. pc \in [Threads -> PCs] /\ local \in [Threads -> SUBSET Handles]
      BY DEF IInv, TypeOK
    <2>2. CASE Holds(t, "sess")
      <3>1. /\ pc' = [pc EXCEPT ![t] = "waitClosed"] /\ member' = member
            /\ local' = [local EXCEPT ![t] = {h \in @ : h[1] # "sess"}]
        BY <1>4, <2>2 DEF TeardownClose, Goto
      <3>2. \A u \in Threads :
                /\ local'[u] = IF u = t THEN {h \in local[u] : h[1] # "sess"} ELSE local[u]
                /\ pc'[u] = IF u = t THEN "waitClosed" ELSE pc[u]
        BY <2>1, <3>1
      <3>3. \A k \in Kinds : "sess" \notin DependsOn(k)
        BY DEF DependsOn, Kinds
      <3>4. Whole(local[t]) /\ \A h \in local[t] : h[1] \in Kinds
        BY <2>1, HandlePairs DEF OwnersWhole
      <3>5. Whole({h \in local[t] : h[1] # "sess"})
        BY <3>3, <3>4 DEF Whole
      <3>6. \A u \in Threads : Whole(local'[u])
        BY <3>2, <3>5 DEF OwnersWhole
      <3>7. \A u \in Threads :
                pc'[u] \in {"waitClosed", "free"} => \A h \in local'[u] : h[1] # "sess"
        BY <3>2 DEF OwnersWhole, Holds
      <3> QED BY <3>1, <3>6, <3>7 DEF OwnersWhole, Whole, Holds
    <2>3. CASE ~Holds(t, "sess")
      <3>1. pc' = [pc EXCEPT ![t] = "free"] /\ local' = local /\ member' = member
        BY <1>4, <2>3 DEF TeardownClose, Goto
      <3> QED BY <2>1, <2>3, <3>1 DEF OwnersWhole, Whole, Holds
    <2> QED BY <2>2, <2>3
  <1>5. ASSUME NEW t \in Threads, TeardownFree(t) PROVE OwnersWhole'
    <2>1. /\ pc[t] = "free" /\ pc' = pc /\ member' = member
          /\ local' = [local EXCEPT ![t] = @ \ NextFree(t)]
      BY <1>5 DEF TeardownFree
    <2>2. \A u \in Threads :
              local'[u] = IF u = t THEN local[u] \ NextFree(t) ELSE local[u]
      BY <2>1 DEF IInv, TypeOK
    <2>3. Whole(local[t] \ NextFree(t))
      BY <2>1, FreeWhole DEF OwnersWhole
    <2> QED BY <2>1, <2>2, <2>3 DEF OwnersWhole, Whole, Holds
  <1>6. ASSUME NEW t \in Threads, TeardownWaited(t) PROVE OwnersWhole'
    BY <1>6 DEF TeardownWaited, Goto, OwnersWhole, Whole, Holds, IInv, TypeOK
  <1>7. ASSUME NEW t \in Threads,
               \/ StartWait(t) \/ StartAlready(t) \/ StopNothing(t) \/ StopJoin(t) \/ StopJoined(t)
               \/ StopBody(t) \/ StopDeferred(t) \/ TeardownDone(t)
        PROVE  OwnersWhole'
    <2>1. UNCHANGED <<member, local>>
      BY <1>7 DEF StartWait, StartAlready, StopNothing, StopJoin, StopJoined, StopBody,
         StopDeferred, TeardownDone
    <2>2. \A u \in Threads : pc'[u] \in {"waitClosed", "free"} => pc'[u] = pc[u]
      <3>1. CASE StopDeferred(t)
        BY <3>1 DEF StopDeferred, Resume, IInv, TypeOK
      <3>2. CASE ~StopDeferred(t)
        <4>1. PICK l \in {"idle", "start", "inCallback", "stopWait", "drain"} :
                  pc' = [pc EXCEPT ![t] = l]
          BY <1>7, <3>2 DEF StartWait, StartAlready, StopNothing, StopJoin, StopJoined, StopBody,
             TeardownDone, Return, Resume, Goto
        <4> QED BY <4>1 DEF IInv, TypeOK
      <3> QED BY <3>1, <3>2
    <2> QED BY <2>1, <2>2 DEF OwnersWhole, Whole, Holds
  <1>8. ASSUME NEW g \in Gens,
               ImageAvailable(g) \/ ListenerStep(g) \/ DeviceGone(g) \/ OnSessionClosed(g)
        PROVE  OwnersWhole'
    <2>1. UNCHANGED <<member, local>>
      BY <1>8 DEF ImageAvailable, ListenerStep, GuardEnter, AcquireImage, DeliverFrame,
         CallbackEnds, GuardExit, DeviceGone, OnSessionClosed
    <2>2. PICK t \in {Listener(g), DeviceThread(g), SessionThread(g)}, l \in PCs :
              pc' = [pc EXCEPT ![t] = l] /\ l \notin {"waitClosed", "free"}
      <3>1. CASE ImageAvailable(g) \/ ListenerStep(g)
        BY <3>1 DEF ImageAvailable, ListenerStep, GuardEnter, AcquireImage, PackVerdicts,
           DeliverFrame, AfterSecondCheck, CallbackEnds, GuardExit, Goto, PCs
      <3>2. CASE DeviceGone(g) \/ OnSessionClosed(g)
        BY <3>2 DEF DeviceGone, OnSessionClosed, Goto, PCs
      <3> QED BY <1>8, <3>1, <3>2
    <2> QED BY <2>1, <2>2 DEF OwnersWhole, Whole, Holds, IInv, TypeOK
  <1> QED BY <1>1, <1>2, <1>3, <1>4, <1>5, <1>6, <1>7, <1>8 DEF Next, Proceed

(* teardown() never frees an object before one that was created from it, at  *)
(* whatever stage start() failed and whichever threads tear down.          *)
THEOREM FreeingOrder == Spec => []FreedInOrder
  <1>1. Init => OwnersWhole
    BY DEF Init, OwnersWhole, Whole, Holds
  <1>2. IInv /\ OwnersWhole /\ [Next]_vars => OwnersWhole'
    BY OwnersStep
  <1>3. IInv /\ OwnersWhole => FreedInOrder
    <2> SUFFICES ASSUME IInv, OwnersWhole, NEW h \in live, NEW k \in DependsOn(h[1])
                 PROVE  <<k, h[2]>> \in live
      BY DEF FreedInOrder
    <2>1. live = member \cup UNION {local[t] : t \in Threads}
      BY DEF IInv, HandlesBalanced
    <2>2. CASE h \in member
      BY <2>1, <2>2 DEF OwnersWhole, Whole
    <2>3. ASSUME NEW t \in Threads, h \in local[t] PROVE <<k, h[2]>> \in live
      BY <2>1, <2>3 DEF OwnersWhole, Whole
    <2> QED BY <2>1, <2>2, <2>3
  <1> QED BY <1>1, <1>2, <1>3, Invariance, PTL DEF Spec

-----------------------------------------------------------------------------
(* teardown() waits for the session it closed.                             *)

(* The failures that leave a session to teardown() are two. *)
LEMMA SessionOutcomes ==
    ASSUME NEW o \in StartOutcomes, "sess" \in o.held
    PROVE  {"out", "outC"} \subseteq o.held /\ o.code \in {"request", "streaming", "none"}
  BY DEF StartOutcomes, Opened, Kinds

(* While start() may run, every session is closed: the owner of another would  *)
(* be a stop(), for which start() waits, or a second failing start().        *)
LEMMA StartsClosed ==
    ASSUME ClosesAlone, IInv, OneUnclosed, NEW t \in Threads, StartBody(t), NEW g \in Gens
    PROVE  ~Unclosed(g)
  <1>1. /\ member = {} /\ ~mIsStopping /\ t \in Clients /\ pc[t] \in {"idle", "start"}
    BY DEF StartBody, StartReady, MayStart, IInv, MembersOwned, OneStopper, PhasesOK
  <1>2. ASSUME NEW u \in Threads, AwaitsClose(u, g) PROVE FALSE
    <2>1. call[u] = "start" /\ u \in Clients /\ pc[u] \in {"close", "waitClosed"}
      BY <1>1, <1>2 DEF AwaitsClose, IInv, TypeOK, PhasesOK, TeardownPCs, OneStopper
    <2>2. CASE \A c, d \in Clients : c = d
      BY <1>1, <2>1, <2>2
    <2>3. CASE FailureStages \cap {"request", "streaming"} = {}
      BY <1>2, <2>1, <2>3 DEF OneUnclosed, AwaitsClose, Holds
    <2> QED BY <2>2, <2>3 DEF ClosesAlone
  <1> QED BY <1>1, <1>2 DEF OneUnclosed

(* A step that moves one thread, neither into nor out of the wait, and touches *)
(* no handle and no session.                                               *)
LEMMA MoveKeepsUnclosed ==
    ASSUME IInv, OneUnclosed, UNCHANGED <<member, local, sessState>>,
           mSessionClosed' => mSessionClosed,
           \A u \in Threads :
               pc'[u] = pc[u] \/ {pc[u], pc'[u]} \cap {"close", "waitClosed"} = {},
           \A u \in Threads : call'[u] = "start" => call[u] = "start"
    PROVE  OneUnclosed'
  <1>1. \A g \in Gens : Unclosed(g)' <=> Unclosed(g)
    BY DEF Unclosed
  <1>2. \A u \in Threads, g \in Gens : AwaitsClose(u, g) => AwaitsClose(u, g)'
    BY DEF AwaitsClose
  <1>3. \A u \in Threads : pc'[u] = "waitClosed" => pc[u] = "waitClosed"
    OBVIOUS
  <1> QED BY <1>1, <1>2, <1>3 DEF OneUnclosed, Holds

LEMMA UnclosedStart ==
    ASSUME ClosesAlone, IInv, OneUnclosed, NEW t \in Threads, StartBody(t)
    PROVE  OneUnclosed'
  <1>1. PICK o \in StartOutcomes :
            LET acquired == o.held \X {gen + 1}
                kept == {h \in member : h[1] \notin o.held}
            IN  /\ o.code \in FailureStages \cup {"none"}
                /\ sessState' = IF "sess" \in o.held
                                THEN [sessState EXCEPT ![gen + 1] = "open"] ELSE sessState
                /\ mSessionClosed' = ClosedAfterStart(o.held)
                /\ IF o.code = "none"
                   THEN member' = kept \cup acquired /\ Goto(t, "idle") /\ UNCHANGED <<call, local>>
                   ELSE TakeMembers(t, kept \cup acquired) /\ call' = [call EXCEPT ![t] = "start"]
    BY DEF StartBody, OutcomeAllowed
  <1> DEFINE acquired == o.held \X {gen + 1}
  <1>2. member = {} /\ pc[t] \in {"idle", "start"} /\ gen + 1 \in Gens
    BY MaxStartsAssumption DEF StartBody, StartReady, MayStart, IInv, TypeOK, MembersOwned,
       OneStopper, PhasesOK, Gens
  <1>3. \A g \in Gens : ~Unclosed(g)
    BY StartsClosed
  <1>4. \A g \in Gens : Unclosed(g)' => "sess" \in o.held /\ g = gen + 1 /\ sessState'[g] = "open"
    BY <1>1, <1>3 DEF Unclosed, IInv, TypeOK
  <1>5. "sess" \in o.held => ~mSessionClosed'
    BY <1>1, SessionOutcomes DEF ClosedAfterStart
  <1>6. CASE o.code = "none"
    <2>1. member' = acquired /\ local' = local /\ call' = call /\ pc' = [pc EXCEPT ![t] = "idle"]
      BY <1>1, <1>2, <1>6 DEF Goto
    <2>2. "sess" \in o.held => <<"sess", gen + 1>> \in member'
      BY <2>1
    <2>3. \A u \in Threads : pc'[u] = "waitClosed" => pc[u] = "waitClosed"
      BY <2>1 DEF IInv, TypeOK
    <2> QED BY <1>4, <1>5, <2>1, <2>2, <2>3 DEF OneUnclosed, Holds
  <1>7. CASE o.code # "none"
    <2>1. /\ local' = [local EXCEPT ![t] = acquired] /\ pc' = [pc EXCEPT ![t] = "close"]
          /\ call' = [call EXCEPT ![t] = "start"]
      BY <1>1, <1>2, <1>7 DEF TakeMembers, Goto
    <2>2. \A u \in Threads :
              /\ local'[u] = IF u = t THEN acquired ELSE local[u]
              /\ pc'[u] = IF u = t THEN "close" ELSE pc[u]
              /\ call'[u] = IF u = t THEN "start" ELSE call[u]
      BY <2>1 DEF IInv, TypeOK
    <2>3. \A g \in Gens : Unclosed(g)' => AwaitsClose(t, g)'
      BY <1>4, <2>2 DEF AwaitsClose
    <2>4. FailureStages \cap {"request", "streaming"} = {} => "sess" \notin o.held
      BY <1>1, <1>7, SessionOutcomes
    <2>5. FailureStages \cap {"request", "streaming"} = {} =>
              \A u \in Threads : call'[u] = "start" =>
                  ~(\E h \in local'[u] : h[1] = "sess") /\ pc'[u] # "waitClosed"
      BY <2>2, <2>4 DEF OneUnclosed, Holds
    <2> QED BY <1>4, <1>5, <2>3, <2>5 DEF OneUnclosed, Holds
  <1> QED BY <1>6, <1>7

LEMMA UnclosedTeardown ==
    ASSUME ClosesInTime, IInv, OwnersWhole, OneUnclosed, NEW t \in Threads,
           StopDrained(t) \/ TeardownClose(t) \/ TeardownWaited(t) \/ TeardownFree(t)
    PROVE  OneUnclosed'
  <1> USE DEF handleVars
  <1>0. /\ pc \in [Threads -> PCs] /\ local \in [Threads -> SUBSET Handles]
        /\ sessState \in [Gens -> SessStates]
    BY DEF IInv, TypeOK
  <1>1. CASE StopDrained(t)
    <2>1. /\ local' = [local EXCEPT ![t] = member] /\ member' = {}
          /\ pc' = [pc EXCEPT ![t] = "close"]
          /\ pc[t] = "drain" /\ UNCHANGED <<call, mSessionClosed, sessState>>
      BY <1>1 DEF StopDrained, Drained, TakeMembers, Goto
    <2>2. \A u \in Threads : /\ local'[u] = IF u = t THEN member ELSE local[u]
                             /\ pc'[u] = IF u = t THEN "close" ELSE pc[u]
      BY <1>0, <2>1
    <2>3. \A g \in Gens : <<"sess", g>> \in member /\ sessState[g] = "open" => AwaitsClose(t, g)'
      BY <2>1, <2>2 DEF AwaitsClose
    <2>4. \A g \in Gens, u \in Threads : AwaitsClose(u, g) => AwaitsClose(u, g)'
      BY <2>1, <2>2 DEF AwaitsClose
    <2>5. \A g \in Gens : Unclosed(g)' <=> Unclosed(g)
      BY <2>1 DEF Unclosed
    <2>6. call[t] = "stop"
      BY <2>1 DEF IInv, PhasesOK
    <2>7. FailureStages \cap {"request", "streaming"} = {} =>
              \A u \in Threads : call'[u] = "start" => ~Holds(u, "sess")' /\ pc'[u] # "waitClosed"
      BY <2>1, <2>2, <2>6 DEF OneUnclosed, Holds
    <2>8. \A g \in Gens : Unclosed(g)' =>
              ~mSessionClosed' /\ \E u \in Threads : AwaitsClose(u, g)'
      BY <2>1, <2>3, <2>4, <2>5 DEF OneUnclosed
    <2> QED BY <2>5, <2>7, <2>8 DEF OneUnclosed
  <1>2. CASE TeardownClose(t) /\ Holds(t, "sess")
    <2>1. /\ pc[t] = "close" /\ pc' = [pc EXCEPT ![t] = "waitClosed"]
          /\ sessState' = [g \in Gens |-> IF <<"sess", g>> \in local[t] /\ sessState[g] = "open"
                                          THEN "closing" ELSE sessState[g]]
          /\ local' = [local EXCEPT ![t] = {h \in @ : h[1] # "sess"}]
          /\ UNCHANGED <<call, member, mSessionClosed>>
      BY <1>2 DEF TeardownClose, Goto
    <2>2. \A u \in Threads :
              /\ local'[u] = IF u = t THEN {h \in local[u] : h[1] # "sess"} ELSE local[u]
              /\ pc'[u] = IF u = t THEN "waitClosed" ELSE pc[u]
      BY <1>0, <2>1
    <2>0. \A g \in Gens : sessState'[g] = IF <<"sess", g>> \in local[t] /\ sessState[g] = "open"
                                         THEN "closing" ELSE sessState[g]
      BY <2>1
    <2>3. \A g \in Gens : Unclosed(g)' <=> Unclosed(g)
      BY <2>0 DEF Unclosed
    <2>4. \A g \in Gens, u \in Threads :
              u # t /\ AwaitsClose(u, g) => AwaitsClose(u, g)'
      <3> SUFFICES ASSUME NEW g \in Gens, NEW u \in Threads, u # t, AwaitsClose(u, g)
                   PROVE  AwaitsClose(u, g)'
        OBVIOUS
      <3>1. local[u] \cap local[t] = {}
        BY DEF IInv, HandlesBalanced
      <3>2. sessState'[g] = sessState[g]
        BY <2>1, <3>1 DEF AwaitsClose
      <3> QED BY <2>2, <3>2 DEF AwaitsClose
    <2>5. \A g \in Gens : AwaitsClose(t, g) => AwaitsClose(t, g)'
      <3> SUFFICES ASSUME NEW g \in Gens, AwaitsClose(t, g) PROVE AwaitsClose(t, g)'
        OBVIOUS
      <3>1. <<"sess", g>> \in local[t] /\ sessState[g] = "open"
        BY <2>1 DEF AwaitsClose
      <3>2. <<"dev", g>> \in local[t]
        BY <3>1 DEF OwnersWhole, Whole, DependsOn
      <3>3. <<"dev", g>> \in local'[t] /\ pc'[t] = "waitClosed"
        BY <2>2, <3>2
      <3> QED BY <2>0, <3>1, <3>3 DEF AwaitsClose
    <2>6. \A g \in Gens : <<"sess", g>> \in member => sessState'[g] = sessState[g]
      BY <2>1 DEF IInv, HandlesBalanced
    <2>7. FailureStages \cap {"request", "streaming"} = {} => call[t] # "start"
      BY <1>2 DEF OneUnclosed
    <2> QED BY <2>1, <2>2, <2>3, <2>4, <2>5, <2>6, <2>7 DEF OneUnclosed, Holds
  <1>3. CASE TeardownClose(t) /\ ~Holds(t, "sess")
    <2>1. /\ pc[t] = "close" /\ pc' = [pc EXCEPT ![t] = "free"]
          /\ UNCHANGED <<call, member, local, sessState, mSessionClosed>>
      BY <1>3 DEF TeardownClose, Goto
    <2>2. \A u \in Threads : pc'[u] = IF u = t THEN "free" ELSE pc[u]
      BY <1>0, <2>1
    <2>3. \A g \in Gens, u \in Threads : AwaitsClose(u, g) => AwaitsClose(u, g)'
      BY <1>3, <2>1, <2>2 DEF AwaitsClose, Holds
    <2> QED BY <2>1, <2>2, <2>3 DEF OneUnclosed, Unclosed, Holds
  <1>4. CASE TeardownWaited(t)
    <2>1. /\ pc[t] = "waitClosed" /\ pc' = [pc EXCEPT ![t] = "free"]
          /\ mSessionClosed \/ \A g \in Gens : <<"dev", g>> \in local[t] => sessState[g] # "closing"
          /\ UNCHANGED <<call, member, local, sessState, mSessionClosed>>
      BY <1>4 DEF TeardownWaited, SecondMayPass, Goto
    <2>2. \A u \in Threads : pc'[u] = IF u = t THEN "free" ELSE pc[u]
      BY <1>0, <2>1
    <2>3. \A g \in Gens, u \in Threads :
              Unclosed(g) /\ AwaitsClose(u, g) => AwaitsClose(u, g)'
      BY <2>1, <2>2 DEF AwaitsClose, OneUnclosed
    <2> QED BY <2>1, <2>2, <2>3 DEF OneUnclosed, Unclosed, Holds
  <1>5. CASE TeardownFree(t)
    <2>1. /\ pc[t] = "free" /\ local' = [local EXCEPT ![t] = @ \ NextFree(t)]
          /\ UNCHANGED <<pc, call, member, sessState, mSessionClosed>>
      BY <1>5 DEF TeardownFree
    <2>2. \A u \in Threads : local'[u] = IF u = t THEN local[u] \ NextFree(t) ELSE local[u]
      BY <1>0, <2>1
    <2>3. \A g \in Gens, u \in Threads : AwaitsClose(u, g) => AwaitsClose(u, g)'
      BY <2>1, <2>2 DEF AwaitsClose
    <2> QED BY <2>1, <2>2, <2>3 DEF OneUnclosed, Unclosed, Holds
  <1> QED BY <1>1, <1>2, <1>3, <1>4, <1>5

(* The one session that is not closed reports it.                          *)
LEMMA UnclosedReport ==
    ASSUME IInv, OneUnclosed, NEW s \in Gens, OnSessionClosed(s)
    PROVE  OneUnclosed'
  <1>1. Unclosed(s) /\ sessState' = [sessState EXCEPT ![s] = "closed"]
    BY DEF OnSessionClosed, Unclosed
  <1>2. \A g \in Gens : ~Unclosed(g)'
    BY <1>1 DEF OneUnclosed, Unclosed, IInv, TypeOK
  <1>3. PICK l \in {"stop", "idle"} : pc' = [pc EXCEPT ![SessionThread(s)] = l]
    BY DEF OnSessionClosed, Goto
  <1>4. \A u \in Threads : pc'[u] = "waitClosed" => pc[u] = "waitClosed"
    BY <1>3 DEF IInv, TypeOK
  <1> QED BY <1>2, <1>4 DEF OneUnclosed, OnSessionClosed, Holds

LEMMA UnclosedMoves ==
    ASSUME IInv, OneUnclosed,
           \/ WarmUpAtHalStart \/ UNCHANGED vars
           \/ \E t \in Threads :
                 \/ StartWait(t) \/ StartAlready(t) \/ StopNothing(t) \/ StopJoin(t)
                 \/ StopJoined(t) \/ StopBody(t) \/ StopDeferred(t) \/ TeardownDone(t)
           \/ \E g \in Gens : ImageAvailable(g) \/ ListenerStep(g) \/ DeviceGone(g)
    PROVE  OneUnclosed'
  <1> DEFINE Moved == \A u \in Threads :
                  pc'[u] = pc[u] \/ {pc[u], pc'[u]} \cap {"close", "waitClosed"} = {}
  <1> USE DEF handleVars
  <1>1. CASE WarmUpAtHalStart \/ UNCHANGED vars
    BY <1>1, MoveKeepsUnclosed DEF WarmUpAtHalStart, vars, threadVars
  <1>2. ASSUME NEW t \in Threads,
               \/ StartWait(t) \/ StartAlready(t) \/ StopNothing(t) \/ StopJoin(t)
               \/ StopJoined(t) \/ StopBody(t) \/ StopDeferred(t) \/ TeardownDone(t)
        PROVE  OneUnclosed'
    <2>1. UNCHANGED <<member, local, sessState, mSessionClosed>>
      BY <1>2 DEF StartWait, StartAlready, StopNothing, StopJoin, StopJoined, StopBody,
         StopDeferred, TeardownDone
    <2>2. Moved
      <3>1. CASE StopDeferred(t)
        <4>1. pc' = [pc EXCEPT ![t] = Resume(t), ![Deferred(gen)] = "drain"] /\ pc[t] = "stop"
          BY <3>1 DEF StopDeferred
        <4>2. PICK g \in Gens : t = Listener(g)
          BY <3>1 DEF StopDeferred, IInv, TypeOK
        <4>3. gen \in Gens
          BY <4>1, <4>2 DEF IInv, ActiveListener
        <4>4. Deferred(gen) \in Threads /\ Deferred(gen) \notin Clients
          BY <4>3, ThreadNames
        <4>5. \A u \in Threads : call[u] # "stop"
          BY <3>1 DEF StopDeferred, Stoppable, IInv, OneStopper
        <4>6. pc[Deferred(gen)] \notin {"close", "waitClosed"}
          BY <4>4, <4>5 DEF IInv, TypeOK, PhasesOK, TeardownPCs
        <4> QED BY <4>1, <4>6 DEF Resume, IInv, TypeOK
      <3>2. CASE ~StopDeferred(t)
        <4>1. PICK l \in {"idle", "start", "inCallback", "stopWait", "drain"} :
                  pc' = [pc EXCEPT ![t] = l] /\ pc[t] \notin {"close", "waitClosed"}
          BY <1>2, <3>2 DEF StartWait, StartAlready, StopNothing, StopJoin, StopJoined, StopBody,
             TeardownDone, Return, Resume, Goto, Enters
        <4> QED BY <4>1 DEF IInv, TypeOK
      <3> QED BY <3>1, <3>2
    <2>3. \A u \in Threads : call'[u] = "start" => call[u] = "start"
      BY <1>2 DEF StartWait, StartAlready, StopNothing, StopJoin, StopJoined, StopBody,
         StopDeferred, TeardownDone, Return, IInv, TypeOK
    <2> QED BY <2>1, <2>2, <2>3, MoveKeepsUnclosed
  <1>3. ASSUME NEW g \in Gens, ImageAvailable(g) \/ ListenerStep(g) \/ DeviceGone(g)
        PROVE  OneUnclosed'
    <2>1. UNCHANGED <<member, local, call, sessState, mSessionClosed>>
      BY <1>3 DEF ImageAvailable, ListenerStep, GuardEnter, AcquireImage, DeliverFrame,
         CallbackEnds, GuardExit, DeviceGone
    <2>2. PICK t \in {Listener(g), DeviceThread(g)}, l \in PCs :
              /\ pc' = [pc EXCEPT ![t] = l] /\ l \notin {"close", "waitClosed"}
              /\ pc[t] \notin {"close", "waitClosed"}
      <3>1. CASE ImageAvailable(g) \/ ListenerStep(g)
        BY <3>1 DEF ImageAvailable, ListenerStep, GuardEnter, AcquireImage, PackVerdicts,
           DeliverFrame, AfterSecondCheck, CallbackEnds, GuardExit, Goto, PCs
      <3>2. CASE DeviceGone(g)
        BY <3>2 DEF DeviceGone, Goto, PCs
      <3> QED BY <1>3, <3>1, <3>2
    <2>3. Moved
      BY <2>2 DEF IInv, TypeOK
    <2> QED BY <2>1, <2>3, MoveKeepsUnclosed
  <1> QED BY <1>1, <1>2, <1>3

(* "prevent race" (the wait in teardown()): with one client, or where no start *)
(* fails after it has created its session, and while closes are answered in  *)
(* time, no device is freed before its own session has reported closed.      *)
THEOREM CloseIsAwaited ==
    ASSUME ClosesInTime, ClosesAlone PROVE Spec => []CloseAcknowledged
  <1>1. Init => OwnersWhole /\ OneUnclosed
    BY DEF Init, OwnersWhole, Whole, Holds, OneUnclosed, Unclosed
  <1>2. IInv /\ OwnersWhole /\ OneUnclosed /\ [Next]_vars => (OwnersWhole /\ OneUnclosed)'
    <2> SUFFICES ASSUME IInv, OwnersWhole, OneUnclosed, [Next]_vars
                 PROVE  (OwnersWhole /\ OneUnclosed)'
      OBVIOUS
    <2>1. OwnersWhole'
      BY OwnersStep
    <2>2. OneUnclosed'
      BY UnclosedMoves, UnclosedStart, UnclosedTeardown, UnclosedReport DEF Next, Proceed
    <2> QED BY <2>1, <2>2
  <1>3. IInv /\ OwnersWhole /\ OneUnclosed => CloseAcknowledged
    <2> SUFFICES ASSUME IInv, OwnersWhole, OneUnclosed, NEW t \in Threads, NEW g \in Gens,
                        pc[t] = "free", <<"dev", g>> \in local[t]
                 PROVE  sessState[g] \in {"none", "closed"}
      BY DEF CloseAcknowledged
    <2>1. /\ local[t] \cap member = {}
          /\ \A u \in Threads : u # t => local[t] \cap local[u] = {}
      BY DEF IInv, HandlesBalanced
    <2>2. <<"sess", g>> \notin member
      BY <2>1 DEF OwnersWhole, Whole, DependsOn
    <2>3. ASSUME NEW u \in Threads, AwaitsClose(u, g) PROVE FALSE
      <3>1. <<"dev", g>> \in local[u]
        BY <2>3 DEF AwaitsClose, OwnersWhole, Whole, DependsOn
      <3> QED BY <2>1, <2>3, <3>1 DEF AwaitsClose
    <2>4. ~Unclosed(g)
      BY <2>2, <2>3 DEF OneUnclosed
    <2> QED BY <2>4 DEF Unclosed, IInv, TypeOK, SessStates
  <1> QED BY <1>1, <1>2, <1>3, Invariance, PTL DEF Spec
=============================================================================
