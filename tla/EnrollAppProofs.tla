--------------------------- MODULE EnrollAppProofs ---------------------------
(***************************************************************************)
(* Proofs about EnrollApp: the invariants of the enrolment screen, of its   *)
(* preview and of the service's end of it, each inductive by itself, hold   *)
(* of their composition.                                                   *)
(***************************************************************************)
EXTENDS EnrollApp, TLAPS

LEMMA Ranges ==
  ASSUME TypeOK
  PROVE  /\ MaxActivities \in Nat /\ MaxResumes \in Nat
         /\ \A a \in Activities : /\ a \in Nat /\ a # 0 /\ a # FinishScreen
                                  /\ a # TryAgain /\ a # TryAgainHidden
         /\ \A e \in Enrolments : e \in Nat
         /\ Elsewhere \notin Activities /\ FinishScreen \notin {TryAgain, TryAgainHidden}
         /\ mToken \subseteq Activities
  BY ActivityBounds DEF Activities, Enrolments, FinishScreen, TryAgain, TryAgainHidden, Elsewhere,
     TypeOK

(* The newest enrolment is the one after which there is none. *)
LEMMA NewestIs ==
  ASSUME NEW a \in Activities, NEW e \in Of(a), \A f \in Of(a) : f <= e
  PROVE  Newest(a) = e
<1>1. Newest(a) \in Of(a) /\ \A f \in Of(a) : f <= Newest(a)
  BY DEF Newest
<1>2. Of(a) \subseteq Nat
  BY ActivityBounds DEF Of, Enrolments
<1> QED BY <1>1, <1>2

LEMMA NewestOfResumed ==
  ASSUME Numbered, NEW a \in Activities, a \in mToken, life[a] = "resumed"
  PROVE  Newest(a) \in Of(a)
BY NewestIs DEF Numbered

-----------------------------------------------------------------------------
(* The enrolment screen. *)

LEMMA ActivityInit == Init => IInv
BY ActivityBounds DEF Init, IInv, TypeOK, Numbered, NoOrphanEnrolment, InFrontWaits, HasCause,
   OneScreen, ResultReachesCaller, Activities, Enrolments, Elsewhere, TryAgainHidden, Of, Finishing

(* What an action that touches neither enrolments nor the end of an activity   *)
(* has left to show.                                                       *)
LEMMA Untouched ==
  ASSUME UNCHANGED <<owner, enrolment>>
  PROVE  /\ \A a \in Activities : Of(a)' = Of(a) /\ Newest(a)' = Newest(a)
         /\ \A a \in Activities : Restarted(a)' <=> Restarted(a)
         /\ \A e \in Enrolments : Told(e)' <=> Told(e)
BY DEF Of, Newest, Restarted, Told

LEMMA CreateStep ==
  ASSUME IInv, NEW a \in Activities, Create(a)
  PROVE  IInv'
<1> USE DEF IInv, Create
<1>1. TypeOK'
  <2>1. a \in Elsewhere..TryAgainHidden
    BY Ranges DEF Elsewhere, TryAgainHidden, Activities
  <2>2. mToken' \subseteq Activities
    BY Ranges
  <2> QED BY <2>1, <2>2 DEF TypeOK
<1>2. Numbered'
  BY Untouched DEF TypeOK, Numbered
<1>3. NoOrphanEnrolment'
  BY Untouched, Ranges DEF TypeOK, NoOrphanEnrolment
<1>4. InFrontWaits'
  BY Untouched, Ranges DEF TypeOK, InFrontWaits, Finishing, Told
<1>5. HasCause' /\ OneScreen' /\ ResultReachesCaller'
  BY Untouched DEF TypeOK, HasCause, OneScreen, ResultReachesCaller, Finishing
<1> QED BY <1>1, <1>2, <1>3, <1>4, <1>5

LEMMA ResumeStep ==
  ASSUME IInv, NEW a \in Activities, Resume(a)
  PROVE  IInv'
<1> USE DEF IInv, Resume
<1>t. CASE a \notin mToken
  <2>1. UNCHANGED <<owner, enrolment>>
    BY <1>t
  <2>2. TypeOK'
    BY <2>1, Ranges DEF TypeOK, ScheduledAtStart, Activities
  <2>3. Numbered' /\ NoOrphanEnrolment'
    BY <1>t, <2>1, Untouched DEF TypeOK, Numbered, NoOrphanEnrolment
  <2>4. InFrontWaits'
    BY <1>t, <2>1 DEF InFrontWaits
  <2>5. HasCause' /\ OneScreen' /\ ResultReachesCaller'
    BY <2>1, Untouched DEF TypeOK, HasCause, OneScreen, ResultReachesCaller, Finishing
  <2> QED BY <2>2, <2>3, <2>4, <2>5
<1> SUFFICES ASSUME a \in mToken PROVE IInv'
  BY <1>t
<1>1. PICK e \in Enrolments :
        /\ owner[e] = 0 /\ \A f \in Enrolments : f < e => owner[f] # 0
        /\ owner' = [owner EXCEPT ![e] = a]
        /\ enrolment' = [enrolment EXCEPT ![e] = "live"]
  OBVIOUS
<1>2. /\ Of(a)' = Of(a) \cup {e} /\ \A f \in Of(a) : f < e
      /\ \A b \in Activities : b # a => Of(b)' = Of(b) /\ Newest(b)' = Newest(b)
  <2>1. \A f \in Of(a) : f < e
    <3> SUFFICES ASSUME NEW f \in Of(a), ~(f < e) PROVE FALSE
      OBVIOUS
    <3>1. f \in Enrolments /\ owner[f] = a /\ a # 0
      BY Ranges DEF Of
    <3>2. e < f
      BY <1>1, <3>1, Ranges
    <3> QED BY <1>1, <3>1, <3>2 DEF Numbered
  <2>2. \A b \in Activities : Of(b)' = IF b = a THEN Of(b) \cup {e} ELSE Of(b)
    BY <1>1, Ranges DEF Of, TypeOK
  <2> QED BY <2>1, <2>2 DEF Newest
<1>3. TypeOK'
  BY <1>1, Ranges DEF TypeOK, ScheduledAtStart, Activities
<1>4. e \in Of(a)' /\ \A f \in Of(a)' : f <= e
  <2>1. \A f \in Of(a) : f \in Nat
    BY Ranges DEF Of
  <2> QED BY <1>2, <2>1, Ranges
<1>5. Numbered'
  <2>1. \A f, g \in Enrolments : f < g /\ owner'[g] # 0 => owner'[f] # 0
    BY <1>1, Ranges DEF Numbered, TypeOK
  <2>2. \A f \in Enrolments : owner'[f] = 0 <=> enrolment'[f] = "none"
    BY <1>1, Ranges DEF Numbered, TypeOK
  <2>3. \A b \in mToken : life'[b] = "resumed" =>
          \E f \in Of(b)' : \A g \in Of(b)' : g <= f
    <3> SUFFICES ASSUME NEW b \in mToken, life'[b] = "resumed"
                 PROVE  \E f \in Of(b)' : \A g \in Of(b)' : g <= f
      OBVIOUS
    <3>1. CASE b = a
      BY <1>4, <3>1
    <3>2. CASE b # a
      BY <1>2, <3>2, Ranges DEF Numbered, TypeOK
    <3> QED BY <3>1, <3>2
  <2> QED BY <2>1, <2>2, <2>3 DEF Numbered
<1>6. Newest(a)' = e
  <2>1. Newest(a)' \in Of(a)' /\ \A f \in Of(a)' : f <= Newest(a)'
    BY <1>4 DEF Newest
  <2>2. Of(a)' \subseteq Nat
    BY Ranges DEF Of
  <2> QED BY <1>4, <2>1, <2>2
<1>7. NoOrphanEnrolment'
  <2> SUFFICES ASSUME NEW b \in Activities, NEW f \in Of(b)', enrolment'[f] = "live",
                      f \notin cancelled
               PROVE  life'[b] = "resumed" /\ f = Newest(b)'
    BY DEF NoOrphanEnrolment
  <2>1. CASE b = a
    <3>1. \A g \in Of(a) : ~(enrolment[g] = "live" /\ g \notin cancelled)
      BY DEF NoOrphanEnrolment
    <3>2. f \in Of(a) => enrolment'[f] = enrolment[f] /\ f # e
      BY <1>1, <1>2, Ranges DEF TypeOK, Of
    <3> QED BY <1>2, <1>6, <2>1, <3>1, <3>2 DEF TypeOK
  <2>2. CASE b # a
    <3>1. f \in Of(b) /\ f # e
      BY <1>1, <1>2, <2>2, Ranges DEF Of
    <3>2. enrolment[f] = "live"
      BY <1>1, <3>1 DEF TypeOK, Of
    <3> QED BY <1>2, <2>2, <3>1, <3>2 DEF TypeOK, NoOrphanEnrolment
  <2> QED BY <2>1, <2>2
<1>8. InFrontWaits'
  <2> SUFFICES ASSUME NEW b \in mToken, life'[b] = "resumed", front' = b
               PROVE  b \notin mFinishScheduled' /\ ~Told(Newest(b))'
    BY DEF InFrontWaits
  <2>1. b = a
    OBVIOUS
  <2> QED BY <1>1, <1>6, <2>1 DEF ScheduledAtStart, Told, TypeOK
<1>9. \A b \in Activities : Of(b) \subseteq Of(b)'
  BY <1>2
<1>10. \A b \in Activities : \A f \in Of(b) : enrolment'[f] = enrolment[f]
  BY <1>1, Ranges DEF Of, TypeOK
<1>11. HasCause'
  BY <1>9, <1>10 DEF HasCause, Finishing
<1>12. OneScreen' /\ ResultReachesCaller'
  BY <1>9 DEF TypeOK, OneScreen, ResultReachesCaller, Restarted
<1> QED BY <1>3, <1>5, <1>7, <1>8, <1>11, <1>12

LEMMA PauseStep ==
  ASSUME IInv, NEW a \in Activities, Pause(a)
  PROVE  IInv'
<1> USE DEF IInv, Pause
<1>2. TypeOK'
  BY Ranges DEF TypeOK, CancelledAtPause, Of, Elsewhere, TryAgainHidden
<1>3. Numbered'
  BY Untouched DEF TypeOK, Numbered
<1>4. NoOrphanEnrolment'
  BY Untouched DEF TypeOK, NoOrphanEnrolment, CancelledAtPause
<1>5. InFrontWaits'
  BY Untouched, Ranges DEF TypeOK, InFrontWaits, Finishing, Told
<1>6. HasCause' /\ OneScreen' /\ ResultReachesCaller'
  BY Untouched DEF TypeOK, HasCause, OneScreen, ResultReachesCaller, Finishing
<1> QED BY <1>2, <1>3, <1>4, <1>5, <1>6

LEMMA DestroyStep ==
  ASSUME IInv, NEW a \in Activities, Destroy(a)
  PROVE  IInv'
<1> USE DEF IInv, Destroy
<1>1. TypeOK' /\ Numbered'
  BY Untouched DEF TypeOK, Numbered
<1>2. NoOrphanEnrolment'
  BY Untouched, Ranges DEF TypeOK, NoOrphanEnrolment, Of, Newest
<1>3. InFrontWaits'
  BY Untouched, Ranges DEF TypeOK, InFrontWaits, Finishing, Told
<1>4. HasCause' /\ OneScreen' /\ ResultReachesCaller'
  BY Untouched DEF TypeOK, HasCause, OneScreen, ResultReachesCaller, Finishing
<1> QED BY <1>1, <1>2, <1>3, <1>4

LEMMA UserSteps ==
  ASSUME IInv, NEW a \in Activities, LeaveTryAgain \/ Leave(a) \/ ComeBack(a) \/ Back(a)
  PROVE  IInv'
<1> USE DEF IInv, LeaveTryAgain, Leave, ComeBack, Back, Finish
<1>1. TypeOK'
  <2>1. front' \in Elsewhere..TryAgainHidden
    BY Ranges DEF TypeOK, Elsewhere, FinishScreen, TryAgainHidden, Activities
  <2>2. finishing' \in [Activities -> {"no", "back", "error", "result"}]
    BY DEF TypeOK
  <2> QED BY <2>1, <2>2 DEF TypeOK
<1>2. Numbered' /\ NoOrphanEnrolment'
  BY Untouched DEF TypeOK, Numbered, NoOrphanEnrolment
<1>3. \A b \in Activities : Finishing(b) => finishing'[b] = finishing[b]
  BY DEF TypeOK, Finishing
<1>4. InFrontWaits'
  BY Untouched, Ranges, <1>3 DEF TypeOK, InFrontWaits, Finishing, Told
<1>5. HasCause'
  BY Untouched, <1>3 DEF TypeOK, HasCause, Finishing
<1>6. OneScreen' /\ ResultReachesCaller'
  BY Untouched, <1>3 DEF TypeOK, OneScreen, ResultReachesCaller, Finishing
<1> QED BY <1>1, <1>2, <1>4, <1>5, <1>6

(* The end of an enrolment on its way, and then told: only how far the         *)
(* enrolment is changes, and what the activity has to show for it.          *)
LEMMA EnrolmentEndsStep ==
  ASSUME IInv, NEW e \in Enrolments, EnrolmentEnds(e)
  PROVE  IInv'
<1> USE DEF IInv, EnrolmentEnds
<1>1. TypeOK'
  BY DEF TypeOK
<1>2. /\ \A a \in Activities : Of(a)' = Of(a) /\ Newest(a)' = Newest(a)
      /\ \A a \in Activities : Restarted(a)' <=> Restarted(a)
      /\ \A f \in Enrolments : Told(f)' => Told(f)
      /\ \A f \in Enrolments : Told(f) => enrolment'[f] = enrolment[f]
      /\ \A f \in Enrolments : enrolment'[f] = "live" => enrolment[f] = "live"
  BY DEF Of, Newest, Restarted, Told, TypeOK
<1>3. Numbered' /\ NoOrphanEnrolment'
  BY <1>2 DEF TypeOK, Numbered, NoOrphanEnrolment, Of
<1>4. InFrontWaits'
  <2> SUFFICES ASSUME NEW a \in mToken, life[a] = "resumed", front = a
               PROVE  \/ Finishing(a) \/ timers[a] > 0
                      \/ a \notin mFinishScheduled /\ ~Told(Newest(a))'
    BY DEF InFrontWaits, Finishing
  <2>1. Newest(a) \in Enrolments
    BY NewestOfResumed, Ranges DEF Of
  <2> QED BY <1>2, <2>1 DEF InFrontWaits, Told, TypeOK
<1>5. HasCause' /\ OneScreen' /\ ResultReachesCaller'
  BY <1>2 DEF TypeOK, HasCause, OneScreen, ResultReachesCaller, Finishing, Of, Told
<1> QED BY <1>1, <1>3, <1>4, <1>5

LEMMA OnCompletedStep ==
  ASSUME IInv, NEW e \in Enrolments, OnCompleted(e)
  PROVE  IInv'
<1> USE DEF IInv, OnCompleted
<1> DEFINE a == owner[e]
<1>1. a \in Activities /\ e \in Of(a)
  BY Ranges DEF Numbered, TypeOK, Activities, Of
<1>2. TypeOK'
  BY <1>1 DEF TypeOK
<1>3. /\ \A b \in Activities : Of(b)' = Of(b) /\ Newest(b)' = Newest(b)
      /\ \A b \in Activities : Restarted(b)' <=> Restarted(b)
      /\ \A f \in Enrolments : f # e => enrolment'[f] = enrolment[f]
      /\ enrolment[e] = "completed" /\ enrolment'[e] = "toldCompleted"
  BY DEF Of, Newest, Restarted, TypeOK
<1>4. Numbered' /\ NoOrphanEnrolment'
  BY <1>3 DEF TypeOK, Numbered, NoOrphanEnrolment, Of
<1>5. \A b \in Activities : b # a => e \notin Of(b) /\ timers'[b] = timers[b]
                                   /\ (b \in mFinishScheduled' <=> b \in mFinishScheduled)
  BY <1>1 DEF Of, TypeOK
<1>6. a \notin mFinishScheduled => timers'[a] = timers[a] + 1
  BY <1>1 DEF TypeOK
<1>7. a \in mFinishScheduled => timers'[a] = timers[a] /\ mFinishScheduled' = mFinishScheduled
  OBVIOUS
<1>8. InFrontWaits'
  <2> SUFFICES ASSUME NEW b \in mToken, life[b] = "resumed", front = b, ~Finishing(b),
                      ~(timers'[b] > 0)
               PROVE  b \notin mFinishScheduled' /\ ~Told(Newest(b))'
    BY DEF InFrontWaits, Finishing
  <2>1. b # a
    BY <1>6, <1>7 DEF InFrontWaits, TypeOK
  <2>2. Newest(b) \in Enrolments /\ Newest(b) # e
    BY <1>5, <2>1, NewestOfResumed, Ranges DEF Of
  <2> QED BY <1>3, <1>5, <2>1, <2>2, Ranges DEF InFrontWaits, Told
<1>9. HasCause'
  <2>1. \A b \in Activities : \A f \in Of(b) :
          enrolment[f] \in {"toldCompleted", "toldError"} => enrolment'[f] = enrolment[f]
    BY <1>3 DEF Of
  <2> QED BY <1>1, <1>3, <1>5, <2>1 DEF HasCause, Finishing, TypeOK
<1>10. OneScreen'
  <2> SUFFICES ASSUME NEW b \in Activities, ~Restarted(b)
               PROVE  \/ timers'[b] + screens[b] = 0
                      \/ timers'[b] + screens[b] = 1 /\ finishing[b] # "result"
    BY <1>3 DEF OneScreen
  <2>1. CASE b # a
    BY <1>5, <2>1 DEF OneScreen
  <2>2. CASE b = a
    <3>1. \A f \in Of(a) : enrolment[f] # "toldCompleted"
      BY <1>1, <1>3, <2>2 DEF Restarted
    <3>2. timers[a] = 0 /\ screens[a] = 0 /\ finishing[a] # "result"
      BY <1>1, <3>1 DEF HasCause, TypeOK
    <3> QED BY <1>6, <1>7, <2>2, <3>2
  <2> QED BY <2>1, <2>2
<1>11. ResultReachesCaller'
  BY <1>3 DEF ResultReachesCaller, TypeOK
<1> QED BY <1>2, <1>4, <1>8, <1>9, <1>10, <1>11

LEMMA OnErrorStep ==
  ASSUME IInv, NEW e \in Enrolments, OnError(e)
  PROVE  IInv'
<1> USE DEF IInv, OnError
<1> DEFINE a == owner[e]
<1>1. a \in Activities /\ e \in Of(a)
  BY Ranges DEF Numbered, TypeOK, Activities, Of
<1>2. /\ \A b \in Activities : Finishing(b) => finishing'[b] = finishing[b]
      /\ \A b \in Activities : b # a => finishing'[b] = finishing[b]
      /\ finishing'[a] # "no" /\ (finishing'[a] = finishing[a] \/ finishing'[a] = "error")
  BY <1>1 DEF Finish, Finishing, TypeOK
<1>3. TypeOK'
  BY <1>1, Ranges DEF TypeOK, Finish, Elsewhere, TryAgain, TryAgainHidden
<1>4. /\ \A b \in Activities : Of(b)' = Of(b) /\ Newest(b)' = Newest(b)
      /\ \A b \in Activities : Restarted(b)' <=> Restarted(b)
      /\ \A f \in Enrolments : f # e => enrolment'[f] = enrolment[f]
      /\ enrolment[e] = "error" /\ enrolment'[e] = "toldError"
  BY DEF Of, Newest, Restarted, TypeOK
<1>5. Numbered' /\ NoOrphanEnrolment'
  BY <1>4 DEF TypeOK, Numbered, NoOrphanEnrolment, Of
<1>6. InFrontWaits'
  <2> SUFFICES ASSUME NEW b \in mToken, life[b] = "resumed", front' = b, finishing'[b] = "no",
                      ~(timers[b] > 0)
               PROVE  b \notin mFinishScheduled /\ ~Told(Newest(b))'
    BY DEF InFrontWaits, Finishing
  <2>1. b # a /\ finishing[b] = "no" /\ front = b
    BY <1>2, Ranges
  <2>2. Newest(b) \in Enrolments /\ Newest(b) # e
    BY <1>1, <2>1, NewestOfResumed, Ranges DEF Of
  <2> QED BY <1>4, <2>1, <2>2, Ranges DEF InFrontWaits, Told, Finishing
<1>7. HasCause'
  <2>1. \A b \in Activities : \A f \in Of(b) :
          enrolment[f] \in {"toldCompleted", "toldError"} => enrolment'[f] = enrolment[f]
    BY <1>4 DEF Of
  <2> QED BY <1>1, <1>2, <1>4, <2>1 DEF HasCause, Finishing, TypeOK
<1>8. OneScreen'
  BY <1>2, <1>4 DEF OneScreen
<1>9. ResultReachesCaller'
  BY <1>2, <1>4 DEF ResultReachesCaller, HasCause, Finishing, TypeOK
<1> QED BY <1>3, <1>5, <1>6, <1>7, <1>8, <1>9

LEMMA FinishTimerStep ==
  ASSUME IInv, NEW a \in Activities, FinishTimer(a)
  PROVE  IInv'
<1> USE DEF IInv, FinishTimer
<1>1. TypeOK'
  BY Ranges DEF TypeOK, Elsewhere, TryAgainHidden, FinishScreen
<1>2. Numbered' /\ NoOrphanEnrolment'
  BY Untouched DEF TypeOK, Numbered, NoOrphanEnrolment
<1>3. \A b \in Activities : b # a => timers'[b] = timers[b] /\ screens'[b] = screens[b]
  BY DEF TypeOK
<1>4. /\ timers[a] > 0 /\ timers'[a] = timers[a] - 1
      /\ screens'[a] \in {screens[a], screens[a] + 1}
  BY DEF TypeOK
<1>5. InFrontWaits'
  <2> SUFFICES ASSUME NEW b \in mToken, life[b] = "resumed", front' = b
               PROVE  \/ Finishing(b) \/ timers'[b] > 0
                      \/ b \notin mFinishScheduled /\ ~Told(Newest(b))'
    BY DEF InFrontWaits, Finishing
  <2>1. b # a /\ front = b
    BY Ranges DEF TypeOK
  <2> QED BY <1>3, <2>1, Untouched, Ranges DEF InFrontWaits, Told
<1>6. HasCause'
  BY Untouched, <1>3, <1>4 DEF TypeOK, HasCause, Finishing
<1>7. OneScreen'
  <2> SUFFICES ASSUME NEW b \in Activities, ~Restarted(b)
               PROVE  \/ timers'[b] + screens'[b] = 0
                      \/ timers'[b] + screens'[b] = 1 /\ finishing[b] # "result"
    BY Untouched DEF OneScreen
  <2>1. CASE b # a
    BY <1>3, <2>1 DEF OneScreen
  <2>2. CASE b = a
    <3>1. timers[a] \in Nat /\ screens[a] \in Nat
      BY DEF TypeOK
    <3> QED BY <1>4, <2>2, <3>1 DEF OneScreen
  <2> QED BY <2>1, <2>2
<1>8. ResultReachesCaller'
  BY Untouched DEF TypeOK, ResultReachesCaller
<1> QED BY <1>1, <1>2, <1>5, <1>6, <1>7, <1>8

LEMMA FinishScreenEndsStep ==
  ASSUME IInv, NEW a \in Activities, FinishScreenEnds(a)
  PROVE  IInv'
<1> USE DEF IInv, FinishScreenEnds
<1>1. PICK r \in {"finished", "left"} :
        /\ confirmed' = IF r = "finished" THEN confirmed \cup {a} ELSE confirmed
        /\ outcome' = IF Finishing(a) THEN outcome
                      ELSE [outcome EXCEPT ![a] = ResultFor(a, r)]
  OBVIOUS
<1>2. /\ \A b \in Activities : Finishing(b) => finishing'[b] = finishing[b]
      /\ \A b \in Activities : b # a => finishing'[b] = finishing[b] /\ outcome'[b] = outcome[b]
      /\ ~Finishing(a) => finishing'[a] = "result" /\ outcome'[a] = r
      /\ Finishing(a) => outcome'[a] = outcome[a]
  BY <1>1 DEF Finish, Finishing, TypeOK, ResultFor
<1>3. TypeOK'
  BY <1>1, Ranges DEF TypeOK, Finish, ResultFor, Elsewhere, TryAgainHidden, FinishScreen
<1>4. Numbered' /\ NoOrphanEnrolment'
  BY Untouched DEF TypeOK, Numbered, NoOrphanEnrolment
<1>5. \A b \in Activities : front' # b
  BY Ranges DEF TypeOK
<1>6. InFrontWaits'
  BY <1>5, Ranges DEF InFrontWaits
<1>7. /\ \A b \in Activities : b # a => screens'[b] = screens[b]
      /\ screens[a] > 0 /\ screens'[a] = screens[a] - 1
  BY DEF TypeOK
<1>8. HasCause'
  BY Untouched, <1>2, <1>7 DEF TypeOK, HasCause, Finishing
<1>9. ~Restarted(a) => timers[a] = 0 /\ screens[a] = 1 /\ finishing[a] # "result"
  BY <1>7 DEF OneScreen, TypeOK
<1>10. OneScreen'
  <2> SUFFICES ASSUME NEW b \in Activities, ~Restarted(b)
               PROVE  \/ timers[b] + screens'[b] = 0
                      \/ timers[b] + screens'[b] = 1 /\ finishing'[b] # "result"
    BY Untouched DEF OneScreen
  <2>1. CASE b # a
    BY <1>2, <1>7, <2>1 DEF OneScreen
  <2>2. CASE b = a
    BY <1>7, <1>9, <2>2
  <2> QED BY <2>1, <2>2
<1>11. ResultReachesCaller'
  <2> SUFFICES ASSUME NEW b \in confirmed', ~Restarted(b)
               PROVE  outcome'[b] = "finished" \/ finishing'[b] = "back"
    BY <1>3, Untouched DEF ResultReachesCaller, TypeOK
  <2>1. b \in Activities
    BY <1>3 DEF TypeOK
  <2>2. CASE b # a
    BY <1>1, <1>2, <2>1, <2>2 DEF ResultReachesCaller, Finishing
  <2>3. CASE b = a /\ Finishing(a)
    <3>1. finishing[a] # "error"
      BY <1>7, <2>3 DEF HasCause, Restarted
    <3> QED BY <1>2, <1>9, <2>3, <3>1 DEF Finishing, TypeOK
  <2>4. CASE b = a /\ ~Finishing(a)
    <3>1. a \notin confirmed
      BY <2>4 DEF ResultReachesCaller, HasCause, Finishing
    <3> QED BY <1>1, <1>2, <2>4, <3>1
  <2> QED BY <2>2, <2>3, <2>4
<1> QED BY <1>3, <1>4, <1>6, <1>8, <1>10, <1>11

LEMMA ActivityStutter ==
  ASSUME IInv, UNCHANGED vars
  PROVE  IInv'
<1>1. TypeOK' /\ Numbered' /\ NoOrphanEnrolment'
  BY Untouched DEF vars, IInv, TypeOK, Numbered, NoOrphanEnrolment
<1>2. InFrontWaits'
  BY Untouched, Ranges DEF vars, IInv, InFrontWaits, Finishing, Told
<1>3. HasCause' /\ OneScreen' /\ ResultReachesCaller'
  BY Untouched DEF vars, IInv, TypeOK, HasCause, OneScreen, ResultReachesCaller, Finishing
<1> QED BY <1>1, <1>2, <1>3 DEF IInv

-----------------------------------------------------------------------------
(* The service's end. *)

LEMMA VisionInit == Vision!Init => Vision!IInv
BY DEF Vision!Init, Vision!IInv, Vision!TypeOK, Vision!CallbackKept

LEMMA RegisterStep ==
  ASSUME Vision!IInv, NEW a \in Activities, Vision!SetCallback(a)
  PROVE  Vision!IInv'
BY DEF Vision!IInv, Vision!TypeOK, Vision!CallbackKept, Vision!SetCallback

LEMMA VisionSteps ==
  ASSUME Vision!IInv, NEW c \in Cameras,
         \/ Vision!ReadCallback(c) \/ Vision!SendFrame(c) \/ Vision!NoMemory(c)
         \/ Vision!CallFails(c) \/ Vision!ResetCallback(c)
  PROVE  Vision!IInv'
<1> USE DEF Vision!IInv, Vision!TypeOK, Vision!CallbackKept
<1>1. CASE Vision!ReadCallback(c)
  BY <1>1 DEF Vision!ReadCallback
<1>2. CASE Vision!SendFrame(c) \/ Vision!NoMemory(c)
  BY <1>2 DEF Vision!SendFrame, Vision!NoMemory, Vision!AfterNoMemory
<1>3. CASE Vision!CallFails(c)
  BY <1>3 DEF Vision!CallFails
<1>4. CASE Vision!ResetCallback(c)
  BY <1>4 DEF Vision!ResetCallback
<1> QED BY <1>1, <1>2, <1>3, <1>4

LEMMA VisionStutter ==
  ASSUME Vision!IInv, UNCHANGED visionVars
  PROVE  Vision!IInv'
BY DEF Vision!IInv, Vision!TypeOK, Vision!CallbackKept, visionVars

-----------------------------------------------------------------------------
(* The preview. *)

LEMMA PreviewInit == Preview!Init => Preview!IInv
BY DEF Preview!Init, Preview!IInv, Preview!TypeOK, Preview!OneFrameAtATime,
   Preview!ClaimHasFrame, Preview!LastWritten, Preview!Bitmap

(* The steps that write no bitmap and show none. *)
LEMMA ClaimSteps ==
  ASSUME Preview!IInv, NEW a \in Activities,
         \/ Preview!FrameArrives(a) \/ Preview!OnFrame(a) \/ Preview!PostRendering(a)
         \/ Preview!ReadFails(a) \/ Preview!Quit(a)
  PROVE  Preview!IInv'
<1> USE DEF Preview!IInv
<1>1. UNCHANGED <<mUsingBitmap1, ui, shown>>
  BY DEF Preview!FrameArrives, Preview!OnFrame, Preview!PostRendering, Preview!ReadFails,
         Preview!Quit
<1>3. arrived' \in [Activities -> Nat]
  <2>1. arrived \in [Activities -> Nat]
    BY DEF Preview!TypeOK
  <2>2. \/ arrived' = arrived
        \/ arrived' = [arrived EXCEPT ![a] = @ + 1]
        \/ arrived[a] > 0 /\ arrived' = [arrived EXCEPT ![a] = @ - 1]
    BY DEF Preview!FrameArrives, Preview!OnFrame, Preview!PostRendering, Preview!ReadFails,
           Preview!Quit
  <2>3. arrived[a] \in Nat /\ (arrived[a] > 0 => arrived[a] - 1 \in Nat)
    BY <2>1
  <2> QED BY <2>1, <2>2, <2>3
<1>4. /\ mIsProcessingFrame' \subseteq Activities /\ quit' \subseteq Activities
      /\ reading' \subseteq Activities /\ rendering' \subseteq Activities
  BY DEF Preview!TypeOK, Preview!FrameArrives, Preview!OnFrame, Preview!PostRendering,
         Preview!ReadFails, Preview!Quit, Preview!ClaimAfterPost, Preview!ClaimAfterError
<1>5. Preview!TypeOK'
  BY <1>1, <1>3, <1>4 DEF Preview!TypeOK
<1>2. Preview!OneFrameAtATime' /\ Preview!ClaimHasFrame'
  BY DEF Preview!OneFrameAtATime, Preview!ClaimHasFrame, Preview!FrameArrives,
         Preview!OnFrame, Preview!PostRendering, Preview!ReadFails, Preview!Quit,
         Preview!ClaimAfterPost, Preview!ClaimAfterError
<1> QED BY <1>1, <1>2, <1>5 DEF Preview!LastWritten, Preview!Bitmap

LEMMA RenderedStep ==
  ASSUME Preview!IInv, NEW a \in Activities, Preview!Rendered(a)
  PROVE  Preview!IInv'
<1> USE DEF Preview!IInv, Preview!Rendered
<1>1. Preview!TypeOK'
  <2>1. \A x \in {1, 2} : \A q \in Seq({1, 2}) : Append(q, x) \in Seq({1, 2})
    OBVIOUS
  <2>2. Preview!Bitmap(a) \in {1, 2}
    BY DEF Preview!Bitmap
  <2>3. ui' \in [Activities -> Seq({1, 2})]
    <3>1. ui \in [Activities -> Seq({1, 2})]
      BY DEF Preview!TypeOK
    <3>2. CASE ui' = [ui EXCEPT ![a] = Append(@, Preview!Bitmap(a))]
      <4>1. Append(ui[a], Preview!Bitmap(a)) \in Seq({1, 2})
        BY <2>1, <2>2, <3>1
      <4> QED BY <3>1, <3>2, <4>1
    <3> QED BY <3>1, <3>2
  <2>4. mUsingBitmap1' \subseteq Activities /\ rendering' \subseteq Activities
        /\ mIsProcessingFrame' \subseteq Activities
    BY DEF Preview!TypeOK, Preview!Toggled
  <2> QED BY <2>3, <2>4 DEF Preview!TypeOK
<1>2. Preview!OneFrameAtATime' /\ Preview!ClaimHasFrame'
  BY DEF Preview!OneFrameAtATime, Preview!ClaimHasFrame
<1>3. ASSUME NEW b \in Activities
      PROVE  Preview!LastWritten(b)' # Preview!Bitmap(b)'
  <2>1. CASE UNCHANGED <<mUsingBitmap1, ui>>
    BY <2>1 DEF Preview!LastWritten, Preview!Bitmap
  <2>2. CASE b # a /\ ui' = [ui EXCEPT ![a] = Append(@, Preview!Bitmap(a))]
                  /\ mUsingBitmap1' = Preview!Toggled(a)
    BY <2>2 DEF Preview!LastWritten, Preview!Bitmap, Preview!TypeOK, Preview!Toggled
  <2>3. CASE b = a /\ ui' = [ui EXCEPT ![a] = Append(@, Preview!Bitmap(a))]
                  /\ mUsingBitmap1' = Preview!Toggled(a)
    <3>1. ui'[a] = Append(ui[a], Preview!Bitmap(a)) /\ ui[a] \in Seq({1, 2})
      BY <2>3 DEF Preview!TypeOK
    <3>2. ui'[a] # <<>> /\ ui'[a][Len(ui'[a])] = Preview!Bitmap(a)
      BY <3>1
    <3>3. Preview!Bitmap(a)' # Preview!Bitmap(a)
      BY <2>3 DEF Preview!Bitmap, Preview!Toggled
    <3> QED BY <2>3, <3>2, <3>3 DEF Preview!LastWritten
  <2> QED BY <2>1, <2>2, <2>3
<1> QED BY <1>1, <1>2, <1>3

LEMMA SetFrameStep ==
  ASSUME Preview!IInv, NEW a \in Activities, Preview!SetFrame(a)
  PROVE  Preview!IInv'
<1> USE DEF Preview!IInv, Preview!SetFrame
<1>1. ui[a] \in Seq({1, 2}) /\ ui[a] # <<>>
  BY DEF Preview!TypeOK
<1>2. /\ Head(ui[a]) \in {1, 2} /\ Tail(ui[a]) \in Seq({1, 2})
      /\ Tail(ui[a]) = <<>> => Head(ui[a]) = ui[a][Len(ui[a])]
      /\ Tail(ui[a]) # <<>> => Tail(ui[a])[Len(Tail(ui[a]))] = ui[a][Len(ui[a])]
  <2> DEFINE q == ui[a]
  <2>1. Len(q) \in Nat /\ Len(q) >= 1 /\ Len(Tail(q)) = Len(q) - 1
    BY <1>1
  <2>2. \A i \in 1..Len(Tail(q)) : Tail(q)[i] = q[i + 1]
    BY <1>1
  <2>3. Tail(q) = <<>> => Len(q) = 1
    <3>1. \A r \in Seq({1, 2}) : r = <<>> => Len(r) = 0
      OBVIOUS
    <3>2. Tail(q) \in Seq({1, 2})
      BY <1>1
    <3>3. Tail(q) = <<>> => Len(Tail(q)) = 0
      BY <3>1, <3>2
    <3> QED BY <2>1, <3>3
  <2>4. Tail(q) # <<>> => Len(Tail(q)) >= 1
    BY <1>1, <2>1
  <2>5. Tail(q) # <<>> => Tail(q)[Len(Tail(q))] = q[Len(q)]
    BY <2>1, <2>2, <2>4
  <2> QED BY <1>1, <2>3, <2>5
<1>3. Preview!TypeOK'
  BY <1>2 DEF Preview!TypeOK
<1>4. Preview!OneFrameAtATime' /\ Preview!ClaimHasFrame'
  BY DEF Preview!OneFrameAtATime, Preview!ClaimHasFrame
<1>5. \A b \in Activities : Preview!LastWritten(b)' = Preview!LastWritten(b)
  BY <1>1, <1>2 DEF Preview!LastWritten, Preview!TypeOK
<1> QED BY <1>3, <1>4, <1>5 DEF Preview!Bitmap

LEMMA PreviewStutter ==
  ASSUME Preview!IInv, UNCHANGED previewVars
  PROVE  Preview!IInv'
BY DEF Preview!IInv, Preview!TypeOK, Preview!OneFrameAtATime, Preview!ClaimHasFrame,
   Preview!LastWritten, Preview!Bitmap, previewVars

-----------------------------------------------------------------------------
(* The composition: each of its steps is a step or a stutter of each part.     *)

LEMMA NextKeeps == ASSUME AppIInv, [AppNext]_appVars PROVE AppIInv'
<1> USE DEF AppIInv
<1>1. CASE \E a \in Activities : OnCreate(a)
  BY <1>1, CreateStep, RegisterStep, VisionStutter, PreviewStutter DEF OnCreate
<1>2. CASE \E a \in Activities : OnDestroy(a)
  BY <1>2, DestroyStep, ClaimSteps, VisionStutter DEF OnDestroy
<1>3. CASE \E a \in Activities : PreviewStep(a)
  BY <1>3, ClaimSteps, RenderedStep, SetFrameStep, ActivityStutter, VisionStutter
     DEF PreviewStep, Preview!Step
<1>4. CASE \E c \in Cameras : ServiceStep(c)
  BY <1>4, VisionSteps, ActivityStutter, PreviewStutter DEF ServiceStep
<1>5. ASSUME NEW c \in Cameras, OnFrameSent(c)
      PROVE  AppIInv'
  <2>1. cb[c] \in Activities
    BY <1>5 DEF OnFrameSent, Vision!SendFrame, Vision!IInv
  <2> QED BY <1>5, <2>1, VisionSteps, ClaimSteps, ActivityStutter DEF OnFrameSent
<1>6. CASE ScreenStep
  <2>0. 1 \in Activities
    BY ActivityBounds DEF Activities
  <2>1. IInv'
    BY <1>6, <2>0, ResumeStep, PauseStep, FinishTimerStep, UserSteps, FinishScreenEndsStep,
       EnrolmentEndsStep, OnCompletedStep, OnErrorStep
       DEF ScreenStep, ActivityStep, UserStep, EnrolmentStep
  <2> QED BY <1>6, <2>1, VisionStutter, PreviewStutter DEF ScreenStep
<1>7. CASE UNCHANGED appVars
  BY <1>7, ActivityStutter, VisionStutter, PreviewStutter DEF appVars
<1> QED BY <1>1, <1>2, <1>3, <1>4, <1>5, <1>6, <1>7 DEF AppNext

(* The inductive invariant of the enrolment app, for any number of activities, *)
(* enrolments, frames and camera threads.                                  *)
THEOREM Invariance == AppSpec => []AppIInv
<1>1. AppInit => AppIInv
  BY ActivityInit, VisionInit, PreviewInit DEF AppInit, AppIInv
<1>2. AppIInv /\ [AppNext]_appVars => AppIInv'
  BY NextKeeps
<1> QED BY <1>1, <1>2, PTL DEF AppSpec

(* An enrolment goes on only for an activity in the foreground, however late   *)
(* its pauses, resumes and callbacks come.                                 *)
THEOREM NoOrphans == AppSpec => []NoOrphanEnrolment
BY Invariance, PTL DEF AppIInv, IInv

(* The screen in front of the user has an enrolment to wait for, or is about   *)
(* to open the finish screen, or finishes.                                 *)
THEOREM GoesOn == AppSpec => []NeverStuck
<1>1. AppIInv => NeverStuck
  BY DEF AppIInv, IInv, InFrontWaits, NeverStuck
<1> QED BY <1>1, Invariance, PTL

(* A confirmed enrolment is reported to the caller of the activity unless it   *)
(* was started twice or left by the back key.                              *)
THEOREM ResultDelivered == AppSpec => []ResultReachesCaller
BY Invariance, PTL DEF AppIInv, IInv

(* The callback registered last stays until a call to it fails, apart from a   *)
(* failing call already under way.                                         *)
THEOREM CallbackStays == AppSpec => []CallbackKept
<1>1. AppIInv => CallbackKept
  BY DEF AppIInv, Vision!IInv, CallbackKept
<1> QED BY <1>1, Invariance, PTL

(* One frame at a time is read and rendered. *)
THEOREM FramesExclude == AppSpec => []OneFrameAtATime
<1>1. AppIInv => OneFrameAtATime
  BY DEF AppIInv, Preview!IInv, OneFrameAtATime
<1> QED BY <1>1, Invariance, PTL

(* No claim is left without a frame that releases it. *)
THEOREM ClaimsReleased == AppSpec => []ClaimHasFrame
<1>1. AppIInv => ClaimHasFrame
  BY DEF AppIInv, Preview!IInv, ClaimHasFrame
<1> QED BY <1>1, Invariance, PTL

(* A bitmap is written while it is on the screen only if the main thread is    *)
(* behind by a frame.                                                      *)
THEOREM BitmapsTakeTurns == AppSpec => []TakesTurns
<1>1. AppIInv => TakesTurns
  BY DEF AppIInv, Preview!IInv, Preview!TypeOK, Preview!LastWritten, TakesTurns, Preview!TakesTurns
<1> QED BY <1>1, Invariance, PTL
=============================================================================
