---------------------------- MODULE EnrollActivity ----------------------------
(***************************************************************************)
(* EnrollActivity: the life of the enrolment screen and of the enrolments   *)
(* it asks the framework for.                                              *)
(*                                                                         *)
(* Every resume starts an enrolment, if the activity has a token, and every *)
(* pause cancels it; the end of an enrolment, an error or the last progress, *)
(* reaches the main thread later, when the activity may have been paused,   *)
(* resumed or destroyed.  A completed enrolment opens the finish screen two *)
(* seconds later.                                                          *)
(*                                                                         *)
(* The framework is external: the activity manager pauses and resumes the   *)
(* activities, and the face service runs one enrolment at a time, in order, *)
(* and reports one end of each.                                            *)
(***************************************************************************)
EXTENDS Naturals

CONSTANTS
    MaxActivities,   \* bound: EnrollActivity objects
    MaxResumes,      \* bound: resumes of activities, and so enrolments
    Tokenless        \* bound: activities that may be opened without a token

ASSUME ActivityBounds == MaxActivities \in Nat \ {0} /\ MaxResumes \in Nat

Activities == 1..MaxActivities
Enrolments == 1..MaxResumes

(* What else may be in front of the user. *)
Elsewhere == 0
FinishScreen == MaxActivities + 1
TryAgain == MaxActivities + 2
TryAgainHidden == MaxActivities + 3   \* the try-again screen without its button

VARIABLES
    life,             \* of each activity
    mToken,           \* activities with a token that is not empty
    finishing,        \* why each activity called finish(), "no" before
    front,            \* what the user sees: an activity or one of those
    owner,            \* whose each enrolment is, 0 before it starts
    enrolment,        \* how far it is
    cancelled,        \* enrolments whose CancellationSignal was cancelled
    mFinishScheduled, \* activities
    timers,           \* delayed runnables pending
    screens,          \* finish screens open for each activity
    confirmed,        \* activities whose finish screen the user confirmed
    outcome,          \* result handed to the caller
    resumes           \* so far

vars == <<life, mToken, finishing, front, owner, enrolment, cancelled, mFinishScheduled,
          timers, screens, confirmed, outcome, resumes>>

Init ==
    /\ life = [a \in Activities |-> "none"] /\ mToken = {}
    /\ finishing = [a \in Activities |-> "no"] /\ front = Elsewhere
    /\ owner = [e \in Enrolments |-> 0] /\ enrolment = [e \in Enrolments |-> "none"]
    /\ cancelled = {}
    /\ mFinishScheduled = {} /\ timers = [a \in Activities |-> 0]
    /\ screens = [a \in Activities |-> 0]
    /\ confirmed = {} /\ outcome = [a \in Activities |-> "none"]
    /\ resumes = 0

Finishing(a) == finishing[a] # "no"
Finish(a, why) ==
    finishing' = IF Finishing(a) THEN finishing ELSE [finishing EXCEPT ![a] = why]

Of(a) == {e \in Enrolments : owner[e] = a}
Newest(a) == CHOOSE e \in Of(a) : \A f \in Of(a) : f <= e
Ended(e) == enrolment[e] \notin {"none", "live"}
Told(e) == enrolment[e] \in {"toldCompleted", "toldError"}
mIsActivityPaused(a) == life[a] \in {"paused", "destroyed"}

(* The caller, with or without a token, opens an activity, or the button of    *)
(* the try-again screen, which hands on the one it got.                    *)
Create(a) ==
    /\ life[a] = "none" /\ \A b \in Activities : b < a => life[b] # "none"
    /\ front \in {Elsewhere, TryAgain}
    /\ life' = [life EXCEPT ![a] = "created"]
    /\ front' = a
    /\ \/ mToken' = mToken \cup {a}
       \/ front = Elsewhere /\ a \in Tokenless /\ UNCHANGED mToken
    /\ UNCHANGED <<finishing, owner, enrolment, cancelled, mFinishScheduled, timers, screens,
                   confirmed, outcome, resumes>>

(* onResume() and startEnrollment(), which enrols nobody without a token.      *)
MutantStaysScheduled(a) == mFinishScheduled
ScheduledAtStart(a) == mFinishScheduled \ {a}

Resume(a) ==
    /\ life[a] \in {"created", "paused"} /\ front = a /\ ~Finishing(a)
    /\ resumes < MaxResumes /\ resumes' = resumes + 1
    /\ life' = [life EXCEPT ![a] = "resumed"]
    /\ mFinishScheduled' = ScheduledAtStart(a)
    /\ \/ a \notin mToken /\ UNCHANGED <<owner, enrolment>>
       \/ /\ a \in mToken
          /\ \E e \in Enrolments :
                /\ owner[e] = 0 /\ \A f \in Enrolments : f < e => owner[f] # 0
                /\ owner' = [owner EXCEPT ![e] = a]
                /\ enrolment' = [enrolment EXCEPT ![e] = "live"]
    /\ UNCHANGED <<mToken, finishing, front, cancelled, timers, screens, confirmed, outcome>>

(* onPause(), once something else is in front or the activity is finishing.    *)
MutantNoCancel(a) == cancelled
CancelledAtPause(a) == cancelled \cup {e \in Of(a) : e = Newest(a)}

Pause(a) ==
    /\ life[a] = "resumed" /\ (front # a \/ Finishing(a))
    /\ life' = [life EXCEPT ![a] = "paused"]
    /\ cancelled' = CancelledAtPause(a)
    /\ front' = IF front = a THEN Elsewhere ELSE front
    /\ UNCHANGED <<mToken, finishing, owner, enrolment, mFinishScheduled, timers, screens,
                   confirmed, outcome, resumes>>

(* onDestroy(), of a finished activity. *)
Destroy(a) ==
    /\ life[a] = "paused" /\ Finishing(a)
    /\ life' = [life EXCEPT ![a] = "destroyed"]
    /\ UNCHANGED <<mToken, finishing, front, owner, enrolment, cancelled, mFinishScheduled,
                   timers, screens, confirmed, outcome, resumes>>

(* External: the user leaves the screen for another, and comes back to what    *)
(* is on top of it.                                                        *)
Leave(a) ==
    /\ life[a] = "resumed" /\ front = a
    /\ front' = Elsewhere
    /\ UNCHANGED <<life, mToken, finishing, owner, enrolment, cancelled, mFinishScheduled, timers,
                   screens, confirmed, outcome, resumes>>

ComeBack(a) ==
    /\ front = Elsewhere /\ life[a] = "paused" /\ ~Finishing(a)
    /\ front' = IF screens[a] > 0 THEN FinishScreen ELSE a
    /\ UNCHANGED <<life, mToken, finishing, owner, enrolment, cancelled, mFinishScheduled, timers,
                   screens, confirmed, outcome, resumes>>

(* The user leaves the try-again screen, whose onPause() finishes it.          *)
LeaveTryAgain ==
    /\ front \in {TryAgain, TryAgainHidden}
    /\ front' = Elsewhere
    /\ UNCHANGED <<life, mToken, finishing, owner, enrolment, cancelled, mFinishScheduled,
                   timers, screens, confirmed, outcome, resumes>>

(* onBackPressed() *)
Back(a) ==
    /\ life[a] = "resumed" /\ front = a /\ Finish(a, "back")
    /\ UNCHANGED <<life, mToken, front, owner, enrolment, cancelled, mFinishScheduled,
                   timers, screens,
                   confirmed, outcome, resumes>>

-----------------------------------------------------------------------------
(* External: an enrolment comes to an end, which is posted to the app.  Only   *)
(* one that was not cancelled completes.                                   *)
EnrolmentEnds(e) ==
    /\ enrolment[e] = "live" /\ \A f \in Enrolments : f < e => Ended(f)
    /\ \/ e \notin cancelled /\ enrolment' = [enrolment EXCEPT ![e] = "completed"]
       \/ enrolment' = [enrolment EXCEPT ![e] = "error"]
    /\ UNCHANGED <<life, mToken, finishing, front, owner, cancelled, mFinishScheduled,
                   timers, screens,
                   confirmed, outcome, resumes>>

(* onEnrollmentProgress(0) *)
OnCompleted(e) ==
    /\ enrolment[e] = "completed" /\ \A f \in Enrolments : f < e => Told(f)
    /\ enrolment' = [enrolment EXCEPT ![e] = "toldCompleted"]
    /\ LET a == owner[e]
       IN  IF a \in mFinishScheduled
           THEN UNCHANGED <<mFinishScheduled, timers>>
           ELSE /\ mFinishScheduled' = mFinishScheduled \cup {a}
                /\ timers' = [timers EXCEPT ![a] = @ + 1]
    /\ UNCHANGED <<life, mToken, finishing, front, owner, cancelled, screens, confirmed,
                   outcome, resumes>>

(* onEnrollmentError(), of whichever enrolment.  After MSG_UNLOCK_FAILED the    *)
(* try-again screen gets no token, and the caller a result of its own.      *)
OnError(e) ==
    /\ enrolment[e] = "error" /\ \A f \in Enrolments : f < e => Told(f)
    /\ enrolment' = [enrolment EXCEPT ![e] = "toldError"]
    /\ LET a == owner[e]
       IN  /\ \/ mIsActivityPaused(a) /\ UNCHANGED <<front, outcome>>
              \/ ~mIsActivityPaused(a) /\ front' = TryAgain /\ UNCHANGED outcome
              \/ /\ ~mIsActivityPaused(a) /\ front' = TryAgainHidden
                 /\ outcome' = IF Finishing(a) THEN outcome
                               ELSE [outcome EXCEPT ![a] = "unlockFailed"]
           /\ Finish(a, "error")
    /\ UNCHANGED <<life, mToken, owner, cancelled, mFinishScheduled, timers, screens,
                   confirmed, resumes>>

(* The delayed runnable: startFinishActivity(), unless the activity is         *)
(* destroyed.  External: the system may refuse a start from the background,  *)
(* and a finished activity gets no result.                                 *)
FinishTimer(a) ==
    /\ timers[a] > 0
    /\ timers' = [timers EXCEPT ![a] = @ - 1]
    /\ \/ /\ life[a] # "destroyed"
          /\ screens' = [screens EXCEPT ![a] = @ + 1]
          /\ front' = IF front \in {a, TryAgain, TryAgainHidden} THEN FinishScreen ELSE front
       \/ /\ life[a] = "destroyed" \/ front # a
          /\ UNCHANGED <<screens, front>>
    /\ UNCHANGED <<life, mToken, finishing, owner, enrolment, cancelled,
                   mFinishScheduled, confirmed,
                   outcome, resumes>>

(* The finish screen is confirmed or left: onActivityResult().               *)
MutantResultAfterFinish(a, r) == outcome[a]
ResultFor(a, r) == r

FinishScreenEnds(a) ==
    /\ front = FinishScreen /\ screens[a] > 0
    /\ screens' = [screens EXCEPT ![a] = @ - 1]
    /\ front' = IF screens[a] > 1 THEN FinishScreen ELSE Elsewhere
    /\ \E r \in {"finished", "left"} :
          /\ confirmed' = IF r = "finished" THEN confirmed \cup {a} ELSE confirmed
          /\ outcome' = IF Finishing(a) THEN outcome
                        ELSE [outcome EXCEPT ![a] = ResultFor(a, r)]
    /\ Finish(a, "result")
    /\ UNCHANGED <<life, mToken, owner, enrolment, cancelled, mFinishScheduled, timers, resumes>>

(* What the app and the framework do by themselves, and what the user does.    *)
ActivityStep(a) == Resume(a) \/ Pause(a) \/ FinishTimer(a)
EnrolmentStep(e) == EnrolmentEnds(e) \/ OnCompleted(e) \/ OnError(e)
UserStep(a) == Leave(a) \/ ComeBack(a) \/ Back(a) \/ FinishScreenEnds(a)

-----------------------------------------------------------------------------
(* Every variable is in its range. *)
TypeOK ==
    /\ life \in [Activities -> {"none", "created", "resumed", "paused", "destroyed"}]
    /\ mToken \subseteq Activities
    /\ finishing \in [Activities -> {"no", "back", "error", "result"}]
    /\ front \in Elsewhere..TryAgainHidden
    /\ owner \in [Enrolments -> 0..MaxActivities]
    /\ enrolment \in [Enrolments ->
          {"none", "live", "completed", "error", "toldCompleted", "toldError"}]
    /\ cancelled \subseteq Enrolments /\ mFinishScheduled \subseteq Activities
    /\ timers \in [Activities -> Nat] /\ screens \in [Activities -> Nat]
    /\ confirmed \subseteq Activities
    /\ outcome \in [Activities -> {"none", "finished", "left", "unlockFailed"}]
    /\ resumes \in 0..MaxResumes

(* An enrolment that is not cancelled is the newest of an activity in the      *)
(* foreground: whatever the user does, none goes on behind another screen,  *)
(* and none beside another.                                                *)
NoOrphanEnrolment ==
    \A a \in Activities : \A e \in Of(a) : enrolment[e] = "live" /\ e \notin cancelled =>
        life[a] = "resumed" /\ e = Newest(a)

(* An activity with a token, in front of the user, is going somewhere: its      *)
(* enrolment is under way or its end on the way, or the finish screen is about *)
(* to open, or the activity is finishing.  (Without a token startEnrollment()  *)
(* enrols nobody, and the screen stays until the user leaves it.)           *)
NeverStuck ==
    \A a \in mToken : life[a] = "resumed" /\ front = a =>
        Finishing(a) \/ timers[a] > 0 \/ ~Told(Newest(a))

(* The confirmation of the finish screen reaches the caller, unless the        *)
(* activity asked for a second enrolment, whose screen the late end of the    *)
(* first closes, or the user had left it by the back key.                     *)
Restarted(a) == \E e, f \in Of(a) : e # f
ResultReachesCaller ==
    \A a \in confirmed :
        outcome[a] = "finished" \/ finishing[a] = "back" \/ Restarted(a)

-----------------------------------------------------------------------------
(***************************************************************************)
(* The inductive invariant the proofs rest on (EnrollAppProofs).           *)
(***************************************************************************)

(* Enrolments are numbered as they start; a resumed activity with a token has   *)
(* one.                                                                    *)
Numbered ==
    /\ \A e, f \in Enrolments : e < f /\ owner[f] # 0 => owner[e] # 0
    /\ \A e \in Enrolments : owner[e] = 0 <=> enrolment[e] = "none"
    /\ \A a \in mToken : life[a] = "resumed" =>
          \E e \in Of(a) : \A f \in Of(a) : f <= e

(* NeverStuck, and mFinishScheduled does not outlive its timer in front.       *)
InFrontWaits ==
    \A a \in mToken : life[a] = "resumed" /\ front = a =>
        \/ Finishing(a) \/ timers[a] > 0
        \/ a \notin mFinishScheduled /\ ~Told(Newest(a))

(* A timer, a finish screen and a result come from a completed enrolment, one  *)
(* each; an activity that an error finished has an enrolment that failed.      *)
HasCause ==
    \A a \in Activities :
        /\ timers[a] > 0 \/ screens[a] > 0 \/ finishing[a] = "result" =>
              \E e \in Of(a) : enrolment[e] = "toldCompleted"
        /\ finishing[a] = "error" => \E e \in Of(a) : enrolment[e] = "toldError"
        /\ outcome[a] # "none" => Finishing(a)

OneScreen ==
    \A a \in Activities :
        \/ Restarted(a)
        \/ timers[a] + screens[a] = 0
        \/ timers[a] + screens[a] = 1 /\ finishing[a] # "result"

IInv ==
    /\ TypeOK /\ Numbered /\ NoOrphanEnrolment /\ InFrontWaits
    /\ HasCause /\ OneScreen /\ ResultReachesCaller
=============================================================================
