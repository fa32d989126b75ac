---------------------------- MODULE SessionContext ----------------------------
(***************************************************************************)
(* SessionContext: why a Session authenticates, and when a change of the   *)
(* display ends it.                                                        *)
(*                                                                         *)
(* A session keeps the reason of the operation and the display state the   *)
(* framework last reported.  authenticate() infers a missing reason from   *)
(* the display; onContextChanged() updates both and cancels an operation   *)
(* that has lost its purpose.  Calls are one at a time here: how they      *)
(* interleave inside is Session's subject.                                 *)
(***************************************************************************)
CONSTANTS Reasons, DisplayStates

ASSUME ReasonsAssumption == {"UNKNOWN", "BIOMETRIC_PROMPT", "KEYGUARD"} \subseteq Reasons
ASSUME DisplayAssumption ==
    {"UNKNOWN", "LOCKSCREEN", "NO_UI", "AOD"} \subseteq DisplayStates

VARIABLES
    active,                   \* which of "auth", "detect" and "enroll" has its flag set
    mCurrentOperationReason,
    mCurrentDisplayState,
    graceOver,                \* have 1000 ms passed since mAuthStartTime
    changed                   \* has the context changed since the last operation started

vars == <<active, mCurrentOperationReason, mCurrentDisplayState, graceOver, changed>>

Init ==
    /\ active = {}
    /\ mCurrentOperationReason = "UNKNOWN" /\ mCurrentDisplayState = "UNKNOWN"
    /\ graceOver = TRUE       \* nothing has started yet
    /\ changed = FALSE

-----------------------------------------------------------------------------
MutantNotInferred(given) == given

(* The reason authenticate() goes on with, given the one it has found.       *)
Inferred(given) ==
    IF given # "UNKNOWN" THEN given
    ELSE IF mCurrentDisplayState = "LOCKSCREEN" THEN "KEYGUARD" ELSE "BIOMETRIC_PROMPT"

(* authenticate(), or authenticateWithContext() with a reason; the camera    *)
(* starts, or fails and the flag is cleared again.                          *)
AuthenticateWith(given, started) ==
    /\ mCurrentOperationReason' = Inferred(given)
    /\ active' = IF started THEN active \cup {"auth"} ELSE active \ {"auth"}
    /\ graceOver' = FALSE
    /\ changed' = FALSE
    /\ UNCHANGED mCurrentDisplayState

Authenticate(started) ==
    /\ active = {}
    /\ AuthenticateWith(mCurrentOperationReason, started)

AuthenticateWithContext(r, started) ==
    /\ active = {}
    /\ AuthenticateWith(r, started)

(* enroll() and detectInteraction(), which have no reason of their own, the   *)
(* context versions included.  When the camera fails nothing has changed.    *)
StartOther(k) ==
    /\ active = {}
    /\ active' = {k}
    /\ changed' = FALSE
    /\ UNCHANGED <<mCurrentOperationReason, mCurrentDisplayState, graceOver>>

(* mAuthStartTime moves into the past. *)
GraceEnds ==
    /\ ~graceOver /\ graceOver' = TRUE
    /\ UNCHANGED <<active, mCurrentOperationReason, mCurrentDisplayState, changed>>

(* A frame ends the operation; only authentication forgets the reason.       *)
OperationSucceeds(k) ==
    /\ k \in active
    /\ active' = active \ {k}
    /\ mCurrentOperationReason' =
          IF k = "auth" THEN "UNKNOWN" ELSE mCurrentOperationReason
    /\ UNCHANGED <<mCurrentDisplayState, graceOver, changed>>

(* What cancel() does to the state of this module. *)
CancelEffect ==
    /\ active' = {}
    /\ mCurrentOperationReason' = "UNKNOWN"

(* cancel() through the cancellation signal or close(). *)
Cancel ==
    /\ CancelEffect
    /\ UNCHANGED <<mCurrentDisplayState, graceOver, changed>>

-----------------------------------------------------------------------------
(* onContextChanged() *)

(* A reason other than UNKNOWN replaces the current one first of all.        *)
NewReason(r) == IF r # "UNKNOWN" THEN r ELSE mCurrentOperationReason

PromptOver(r) ==
    /\ "auth" \in active /\ graceOver
    /\ NewReason(r) = "BIOMETRIC_PROMPT" /\ r # "BIOMETRIC_PROMPT"

MutantScreenOff(r, d) == d = "AOD" /\ NewReason(r) # "BIOMETRIC_PROMPT"
ScreenOff(r, d) == d \in {"AOD", "NO_UI"} /\ NewReason(r) # "BIOMETRIC_PROMPT"

(* On the lock screen an authentication is KEYGUARD's, whatever it was told. *)
MutantCorrected(r, d) == NewReason(r)
Corrected(r, d) ==
    IF d = "LOCKSCREEN" /\ "auth" \in active THEN "KEYGUARD" ELSE NewReason(r)

LockscreenOver(r, d) ==
    "auth" \in active /\ Corrected(r, d) = "KEYGUARD" /\ d # "LOCKSCREEN"

OnContextChanged(r, d) ==
    /\ changed' = TRUE
    /\ UNCHANGED graceOver
    /\ mCurrentDisplayState' = IF PromptOver(r) THEN mCurrentDisplayState ELSE d
    /\ IF PromptOver(r) \/ ScreenOff(r, d) \/ LockscreenOver(r, d)
       THEN CancelEffect
       ELSE /\ mCurrentOperationReason' = Corrected(r, d)
            /\ UNCHANGED active

Next ==
    \/ \E started \in BOOLEAN :
          \/ Authenticate(started)
          \/ \E r \in Reasons : AuthenticateWithContext(r, started)
    \/ \E k \in {"detect", "enroll"} : StartOther(k)
    \/ \E k \in {"auth", "detect", "enroll"} : OperationSucceeds(k)
    \/ GraceEnds \/ Cancel
    \/ \E r \in Reasons, d \in DisplayStates : OnContextChanged(r, d)

Spec == Init /\ [][Next]_vars

-----------------------------------------------------------------------------
(* The session's members are in the range of their AIDL types, and at most    *)
(* one operation runs when calls come one at a time.                         *)
TypeOK ==
    /\ active \subseteq {"auth", "detect", "enroll"}
    /\ \A j, k \in active : j = k
    /\ mCurrentOperationReason \in Reasons /\ mCurrentDisplayState \in DisplayStates
    /\ graceOver \in BOOLEAN /\ changed \in BOOLEAN

(* Once the framework has reported a context during an authentication, that   *)
(* authentication is KEYGUARD's exactly if the lock screen is shown: every    *)
(* path of onContextChanged() either agrees with the display or cancels.     *)
KeyguardOnLockscreen ==
    changed /\ "auth" \in active =>
        (mCurrentOperationReason = "KEYGUARD" <=> mCurrentDisplayState = "LOCKSCREEN")

(* Once the display has been reported off during an operation, it goes on     *)
(* only under a reason that is BIOMETRIC_PROMPT.                             *)
ScreenOffOnlyPrompt ==
    changed /\ active # {} /\ mCurrentDisplayState \in {"AOD", "NO_UI"} =>
        mCurrentOperationReason = "BIOMETRIC_PROMPT"

(* An authentication never runs without a reason, so that one of the          *)
(* cancellation rules always applies to it.                                  *)
AuthHasReason == "auth" \in active => mCurrentOperationReason # "UNKNOWN"

(* "Biometric prompt is no longer active, cancelling face auth": after the    *)
(* grace period a prompt's authentication ends when the context changes to   *)
(* another reason.                                                           *)
PromptEndsWithItsContext ==
    [][\A r \in Reasons, d \in DisplayStates :
          /\ OnContextChanged(r, d)
          /\ "auth" \in active /\ mCurrentOperationReason = "BIOMETRIC_PROMPT"
          /\ graceOver /\ r # "BIOMETRIC_PROMPT"
          => "auth" \notin active']_vars
=============================================================================
