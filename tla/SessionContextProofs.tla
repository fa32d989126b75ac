------------------------- MODULE SessionContextProofs -------------------------
(***************************************************************************)
(* Proofs about SessionContext: the reason of an authentication agrees with *)
(* the display after every sequence of calls, for any set of reasons and    *)
(* display states the AIDL may come to have.                               *)
(***************************************************************************)
EXTENDS SessionContext, TLAPS

(* The three invariants need each other's type only: no strengthening.        *)
IInv == TypeOK /\ KeyguardOnLockscreen /\ ScreenOffOnlyPrompt /\ AuthHasReason

LEMMA InitIInv == Init => IInv
BY ReasonsAssumption, DisplayAssumption
   DEF ReasonsAssumption, DisplayAssumption, Init, IInv, TypeOK, KeyguardOnLockscreen,
       ScreenOffOnlyPrompt, AuthHasReason

(* authenticate() sets changed back to FALSE, and never leaves the reason     *)
(* UNKNOWN.                                                                *)
LEMMA AuthenticateKeepsIInv ==
    ASSUME IInv, NEW r \in Reasons, NEW started \in BOOLEAN, active = {},
           AuthenticateWith(r, started)
    PROVE  IInv'
<1>1. Inferred(r) \in Reasons /\ Inferred(r) # "UNKNOWN"
    BY ReasonsAssumption DEF ReasonsAssumption, Inferred
<1>2. TypeOK'
    BY <1>1 DEF IInv, TypeOK, AuthenticateWith
<1>3. KeyguardOnLockscreen' /\ ScreenOffOnlyPrompt'
    BY DEF AuthenticateWith, KeyguardOnLockscreen, ScreenOffOnlyPrompt
<1>4. AuthHasReason'
    BY <1>1 DEF AuthenticateWith, AuthHasReason
<1> QED
    BY <1>2, <1>3, <1>4 DEF IInv

(* Without an operation the last three invariants hold at once.               *)
LEMMA IdleIInv ==
    ASSUME TypeOK', active' = {}
    PROVE  IInv'
BY DEF IInv, KeyguardOnLockscreen, ScreenOffOnlyPrompt, AuthHasReason

(* onContextChanged(): the operation is cancelled, or goes on with a reason   *)
(* and a display that agree.                                               *)
LEMMA ContextChangedKeepsIInv ==
    ASSUME IInv, NEW r \in Reasons, NEW d \in DisplayStates, OnContextChanged(r, d)
    PROVE  IInv'
<1>1. NewReason(r) \in Reasons /\ Corrected(r, d) \in Reasons
    BY ReasonsAssumption DEF ReasonsAssumption, NewReason, Corrected, IInv, TypeOK
<1>2. "UNKNOWN" \in Reasons
    BY ReasonsAssumption DEF ReasonsAssumption
<1>3. CASE PromptOver(r) \/ ScreenOff(r, d) \/ LockscreenOver(r, d)
    <2>1. active' = {} /\ TypeOK'
        BY <1>2, <1>3 DEF OnContextChanged, CancelEffect, IInv, TypeOK
    <2> QED
        BY <2>1, IdleIInv
<1>4. CASE ~(PromptOver(r) \/ ScreenOff(r, d) \/ LockscreenOver(r, d))
    <2>1. /\ mCurrentOperationReason' = Corrected(r, d) /\ mCurrentDisplayState' = d
          /\ active' = active /\ changed' = TRUE /\ graceOver' = graceOver
        BY <1>4 DEF OnContextChanged, IInv, TypeOK
    <2>2. TypeOK'
        BY <1>1, <2>1 DEF IInv, TypeOK
    <2>3. KeyguardOnLockscreen'
        BY <1>4, <2>1 DEF KeyguardOnLockscreen, LockscreenOver, Corrected
    <2>4. ScreenOffOnlyPrompt'
        BY <1>4, <2>1 DEF ScreenOffOnlyPrompt, ScreenOff, Corrected
    <2>5. AuthHasReason'
        BY <2>1 DEF AuthHasReason, Corrected, NewReason, IInv
    <2> QED
        BY <2>2, <2>3, <2>4, <2>5 DEF IInv
<1> QED
    BY <1>3, <1>4

LEMMA NextIInv == IInv /\ [Next]_vars => IInv'
<1> SUFFICES ASSUME IInv, [Next]_vars PROVE IInv'
    OBVIOUS
<1> USE DEF IInv
<1>1. CASE UNCHANGED vars
    BY <1>1 DEF vars, TypeOK, KeyguardOnLockscreen, ScreenOffOnlyPrompt, AuthHasReason
<1>2. ASSUME NEW started \in BOOLEAN, Authenticate(started)
      PROVE  IInv'
    <2>1. mCurrentOperationReason \in Reasons
        BY <1>2 DEF Authenticate, TypeOK
    <2> QED
        BY <1>2, <2>1, AuthenticateKeepsIInv DEF Authenticate
<1>3. ASSUME NEW started \in BOOLEAN, NEW r \in Reasons, AuthenticateWithContext(r, started)
      PROVE  IInv'
    BY <1>3, AuthenticateKeepsIInv DEF AuthenticateWithContext
<1>4. ASSUME NEW k \in {"detect", "enroll"}, StartOther(k)
      PROVE  IInv'
    BY <1>4 DEF StartOther, TypeOK, KeyguardOnLockscreen, ScreenOffOnlyPrompt, AuthHasReason
<1>5. ASSUME NEW k \in {"auth", "detect", "enroll"}, OperationSucceeds(k)
      PROVE  IInv'
    <2>1. active' = {} /\ TypeOK'
        BY <1>5, ReasonsAssumption DEF ReasonsAssumption, OperationSucceeds, TypeOK
    <2> QED
        BY <2>1, IdleIInv
<1>6. CASE GraceEnds
    BY <1>6 DEF GraceEnds, TypeOK, KeyguardOnLockscreen, ScreenOffOnlyPrompt, AuthHasReason
<1>7. CASE Cancel
    <2>1. active' = {} /\ TypeOK'
        BY <1>7, ReasonsAssumption DEF ReasonsAssumption, Cancel, CancelEffect, TypeOK
    <2> QED
        BY <2>1, IdleIInv
<1>8. ASSUME NEW r \in Reasons, NEW d \in DisplayStates, OnContextChanged(r, d)
      PROVE  IInv'
    BY <1>8, ContextChangedKeepsIInv
<1> QED
    BY <1>1, <1>2, <1>3, <1>4, <1>5, <1>6, <1>7, <1>8 DEF Next

(* An authentication whose context has been reported is KEYGUARD's exactly if *)
(* the lock screen is shown.                                               *)
THEOREM KeyguardAgrees == Spec => []KeyguardOnLockscreen
<1>1. IInv => KeyguardOnLockscreen
    BY DEF IInv
<1> QED
    BY <1>1, InitIInv, NextIInv, PTL DEF Spec

(* An operation that goes on while the display is reported off does so under  *)
(* BIOMETRIC_PROMPT.                                                       *)
THEOREM ScreenOffAgrees == Spec => []ScreenOffOnlyPrompt
<1>1. IInv => ScreenOffOnlyPrompt
    BY DEF IInv
<1> QED
    BY <1>1, InitIInv, NextIInv, PTL DEF Spec

(* Every authentication has a reason.                                        *)
THEOREM ReasonKnown == Spec => []AuthHasReason
<1>1. IInv => AuthHasReason
    BY DEF IInv
<1> QED
    BY <1>1, InitIInv, NextIInv, PTL DEF Spec
=============================================================================
