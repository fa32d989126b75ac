--------------------------- MODULE MCSessionContext ---------------------------
(* An instance of SessionContext for TLC: the AIDL's values.                *)
EXTENDS SessionContext

AidlReasons == {"UNKNOWN", "BIOMETRIC_PROMPT", "KEYGUARD"}
AidlDisplayStates == {"UNKNOWN", "LOCKSCREEN", "NO_UI", "SCREENSAVER", "AOD"}
=============================================================================
