--------------------------- MODULE MCCameraBackend ---------------------------
(* Instances of CameraBackend for TLC; the scenarios are in the .cfg files. *)
EXTENDS CameraBackend, TLC

CONSTANTS c1, c2

OneClient == {c1}
TwoClients == {c1, c2}
AllStages == {"manager", "noCamera", "reader", "open", "session", "request", "streaming"}
FewStages == {"open", "streaming"}
ClientSymmetry == Permutations(TwoClients)
=============================================================================
