---------------------------- MODULE MCVideoStream ----------------------------
(* Small streams for TLC. *)
EXTENDS VideoStream

AllFaults == MishapKinds
StartFault == {"start"}

===============================================================================
