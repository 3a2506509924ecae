------------------------------- MODULE MCMonitor -------------------------------
(* A small queue with its two readers for TLC. *)
EXTENDS Monitor

CONSTANTS sink, monitor, controller

BothReaders == {sink, monitor}
OneSize == {2}
WholeFrames == {0, 2, 4}

===============================================================================
