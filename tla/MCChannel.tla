------------------------------- MODULE MCChannel -------------------------------
(* Small channels for TLC. *)
EXTENDS Channel, TLC

CONSTANTS r1, r2, controller

OneReader == {r1}
TwoReaders == {r1, r2}
AnyReader == Permutations(TwoReaders)

Small == {2}
Mixed == {2, 3}

===============================================================================
