------------------------------- MODULE MCRuntime -------------------------------
(* Small runtimes for TLC. *)
EXTENDS Runtime, TLC

CONSTANTS c1, c2, c3, s1, s2

AllCameras == {c1, c2, c3}
TwoCameras == {c1, c2}
SameCameras == Permutations(TwoCameras)
OneStorage == {s1}
TwoStorages == {s1, s2}

AnyRequest == [Streams -> Settings]
\* The first stream may have one camera and then another, the second has its own.
FirstChangesCamera ==
  {settings \in AnyRequest : settings[0].camera # c3 /\ settings[1].camera \in {c3, Unset}}

===============================================================================
