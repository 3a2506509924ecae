------------------------------- MODULE MCFrames -------------------------------
(* A short ring of regions and few images for TLC. *)
EXTENDS Frames

TwoWindows == {2, 3}
OneWindow == {2}

\* No two sets of images have the same sum.
Powers == [id \in 1 .. MaxGrabbed |-> 60 * 2 ^ id]

TwoShapes == {"wide", "tall"}
OneShape == {"wide"}
TwoTypes == {"u16", "f32"}
Integral == {"u16"}

===============================================================================
