-------------------------- MODULE MCGpuFramePool --------------------------
(***************************************************************************)
(* Model values for GpuFramePool: two cameras, two slots for each, and two *)
(* images that differ in the sampled pixels.                               *)
(***************************************************************************)
EXTENDS GpuFramePool, TLC

CONSTANTS c1, c2, b1, b2, b3, g1, g2, g3, g4

TwoCameras == {c1, c2}
ThreeBuffers == {b1, b2, b3}
FourSlots == {g1, g2, g3, g4}
PoolSymmetry == Permutations(TwoCameras) \cup Permutations(ThreeBuffers) \cup Permutations(FourSlots)

Scenes == {"dark", "bright"}
Samples == [image \in Scenes |-> image]

=============================================================================
