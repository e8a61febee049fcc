-------------------------- MODULE MCStreamDecode --------------------------
(***************************************************************************)
(* Model values for StreamDecode.                                          *)
(***************************************************************************)
EXTENDS StreamDecode, TLC

CONSTANTS d1, d2, h1, h2

OneHandle == {h1}
TwoHandles == {h1, h2}
OneDevice == {d1}
TwoDevices == {d1, d2}
StreamSymmetry == Permutations(TwoDevices) \cup Permutations(TwoHandles)

===========================================================================
