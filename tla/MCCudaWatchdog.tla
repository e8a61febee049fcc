-------------------------- MODULE MCCudaWatchdog --------------------------
(***************************************************************************)
(* Model values for CudaWatchdog.                                          *)
(***************************************************************************)
EXTENDS CudaWatchdog, TLC

CONSTANTS c1, c2

TwoCameras == {c1, c2}
CameraSymmetry == Permutations(TwoCameras)

=============================================================================
