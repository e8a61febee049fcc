--------------------------- MODULE MCGpuDetector ---------------------------
(***************************************************************************)
(* Model values for GpuDetector.  The camera threads are interchangeable,  *)
(* and so are the decode threads; the values below are not.                *)
(***************************************************************************)
EXTENDS GpuDetector, TLC

CONSTANTS v1, v2, d1

CameraThreads == {v1, v2}
JpegThreads == {d1}
ThreadSymmetry == Permutations(CameraThreads) \cup Permutations(JpegThreads)

=============================================================================
