---------------------------- MODULE MCCameraPool ----------------------------
(* Three places for Camera objects, two cameras, and fewer ports than places  *)
(* so that the pool runs empty.                                               *)
EXTENDS CameraPool, TLC

Symmetry == Permutations(Object) \cup Permutations(Id)
=============================================================================
