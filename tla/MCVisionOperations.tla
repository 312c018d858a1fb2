------------------------ MODULE MCVisionOperations ------------------------
(***************************************************************************)
(* Instances of VisionOperations for TLC.                                  *)
(***************************************************************************)
EXTENDS VisionOperations

=============================================================================
