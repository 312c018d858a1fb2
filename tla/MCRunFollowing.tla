--------------------------- MODULE MCRunFollowing ---------------------------
(***************************************************************************)
(* TLC instance of RunFollowing.  The first run is cancelled, or fails in  *)
(* a restart of the server; the one after it fails.                        *)
(***************************************************************************)
EXTENDS RunFollowing

MCEnds == <<{"cancelled"}, {"failed"}>>
MCOneRun == <<{"completed"}>>

=============================================================================
