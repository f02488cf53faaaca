--------------------------- MODULE MCFollowHistory ---------------------------
(***************************************************************************)
(* The instances of MCFollow, with the history variables.                  *)
(***************************************************************************)
EXTENDS MCFollow, FollowHistory
=============================================================================
