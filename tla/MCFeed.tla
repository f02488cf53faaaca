------------------------------- MODULE MCFeed -------------------------------
(***************************************************************************)
(* Small instances of Feed for TLC: two posters, one of them in the        *)
(* reader's zone and one eight hours ahead.  The instants are half past    *)
(* midnight (early) and four in the afternoon (late) of a day, which is    *)
(* the midnight of the far poster; and for three of their posts the two    *)
(* seconds between which they change: the far one of late appears eight    *)
(* hours after it was made, the near one of late leaves after 24 hours and *)
(* the near one of early after 48.                                         *)
(***************************************************************************)
EXTENDS Feed, TLC

CONSTANTS near, far, me

MCZone == (near :> 0) @@ (far :> 28800) @@ (me :> 0)

MCInstants == {1800, 57600, 86400, 86401, 143999, 144000, 174599, 174600}
=============================================================================
