------------------------------ MODULE MCFollow ------------------------------
(***************************************************************************)
(* Small instances of Follow for TLC: two users, and either one device     *)
(* each or two devices of the same user.                                   *)
(***************************************************************************)
EXTENDS Follow, TLC

CONSTANTS a, b, da, dc, db   \* da and dc belong to a, db to b

MCOwner == [d \in Devices |-> IF d = db THEN b ELSE a]

\* Names of calls are interchangeable.
CallSymmetry == Permutations(CallIds)

\* With one device each, so are the users, each together with their device.
Swap == (a :> b) @@ (b :> a) @@ (da :> db) @@ (db :> da)

PairSymmetry == CallSymmetry \cup {p @@ Swap : p \in CallSymmetry}

\* Bound: once no tap is left, no screen is loaded any more (nothing could be
\* tapped on it).
ScreensOfUse == taps = MaxTaps => \A d \in Devices : screen[d] # "loading"
=============================================================================
