------------------------------ MODULE MCAccount ------------------------------
(***************************************************************************)
(* Account for TLC.  The devices are interchangeable: no definition of     *)
(* Account tells them apart, and only safety is checked.                   *)
(***************************************************************************)
EXTENDS Account, TLC

DeviceSymmetry == Permutations(Devices)

\* Bounds: one device at a time has handlers of Sign Out or an old route, and
\* one old route at most; while a form or a picture is under way, that is its
\* own device, with one handler, no fault, and two taps in all.
Explored ==
  /\ \A d, e \in Devices : outs[d] \o below[d] # <<>> /\ outs[e] \o below[e] # <<>> => d = e
  /\ \A d \in Devices : Len(below[d]) <= 1
  /\ jobs # <<>> => /\ taps <= 2
                    /\ \A d \in Devices : outs[d] # <<>> =>
                         d = jobs[1].dev /\ Len(outs[d]) = 1 /\ faults = 0
==============================================================================
