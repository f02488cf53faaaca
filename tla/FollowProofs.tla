---------------------------- MODULE FollowProofs ----------------------------
(***************************************************************************)
(* Proofs about Follow and FollowHistory, for every number of users,       *)
(* devices and calls in flight.  The order of the SDK's queue matters only *)
(* to the last section.                                                    *)
(***************************************************************************)
EXTENDS FollowHistory, TLAPS

-----------------------------------------------------------------------------
(***************************************************************************)
(* What the helpers do to the set of calls.                                *)
(***************************************************************************)

\* A call that goes on under its own name keeps the set of calls well formed.
LEMMA ContinueOK ==
  ASSUME CallsOK, NEW c \in calls, NEW next \in Call, next.id = c.id, Continue(c, next)
  PROVE  CallsOK'
BY DEF CallsOK, Continue

\* Queueing a write keeps the set of calls well formed.
LEMMA WriteOK ==
  ASSUME CallsOK, NEW c \in calls, NEW pc \in Stages, NEW seen \in BOOLEAN, Write(c, pc, seen)
  PROVE  CallsOK'
<1>1. PICK n \in Places : Continue(c, [c EXCEPT !.pc = pc, !.seq = n, !.sent = FALSE, !.seen = seen])
  BY DEF Write
<1>2. c \in Call
  BY DEF CallsOK
<1>3. [c EXCEPT !.pc = pc, !.seq = n, !.sent = FALSE, !.seen = seen] \in Call
  BY <1>2 DEF Call
<1>4. [c EXCEPT !.pc = pc, !.seq = n, !.sent = FALSE, !.seen = seen].id = c.id
  BY <1>2 DEF Call
<1> QED BY <1>1, <1>3, <1>4, ContinueOK

\* Ending a call keeps the set of calls well formed.
LEMMA FinishOK ==
  ASSUME CallsOK, NEW c \in calls, Finish(c)
  PROVE  CallsOK'
<1>1. CASE c.awaits
  <2>1. c \in Call
    BY DEF CallsOK
  <2>2. [c EXCEPT !.pc = "return", !.seq = 0, !.sent = FALSE] \in Call
    BY <2>1 DEF Call, Stages
  <2>3. [c EXCEPT !.pc = "return", !.seq = 0, !.sent = FALSE].id = c.id
    BY <2>1 DEF Call
  <2> QED BY <1>1, <2>2, <2>3, ContinueOK DEF Finish
<1>2. CASE ~c.awaits
  BY <1>2 DEF Finish, CallsOK
<1> QED BY <1>1, <1>2

\* A new call under a free name keeps the set of calls well formed.
LEMMA NewCallOK ==
  ASSUME CallsOK, NEW i \in FreshIds, NEW fn \in Methods, NEW u \in Users, NEW v \in Users,
         NEW d \in Devices, NEW w \in BOOLEAN,
         calls' = calls \cup {NewCall(i, fn, u, v, d, w)}
  PROVE  CallsOK'
<1>1. NewCall(i, fn, u, v, d, w) \in Call
  BY DEF NewCall, Call, FreshIds, Stages
<1>2. NewCall(i, fn, u, v, d, w).id = i
  BY DEF NewCall
<1>3. \A c \in calls : c.id # i
  BY DEF FreshIds
<1> QED BY <1>1, <1>2, <1>3 DEF CallsOK

\* Two new calls, as a tap on Accept starts them.
LEMMA NewCallsOK ==
  ASSUME CallsOK, NEW i \in FreshIds, NEW j \in FreshIds, i # j,
         NEW u \in Users, NEW v \in Users, NEW d \in Devices,
         calls' = calls \cup {NewCall(i, "followUser", u, v, d, FALSE),
                              NewCall(j, "stopFollow", u, v, d, FALSE)}
  PROVE  CallsOK'
<1> DEFINE f == NewCall(i, "followUser", u, v, d, FALSE)
           s == NewCall(j, "stopFollow", u, v, d, FALSE)
<1>1. f \in Call /\ s \in Call
  BY DEF NewCall, Call, FreshIds, Stages, Methods
<1>2. f.id = i /\ s.id = j
  BY DEF NewCall
<1>3. \A c \in calls : c.id # i /\ c.id # j
  BY DEF FreshIds
<1> HIDE DEF f, s
<1>4. calls' = calls \cup {f, s}
  BY DEF f, s
<1> QED BY <1>1, <1>2, <1>3, <1>4 DEF CallsOK

\* What a device reads is what the server has, or what one of its own queued
\* writes adds.
LEMMA ReadsCases ==
  ASSUME NEW d, NEW u, NEW v
  PROVE  /\ InFollowers(d, u, v) =>
              \/ u \in followers[v]
              \/ \E c \in calls : c.fn = "followUser" /\ c.uid = u /\ c.tgt = v
         /\ InRequests(d, u, v) =>
              \/ u \in requests[v]
              \/ \E c \in calls : c.fn = "requestFollow" /\ c.uid = u /\ c.tgt = v
<1>1. \A c : Field(c) = "followers" => c.fn = "followUser"
  BY DEF Field
<1>2. \A c : Field(c) = "requests" /\ Adds(c) => c.fn = "requestFollow"
  BY DEF Field, Adds
<1> QED BY <1>1, <1>2 DEF InFollowers, InRequests, Reads, Queue

\* A call whose write the server has applied is the same call.
LEMMA AppliesCalls ==
  ASSUME CallsOK, NEW c \in calls, ServerApplies(c)
  PROVE  \E next \in Call :
           /\ calls' = (calls \ {c}) \cup {next}
           /\ next.id = c.id /\ next.fn = c.fn /\ next.uid = c.uid /\ next.tgt = c.tgt
           /\ next.dev = c.dev /\ next.pc = c.pc /\ next.seq = c.seq /\ next.seen = c.seen
           /\ next.awaits = c.awaits /\ next.alive = c.alive /\ next.sent = TRUE
<1>1. c \in Call /\ calls' = (calls \ {c}) \cup {[c EXCEPT !.sent = TRUE]}
  BY DEF ServerApplies, Continue, CallsOK
<1>2. PICK next : next = [c EXCEPT !.sent = TRUE]
  OBVIOUS
<1>3. /\ next \in Call /\ next.id = c.id /\ next.fn = c.fn /\ next.uid = c.uid /\ next.tgt = c.tgt
      /\ next.dev = c.dev /\ next.pc = c.pc /\ next.seq = c.seq /\ next.seen = c.seen
      /\ next.awaits = c.awaits /\ next.alive = c.alive /\ next.sent = TRUE
  BY <1>1, <1>2 DEF Call
<1> QED BY <1>1, <1>2, <1>3

\* e is the call c at the same await, with the same write.
Kept(e, c) == /\ e.id = c.id /\ e.fn = c.fn /\ e.uid = c.uid /\ e.tgt = c.tgt /\ e.dev = c.dev
              /\ e.pc = c.pc /\ e.seq = c.seq /\ e.seen = c.seen
              /\ (e.sent => c.sent) /\ (e.awaits => c.awaits) /\ (e.alive => c.alive)

\* ... and all that is not lost in a fault.
KeptAll(e, c, d) == /\ Kept(e, c)
                    /\ faults' = faults => e.sent = c.sent
                    /\ ~KillApp(d) => e.alive = c.alive

\* Closing a screen, losing answers or killing an app leaves every write queued.
LEMMA DeviceCalls ==
  ASSUME TypeOK, NEW d \in Devices, CloseProfile(d) \/ AnswersLost(d) \/ KillApp(d)
  PROVE  /\ CallsOK'
         /\ \A e \in calls' : \E c \in calls : KeptAll(e, c, d)
         /\ \A c \in calls : c.pc \in {"update", "update2"} =>
              \E e \in calls' : KeptAll(e, c, d)
         /\ ~KillApp(d) => \A c \in calls : c.pc # "return" => \E e \in calls' : e.id = c.id
<1> DEFINE closed(c) == [c EXCEPT !.awaits = @ /\ c.dev # d]
           lost(c) == [c EXCEPT !.sent = @ /\ c.dev # d]
           killed(c) == [c EXCEPT !.sent = @ /\ c.dev # d, !.awaits = @ /\ c.dev # d,
                                  !.alive = @ /\ c.dev # d]
<1>0. CallsOK /\ faults \in Nat
  BY BoundsAssumption DEF TypeOK, BoundsOK
<1>1. \A c \in calls : /\ closed(c) \in Call /\ lost(c) \in Call /\ killed(c) \in Call
                       /\ closed(c).sent = c.sent /\ closed(c).alive = c.alive
                       /\ lost(c).alive = c.alive
  BY <1>0 DEF CallsOK, Call
<1>2. \A c \in calls : Kept(closed(c), c) /\ Kept(lost(c), c) /\ Kept(killed(c), c)
  BY <1>0 DEF CallsOK, Call, Kept
<1>3. /\ \A g : Remaining(d, g) \subseteq calls
      /\ \A c \in calls : c.pc # "return" => c \in Remaining(d, {"return"})
      /\ \A c \in calls : c.pc \in {"update", "update2"} => /\ c \in Remaining(d, {"get", "return"})
                                                          /\ c.pc # "return"
  BY DEF Remaining
<1>4. \/ calls' = {closed(c) : c \in Remaining(d, {"return"})}
      \/ faults' = faults + 1 /\ calls' = {lost(c) : c \in calls}
      \/ faults' = faults + 1 /\ KillApp(d) /\ calls' = {killed(c) : c \in Remaining(d, {"get", "return"})}
  BY DEF CloseProfile, AnswersLost, KillApp
<1>5. faults + 1 # faults
  BY <1>0
<1> HIDE DEF closed, lost, killed
<1>6. CallsOK'
  BY <1>0, <1>1, <1>2, <1>3, <1>4 DEF CallsOK, Kept
<1>7. \A e \in calls' : \E c \in calls : KeptAll(e, c, d)
  BY <1>1, <1>2, <1>3, <1>4, <1>5 DEF KeptAll
<1>8. \A c \in calls : c.pc \in {"update", "update2"} =>
        \E e \in calls' : KeptAll(e, c, d)
  BY <1>1, <1>2, <1>3, <1>4, <1>5 DEF KeptAll
<1>9. ~KillApp(d) => \A c \in calls : c.pc # "return" => \E e \in calls' : e.id = c.id
  BY <1>2, <1>3, <1>4 DEF Kept
<1> QED BY <1>6, <1>7, <1>8, <1>9
-----------------------------------------------------------------------------
(***************************************************************************)
(* Type correctness.                                                       *)
(***************************************************************************)

\* A step of a call keeps the types.
LEMMA CallStepType ==
  ASSUME TypeOK, NEW c \in calls, CallStep(c) \/ CallThrows(c)
  PROVE  TypeOK'
<1> USE DEF TypeOK
<1>0. c \in Call /\ c.uid \in Users /\ c.tgt \in Users /\ c.dev \in Devices /\ c.seen \in BOOLEAN
  BY DEF CallsOK, Call
<1>1. CASE RequestFollowGet(c)
  <2>1. CallsOK'
    BY <1>1, FinishOK, WriteOK DEF RequestFollowGet, Stages
  <2> QED BY <1>1, <2>1 DEF RequestFollowGet, DocsOK, ScreensOK, BoundsOK, docs, profile, bounds
<1>2. CASE RequestFollowUpdate(c)
  <2>1. CallsOK'
    BY <1>2, FinishOK DEF RequestFollowUpdate
  <2> QED BY <1>2, <2>1 DEF RequestFollowUpdate, DocsOK, ScreensOK, BoundsOK, docs, profile, bounds
<1>3. CASE StopFollowGet(c)
  <2>1. CallsOK'
    BY <1>3, FinishOK, WriteOK DEF StopFollowGet, Stages
  <2> QED BY <1>3, <2>1 DEF StopFollowGet, DocsOK, ScreensOK, BoundsOK, docs, profile, bounds
<1>4. CASE StopFollowUpdate(c)
  <2>1. CallsOK'
    BY <1>4, FinishOK DEF StopFollowUpdate
  <2> QED BY <1>4, <2>1 DEF StopFollowUpdate, DocsOK, ScreensOK, BoundsOK, docs, profile, bounds
<1>5. CASE FollowUserGet(c)
  <2>1. InFollowing(c.dev, c.uid, c.tgt) \in BOOLEAN
    BY DEF Reads, InFollowing
  <2>2. CallsOK'
    BY <1>5, <2>1, WriteOK DEF FollowUserGet, Stages
  <2> QED BY <1>5, <2>2 DEF FollowUserGet, DocsOK, ScreensOK, BoundsOK, docs, profile, bounds
<1>6. CASE FollowUserUpdateFollowers(c)
  <2>1. CallsOK'
    <3>1. CASE c.alive
      BY <1>0, <1>6, <3>1, WriteOK DEF FollowUserUpdateFollowers, Stages
    <3>2. CASE ~c.alive
      BY <1>6, <3>2 DEF FollowUserUpdateFollowers, CallsOK
    <3> QED BY <3>1, <3>2
  <2> QED BY <1>6, <2>1 DEF FollowUserUpdateFollowers, DocsOK, ScreensOK, BoundsOK, docs, profile, bounds
<1>7. CASE FollowUserUpdateFollowing(c)
  <2>1. CallsOK'
    BY <1>7, FinishOK DEF FollowUserUpdateFollowing
  <2> QED BY <1>7, <2>1 DEF FollowUserUpdateFollowing, DocsOK, ScreensOK, BoundsOK, docs, profile, bounds
<1>8. CASE UnfollowReturns(c)
  <2>1. CallsOK'
    BY <1>8 DEF UnfollowReturns, CallsOK
  <2>2. ScreensOK'
    BY <1>0, <1>8 DEF UnfollowReturns, ScreensOK
  <2> QED BY <1>8, <2>1, <2>2 DEF UnfollowReturns, DocsOK, BoundsOK, docs, bounds
<1>9. CASE CallThrows(c)
  <2>1. CallsOK'
    BY <1>9, FinishOK DEF CallThrows
  <2>2. BoundsOK'
    BY <1>9, BoundsAssumption DEF CallThrows, BoundsOK
  <2> QED BY <1>9, <2>1, <2>2 DEF CallThrows, DocsOK, ScreensOK, docs, profile
<1>10. CASE ServerApplies(c)
  <2>1. AddRequest(c) \/ RemoveRequest(c) \/ ToggleFollowers(c) \/ ToggleFollowing(c)
    BY <1>10 DEF ServerApplies
  <2>2. DocsOK'
    BY <1>0, <2>1 DEF AddRequest, RemoveRequest, ToggleFollowers, ToggleFollowing, Toggled, DocsOK
  <2>3. CallsOK'
    <3>1. PICK next \in Call : calls' = (calls \ {c}) \cup {next} /\ next.id = c.id
      BY <1>10, AppliesCalls
    <3> QED BY <3>1 DEF CallsOK
  <2> QED BY <1>10, <2>2, <2>3 DEF ServerApplies, ScreensOK, BoundsOK, profile, bounds
<1> QED BY <1>1, <1>2, <1>3, <1>4, <1>5, <1>6, <1>7, <1>8, <1>9, <1>10 DEF CallStep

\* A step of a device keeps the types.
LEMMA DeviceStepType ==
  ASSUME TypeOK, NEW d \in Devices, DeviceStep(d)
  PROVE  TypeOK'
<1> USE DEF TypeOK
<1>0. Owner[d] \in Users
  BY OwnerAssumption
<1>1. ASSUME NEW u \in Users, OpenProfile(d, u)
      PROVE  TypeOK'
  <2>1. ScreensOK'
    BY <1>1, NoUserAssumption DEF OpenProfile, ScreensOK
  <2> QED BY <1>1, <2>1 DEF OpenProfile, DocsOK, CallsOK, BoundsOK, docs, bounds
<1>2. CASE ProfileLoaded(d)
  <2>1. viewed[d] \in Users
    BY <1>2 DEF ProfileLoaded, ScreensOK
  <2>2. InFollowers(d, Owner[d], viewed[d]) \in BOOLEAN
    BY DEF Reads, InFollowers
  <2>3. InRequests(d, Owner[d], viewed[d]) \in BOOLEAN
    BY DEF InRequests
  <2>4. ScreensOK'
    BY <1>2, <2>1, <2>2, <2>3 DEF ProfileLoaded, ScreensOK
  <2> QED BY <1>2, <2>4 DEF ProfileLoaded, DocsOK, CallsOK, BoundsOK, docs, bounds
<1>3. CASE ProfileFails(d)
  <2>1. ScreensOK'
    BY <1>3 DEF ProfileFails, ScreensOK
  <2>2. BoundsOK'
    BY <1>3, BoundsAssumption DEF ProfileFails, BoundsOK
  <2> QED BY <1>3, <2>1, <2>2 DEF ProfileFails, DocsOK, CallsOK, docs
<1>4. CASE CloseProfile(d)
  <2>1. CallsOK'
    BY <1>4, DeviceCalls
  <2>2. ScreensOK'
    BY <1>4 DEF CloseProfile, Unmounted, ScreensOK
  <2> QED BY <1>4, <2>1, <2>2 DEF CloseProfile, DocsOK, BoundsOK, docs, bounds
<1>5. CASE TapUnfollow(d)
  <2>1. viewed[d] \in Users
    BY <1>5 DEF TapUnfollow, ButtonsShown, ScreensOK
  <2>2. CallsOK'
    BY <1>0, <1>5, <2>1, NewCallOK DEF TapUnfollow, Methods
  <2>3. BoundsOK'
    BY <1>5, BoundsAssumption DEF TapUnfollow, Tap, BoundsOK
  <2> QED BY <1>5, <2>2, <2>3 DEF TapUnfollow, DocsOK, ScreensOK, docs, profile
<1>6. CASE TapRequestSent(d)
  <2>1. viewed[d] \in Users
    BY <1>6 DEF TapRequestSent, ButtonsShown, ScreensOK
  <2>2. CallsOK'
    BY <1>0, <1>6, <2>1, NewCallOK DEF TapRequestSent, Methods
  <2>3. BoundsOK'
    BY <1>6, BoundsAssumption DEF TapRequestSent, Tap, BoundsOK
  <2>4. ScreensOK'
    BY <1>6 DEF TapRequestSent, ScreensOK
  <2> QED BY <1>6, <2>2, <2>3, <2>4 DEF TapRequestSent, DocsOK, docs
<1>7. CASE TapFollow(d)
  <2>1. viewed[d] \in Users
    BY <1>7 DEF TapFollow, ButtonsShown, ScreensOK
  <2>2. CallsOK'
    BY <1>0, <1>7, <2>1, NewCallOK DEF TapFollow, Methods
  <2>3. BoundsOK'
    BY <1>7, BoundsAssumption DEF TapFollow, Tap, BoundsOK
  <2>4. ScreensOK'
    BY <1>7 DEF TapFollow, ScreensOK
  <2> QED BY <1>7, <2>2, <2>3, <2>4 DEF TapFollow, DocsOK, docs
<1>8. CASE LoadRequests(d)
  <2>1. ScreensOK'
    BY <1>8 DEF LoadRequests, ScreensOK, profile
  <2> QED BY <1>8, <2>1 DEF LoadRequests, DocsOK, CallsOK, BoundsOK, docs, bounds
<1>9. ASSUME NEW u \in Users, TapAccept(d, u)
      PROVE  TypeOK'
  <2>1. CallsOK'
    <3>1. PICK i, j \in FreshIds :
            /\ i # j
            /\ calls' = calls \cup {NewCall(i, "followUser", u, Owner[d], d, FALSE),
                                    NewCall(j, "stopFollow", u, Owner[d], d, FALSE)}
      BY <1>9 DEF TapAccept
    <3> QED BY <1>0, <3>1, NewCallsOK
  <2>2. BoundsOK'
    BY <1>9, BoundsAssumption DEF TapAccept, Tap, BoundsOK
  <2>3. ScreensOK'
    BY <1>9 DEF TapAccept, RemoveRow, ScreensOK, profile
  <2> QED BY <1>9, <2>1, <2>2, <2>3 DEF TapAccept, DocsOK, docs
<1>10. ASSUME NEW u \in Users, TapDecline(d, u)
       PROVE  TypeOK'
  <2>1. CallsOK'
    BY <1>0, <1>10, NewCallOK DEF TapDecline, Methods
  <2>2. BoundsOK'
    BY <1>10, BoundsAssumption DEF TapDecline, Tap, BoundsOK
  <2>3. ScreensOK'
    BY <1>10 DEF TapDecline, RemoveRow, ScreensOK, profile
  <2> QED BY <1>10, <2>1, <2>2, <2>3 DEF TapDecline, DocsOK, docs
<1>11. CASE KillApp(d)
  <2>1. CallsOK'
    BY <1>11, DeviceCalls
  <2>2. ScreensOK'
    BY <1>11 DEF KillApp, Unmounted, ScreensOK
  <2>3. BoundsOK'
    <3>1. faults < MaxFaults /\ faults' = faults + 1 /\ taps' = taps
      BY <1>11 DEF KillApp
    <3> QED BY <3>1, BoundsAssumption DEF BoundsOK
  <2> QED BY <1>11, <2>1, <2>2, <2>3 DEF KillApp, DocsOK, docs
<1>12. CASE AnswersLost(d)
  <2>1. CallsOK'
    BY <1>12, DeviceCalls
  <2>2. BoundsOK'
    <3>1. faults < MaxFaults /\ faults' = faults + 1 /\ taps' = taps
      BY <1>12 DEF AnswersLost
    <3> QED BY <3>1, BoundsAssumption DEF BoundsOK
  <2> QED BY <1>12, <2>1, <2>2 DEF AnswersLost, DocsOK, ScreensOK, docs, profile
<1> QED
  BY <1>1, <1>2, <1>3, <1>4, <1>5, <1>6, <1>7, <1>8, <1>9, <1>10, <1>11, <1>12 DEF DeviceStep

\* The initial states are well typed.
LEMMA InitType == Init => TypeOK
<1> SUFFICES ASSUME Init PROVE TypeOK
  OBVIOUS
<1>1. DocsOK
  BY DEF Init, DocsOK
<1>2. CallsOK /\ BoundsOK
  BY BoundsAssumption DEF Init, CallsOK, BoundsOK
<1>3. ScreensOK
  BY DEF Init, ScreensOK
<1> QED BY <1>1, <1>2, <1>3 DEF TypeOK

\* Every step keeps the types.
LEMMA NextType == TypeOK /\ [Next]_vars => TypeOK'
<1> SUFFICES ASSUME TypeOK, [Next]_vars PROVE TypeOK'
  OBVIOUS
<1>1. CASE Next
  BY <1>1, CallStepType, DeviceStepType DEF Next
<1>2. CASE UNCHANGED vars
  BY <1>2 DEF vars, docs, profile, bounds, TypeOK, DocsOK, CallsOK, ScreensOK, BoundsOK
<1> QED BY <1>1, <1>2

\* Every variable of the follow protocol always holds a value of its kind, and
\* a screen of OtherUserProfile shows a user exactly while it is open.
THEOREM TypeCorrect == Spec => []TypeOK
BY InitType, NextType, PTL DEF Spec
-----------------------------------------------------------------------------
(***************************************************************************)
(* Where things come from: calls, elements of the lists, what screens show.*)
(***************************************************************************)

\* e is the call c, perhaps at another await.
Descends(e, c) == e.id = c.id /\ e.fn = c.fn /\ e.uid = c.uid /\ e.tgt = c.tgt /\ e.dev = c.dev

\* e was started by a button of the profile open on its device.
FromProfile(e) ==
  /\ e.dev \in Devices /\ ButtonsShown(e.dev)
  /\ e.uid = Owner[e.dev] /\ e.tgt = viewed[e.dev]
  /\ e.fn = "followUser" => isFollowing[e.dev]

\* e was started by a button of a request row on its device.
FromRow(e) ==
  /\ e.dev \in Devices /\ e.uid \in requestsUid[e.dev]
  /\ e.tgt = Owner[e.dev] /\ e.fn \in {"followUser", "stopFollow"}

\* A call continued or ended in either way is the same call.
LEMMA ContinuedCalls ==
  ASSUME CallsOK, NEW c \in calls,
         \/ Finish(c)
         \/ \E pc \in Stages, seen \in BOOLEAN : Write(c, pc, seen)
         \/ calls' = calls \ {c}
         \/ ServerApplies(c)
  PROVE  \A e \in calls' : \E x \in calls : Descends(e, x)
<1>1. c \in Call
  BY DEF CallsOK
<1>2. \A x \in calls : Descends(x, x)
  BY DEF Descends
<1>3. CASE Finish(c)
  <2>1. Descends([c EXCEPT !.pc = "return", !.seq = 0, !.sent = FALSE], c)
    BY <1>1 DEF Descends, Call
  <2> QED BY <1>2, <1>3, <2>1 DEF Finish, Continue
<1>4. CASE \E pc \in Stages, seen \in BOOLEAN : Write(c, pc, seen)
  <2>1. PICK pc \in Stages, seen \in BOOLEAN, n \in Places :
          calls' = (calls \ {c}) \cup {[c EXCEPT !.pc = pc, !.seq = n, !.sent = FALSE, !.seen = seen]}
    BY <1>4 DEF Write, Continue
  <2>2. Descends([c EXCEPT !.pc = pc, !.seq = n, !.sent = FALSE, !.seen = seen], c)
    BY <1>1 DEF Descends, Call
  <2> QED BY <1>2, <2>1, <2>2
<1>5. CASE calls' = calls \ {c}
  BY <1>2, <1>5
<1>6. CASE ServerApplies(c)
  <2>1. PICK next : calls' = (calls \ {c}) \cup {next} /\ Descends(next, c)
    BY <1>6, AppliesCalls DEF Descends
  <2> QED BY <1>2, <2>1
<1> QED BY <1>3, <1>4, <1>5, <1>6

\* Every call was there before, or was just started by a button.
LEMMA CallsOrigin ==
  ASSUME TypeOK, Next, NEW e \in calls'
  PROVE  (\E c \in calls : Descends(e, c)) \/ FromProfile(e) \/ FromRow(e)
<1> USE DEF TypeOK
<1>1. ASSUME NEW c \in calls, CallStep(c) \/ CallThrows(c)
      PROVE  \E x \in calls : Descends(e, x)
  <2>1. InFollowing(c.dev, c.uid, c.tgt) \in BOOLEAN /\ c.seen \in BOOLEAN
    BY DEF InFollowing, Reads, CallsOK, Call
  <2>2. \/ Finish(c)
        \/ \E pc \in Stages, seen \in BOOLEAN : Write(c, pc, seen)
        \/ calls' = calls \ {c}
        \/ ServerApplies(c)
    BY <1>1, <2>1 DEF CallStep, CallThrows, RequestFollowGet, RequestFollowUpdate, StopFollowGet,
       StopFollowUpdate, FollowUserGet, FollowUserUpdateFollowers, FollowUserUpdateFollowing,
       UnfollowReturns, Stages
  <2> QED BY <2>2, ContinuedCalls
<1>2. ASSUME NEW d \in Devices, DeviceStep(d)
      PROVE  (\E c \in calls : Descends(e, c)) \/ FromProfile(e) \/ FromRow(e)
  <2>0. e \in calls => Descends(e, e)
    BY DEF Descends
  <2>1. CASE TapUnfollow(d) \/ TapRequestSent(d) \/ TapFollow(d)
    <3>1. CASE TapUnfollow(d)
      <4>1. PICK i : calls' = calls \cup {NewCall(i, "followUser", Owner[d], viewed[d], d, TRUE)}
        BY <3>1 DEF TapUnfollow
      <4> QED BY <2>0, <3>1, <4>1 DEF TapUnfollow, FromProfile, NewCall
    <3>2. CASE TapRequestSent(d)
      <4>1. PICK i : calls' = calls \cup {NewCall(i, "stopFollow", Owner[d], viewed[d], d, FALSE)}
        BY <3>2 DEF TapRequestSent
      <4> QED BY <2>0, <3>2, <4>1 DEF TapRequestSent, FromProfile, NewCall
    <3>3. CASE TapFollow(d)
      <4>1. PICK i : calls' = calls \cup {NewCall(i, "requestFollow", Owner[d], viewed[d], d, FALSE)}
        BY <3>3 DEF TapFollow
      <4> QED BY <2>0, <3>3, <4>1 DEF TapFollow, FromProfile, NewCall
    <3> QED BY <2>1, <3>1, <3>2, <3>3
  <2>2. ASSUME NEW u \in Users, TapAccept(d, u) \/ TapDecline(d, u)
        PROVE  (\E c \in calls : Descends(e, c)) \/ FromProfile(e) \/ FromRow(e)
    <3>1. PICK i, j :
            calls' \subseteq calls \cup {NewCall(i, "followUser", u, Owner[d], d, FALSE),
                                         NewCall(j, "stopFollow", u, Owner[d], d, FALSE)}
      BY <2>2 DEF TapAccept, TapDecline
    <3>2. u \in requestsUid[d]
      BY <2>2 DEF TapAccept, TapDecline
    <3> QED BY <2>0, <3>1, <3>2 DEF FromRow, NewCall
  <2>3. CASE CloseProfile(d) \/ AnswersLost(d) \/ KillApp(d)
    <3>1. PICK c \in calls : KeptAll(e, c, d)
      BY <2>3, DeviceCalls
    <3>2. Kept(e, c)
      BY <3>1 DEF KeptAll
    <3> QED BY <3>2 DEF Kept, Descends
  <2>4. CASE calls' = calls
    BY <2>0, <2>4
  <2> QED BY <1>2, <2>1, <2>2, <2>3, <2>4 DEF DeviceStep, OpenProfile, ProfileLoaded, ProfileFails,
             LoadRequests
<1> QED BY <1>1, <1>2 DEF Next

\* An element of a list was there before, or a call's write has just added it.
LEMMA DocsOrigin ==
  ASSUME TypeOK, Next, NEW u \in Users, NEW v \in Users
  PROVE  /\ u \in followers'[v] \/ v \in following'[u] =>
              \/ Edge(u, v)
              \/ \E c \in calls : c.fn = "followUser" /\ c.uid = u /\ c.tgt = v
         /\ u \in requests'[v] =>
              \/ u \in requests[v]
              \/ \E c \in calls : c.fn = "requestFollow" /\ c.uid = u /\ c.tgt = v
<1> USE DEF TypeOK, DocsOK, Edge
<1>1. ASSUME NEW c \in calls, CallStep(c) \/ CallThrows(c)
      PROVE  \/ docs' = docs
             \/ c.fn = "requestFollow" /\ AddRequest(c)
             \/ RemoveRequest(c)
             \/ c.fn = "followUser" /\ (ToggleFollowers(c) \/ ToggleFollowing(c))
  BY <1>1 DEF CallStep, CallThrows, ServerApplies, RequestFollowGet, RequestFollowUpdate, StopFollowGet,
     StopFollowUpdate, FollowUserGet, FollowUserUpdateFollowers, FollowUserUpdateFollowing,
     UnfollowReturns, At
<1>2. ASSUME NEW d \in Devices, DeviceStep(d)
      PROVE  docs' = docs
  BY <1>2 DEF DeviceStep, OpenProfile, ProfileLoaded, ProfileFails, CloseProfile, TapUnfollow,
     TapRequestSent, TapFollow, LoadRequests, TapAccept, TapDecline, AnswersLost, KillApp
<1>3. CASE docs' = docs
  BY <1>3 DEF docs
<1>4. ASSUME NEW c \in calls,
             \/ c.fn = "requestFollow" /\ AddRequest(c)
             \/ RemoveRequest(c)
             \/ c.fn = "followUser" /\ (ToggleFollowers(c) \/ ToggleFollowing(c))
      PROVE  /\ u \in followers'[v] =>
                  u \in followers[v] \/ (c.fn = "followUser" /\ c.uid = u /\ c.tgt = v)
             /\ v \in following'[u] =>
                  v \in following[u] \/ (c.fn = "followUser" /\ c.uid = u /\ c.tgt = v)
             /\ u \in requests'[v] =>
                  u \in requests[v] \/ (c.fn = "requestFollow" /\ c.uid = u /\ c.tgt = v)
  BY <1>4 DEF AddRequest, RemoveRequest, ToggleFollowers, ToggleFollowing, Toggled
<1> QED BY <1>1, <1>2, <1>3, <1>4 DEF Next

\* A screen offers Unfollow, or shows a request, because it did before or
\* because that is what it has just read.
LEMMA ScreensOrigin ==
  ASSUME TypeOK, Next, NEW d \in Devices
  PROVE  /\ isFollowing'[d] => /\ viewed'[d] = viewed[d] /\ viewed[d] \in Users
                               /\ isFollowing[d] \/ InFollowers(d, Owner[d], viewed[d])
         /\ \A u \in requestsUid'[d] :
              u \in requestsUid[d] \/ (u \in Users /\ InRequests(d, u, Owner[d]))
<1> USE DEF TypeOK, ScreensOK
<1>1. ASSUME NEW c \in calls, CallStep(c) \/ CallThrows(c)
      PROVE  /\ viewed' = viewed /\ requestsUid' = requestsUid
             /\ isFollowing'[d] => isFollowing[d]
  BY <1>1 DEF CallStep, CallThrows, ServerApplies, RequestFollowGet, RequestFollowUpdate, StopFollowGet,
       StopFollowUpdate, FollowUserGet, FollowUserUpdateFollowers, FollowUserUpdateFollowing,
       UnfollowReturns, profile
<1>2. ASSUME NEW x \in Devices, DeviceStep(x)
      PROVE  /\ isFollowing'[d] => /\ viewed'[d] = viewed[d] /\ viewed[d] \in Users
                                   /\ isFollowing[d] \/ InFollowers(d, Owner[d], viewed[d])
             /\ \A u \in requestsUid'[d] :
                  u \in requestsUid[d] \/ (u \in Users /\ InRequests(d, u, Owner[d]))
  <2>0. isFollowing[d] => viewed[d] \in Users
    OBVIOUS
  <2>1. CASE \E u \in Users : OpenProfile(x, u)
    BY <2>0, <2>1 DEF OpenProfile
  <2>2. CASE ProfileLoaded(x)
    BY <2>0, <2>2 DEF ProfileLoaded
  <2>3. CASE ProfileFails(x)
    BY <2>0, <2>3 DEF ProfileFails
  <2>4. CASE CloseProfile(x) \/ KillApp(x)
    BY <2>0, <2>4 DEF CloseProfile, KillApp, Unmounted
  <2>5. CASE TapUnfollow(x) \/ TapRequestSent(x) \/ TapFollow(x)
    BY <2>0, <2>5 DEF TapUnfollow, TapRequestSent, TapFollow, profile
  <2>6. CASE LoadRequests(x)
    BY <2>0, <2>6 DEF LoadRequests, profile
  <2>7. CASE \E u \in Users : TapAccept(x, u) \/ TapDecline(x, u)
    BY <2>0, <2>7 DEF TapAccept, TapDecline, RemoveRow, profile
  <2>8. CASE AnswersLost(x)
    BY <2>0, <2>8 DEF AnswersLost, profile
  <2> QED BY <1>2, <2>1, <2>2, <2>3, <2>4, <2>5, <2>6, <2>7, <2>8 DEF DeviceStep
<1> QED BY <1>1, <1>2 DEF Next
-----------------------------------------------------------------------------
(***************************************************************************)
(* Nobody follows themselves.                                              *)
(***************************************************************************)

\* Every step keeps the inductive form of NoSelfFollow.
LEMMA NextNoSelf == TypeOK /\ NoSelfInv /\ [Next]_vars => NoSelfInv'
<1> SUFFICES ASSUME TypeOK, NoSelfInv, [Next]_vars PROVE NoSelfInv'
  OBVIOUS
<1>1. CASE UNCHANGED vars
  BY <1>1 DEF vars, docs, NoSelfInv, NoSelfFollow
<1>2. CASE Next
  <2>1. NoSelfFollow'
    BY <1>2, DocsOrigin DEF NoSelfInv, NoSelfFollow, Edge
  <2>2. \A e \in calls' : e.uid # e.tgt
    <3> SUFFICES ASSUME NEW e \in calls' PROVE e.uid # e.tgt
      OBVIOUS
    <3>1. CASE \E c \in calls : Descends(e, c)
      BY <3>1 DEF NoSelfInv, Descends
    <3>2. CASE FromProfile(e)
      BY <3>2 DEF FromProfile, ButtonsShown
    <3>3. CASE FromRow(e)
      BY <3>3 DEF FromRow, NoSelfInv
    <3> QED BY <1>2, <3>1, <3>2, <3>3, CallsOrigin
  <2>3. \A d \in Devices : Owner[d] \notin requestsUid'[d]
    <3> SUFFICES ASSUME NEW d \in Devices, Owner[d] \in requestsUid'[d] PROVE FALSE
      OBVIOUS
    <3>1. InRequests(d, Owner[d], Owner[d])
      BY <1>2, ScreensOrigin DEF NoSelfInv
    <3>2. Owner[d] \in Users
      BY OwnerAssumption
    <3>3. Owner[d] \in requests[Owner[d]]
      BY <3>1, ReadsCases DEF NoSelfInv
    <3> QED BY <3>2, <3>3 DEF NoSelfInv, NoSelfFollow
  <2> QED BY <2>1, <2>2, <2>3 DEF NoSelfInv
<1> QED BY <1>1, <1>2

\* The initial states have no self-follower.
LEMMA InitNoSelf == Init => NoSelfInv
BY OwnerAssumption DEF Init, NoSelfInv, NoSelfFollow

\* Nobody ever follows themselves or has a request of their own, with any
\* number of users, devices and calls: the test in OtherUserProfile's build
\* method is enough.
THEOREM NoSelfFollowing == Spec => []NoSelfFollow
<1>1. TypeOK /\ NoSelfInv /\ [Next]_vars => (TypeOK /\ NoSelfInv)'
  BY NextType, NextNoSelf
<1>2. NoSelfInv => NoSelfFollow
  BY DEF NoSelfInv
<1> QED BY InitType, InitNoSelf, <1>1, <1>2, PTL DEF Spec

-----------------------------------------------------------------------------
(***************************************************************************)
(* Every edge was asked for and approved.                                  *)
(***************************************************************************)

\* What a device reads in the lists has its history behind it.
LEMMA ReadsHistory ==
  ASSUME TypeOK, HistoryInv, NEW d \in Devices, NEW u \in Users, NEW v \in Users
  PROVE  /\ InFollowers(d, u, v) => <<u, v>> \in approved \cap asked
         /\ InRequests(d, u, v) => <<u, v>> \in asked
BY ReadsCases DEF HistoryInv, EverApproved, EverAsked, Edge, Pair

\* Every step keeps the inductive form of EverApproved and EverAsked.
LEMMA NextHistory == TypeOK /\ HistoryInv /\ [HNext]_hvars => HistoryInv'
<1> SUFFICES ASSUME TypeOK, HistoryInv, [HNext]_hvars PROVE HistoryInv'
  OBVIOUS
<1>1. CASE UNCHANGED hvars
  BY <1>1 DEF hvars, vars, docs, profile, HistoryInv, EverApproved, EverAsked, Edge, Pair
<1>2. CASE HNext
  <2>0. /\ Next
        /\ asked \subseteq asked' /\ approved \subseteq approved'
        /\ \A e \in calls' : e.fn = "requestFollow" /\ e.uid = Owner[e.dev] => Pair(e) \in asked'
        /\ \A e \in calls' : e.fn = "followUser" /\ e.tgt = Owner[e.dev] => Pair(e) \in approved'
    BY <1>2 DEF HNext, AskedBy, ApprovedBy
  <2>1. ASSUME NEW u \in Users, NEW v \in Users
        PROVE  /\ Edge(u, v)' => <<u, v>> \in approved' \cap asked'
               /\ u \in requests'[v] => <<u, v>> \in asked'
    <3>1. ASSUME NEW c \in calls, c.uid = u, c.tgt = v
          PROVE  /\ c.fn = "followUser" => <<u, v>> \in approved' \cap asked'
                 /\ c.fn = "requestFollow" => <<u, v>> \in asked'
      BY <2>0, <3>1 DEF HistoryInv, Pair
    <3>2. /\ Edge(u, v) => <<u, v>> \in approved' \cap asked'
          /\ u \in requests[v] => <<u, v>> \in asked'
      BY <2>0 DEF HistoryInv, EverApproved, EverAsked
    <3> QED BY <2>0, <3>1, <3>2, DocsOrigin DEF Edge
  <2>2. ASSUME NEW e \in calls'
        PROVE  /\ e.fn = "followUser" => Pair(e) \in approved' \cap asked'
               /\ e.fn = "requestFollow" => Pair(e) \in asked'
    <3>1. CASE \E c \in calls : Descends(e, c)
      BY <2>0, <3>1 DEF HistoryInv, Descends, Pair
    <3>2. CASE FromProfile(e)
      BY <2>0, <3>2 DEF HistoryInv, FromProfile, Pair
    <3>3. CASE FromRow(e)
      BY <2>0, <3>3 DEF HistoryInv, FromRow, Pair
    <3> QED BY <2>0, <3>1, <3>2, <3>3, CallsOrigin
  <2>3. ASSUME NEW d \in Devices
        PROVE  /\ isFollowing'[d] => <<Owner[d], viewed'[d]>> \in approved' \cap asked'
               /\ \A u \in requestsUid'[d] : <<u, Owner[d]>> \in asked'
    <3>1. Owner[d] \in Users
      BY OwnerAssumption
    <3>2. isFollowing'[d] => <<Owner[d], viewed'[d]>> \in approved' \cap asked'
      BY <2>0, <3>1, ScreensOrigin, ReadsHistory DEF HistoryInv
    <3>3. \A u \in requestsUid'[d] : <<u, Owner[d]>> \in asked'
      BY <2>0, <3>1, ScreensOrigin, ReadsHistory DEF HistoryInv
    <3> QED BY <3>2, <3>3
  <2> QED BY <2>1, <2>2, <2>3 DEF HistoryInv, EverApproved, EverAsked
<1> QED BY <1>1, <1>2

\* The initial edges and requests count as asked for.
LEMMA InitHistory == HInit => HistoryInv
<1> SUFFICES ASSUME HInit PROVE HistoryInv
  OBVIOUS
<1>1. /\ \A u, v \in Users : u \in followers[v] <=> v \in following[u]
      /\ calls = {}
      /\ \A d \in Devices : isFollowing[d] = FALSE /\ requestsUid[d] = {}
  BY DEF HInit, Init
<1>2. /\ \A u, v \in Users : v \in following[u] => <<u, v>> \in approved \cap asked
      /\ \A u, v \in Users : u \in requests[v] => <<u, v>> \in asked
  BY DEF HInit
<1> QED BY <1>1, <1>2 DEF HistoryInv, EverApproved, EverAsked, Edge

\* A step with history variables is a step of the protocol.
LEMMA HNextNext == [HNext]_hvars => [Next]_vars
BY DEF HNext, hvars

\* Nobody is ever in a follower list without having been accepted at some
\* time by that user on a device of theirs (SearchTab's accept button).
THEOREM EdgesApproved == HSpec => []EverApproved
<1>1. HInit => TypeOK /\ HistoryInv
  BY InitType, InitHistory DEF HInit
<1>2. TypeOK /\ HistoryInv /\ [HNext]_hvars => (TypeOK /\ HistoryInv)'
  BY NextType, NextHistory, HNextNext
<1>3. HistoryInv => EverApproved
  BY DEF HistoryInv
<1> QED BY <1>1, <1>2, <1>3, PTL DEF HSpec

\* ... nor without having asked for it on a device of their own.
THEOREM EdgesAsked == HSpec => []EverAsked
<1>1. HInit => TypeOK /\ HistoryInv
  BY InitType, InitHistory DEF HInit
<1>2. TypeOK /\ HistoryInv /\ [HNext]_hvars => (TypeOK /\ HistoryInv)'
  BY NextType, NextHistory, HNextNext
<1>3. HistoryInv => EverAsked
  BY DEF HistoryInv
<1> QED BY <1>1, <1>2, <1>3, PTL DEF HSpec

-----------------------------------------------------------------------------
(***************************************************************************)
(* The two lists agree, off the torn pairs and the calls half-way.         *)
(***************************************************************************)
\* The first write of the toggle is applied; it may be, if the first write to
\* the pair may have been applied without an answer.
Half(c) == Toggling(c) /\ (c.sent \/ c.pc = "update2")
Mid(c, again) == Toggling(c) /\ (c.pc = "update" => c.sent \/ Pair(c) \in again)

\* What is left of the calls when one of them ends.
LEMMA FinishCalls ==
  ASSUME CallsOK, NEW c \in calls, Finish(c)
  PROVE  /\ calls \ {c} \subseteq calls'
         /\ \A e \in calls' : e \in calls \ {c} \/ (e.pc = "return" /\ e.id = c.id)
<1>1. CASE c.awaits
  <2> DEFINE next == [c EXCEPT !.pc = "return", !.seq = 0, !.sent = FALSE]
  <2>1. next.pc = "return" /\ next.id = c.id
    BY DEF CallsOK, Call
  <2>2. calls' = (calls \ {c}) \cup {next}
    BY <1>1 DEF Finish, Continue
  <2> HIDE DEF next
  <2> QED BY <2>1, <2>2
<1>2. CASE ~c.awaits
  BY <1>2 DEF Finish
<1> QED BY <1>1, <1>2

\* What the calls are when one of them has queued a write.
LEMMA WriteCalls ==
  ASSUME CallsOK, NEW c \in calls, NEW pc \in Stages, NEW seen \in BOOLEAN, Write(c, pc, seen)
  PROVE  \E next : /\ calls' = (calls \ {c}) \cup {next}
                   /\ next.pc = pc /\ next.seen = seen /\ ~next.sent
                   /\ Pair(next) = Pair(c) /\ next.fn = c.fn
<1>1. PICK n \in Places :
        calls' = (calls \ {c}) \cup {[c EXCEPT !.pc = pc, !.seq = n, !.sent = FALSE, !.seen = seen]}
  BY DEF Write, Continue
<1>2. c \in Call
  BY DEF CallsOK
<1> DEFINE next == [c EXCEPT !.pc = pc, !.seq = n, !.sent = FALSE, !.seen = seen]
<1>3. /\ next.pc = pc /\ next.seen = seen /\ next.uid = c.uid /\ next.tgt = c.tgt
      /\ next.fn = c.fn /\ ~next.sent
  BY <1>2 DEF Call
<1> HIDE DEF next
<1>4. calls' = (calls \ {c}) \cup {next} /\ Pair(next) = Pair(c)
  BY <1>1, <1>3 DEF next, Pair
<1> QED BY <1>3, <1>4

\* A step keeps both lists and the toggles under way, except for the writes of
\* followUser, the answer to the first of them, and faults.
LEMMA HalfKept ==
  ASSUME TypeOK, Next,
         \A c \in calls : ~(ServerApplies(c) \/ FollowUserUpdateFollowers(c) \/ CallThrows(c)),
         \A d \in Devices : ~(AnswersLost(d) \/ KillApp(d))
  PROVE  /\ followers' = followers /\ following' = following
         /\ \A e \in calls' : Half(e) =>
              \E x \in calls : Half(x) /\ Pair(x) = Pair(e) /\ x.seen = e.seen
         /\ \A x \in calls : Toggling(x) =>
              \E e \in calls' : Toggling(e) /\ Pair(e) = Pair(x) /\ e.pc = x.pc /\ e.sent = x.sent
<1> USE DEF TypeOK
<1>1. ASSUME NEW c \in calls, CallStep(c)
      PROVE  /\ followers' = followers /\ following' = following
             /\ \A e \in calls' : Half(e) => e \in calls
             /\ \A x \in calls : Toggling(x) => x \in calls'
  <2>1. CASE RequestFollowGet(c) \/ StopFollowGet(c) \/ FollowUserGet(c)
    <3>1. /\ c.pc = "get" /\ followers' = followers /\ following' = following
          /\ Finish(c) \/ \E seen \in BOOLEAN : Write(c, "update", seen)
      BY <2>1 DEF RequestFollowGet, StopFollowGet, FollowUserGet, At, docs, InFollowing, Reads
    <3>2. CASE Finish(c)
      BY <3>1, <3>2, FinishCalls DEF Half, At, Toggling
    <3>3. ASSUME NEW seen \in BOOLEAN, Write(c, "update", seen)
          PROVE  /\ \A e \in calls' : Half(e) => e \in calls
                 /\ \A x \in calls : Toggling(x) => x \in calls'
      <4>1. PICK next : calls' = (calls \ {c}) \cup {next} /\ next.pc = "update" /\ ~next.sent
        BY <3>3, WriteCalls DEF Stages
      <4> QED BY <3>1, <4>1 DEF Half, At, Toggling
    <3> QED BY <3>1, <3>2, <3>3
  <2>2. CASE RequestFollowUpdate(c) \/ StopFollowUpdate(c) \/ FollowUserUpdateFollowing(c)
    <3>1. ~Toggling(c) /\ followers' = followers /\ following' = following /\ Finish(c)
      BY <2>2 DEF RequestFollowUpdate, StopFollowUpdate, FollowUserUpdateFollowing, At, docs, Toggling
    <3> QED BY <3>1, FinishCalls DEF Half, At, Toggling
  <2>3. CASE UnfollowReturns(c)
    BY <2>3 DEF UnfollowReturns, docs, Half, At, Toggling
  <2> QED BY <1>1, <2>1, <2>2, <2>3 DEF CallStep
<1>2. ASSUME NEW d \in Devices, DeviceStep(d)
      PROVE  /\ followers' = followers /\ following' = following
             /\ \A e \in calls' : Half(e) =>
                  \E x \in calls : Half(x) /\ Pair(x) = Pair(e) /\ x.seen = e.seen
             /\ \A x \in calls : Toggling(x) =>
                  \E e \in calls' : Toggling(e) /\ Pair(e) = Pair(x) /\ e.pc = x.pc /\ e.sent = x.sent
  <2>1. followers' = followers /\ following' = following
    BY <1>2 DEF DeviceStep, OpenProfile, ProfileLoaded, ProfileFails, CloseProfile, TapUnfollow,
       TapRequestSent, TapFollow, LoadRequests, TapAccept, TapDecline, AnswersLost, KillApp, docs
  <2>2. CASE CloseProfile(d)
    <3>1. faults' = faults
      BY <2>2 DEF CloseProfile, bounds
    <3>2. \A e, x : KeptAll(e, x, d) =>
            /\ Half(e) => Half(x)
            /\ Toggling(x) => Toggling(e)
            /\ Pair(x) = Pair(e) /\ x.seen = e.seen /\ e.pc = x.pc /\ e.sent = x.sent
      BY <3>1 DEF KeptAll, Kept, Half, Toggling, At, Pair
    <3>3. \A x : Toggling(x) => x.pc \in {"update", "update2"}
      BY DEF Toggling, At
    <3>4. \A e \in calls' : \E x \in calls : KeptAll(e, x, d)
      BY <2>2, DeviceCalls
    <3>5. \A x \in calls : x.pc \in {"update", "update2"} => \E e \in calls' : KeptAll(e, x, d)
      BY <2>2, DeviceCalls
    <3> QED BY <2>1, <3>2, <3>3, <3>4, <3>5
  <2>3. CASE calls \subseteq calls' /\ \A e \in calls' : e \in calls \/ e.pc = "get"
    BY <2>1, <2>3 DEF Half, At, Toggling
  <2>4. CASE \/ \E u \in Users : TapAccept(d, u) \/ TapDecline(d, u)
             \/ TapUnfollow(d) \/ TapRequestSent(d) \/ TapFollow(d)
    BY <2>3, <2>4 DEF TapAccept, TapDecline, TapUnfollow, TapRequestSent, TapFollow, NewCall
  <2> QED BY <1>2, <2>2, <2>3, <2>4 DEF DeviceStep, OpenProfile, ProfileLoaded, ProfileFails,
             LoadRequests
<1> QED BY <1>1, <1>2 DEF Next

\* Every step keeps AgreeUnlessTorn and what makes it inductive.
LEMMA NextAgree ==
  TypeOK /\ TogglesAgree /\ AgreeUnlessTorn /\ [HNext]_hvars => (TogglesAgree /\ AgreeUnlessTorn)'
<1> SUFFICES ASSUME TypeOK, TogglesAgree, AgreeUnlessTorn, [HNext]_hvars
             PROVE  TogglesAgree' /\ AgreeUnlessTorn'
  OBVIOUS
<1> USE DEF TypeOK
<1>1. CASE UNCHANGED hvars
  BY <1>1 DEF hvars, vars, docs, TogglesAgree, AgreeUnlessTorn, Pair, Halfway, Toggling, At
<1>2. CASE HNext
  <2> DEFINE Left == \A e \in calls' : Half(e) /\ Pair(e) \notin torn' =>
                       (e.uid \in followers'[e.tgt] <=> ~e.seen)
             Agree(u, v) == \/ v \in following'[u] <=> u \in followers'[v]
                            \/ \E e \in calls' : Mid(e, resent') /\ Pair(e) = <<u, v>>
  <2>0. /\ Next
        /\ torn \subseteq torn' /\ resent \subseteq resent'
        /\ \A e \in calls' : Toggling(e) /\ Pair(e) \notin torn' =>
             /\ e.alive
             /\ \A f \in calls' : Toggling(f) /\ Pair(f) = Pair(e) => f.seen = e.seen
        /\ Interrupted \subseteq torn' /\ Outdated \subseteq torn' /\ Resent \subseteq resent'
    BY <1>2 DEF HNext, Contradicted, Orphaned
  <2>1. SUFFICES ASSUME TRUE
                 PROVE  /\ Left
                        /\ \A u, v \in Users : <<u, v>> \notin torn' => Agree(u, v)
    <3>1. ASSUME Left, \A u, v \in Users : <<u, v>> \notin torn' => Agree(u, v)
          PROVE  TogglesAgree' /\ AgreeUnlessTorn'
      <4>1. TogglesAgree'
        BY <2>0, <3>1 DEF TogglesAgree, Half, At, Toggling, Pair
      <4>2. AgreeUnlessTorn'
        <5> SUFFICES ASSUME NEW u \in Users, NEW v \in Users, <<u, v>> \notin torn'
                     PROVE  \/ v \in following'[u] <=> u \in followers'[v]
                            \/ \E e \in calls' : Mid(e, resent') /\ Pair(e) = <<u, v>>
          BY Zenon DEF AgreeUnlessTorn, Halfway, Mid
        <5> QED BY <3>1
      <4> QED BY <4>1, <4>2
    <3> QED BY <3>1
  <2>2. /\ \A x \in calls : Half(x) /\ Pair(x) \notin torn => (x.uid \in followers[x.tgt] <=> ~x.seen)
        /\ \A x \in calls : Toggling(x) /\ Pair(x) \notin torn => x.alive
        /\ \A u, v \in Users : <<u, v>> \notin torn =>
             \/ v \in following[u] <=> u \in followers[v]
             \/ \E x \in calls : Mid(x, resent) /\ Pair(x) = <<u, v>>
        /\ \A x : Mid(x, resent) => Mid(x, resent')
        /\ \A x : Half(x) => Mid(x, resent')
    <3>1. \A x : Mid(x, resent) <=> Halfway(x)
      BY DEF Mid, Halfway
    <3>2. \A u, v \in Users : <<u, v>> \notin torn =>
             \/ v \in following[u] <=> u \in followers[v]
             \/ \E x \in calls : Mid(x, resent) /\ Pair(x) = <<u, v>>
      BY <3>1 DEF AgreeUnlessTorn
    <3>3. /\ \A x : Mid(x, resent) => Mid(x, resent')
          /\ \A x : Half(x) => Mid(x, resent')
      BY <2>0 DEF Mid, Half, At, Toggling
    <3> QED BY <3>2, <3>3 DEF TogglesAgree, Half, At, Toggling
  <2>3. ASSUME NEW c \in calls, ServerApplies(c)
        PROVE  /\ Left
               /\ \A u, v \in Users : <<u, v>> \notin torn' => Agree(u, v)
    <3>0. c.uid \in Users /\ c.tgt \in Users /\ c.seen \in BOOLEAN /\ ~c.sent
      BY <2>3 DEF ServerApplies, IsNext, CallsOK, Call
    <3>1. PICK next : /\ calls' = (calls \ {c}) \cup {next} /\ next \in Call
                      /\ next.fn = c.fn /\ next.uid = c.uid /\ next.tgt = c.tgt
                      /\ next.pc = c.pc /\ next.seen = c.seen /\ next.sent = TRUE
      BY <2>3, AppliesCalls
    <3>2. Pair(next) = Pair(c)
      BY <3>1 DEF Pair
    <3>3. CASE At(c, "followUser", "update") /\ ToggleFollowers(c)
      <4>0. Toggling(c) /\ Half(next)
        BY <3>1, <3>3 DEF At, Toggling, Half
      <4>1. /\ following' = following
            /\ \A u, v \in Users : <<u, v>> # Pair(c) => (u \in followers'[v] <=> u \in followers[v])
            /\ c.uid \in followers'[c.tgt] <=> ~c.seen
        BY <3>0, <3>3 DEF ToggleFollowers, DocsOK, Toggled, Pair
      <4>2. Left
        <5> SUFFICES ASSUME NEW e \in calls', Half(e), Pair(e) \notin torn'
                     PROVE  e.uid \in followers'[e.tgt] <=> ~e.seen
          OBVIOUS
        <5>1. CASE Pair(e) = Pair(c)
          <6>1. e.seen = next.seen /\ e.uid = c.uid /\ e.tgt = c.tgt
            BY <2>0, <3>1, <3>2, <4>0, <5>1 DEF Half, Pair
          <6> QED BY <3>1, <4>1, <6>1
        <5>2. CASE Pair(e) # Pair(c)
          BY <2>0, <2>2, <3>1, <3>2, <4>1, <5>2 DEF CallsOK, Call, Pair
        <5> QED BY <5>1, <5>2
      <4>3. ASSUME NEW u \in Users, NEW v \in Users, <<u, v>> \notin torn'
            PROVE  Agree(u, v)
        <5>1. CASE <<u, v>> = Pair(c)
          BY <2>2, <3>1, <3>2, <4>0, <5>1
        <5>2. CASE <<u, v>> # Pair(c)
          BY <2>0, <2>2, <3>1, <4>1, <4>3, <5>2
        <5> QED BY <5>1, <5>2
      <4> QED BY <4>2, <4>3
    <3>4. CASE At(c, "followUser", "update2") /\ ToggleFollowing(c)
      <4>0. Half(c) /\ ~Toggling(next)
        BY <3>0, <3>1, <3>4 DEF At, Toggling, Half
      <4>1. /\ followers' = followers
            /\ \A u, v \in Users : <<u, v>> # Pair(c) => (v \in following'[u] <=> v \in following[u])
            /\ c.tgt \in following'[c.uid] <=> ~c.seen
        BY <3>0, <3>4 DEF ToggleFollowing, DocsOK, Toggled, Pair
      <4>2. Left
        BY <2>0, <2>2, <3>1, <4>0, <4>1 DEF Half
      <4>3. ASSUME NEW u \in Users, NEW v \in Users, <<u, v>> \notin torn'
            PROVE  Agree(u, v)
        <5>1. CASE <<u, v>> = Pair(c)
          BY <2>0, <2>2, <3>0, <4>0, <4>1, <4>3, <5>1 DEF Pair
        <5>2. CASE <<u, v>> # Pair(c)
          BY <2>0, <2>2, <3>1, <4>1, <4>3, <5>2
        <5> QED BY <5>1, <5>2
      <4> QED BY <4>2, <4>3
    <3>5. CASE c.fn # "followUser" /\ (AddRequest(c) \/ RemoveRequest(c))
      <4>1. followers' = followers /\ following' = following
        BY <3>5 DEF AddRequest, RemoveRequest
      <4>2. ~Toggling(next) /\ ~Toggling(c)
        BY <3>1, <3>5 DEF Toggling, At
      <4>3. Left
        BY <2>0, <2>2, <3>1, <4>1, <4>2 DEF Half
      <4>4. \A u, v \in Users : <<u, v>> \notin torn' => Agree(u, v)
        BY <2>0, <2>2, <3>1, <4>1, <4>2 DEF Mid
      <4> QED BY <4>3, <4>4
    <3> QED BY <2>3, <3>3, <3>4, <3>5 DEF ServerApplies, At
  <2>4. ASSUME NEW c \in calls, FollowUserUpdateFollowers(c)
        PROVE  /\ Left
               /\ \A u, v \in Users : <<u, v>> \notin torn' => Agree(u, v)
    <3>0. /\ c.seen \in BOOLEAN /\ Half(c) /\ c.fn = "followUser"
          /\ followers' = followers /\ following' = following
      BY <2>4 DEF FollowUserUpdateFollowers, CallsOK, Call, At, Toggling, Half, docs
    <3>2. CASE c.alive
      <4>1. PICK next : /\ calls' = (calls \ {c}) \cup {next}
                        /\ next.pc = "update2" /\ next.seen = c.seen /\ ~next.sent
                        /\ Pair(next) = Pair(c) /\ next.fn = c.fn
        BY <2>4, <3>0, <3>2, WriteCalls DEF FollowUserUpdateFollowers, Stages
      <4>2. Half(next)
        BY <3>0, <4>1 DEF Half, At, Toggling
      <4>3. Left
        BY <2>0, <2>2, <3>0, <4>1 DEF Pair
      <4>4. \A u, v \in Users : <<u, v>> \notin torn' => Agree(u, v)
        BY <2>0, <2>2, <3>0, <4>1, <4>2
      <4> QED BY <4>3, <4>4
    <3>3. CASE ~c.alive
      <4>1. calls' = calls \ {c} /\ Pair(c) \in torn'
        BY <2>0, <2>2, <2>4, <3>0, <3>3 DEF FollowUserUpdateFollowers, Half
      <4>2. Left
        BY <2>0, <2>2, <3>0, <4>1
      <4>3. \A u, v \in Users : <<u, v>> \notin torn' => Agree(u, v)
        BY <2>0, <2>2, <3>0, <4>1
      <4> QED BY <4>2, <4>3
    <3> QED BY <3>2, <3>3
  <2>5. ASSUME NEW c \in calls, CallThrows(c)
        PROVE  /\ Left
               /\ \A u, v \in Users : <<u, v>> \notin torn' => Agree(u, v)
    <3>1. followers' = followers /\ following' = following /\ faults' # faults
      BY <2>5 DEF CallThrows, docs, BoundsOK
    <3>2. /\ calls \ {c} \subseteq calls'
          /\ \A e \in calls' : e \in calls \ {c} \/ (e.pc = "return" /\ e.id = c.id)
      BY <2>5, FinishCalls DEF CallThrows
    <3>3. Mid(c, resent) => Pair(c) \in torn'
      <4>1. \A e \in calls' : e.id = c.id => ~Toggling(e)
        BY <3>2 DEF CallsOK, Toggling, At
      <4> QED BY <2>0, <3>1, <4>1 DEF Interrupted, Mid, Halfway
    <3>4. Left
      BY <2>0, <2>2, <3>1, <3>2 DEF Half, Toggling, At
    <3>5. \A u, v \in Users : <<u, v>> \notin torn' => Agree(u, v)
      BY <2>0, <2>2, <3>1, <3>2, <3>3
    <3> QED BY <3>4, <3>5
  <2>6. ASSUME NEW d \in Devices, AnswersLost(d) \/ KillApp(d)
        PROVE  /\ Left
               /\ \A u, v \in Users : <<u, v>> \notin torn' => Agree(u, v)
    <3>1. followers' = followers /\ following' = following /\ faults' # faults
      <4>1. faults' = faults + 1 /\ followers' = followers /\ following' = following
        BY <2>6 DEF AnswersLost, KillApp, docs
      <4>2. faults \in Nat
        BY BoundsAssumption DEF BoundsOK
      <4> QED BY <4>1, <4>2
    <3>2. \A e \in calls' : \E x \in calls : KeptAll(e, x, d)
      BY <2>6, DeviceCalls
    <3>3. \A x \in calls : x.pc \in {"update", "update2"} => \E e \in calls' : KeptAll(e, x, d)
      BY <2>6, DeviceCalls
    <3>4. \A e, x : KeptAll(e, x, d) =>
            /\ e.id = x.id /\ e.fn = x.fn /\ e.pc = x.pc /\ e.uid = x.uid /\ e.tgt = x.tgt
            /\ Pair(e) = Pair(x) /\ e.seen = x.seen /\ (e.sent => x.sent)
      BY DEF KeptAll, Kept, Pair
    <3>5. Left
      <4> SUFFICES ASSUME NEW e \in calls', Half(e), Pair(e) \notin torn'
                   PROVE  e.uid \in followers'[e.tgt] <=> ~e.seen
        OBVIOUS
      <4>1. PICK x \in calls : KeptAll(e, x, d)
        BY <3>2
      <4>2. CASE Half(x)
        BY <2>0, <2>2, <3>1, <3>4, <4>1, <4>2
      <4>3. CASE ~Half(x)
        <5>1. At(x, "followUser", "update2") /\ x.sent /\ ~e.sent
          BY <3>4, <4>1, <4>3 DEF Half, Toggling, At
        <5>2. Unanswered(x)
          BY <3>1, <3>4, <4>1, <5>1 DEF Unanswered
        <5>3. ~(x.uid \in followers[x.tgt] <=> x.seen)
          BY <2>0, <3>4, <4>1, <5>1, <5>2 DEF Outdated
        <5>4. x.seen \in BOOLEAN
          BY DEF CallsOK, Call
        <5> QED BY <3>1, <3>4, <4>1, <5>3, <5>4
      <4> QED BY <4>2, <4>3
    <3>6. \A x \in calls : Mid(x, resent) => \E e \in calls' : Mid(e, resent') /\ Pair(e) = Pair(x)
      <4> SUFFICES ASSUME NEW x \in calls, Mid(x, resent)
                   PROVE  \E e \in calls' : Mid(e, resent') /\ Pair(e) = Pair(x)
        OBVIOUS
      <4>1. PICK e \in calls' : KeptAll(e, x, d)
        BY <3>3 DEF Mid, Toggling, At
      <4>2. Toggling(e)
        BY <3>4, <4>1 DEF Mid, Toggling, At
      <4>3. e.pc = "update" => e.sent \/ Pair(e) \in resent'
        <5>1. CASE At(x, "followUser", "update") /\ x.sent /\ ~e.sent
          <6>1. Unanswered(x)
            BY <3>1, <3>4, <4>1, <5>1 DEF Unanswered
          <6> QED BY <2>0, <3>4, <4>1, <5>1, <6>1 DEF Resent
        <5>2. CASE ~(At(x, "followUser", "update") /\ x.sent /\ ~e.sent)
          BY <2>0, <3>4, <4>1, <5>2 DEF Mid, Toggling, At
        <5> QED BY <5>1, <5>2
      <4> QED BY <3>4, <4>1, <4>2, <4>3 DEF Mid
    <3>7. \A u, v \in Users : <<u, v>> \notin torn' => Agree(u, v)
      BY <2>0, <2>2, <3>1, <3>6
    <3> QED BY <3>5, <3>7
  <2>7. CASE /\ \A c \in calls : ~(ServerApplies(c) \/ FollowUserUpdateFollowers(c) \/ CallThrows(c))
             /\ \A d \in Devices : ~(AnswersLost(d) \/ KillApp(d))
    <3>1. /\ followers' = followers /\ following' = following
          /\ \A e \in calls' : Half(e) =>
               \E x \in calls : Half(x) /\ Pair(x) = Pair(e) /\ x.seen = e.seen
          /\ \A x \in calls : Toggling(x) =>
               \E e \in calls' : Toggling(e) /\ Pair(e) = Pair(x) /\ e.pc = x.pc /\ e.sent = x.sent
      BY <2>0, <2>7, HalfKept
    <3>2. Left
      BY <2>0, <2>2, <3>1 DEF Pair
    <3>3. \A x \in calls : Mid(x, resent) => \E e \in calls' : Mid(e, resent') /\ Pair(e) = Pair(x)
      BY <2>0, <3>1 DEF Mid
    <3>4. \A u, v \in Users : <<u, v>> \notin torn' => Agree(u, v)
      BY <2>0, <2>2, <3>1, <3>3
    <3> QED BY <3>2, <3>4
  <2> QED BY <2>3, <2>4, <2>5, <2>6, <2>7
<1> QED BY <1>1, <1>2

\* The lists agree at the start.
LEMMA InitAgree == HInit => TogglesAgree /\ AgreeUnlessTorn
BY DEF HInit, Init, TogglesAgree, AgreeUnlessTorn

\* A following list and a follower list disagree about a pair only while a
\* followUser is between its two writes, unless toggles that had read
\* different things overlapped, or one lost its second write or had it applied
\* again too late.
THEOREM ListsAgree == HSpec => []AgreeUnlessTorn
<1> DEFINE Inv == TypeOK /\ TogglesAgree /\ AgreeUnlessTorn
<1>1. HInit => Inv
  BY InitType, InitAgree DEF HInit
<1>2. Inv /\ [HNext]_hvars => Inv'
  BY NextType, NextAgree, HNextNext
<1>3. Inv => AgreeUnlessTorn
  OBVIOUS
<1> HIDE DEF Inv
<1> QED BY <1>1, <1>2, <1>3, PTL DEF HSpec

-----------------------------------------------------------------------------
(***************************************************************************)
(* The two lists agree on one device.                                      *)
(***************************************************************************)

\* e stands for the same queued write as x, applied or not as x is.
SameWrite(e, x) == /\ e.id = x.id /\ e.fn = x.fn /\ e.uid = x.uid /\ e.tgt = x.tgt
                   /\ e.dev = x.dev /\ e.pc = x.pc /\ e.seq = x.seq /\ e.seen = x.seen
                   /\ e.sent = x.sent

IsQueued(c) == c.pc \in {"update", "update2"}

\* A toggle with its first write applied, or a second write.
Applied(c) == c.fn = "followUser" /\ (c.pc = "update2" \/ (c.pc = "update" /\ c.sent))

\* A step of a device queues no write, drops none and kills no call unless it
\* is a fault.
LEMMA DeviceWrites ==
  ASSUME TypeOK, NEW d \in Devices, DeviceStep(d), faults' = faults
  PROVE  /\ followers' = followers /\ following' = following
         /\ \A e \in calls' : IsQueued(e) => \E x \in calls : SameWrite(e, x)
         /\ \A x \in calls : IsQueued(x) => \E e \in calls' : SameWrite(e, x)
         /\ \A e \in calls' : e.alive \/ \E x \in calls : ~x.alive
<1>1. followers' = followers /\ following' = following
  BY DEF DeviceStep, OpenProfile, ProfileLoaded, ProfileFails, CloseProfile, TapUnfollow,
     TapRequestSent, TapFollow, LoadRequests, TapAccept, TapDecline, AnswersLost, KillApp, docs
<1>2. faults \in Nat /\ faults + 1 # faults
  BY BoundsAssumption DEF TypeOK, BoundsOK
<1>3. ~AnswersLost(d) /\ ~KillApp(d)
  BY <1>2 DEF AnswersLost, KillApp
<1>4. CASE CloseProfile(d)
  <2>1. \A e \in calls' : \E x \in calls : KeptAll(e, x, d)
    BY <1>4, DeviceCalls
  <2>2. \A x \in calls : IsQueued(x) => \E e \in calls' : KeptAll(e, x, d)
    BY <1>4, DeviceCalls DEF IsQueued
  <2>3. \A e, x : KeptAll(e, x, d) => SameWrite(e, x) /\ e.alive = x.alive
    BY <1>3 DEF KeptAll, Kept, SameWrite
  <2> QED BY <1>1, <2>1, <2>2, <2>3
<1>5. CASE calls \subseteq calls' /\ \A e \in calls' : e \in calls \/ (e.pc = "get" /\ e.alive)
  BY <1>1, <1>5 DEF SameWrite, IsQueued
<1>6. CASE \/ \E u \in Users : TapAccept(d, u) \/ TapDecline(d, u)
           \/ TapUnfollow(d) \/ TapRequestSent(d) \/ TapFollow(d)
  BY <1>5, <1>6 DEF TapAccept, TapDecline, TapUnfollow, TapRequestSent, TapFollow, NewCall
<1> QED BY <1>3, <1>4, <1>5, <1>6 DEF DeviceStep, OpenProfile, ProfileLoaded, ProfileFails,
           LoadRequests

\* A step that queues nothing and has nothing applied keeps the order.
LEMMA OrderedKept ==
  ASSUME TypeOK, TypeOK', QueuesOrdered,
         \A e \in calls' : IsQueued(e) => \E x \in calls : SameWrite(e, x)
  PROVE  QueuesOrdered'
<1> SUFFICES ASSUME NEW c \in calls', NEW e \in calls', c.dev = e.dev, IsQueued(c), IsQueued(e)
             PROVE  /\ c.seq = e.seq => c = e
                    /\ c.seq < e.seq /\ e.sent => c.sent
  BY DEF QueuesOrdered, Queue, IsQueued
<1>1. PICK x \in calls : SameWrite(c, x)
  OBVIOUS
<1>2. PICK y \in calls : SameWrite(e, y)
  OBVIOUS
<1>3. x \in Queue(x.dev) /\ y \in Queue(x.dev)
  BY <1>1, <1>2 DEF Queue, IsQueued, SameWrite
<1>4. (x.seq = y.seq => x = y) /\ (x.seq < y.seq /\ y.sent => x.sent)
  BY <1>3 DEF QueuesOrdered
<1>5. c.seq = e.seq => c = e
  BY <1>1, <1>2, <1>4 DEF TypeOK, CallsOK, SameWrite
<1>6. c.seq < e.seq /\ e.sent => c.sent
  BY <1>1, <1>2, <1>4 DEF SameWrite
<1> QED BY <1>5, <1>6

\* ... and, if it drops no toggle that has a write applied and leaves the lists
\* alone, the whole invariant.
LEMMA InStepKept ==
  ASSUME TypeOK, TypeOK', SecondsAgree,
         faults' = 0 => /\ faults = 0 /\ followers' = followers /\ following' = following
                        /\ \A e \in calls' : IsQueued(e) => \E x \in calls : SameWrite(e, x)
                        /\ \A x \in calls : Applied(x) => \E e \in calls' : SameWrite(e, x)
                        /\ \A e \in calls' : e.alive
  PROVE  SecondsAgree'
<1> SUFFICES ASSUME faults' = 0 PROVE QueuesOrdered' /\ \A u, v \in Users : TogglesInStep(u, v)'
  BY DEF SecondsAgree
<1>1. QueuesOrdered /\ \A u, v \in Users : TogglesInStep(u, v)
  BY DEF SecondsAgree
<1>2. QueuesOrdered'
  BY <1>1, OrderedKept
<1> SUFFICES ASSUME NEW u \in Users, NEW v \in Users PROVE TogglesInStep(u, v)'
  BY <1>2
<1>3. /\ \A e \in FirstsApplied(u, v)' : \E x \in FirstsApplied(u, v) : SameWrite(e, x)
      /\ \A x \in FirstsApplied(u, v) : \E e \in FirstsApplied(u, v)' : SameWrite(e, x)
  BY DEF FirstsApplied, SameWrite, IsQueued, At, Applied
<1>4. /\ \A e \in SecondWrites(u, v)' : \E x \in SecondWrites(u, v) : SameWrite(e, x)
      /\ \A x \in SecondWrites(u, v) : \E e \in SecondWrites(u, v)' : SameWrite(e, x)
  BY DEF SecondWrites, SameWrite, IsQueued, At, Applied
<1>5. /\ \A e \in Latest(u, v)' : \E x \in Latest(u, v) : SameWrite(e, x)
      /\ \A x \in Latest(u, v) : \E e \in Latest(u, v)' : SameWrite(e, x)
  BY <1>3, <1>4 DEF Latest
<1>6. Latest(u, v) \subseteq calls /\ SecondWrites(u, v) \subseteq calls
  BY DEF Latest, FirstsApplied, SecondWrites
<1>7. /\ Latest(u, v) = {} => (v \in following[u] <=> u \in followers[v])
      /\ \A c \in calls : IsLast(c, Latest(u, v)) => (u \in followers[v] <=> ~c.seen)
      /\ \A c \in calls : IsLast(c, SecondWrites(u, v)) /\ c.sent =>
           (v \in following[u] <=> ~c.seen)
  BY <1>1 DEF TogglesInStep
<1>8. Latest(u, v)' = {} => (v \in following'[u] <=> u \in followers'[v])
  BY <1>5, <1>7
<1>9. ASSUME NEW c \in calls', IsLast(c, Latest(u, v)')
      PROVE  u \in followers'[v] <=> ~c.seen
  <2>1. PICK x \in Latest(u, v) : SameWrite(c, x)
    BY <1>5, <1>9 DEF IsLast
  <2>2. IsLast(x, Latest(u, v))
    BY <1>5, <1>9, <2>1 DEF IsLast, SameWrite
  <2> QED BY <1>6, <1>7, <2>1, <2>2 DEF SameWrite
<1>10. ASSUME NEW c \in calls', IsLast(c, SecondWrites(u, v)'), c.sent
       PROVE  v \in following'[u] <=> ~c.seen
  <2>1. PICK x \in SecondWrites(u, v) : SameWrite(c, x)
    BY <1>4, <1>10 DEF IsLast
  <2>2. IsLast(x, SecondWrites(u, v)) /\ x.sent
    BY <1>4, <1>10, <2>1 DEF IsLast, SameWrite
  <2> QED BY <1>6, <1>7, <2>1, <2>2 DEF SameWrite
<1> QED BY <1>8, <1>9, <1>10 DEF TogglesInStep, IsLast

\* What Write leaves: the write has the last place of its queue.
LEMMA WritePlace ==
  ASSUME CallsOK, NEW c \in calls, NEW pc \in Stages, NEW seen \in BOOLEAN, Write(c, pc, seen)
  PROVE  \E next : /\ calls' = (calls \ {c}) \cup {next}
                   /\ next.id = c.id /\ next.fn = c.fn /\ next.uid = c.uid /\ next.tgt = c.tgt
                   /\ next.dev = c.dev /\ next.pc = pc /\ next.seen = seen /\ next.alive = c.alive
                   /\ ~next.sent /\ next.seq \in Nat
                   /\ \A e \in calls : IsQueued(e) /\ e.dev = c.dev => e.seq < next.seq
<1>1. PICK n \in Places :
        /\ \A e \in Queue(c.dev) : e.seq < n
        /\ calls' = (calls \ {c}) \cup
                      {[c EXCEPT !.pc = pc, !.seq = n, !.sent = FALSE, !.seen = seen]}
  BY DEF Write, Continue
<1>2. c \in Call
  BY DEF CallsOK
<1> DEFINE next == [c EXCEPT !.pc = pc, !.seq = n, !.sent = FALSE, !.seen = seen]
<1>3. /\ next.id = c.id /\ next.fn = c.fn /\ next.uid = c.uid /\ next.tgt = c.tgt
      /\ next.dev = c.dev /\ next.pc = pc /\ next.seen = seen /\ next.alive = c.alive
      /\ next.seq = n /\ ~next.sent
  BY <1>2 DEF Call
<1>4. n \in Nat
  BY BoundsAssumption DEF Places
<1>5. \A e \in calls : IsQueued(e) /\ e.dev = c.dev => e.seq < n
  BY <1>1 DEF Queue, IsQueued
<1>6. calls' = (calls \ {c}) \cup {next}
  BY <1>1
<1> HIDE DEF next
<1> QED BY <1>3, <1>4, <1>5, <1>6

\* A queued write keeps the order of the queues.
LEMMA WriteOrdered ==
  ASSUME TypeOK, QueuesOrdered, NEW c \in calls, NEW pc \in Stages, NEW seen \in BOOLEAN,
         Write(c, pc, seen)
  PROVE  QueuesOrdered'
<1>1. PICK next : /\ calls' = (calls \ {c}) \cup {next} /\ next.dev = c.dev /\ next.seq \in Nat
                  /\ ~next.sent
                  /\ \A e \in calls : IsQueued(e) /\ e.dev = c.dev => e.seq < next.seq
  BY WritePlace DEF TypeOK
<1>2. \A e \in calls : IsQueued(e) /\ e.dev = next.dev =>
        e.seq # next.seq /\ ~(next.seq < e.seq)
  <2>1. \A e \in calls : e.seq \in Nat
    BY BoundsAssumption DEF TypeOK, CallsOK, Call, Places
  <2> QED BY <1>1, <2>1
<1>3. \A x, y \in calls : IsQueued(x) /\ IsQueued(y) /\ x.dev = y.dev =>
        (x.seq = y.seq => x = y) /\ (x.seq < y.seq /\ y.sent => x.sent)
  BY DEF QueuesOrdered, Queue, IsQueued
<1> SUFFICES ASSUME NEW x \in calls', NEW y \in calls', IsQueued(x), IsQueued(y), x.dev = y.dev
             PROVE  (x.seq = y.seq => x = y) /\ (x.seq < y.seq /\ y.sent => x.sent)
  BY DEF QueuesOrdered, Queue, IsQueued
<1>4. CASE x = next /\ y = next
  BY <1>1, <1>4
<1>5. CASE x \in calls /\ y = next
  BY <1>1, <1>2, <1>5
<1>6. CASE x = next /\ y \in calls
  BY <1>1, <1>2, <1>6
<1>7. CASE x \in calls /\ y \in calls
  BY <1>3, <1>7
<1> QED BY <1>1, <1>4, <1>5, <1>6, <1>7

\* A call that ends is as alive as it was.
LEMMA FinishAlive ==
  ASSUME CallsOK, NEW c \in calls, Finish(c)
  PROVE  \A e \in calls' : e \in calls \/ e.alive = c.alive
<1>1. c \in Call
  BY DEF CallsOK
<1>2. PICK next : next = [c EXCEPT !.pc = "return", !.seq = 0, !.sent = FALSE]
  OBVIOUS
<1>3. next.alive = c.alive
  BY <1>1, <1>2 DEF Call
<1>4. calls' = (calls \ {c}) \cup {next} \/ calls' = calls \ {c}
  BY <1>2 DEF Finish, Continue
<1> QED BY <1>3, <1>4

\* The invariant for two sets of calls that the latest toggles are among.
LEMMA InStepFrom ==
  ASSUME NEW u, NEW v, NEW F, NEW S,
         F = FirstsApplied(u, v)', S = SecondWrites(u, v)',
         F = {} /\ S = {} => (v \in following'[u] <=> u \in followers'[v]),
         F # {} => \A c \in F : IsLast(c, F) => (u \in followers'[v] <=> ~c.seen),
         F = {} => \A c \in S : IsLast(c, S) => (u \in followers'[v] <=> ~c.seen),
         \A c \in S : IsLast(c, S) /\ c.sent => (v \in following'[u] <=> ~c.seen)
  PROVE  TogglesInStep(u, v)'
BY DEF TogglesInStep, Latest, IsLast

\* On one device every step keeps the invariant.
LEMMA NextSymmetric ==
  ASSUME \A d, e \in Devices : d = e
  PROVE  TypeOK /\ SecondsAgree /\ [Next]_vars => SecondsAgree'
<1> SUFFICES ASSUME TypeOK, SecondsAgree, [Next]_vars, faults' = 0
             PROVE  SecondsAgree'
  BY DEF SecondsAgree
<1>0. /\ CallsOK /\ TypeOK'
      /\ \A c \in calls : c.seen \in BOOLEAN /\ c.sent \in BOOLEAN /\ c.seq \in Nat
  <2>1. TypeOK'
    BY NextType
  <2> QED BY <2>1, BoundsAssumption DEF TypeOK, CallsOK, Call, Places
<1>1. \A x : SameWrite(x, x)
  BY DEF SameWrite
<1>2. /\ faults = 0 /\ faults' = faults
      /\ \A c \in calls : ~CallThrows(c)
      /\ \A d \in Devices : ~AnswersLost(d) /\ ~KillApp(d)
  <2>1. faults \in Nat /\ faults' \in Nat
    BY <1>0, BoundsAssumption DEF TypeOK, BoundsOK
  <2>2. faults' = faults \/ faults' = faults + 1
    BY DEF Next, CallStep, CallThrows, ServerApplies, RequestFollowGet, RequestFollowUpdate,
       StopFollowGet, StopFollowUpdate, FollowUserGet, FollowUserUpdateFollowers,
       FollowUserUpdateFollowing, UnfollowReturns, DeviceStep, OpenProfile, ProfileLoaded,
       ProfileFails, CloseProfile, TapUnfollow, TapRequestSent, TapFollow, LoadRequests, TapAccept,
       TapDecline, AnswersLost, KillApp, vars, bounds
  <2>3. faults = 0 /\ faults' # faults + 1
    BY <2>1, <2>2
  <2> QED BY <2>2, <2>3 DEF CallThrows, AnswersLost, KillApp
<1>3. /\ QueuesOrdered /\ \A c \in calls : c.alive
      /\ \A u, v \in Users : TogglesInStep(u, v)
  BY <1>2 DEF SecondsAgree
<1>4. \A u, v \in Users :
        /\ FirstsApplied(u, v) = {} /\ SecondWrites(u, v) = {} =>
             (v \in following[u] <=> u \in followers[v])
        /\ \A c \in FirstsApplied(u, v) : IsLast(c, FirstsApplied(u, v)) =>
             (u \in followers[v] <=> ~c.seen)
        /\ FirstsApplied(u, v) = {} =>
             \A c \in SecondWrites(u, v) : IsLast(c, SecondWrites(u, v)) =>
               (u \in followers[v] <=> ~c.seen)
        /\ \A c \in SecondWrites(u, v) : IsLast(c, SecondWrites(u, v)) /\ c.sent =>
             (v \in following[u] <=> ~c.seen)
  <2>1. \A u, v \in Users : FirstsApplied(u, v) \subseteq calls /\ SecondWrites(u, v) \subseteq calls
    BY DEF FirstsApplied, SecondWrites
  <2> QED BY <1>3, <2>1 DEF TogglesInStep, Latest
<1>5. \A c, e \in calls : c.dev = e.dev
  BY DEF TypeOK, CallsOK, Call
<1>6. \A x, y \in calls : IsQueued(x) /\ IsQueued(y) =>
        (x.seq = y.seq => x = y) /\ (x.seq < y.seq /\ y.sent => x.sent)
  BY <1>3, <1>5 DEF QueuesOrdered, Queue, IsQueued
<1>7. ASSUME NEW c \in calls, Finish(c), ~Applied(c), UNCHANGED <<followers, following>>
      PROVE  SecondsAgree'
  <2>1. /\ calls \ {c} \subseteq calls'
        /\ \A e \in calls' : e \in calls \ {c} \/ e.pc = "return"
    BY <1>0, <1>7, FinishCalls
  <2>2. \A e \in calls' : e.alive
    BY <1>0, <1>3, <1>7, FinishAlive
  <2>3. \A e \in calls' : IsQueued(e) => \E x \in calls : SameWrite(e, x)
    BY <1>1, <2>1 DEF IsQueued
  <2>4. \A x \in calls : Applied(x) => \E e \in calls' : SameWrite(e, x)
    BY <1>1, <1>7, <2>1
  <2> QED BY <1>0, <1>2, <1>7, <2>2, <2>3, <2>4, InStepKept
<1>8. ASSUME NEW c \in calls, NEW seen \in BOOLEAN, Write(c, "update", seen), c.pc = "get",
             UNCHANGED <<followers, following>>
      PROVE  SecondsAgree'
  <2>1. QueuesOrdered'
    BY <1>3, <1>8, WriteOrdered DEF Stages
  <2>2. PICK next : /\ calls' = (calls \ {c}) \cup {next} /\ next.pc = "update" /\ ~next.sent
                    /\ next.alive = c.alive
    BY <1>0, <1>8, WritePlace DEF Stages
  <2>3. \A u, v \in Users : /\ SecondWrites(u, v)' = SecondWrites(u, v)
                            /\ FirstsApplied(u, v)' = FirstsApplied(u, v)
    BY <1>8, <2>2 DEF SecondWrites, FirstsApplied, At
  <2>4. ASSUME NEW u \in Users, NEW v \in Users
        PROVE  TogglesInStep(u, v)'
    BY <1>4, <1>8, <2>3, InStepFrom
  <2>5. \A e \in calls' : e.alive
    BY <1>3, <2>2
  <2> QED BY <2>1, <2>4, <2>5 DEF SecondsAgree
<1>9. ASSUME NEW c \in calls, FollowUserUpdateFollowers(c)
      PROVE  SecondsAgree'
  <2>1. /\ c.fn = "followUser" /\ c.pc = "update" /\ c.sent /\ IsFirst(c)
        /\ followers' = followers /\ following' = following
        /\ Write(c, "update2", c.seen)
    BY <1>3, <1>9 DEF FollowUserUpdateFollowers, At, docs
  <2>2. QueuesOrdered'
    BY <1>0, <1>3, <2>1, WriteOrdered DEF Stages
  <2>3. PICK next : /\ calls' = (calls \ {c}) \cup {next}
                    /\ next.fn = c.fn /\ next.uid = c.uid /\ next.tgt = c.tgt
                    /\ next.pc = "update2" /\ next.seen = c.seen /\ next.alive = c.alive
                    /\ ~next.sent /\ next.seq \in Nat
                    /\ \A e \in calls : IsQueued(e) /\ e.dev = c.dev => e.seq < next.seq
    <3>1. "update2" \in Stages /\ c.seen \in BOOLEAN /\ Write(c, "update2", c.seen)
      BY <1>0, <2>1 DEF Stages
    <3> QED BY <1>0, <3>1, WritePlace
  <2>4. \A e \in calls : IsQueued(e) => c.seq <= e.seq
    BY <1>5, <2>1 DEF IsFirst, Queue, IsQueued
  <2>5. ASSUME NEW u \in Users, NEW v \in Users
        PROVE  TogglesInStep(u, v)'
    <3>1. CASE u = c.uid /\ v = c.tgt
      <4>1. /\ FirstsApplied(u, v)' = FirstsApplied(u, v) \ {c} /\ c \in FirstsApplied(u, v)
            /\ SecondWrites(u, v)' = SecondWrites(u, v) \cup {next}
        BY <2>1, <2>3, <3>1 DEF FirstsApplied, SecondWrites, At
      <4>2. /\ \A e \in FirstsApplied(u, v) : c.seq <= e.seq
            /\ \A e \in SecondWrites(u, v) : e.seq < next.seq /\ e.seq \in Nat
        BY <1>0, <1>5, <2>3, <2>4 DEF FirstsApplied, SecondWrites, At, IsQueued
      <4>3. \A x \in FirstsApplied(u, v) \ {c} :
              IsLast(x, FirstsApplied(u, v) \ {c}) => IsLast(x, FirstsApplied(u, v))
        BY <4>2 DEF IsLast
      <4>4. FirstsApplied(u, v) \ {c} = {} => IsLast(c, FirstsApplied(u, v))
        <5>1. c.seq <= c.seq
          BY <1>0
        <5> QED BY <4>1, <5>1 DEF IsLast
      <4>5. \A x \in SecondWrites(u, v) \cup {next} :
              IsLast(x, SecondWrites(u, v) \cup {next}) => x = next
        <5>1. \A x \in SecondWrites(u, v) : ~(next.seq <= x.seq)
          BY <2>3, <4>2
        <5> QED BY <5>1 DEF IsLast
      <4>6. FirstsApplied(u, v) \ {c} = {} => (u \in followers[v] <=> ~c.seen)
        BY <1>4, <4>1, <4>4
      <4>7. \A x \in FirstsApplied(u, v) \ {c} :
              IsLast(x, FirstsApplied(u, v) \ {c}) => (u \in followers[v] <=> ~x.seen)
        BY <1>4, <4>3
      <4>8. PICK F : F = FirstsApplied(u, v)'
        OBVIOUS
      <4>9. PICK S : S = SecondWrites(u, v)'
        OBVIOUS
      <4>10. S # {}
        BY <4>1, <4>9
      <4>11. \A x \in F : IsLast(x, F) => (u \in followers'[v] <=> ~x.seen)
        BY <2>1, <4>1, <4>7, <4>8
      <4>12. F = {} => \A x \in S : IsLast(x, S) => (u \in followers'[v] <=> ~x.seen)
        BY <2>1, <2>3, <4>1, <4>5, <4>6, <4>8, <4>9
      <4>13. \A x \in S : IsLast(x, S) /\ x.sent => (v \in following'[u] <=> ~x.seen)
        BY <2>3, <4>1, <4>5, <4>9
      <4> QED BY <4>8, <4>9, <4>10, <4>11, <4>12, <4>13, InStepFrom
    <3>2. CASE ~(u = c.uid /\ v = c.tgt)
      <4>1. /\ SecondWrites(u, v)' = SecondWrites(u, v)
            /\ FirstsApplied(u, v)' = FirstsApplied(u, v)
        BY <2>1, <2>3, <3>2 DEF FirstsApplied, SecondWrites, At
      <4> QED BY <1>4, <2>1, <4>1, InStepFrom
    <3> QED BY <3>1, <3>2
  <2>6. \A e \in calls' : e.alive
    BY <1>3, <2>3
  <2> QED BY <2>2, <2>5, <2>6 DEF SecondsAgree
<1>10. ASSUME NEW c \in calls, FollowUserUpdateFollowing(c)
      PROVE  SecondsAgree'
  <2>1. /\ c.fn = "followUser" /\ c.pc = "update2" /\ c.sent
        /\ followers' = followers /\ following' = following
        /\ IsFirst(c) /\ Finish(c)
    BY <1>10 DEF FollowUserUpdateFollowing, At, docs
  <2>2. /\ calls \ {c} \subseteq calls'
        /\ \A e \in calls' : e \in calls \ {c} \/ e.pc = "return"
    BY <1>0, <2>1, FinishCalls
  <2>3. \A e \in calls' : e.alive
    BY <1>0, <1>3, <2>1, FinishAlive
  <2>4. QueuesOrdered'
    BY <1>3, <2>2 DEF QueuesOrdered, Queue
  <2>5. \A e \in calls : IsQueued(e) => c.seq <= e.seq
    BY <1>5, <2>1 DEF IsFirst, Queue, IsQueued
  <2>6. \A u, v \in Users : /\ SecondWrites(u, v)' = SecondWrites(u, v) \ {c}
                            /\ FirstsApplied(u, v)' = FirstsApplied(u, v)
    BY <2>1, <2>2 DEF SecondWrites, FirstsApplied, At
  <2>7. ASSUME NEW u \in Users, NEW v \in Users
        PROVE  TogglesInStep(u, v)'
    <3>1. \A x \in SecondWrites(u, v) \ {c} :
            IsLast(x, SecondWrites(u, v) \ {c}) => IsLast(x, SecondWrites(u, v))
      <4>1. \A e \in SecondWrites(u, v) : c.seq <= e.seq
        BY <2>5 DEF SecondWrites, At, IsQueued
      <4> QED BY <4>1 DEF IsLast
    <3>2. FirstsApplied(u, v) = {} /\ SecondWrites(u, v) \ {c} = {} =>
            (v \in following[u] <=> u \in followers[v])
      <4>1. CASE c \in SecondWrites(u, v)
        <5>1. SecondWrites(u, v) \ {c} = {} => IsLast(c, SecondWrites(u, v))
          <6>1. c.seq <= c.seq
            BY <1>0
          <6> QED BY <4>1, <6>1 DEF IsLast
        <5> QED BY <1>4, <2>1, <4>1, <5>1
      <4>2. CASE c \notin SecondWrites(u, v)
        BY <1>4, <4>2
      <4> QED BY <4>1, <4>2
    <3>3. /\ \A x \in FirstsApplied(u, v) : IsLast(x, FirstsApplied(u, v)) =>
               (u \in followers[v] <=> ~x.seen)
          /\ FirstsApplied(u, v) = {} =>
               \A x \in SecondWrites(u, v) \ {c} : IsLast(x, SecondWrites(u, v) \ {c}) =>
                 (u \in followers[v] <=> ~x.seen)
          /\ \A x \in SecondWrites(u, v) \ {c} : IsLast(x, SecondWrites(u, v) \ {c}) /\ x.sent =>
               (v \in following[u] <=> ~x.seen)
      BY <1>4, <3>1
    <3>4. PICK F : F = FirstsApplied(u, v)
      OBVIOUS
    <3>5. PICK S : S = SecondWrites(u, v) \ {c}
      OBVIOUS
    <3>6. /\ F = {} /\ S = {} => (v \in following'[u] <=> u \in followers'[v])
          /\ \A x \in F : IsLast(x, F) => (u \in followers'[v] <=> ~x.seen)
          /\ F = {} => \A x \in S : IsLast(x, S) => (u \in followers'[v] <=> ~x.seen)
          /\ \A x \in S : IsLast(x, S) /\ x.sent => (v \in following'[u] <=> ~x.seen)
      BY <2>1, <3>2, <3>3, <3>4, <3>5
    <3>7. F = FirstsApplied(u, v)' /\ S = SecondWrites(u, v)'
      BY <2>6, <3>4, <3>5
    <3> QED BY <3>6, <3>7, InStepFrom
  <2> QED BY <2>3, <2>4, <2>7 DEF SecondsAgree
<1>11. ASSUME NEW c \in calls, ServerApplies(c)
       PROVE  SecondsAgree'
  <2>1. PICK next \in Call :
          /\ calls' = (calls \ {c}) \cup {next}
          /\ next.fn = c.fn /\ next.uid = c.uid /\ next.tgt = c.tgt
          /\ next.dev = c.dev /\ next.pc = c.pc /\ next.seq = c.seq /\ next.seen = c.seen
          /\ next.alive = c.alive /\ next.sent = TRUE
    BY <1>0, <1>11, AppliesCalls
  <2>2. /\ IsQueued(c) /\ ~c.sent
        /\ \A e \in calls : IsQueued(e) /\ e.seq < c.seq => e.sent
    BY <1>5, <1>11 DEF ServerApplies, IsNext, Queue, IsQueued
  <2>3. \A e \in calls : IsQueued(e) /\ e.sent => e.seq < c.seq
    <3> SUFFICES ASSUME NEW e \in calls, IsQueued(e), e.sent PROVE e.seq < c.seq
      OBVIOUS
    <3>1. e.seq # c.seq /\ ~(c.seq < e.seq)
      BY <1>6, <2>2
    <3> QED BY <1>0, <3>1
  <2>4. QueuesOrdered'
    <3> SUFFICES ASSUME NEW x \in calls', NEW y \in calls', IsQueued(x), IsQueued(y)
                 PROVE  (x.seq = y.seq => x = y) /\ (x.seq < y.seq /\ y.sent => x.sent)
      BY DEF QueuesOrdered, Queue, IsQueued
    <3>1. CASE x = next /\ y = next
      BY <2>1, <3>1
    <3>2. CASE x = next /\ y \in calls \ {c}
      BY <1>6, <2>1, <2>2, <3>2
    <3>3. CASE x \in calls \ {c} /\ y = next
      BY <1>6, <2>1, <2>2, <3>3
    <3>4. CASE x \in calls \ {c} /\ y \in calls \ {c}
      BY <1>6, <3>4
    <3> QED BY <2>1, <3>1, <3>2, <3>3, <3>4
  <2>5. \A e \in calls' : e.alive
    BY <1>3, <2>1
  <2>6. ASSUME NEW u \in Users, NEW v \in Users
        PROVE  TogglesInStep(u, v)'
    <3>1. PICK F : F = FirstsApplied(u, v)'
      OBVIOUS
    <3>2. PICK S : S = SecondWrites(u, v)'
      OBVIOUS
    <3>3. CASE At(c, "followUser", "update") /\ u = c.uid /\ v = c.tgt
      <4>1. F = FirstsApplied(u, v) \cup {next} /\ S = SecondWrites(u, v)
        BY <2>1, <2>2, <3>1, <3>2, <3>3 DEF FirstsApplied, SecondWrites, At
      <4>2. (u \in followers'[v] <=> ~c.seen) /\ following' = following
        BY <1>11, <3>3 DEF ServerApplies, At, ToggleFollowers, Toggled, TypeOK, DocsOK
      <4>3. \A x \in FirstsApplied(u, v) : x.seq < c.seq /\ x.seq \in Nat
        BY <1>0, <2>3 DEF FirstsApplied, At, IsQueued
      <4>4. \A x \in FirstsApplied(u, v) : ~(next.seq <= x.seq)
        BY <1>0, <2>1, <4>3
      <4>5. \A x \in F : IsLast(x, F) => x = next
        BY <4>1, <4>4 DEF IsLast
      <4>6. \A x \in F : IsLast(x, F) => (u \in followers'[v] <=> ~x.seen)
        BY <2>1, <4>2, <4>5
      <4>7. \A x \in S : IsLast(x, S) /\ x.sent => (v \in following'[u] <=> ~x.seen)
        BY <1>4, <4>1, <4>2
      <4>8. F # {}
        BY <4>1
      <4> QED BY <3>1, <3>2, <4>6, <4>7, <4>8, InStepFrom
    <3>4. CASE At(c, "followUser", "update2") /\ u = c.uid /\ v = c.tgt
      <4>1. /\ F = FirstsApplied(u, v) /\ S = (SecondWrites(u, v) \ {c}) \cup {next}
            /\ c \in SecondWrites(u, v)
        BY <2>1, <3>1, <3>2, <3>4 DEF FirstsApplied, SecondWrites, At
      <4>2. (v \in following'[u] <=> ~c.seen) /\ followers' = followers
        BY <1>11, <3>4 DEF ServerApplies, At, ToggleFollowing, Toggled, TypeOK, DocsOK
      <4>3. IsLast(next, S) => IsLast(c, SecondWrites(u, v))
        <5>1. c.seq <= c.seq
          BY <1>0
        <5> QED BY <2>1, <4>1, <5>1 DEF IsLast
      <4>4. \A x \in S : x # next /\ IsLast(x, S) => /\ x \in SecondWrites(u, v) /\ ~x.sent
                                                    /\ IsLast(x, SecondWrites(u, v))
        <5> SUFFICES ASSUME NEW x \in S, x # next, IsLast(x, S)
                     PROVE  /\ x \in SecondWrites(u, v) /\ ~x.sent
                            /\ IsLast(x, SecondWrites(u, v))
          OBVIOUS
        <5>1. x \in SecondWrites(u, v) /\ c.seq <= x.seq
          BY <2>1, <4>1 DEF IsLast
        <5>2. x \in calls /\ IsQueued(x)
          BY <5>1 DEF SecondWrites, At, IsQueued
        <5>3. ~x.sent
          <6>1. x.sent => x.seq < c.seq
            BY <2>3, <5>2
          <6>2. x.seq \in Nat /\ c.seq \in Nat
            BY <1>0, <5>2
          <6> QED BY <5>1, <6>1, <6>2
        <5>4. IsLast(x, SecondWrites(u, v))
          BY <4>1, <5>1 DEF IsLast
        <5> QED BY <5>1, <5>3, <5>4
      <4>5. F = {} => \A x \in S : IsLast(x, S) => (u \in followers'[v] <=> ~x.seen)
        BY <1>4, <2>1, <4>1, <4>2, <4>3, <4>4
      <4>6. \A x \in S : IsLast(x, S) /\ x.sent => (v \in following'[u] <=> ~x.seen)
        BY <2>1, <4>2, <4>4
      <4>7. \A x \in F : IsLast(x, F) => (u \in followers'[v] <=> ~x.seen)
        BY <1>4, <4>1, <4>2
      <4>8. S # {}
        BY <4>1
      <4> QED BY <3>1, <3>2, <4>5, <4>6, <4>7, <4>8, InStepFrom
    <3>5. CASE c.fn # "followUser" \/ u # c.uid \/ v # c.tgt
      <4>1. F = FirstsApplied(u, v) /\ S = SecondWrites(u, v)
        BY <2>1, <3>1, <3>2, <3>5 DEF FirstsApplied, SecondWrites, At
      <4>2. (u \in followers'[v] <=> u \in followers[v]) /\ (v \in following'[u] <=> v \in following[u])
        BY <1>11, <3>5 DEF ServerApplies, At, AddRequest, RemoveRequest, ToggleFollowers,
           ToggleFollowing, Toggled, TypeOK, DocsOK
      <4>3. /\ F = {} /\ S = {} => (v \in following'[u] <=> u \in followers'[v])
            /\ \A x \in F : IsLast(x, F) => (u \in followers'[v] <=> ~x.seen)
            /\ F = {} => \A x \in S : IsLast(x, S) => (u \in followers'[v] <=> ~x.seen)
            /\ \A x \in S : IsLast(x, S) /\ x.sent => (v \in following'[u] <=> ~x.seen)
        BY <1>4, <4>1, <4>2
      <4> QED BY <3>1, <3>2, <4>3, InStepFrom
    <3>6. At(c, "followUser", "update") \/ At(c, "followUser", "update2") \/ c.fn # "followUser"
      BY <1>11 DEF ServerApplies, At
    <3> QED BY <3>3, <3>4, <3>5, <3>6
  <2> QED BY <2>4, <2>5, <2>6 DEF SecondsAgree
<1>12. ASSUME NEW c \in calls, UnfollowReturns(c)
       PROVE  SecondsAgree'
  <2>1. calls' = calls \ {c} /\ c.pc = "return" /\ followers' = followers /\ following' = following
    BY <1>12 DEF UnfollowReturns, docs
  <2>2. \A e \in calls' : IsQueued(e) => \E x \in calls : SameWrite(e, x)
    BY <1>1, <2>1
  <2>3. \A x \in calls : Applied(x) => \E e \in calls' : SameWrite(e, x)
    BY <1>1, <2>1 DEF Applied
  <2>4. \A e \in calls' : e.alive
    BY <1>3, <2>1
  <2> QED BY <1>0, <1>2, <2>1, <2>2, <2>3, <2>4, InStepKept
<1>13. ASSUME NEW c \in calls, \/ RequestFollowGet(c) \/ StopFollowGet(c) \/ FollowUserGet(c)
                               \/ RequestFollowUpdate(c) \/ StopFollowUpdate(c)
       PROVE  SecondsAgree'
  <2>1. UNCHANGED <<followers, following>>
    BY <1>13 DEF RequestFollowGet, StopFollowGet, FollowUserGet, RequestFollowUpdate,
       StopFollowUpdate, docs
  <2>2. InFollowing(c.dev, c.uid, c.tgt) \in BOOLEAN
    BY DEF InFollowing, Reads
  <2>3. \/ Finish(c) /\ ~Applied(c)
        \/ c.pc = "get" /\ \E seen \in BOOLEAN : Write(c, "update", seen)
    BY <1>13, <2>2 DEF RequestFollowGet, StopFollowGet, FollowUserGet, RequestFollowUpdate,
       StopFollowUpdate, At, Applied
  <2> QED BY <1>7, <1>8, <2>1, <2>3
<1>14. ASSUME NEW d \in Devices, DeviceStep(d)
       PROVE  SecondsAgree'
  <2>1. /\ followers' = followers /\ following' = following
        /\ \A e \in calls' : IsQueued(e) => \E x \in calls : SameWrite(e, x)
        /\ \A x \in calls : IsQueued(x) => \E e \in calls' : SameWrite(e, x)
        /\ \A e \in calls' : e.alive \/ \E x \in calls : ~x.alive
    BY <1>2, <1>14, DeviceWrites
  <2>2. \A x \in calls : Applied(x) => \E e \in calls' : SameWrite(e, x)
    BY <2>1 DEF Applied, IsQueued
  <2> QED BY <1>0, <1>2, <1>3, <2>1, <2>2, InStepKept
<1>15. CASE UNCHANGED vars
  <2>1. calls' = calls /\ followers' = followers /\ following' = following
    BY <1>15 DEF vars, docs
  <2> QED BY <1>0, <1>1, <1>2, <1>3, <2>1, InStepKept
<1> QED BY <1>2, <1>9, <1>10, <1>11, <1>12, <1>13, <1>14, <1>15 DEF Next, CallStep

(***************************************************************************)
(* On one device: as long as no call throws, no answer is lost and no app  *)
(* is killed, the following and the followers list agree whenever no call  *)
(* is in flight, however many toggles of a pair overlap.  (On several      *)
(* devices they need not: SymmetricWhenQuiet in the run follow_symmetric.) *)
(***************************************************************************)
THEOREM OneDeviceSymmetric ==
  ASSUME \A d, e \in Devices : d = e
  PROVE  Spec => []SymmetricWithoutFaults
<1> DEFINE Inv == TypeOK /\ SecondsAgree
<1>1. Init => Inv
  <2>1. Init => TypeOK
    BY InitType
  <2>2. Init => SecondsAgree
    BY DEF Init, SecondsAgree, QueuesOrdered, TogglesInStep, Latest, FirstsApplied, SecondWrites
  <2> QED BY <2>1, <2>2
<1>2. Inv /\ [Next]_vars => Inv'
  BY NextType, NextSymmetric
<1>3. Inv => SymmetricWithoutFaults
  BY DEF SecondsAgree, TogglesInStep, Latest, FirstsApplied, SecondWrites,
     SymmetricWithoutFaults, SymmetricWhenQuiet
<1> HIDE DEF Inv
<1> QED BY <1>1, <1>2, <1>3, PTL DEF Spec

\* Every step keeps AwaitedByUnfollow.
LEMMA NextAwaited == TypeOK /\ AwaitedByUnfollow /\ [Next]_vars => AwaitedByUnfollow'
<1> SUFFICES ASSUME TypeOK, AwaitedByUnfollow, [Next]_vars PROVE AwaitedByUnfollow'
  OBVIOUS
<1> USE DEF TypeOK
<1>1. ASSUME NEW c \in calls, CallStep(c) \/ CallThrows(c)
      PROVE  AwaitedByUnfollow'
  <2>1. InFollowing(c.dev, c.uid, c.tgt) \in BOOLEAN /\ c.seen \in BOOLEAN /\ c \in Call
    BY DEF InFollowing, Reads, CallsOK, Call
  <2>2. \/ Finish(c)
        \/ \E pc \in {"update", "update2"}, seen \in BOOLEAN : Write(c, pc, seen)
        \/ calls' = calls \ {c}
        \/ ServerApplies(c)
    BY <1>1, <2>1 DEF CallStep, CallThrows, RequestFollowGet, RequestFollowUpdate, StopFollowGet,
       StopFollowUpdate, FollowUserGet, FollowUserUpdateFollowers, FollowUserUpdateFollowing,
       UnfollowReturns
  <2>3. CASE Finish(c)
    <3>1. PICK next : next = [c EXCEPT !.pc = "return", !.seq = 0, !.sent = FALSE]
      OBVIOUS
    <3>2. next.fn = c.fn
      BY <2>1, <3>1 DEF Call
    <3>3. calls' = calls \ {c} \/ (c.awaits /\ calls' = (calls \ {c}) \cup {next})
      BY <2>3, <3>1 DEF Finish, Continue
    <3> QED BY <3>2, <3>3 DEF AwaitedByUnfollow
  <2>4. ASSUME NEW pc \in {"update", "update2"}, NEW seen \in BOOLEAN, Write(c, pc, seen)
        PROVE  AwaitedByUnfollow'
    <3>1. PICK n \in Places :
            calls' = (calls \ {c}) \cup {[c EXCEPT !.pc = pc, !.seq = n, !.sent = FALSE, !.seen = seen]}
      BY <2>4 DEF Write, Continue
    <3>2. PICK next : next = [c EXCEPT !.pc = pc, !.seq = n, !.sent = FALSE, !.seen = seen]
      OBVIOUS
    <3>3. next.fn = c.fn /\ next.pc = pc /\ next.awaits = c.awaits
      BY <2>1, <3>2 DEF Call
    <3> QED BY <3>1, <3>2, <3>3 DEF AwaitedByUnfollow
  <2>5. CASE calls' = calls \ {c}
    BY <2>5 DEF AwaitedByUnfollow
  <2>6. CASE ServerApplies(c)
    <3>1. \E next : /\ calls' = (calls \ {c}) \cup {next} /\ next.fn = c.fn /\ next.pc = c.pc
                    /\ next.awaits = c.awaits
      BY <2>6, AppliesCalls
    <3> QED BY <3>1 DEF AwaitedByUnfollow
  <2> QED BY <2>2, <2>3, <2>4, <2>5, <2>6
<1>2. ASSUME NEW d \in Devices, DeviceStep(d)
      PROVE  AwaitedByUnfollow'
  <2>1. CASE CloseProfile(d) \/ AnswersLost(d) \/ KillApp(d)
    <3>1. \A e \in calls' : \E c \in calls : KeptAll(e, c, d)
      BY <2>1, DeviceCalls
    <3>2. \A e, c : KeptAll(e, c, d) => e.fn = c.fn /\ e.pc = c.pc /\ (e.awaits => c.awaits)
      BY DEF KeptAll, Kept
    <3> QED BY <3>1, <3>2 DEF AwaitedByUnfollow
  <2>2. CASE \A e \in calls' : e \in calls \/ (e.pc = "get" /\ (e.awaits => e.fn = "followUser"))
    BY <2>2 DEF AwaitedByUnfollow
  <2>3. CASE \/ \E u \in Users : TapAccept(d, u) \/ TapDecline(d, u)
             \/ TapUnfollow(d) \/ TapRequestSent(d) \/ TapFollow(d)
    BY <2>2, <2>3 DEF TapAccept, TapDecline, TapUnfollow, TapRequestSent, TapFollow, NewCall
  <2> QED BY <1>2, <2>1, <2>2, <2>3 DEF DeviceStep, OpenProfile, ProfileLoaded, ProfileFails,
             LoadRequests
<1>3. CASE UNCHANGED vars
  BY <1>3 DEF vars, AwaitedByUnfollow
<1> QED BY <1>1, <1>2, <1>3 DEF Next

\* A call that is gone after a step without a fault has ended by itself, or
\* its caller has.
LEMMA GoneCalls ==
  ASSUME TypeOK, Next, faults' = faults, NEW c \in calls, \A e \in calls' : e.id # c.id
  PROVE  CallStep(c) \/ c.pc = "return"
<1> USE DEF TypeOK
<1>1. c \notin calls' /\ faults \in Nat /\ faults + 1 # faults
  BY BoundsAssumption DEF BoundsOK
<1>2. ASSUME NEW x \in calls, CallStep(x), x # c
      PROVE  FALSE
  <2>1. calls \ {x} \subseteq calls'
    BY <1>2 DEF CallStep, ServerApplies, RequestFollowGet, RequestFollowUpdate, StopFollowGet,
       StopFollowUpdate, FollowUserGet, FollowUserUpdateFollowers, FollowUserUpdateFollowing,
       UnfollowReturns, Write, Finish, Continue
  <2> QED BY <1>1, <1>2, <2>1
<1>3. ASSUME NEW x \in calls, CallThrows(x)
      PROVE  FALSE
  BY <1>1, <1>3 DEF CallThrows
<1>4. ASSUME NEW d \in Devices, DeviceStep(d)
      PROVE  c.pc = "return"
  <2>1. ~KillApp(d) /\ ~AnswersLost(d)
    BY <1>1 DEF KillApp, AnswersLost
  <2>2. CASE CloseProfile(d)
    <3>1. c.pc # "return" => \E e \in calls' : e.id = c.id
      BY <2>1, <2>2, DeviceCalls
    <3> QED BY <3>1
  <2>3. CASE calls \subseteq calls'
    BY <1>1, <2>3
  <2> QED BY <1>4, <2>1, <2>2, <2>3 DEF DeviceStep, OpenProfile, ProfileLoaded, ProfileFails,
             LoadRequests, TapAccept, TapDecline, TapUnfollow, TapRequestSent, TapFollow
<1> QED BY <1>2, <1>3, <1>4 DEF Next

\* Only the server changes the requests, and a write it has applied is one it
\* had applied before every other step.
LEMMA SentBefore ==
  ASSUME TypeOK, [Next]_vars, \A c \in calls : ~ServerApplies(c)
  PROVE  /\ requests' = requests
         /\ \A e \in calls' : e.sent => \E x \in calls : Descends(e, x) /\ x.sent
<1>0. CallsOK /\ \A x : Descends(x, x)
  BY DEF TypeOK, Descends
<1>1. requests' = requests
  BY DEF Next, CallStep, CallThrows, RequestFollowGet, RequestFollowUpdate,
     StopFollowGet, StopFollowUpdate, FollowUserGet, FollowUserUpdateFollowers,
     FollowUserUpdateFollowing, UnfollowReturns, DeviceStep, OpenProfile, ProfileLoaded,
     ProfileFails, CloseProfile, TapUnfollow, TapRequestSent, TapFollow, LoadRequests, TapAccept,
     TapDecline, AnswersLost, KillApp, vars, docs
<1>2. ASSUME \A e \in calls' : e \in calls \/ ~e.sent
      PROVE  \A e \in calls' : e.sent => \E x \in calls : Descends(e, x) /\ x.sent
  BY <1>0, <1>2
<1>3. ASSUME NEW c \in calls, CallStep(c) \/ CallThrows(c)
      PROVE  \A e \in calls' : e \in calls \/ ~e.sent
  <2>1. InFollowing(c.dev, c.uid, c.tgt) \in BOOLEAN /\ c.seen \in BOOLEAN /\ c \in Call
    BY <1>0 DEF InFollowing, Reads, CallsOK, Call
  <2>2. \/ Finish(c)
        \/ \E pc \in {"update", "update2"}, seen \in BOOLEAN : Write(c, pc, seen)
        \/ calls' = calls \ {c}
    BY <1>3, <2>1 DEF CallStep, CallThrows, RequestFollowGet, RequestFollowUpdate, StopFollowGet,
       StopFollowUpdate, FollowUserGet, FollowUserUpdateFollowers, FollowUserUpdateFollowing,
       UnfollowReturns
  <2>3. CASE Finish(c)
    <3>1. PICK next : next = [c EXCEPT !.pc = "return", !.seq = 0, !.sent = FALSE]
      OBVIOUS
    <3>2. ~next.sent
      BY <2>1, <3>1 DEF Call
    <3> QED BY <2>3, <3>1, <3>2 DEF Finish, Continue
  <2>4. ASSUME NEW pc \in {"update", "update2"}, NEW seen \in BOOLEAN, Write(c, pc, seen)
        PROVE  \A e \in calls' : e \in calls \/ ~e.sent
    <3>1. pc \in Stages
      BY DEF Stages
    <3>2. \E next : calls' = (calls \ {c}) \cup {next} /\ ~next.sent
      BY <1>0, <2>4, <3>1, WritePlace
    <3> QED BY <3>2
  <2> QED BY <2>2, <2>3, <2>4
<1>4. ASSUME NEW d \in Devices, DeviceStep(d)
      PROVE  \A e \in calls' : e.sent => \E x \in calls : Descends(e, x) /\ x.sent
  <2>1. CASE CloseProfile(d) \/ AnswersLost(d) \/ KillApp(d)
    <3>1. \A e \in calls' : \E c \in calls : KeptAll(e, c, d)
      BY <2>1, DeviceCalls
    <3>2. \A e, c : KeptAll(e, c, d) => Descends(e, c) /\ (e.sent => c.sent)
      BY DEF KeptAll, Kept, Descends
    <3> QED BY <3>1, <3>2
  <2>2. CASE ~(CloseProfile(d) \/ AnswersLost(d) \/ KillApp(d))
    <3>1. \A e \in calls' : e \in calls \/ ~e.sent
      BY <1>4, <2>2 DEF DeviceStep, OpenProfile, ProfileLoaded, ProfileFails, LoadRequests,
         TapAccept, TapDecline, TapUnfollow, TapRequestSent, TapFollow, NewCall
    <3> QED BY <1>2, <3>1
  <2> QED BY <2>1, <2>2
<1>5. CASE UNCHANGED vars
  <2>1. calls' = calls
    BY <1>5 DEF vars
  <2> QED BY <1>0, <1>1, <2>1
<1> QED BY <1>1, <1>2, <1>3, <1>4, <1>5 DEF Next

\* A request the server has added is in the list, until a stopFollow takes it
\* out and `removed` remembers for whom.
LEMMA NextRequests ==
  ASSUME Legacy = {}
  PROVE  TypeOK /\ RequestsStay /\ [HNext]_hvars => RequestsStay'
<1> SUFFICES ASSUME TypeOK, RequestsStay, [HNext]_hvars PROVE RequestsStay'
  OBVIOUS
<1>0. CallsOK /\ DocsOK
  BY DEF TypeOK
<1>1. CASE UNCHANGED hvars
  BY <1>1 DEF hvars, vars, docs, RequestsStay
<1>2. CASE HNext
  <2>0. [Next]_vars /\ removed' = RemovedFrom(calls')
    BY <1>2 DEF HNext
  <2> SUFFICES ASSUME NEW e \in calls', e.fn = "requestFollow", e.sent
               PROVE  e.uid \in requests'[e.tgt] \/ e.id \in removed'
    BY DEF RequestsStay
  <2>1. e.id \in removed \/ Withdrawn(e) => e.id \in removed'
    BY <2>0 DEF RemovedFrom
  <2>2. ASSUME NEW c \in calls, ServerApplies(c)
        PROVE  e.uid \in requests'[e.tgt] \/ e.id \in removed'
    <3>1. PICK next \in Call :
            /\ calls' = (calls \ {c}) \cup {next}
            /\ next.id = c.id /\ next.fn = c.fn /\ next.uid = c.uid /\ next.tgt = c.tgt
            /\ next.dev = c.dev /\ next.pc = c.pc /\ next.seq = c.seq /\ next.seen = c.seen
            /\ next.awaits = c.awaits /\ next.alive = c.alive /\ next.sent = TRUE
      BY <1>0, <2>2, AppliesCalls
    <3>2. c.tgt \in Users /\ c.uid \in Users
      BY <1>0 DEF CallsOK, Call
    <3>3. CASE e = next
      <4>1. AddRequest(c)
        BY <2>2, <3>1, <3>3 DEF ServerApplies, At
      <4>2. requests' = [requests EXCEPT ![c.tgt] = @ \cup {c.uid}]
        BY <4>1 DEF AddRequest
      <4> QED BY <1>0, <3>1, <3>2, <3>3, <4>2 DEF DocsOK
    <3>4. CASE e \in calls
      <4>1. e.uid \in requests[e.tgt] \/ e.id \in removed
        BY <3>4 DEF RequestsStay
      <4>2. e.tgt \in Users
        BY <1>0, <3>4 DEF CallsOK, Call
      <4>3. CASE At(c, "stopFollow", "update") /\ RemoveRequest(c)
        <5>1. CASE Pair(c) = Pair(e)
          BY <2>1, <2>2, <4>3, <5>1 DEF Withdrawn
        <5>2. CASE Pair(c) # Pair(e)
          <6>1. c.uid # e.uid \/ c.tgt # e.tgt
            BY <5>2 DEF Pair
          <6>2. requests' = [requests EXCEPT ![c.tgt] = @ \ {c.uid}]
            BY <4>3 DEF RemoveRequest
          <6>3. e.uid \in requests[e.tgt] => e.uid \in requests'[e.tgt]
            BY <1>0, <3>2, <4>2, <6>1, <6>2 DEF DocsOK
          <6> QED BY <2>1, <4>1, <6>3
        <5> QED BY <5>1, <5>2
      <4>4. CASE ~(At(c, "stopFollow", "update") /\ RemoveRequest(c))
        <5>1. \/ requests' = requests
              \/ requests' = [requests EXCEPT ![c.tgt] = @ \cup {c.uid}]
          BY <2>2, <4>4 DEF ServerApplies, AddRequest, ToggleFollowers, ToggleFollowing
        <5>2. e.uid \in requests[e.tgt] => e.uid \in requests'[e.tgt]
          BY <1>0, <3>2, <4>2, <5>1 DEF DocsOK
        <5> QED BY <2>1, <4>1, <5>2
      <4> QED BY <4>3, <4>4
    <3> QED BY <3>1, <3>3, <3>4
  <2>3. CASE \A c \in calls : ~ServerApplies(c)
    <3>1. /\ requests' = requests
          /\ \E x \in calls : Descends(e, x) /\ x.sent
      BY <2>0, <2>3, SentBefore
    <3> QED BY <2>1, <3>1 DEF RequestsStay, Descends
  <2> QED BY <2>2, <2>3
<1> QED BY <1>1, <1>2

(***************************************************************************)
(* Where every document has the field 'requests', a requestFollow that     *)
(* ends without a fault has done what it is for: its request is in the     *)
(* target's list, or an earlier one is on its way there in the same queue, *)
(* or a stopFollow took it out while the answer was on its way.            *)
(* (A document without the field is the subject of the run follow_legacy.) *)
(***************************************************************************)
THEOREM RequestsRecorded ==
  ASSUME Legacy = {}
  PROVE  HSpec => RequestRecorded
<1> DEFINE Recorded(c) ==
      (c.fn = "requestFollow" /\ faults' = faults /\ \A e \in calls' : e.id # c.id)
        => \/ c.uid \in requests'[c.tgt] \/ InRequests(c.dev, c.uid, c.tgt)'
           \/ c.id \in removed
      Inv == TypeOK /\ AwaitedByUnfollow /\ RequestsStay
<1>1. ASSUME TypeOK, AwaitedByUnfollow, RequestsStay, Next, NEW c \in calls,
             c.fn = "requestFollow", faults' = faults, \A e \in calls' : e.id # c.id
      PROVE  \/ c.uid \in requests'[c.tgt] \/ InRequests(c.dev, c.uid, c.tgt)'
             \/ c.id \in removed
  <2>0. c \in Call /\ c.tgt \in Users
    BY <1>1 DEF TypeOK, CallsOK, Call
  <2>1. CallStep(c)
    BY <1>1, GoneCalls DEF AwaitedByUnfollow
  <2>2. \A pc \in Stages, seen \in BOOLEAN : ~Write(c, pc, seen)
    <3> SUFFICES ASSUME NEW pc \in Stages, NEW seen \in BOOLEAN, Write(c, pc, seen) PROVE FALSE
      OBVIOUS
    <3>1. \E next : calls' = (calls \ {c}) \cup {next} /\ next.id = c.id
      BY <1>1, WritePlace DEF TypeOK
    <3> QED BY <1>1, <3>1
  <2>3. CASE RequestFollowGet(c)
    <3>1. InRequests(c.dev, c.uid, c.tgt) /\ Finish(c) /\ requests' = requests /\ c.pc = "get"
      BY <2>2, <2>3 DEF RequestFollowGet, Stages, docs, At
    <3>2. calls' = calls \ {c}
      <4>1. PICK next : next = [c EXCEPT !.pc = "return", !.seq = 0, !.sent = FALSE]
        OBVIOUS
      <4>2. next.id = c.id
        BY <2>0, <4>1 DEF Call
      <4> QED BY <1>1, <3>1, <4>1, <4>2 DEF Finish, Continue
    <3>3. Queue(c.dev)' = Queue(c.dev)
      BY <3>1, <3>2 DEF Queue
    <3> QED BY <3>1, <3>3 DEF InRequests, Reads
  <2>4. CASE RequestFollowUpdate(c)
    <3>1. requests' = requests /\ c.sent
      BY <2>4 DEF RequestFollowUpdate, docs
    <3> QED BY <1>1, <3>1 DEF RequestsStay
  <2>5. CASE ServerApplies(c)
    <3>1. \E next \in Call : calls' = (calls \ {c}) \cup {next} /\ next.id = c.id
      BY <1>1, <2>5, AppliesCalls DEF TypeOK
    <3> QED BY <1>1, <3>1
  <2>6. CASE UnfollowReturns(c)
    BY <1>1, <2>6 DEF UnfollowReturns, AwaitedByUnfollow
  <2> QED BY <1>1, <2>1, <2>3, <2>4, <2>5, <2>6 DEF CallStep, StopFollowGet, StopFollowUpdate,
             FollowUserGet, FollowUserUpdateFollowers, FollowUserUpdateFollowing, At
<1>2. Inv /\ [HNext]_hvars => [\A c \in calls : Recorded(c)]_hvars
  BY <1>1 DEF HNext
<1>3. HInit => Inv
  BY InitType DEF HInit, Init, AwaitedByUnfollow, RequestsStay
<1>4. Inv /\ [HNext]_hvars => Inv'
  <2>1. [HNext]_hvars => [Next]_vars
    BY HNextNext
  <2> QED BY <2>1, NextType, NextAwaited, NextRequests
<1> HIDE DEF Inv
<1> QED BY <1>2, <1>3, <1>4, PTL DEF HSpec, RequestRecorded
=============================================================================
