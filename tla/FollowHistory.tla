--------------------------- MODULE FollowHistory ---------------------------
(***************************************************************************)
(* Follow with five history variables, which no action reads:              *)
(*   asked     the pairs <<u, v>> such that u tapped Follow on v;          *)
(*   approved  the pairs <<u, v>> such that v accepted a request of u;     *)
(*   torn      the pairs <<u, v>> whose two lists nobody vouches for: two  *)
(*             calls of followUser were between their read and their last  *)
(*             write at once and had read different things, one of them    *)
(*             lost its second write, or its second write is applied again *)
(*             when others have changed the lists;                         *)
(*   resent    the pairs <<u, v>> for which a call of followUser had its   *)
(*             first write applied, and did not learn of it;               *)
(*   removed   the calls of requestFollow whose request a stopFollow has   *)
(*             taken out of the list before they had their answer.         *)
(* An edge or a request of the initial state counts as asked, an edge as   *)
(* approved.                                                               *)
(***************************************************************************)
EXTENDS Follow

VARIABLES asked, approved, torn, resent, removed

hvars == <<vars, asked, approved, torn, resent, removed>>

Pair(c) == <<c.uid, c.tgt>>

\* followUser has read the following list, and the server does not have its
\* second write.
Toggling(c) == At(c, "followUser", "update") \/ (At(c, "followUser", "update2") /\ ~c.sent)

\* The request of a user on their own device; the consent of the target.
AskedBy(S)    == {Pair(c) : c \in {x \in S : x.fn = "requestFollow" /\ x.uid = Owner[x.dev]}}
ApprovedBy(S) == {Pair(c) : c \in {x \in S : x.fn = "followUser" /\ x.tgt = Owner[x.dev]}}

\* Pairs with toggles that read different things.
Contradicted(S) ==
  {Pair(c) : c \in {x \in S : Toggling(x) /\ \E e \in S : /\ Toggling(e)
                                                          /\ Pair(e) = Pair(x)
                                                          /\ e.seen # x.seen}}

\* Pairs with a toggle whose app is gone.
Orphaned(S) == {Pair(c) : c \in {x \in S : Toggling(x) /\ ~x.alive}}

\* The answer to the write of call c, which was on its way, is lost.
Unanswered(c) == c.sent /\ faults' # faults /\ \E e \in calls' : e.id = c.id /\ ~e.sent

\* Pairs with a toggle whose first write is applied, and will be once more.
Resent == {Pair(c) : c \in {x \in calls : At(x, "followUser", "update") /\ Unanswered(x)}}

\* Pairs with a toggle whose second write will be applied once more, while the
\* followers list has changed since the first.
Outdated ==
  {Pair(c) : c \in {x \in calls : /\ At(x, "followUser", "update2") /\ Unanswered(x)
                                  /\ x.uid \in followers[x.tgt] <=> x.seen}}

\* A toggle that may have done its first write and not its second.
Halfway(c) == Toggling(c) /\ (c.pc = "update" => c.sent \/ Pair(c) \in resent)

\* Pairs with a toggle that a fault stopped there.
Interrupted ==
  {Pair(c) : c \in {x \in calls : /\ faults' # faults
                                  /\ Halfway(x)
                                  /\ \A e \in calls' : e.id = x.id => ~Toggling(e)}}

\* The server takes the request of c out of the list.
Withdrawn(c) ==
  \E e \in calls : At(e, "stopFollow", "update") /\ Pair(e) = Pair(c) /\ ServerApplies(e)

\* Calls of S that wait for an answer, and whose request is gone.
RemovedFrom(S) ==
  {c.id : c \in {x \in S : /\ x.fn = "requestFollow" /\ x.sent
                           /\ x.id \in removed \/ Withdrawn(x)}}

HInit ==
  /\ Init
  /\ asked = {e \in Users \X Users : e[2] \in following[e[1]] \/ e[1] \in requests[e[2]]}
  /\ approved = {e \in Users \X Users : e[2] \in following[e[1]]}
  /\ torn = {} /\ resent = {} /\ removed = {}

HNext ==
  /\ Next
  /\ asked' = asked \cup AskedBy(calls')
  /\ approved' = approved \cup ApprovedBy(calls')
  /\ torn' = torn \cup Contradicted(calls') \cup Orphaned(calls') \cup Interrupted \cup Outdated
  /\ resent' = resent \cup Resent
  /\ removed' = RemovedFrom(calls')

HSpec == HInit /\ [][HNext]_hvars

-----------------------------------------------------------------------------
Edge(u, v) == v \in following[u] \/ u \in followers[v]

\* A user follows another one only if, at some time, the other one accepted:
\* the Unfollow toggle may follow again, but never someone new.
EverApproved == \A u, v \in Users : Edge(u, v) => <<u, v>> \in approved

\* ... and only if they had asked for it themselves.
EverAsked == \A u, v \in Users : Edge(u, v) => <<u, v>> \in asked

\* The two lists disagree on a pair only while a followUser is between its
\* two writes, or has the first one to send again, except on pairs whose
\* toggles contradicted each other, were cut short or came too late
\* (followUser, which has no transaction).
AgreeUnlessTorn ==
  \A u, v \in Users :
    \/ <<u, v>> \in torn
    \/ v \in following[u] <=> u \in followers[v]
    \/ \E c \in calls : Halfway(c) /\ Pair(c) = <<u, v>>

\* requestFollow "Adds to the array of request for the target user": a call
\* that ends without a fault leaves its request in the list getRequests reads,
\* or finds an earlier one on its way there in the device's queue.  Only a
\* stopFollow (cancel, accept or decline) that the server applies after the
\* request, and before the call has its answer, makes it end without one.
RequestRecorded ==
  [][\A c \in calls :
       (c.fn = "requestFollow" /\ faults' = faults /\ \A e \in calls' : e.id # c.id)
         => \/ c.uid \in requests'[c.tgt] \/ InRequests(c.dev, c.uid, c.tgt)'
            \/ c.id \in removed]_hvars

-----------------------------------------------------------------------------
(***************************************************************************)
(* The same properties made inductive.                                     *)
(***************************************************************************)

\* Whatever may lead to an edge or a request has its history behind it: the
\* lists, the calls in flight, the snapshots on the screens.
HistoryInv ==
  /\ EverApproved /\ EverAsked
  /\ \A u, v \in Users : u \in requests[v] => <<u, v>> \in asked
  /\ \A c \in calls : /\ c.fn = "followUser" => Pair(c) \in approved \cap asked
                      /\ c.fn = "requestFollow" => Pair(c) \in asked
  /\ \A d \in Devices : isFollowing[d] => <<Owner[d], viewed[d]>> \in approved \cap asked
  /\ \A d \in Devices : \A u \in requestsUid[d] : <<u, Owner[d]>> \in asked

\* Off the torn pairs, the toggles under way are alive and agree, and one that
\* is between its writes has left the followers list as it wanted it.
TogglesAgree ==
  \A c \in calls :
    (Toggling(c) /\ Pair(c) \notin torn) =>
       /\ c.alive
       /\ \A e \in calls : Toggling(e) /\ Pair(e) = Pair(c) => e.seen = c.seen
       /\ c.sent \/ c.pc = "update2" => (c.uid \in followers[c.tgt] <=> ~c.seen)

\* A request the server has added stays until a stopFollow removes it.
RequestsStay ==
  \A c \in calls : c.fn = "requestFollow" /\ c.sent => \/ c.uid \in requests[c.tgt]
                                                      \/ c.id \in removed
=============================================================================
