------------------------------- MODULE Follow -------------------------------
(***************************************************************************)
(* The follow protocol: who follows whom, and how one becomes a follower.  *)
(*                                                                         *)
(* The shared state is the collection "users" of Firestore: each user's    *)
(* document has the arrays followers, following and requests.  They are    *)
(* only ever changed with arrayUnion and arrayRemove, so they are sets     *)
(* here.  The methods requestFollow, stopFollow and followUser of          *)
(* FirebaseMethods read a document, await the answer and then write one or *)
(* two documents, each write awaited: a call in flight is a record of      *)
(* `calls`.  The answer to an await is one action, and what the server     *)
(* does to a write before it answers is another, so that everything other  *)
(* devices do in between is explored.  The callers are the buttons of      *)
(* OtherUserProfile and the request rows of SearchTab, which decide from a *)
(* snapshot taken when the screen was loaded.                              *)
(*                                                                         *)
(* The SDK queues the writes of a device and sends them in order, across   *)
(* restarts of the app, and a second time if the answer to the first one   *)
(* is lost (WritePipeline); what a device reads is the server's document   *)
(* with its own queued writes applied.  The displayed counts (followers,   *)
(* following, postLength) are left out: no decision reads them.            *)
(***************************************************************************)
EXTENDS Naturals, FiniteSets

CONSTANTS
  Users,      \* uids: the documents of the collection "users"
  Devices,    \* running copies of the app
  Owner,      \* Owner[d]: the user signed in on device d
  Legacy,     \* users whose document has no 'requests' field
  NoUser,     \* no profile is open
  CallIds,    \* bound: names for the calls in flight at one time
  MaxTaps,    \* bound: taps on the buttons of the two screens
  MaxFaults   \* bound: exceptions thrown, answers lost and apps killed

ASSUME OwnerAssumption == Owner \in [Devices -> Users]
ASSUME LegacyAssumption == Legacy \subseteq Users
ASSUME NoUserAssumption == NoUser \notin Users
ASSUME BoundsAssumption == MaxTaps \in Nat /\ MaxFaults \in Nat

VARIABLES
  \* Firestore, collection "users"
  followers,    \* followers[u]: the array 'followers' of u's document
  following,    \* following[u]: the array 'following'
  requests,     \* requests[u]: the array 'requests' ({} where it is missing)
  request,      \* request[u]: the array 'request', which nothing reads
  \* FirebaseMethods
  calls,        \* the calls in flight
  \* OtherUserProfile, one at most on each device
  viewed,       \* widget.uid, or NoUser when the screen is not open
  screen,       \* "closed", "loading", "ready" or "failed"
  isFollowing,
  requestSent,
  \* SearchTab
  requestsUid,  \* the rows shown, loaded by getRequests
  \* bounds
  taps, faults

docs    == <<followers, following, requests, request>>
profile == <<viewed, screen, isFollowing, requestSent>>
bounds  == <<taps, faults>>
vars    == <<docs, calls, profile, requestsUid, bounds>>

-----------------------------------------------------------------------------
(***************************************************************************)
(* Calls in flight.  pc is the await the call is suspended at: the get()   *)
(* of the document it reads, the first update, the second update (only     *)
(* followUser has one), or its return to a handler that awaits it.  A call *)
(* at an update stands for the write it has handed to the SDK as well, and *)
(* seq is the write's place in the SDK's queue; it is sent once the server *)
(* has applied it and its answer is on the way.  When the app is killed    *)
(* the queued write is all that is left: the call is not alive any more.   *)
(***************************************************************************)
Methods == {"requestFollow", "stopFollow", "followUser"}
Stages  == {"get", "update", "update2", "return"}

\* A tap causes three writes at most, so there is always a place left.
Places == 1..(3 * MaxTaps)

Call == [id     : CallIds,
         fn     : Methods,
         uid    : Users,    \* parameter uid
         tgt    : Users,    \* parameter targetUid or followId
         dev    : Devices,  \* where it runs
         pc     : Stages,
         seq    : Places \cup {0},
         sent   : BOOLEAN,  \* the server has applied the write, and answers it
         seen   : BOOLEAN,  \* followUser: following.contains(followId)
         awaits : BOOLEAN,  \* the Unfollow handler of a mounted screen awaits it
         alive  : BOOLEAN]

FreshIds == CallIds \ {c.id : c \in calls}

NewCall(i, fn, uid, tgt, d, awaits) ==
  [id |-> i, fn |-> fn, uid |-> uid, tgt |-> tgt, dev |-> d, pc |-> "get", seq |-> 0,
   sent |-> FALSE, seen |-> FALSE, awaits |-> awaits, alive |-> TRUE]

\* The SDK's queue of device d; whether c's write is the first of its own, the
\* next one to be answered; and whether it is the next one to be applied.
Queue(d)   == {c \in calls : c.dev = d /\ c.pc \in {"update", "update2"}}
IsFirst(c) == \A e \in Queue(c.dev) : c.seq <= e.seq
IsNext(c)  == ~c.sent /\ \A e \in Queue(c.dev) : e.seq < c.seq => e.sent

\* The array a queued write changes, and whether it adds an element.
Field(c) == IF c.fn # "followUser" THEN "requests"
            ELSE IF c.pc = "update" THEN "followers" ELSE "following"
Adds(c) == c.fn = "requestFollow" \/ (c.fn = "followUser" /\ ~c.seen)

\* Does device d read the element in the array?  The last of its own queued
\* writes to that element decides, and the server if there is none.
Reads(d, field, uid, tgt, server) ==
  LET own == {c \in Queue(d) : Field(c) = field /\ c.uid = uid /\ c.tgt = tgt} IN
  \/ own = {} /\ server
  \/ \E c \in own : Adds(c) /\ \A e \in own : e.seq <= c.seq

InRequests(d, u, v)  == Reads(d, "requests", u, v, u \in requests[v]) /\ v \notin Legacy
InFollowers(d, u, v) == Reads(d, "followers", u, v, u \in followers[v])
InFollowing(d, u, v) == Reads(d, "following", u, v, v \in following[u])

\* The call goes on to its next await.
Continue(c, next) == calls' = (calls \ {c}) \cup {next}

\* The call hands its next write to the SDK and awaits it.
Write(c, pc, seen) ==
  \E n \in Places :
    /\ \A e \in Queue(c.dev) : e.seq < n
    /\ n = 1 \/ \E e \in Queue(c.dev) : n = e.seq + 1
    /\ Continue(c, [c EXCEPT !.pc = pc, !.seq = n, !.sent = FALSE, !.seen = seen])

\* The call is over: control goes back to the handler, if one awaits it.
Finish(c) ==
  IF c.awaits THEN Continue(c, [c EXCEPT !.pc = "return", !.seq = 0, !.sent = FALSE])
              ELSE calls' = calls \ {c}

At(c, fn, pc) == c.fn = fn /\ c.pc = pc

-----------------------------------------------------------------------------
(***************************************************************************)
(* FirebaseMethods.requestFollow(uid, targetUid)                           *)
(***************************************************************************)
\* Mutant: the test on the list is inverted.
RequestFollowGetInverted(c) ==
  /\ At(c, "requestFollow", "get") /\ c.alive
  /\ IF InRequests(c.dev, c.uid, c.tgt)
       THEN Write(c, "update", FALSE)
       ELSE Finish(c)
  /\ UNCHANGED <<docs, profile, requestsUid, bounds>>

RequestFollowGet(c) ==
  /\ At(c, "requestFollow", "get") /\ c.alive
  /\ IF InRequests(c.dev, c.uid, c.tgt)
       THEN Finish(c)
       ELSE Write(c, "update", FALSE)
  /\ UNCHANGED <<docs, profile, requestsUid, bounds>>

\* A document without 'requests' gets the field 'request' instead.
AddRequest(c) ==
  /\ IF c.tgt \in Legacy
       THEN /\ request' = [request EXCEPT ![c.tgt] = {c.uid}]
            /\ UNCHANGED requests
       ELSE /\ requests' = [requests EXCEPT ![c.tgt] = @ \cup {c.uid}]
            /\ UNCHANGED request
  /\ UNCHANGED <<followers, following>>

\* The await of the update is over.
RequestFollowUpdate(c) ==
  /\ At(c, "requestFollow", "update") /\ IsFirst(c) /\ c.sent
  /\ Finish(c)
  /\ UNCHANGED <<docs, profile, requestsUid, bounds>>

(***************************************************************************)
(* FirebaseMethods.stopFollow(uid, targetUid)                              *)
(***************************************************************************)
\* Mutant: the test of requestFollow, not negated.
StopFollowGetInverted(c) ==
  /\ At(c, "stopFollow", "get") /\ c.alive
  /\ IF InRequests(c.dev, c.uid, c.tgt)
       THEN Finish(c)
       ELSE Write(c, "update", FALSE)
  /\ UNCHANGED <<docs, profile, requestsUid, bounds>>

StopFollowGet(c) ==
  /\ At(c, "stopFollow", "get") /\ c.alive
  /\ IF InRequests(c.dev, c.uid, c.tgt)
       THEN Write(c, "update", FALSE)
       ELSE Finish(c)
  /\ UNCHANGED <<docs, profile, requestsUid, bounds>>

RemoveRequest(c) ==
  /\ requests' = [requests EXCEPT ![c.tgt] = @ \ {c.uid}]
  /\ UNCHANGED <<followers, following, request>>

StopFollowUpdate(c) ==
  /\ At(c, "stopFollow", "update") /\ IsFirst(c) /\ c.sent
  /\ Finish(c)
  /\ UNCHANGED <<docs, profile, requestsUid, bounds>>

(***************************************************************************)
(* FirebaseMethods.followUser(uid, followId): a toggle.  What it read of   *)
(* uid's following list decides both writes.                               *)
(***************************************************************************)
Toggled(list, u, remove) == IF remove THEN list \ {u} ELSE list \cup {u}

FollowUserGet(c) ==
  /\ At(c, "followUser", "get") /\ c.alive
  /\ Write(c, "update", InFollowing(c.dev, c.uid, c.tgt))
  /\ UNCHANGED <<docs, profile, requestsUid, bounds>>

ToggleFollowers(c) ==
  /\ followers' = [followers EXCEPT ![c.tgt] = Toggled(@, c.uid, c.seen)]
  /\ UNCHANGED <<following, requests, request>>

FollowUserUpdateFollowers(c) ==
  /\ At(c, "followUser", "update") /\ IsFirst(c) /\ c.sent
  /\ IF c.alive THEN Write(c, "update2", c.seen)
                ELSE calls' = calls \ {c}
  /\ UNCHANGED <<docs, profile, requestsUid, bounds>>

\* Mutant: the unfollow branch forgets the follower's own document.
ToggleFollowingOnlyAdds(c) ==
  /\ following' = [following EXCEPT ![c.uid] = @ \cup {c.tgt}]
  /\ UNCHANGED <<followers, requests, request>>

ToggleFollowing(c) ==
  /\ following' = [following EXCEPT ![c.uid] = Toggled(@, c.tgt, c.seen)]
  /\ UNCHANGED <<followers, requests, request>>

FollowUserUpdateFollowing(c) ==
  /\ At(c, "followUser", "update2") /\ IsFirst(c) /\ c.sent
  /\ Finish(c)
  /\ UNCHANGED <<docs, profile, requestsUid, bounds>>

\* The server applies the write that c awaits; its answer is still to come.
ServerApplies(c) ==
  /\ c \in Queue(c.dev) /\ IsNext(c)
  /\ \/ At(c, "requestFollow", "update") /\ AddRequest(c)
     \/ At(c, "stopFollow", "update") /\ RemoveRequest(c)
     \/ At(c, "followUser", "update") /\ ToggleFollowers(c)
     \/ At(c, "followUser", "update2") /\ ToggleFollowing(c)
  /\ Continue(c, [c EXCEPT !.sent = TRUE])
  /\ UNCHANGED <<profile, requestsUid, bounds>>

\* Mutant: the exception is not caught, so no handler gets control back.
CallThrowsUncaught(c) ==
  /\ c.alive /\ c.pc # "return" /\ (c.pc = "get" \/ (IsFirst(c) /\ ~c.sent))
  /\ faults < MaxFaults
  /\ faults' = faults + 1
  /\ calls' = calls \ {c}
  /\ UNCHANGED <<docs, profile, requestsUid, taps>>

\* Every method catches what its awaits throw, prints it and returns.
CallThrows(c) ==
  /\ c.alive /\ c.pc # "return" /\ (c.pc = "get" \/ (IsFirst(c) /\ ~c.sent))
  /\ faults < MaxFaults
  /\ faults' = faults + 1
  /\ Finish(c)
  /\ UNCHANGED <<docs, profile, requestsUid, taps>>

\* setState of the Unfollow handler, once its await is over.
UnfollowReturns(c) ==
  /\ c.pc = "return"
  /\ calls' = calls \ {c}
  /\ isFollowing' = [isFollowing EXCEPT ![c.dev] = FALSE]
  /\ UNCHANGED <<docs, viewed, screen, requestSent, requestsUid, bounds>>

\* One step of the method that c is a call of, other than an exception, or of
\* the server on its behalf.
CallStep(c) ==
  \/ ServerApplies(c)
  \/ RequestFollowGet(c) \/ RequestFollowUpdate(c)
  \/ StopFollowGet(c) \/ StopFollowUpdate(c)
  \/ FollowUserGet(c) \/ FollowUserUpdateFollowers(c) \/ FollowUserUpdateFollowing(c)
  \/ UnfollowReturns(c)

-----------------------------------------------------------------------------
(***************************************************************************)
(* OtherUserProfile: opened from a search result, a request row or a row   *)
(* of the follower lists.                                                  *)
(***************************************************************************)
OpenProfile(d, u) ==
  /\ viewed[d] = NoUser
  /\ viewed' = [viewed EXCEPT ![d] = u]
  /\ screen' = [screen EXCEPT ![d] = "loading"]
  /\ UNCHANGED <<docs, calls, isFollowing, requestSent, requestsUid, bounds>>

\* getData: the snapshot that decides which button the screen offers.
ProfileLoaded(d) ==
  /\ screen[d] = "loading"
  /\ screen' = [screen EXCEPT ![d] = "ready"]
  /\ isFollowing' = [isFollowing EXCEPT ![d] = InFollowers(d, Owner[d], viewed[d])]
  /\ requestSent' = [requestSent EXCEPT ![d] = InRequests(d, Owner[d], viewed[d])]
  /\ UNCHANGED <<docs, calls, viewed, requestsUid, bounds>>

\* getData throws: userData stays empty and the screen cannot be built.
ProfileFails(d) ==
  /\ screen[d] = "loading"
  /\ faults < MaxFaults
  /\ faults' = faults + 1
  /\ screen' = [screen EXCEPT ![d] = "failed"]
  /\ UNCHANGED <<docs, calls, viewed, isFollowing, requestSent, requestsUid, taps>>

\* Mutant: isFollowing outlives the screen.
UnmountedKeepsButton(d) ==
  /\ viewed' = [viewed EXCEPT ![d] = NoUser]
  /\ screen' = [screen EXCEPT ![d] = "closed"]
  /\ requestSent' = [requestSent EXCEPT ![d] = FALSE]
  /\ UNCHANGED isFollowing

Unmounted(d) ==
  /\ viewed' = [viewed EXCEPT ![d] = NoUser]
  /\ screen' = [screen EXCEPT ![d] = "closed"]
  /\ isFollowing' = [isFollowing EXCEPT ![d] = FALSE]
  /\ requestSent' = [requestSent EXCEPT ![d] = FALSE]

\* The calls of d that are left once the ones in `gone` stages are dropped.
Remaining(d, gone) == {c \in calls : ~(c.dev = d /\ c.pc \in gone)}

\* Calls go on, but the setState after an await no longer has any effect.
CloseProfile(d) ==
  /\ viewed[d] # NoUser
  /\ Unmounted(d)
  /\ calls' = {[c EXCEPT !.awaits = @ /\ c.dev # d] : c \in Remaining(d, {"return"})}
  /\ UNCHANGED <<docs, requestsUid, bounds>>

\* Mutant: the buttons are on every profile.
ButtonsShownAlways(d) == screen[d] = "ready"

\* The row of buttons is shown on everyone's profile but one's own.
ButtonsShown(d) == screen[d] = "ready" /\ viewed[d] # Owner[d]

Tap == taps < MaxTaps /\ taps' = taps + 1

TapUnfollow(d) ==
  /\ ButtonsShown(d) /\ isFollowing[d] /\ Tap
  /\ \E i \in FreshIds :
       calls' = calls \cup {NewCall(i, "followUser", Owner[d], viewed[d], d, TRUE)}
  /\ UNCHANGED <<docs, profile, requestsUid, faults>>

\* The button "Request Sent"
TapRequestSent(d) ==
  /\ ButtonsShown(d) /\ ~isFollowing[d] /\ requestSent[d] /\ Tap
  /\ \E i \in FreshIds :
       calls' = calls \cup {NewCall(i, "stopFollow", Owner[d], viewed[d], d, FALSE)}
  /\ requestSent' = [requestSent EXCEPT ![d] = FALSE]
  /\ UNCHANGED <<docs, viewed, screen, isFollowing, requestsUid, faults>>

\* Mutant: Follow calls followUser at once (as a line left in SearchTab did).
TapFollowAtOnce(d) ==
  /\ ButtonsShown(d) /\ ~isFollowing[d] /\ ~requestSent[d] /\ Tap
  /\ \E i \in FreshIds :
       calls' = calls \cup {NewCall(i, "followUser", Owner[d], viewed[d], d, FALSE)}
  /\ requestSent' = [requestSent EXCEPT ![d] = TRUE]
  /\ UNCHANGED <<docs, viewed, screen, isFollowing, requestsUid, faults>>

TapFollow(d) ==
  /\ ButtonsShown(d) /\ ~isFollowing[d] /\ ~requestSent[d] /\ Tap
  /\ \E i \in FreshIds :
       calls' = calls \cup {NewCall(i, "requestFollow", Owner[d], viewed[d], d, FALSE)}
  /\ requestSent' = [requestSent EXCEPT ![d] = TRUE]
  /\ UNCHANGED <<docs, viewed, screen, isFollowing, requestsUid, faults>>

-----------------------------------------------------------------------------
(***************************************************************************)
(* SearchTab: the follow requests, read once when the tab is opened.  How  *)
(* the rows are labelled is the subject of UserRows.                       *)
(***************************************************************************)
LoadRequests(d) ==
  /\ viewed[d] = NoUser
  /\ requestsUid' = [requestsUid EXCEPT ![d] = {u \in Users : InRequests(d, u, Owner[d])}]
  /\ UNCHANGED <<docs, calls, profile, bounds>>

RemoveRow(d, u) == requestsUid' = [requestsUid EXCEPT ![d] = @ \ {u}]

\* Mutant: the arguments of followUser are swapped.
TapAcceptSwapped(d, u) ==
  /\ viewed[d] = NoUser /\ u \in requestsUid[d] /\ Tap
  /\ \E i, j \in FreshIds :
       /\ i # j
       /\ calls' = calls \cup {NewCall(i, "followUser", Owner[d], u, d, FALSE),
                               NewCall(j, "stopFollow", u, Owner[d], d, FALSE)}
  /\ RemoveRow(d, u)
  /\ UNCHANGED <<docs, profile, faults>>

\* followUser and stopFollow are both started, neither is awaited.
TapAccept(d, u) ==
  /\ viewed[d] = NoUser /\ u \in requestsUid[d] /\ Tap
  /\ \E i, j \in FreshIds :
       /\ i # j
       /\ calls' = calls \cup {NewCall(i, "followUser", u, Owner[d], d, FALSE),
                               NewCall(j, "stopFollow", u, Owner[d], d, FALSE)}
  /\ RemoveRow(d, u)
  /\ UNCHANGED <<docs, profile, faults>>

TapDecline(d, u) ==
  /\ viewed[d] = NoUser /\ u \in requestsUid[d] /\ Tap
  /\ \E i \in FreshIds :
       calls' = calls \cup {NewCall(i, "stopFollow", u, Owner[d], d, FALSE)}
  /\ RemoveRow(d, u)
  /\ UNCHANGED <<docs, profile, faults>>

-----------------------------------------------------------------------------
\* The connection breaks with answers on the way: the writes they were for
\* stay in the queue and will be applied again.
AnswersLost(d) ==
  /\ \E c \in Queue(d) : c.sent
  /\ faults < MaxFaults
  /\ faults' = faults + 1
  /\ calls' = {[c EXCEPT !.sent = @ /\ c.dev # d] : c \in calls}
  /\ UNCHANGED <<docs, profile, requestsUid, taps>>

\* The app is killed, and its connection with it.  A write handed to the SDK
\* survives, its caller does not.
KillApp(d) ==
  /\ faults < MaxFaults
  /\ faults' = faults + 1
  /\ Unmounted(d)
  /\ requestsUid' = [requestsUid EXCEPT ![d] = {}]
  /\ calls' = {[c EXCEPT !.sent = @ /\ c.dev # d, !.awaits = @ /\ c.dev # d,
                         !.alive = @ /\ c.dev # d] : c \in Remaining(d, {"get", "return"})}
  /\ UNCHANGED <<docs, taps>>

-----------------------------------------------------------------------------
\* Some follow graph, and some requests of users who do not follow yet.
Init ==
  /\ \E graph, asks \in SUBSET (Users \X Users) :
       /\ \A u \in Users : <<u, u>> \notin graph \cup asks
       /\ graph \cap asks = {}
       /\ \A e \in asks : e[2] \notin Legacy
       /\ following = [u \in Users |-> {v \in Users : <<u, v>> \in graph}]
       /\ followers = [v \in Users |-> {u \in Users : <<u, v>> \in graph}]
       /\ requests  = [v \in Users |-> {u \in Users : <<u, v>> \in asks}]
  /\ request = [u \in Users |-> {}]
  /\ calls = {}
  /\ viewed = [d \in Devices |-> NoUser]
  /\ screen = [d \in Devices |-> "closed"]
  /\ isFollowing = [d \in Devices |-> FALSE]
  /\ requestSent = [d \in Devices |-> FALSE]
  /\ requestsUid = [d \in Devices |-> {}]
  /\ taps = 0 /\ faults = 0

DeviceStep(d) ==
  \/ \E u \in Users : OpenProfile(d, u)
  \/ ProfileLoaded(d) \/ ProfileFails(d) \/ CloseProfile(d)
  \/ TapUnfollow(d) \/ TapRequestSent(d) \/ TapFollow(d)
  \/ LoadRequests(d)
  \/ \E u \in Users : TapAccept(d, u) \/ TapDecline(d, u)
  \/ AnswersLost(d) \/ KillApp(d)

Next ==
  \/ \E c \in calls : CallStep(c) \/ CallThrows(c)
  \/ \E d \in Devices : DeviceStep(d)

\* Every await is answered in the end, a write after it is applied; nobody has to tap anything.
Fairness == \A i \in CallIds : WF_vars(\E c \in calls : c.id = i /\ CallStep(c))

Spec == Init /\ [][Next]_vars /\ Fairness

-----------------------------------------------------------------------------
DocsOK ==
  /\ followers \in [Users -> SUBSET Users]
  /\ following \in [Users -> SUBSET Users]
  /\ requests \in [Users -> SUBSET Users]
  /\ request \in [Users -> SUBSET Users]

CallsOK ==
  /\ calls \subseteq Call
  /\ \A c1, c2 \in calls : c1.id = c2.id => c1 = c2

ScreensOK ==
  /\ viewed \in [Devices -> Users \cup {NoUser}]
  /\ screen \in [Devices -> {"closed", "loading", "ready", "failed"}]
  /\ \A d \in Devices : screen[d] = "closed" <=> viewed[d] = NoUser
  /\ \A d \in Devices : isFollowing[d] => screen[d] = "ready"
  /\ isFollowing \in [Devices -> BOOLEAN]
  /\ requestSent \in [Devices -> BOOLEAN]
  /\ requestsUid \in [Devices -> SUBSET Users]

BoundsOK == taps \in 0..MaxTaps /\ faults \in 0..MaxFaults

\* Every variable holds a value of its kind, no two calls share a name, and a
\* screen shows a user exactly while it is open, and Unfollow only when it is
\* loaded (_OtherUserProfileState).
TypeOK == DocsOK /\ CallsOK /\ ScreensOK /\ BoundsOK

\* Nobody follows themselves or asks to, however calls interleave.  The build
\* method's test on one's own profile is the only protection there is: search
\* results include it, and followUser and requestFollow accept equal uids.
NoSelfFollow ==
  \A u \in Users : u \notin followers[u] \cup following[u] \cup requests[u]

\* NoSelfFollow made inductive: no call and no request row is about one user.
NoSelfInv ==
  /\ NoSelfFollow
  /\ \A c \in calls : c.uid # c.tgt
  /\ \A d \in Devices : Owner[d] \notin requestsUid[d]

\* "Both the following list for current user and followers list for target
\* user gets modified": when no call is in flight, the two lists agree.
SymmetricWhenQuiet ==
  calls = {} => \A u, v \in Users : v \in following[u] <=> u \in followers[v]

\* On one device the queue makes the two writes of every toggle stay in step, so
\* that holds as long as nothing fails, whatever is tapped and how fast.
SymmetricWithoutFaults == faults = 0 => SymmetricWhenQuiet

\* requestSent: "Whether the current user sent a follow request to target
\* user".  A screen at rest that offers Follow has no request pending.
FollowOffered ==
  calls = {} =>
    \A d \in Devices : ButtonsShown(d) /\ ~isFollowing[d] /\ ~requestSent[d]
                         => Owner[d] \notin requests[viewed[d]]

\* A stopFollow (cancel, accept or decline) whose write the server does not
\* have yet takes the request out of the target's list in the end, unless an
\* exception or a kill stops it.
StopFollowResolves ==
  \A u, v \in Users :
    (\E c \in calls : c.fn = "stopFollow" /\ c.uid = u /\ c.tgt = v /\ ~c.sent)
      ~> (u \notin requests[v] \/ faults > 0)

\* A screen never keeps offering Unfollow once it was tapped: followUser
\* catches everything, so the handler's await always returns to its setState.
UnfollowSettles ==
  \A d \in Devices : (\E c \in calls : c.dev = d /\ c.awaits) ~> ~isFollowing[d]
-----------------------------------------------------------------------------
(***************************************************************************)
(* SymmetricWithoutFaults made inductive.  No two queued writes of a       *)
(* device have the same place, and they are applied in order.  The latest  *)
(* toggle of a pair whose first write is applied has left the followers    *)
(* list as it wanted it, and once it is over the following list as well.   *)
(***************************************************************************)
QueuesOrdered ==
  \A c, e \in calls :
    c \in Queue(c.dev) /\ e \in Queue(c.dev) =>
      /\ c.seq = e.seq => c = e
      /\ c.seq < e.seq /\ e.sent => c.sent

FirstsApplied(u, v) ==
  {c \in calls : At(c, "followUser", "update") /\ c.sent /\ c.uid = u /\ c.tgt = v}
SecondWrites(u, v) == {c \in calls : At(c, "followUser", "update2") /\ c.uid = u /\ c.tgt = v}

\* The calls among which the latest toggle is, if it is not over: a second
\* write is queued behind those of the calls whose first was applied earlier.
Latest(u, v) == IF FirstsApplied(u, v) # {} THEN FirstsApplied(u, v) ELSE SecondWrites(u, v)

IsLast(c, S) == c \in S /\ \A e \in S : e.seq <= c.seq

TogglesInStep(u, v) ==
  /\ Latest(u, v) = {} => (v \in following[u] <=> u \in followers[v])
  /\ \A c \in calls : IsLast(c, Latest(u, v)) => (u \in followers[v] <=> ~c.seen)
  /\ \A c \in calls : IsLast(c, SecondWrites(u, v)) /\ c.sent => (v \in following[u] <=> ~c.seen)

SecondsAgree ==
  faults = 0 => /\ QueuesOrdered
                /\ \A c \in calls : c.alive
                /\ \A u, v \in Users : TogglesInStep(u, v)

\* Only the Unfollow handler awaits a call and is returned to.
AwaitedByUnfollow == \A c \in calls : c.awaits \/ c.pc = "return" => c.fn = "followUser"
=============================================================================
