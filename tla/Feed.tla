-------------------------------- MODULE Feed --------------------------------
(***************************************************************************)
(* Posting and the home feed.  A post goes to the poster's own collection  *)
(* "posts", through the SDK's queue.  HomeTab reads the list of followed   *)
(* users once, listens to one query for each of them, and shows the union  *)
(* of their posts once every query has answered (CombineLatestStream),     *)
(* without the ones that are too old when it builds.                       *)
(*                                                                         *)
(* A post is its author, its time and its date; the order of the cards and *)
(* what is on them are left out.  One reader's HomeTab is modelled.        *)
(***************************************************************************)
EXTENDS FeedTime, FiniteSets

CONSTANTS
  Posters,    \* the users the reader may follow
  Reader,     \* the user signed in on the device with the feed
  Zone,       \* Zone[u]: offset of u's local clock, in seconds
  Instants,   \* bound: the times at which something may happen
  MaxPosts,   \* bound: posts made
  MaxEdits,   \* bound: changes of the reader's list
  MaxFaults   \* bound: reads and queries that fail

ASSUME ZoneAssumption == Zone \in [Posters \cup {Reader} -> Int]
ASSUME InstantsAssumption == Instants \subseteq Int
ASSUME FeedBoundsAssumption == MaxPosts \in Nat /\ MaxEdits \in Nat /\ MaxFaults \in Nat

VARIABLES
  now,         \* the time
  following,   \* the array of the reader's document
  outbox,      \* posts in the queues of the posters' SDKs
  posts,       \* posts in the collections
  view,        \* what HomeTab shows
  followings,  \* the list getPosts read
  latest,      \* latest[f]: what the query on f's posts returned last
  failed,      \* the users whose query has ended with an error
  shown,       \* the posts on the screen
  builtAt,     \* when the screen was built
  edits, faults

home == <<view, followings, latest, failed, shown, builtAt>>
vars == <<now, following, outbox, posts, home, edits, faults>>

Post  == [by : Posters, at : Int, date : {Format(t + Zone[u]) : t \in Instants, u \in Posters}]
Views == {"closed", "loading", "stuck", "waiting", "feed", "none"}

PostsOf(f) == {p \in posts : p.by = f}

-----------------------------------------------------------------------------
\* postDiary and postCard: nothing is awaited, the screen says "Diary posted".
PostDiary(u) ==
  /\ Cardinality(outbox \cup posts) < MaxPosts
  /\ \A p \in outbox \cup posts : p.by = u => p.at # now
  /\ outbox' = outbox \cup {[by |-> u, at |-> now, date |-> Format(now + Zone[u])]}
  /\ UNCHANGED <<now, following, posts, home, edits, faults>>

\* The server has the post; by then the second of its date is over.
Deliver(p) ==
  /\ p \in outbox /\ p.at < now
  /\ outbox' = outbox \ {p}
  /\ posts' = posts \cup {p}
  /\ UNCHANGED <<now, following, home, edits, faults>>

\* followUser, on behalf of the reader
ChangeFollowing(f) ==
  /\ edits < MaxEdits
  /\ edits' = edits + 1
  /\ following' = IF f \in following THEN following \ {f} ELSE following \cup {f}
  /\ UNCHANGED <<now, outbox, posts, home, faults>>

Tick(t) ==
  /\ t > now
  /\ now' = t
  /\ UNCHANGED <<following, outbox, posts, home, edits, faults>>

-----------------------------------------------------------------------------
OpenHome ==
  /\ view = "closed"
  /\ view' = "loading"
  /\ UNCHANGED <<now, following, outbox, posts, followings, latest, failed, shown, builtAt, edits, faults>>

\* Mutant: the answers of the last State's queries are kept.
CloseHomeKeepsAnswers ==
  /\ view # "closed"
  /\ view' = "closed"
  /\ followings' = {} /\ failed' = {} /\ shown' = {}
  /\ UNCHANGED <<now, following, outbox, posts, latest, builtAt, edits, faults>>

\* The State goes away, with its subscriptions.
CloseHome ==
  /\ view # "closed"
  /\ view' = "closed"
  /\ followings' = {} /\ latest' = [f \in {} |-> {}] /\ failed' = {} /\ shown' = {}
  /\ UNCHANGED <<now, following, outbox, posts, builtAt, edits, faults>>

\* Combining no stream at all ends at once: "No Posts to show".
GetPosts ==
  /\ view = "loading"
  /\ followings' = following
  /\ view' = IF following = {} THEN "none" ELSE "waiting"
  /\ UNCHANGED <<now, following, outbox, posts, latest, failed, shown, builtAt, edits, faults>>

\* HomeTab.getData catches nothing: its loading icon stays.
GetPostsThrows ==
  /\ view = "loading"
  /\ faults < MaxFaults
  /\ faults' = faults + 1
  /\ view' = "stuck"
  /\ UNCHANGED <<now, following, outbox, posts, followings, latest, failed, shown, builtAt, edits>>

\* The subscription to f's posts, and whether it still answers.
Listening(f) == view \in {"waiting", "feed", "none"} /\ f \in followings \ failed

\* Mutant: the screen is built once and not again.
EmitOnce(f) ==
  /\ Listening(f)
  /\ f \in DOMAIN latest => latest[f] # PostsOf(f)
  /\ latest' = [g \in DOMAIN latest \cup {f} |-> IF g = f THEN PostsOf(f) ELSE latest[g]]
  /\ IF DOMAIN latest' = followings /\ view = "waiting"
       THEN /\ view' = "feed" /\ builtAt' = now
            /\ shown' = {p \in UNION {latest'[g] : g \in followings} :
                           Visible(p.date, now + Zone[Reader])}
       ELSE UNCHANGED <<view, shown, builtAt>>
  /\ UNCHANGED <<now, following, outbox, posts, followings, failed, edits, faults>>

\* Mutant: the combined list waits for a post of every followed user.
EmitWhenNonEmpty(f) ==
  /\ Listening(f)
  /\ f \in DOMAIN latest => latest[f] # PostsOf(f)
  /\ latest' = [g \in DOMAIN latest \cup {f} |-> IF g = f THEN PostsOf(f) ELSE latest[g]]
  /\ IF DOMAIN latest' = followings /\ \A g \in followings : latest'[g] # {}
       THEN /\ view' = "feed" /\ builtAt' = now
            /\ shown' = {p \in UNION {latest'[g] : g \in followings} :
                           Visible(p.date, now + Zone[Reader])}
       ELSE UNCHANGED <<view, shown, builtAt>>
  /\ UNCHANGED <<now, following, outbox, posts, followings, failed, edits, faults>>

\* A query's first answer, or one that has changed; the screen is built again
\* once there is an answer from every one.
Emit(f) ==
  /\ Listening(f)
  /\ f \in DOMAIN latest => latest[f] # PostsOf(f)
  /\ latest' = [g \in DOMAIN latest \cup {f} |-> IF g = f THEN PostsOf(f) ELSE latest[g]]
  /\ IF DOMAIN latest' = followings
       THEN /\ view' = "feed" /\ builtAt' = now
            /\ shown' = {p \in UNION {latest'[g] : g \in followings} :
                           Visible(p.date, now + Zone[Reader])}
       ELSE UNCHANGED <<view, shown, builtAt>>
  /\ UNCHANGED <<now, following, outbox, posts, followings, failed, edits, faults>>

\* A query ends with an error: the snapshot of the builder has no data then.
QueryFails(f) ==
  /\ Listening(f)
  /\ faults < MaxFaults
  /\ faults' = faults + 1
  /\ failed' = failed \cup {f}
  /\ view' = "none" /\ shown' = {}
  /\ UNCHANGED <<now, following, outbox, posts, followings, latest, builtAt, edits>>

-----------------------------------------------------------------------------
Init ==
  /\ now \in Instants /\ \A t \in Instants : now <= t
  /\ following \in SUBSET Posters
  /\ outbox = {} /\ posts = {}
  /\ view = "closed" /\ followings = {} /\ latest = [f \in {} |-> {}] /\ failed = {} /\ shown = {}
  /\ builtAt = now
  /\ edits = 0 /\ faults = 0

Next ==
  \/ \E u \in Posters : PostDiary(u) \/ ChangeFollowing(u) \/ Emit(u) \/ QueryFails(u)
  \/ \E p \in outbox : Deliver(p)
  \/ \E t \in Instants : Tick(t)
  \/ OpenHome \/ CloseHome \/ GetPosts \/ GetPostsThrows

\* Reads and queries are answered.
Fairness == WF_vars(GetPosts) /\ \A u \in Posters : WF_vars(Emit(u))

Spec == Init /\ [][Next]_vars /\ Fairness

-----------------------------------------------------------------------------
\* Every variable holds a value of its kind, and queries answer about their user.
TypeOK ==
  /\ now \in Instants /\ builtAt \in Instants /\ builtAt <= now
  /\ following \subseteq Posters /\ followings \subseteq Posters
  /\ outbox \subseteq Post /\ posts \subseteq Post /\ shown \subseteq Post
  /\ view \in Views
  /\ DOMAIN latest \subseteq followings /\ failed \subseteq followings
  /\ \A f \in DOMAIN latest : latest[f] \subseteq Post /\ \A p \in latest[f] : p.by = f
  /\ edits \in 0..MaxEdits /\ faults \in 0..MaxFaults

\* How much later than its author's clock said a reader's device takes a post
\* to be: the difference of their zones, and a day in the hour after midnight.
Delay(p) == (Zone[p.by] - Zone[Reader]) + IF Hour(p.at + Zone[p.by]) = 0 THEN 86400 ELSE 0

Age(p) == builtAt - p.at

\* What Format, Parse and the filter of HomeTab make of a date: a post is on the
\* screens that are built less than 24 hours before or after the time it is
\* taken to be made at, whatever the zones.
FeedWindow ==
  \A p \in shown : Age(p) > 0 /\ Age(p) > Delay(p) - 86400 /\ Age(p) < Delay(p) + 86400

\* And no other post is hidden: a screen whose queries are up to date shows
\* every post by a followed user in that window.
RecentPostsShown ==
  view = "feed" /\ (\A f \in followings : latest[f] = PostsOf(f)) =>
    \A p \in posts :
      p.by \in followings /\ Age(p) > Delay(p) - 86400 /\ Age(p) < Delay(p) + 86400 => p \in shown

SameZone(p) == Zone[p.by] = Zone[Reader]

\* "Viewable for 24 hours": no post is built into the feed after that.
ViewableFor24Hours == \A p \in shown : SameZone(p) => Age(p) < 86400

\* A feed that waits for its queries is shown in the end, whether or not the
\* followed users have posts, unless it is closed.
FeedAppears == view = "waiting" ~> view # "waiting"

-----------------------------------------------------------------------------
\* A post carries the date its author's clock showed.
Dated(p) == /\ p.by \in Posters /\ p.at \in Instants
            /\ p.date = Format(p.at + Zone[p.by])

OnScreen(p) == Visible(p.date, builtAt + Zone[Reader])

\* FeedWindow and RecentPostsShown made inductive: where posts come from, and
\* what the last build made of the queries' answers.
FeedInv ==
  /\ now \in Instants /\ builtAt \in Instants
  /\ \A p \in outbox : Dated(p)
  /\ \A p \in posts : Dated(p) /\ p.at < now
  /\ \A f \in DOMAIN latest : \A p \in latest[f] : Dated(p) /\ p.at < now /\ p.by = f
  /\ \A p \in shown : Dated(p) /\ p.at < builtAt /\ OnScreen(p)
  /\ view = "feed" =>
       /\ DOMAIN latest = followings
       /\ \A f \in followings : \A p \in latest[f] :
            p.at < builtAt /\ (OnScreen(p) => p \in shown)

\* TypeOK made inductive: a State that does not listen has no answers, so the
\* answers there are belong to the list that getPosts read.
FeedTypeInv ==
  /\ TypeOK
  /\ view \in {"closed", "loading", "stuck"} => DOMAIN latest = {} /\ failed = {}
=============================================================================
