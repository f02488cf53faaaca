----------------------------- MODULE FeedProofs -----------------------------
(***************************************************************************)
(* Proofs about the dates of posts and about Feed, for all times, zones    *)
(* and numbers of users.                                                   *)
(***************************************************************************)
EXTENDS Feed, TLAPS

\* A date that is written and parsed again is the same time, except in the
\* hour after midnight, where it is the same time of the next day.
LEMMA RoundTrip ==
  ASSUME NEW t \in Int
  PROVE  Parse(Format(t)) = IF Hour(t) = 0 THEN t + 86400 ELSE t
BY DEF Parse, Format, Hour

\* The filter compares with 24 hours, exactly and in both directions.
LEMMA VisibleWindow ==
  ASSUME NEW date, NEW t \in Int, Parse(date) \in Int
  PROVE  Visible(date, t) <=> (Parse(date) - t < 86400 /\ t - Parse(date) < 86400)
BY DEF Visible, Minutes

\* The initial states satisfy the invariant.
LEMMA InitInv == Init => FeedInv
BY DEF Init, FeedInv

\* Every step keeps it.
LEMMA NextInv == FeedInv /\ [Next]_vars => FeedInv'
<1> SUFFICES ASSUME FeedInv, [Next]_vars PROVE FeedInv'
  OBVIOUS
<1> USE InstantsAssumption DEF FeedInv, OnScreen
<1>1. CASE UNCHANGED vars
  BY <1>1 DEF vars, home, Dated
<1>2. ASSUME NEW u \in Posters, PostDiary(u)
      PROVE  FeedInv'
  BY <1>2 DEF PostDiary, home, Dated
<1>3. ASSUME NEW p \in outbox, Deliver(p)
      PROVE  FeedInv'
  BY <1>3 DEF Deliver, home, Dated
<1>4. ASSUME NEW u \in Posters, ChangeFollowing(u)
      PROVE  FeedInv'
  BY <1>4 DEF ChangeFollowing, home, Dated
<1>5. ASSUME NEW t \in Instants, Tick(t)
      PROVE  FeedInv'
  <2>1. \A p : Dated(p) /\ p.at < now => p.at < now'
    BY <1>5 DEF Tick, Dated
  <2> QED BY <1>5, <2>1 DEF Tick, home, Dated
<1>6. CASE OpenHome \/ CloseHome \/ GetPosts \/ GetPostsThrows
  BY <1>6 DEF OpenHome, CloseHome, GetPosts, GetPostsThrows, Dated
<1>7. ASSUME NEW f \in Posters, Emit(f)
      PROVE  FeedInv'
  <2>0. /\ now' = now /\ outbox' = outbox /\ posts' = posts /\ followings' = followings
        /\ f \in followings
    BY <1>7 DEF Emit, Listening
  <2>1. /\ DOMAIN latest' = DOMAIN latest \cup {f}
        /\ latest'[f] = PostsOf(f)
        /\ \A g \in DOMAIN latest : g # f => latest'[g] = latest[g]
    BY <1>7 DEF Emit
  <2>2. \A g \in DOMAIN latest' : \A p \in latest'[g] : Dated(p) /\ p.at < now /\ p.by = g
    BY <2>1 DEF PostsOf
  <2>3. CASE DOMAIN latest' = followings
    <3>1. /\ view' = "feed" /\ builtAt' = now
          /\ shown' = {p \in UNION {latest'[g] : g \in followings} :
                         Visible(p.date, now + Zone[Reader])}
      BY <1>7, <2>3 DEF Emit
    <3> QED BY <2>0, <2>2, <2>3, <3>1 DEF Dated
  <2>4. CASE DOMAIN latest' # followings
    <3>1. view' = view /\ shown' = shown /\ builtAt' = builtAt /\ view # "feed"
      BY <1>7, <2>0, <2>1, <2>4 DEF Emit
    <3> QED BY <2>0, <2>2, <3>1 DEF Dated
  <2> QED BY <2>3, <2>4
<1>8. ASSUME NEW f \in Posters, QueryFails(f)
      PROVE  FeedInv'
  BY <1>8 DEF QueryFails, Dated
<1> QED BY <1>1, <1>2, <1>3, <1>4, <1>5, <1>6, <1>7, <1>8 DEF Next

\* What a reader sees of a post, by its age at the build.
LEMMA SeenByAge ==
  ASSUME FeedInv, NEW p, Dated(p)
  PROVE  OnScreen(p) <=> (Age(p) > Delay(p) - 86400 /\ Age(p) < Delay(p) + 86400)
<1> DEFINE t == p.at + Zone[p.by]
           r == builtAt + Zone[Reader]
           late == IF Hour(t) = 0 THEN 86400 ELSE 0
<1>1. p.at \in Int /\ builtAt \in Int /\ Zone[p.by] \in Int /\ Zone[Reader] \in Int
  BY ZoneAssumption, InstantsAssumption DEF FeedInv, Dated
<1>2. t \in Int /\ r \in Int /\ late \in Int
  BY <1>1
<1>3. Parse(p.date) = t + late
  BY <1>2, RoundTrip DEF Dated
<1>4. OnScreen(p) <=> (Parse(p.date) - r < 86400 /\ r - Parse(p.date) < 86400)
  BY <1>2, <1>3, VisibleWindow DEF OnScreen
<1>5. Age(p) - Delay(p) = r - (t + late) /\ Age(p) \in Int /\ Delay(p) \in Int
  <2>1. Age(p) = builtAt - p.at /\ Delay(p) = (Zone[p.by] - Zone[Reader]) + late
    BY DEF Age, Delay
  <2> HIDE DEF late
  <2> QED BY <1>1, <1>2, <2>1
<1> HIDE DEF t, r, late
<1> QED BY <1>2, <1>3, <1>4, <1>5

\* A post is on the screens that are built less than 24 hours before or after
\* the time its date is parsed to, and only after it was made: at all times,
\* for all posters and readers and in all zones.
THEOREM WindowTheorem == Spec => []FeedWindow
<1>1. FeedInv => FeedWindow
  <2> SUFFICES ASSUME FeedInv, NEW p \in shown
               PROVE  Age(p) > 0 /\ Age(p) > Delay(p) - 86400 /\ Age(p) < Delay(p) + 86400
    BY DEF FeedWindow
  <2>1. Dated(p) /\ p.at < builtAt /\ OnScreen(p) /\ p.at \in Int /\ builtAt \in Int
    BY InstantsAssumption DEF FeedInv, Dated
  <2>2. Age(p) > 0
    BY <2>1 DEF Age
  <2> QED BY <2>1, <2>2, SeenByAge
<1> QED BY <1>1, InitInv, NextInv, PTL DEF Spec

\* A screen whose queries are up to date shows every post of a followed user
\* in that window.
THEOREM RecentPostsTheorem == Spec => []RecentPostsShown
<1>1. FeedInv => RecentPostsShown
  <2> SUFFICES ASSUME FeedInv, view = "feed", \A f \in followings : latest[f] = PostsOf(f),
                      NEW p \in posts, p.by \in followings,
                      Age(p) > Delay(p) - 86400 /\ Age(p) < Delay(p) + 86400
               PROVE  p \in shown
    BY DEF RecentPostsShown
  <2>1. p \in latest[p.by]
    BY DEF PostsOf
  <2>2. Dated(p) /\ (OnScreen(p) => p \in shown)
    BY <2>1 DEF FeedInv
  <2> QED BY <2>2, SeenByAge
<1> QED BY <1>1, InitInv, NextInv, PTL DEF Spec

-----------------------------------------------------------------------------
\* Every step keeps the types.
LEMMA NextTypeInv == FeedTypeInv /\ [Next]_vars => FeedTypeInv'
<1> SUFFICES ASSUME FeedTypeInv, [Next]_vars PROVE FeedTypeInv'
  OBVIOUS
<1> USE InstantsAssumption, FeedBoundsAssumption DEF FeedTypeInv, TypeOK, Views
<1>1. CASE UNCHANGED vars
  BY <1>1 DEF vars, home
<1>2. ASSUME NEW u \in Posters, PostDiary(u)
      PROVE  FeedTypeInv'
  <2>1. [by |-> u, at |-> now, date |-> Format(now + Zone[u])] \in Post
    BY DEF Post
  <2> QED BY <1>2, <2>1 DEF PostDiary, home
<1>3. ASSUME NEW p \in outbox, Deliver(p)
      PROVE  FeedTypeInv'
  BY <1>3 DEF Deliver, home
<1>4. ASSUME NEW u \in Posters, ChangeFollowing(u)
      PROVE  FeedTypeInv'
  BY <1>4 DEF ChangeFollowing, home
<1>5. ASSUME NEW t \in Instants, Tick(t)
      PROVE  FeedTypeInv'
  BY <1>5 DEF Tick, home
<1>6. CASE OpenHome \/ CloseHome \/ GetPosts \/ GetPostsThrows
  BY <1>6 DEF OpenHome, CloseHome, GetPosts, GetPostsThrows
<1>7. ASSUME NEW f \in Posters, Emit(f)
      PROVE  FeedTypeInv'
  <2>0. /\ UNCHANGED <<now, following, outbox, posts, followings, failed, edits, faults>>
        /\ f \in followings /\ view \in {"waiting", "feed", "none"}
        /\ DOMAIN latest' = DOMAIN latest \cup {f}
        /\ latest'[f] = PostsOf(f)
        /\ \A g \in DOMAIN latest : g # f => latest'[g] = latest[g]
    BY <1>7 DEF Emit, Listening
  <2>1. \A g \in DOMAIN latest' : latest'[g] \subseteq Post /\ \A p \in latest'[g] : p.by = g
    BY <2>0 DEF PostsOf
  <2>2. CASE DOMAIN latest' = followings
    <3>1. /\ view' = "feed" /\ builtAt' = now
          /\ shown' = {p \in UNION {latest'[g] : g \in followings} :
                         Visible(p.date, now + Zone[Reader])}
      BY <1>7, <2>2 DEF Emit
    <3>2. shown' \subseteq Post
      BY <2>1, <2>2, <3>1
    <3> QED BY <2>0, <2>1, <2>2, <3>1, <3>2
  <2>3. CASE DOMAIN latest' # followings
    <3>1. view' = view /\ shown' = shown /\ builtAt' = builtAt
      BY <1>7, <2>3 DEF Emit
    <3> QED BY <2>0, <2>1, <3>1
  <2> QED BY <2>2, <2>3
<1>8. ASSUME NEW f \in Posters, QueryFails(f)
      PROVE  FeedTypeInv'
  BY <1>8 DEF QueryFails, Listening
<1> QED BY <1>1, <1>2, <1>3, <1>4, <1>5, <1>6, <1>7, <1>8 DEF Next

\* The variables of HomeTab hold values of their kinds, and every answer that
\* is kept is that of a query of the list getPosts has read (the subscriptions
\* of CombineLatestStream end with their State).
THEOREM FeedTypeCorrect == Spec => []TypeOK
<1>1. Init => FeedTypeInv
  BY InstantsAssumption, FeedBoundsAssumption DEF Init, FeedTypeInv, TypeOK, Views
<1>2. FeedTypeInv => TypeOK
  BY DEF FeedTypeInv
<1> QED BY <1>1, <1>2, NextTypeInv, PTL DEF Spec
=============================================================================
