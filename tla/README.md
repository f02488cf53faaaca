# Feelings Overflow: TLA+ specification, model checking and proofs

Feelings Overflow is a diary-sharing app: Flutter screens (`lib/`, 4558 lines of Dart) over
Firebase (authentication, Firestore, storage), and one cloud function (`functions/src/index.ts`).
There is no server code of its own and no transaction anywhere: every screen reads and writes the
shared Firestore documents directly, most calls are asynchronous, and many are not awaited. The
hard part of the system is therefore what happens between two awaits, on several devices at once.
That is what these modules model.

The other 99% of the repository (`ios/Pods`, `android`, assets) is vendored, generated or
configuration. One part of it carries weight for the app: the Firestore SDK, vendored in C++ under
`ios/Pods/FirebaseFirestore`, whose queue of writes is what keeps un-awaited writes in order,
retries them and outlives the app. Its write path is modelled and shown to implement the queue
that the modules of the app assume.

## 1. Inventory

| Component | State | Operations | Hard behaviour | What makes it correct |
|---|---|---|---|---|
| Follow protocol (`firebase_methods.dart` 137-225) | arrays `followers`, `following`, `requests` of the `users` documents | `requestFollow`, `stopFollow`, `followUser` (a toggle) | read, await, then one or two awaited writes without a transaction; exceptions caught and printed | edges only by request and consent; the two lists agree; requests are recorded and resolved |
| Profile of another user (`other_user_profile.dart`) | `isFollowing`, `requestSent`: a snapshot | `getData`, buttons Unfollow, Request Sent, Follow | stale snapshot, un-awaited calls, setState after an await | the button agrees with the documents at rest |
| SearchTab | three parallel lists of requests, `isShowUsers` | `getRequests`, accept, decline, search | awaited loop, early return, failing await; one list edited without the others | rows name the user they act on |
| Follower and following screens | three parallel lists | `getFollowers`, `getFollowing` | awaited loop, failing await | as above; the loading icon goes away |
| Posting (`postDiary`, `postCard`) | collection `posts` of the poster | add, not awaited | the SDK's queue; the date is made on the device | the post carries the time of the tap |
| Home feed (`HomeTab.dart`, `getPosts`) | followed users, their queries, the built list | load, query answers, filter | one slow query hides all; dates, zones, the 24-hour boundary | recent posts shown, old ones not |
| Diaries (`MyDiariesTab/`) | collection `personal_diaries`, the Navigator's stack | create, edit (on back), delete | a pop in the callback of a write, double save, two devices, update of a deleted document | texts do not go back, deleted diaries stay deleted, the creator closes itself only |
| Account (`login_screen`, `register_screen`, sign-out) | signed-in user, the routes, spinner | register, login, sign out | document written without await after the account exists; an answer after its screen is gone; a dashboard that stays between the sign-out and the pop | an account has a document; a profile is not reset; the dashboard is that of the signed-in user |
| Own profile (`ProfileTab`, `edit_profile_screen`, `image_functions`) | username, bio, picture | edit form, picture upload | decides from a read what to write, asks twice who is signed in, failures swallowed | a bio is emptied only on purpose |
| Snippet editor (`snip_screen`, `font_cards`, `selection_word`) | chosen text, font, background | choose, format, post | the controller is rebuilt on every build | the posted card is the chosen one |
| Post reader, feed cards | poster's name and picture | one read | not caught | loading ends |
| Notification function (`index.ts`) | none | `sendPostNotification` | at-least-once trigger, limits of the `in` query, no client saves `fcmToken` | each follower notified |
| Firestore SDK, writes (`core/`, `local/`, `remote/` of `FirebaseFirestore`) | mutation queues in LevelDB, callbacks, write pipeline, stream, tokens | queue, send, acknowledge, reject, restart, change of user | lost answers, replies that do not name their write, users that change under a token, ids given out again, a bounded pipeline, the idle timer | the queue is sent in order, as its owner, until it is empty |
| Dashboard, design widgets, JSON coding | selected tab | display | none | not modelled |

The components interact only through Firestore and through navigation: SearchTab and the two list
screens open profiles; the profile and SearchTab call the three follow methods; `followUser`
decides whose posts the feed listens to; posting feeds the queries of HomeTab and triggers the
cloud function; registration makes the documents all of them read. Every write goes through the
SDK's queue of its device.

## 2. Modules

| Module | Models |
|---|---|
| `Follow` | the follow protocol, the profile screen and the request rows, on any number of devices |
| `FollowHistory` | `Follow` with history variables: who asked, who approved, whose lists are torn, whose request was answered before its call ended |
| `FollowProofs` | theorems about both |
| `UserRows` | the load and the rows of SearchTab, FollowerScreen and FollowingScreen |
| `UserRowsProofs` | theorems about it |
| `FeedTime` | the date format of a post, its parsing, and the filter |
| `Feed` | posting, the queries, HomeTab |
| `FeedProofs` | theorems about both |
| `WriteQueue` | the abstract specification of the SDK's writes: what the app relies on |
| `WritePipeline` | how the vendored SDK implements it |
| `WriteQueueProofs` | theorems about `WriteQueue` |
| `WritePipelineProofs` | theorems about `WritePipeline`, and that it implements `WriteQueue` |
| `Diary` | the creator, the editor and the list of diaries, on several devices |
| `DiaryProofs` | theorems about it |
| `DiaryViewProofs` | the theorem about what a device shows of a diary, with the lemmas about queues it needs |
| `Account` | registration, login, sign-out, the profile form and the picture |
| `AccountProofs` | theorems about it |
| `MCFollow`, `MCFollowHistory`, `MCFeed`, `MCAccount` | instances for TLC (the others need none) |

### Follow

The arrays of the documents are sets, because the code changes them with `arrayUnion` and
`arrayRemove` only. `calls` holds the calls of the three methods that are in flight. A call's `pc`
is the await it is suspended at (`get`, `update`, `update2`, or `return` to the handler that awaits
it), and there is one action per await that is over: `RequestFollowGet`, `RequestFollowUpdate`,
`StopFollowGet`, `StopFollowUpdate`, `FollowUserGet`, `FollowUserUpdateFollowers`,
`FollowUserUpdateFollowing`, `UnfollowReturns`. A write is applied in a step of its own before that
(`ServerApplies`, after which the call is `sent`), so other devices can change the documents, and
read them, between the write of a call and its answer. `CallThrows` is an exception at any await: each
method catches it and returns. `seen` is the local result of `following.contains(followId)`, which
decides both writes of `followUser`. A screen is its snapshot (`isFollowing`, `requestSent`,
`requestsUid`); the taps are the handlers of the buttons; `CloseProfile` leaves calls running and
takes away the effect of the `setState` after an await. Users in `Legacy` have a document without
`requests`, which both methods treat on a branch of its own.

The Firestore SDK appears here as what `WriteQueue` promises, restricted to the calls in flight:

- the writes of a device are queued (`seq`), applied in order (`IsNext`) and answered in order
  (`IsFirst`), and the queue outlives the app: after `KillApp` the queued write is still sent, but
  the call does not go on;
- `AnswersLost`: the connection of a device breaks with the answers on their way; the writes they
  were for are applied again later, after whatever other devices have written in between;
- a read returns the server's document with the device's own queued writes applied (`Reads`);
- reads are answered in any order.

Reads from an offline cache that is behind the server are not modelled, nor two taps handled in
one frame before the rebuild. `LoadRequests` takes one step because rows appear only when the load
is over, and nothing but the first read decides which; the loop itself is in `UserRows`.

### UserRows

A screen's load is one step per await: the array, then a name and a picture for each uid, then (in
SearchTab) the user's own name. A name is represented by the uid it belongs to. `Built` is what
the build method makes of the lists: every row indexes all three by position, so shorter lists of
labels give a RangeError. `TapRow` is accept or decline: it removes the uid from `requestsUid` and
from nothing else. `ArrayUnion` and `ArrayRemove` are the follow methods, on any device.

### FeedTime and Feed

Times are seconds. `Format` is `DateFormat('yyyy-MM-dd kk:mm:ss')`, in which hours run from 1 to
24; `Parse` is `DateTime.parse`, in the reader's local time; `Visible` is the filter of HomeTab
with its truncation to whole minutes and its absolute value. In `Feed`, a post is made on a device
with the local date, waits in the SDK's queue (`outbox`) and reaches the collection later.
HomeTab reads the followed users once (`GetPosts`), waits until each of their queries has answered
(`CombineLatestStream`), and rebuilds on every later answer (`Emit`). A failing read of the user's
document leaves the loading icon (`stuck`), a failing query gives a snapshot without data, until
another query answers. Posters and reader may be in different zones: `Delay` is how far a date
without a zone is off on the reader's device. Clock skew between devices and changes of an offset (daylight saving) are
not modelled, nor are two posts of one user in one instant.

### WriteQueue and WritePipeline

`WriteQueue` says what the app gets from the SDK: a queue of writes for each user of a device, of
which the current user's is sent from its first write on; the server applies the writes in order
(`Apply`), answers take the first one off (`Acknowledge`, `Reject`), and after a lost connection, a
change of user or a kill the queue starts again (`Retry`, `SignIn`, `Restart`), so that a write may
be applied more than once. `told` is what the caller of a write knows.

`WritePipeline` is the code that does it. `queue` is the LevelDB of `LevelDbMutationQueue`,
`callbacks` belongs to `SyncEngine`, the record `s` holds `RemoteStore`'s write pipeline, the
fields of `Stream` and `WriteStream` and the connection. Functions on `s` have the names of the
methods (`FillWritePipeline`, `AddToWritePipeline`, `Start`, `Close`, `RestartNetwork`, ...), and
each action is one task of the SDK's worker queue (`WriteMutations`, `ResumeStart`, `OnStreamRead`,
`ReadStatus`, `IdleTimeout`, `HandleCredentialChange`, `Initialize`) or one event outside
(`GetToken`, `ServerAnswers`, `ServerEnds`, `ConnectionLost`, `ConnectivityChanged`,
`AuthStateChanged`). Tokens arrive late and are matched by the stream's close count; the batch ids
start from the largest one left in the database, so that an id is given out again once the queues
are empty. `HARD_ASSERT`s are not guards of the model: they are checked (`Assertions`,
`PipelineIsPrefix`, `RepliesMatch`).

Assumed of the server: it ends a stream with an error only, and a request it has not read when the
stream ends is not applied later. The stream token, the Healthy state, the length of the backoff
and the watch stream are left out. An `Aborted` write is retried, as in the code; a permanent error
rejects the first write of the pipeline, which the server may have applied in an earlier attempt
(`Reject` of `WriteQueue` allows it).

### Diary

One user on several devices. A text is a number, larger than those typed before; `hist` holds the
versions of a document on the server, and a device knows one of them and shows it with its own
queued writes applied (`View`). Each screen's handlers are actions: `SaveNew`, `LeaveCreator`,
`ArrowBack` (which saves, changed or not), `SystemBack` (which does not), the delete dialog.
`Rebuild` is the framework building the editor again, with a new controller. The save button stays
enabled while its write is pending, and the callback of the write pops the top route, whichever it
is, while the creator is mounted: `leaving` holds creators whose closing animation still runs.

### Account

Firebase Auth, Firebase Storage and the SDK's queue for each user and device, under the screens.
Sign Up is `createUser`, then the first write of the document without await, then a login; each of
these can be answered after its screen was left, fail, or be cut off between the account and the
document (`torn`).

Sign Out takes three steps: the tap (`TapSignOut`), Firebase Auth that signs out whoever is signed
in by then (`AuthSignsOut`), and the rest of the handler (`SignOutReturns`), which pops whatever
route is on top and pushes the login. Until then the dashboard is there, with nobody signed in:
Sign Out can be tapped again, the form opened, a picture chosen. `outs` holds the handlers, each
with the place of its dashboard among the routes (`home`, 0 once that is popped: the handler then
throws, `SignOutThrows`). `screen` and `shown` are the top of the Navigator's stack and `below` the
logins and dashboards under it: a handler that pops the form leaves its dashboard there, and
`GoBack` (or `LogInLeft`, while a login is awaited) brings it up again, for whoever is signed in.
`late` collects the devices where the answer of a Sign Up or a Sign Out came to another screen than
it was asked on; a later sign-out that leaves nothing under the login takes a device off, and so
does a restart.
 `ChangeDetails`, `Retype` and `FormRead` are the form, which reads the
document, decides by `Patch` which fields to write, and asks again who is signed in; `SelectImage`,
`Uploaded` and `GotURL` are the picture, whose failures are caught and written as an empty URL.
`friends` stands for the three lists of `Follow`, so that a reset of the document is seen.

Left out: the moment between the sign-in by Auth and its return to Dart in Sign Up and Log In (they
are one step; their screens offer nothing that asks who is signed in); a signOut that throws, which
leaves everything as it was; other screens than the form pushed over the dashboard while Sign Out
is awaited; the back button on the last route, which leaves the app; a second Sign Up on a device
while one is awaited; a Sign Up for an account that exists
(it throws and changes nothing); refusals other than that of an update of a missing document; the
animation of a pop, which `Diary` has.

## 3. Runs

| Run | Instance | Checks | Result |
|---|---|---|---|
| `follow_safety` | 2 users, a device each, 3 calls at a time, 2 taps, 1 fault | `TypeOK`, `NoSelfFollow`, `EverApproved`, `EverAsked`, `AgreeUnlessTorn`, `RequestRecorded` | holds (0.5 million states) |
| `follow_liveness` | 1 device, 2 calls at a time, 3 taps, 1 fault | `SymmetricWithoutFaults`, `StopFollowResolves`, `UnfollowSettles` | holds |
| `follow_symmetric` | 2 devices of one user, 2 calls at a time, 3 taps, no fault | `SymmetricWhenQuiet` | violated |
| `follow_legacy` | 1 device, a target without `requests` | `RequestRecorded` | violated |
| `follow_offered` | 1 device, 2 taps, no fault | `FollowOffered` | violated |
| `user_rows` | 3 users, 1 fault, 2 changes of the array | `TypeOK`, `RowsNamedUntilEdited`, `BuildsUnlessFault`, `LoadingEnds` | holds |
| `user_rows_names` | 2 users, no fault | `RowsNamed` | violated |
| `feed` | 2 posters in 2 zones, 2 posts, 8 instants, 1 change of the list, 1 fault | `TypeOK`, `FeedWindow`, `RecentPostsShown`, `FeedAppears` | holds (1.7 million states) |
| `feed_expiry` | 1 post | `ViewableFor24Hours` | violated |
| `write_pipeline` | 2 users on a device, 3 writes, a pipeline of 2, 2 faults | `TypeOK`, `PipelineIsPrefix`, `RepliesMatch`, `Assertions`, `SentAsOwner`, `FinalOrder`, `ImplementsQueue`, `NoLateApply`, `QueueDrains` | holds (0.1 million states) |
| `diary` | 2 devices, 2 diaries, 2 texts, 2 screens, 1 fault | `TypeOK`, `DashboardStays`, `ViewOnlyAdvances`, `NoResurrection`, `CreatorCloses` | holds (0.2 million states) |
| `account` | 2 users, 2 devices, 3 taps, 2 handlers of Sign Out, 1 form or picture, 1 fault | `TypeOK`, `AccountHasDocument`, `DashboardOfSigned`, `ProfileKept`, `BioKept` | holds (1.5 million states) |

What the runs that hold show:

- **Consent.** `followUser` is a toggle called from stale screens, so it may unfollow where it was
  meant to follow and the other way round. Still, an edge exists only between users of whom one
  once asked and the other once accepted (`EverAsked`, `EverApproved`).
- **Agreement.** The lists `followers` and `following` disagree on a pair only between the two
  writes of a toggle, or while its first write is to be sent again, unless toggles that read
  different things overlapped or a toggle lost its second write to a fault (`AgreeUnlessTorn`). On
  one device the SDK's queue is enough to prevent it (`SymmetricWithoutFaults`): it keeps the first
  and the second writes of all toggles in the same order, so the last ones belong together.
- **Requests.** When a `requestFollow` ends, its request is in the list, or an earlier one is on its
  way there; only a cancel, an accept or a decline that the server applied after the request, while
  the call still waited for its answer, makes it end without (`RequestRecorded`). A request that is
  cancelled, accepted or declined goes away, faults aside (`StopFollowResolves`).
- **Lists.** Rows are labelled correctly and can be built until one is answered or an await throws;
  the loading icon of the follower and following screens goes away even then (`LoadingEnds`).
- **Feed.** A post is shown while the reader's clock is less than 24 hours from the time the reader
  takes it to be made at: for 24 hours in the poster's own zone (48 in the hour after midnight),
  shifted by the difference of the zones elsewhere, so that a post from a zone far enough ahead
  appears late and leaves late.
- **Writes.** The pipeline implements the abstract queue (`ImplementsQueue`). A reply does not say
  which write it is for, and is still taken for the right one (`RepliesMatch`); a write is sent
  with the token of the user who made it, also when the user changes while a token is fetched
  (`SentAsOwner`); ids that are given out again are never mistaken (`PipelineIsPrefix`); the queue
  drains (`QueueDrains`).
- **Diaries.** On a device that is alone in editing a diary the text shown never goes back, though
  old writes are applied again and listeners lag (`ViewOnlyAdvances`). An editor that is closed
  after a delete does not bring the diary back; only the unanswered write that made it can
  (`NoResurrection`). The creator pops a route that is not its own only if it was left with a write
  pending (`DashboardStays`).
- **Accounts.** An account has a document or one on its way, unless its registration was cut off
  (`AccountHasDocument`). A profile whose first write was answered is not reset (`ProfileKept`);
  before the answer, a lost connection makes the SDK write it once more over all that happened in
  between. A dashboard, and the form over it, is that of the signed-in user, or nobody is signed in
  and a handler of Sign Out asked on this dashboard is about to leave it (`DashboardOfSigned`). The
  exceptions are the devices in `late`: a registration answered after its screen was left signs in
  its user under the dashboard of another; a form opened while Sign Out is awaited is popped in
  place of the dashboard, which stays under the login; a second tap on Sign Out answered after the
  first has left, and the next user has logged in, signs that user out.

What the runs with a violation show (each is a finding of `PROJECT.json`):

- `follow_symmetric`: a user with two devices taps Unfollow three times; the calls read different
  lists, and their writes reach the two documents in different orders.
- `follow_legacy`: `'request'` is written in place of `'requests'`.
- `follow_offered`: Follow, then Request Sent before the first read is answered: `stopFollow` finds
  no request yet and does nothing, and the request is recorded after it.
- `user_rows_names`: an answered request leaves its name and picture behind, for the row below.
- `feed_expiry`: `kk` writes half past midnight as 24:30 of the same day, which is parsed as the
  next day.

### Bounds

The bounds are the constants named `Max...`, `CallIds` and `Instants`, and the constraints of
three runs: `ScreensOfUse` of `MCFollow` (no profile is opened any more once no tap is left; in
`follow_safety` and `follow_symmetric`) and `Explored` of `MCAccount` (below).

- Two users are enough for the follow protocol because no action relates three: every list entry is
  a pair. An accept needs two calls and an unfollow a third to race with it, hence three calls in
  `follow_safety`; races of one device with itself need two.
- `MCInstants` has half past midnight and four in the afternoon of a day, which is midnight for the
  far poster, and the two seconds around each change of what is shown: the far post appears, the
  near one leaves after 24 hours, the one of half past midnight after 48. Both sides of each
  boundary of the filter occur.
- `write_pipeline` has more writes (3) than the pipeline holds (2, in place of the code's 10), so
  that it is full and is filled again; two faults make a retry fail, or a user go and come back.
- `diary` has two screens on two devices: a creator and an editor, or two editors of one diary; two
  saves of one creator; one fault for a lost answer, a kill or a rebuild.
- `account` has three taps: a registration, and a login and another on the other device. One user
  has registered before, so that forms run from the first step on. Two handlers of Sign Out on a
  device are what it takes for one to sign out the next user. `Explored` keeps them, and old routes
  (one at most), to one device at a time, and leaves fewer taps and no fault to the cases with a
  form or a picture besides; the proofs have none of these bounds.

Names of calls are symmetric, and in `follow_safety` the two users, each together with their
device; in `account` the devices. The runs with liveness use no symmetry. Deadlock is checked except in `write_pipeline` and `diary`, where the bounded users
may have nothing left to do and everything is answered.

### Fairness

Only answers are fair. In `Follow`, `UserRows` and `Feed` every read and write that was started is
answered in the end (by success; exceptions are allowed but not required). For writes this is what
`write_pipeline` shows of the SDK (`QueueDrains`), from weaker assumptions: Auth answers every
request for a token, the server every request of an open stream, the worker queue runs its tasks
and timers, and faults are finitely many. `Diary` assumes of the SDK that it goes on sending.
Users never have to tap, open or close anything, apps need not be killed, and no fairness is
assumed of time. `StopFollowResolves` excuses a fault, `UnfollowSettles` does not: the
handlers get control back even when an await throws.

## 4. Proofs

All are checked by TLAPS for every value of the constants, from the assumptions named in the
modules: every device has an owner among the users, `Legacy` are users, `NoUser` is not, bounds
are naturals (there may be a diary at least), the `None` of a missing document is not a profile, offsets and instants are integers, the listed users
are finite.

- `FollowProofs!TypeCorrect`: `Spec => []TypeOK`. Inductive as it is, once it says that calls have
  different names.
- `NoSelfFollowing`: by `NoSelfInv`, which adds that no call in flight and no request row is about
  one user only. The test in the build method gives it for new calls, and the documents for rows.
- `EdgesApproved`, `EdgesAsked`: by `HistoryInv`. An edge comes from a call, a call from a snapshot
  (a button or a row) and a snapshot from the documents, so each of them must carry the history:
  who is in the lists, in a request, in flight, on a screen.
- `ListsAgree`: by `TogglesAgree`. Off the torn pairs, all toggles of a pair that have read are
  alive and have read the same, and one that is between its writes has left the followers list as
  it wants it; so its last write makes the lists agree whichever other toggles run. A lost answer
  puts a toggle between its writes without its knowing (`resent`, `Halfway`): what it sends again
  is what it sent, so the argument stays.
- `OneDeviceSymmetric`: with one device, `Spec => []SymmetricWithoutFaults`. `SymmetricWithoutFaults`
  speaks of rest only; `SecondsAgree` says what holds before: of the second writes of a pair that
  are in flight, the last in the queue agrees with the followers list, and without any the lists
  agree. A toggle that makes its first write becomes the last one, because no write of the queue
  overtakes another (`QueuesOrdered`). Between the server's step and the answer of a first write
  the toggle has no second one yet, but will queue it behind all others: such toggles are the last
  ones of their pair (`Latest`, `TogglesInStep`). Two devices have two queues, and the statement is false
  (`follow_symmetric`): hence the hypothesis.
- `RequestsRecorded`: if all documents have the field `requests` (`Legacy = {}`; otherwise the run
  `follow_legacy` refutes it), `HSpec => RequestRecorded`. By `RequestsStay`: from the moment the
  server has added a request until the call has its answer, the request is in the list or a
  `stopFollow` for the same pair was applied since (`removed`), whatever the other calls, resent
  writes and kills do. It also needs that no `requestFollow` is awaited by a handler, so that it
  ends in its own step (`AwaitedByUnfollow`).
- `UserRowsProofs!RowsTypeCorrect`: `TypeOK`, inductive with the stages of the load (`RowsInv`).
- `UserRowsProofs!RowsNamedTheorem`, `BuildsTheorem`: by `RowsInv`, which says how long the three
  lists are at each await, and that what is loaded so far matches.
- `FeedProofs!RoundTrip` and `VisibleWindow` are arithmetic: what parsing a formatted date gives,
  and that the filter in minutes is the same as one in seconds. `WindowTheorem` and
  `RecentPostsTheorem` follow from them and from `FeedInv`, for any zones: posts carry the date of
  their author's clock, and the last build showed exactly what the filter lets through.
- `FeedProofs!FeedTypeCorrect`: by `FeedTypeInv`, which adds that a feed without listeners has no
  values of an earlier one.
- `DiaryProofs!DiaryTypeCorrect`, `DashboardStaysCorrect`, `NoResurrectionCorrect`: by `DiaryInv`.
  Versions that a cache or an unanswered write refers to exist (`VersionsExist`), so that what is
  read is always a content the diary has had. While no creator was left with a write pending, the
  dashboard is the first route, nothing is on its way out and a dialog has an editor below it
  (`RoutesInPlace`): every pop then finds a route of its own. `NoResurrection` is a property of
  steps: an update that is applied to a deleted diary is refused, so only an `add` can bring one
  back.
- `DiaryViewProofs!ViewOnlyAdvancesCorrect`: by `ViewInv`, for every device and the diaries that are
  written on it only (`Sole`; where two devices write, their texts have no common order).
    - `ViewsSettled`: the device's queue makes the same of every version of the document that the
      listener or an answer may still bring. So a snapshot never changes what is shown, nor does
      the server when it applies a write, though the queue is then applied a second time to its
      own result.
    - `SentLast`: the version that a sent write has become, and all later ones, are texts of sent
      writes, and what exists after a sent delete was added by a later one. It is needed when an
      answered write leaves the queue: what the writes behind it make of those versions must not
      depend on it. A lost answer only empties `sent`.
    - An update is refused, or answered without the device learning the version, only where a
      document is missing; then the writes behind it overwrite what it did, or there was nothing
      (`UpdateAbsorbed`).
    - `EditorCurrent`: an editor holds nothing older than what is shown. The arrow saves its text
      however long ago it was opened, and a rebuild brings back the text it was opened with; both
      are harmless only because no other screen of the device writes under an open editor, which
      is what `StacksKept` says (one editor at most, and the writers leave none behind).
    - `TextsTyped`: texts were typed and diaries made before they are used, so a new text is later
      than all others and a new diary has no document yet.

  What the queue makes of a document, `Overlaid`, is a recursive function on the length of the
  queue. `UpTo` is induction stated about a set of naturals; from it follow what one more write does
  at the end (`OverlaidAppend`), what the first one does (`OverlaidTail`), and that one add or delete
  in the queue makes the same of everything (`OverlaidSame`).
- `WriteQueueProofs!AcknowledgedInOrder` and `OnlyQueuedApplied`: for any users and any number of
  writes, faults and changes of user, an acknowledged write is on the server for good and after
  the earlier ones of its user, and nothing is applied that has left the queue. By `QueueInv`: the
  queues are sorted, nothing older than an acknowledged write is still queued, and the writes
  applied and not yet answered are in order among themselves. Without the second part a resent
  write could overtake an acknowledged one; without the third an acknowledgement could confirm a
  write that an older one has overtaken.
- `WritePipelineProofs`: for any users, length of the pipeline and number of writes and faults, the
  five invariants of the run (`PipelineTypeCorrect`, `PipelineIsPrefixCorrect`,
  `RepliesMatchCorrect`, `AssertionsCorrect`, `SentAsOwnerCorrect`), by one inductive invariant,
  `PipelineInv`, which says how five structures that are changed at different times fit together:
    - `QueuesKept`: rows are sorted by id and by write, belong to their user, and the next id is
      larger than any in use, although ids of answered rows are given out again;
    - `StreamKept`: the pipeline is a prefix of the queue, and what is on the connection (replies,
      the request at which the server ended the stream, requests) is the pipeline in its order
      (`Matching`). This is why a reply without an id can be taken for the first write;
    - `TokensKept`: while a stream starts exactly one answer of Auth is still wanted, all others
      are for streams that were closed since;
    - `OwnersKept`: a token on the worker queue is that of the user who will be current when the
      worker comes to it: the change of user is queued before the tokens that follow it;
    - `CallbacksKept`: the callbacks are those of the queued writes whose caller still waits.
- `PipelineImplementsQueue`: `Spec => ImplementsQueue`, the refinement, step by step. `WriteMutations` maps to `Submit`,
  `ServerAnswers` to `Apply`, `OnStreamRead` to `Acknowledge`, the end of a stream to `Reject` or
  `Retry` by its code, `HandleCredentialChange` to `SignIn` and `Initialize` to `Restart`; the
  handshake, the tokens and the timers to a stutter, or to `Retry` where they close a stream that
  had sent something. `PipelineFinalOrder` and `PipelineNoLateApply` carry the two theorems about the
  abstract queue to the pipeline.

- `AccountProofs`: the five properties of the run, for any users, devices and bounds, by one
  inductive invariant, `AccountInv` (`AccountInvariant`). Its steps are grouped by what they do to
  the queues: leave them alone, append a write, take one off, or let the server apply one.
    - `HandlersKept`: a call that is still awaited belongs to an account, and only one whose screen
      is still there is mounted; an answer that comes after its screen is gone does not open a
      dashboard. Its part `RoutesKept` is about the stack: old routes are left by late answers
      only, and a handler of Sign Out has lost its dashboard, belongs to an old one, or to the one
      on top. So on a device that is not in `late` a sign-out that is answered is one of the top
      dashboard, which the same handler will leave: `DashboardOfSignedCorrect`.
    - `WritesKept`: queued writes are about accounts, and what was sent and not answered is about
      documents that exist.
    - `RegisteredOnce`: a user's first write is in a queue of that user, at most once over all
      devices, and neither queued nor to be queued once it was answered. `AccountHasDocumentCorrect`
      and `ProfileKeptCorrect` follow: whatever is applied to a document after the answer is an
      update, and none of them touches the lists or brings the default picture back.
    - `NamesKept`: the names of documents, caches and sent writes are names the document has had,
      and a queued write that empties a bio comes from a form that read such a name, or one that the
      writes before it in the queue give (`Emptied`). `BioKeptCorrect` needs the second half: a form
      may read a name that is only queued, and by the time its own write is applied the writes
      before it have been.

  What a form reads is `View`, the cache under the queued writes, a recursive function on the length
  of the queue. `SetInduction` is the induction principle as a statement about a set of naturals,
  which needs no operator parameter; `ViewUnfolds` and `ViewNamed` follow from it.

Every invariant and every safety property of steps that a passing run checks is stated by a theorem
(`SymmetricWithoutFaults` for one device, `RequestRecorded` where all documents have the field).
Only model-checked: the liveness properties (`StopFollowResolves`, `UnfollowSettles`, `LoadingEnds`,
`FeedAppears`, `QueueDrains`, `CreatorCloses`), which are out of the prover's reach.

## 5. Plan

1. The queues of `Diary` and `Account` are written as `WriteQueue` says (`sent` is what was applied
   and not answered), but no theorem says so: a refinement of each to `WriteQueue`, with a history of
   the writes, would carry `AcknowledgedInOrder` to them as `PipelineImplementsQueue` does to the
   pipeline.
2. `ViewOnlyAdvances` for `Account`: the profile a form reads, while its user is signed in on one
   device. The lemmas about `Overlaid` are the same; the writes are of single fields.

### Not modelled

- Layout, wording, design widgets, rich-text contents and their JSON, the order of the cards, the
  choices in the snippet editor, and the post reader (one read): no shared state and no order of
  events decides anything there. Posting a snippet is in `Feed`.
- The notification function: a stateless trigger. No client writes the `fcmToken` it looks for, so
  it finds nobody to notify, however often it runs.
- The watch stream of the SDK, with its targets, queries, indexes and the garbage collection of
  the cache: the modules of the app say what a read or a listener may return.
- gRPC, BoringSSL, abseil, leveldb, nanopb and the other pods: third-party libraries whose logic is
  not the app's. Firebase Auth and Storage are modelled from how the app uses them.
