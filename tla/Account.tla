------------------------------- MODULE Account -------------------------------
(***************************************************************************)
(* Accounts and the documents that go with them: registration, login and   *)
(* sign-out, the form that edits a profile and the choice of its picture,  *)
(* for several users on several devices.                                   *)
(*                                                                         *)
(* An account is made by Firebase Auth, the user's document afterwards by  *)
(* a set that nobody awaits.  The SDK keeps a queue for each user on each  *)
(* device and sends the queue of the user who is signed in; a change of    *)
(* user makes it forget which writes it has sent (HandleCredentialChange   *)
(* of WritePipeline).  Handlers go on after the screen they belong to is   *)
(* gone, some of them ask again who is signed in, and what one of them     *)
(* pops is whatever route is on top by then.                               *)
(***************************************************************************)
EXTENDS Naturals, Sequences

CONSTANTS
  Users,     \* the accounts there may be
  Old,       \* the users who have registered before
  Nobody,    \* who is signed in when nobody is
  None,      \* no document
  Devices,
  MaxJobs,   \* bound: taps on the form's button and pictures chosen
  MaxTaps,   \* bound: taps on Sign Up and Log In
  MaxOuts,   \* bound: handlers of Sign Out on a device at a time
  MaxFaults  \* bound: answers lost and apps killed

ASSUME AccountAssumption ==
  Old \subseteq Users /\ Nobody \notin Users /\ {MaxJobs, MaxTaps, MaxOuts, MaxFaults} \subseteq Nat

\* Contents: a registered name and another one, a bio, and pictures; "" is empty.
Names    == {"", "first", "second"}
Bios     == {"", "bio"}
Pictures == {"", "default", "own"}
Profile  == [name : Names, bio : Bios, pic : Pictures, friends : BOOLEAN]

ASSUME NoneAssumption == None \notin Profile

\* What settingNewProfile writes; friends stands for the three lists.
NewProfile == [name |-> "first", bio |-> "", pic |-> "default", friends |-> FALSE]

VARIABLES
  account,   \* the users Firebase Auth knows
  doc,       \* doc[u]: the document of u on the server
  storage,   \* the users with a picture in Firebase Storage
  signed,    \* signed[d]: currentUser
  queue,     \* queue[d][u]: the writes made on d while u was signed in
  sent,      \* sent[d]: how many writes of the signed-in user the server has applied
  cache,     \* cache[d][u]: the name and bio of u as d last saw them
  screen,    \* screen[d]: the top route: register is over login, edit over dashboard
  shown,     \* shown[d]: the user the dashboard was built for
  below,     \* below[d]: the logins and dashboards left under it, the oldest first
  reg,       \* reg[d]: the handler of Sign Up and its user
  outs,      \* outs[d]: the handlers of Sign Out, in the order of their taps
  jobs,      \* the handlers of the form and of the picture, in the order of their taps
  taps, faults,
  torn,      \* history: users whose registration was cut off after the account was made
  welcomed,  \* history: users whose first write has been answered
  late,      \* history: devices with a dashboard, where Sign Up or Sign Out was
             \* answered to another screen than it was asked on
  named      \* history, named[u]: the names u's document has had

sdk  == <<doc, queue, sent, cache, welcomed, named>>
ui   == <<screen, shown, below, reg, outs, late>>
cnt  == <<taps, faults>>
vars == <<account, storage, signed, torn, jobs, sdk, ui, cnt>>

Tap   == taps < MaxTaps /\ taps' = taps + 1 /\ UNCHANGED faults
Fault == faults < MaxFaults /\ faults' = faults + 1 /\ UNCHANGED taps

-----------------------------------------------------------------------------
(***************************************************************************)
(* The SDK                                                                 *)
(***************************************************************************)
\* A queued write: all of the document or some fields of it, for a job or for none (0).
Write(op, u, patch, job) == [op |-> op, doc |-> u, patch |-> patch, job |-> job]

Missing(w, content) == w.op = "update" /\ content = None

\* What the write makes of a document.
Written(w, content) ==
  IF Missing(w, content) THEN content ELSE IF w.op = "set" THEN w.patch
  ELSE [f \in DOMAIN w.patch \cup DOMAIN content |-> IF f \in DOMAIN w.patch THEN w.patch[f] ELSE content[f]]

\* The fields a handler reads.
Known(content) == IF content = None THEN None ELSE [name |-> content.name, bio |-> content.bio]

Mine(d) == queue[d][signed[d]]

\* What a read of u's document returns on d, from the server or the cache.
View(d, u, content) ==
  LET q == Mine(d)
      after[n \in 0..Len(q)] == IF n = 0 THEN content
                                ELSE IF q[n].doc = u THEN Written(q[n], after[n - 1])
                                ELSE after[n - 1]
  IN  after[Len(q)]

\* Mutant: the number of writes sent survives the change.
ChangeUserOnly(d, u) ==
  /\ signed' = [signed EXCEPT ![d] = u]
  /\ sent' = sent

\* The credentials listener: the queue of the user, who may be the same one,
\* and new streams, so that nothing of it counts as sent.
ChangeUser(d, u) ==
  /\ signed' = [signed EXCEPT ![d] = u]
  /\ sent' = [sent EXCEPT ![d] = 0]

\* The server applies the next write of the signed-in user.
Applies(d) ==
  /\ sent[d] < Len(Mine(d))
  /\ LET w == Mine(d)[sent[d] + 1] IN
       /\ ~Missing(w, doc[w.doc])
       /\ doc' = [doc EXCEPT ![w.doc] = Written(w, @)]
       /\ named' = [named EXCEPT ![w.doc] = @ \cup {doc'[w.doc].name}]
  /\ sent' = [sent EXCEPT ![d] = @ + 1]
  /\ UNCHANGED <<account, storage, signed, torn, jobs, queue, cache, welcomed, ui, cnt>>

Dequeue(d) == queue' = [queue EXCEPT ![d][signed[d]] = Tail(@)]

\* The form of device d is left: its handlers have no screen any more.
Unmounted(d) ==
  [k \in DOMAIN jobs |-> IF jobs[k].dev = d THEN [jobs[k] EXCEPT !.mounted = FALSE] ELSE jobs[k]]

\* The handler that awaited the write ends; it pops the form if that is still shown.
EndJob(w) ==
  IF w.job = 0 THEN UNCHANGED <<jobs, screen>>
  ELSE IF jobs[w.job].mounted
    THEN /\ jobs' = [Unmounted(jobs[w.job].dev) EXCEPT ![w.job].stage = "done"]
         /\ screen' = [screen EXCEPT ![jobs[w.job].dev] = "dashboard"]
  ELSE jobs' = [jobs EXCEPT ![w.job].stage = "done"] /\ UNCHANGED screen

\* The answer to the first write arrives.
Answer(d) ==
  /\ sent[d] > 0
  /\ LET w == Head(Mine(d)) IN
       /\ Dequeue(d)
       /\ sent' = [sent EXCEPT ![d] = @ - 1]
       /\ cache' = [cache EXCEPT ![d][w.doc] = Known(Written(w, @))]
       /\ welcomed' = IF w.op = "set" THEN welcomed \cup {w.doc} ELSE welcomed
       /\ EndJob(w)
  /\ UNCHANGED <<account, storage, signed, torn, doc, named, shown, below, reg, outs, late, cnt>>

\* An update of a missing document is refused; its await throws, uncaught.
Refuse(d) ==
  /\ sent[d] = 0 /\ Mine(d) # <<>>
  /\ LET w == Head(Mine(d)) IN
       /\ Missing(w, doc[w.doc])
       /\ jobs' = IF w.job = 0 THEN jobs ELSE [jobs EXCEPT ![w.job].stage = "done"]
  /\ Dequeue(d)
  /\ UNCHANGED <<account, storage, signed, torn, doc, sent, cache, welcomed, named, ui, cnt>>

\* The connection is lost with the answers.
AnswersLost(d) ==
  /\ Fault
  /\ sent[d] > 0
  /\ sent' = [sent EXCEPT ![d] = 0]
  /\ UNCHANGED <<account, storage, signed, torn, jobs, doc, queue, cache, welcomed, named, ui>>

-----------------------------------------------------------------------------
(***************************************************************************)
(* RegistrationScreen                                                      *)
(***************************************************************************)
Idle == [stage |-> "idle", user |-> Nobody, mounted |-> FALSE]

OpenRegister(d) ==
  /\ screen[d] = "login"
  /\ screen' = [screen EXCEPT ![d] = "register"]
  /\ UNCHANGED <<account, storage, signed, torn, jobs, sdk, shown, below, reg, outs, late, cnt>>

\* The system's back button works while the spinner covers the screen.
LeaveRegister(d) ==
  /\ screen[d] = "register"
  /\ screen' = [screen EXCEPT ![d] = "login"]
  /\ reg' = [reg EXCEPT ![d].mounted = FALSE]
  /\ UNCHANGED <<account, storage, signed, torn, jobs, sdk, shown, below, outs, late, cnt>>

\* createUserWithEmailAndPassword is called once the fields are filled in.
\* For an account known by then it throws and nothing has changed.
SignUp(d, u) ==
  /\ Tap
  /\ screen[d] = "register" /\ reg[d] = Idle /\ u \notin account
  /\ reg' = [reg EXCEPT ![d] = [stage |-> "create", user |-> u, mounted |-> TRUE]]
  /\ UNCHANGED <<account, storage, signed, torn, jobs, sdk, screen, shown, below, outs, late>>

\* Firebase Auth makes an account that does not exist.
AuthCreates(d) ==
  /\ reg[d].stage = "create" /\ reg[d].user \notin account
  /\ account' = account \cup {reg[d].user}
  /\ reg' = [reg EXCEPT ![d].stage = "created"]
  /\ UNCHANGED <<storage, signed, torn, jobs, sdk, screen, shown, below, outs, late, cnt>>

\* createUser throws: the email is in use, the network is down, or the
\* answer is lost and the account made.
SignUpFails(d) ==
  /\ reg[d].stage \in {"create", "created"}
  /\ torn' = IF reg[d].stage = "created" THEN torn \cup {reg[d].user} ELSE torn
  /\ reg' = [reg EXCEPT ![d] = Idle]
  /\ UNCHANGED <<account, storage, signed, jobs, sdk, screen, shown, below, outs, late, cnt>>

\* Mutant: the document is written before the new user is signed in.
SettingNewProfileEarly(d, u) ==
  queue' = [queue EXCEPT ![d][signed[d]] = Append(@, Write("set", u, NewProfile, 0))]

SettingNewProfile(d, u) ==
  queue' = [queue EXCEPT ![d][u] = Append(@, Write("set", u, NewProfile, 0))]

\* The answer comes when its screen is gone and a dashboard is there.
Late(d) == late' = IF screen[d] \in {"dashboard", "edit"} THEN late \cup {d} ELSE late

\* createUser is answered: its user is signed in, the document queued, and
\* the handler goes on if the screen is still there (StatusAlert needs it).
SignedUp(d) ==
  /\ reg[d].stage = "created"
  /\ ChangeUser(d, reg[d].user)
  /\ SettingNewProfile(d, reg[d].user)
  /\ Late(d)
  /\ reg' = [reg EXCEPT ![d] = IF @.mounted THEN [@ EXCEPT !.stage = "signIn"] ELSE Idle]
  /\ UNCHANGED <<account, storage, torn, jobs, doc, cache, welcomed, named, screen, shown, below, outs, cnt>>

\* The login that follows: both routes are popped and the dashboard pushed
\* if the screen is still there, or it throws.
SignInAfter(d) ==
  /\ reg[d].stage = "signIn"
  /\ reg' = [reg EXCEPT ![d] = Idle]
  /\ Late(d)
  /\ \/ /\ ChangeUser(d, reg[d].user)
        /\ screen' = [screen EXCEPT ![d] = IF reg[d].mounted THEN "dashboard" ELSE @]
        /\ shown' = [shown EXCEPT ![d] = IF reg[d].mounted THEN reg[d].user ELSE @]
     \/ UNCHANGED <<signed, sent, screen, shown>>
  /\ UNCHANGED <<account, storage, torn, jobs, doc, queue, cache, welcomed, named, below, outs, cnt>>

-----------------------------------------------------------------------------
(***************************************************************************)
(* LoginScreen and sign-out                                                *)
(***************************************************************************)
\* Mutant: a login makes sure that there is a profile.
LogInWithProfile(d, u) ==
  /\ screen[d] = "login" /\ u \in account
  /\ Tap
  /\ ChangeUser(d, u)
  /\ SettingNewProfile(d, u)
  /\ screen' = [screen EXCEPT ![d] = "dashboard"]
  /\ shown' = [shown EXCEPT ![d] = u]
  /\ UNCHANGED <<account, storage, torn, jobs, doc, cache, welcomed, named, below, reg, outs, late>>

\* The login of an account, from the tap to the dashboard: the spinner covers
\* the screen while signIn is awaited, and a login that throws leaves
\* everything as it was.
LogIn(d, u) ==
  /\ screen[d] = "login" /\ u \in account
  /\ Tap
  /\ ChangeUser(d, u)
  /\ screen' = [screen EXCEPT ![d] = "dashboard"]
  /\ shown' = [shown EXCEPT ![d] = u]
  /\ UNCHANGED <<account, storage, torn, jobs, doc, queue, cache, welcomed, named, below, reg, outs, late>>

\* The handlers of Sign Out when the top route is popped: those that belong to
\* it have lost their screen (home 0).
Homeless(d, q) ==
  [k \in DOMAIN q |-> IF screen[d] = "dashboard" /\ q[k].home = Len(below[d]) + 1
                       THEN [q[k] EXCEPT !.home = 0] ELSE q[k]]

\* The top route is popped, and an older one shows.
Uncover(d) ==
  /\ screen[d] \in {"login", "dashboard"} /\ below[d] # <<>>
  /\ screen' = [screen EXCEPT ![d] = below[d][Len(below[d])].screen]
  /\ shown' = [shown EXCEPT ![d] = below[d][Len(below[d])].shown]
  /\ below' = [below EXCEPT ![d] = SubSeq(@, 1, Len(@) - 1)]
  /\ outs' = [outs EXCEPT ![d] = Homeless(d, @)]

\* The system's back button over an older route.
GoBack(d) ==
  /\ Uncover(d)
  /\ UNCHANGED <<account, storage, signed, torn, jobs, sdk, reg, late, cnt>>

\* ... while signIn is awaited: its user is signed in, and its handler throws.
LogInLeft(d, u) ==
  /\ screen[d] = "login" /\ u \in account
  /\ Tap
  /\ ChangeUser(d, u)
  /\ Uncover(d)
  /\ UNCHANGED <<account, storage, torn, jobs, doc, queue, cache, welcomed, named, reg, late>>

\* The button Sign Out, which can be tapped again; home is the dashboard's place
\* among the routes.
TapSignOut(d) ==
  /\ screen[d] = "dashboard" /\ Len(outs[d]) < MaxOuts
  /\ outs' = [outs EXCEPT ![d] = Append(@, [home |-> Len(below[d]) + 1, done |-> FALSE])]
  /\ UNCHANGED <<account, storage, signed, torn, jobs, sdk, screen, shown, below, reg, late, cnt>>

\* Firebase Auth signs the user out, if there is one; signOut is still awaited
\* and the dashboard still there.
AuthSignsOut(d) ==
  /\ \E k \in DOMAIN outs[d] :
       /\ ~outs[d][k].done /\ \A j \in 1..(k - 1) : outs[d][j].done
       /\ outs' = [outs EXCEPT ![d][k].done = TRUE]
       /\ IF outs[d][k].home = 0 THEN Late(d) ELSE UNCHANGED late
  /\ IF signed[d] = Nobody THEN UNCHANGED <<signed, sent>> ELSE ChangeUser(d, Nobody)
  /\ UNCHANGED <<account, storage, torn, jobs, doc, queue, cache, welcomed, named, screen, shown, below, reg, cnt>>

\* signOut returns to a dashboard that is gone: the handler throws.
SignOutThrows(d) ==
  /\ outs[d] # <<>> /\ Head(outs[d]).done /\ Head(outs[d]).home = 0
  /\ outs' = [outs EXCEPT ![d] = Tail(@)]
  /\ UNCHANGED <<account, storage, signed, torn, jobs, sdk, screen, shown, below, reg, late, cnt>>

\* Mutant: the handler ends with its await.
SignOutReturnsInPlace(d) ==
  /\ outs[d] # <<>> /\ Head(outs[d]).done /\ Head(outs[d]).home # 0
  /\ outs' = [outs EXCEPT ![d] = Tail(@)]
  /\ UNCHANGED <<account, storage, signed, torn, jobs, sdk, screen, shown, below, reg, late, cnt>>

\* What is left under the new login: of two routes, only the upper is popped.
Covered(d) ==
  IF screen[d] = "edit" THEN Append(below[d], [screen |-> "dashboard", shown |-> shown[d]])
  ELSE IF screen[d] = "register" THEN Append(below[d], [screen |-> "login", shown |-> Nobody])
  ELSE below[d]

\* signOut returns: the handler pops the top route, which need not be its
\* dashboard any more, and pushes the login.
SignOutReturns(d) ==
  /\ outs[d] # <<>> /\ Head(outs[d]).done /\ Head(outs[d]).home # 0
  /\ screen' = [screen EXCEPT ![d] = "login"]
  /\ shown' = [shown EXCEPT ![d] = Nobody]
  /\ below' = [below EXCEPT ![d] = Covered(d)]
  /\ outs' = [outs EXCEPT ![d] = Homeless(d, Tail(@))]
  /\ reg' = [reg EXCEPT ![d].mounted = FALSE]
  /\ jobs' = Unmounted(d)
  /\ late' = IF Covered(d) = <<>> THEN late \ {d} ELSE late \cup {d}
  /\ UNCHANGED <<account, storage, signed, torn, sdk, cnt>>

-----------------------------------------------------------------------------
(***************************************************************************)
(* EditProfile and selectImage                                             *)
(***************************************************************************)
Job(kind, d, u, n, b) ==
  [kind |-> kind, dev |-> d, user |-> u, stage |-> IF kind = "form" THEN "get" ELSE "upload",
   name |-> n, bio |-> b, mounted |-> kind = "form"]

OpenEdit(d) ==
  /\ screen[d] = "dashboard"
  /\ screen' = [screen EXCEPT ![d] = "edit"]
  /\ UNCHANGED <<account, storage, signed, torn, jobs, sdk, shown, below, reg, outs, late, cnt>>

LeaveEdit(d) ==
  /\ screen[d] = "edit"
  /\ screen' = [screen EXCEPT ![d] = "dashboard"]
  /\ jobs' = Unmounted(d)
  /\ UNCHANGED <<account, storage, signed, torn, sdk, shown, below, reg, outs, late, cnt>>

\* The form's button: not with both fields empty.  Nothing disables it.
ChangeDetails(d, n, b) ==
  /\ screen[d] = "edit" /\ Len(jobs) < MaxJobs
  /\ ~(n = "" /\ b = "")
  /\ signed[d] # Nobody
  /\ jobs' = Append(jobs, Job("form", d, signed[d], n, b))
  /\ UNCHANGED <<account, storage, signed, torn, sdk, ui, cnt>>

\* The fields can be changed while the read is awaited, and are read after it.
Retype(k, n, b) ==
  /\ jobs[k].kind = "form" /\ jobs[k].stage = "get" /\ jobs[k].mounted
  /\ <<n, b>> # <<jobs[k].name, jobs[k].bio>>
  /\ jobs' = [jobs EXCEPT ![k].name = n, ![k].bio = b]
  /\ UNCHANGED <<account, storage, signed, torn, sdk, ui, cnt>>

\* Mutant: an empty bio counts as a new one.
PatchOfEmptyBio(j, old) ==
  IF j.name \in {old.name, ""} THEN [bio |-> j.bio]
  ELSE IF j.bio = old.bio THEN [name |-> j.name]
  ELSE [bio |-> j.bio, name |-> j.name]

\* What the form writes, given what it has read.
Patch(j, old) ==
  IF j.name \in {old.name, ""} THEN [bio |-> j.bio]
  ELSE IF j.bio \in {old.bio, ""} THEN [name |-> j.name]
  ELSE [bio |-> j.bio, name |-> j.name]

\* The form asks a second time who is signed in.
Target(j) == signed[j.dev]

\* The read of the form is answered, by the server or from the cache, and
\* the update is queued.
FormRead(k, online) ==
  LET j       == jobs[k]
      content == IF online THEN doc[j.user] ELSE cache[j.dev][j.user]
      old     == View(j.dev, j.user, content)
  IN
  /\ j.kind = "form" /\ j.stage = "get"
  /\ old # None /\ Target(j) # Nobody
  /\ queue' = [queue EXCEPT ![j.dev][signed[j.dev]] = Append(@, Write("update", Target(j), Patch(j, old), k))]
  /\ cache' = [cache EXCEPT ![j.dev][j.user] = Known(content)]
  /\ jobs' = [jobs EXCEPT ![k].stage = "update"]
  /\ UNCHANGED <<account, storage, signed, torn, doc, sent, welcomed, named, ui, cnt>>

\* The read fails, finds no document, or nobody is signed in any more: the
\* handler throws, and nothing catches it.
FormThrows(k) ==
  /\ jobs[k].kind = "form" /\ jobs[k].stage = "get"
  /\ jobs' = [jobs EXCEPT ![k].stage = "done"]
  /\ UNCHANGED <<account, storage, signed, torn, sdk, ui, cnt>>

SelectImage(d) ==
  /\ screen[d] = "dashboard" /\ Len(jobs) < MaxJobs
  /\ jobs' = Append(jobs, Job("picture", d, shown[d], "", ""))
  /\ UNCHANGED <<account, storage, signed, torn, sdk, ui, cnt>>

\* uploadFile returns whether the picture was stored or not.
Uploaded(k) ==
  /\ jobs[k].stage = "upload"
  /\ storage' \in {storage, storage \cup {jobs[k].user}}
  /\ jobs' = [jobs EXCEPT ![k].stage = "url"]
  /\ UNCHANGED <<account, signed, torn, sdk, ui, cnt>>

\* getDownloadURL returns "" when it fails, and the update is queued all the
\* same; nobody awaits it.
GotURL(k, url) ==
  /\ jobs[k].stage = "url"
  /\ url \in {""} \cup {"own" : u \in storage \cap {jobs[k].user}}
  /\ queue' = [queue EXCEPT ![jobs[k].dev][signed[jobs[k].dev]] =
                 Append(@, Write("update", jobs[k].user, [pic |-> url], 0))]
  /\ jobs' = [jobs EXCEPT ![k].stage = "done"]
  /\ UNCHANGED <<account, storage, signed, torn, doc, sent, cache, welcomed, named, ui, cnt>>

-----------------------------------------------------------------------------
\* A follower, a followed user or a request enters the document of u.
Befriend(u) ==
  /\ doc[u] # None /\ ~doc[u].friends
  /\ doc' = [doc EXCEPT ![u].friends = TRUE]
  /\ UNCHANGED <<account, storage, signed, torn, jobs, queue, sent, cache, welcomed, named, ui, cnt>>

\* The app is killed and started again, at the login screen; the SDK
\* remembers the user and the queues.
Restart(d) ==
  /\ Fault
  /\ torn' = IF reg[d].stage = "created" THEN torn \cup {reg[d].user} ELSE torn
  /\ screen' = [screen EXCEPT ![d] = "login"]
  /\ reg' = [reg EXCEPT ![d] = Idle]
  /\ jobs' = [k \in DOMAIN jobs |-> IF jobs[k].dev = d
                THEN [jobs[k] EXCEPT !.stage = "done", !.mounted = FALSE] ELSE jobs[k]]
  /\ sent' = [sent EXCEPT ![d] = 0]
  /\ shown' = [shown EXCEPT ![d] = Nobody]
  /\ below' = [below EXCEPT ![d] = <<>>]
  /\ outs' = [outs EXCEPT ![d] = <<>>]
  /\ late' = late \ {d}
  /\ UNCHANGED <<account, storage, signed, doc, queue, cache, welcomed, named>>

\* An old user has written a bio.
Init ==
  /\ account = Old /\ welcomed = Old
  /\ storage = {} /\ torn = {} /\ late = {}
  /\ doc = [u \in Users |-> IF u \in Old THEN [NewProfile EXCEPT !.bio = "bio"] ELSE None]
  /\ named = [u \in Users |-> IF u \in Old THEN {"first"} ELSE {}]
  /\ signed = [d \in Devices |-> Nobody]
  /\ queue = [d \in Devices |-> [u \in Users \cup {Nobody} |-> <<>>]]
  /\ sent = [d \in Devices |-> 0]
  /\ cache = [d \in Devices |-> [u \in Users |-> None]]
  /\ screen = [d \in Devices |-> "login"]
  /\ shown = [d \in Devices |-> Nobody]
  /\ below = [d \in Devices |-> <<>>]
  /\ outs = [d \in Devices |-> <<>>]
  /\ reg = [d \in Devices |-> Idle]
  /\ jobs = <<>>
  /\ taps = 0 /\ faults = 0

Next ==
  \/ \E d \in Devices :
       \/ Applies(d) \/ Answer(d) \/ Refuse(d) \/ AnswersLost(d) \/ Restart(d)
       \/ OpenRegister(d) \/ LeaveRegister(d) \/ GoBack(d)
       \/ TapSignOut(d) \/ AuthSignsOut(d) \/ SignOutThrows(d) \/ SignOutReturns(d)
       \/ AuthCreates(d) \/ SignUpFails(d) \/ SignedUp(d) \/ SignInAfter(d)
       \/ OpenEdit(d) \/ LeaveEdit(d) \/ SelectImage(d)
       \/ \E u \in Users : SignUp(d, u) \/ LogIn(d, u) \/ LogInLeft(d, u)
       \/ \E n \in Names, b \in Bios : ChangeDetails(d, n, b)
  \/ \E k \in DOMAIN jobs :
       \/ FormThrows(k) \/ Uploaded(k)
       \/ \E n \in Names, b \in Bios : Retype(k, n, b)
       \/ \E online \in BOOLEAN : FormRead(k, online)
       \/ \E url \in Pictures : GotURL(k, url)
  \/ \E u \in Users : Befriend(u)

Spec == Init /\ [][Next]_vars

-----------------------------------------------------------------------------
(***************************************************************************)
(* Properties                                                              *)
(***************************************************************************)
Writes(d, o) == {queue[d][o][i] : i \in DOMAIN queue[d][o]}

\* The type of the state; no more is sent than queued.
TypeOK ==
  /\ account \subseteq Users /\ storage \subseteq Users
  /\ torn \subseteq account /\ welcomed \subseteq account /\ late \subseteq Devices
  /\ \A u \in Users : doc[u] \in Profile \cup {None} /\ named[u] \subseteq Names
  /\ \A d \in Devices :
       /\ signed[d] \in account \cup {Nobody} /\ shown[d] \in account \cup {Nobody}
       /\ reg[d].user \in Users \cup {Nobody}
       /\ screen[d] \in {"login", "register", "dashboard", "edit"}
       /\ \A k \in DOMAIN outs[d] : outs[d][k].home \in 0..(Len(below[d]) + 1)
       /\ \A u \in Users : cache[d][u] \in [name : Names, bio : Bios] \cup {None}
       /\ \A o \in Users \cup {Nobody} : \A w \in Writes(d, o) : w.doc \in account /\ w.job \in 0..Len(jobs)
       /\ sent[d] \in 0..Len(Mine(d))
  /\ Len(jobs) <= MaxJobs /\ taps <= MaxTaps /\ faults <= MaxFaults

\* u's first write waits on a device for u to be signed in there.
ProfileQueued(d, u) == \E w \in Writes(d, u) : w.op = "set" /\ w.doc = u

(***************************************************************************)
(* An account has a document, or will have one: its first write waits in   *)
(* the queue of the device it was made on, or the answer of createUser is  *)
(* on its way.  Only a registration cut off between the two, by a lost     *)
(* answer or a killed app, leaves an account without a document.           *)
(***************************************************************************)
AccountHasDocument ==
  \A u \in account :
    \/ doc[u] # None \/ u \in torn
    \/ \E d \in Devices : ProfileQueued(d, u) \/ (reg[d].stage = "created" /\ reg[d].user = u)

(***************************************************************************)
(* Once the first write of a user has been answered, nothing resets the    *)
(* profile: followers and requests stay, and the default picture does not  *)
(* come back.  (Before that a sign-out or a lost answer makes the SDK send *)
(* the write again, over all that happened in between.)                    *)
(***************************************************************************)
ProfileKept ==
  [][\A u \in welcomed :
       /\ doc[u].friends => doc'[u].friends
       /\ doc[u].pic # "default" => doc'[u].pic # "default"]_vars

(***************************************************************************)
(* The form empties a bio only when its bio was left empty and its name    *)
(* was empty by then, or one the document has had: a new name alone leaves *)
(* the bio as it is, also after a read from the cache.                     *)
(***************************************************************************)
BioKept ==
  [][\A u \in welcomed :
       doc[u].bio # "" /\ doc'[u].bio = "" =>
         \E k \in DOMAIN jobs :
           /\ jobs[k].kind = "form" /\ jobs[k].bio = ""
           /\ jobs[k].name \in named[jobs[k].user] \cup {""}]_vars

\* Firebase Auth has signed out, and the handler on the top dashboard of d is
\* about to leave it.
SigningOut(d) == \E k \in DOMAIN outs[d] : outs[d][k].done /\ outs[d][k].home = Len(below[d]) + 1

(***************************************************************************)
(* The dashboard and the forms over it belong to the user who is signed in *)
(* or, with nobody signed in, to the one whose sign-out from this very     *)
(* dashboard is about to leave it.  The exceptions are the devices where   *)
(* an answer came to another screen than it was asked on: a registration   *)
(* that was left signs in its user under a dashboard, a sign-out that was  *)
(* covered by the form leaves its dashboard under the login, and one whose *)
(* dashboard is gone signs out the next user.                              *)
(***************************************************************************)
DashboardOfSigned ==
  \A d \in Devices :
    screen[d] \in {"dashboard", "edit"} /\ d \notin late =>
      /\ shown[d] # Nobody
      /\ signed[d] = shown[d] \/ (signed[d] = Nobody /\ SigningOut(d))
      /\ \A k \in DOMAIN jobs : jobs[k].dev = d /\ jobs[k].mounted => jobs[k].user = shown[d]

-----------------------------------------------------------------------------
(***************************************************************************)
(* The invariants made inductive                                           *)
(***************************************************************************)
Patches     == [bio : Bios] \cup [name : Names] \cup [bio : Bios, name : Names] \cup [pic : {"", "own"}]
FirstWrites == [op : {"set"}, doc : Users, patch : {NewProfile}, job : {0}]
Updates     == [op : {"update"}, doc : Users, patch : Patches, job : Nat]
Handlers    == [stage : {"idle", "create", "created", "signIn"}, user : Users \cup {Nobody}, mounted : BOOLEAN]
Routes      == [screen : {"login", "dashboard"}, shown : Users \cup {Nobody}]
SignOuts    == [home : Nat, done : BOOLEAN]
Jobs        == [kind : {"form", "picture"}, dev : Devices, user : Users, name : Names, bio : Bios,
                stage : {"get", "update", "upload", "url", "done"}, mounted : BOOLEAN]

AccountType ==
  /\ account \subseteq Users /\ storage \subseteq Users
  /\ torn \subseteq account /\ welcomed \subseteq account /\ late \subseteq Devices
  /\ doc \in [Users -> Profile \cup {None}] /\ named \in [Users -> SUBSET Names]
  /\ signed \in [Devices -> account \cup {Nobody}] /\ shown \in [Devices -> account \cup {Nobody}]
  /\ screen \in [Devices -> {"login", "register", "dashboard", "edit"}]
  /\ below \in [Devices -> Seq(Routes)] /\ outs \in [Devices -> Seq(SignOuts)]
  /\ reg \in [Devices -> Handlers] /\ jobs \in Seq(Jobs) /\ Len(jobs) <= MaxJobs
  /\ cache \in [Devices -> [Users -> [name : Names, bio : Bios] \cup {None}]]
  /\ queue \in [Devices -> [Users \cup {Nobody} -> Seq(FirstWrites \cup Updates)]]
  /\ sent \in [Devices -> Nat]
  /\ taps \in 0..MaxTaps /\ faults \in 0..MaxFaults

\* Old routes are left by an answer that came late.  A handler of Sign Out that
\* has not lost its screen belongs to a dashboard: an old one, or the top one.
RoutesKept(d) ==
  /\ below[d] # <<>> => d \in late
  /\ \A i \in DOMAIN below[d] :
       /\ below[d][i].shown \in account \cup {Nobody}
       /\ below[d][i].screen = "dashboard" => below[d][i].shown # Nobody
  /\ \A k \in DOMAIN outs[d] :
       LET h == outs[d][k].home IN
       \/ h = 0
       \/ h \in DOMAIN below[d] /\ below[d][h].screen = "dashboard"
       \/ h = Len(below[d]) + 1 /\ screen[d] \in {"dashboard", "edit"}

\* Handlers belong to accounts, and to the screen they were started from.
HandlersKept ==
  /\ \A d \in Devices :
       /\ reg[d].stage # "idle" => reg[d].user \in Users
       /\ reg[d].stage \in {"created", "signIn"} => reg[d].user \in account
       /\ reg[d].mounted => screen[d] = "register"
       /\ screen[d] \in {"dashboard", "edit"} => shown[d] # Nobody
       /\ RoutesKept(d)
  /\ \A k \in DOMAIN jobs :
       jobs[k].user \in account /\ (jobs[k].mounted => screen[jobs[k].dev] = "edit")

\* What is queued is about accounts; what has been sent, about documents.
WritesKept ==
  \A d \in Devices :
    /\ sent[d] <= Len(Mine(d)) /\ \A i \in 1..sent[d] : doc[Mine(d)[i].doc] # None
    /\ \A o \in Users \cup {Nobody} : \A i \in DOMAIN queue[d][o] :
         queue[d][o][i].doc \in account /\ queue[d][o][i].job \in 0..Len(jobs)

\* The first write of u is in a queue of u, and there is one at most: queued,
\* to be queued when createUser is answered, or answered.
First(d, o, i)  == i \in DOMAIN queue[d][o] /\ queue[d][o][i].op = "set"
Creating(d, u)  == reg[d].stage = "created" /\ reg[d].user = u
RegisteredOnce ==
  /\ \A d \in Devices, o \in Users \cup {Nobody} : \A i \in DOMAIN queue[d][o] :
       First(d, o, i) => queue[d][o][i].doc = o
  /\ \A u \in Users : \A d, e \in Devices :
       /\ \A i \in DOMAIN queue[d][u], j \in DOMAIN queue[e][u] :
            First(d, u, i) /\ First(e, u, j) => d = e /\ i = j
       /\ Creating(d, u) => ~ProfileQueued(e, u) /\ (Creating(e, u) => d = e)
       /\ u \in welcomed => ~ProfileQueued(d, u) /\ ~Creating(d, u)

\* The names that the writes before the i-th of q give to u's document, which
\* is there or made by one of them.
NamesIt(q, j, u) ==
  /\ q[j].doc = u /\ "name" \in DOMAIN q[j].patch
  /\ doc[u] # None \/ \E h \in 1..j : q[h].op = "set" /\ q[h].doc = u
NamesBefore(q, i, u) == {q[j].patch.name : j \in {n \in 1..(i - 1) : NamesIt(q, n, u)}}

\* The i-th write of q empties a bio: the form it comes from has read a name
\* that its user's document has had, or gets from the writes before.
Emptied(q, i) ==
  LET j == jobs[q[i].job] IN
  /\ q[i].job \in DOMAIN jobs
  /\ j.kind = "form" /\ j.stage # "get" /\ j.bio = ""
  /\ j.name \in {""} \cup named[j.user] \cup NamesBefore(q, i, j.user)

NamesKept ==
  /\ \A u \in Users : doc[u] # None => doc[u].name \in named[u]
  /\ \A d \in Devices :
       /\ \A u \in Users : cache[d][u] # None => doc[u] # None /\ cache[d][u].name \in named[u]
       /\ \A i \in 1..sent[d] :
            "name" \in DOMAIN Mine(d)[i].patch => Mine(d)[i].patch.name \in named[Mine(d)[i].doc]
       /\ \A o \in Users \cup {Nobody} : \A i \in DOMAIN queue[d][o] :
            queue[d][o][i].op = "update" /\ "bio" \in DOMAIN queue[d][o][i].patch /\ queue[d][o][i].patch.bio = ""
              => Emptied(queue[d][o], i)

AccountInv == AccountType /\ HandlersKept /\ WritesKept /\ RegisteredOnce /\ NamesKept
=============================================================================
