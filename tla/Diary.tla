-------------------------------- MODULE Diary --------------------------------
(***************************************************************************)
(* The private diaries of one user, on several devices: the creator, the   *)
(* editor and the tab that lists them, over the SDK.                       *)
(*                                                                         *)
(* A text is a number, larger than every text typed before it.  hist[i] is *)
(* what the document of diary i has been on the server, and the position   *)
(* is its version.  A device knows one version of each document            *)
(* (remote_document_cache_) and shows it with its own queued writes        *)
(* applied.  Its queue is sent as WriteQueue says: in order, and from the  *)
(* start again when an answer is lost.                                     *)
(*                                                                         *)
(* None of the three screens awaits its write.  The creator closes itself  *)
(* when the server has answered (.then), which may be long after the tap:  *)
(* nothing disables its button, and Navigator.pop takes the top route,     *)
(* whichever that is, as long as the creator is still mounted.             *)
(***************************************************************************)
EXTENDS Naturals, Sequences, FiniteSets

CONSTANTS
  Devices,     \* the devices the user is signed in on
  MaxDiaries,  \* bound: diaries, one for each tap on the creator's button
  MaxTexts,    \* bound: texts typed
  MaxScreens,  \* bound: creators and editors opened
  MaxFaults    \* bound: answers lost, apps killed, editors rebuilt

ASSUME BoundsAssumption ==
  MaxDiaries \in Nat \ {0} /\ MaxTexts \in Nat /\ MaxScreens \in Nat /\ MaxFaults \in Nat

Diaries == 1..MaxDiaries
Texts   == 1..MaxTexts

\* What a document holds: no document yet, a text, or no document any more.
None    == 0
Deleted == MaxTexts + 1
Exists(content) == content \in Texts

VARIABLES
  hist,      \* hist[i]: the versions of the document on the server
  cache,     \* cache[d][i]: the version of it that device d knows
  queue,     \* queue[d]: the writes of d not answered yet
  sent,      \* sent[d]: the versions the first of them have become
  routes,    \* routes[d]: the Navigator's stack
  leaving,   \* leaving[d]: the creators on their way out that a write waits to close
  editor,    \* editor[d]: the diary in the editor, its text when opened, and now
  hurried,   \* hurried[d]: a creator was left while it had a write pending
  writers,   \* history, writers[i]: the devices diary i was written on
  created,   \* how many diaries have been made
  typed,     \* the last text typed
  opened,    \* how many screens have been opened
  faults

sdk  == <<hist, cache, queue, sent, writers>>
ui   == <<routes, leaving, editor, hurried>>
vars == <<sdk, ui, created, typed, opened, faults>>

-----------------------------------------------------------------------------
(***************************************************************************)
(* Documents and the SDK                                                   *)
(***************************************************************************)
\* A queued write: what it does, to which diary, with which text, and the
\* creator that waits for its answer (0 for none).
Op(op, i, text, creator) == [op |-> op, id |-> i, text |-> text, creator |-> creator]

Content(i)  == hist[i][Len(hist[i])]
Cached(d, i) == hist[i][cache[d][i]]

\* update asks for a document that exists.
\* Mutant: it is written as a set, which asks for nothing.
NeverMissing(o, content) == FALSE

Missing(o, content) == o.op = "update" /\ ~Exists(content)

\* What the write makes of the document.  add is a set of a new document.
ApplyOp(o, content) ==
  IF o.op = "delete" THEN Deleted ELSE IF Missing(o, content) THEN content ELSE o.text

\* What the writes of q, in their order, make of the document of diary i.
Overlaid(q, i, content) ==
  LET after[n \in 0..Len(q)] == IF n = 0 THEN content
                                ELSE IF q[n].id = i THEN ApplyOp(q[n], after[n - 1])
                                ELSE after[n - 1]
  IN  after[Len(q)]

\* What device d shows of diary i.
View(d, i) == Overlaid(queue[d], i, Cached(d, i))

Enqueue(d, o) ==
  /\ queue' = [queue EXCEPT ![d] = Append(@, o)]
  /\ writers' = [writers EXCEPT ![o.id] = @ \cup {d}]
  /\ UNCHANGED <<hist, cache, sent>>

Fault == faults < MaxFaults /\ faults' = faults + 1

\* The server refuses an update of a document that does not exist.
Refused(o) == Missing(o, Content(o.id))

\* The server applies the next write of d.
ServerApplies(d) ==
  /\ Len(sent[d]) < Len(queue[d])
  /\ LET o == queue[d][Len(sent[d]) + 1] IN
       /\ ~Refused(o)
       /\ hist' = [hist EXCEPT ![o.id] = Append(@, ApplyOp(o, Content(o.id)))]
       /\ sent' = [sent EXCEPT ![d] = Append(@, Len(hist[o.id]) + 1)]
  /\ UNCHANGED <<cache, queue, writers, ui, created, typed, opened, faults>>

\* The connection is lost with the answers: the queue is sent again.
AnswersLost(d) ==
  /\ sent[d] # <<>>
  /\ Fault
  /\ sent' = [sent EXCEPT ![d] = <<>>]
  /\ UNCHANGED <<hist, cache, queue, writers, ui, created, typed, opened>>

\* The listener of d brings a later version of a document, not always the
\* last one; older ones are ignored.
Snapshot(d, i, v) ==
  /\ v \in DOMAIN hist[i] /\ v > cache[d][i]
  /\ cache' = [cache EXCEPT ![d][i] = v]
  /\ UNCHANGED <<hist, queue, sent, writers, ui, created, typed, opened, faults>>

-----------------------------------------------------------------------------
(***************************************************************************)
(* The Navigator                                                           *)
(***************************************************************************)
Top(d) == IF routes[d] = <<>> THEN "none" ELSE routes[d][Len(routes[d])].name
Route(name, n) == [name |-> name, screen |-> n]
Push(d, r) == routes' = [routes EXCEPT ![d] = Append(@, r)]
Without(stack) == SubSeq(stack, 1, Len(stack) - 1)

\* The writes that wait for creator n to close: their callbacks will pop.
Pending(q, n) == n # 0 /\ \E k \in DOMAIN q : q[k].creator = n

\* The top route goes.  If it is a creator with a write pending, that write
\* will pop once more should its answer come before the animation is over.
Pop(d, q) ==
  LET n == routes[d][Len(routes[d])].screen IN
  /\ routes' = [routes EXCEPT ![d] = Without(@)]
  /\ hurried' = [hurried EXCEPT ![d] = @ \/ Pending(q, n)]
  /\ leaving' = [leaving EXCEPT ![d] = IF Pending(q, n) THEN @ \cup {n} ELSE @]

IsShown(d, n) == \E k \in DOMAIN routes[d] : routes[d][k].screen = n

-----------------------------------------------------------------------------
(***************************************************************************)
(* Answers                                                                 *)
(***************************************************************************)
\* What d knows of the document once its write is answered: its own version
\* of it, if that is later.  The answer to an update of a document it
\* believes to be missing tells it nothing.
\* Mutant: the answer only takes the write off the queue.
KnowsNothing(d, o, v) == cache[d][o.id]

\* Mutant: versions are counted from zero here and from one there.
KnowsTheNext(d, o, v) == v + 1

Acknowledged(d, o, v) ==
  IF v > cache[d][o.id] /\ (o.op # "update" \/ Exists(Cached(d, o.id))) THEN v
  ELSE cache[d][o.id]

\* .then((value) { Navigator.pop(context); })
\* Mutant: it pops whether the creator is mounted or not.
ThenPopAnyway(d, o) ==
  IF o.creator # 0 /\ routes[d] # <<>>
    THEN Pop(d, queue'[d]) ELSE UNCHANGED <<routes, leaving, hurried>>

\* Mutant: the check of mounted is the wrong way round.
ThenPopIfGone(d, o) ==
  IF o.creator # 0 /\ ~IsShown(d, o.creator) /\ routes[d] # <<>>
    THEN Pop(d, queue'[d]) ELSE UNCHANGED <<routes, leaving, hurried>>

ThenPop(d, o) ==
  IF o.creator # 0 /\ (IsShown(d, o.creator) \/ o.creator \in leaving[d]) /\ routes[d] # <<>>
    THEN Pop(d, queue'[d]) ELSE UNCHANGED <<routes, leaving, hurried>>

Answer(d) ==
  /\ sent[d] # <<>>
  /\ LET o == Head(queue[d]) IN
       /\ queue' = [queue EXCEPT ![d] = Tail(@)]
       /\ sent' = [sent EXCEPT ![d] = Tail(@)]
       /\ cache' = [cache EXCEPT ![d][o.id] = Acknowledged(d, o, Head(sent[d]))]
       /\ ThenPop(d, o)
  /\ UNCHANGED <<hist, writers, editor, created, typed, opened, faults>>

\* A refused update is dropped; nobody waits for it.
Reject(d) ==
  /\ queue[d] # <<>> /\ sent[d] = <<>> /\ Refused(Head(queue[d]))
  /\ queue' = [queue EXCEPT ![d] = Tail(@)]
  /\ UNCHANGED <<hist, cache, sent, writers, ui, created, typed, opened, faults>>

-----------------------------------------------------------------------------
(***************************************************************************)
(* MyDiariesTab and DiaryCreatorScreen                                     *)
(***************************************************************************)
OpenCreator(d) ==
  /\ Top(d) = "dashboard" /\ opened < MaxScreens
  /\ opened' = opened + 1
  /\ Push(d, Route("creator", opened'))
  /\ UNCHANGED <<sdk, leaving, editor, hurried, created, typed, faults>>

\* The save button adds a diary with the text typed by now.
SaveNew(d) ==
  /\ Top(d) = "creator" /\ created < MaxDiaries /\ typed < MaxTexts
  /\ created' = created + 1
  /\ typed' = typed + 1
  /\ Enqueue(d, Op("add", created', typed', routes[d][Len(routes[d])].screen))
  /\ UNCHANGED <<ui, opened, faults>>

\* The creator's back button and the system's.
LeaveCreator(d) ==
  /\ Top(d) = "creator"
  /\ Pop(d, queue[d])
  /\ UNCHANGED <<sdk, editor, created, typed, opened, faults>>

\* The animation of a creator that was popped is over.
Unmount(d, n) ==
  /\ n \in leaving[d]
  /\ leaving' = [leaving EXCEPT ![d] = @ \ {n}]
  /\ UNCHANGED <<sdk, routes, editor, hurried, created, typed, opened, faults>>

-----------------------------------------------------------------------------
(***************************************************************************)
(* DiaryEditorScreen                                                       *)
(***************************************************************************)
OpenEditor(d, i) ==
  /\ Top(d) = "dashboard" /\ opened < MaxScreens
  /\ Exists(View(d, i))
  /\ opened' = opened + 1
  /\ Push(d, Route("editor", 0))
  /\ editor' = [editor EXCEPT ![d] = [id |-> i, doc |-> View(d, i), text |-> View(d, i)]]
  /\ UNCHANGED <<sdk, leaving, hurried, created, typed, faults>>

Type(d) ==
  /\ Top(d) = "editor" /\ typed < MaxTexts
  /\ typed' = typed + 1
  /\ editor' = [editor EXCEPT ![d].text = typed']
  /\ UNCHANGED <<sdk, routes, leaving, hurried, created, opened, faults>>

\* build() makes a new controller from the document the screen was opened
\* with: when the framework builds the screen again, what was typed is gone.
Rebuild(d) ==
  /\ Top(d) = "editor" /\ editor[d].text # editor[d].doc
  /\ Fault
  /\ editor' = [editor EXCEPT ![d].text = editor[d].doc]
  /\ UNCHANGED <<sdk, routes, leaving, hurried, created, typed, opened>>

\* The arrow saves the text, changed or not.
ArrowBack(d) ==
  /\ Top(d) = "editor"
  /\ Enqueue(d, Op("update", editor[d].id, editor[d].text, 0))
  /\ Pop(d, queue[d])
  /\ UNCHANGED <<editor, created, typed, opened, faults>>

\* The system's back button does not.
SystemBack(d) ==
  /\ Top(d) = "editor"
  /\ Pop(d, queue[d])
  /\ UNCHANGED <<sdk, editor, created, typed, opened, faults>>

AskDelete(d) ==
  /\ Top(d) = "editor"
  /\ Push(d, Route("dialog", 0))
  /\ UNCHANGED <<sdk, leaving, editor, hurried, created, typed, opened, faults>>

CancelDelete(d) ==
  /\ Top(d) = "dialog"
  /\ Pop(d, queue[d])
  /\ UNCHANGED <<sdk, editor, created, typed, opened, faults>>

\* Both routes are popped, then the delete is queued.
ConfirmDelete(d) ==
  /\ Top(d) = "dialog"
  /\ routes' = [routes EXCEPT ![d] = Without(Without(@))]
  /\ Enqueue(d, Op("delete", editor[d].id, Deleted, 0))
  /\ UNCHANGED <<leaving, editor, hurried, created, typed, opened, faults>>

\* The app is killed, started again, and its user has logged in.
Restart(d) ==
  /\ Fault
  /\ routes' = [routes EXCEPT ![d] = <<Route("dashboard", 0)>>]
  /\ leaving' = [leaving EXCEPT ![d] = {}]
  /\ sent' = [sent EXCEPT ![d] = <<>>]
  /\ UNCHANGED <<hist, cache, queue, writers, editor, hurried, created, typed, opened>>

-----------------------------------------------------------------------------
\* The user has k diaries, each with a text, which both devices know.
InitWith(k) ==
  /\ hist = [i \in Diaries |-> IF i <= k THEN <<None, i>> ELSE <<None>>]
  /\ cache = [d \in Devices |-> [i \in Diaries |-> IF i <= k THEN 2 ELSE 1]]
  /\ created = k /\ typed = k
  /\ queue = [d \in Devices |-> <<>>]
  /\ sent = [d \in Devices |-> <<>>]
  /\ routes = [d \in Devices |-> <<Route("dashboard", 0)>>]
  /\ leaving = [d \in Devices |-> {}]
  /\ writers = [i \in Diaries |-> {}]
  /\ editor = [d \in Devices |-> [id |-> 1, doc |-> None, text |-> None]]
  /\ hurried = [d \in Devices |-> FALSE]
  /\ opened = 0 /\ faults = 0

Init == \E k \in {0, 1} : k <= MaxDiaries /\ k <= MaxTexts /\ InitWith(k)

Answers(d) == ServerApplies(d) \/ Answer(d) \/ Reject(d)

User(d) ==
  \/ OpenCreator(d) \/ SaveNew(d) \/ LeaveCreator(d)
  \/ \E i \in Diaries : OpenEditor(d, i)
  \/ Type(d) \/ ArrowBack(d) \/ SystemBack(d)
  \/ AskDelete(d) \/ CancelDelete(d) \/ ConfirmDelete(d)

Next ==
  \E d \in Devices :
    \/ Answers(d) \/ AnswersLost(d) \/ User(d) \/ Rebuild(d) \/ Restart(d)
    \/ \E i \in Diaries : \E v \in DOMAIN hist[i] : Snapshot(d, i, v)
    \/ \E n \in 1..MaxScreens : Unmount(d, n)

Spec == Init /\ [][Next]_vars

\* The SDK goes on sending (QueueDrains of WritePipeline); users need not act.
Fairness == \A d \in Devices : WF_vars(ServerApplies(d)) /\ WF_vars(Answer(d)) /\ WF_vars(Reject(d))

FairSpec == Spec /\ Fairness

-----------------------------------------------------------------------------
(***************************************************************************)
(* Properties                                                              *)
(***************************************************************************)
Contents == Texts \cup {None, Deleted}
Ops == [op : {"add", "update", "delete"}, id : Diaries, text : Contents, creator : 0..MaxScreens]

\* The type of the state; a device knows a version that exists, and the
\* versions of its writes are versions of their documents.
TypeOK ==
  /\ \A i \in Diaries : hist[i] # <<>> /\ \A v \in DOMAIN hist[i] : hist[i][v] \in Contents
  /\ \A d \in Devices :
       /\ \A i \in Diaries : cache[d][i] \in DOMAIN hist[i]
       /\ \A k \in DOMAIN queue[d] : queue[d][k] \in Ops
       /\ Len(sent[d]) <= Len(queue[d])
       /\ \A k \in DOMAIN sent[d] : sent[d][k] \in DOMAIN hist[queue[d][k].id]
       /\ leaving[d] \subseteq 1..opened
       /\ editor[d] \in [id : Diaries, doc : Contents, text : Contents]
       /\ hurried[d] \in BOOLEAN
  /\ created \in 0..MaxDiaries /\ typed \in 0..MaxTexts
  /\ opened \in 0..MaxScreens /\ faults \in 0..MaxFaults

(***************************************************************************)
(* On a device whose user edits a diary nowhere else, what is shown of it  *)
(* never goes back to an earlier text, and never comes back once deleted:  *)
(* not when answers are lost and old writes are applied once more, not     *)
(* when the listener lags behind, not when the app is killed.              *)
(***************************************************************************)
ViewOnlyAdvances ==
  [][\A d \in Devices, i \in Diaries :
       writers'[i] \subseteq {d} => View(d, i)' >= View(d, i)]_vars

(***************************************************************************)
(* A deleted diary comes back on the server only while the write that made *)
(* it is still unanswered on the creator's device and is applied again; an *)
(* editor closed after the delete, on whatever device, does not bring it   *)
(* back.                                                                   *)
(***************************************************************************)
AddPending(i) == \E d \in Devices : \E k \in DOMAIN queue[d] : queue[d][k].op = "add" /\ queue[d][k].id = i

NoResurrection ==
  [][\A i \in Diaries : Content(i) = Deleted /\ ~AddPending(i) => Content(i)' = Deleted]_vars

(***************************************************************************)
(* The dashboard stays on the Navigator unless a creator was left while a  *)
(* write of it was pending: saving once and waiting is safe, saving twice  *)
(* or going back before the answer may pop a route that is not the         *)
(* creator's.                                                              *)
(***************************************************************************)
DashboardStays ==
  \A d \in Devices : ~hurried[d] => routes[d] # <<>> /\ routes[d][1].name = "dashboard"

(***************************************************************************)
(* After a save the creator closes, however often answers are lost, if the *)
(* app is not killed first; offline it stays open until the connection is  *)
(* back.                                                                   *)
(***************************************************************************)
CreatorCloses ==
  \A d \in Devices, n \in 1..MaxScreens :
    (Pending(queue[d], n) /\ IsShown(d, n)) ~> ~IsShown(d, n)

-----------------------------------------------------------------------------
(***************************************************************************)
(* TypeOK and DashboardStays made inductive.                               *)
(***************************************************************************)
Routes == [name : {"dashboard", "creator", "editor", "dialog"}, screen : Nat]

DiaryType ==
  /\ hist \in [Diaries -> Seq(Contents)]
  /\ cache \in [Devices -> [Diaries -> Nat]]
  /\ queue \in [Devices -> Seq(Ops)]
  /\ sent \in [Devices -> Seq(Nat)]
  /\ routes \in [Devices -> Seq(Routes)]
  /\ leaving \in [Devices -> SUBSET (1..opened)]
  /\ editor \in [Devices -> [id : Diaries, doc : Contents, text : Contents]]
  /\ hurried \in [Devices -> BOOLEAN]
  /\ writers \in [Diaries -> SUBSET Devices]
  /\ created \in 0..MaxDiaries /\ typed \in 0..MaxTexts
  /\ opened \in 0..MaxScreens /\ faults \in 0..MaxFaults

\* Versions that are known, and versions that writes have become, exist.
VersionsExist ==
  /\ \A i \in Diaries : hist[i] # <<>>
  /\ \A d \in Devices :
       /\ \A i \in Diaries : cache[d][i] \in DOMAIN hist[i]
       /\ Len(sent[d]) <= Len(queue[d])
       /\ \A k \in DOMAIN sent[d] : sent[d][k] \in DOMAIN hist[queue[d][k].id]

\* While no creator was left with a write pending: nothing is on its way out
\* that a callback could pop for, the dashboard is below everything, and the
\* dialog above an editor.
RoutesInPlace ==
  \A d \in Devices :
    /\ \A k \in DOMAIN routes[d] : routes[d][k].screen <= opened
    /\ ~hurried[d] =>
         /\ leaving[d] = {}
         /\ routes[d] # <<>> /\ routes[d][1] = Route("dashboard", 0)
         /\ \A k \in DOMAIN routes[d] : routes[d][k].name = "dialog" => k > 2

DiaryInv == DiaryType /\ VersionsExist /\ RoutesInPlace

-----------------------------------------------------------------------------
(***************************************************************************)
(* The step of ViewOnlyAdvances made inductive.                            *)
(***************************************************************************)
\* Diary i is written on d only, if at all.
Sole(d, i) == writers[i] \subseteq {d}

\* Every route has its place on the stack, so there is one editor at most; a
\* dialog is above an editor.
Place(name) == IF name = "dashboard" THEN 1 ELSE IF name = "dialog" THEN 3 ELSE 2
Editing(d) == 2 \in DOMAIN routes[d] /\ routes[d][2].name = "editor"
StacksKept ==
  \A d \in Devices : \A k \in DOMAIN routes[d] :
    k = Place(routes[d][k].name) /\ (routes[d][k].name = "dialog" => Editing(d))

\* Texts were typed and diaries made, by the writers of the diary.
TextsTyped ==
  /\ \A i \in Diaries : \A v \in DOMAIN hist[i] :
       hist[i][v] \in (0..typed) \cup {Deleted} /\ (i > created => hist[i][v] = None)
  /\ \A d \in Devices : \A k \in DOMAIN queue[d] :
       LET o == queue[d][k] IN
       /\ IF o.op = "delete" THEN o.text = Deleted ELSE o.text \in 1..typed
       /\ o.id <= created /\ d \in writers[o.id]
  /\ \A d \in Devices : Editing(d) =>
       editor[d].doc \in 1..typed /\ editor[d].text \in 1..typed /\ editor[d].id <= created

\* The queue of the one device that writes a diary makes the same of every
\* version it may come to know.
Settled(d, i) ==
  \A v \in DOMAIN hist[i] : v >= cache[d][i] => Overlaid(queue[d], i, hist[i][v]) = View(d, i)
ViewsSettled == \A d \in Devices, i \in Diaries : Sole(d, i) => Settled(d, i)

\* Of the first n writes of q, those from the k-th on have left c as a text of
\* theirs, and what is there after a delete has been added again.
Covering(q, n, k, i, c) ==
  /\ \E m \in 1..n : m >= k /\ q[m].id = i /\ c = q[m].text
  /\ q[k].op = "delete" /\ Exists(c) => \E m \in 1..n : m >= k /\ q[m].id = i /\ q[m].op = "add"

\* The version that a sent write has become and all later ones are of sent
\* writes.
SentOf(d, i) ==
  \A k \in DOMAIN sent[d] : \A v \in DOMAIN hist[i] : queue[d][k].id = i /\ v >= sent[d][k] =>
    Covering(queue[d], Len(sent[d]), k, i, hist[i][v])
SentLast == \A d \in Devices, i \in Diaries : Sole(d, i) => SentOf(d, i)

\* What the arrow of the editor saves is no older than what is shown.
EditorCurrent ==
  \A d \in Devices :
    LET i == editor[d].id IN
    Editing(d) /\ Sole(d, i) /\ Exists(View(d, i)) =>
      View(d, i) <= editor[d].doc /\ View(d, i) <= editor[d].text

ViewInv == DiaryInv /\ StacksKept /\ TextsTyped /\ ViewsSettled /\ SentLast /\ EditorCurrent
=============================================================================
