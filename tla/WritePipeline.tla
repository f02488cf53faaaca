---------------------------- MODULE WritePipeline ----------------------------
(***************************************************************************)
(* How the Firestore SDK in ios/Pods gets the writes of one device to the  *)
(* server: the persistent mutation queues of LevelDB, the callbacks of     *)
(* SyncEngine, the write pipeline of RemoteStore and the state machine of  *)
(* its write stream.  Every action is one task of the SDK's worker queue,  *)
(* or one event outside of it: the server, the network, Firebase Auth.     *)
(*                                                                         *)
(* Left out: the stream token, which is stored and sent along but decides  *)
(* nothing; the Healthy state, an open stream in every test made of it     *)
(* here; the length of the backoff; the watch stream.  The app never       *)
(* disables the network, so is_network_enabled_ is false only inside       *)
(* RestartNetwork.                                                         *)
(***************************************************************************)
EXTENDS Integers, Sequences

CONSTANTS
  Users,              \* the users who sign in on the device
  kMaxPendingWrites,  \* the most writes in the pipeline
  MaxWrites,          \* bound: writes made by the app
  MaxFaults           \* bound: connections lost, changes of network or user, kills

ASSUME PendingAssumption == kMaxPendingWrites \in Nat \ {0}
ASSUME BoundsAssumption  == MaxWrites \in Nat /\ MaxFaults \in Nat

VARIABLES
  \* LevelDB: it survives the app
  queue,      \* queue[u]: u's mutation batches, in the order of their keys
  \* LevelDbMutationQueue and SyncEngine
  nextId,     \* next_batch_id_
  user,       \* current_user_
  callbacks,  \* mutation_callbacks_
  \* RemoteStore and its WriteStream, a record of the fields below
  s,
  \* Firebase Auth and the tasks it has put on the worker queue
  auth,       \* the user of FirebaseAuthCredentialsProvider
  tasks,
  \* history: who made each write, what its caller knows, what was applied
  by, told, log,
  faults

vars == <<queue, nextId, user, callbacks, s, auth, tasks, by, told, log, faults>>

\* A mutation batch: its id, and the number of the app's write it stands for.
Batch(i, w) == [id |-> i, w |-> w]
Handshake   == Batch(0, 0)

kBatchIdUnknown == -1

States == {"Initial", "Starting", "Open", "Error", "Backoff"}
Codes  == {"Unavailable", "Aborted", "NotFound"}

\* Fields of s: state_, handshake_complete_, close_count_, whether the idle
\* timer runs, the requests for a token not answered yet (by the close count
\* they were made at), write_pipeline_, whose token the stream was opened
\* with, and the connection: what was written and the server has not read,
\* what it answered and the client has not read, and the status it ended
\* the stream with.
Idle == [state |-> "Initial", handshake |-> FALSE, closes |-> 0, idle |-> FALSE,
         asks |-> {}, pipe |-> <<>>, cred |-> CHOOSE u \in Users : TRUE,
         requests |-> <<>>, replies |-> <<>>, status |-> "none"]

-----------------------------------------------------------------------------
(***************************************************************************)
(* LevelDbMutationQueue.  The rows of a user are read in the order of      *)
(* their batch ids; the position of the first row after an id is what the  *)
(* iterator's Seek finds.                                                  *)
(***************************************************************************)
Seek(q, id) == CHOOSE i \in 1..(Len(q) + 1) :
                 /\ \A j \in 1..(i - 1) : q[j].id <= id
                 /\ i <= Len(q) => q[i].id > id

RemoveMutationBatch(q, id) ==
  LET i == Seek(q, id - 1) IN SubSeq(q, 1, i - 1) \o SubSeq(q, i + 1, Len(q))

\* Mutant: counting starts anew.
LoadNextBatchIdAnew(q) == 1

\* One more than the largest id of any user's rows, so an id whose rows are
\* all gone is given out again.
LoadNextBatchIdFromDb(q) ==
  CHOOSE n \in 1..(MaxWrites + 1) :
    /\ \A u \in Users : \A i \in DOMAIN q[u] : q[u][i].id < n
    /\ n = 1 \/ \E u \in Users : \E i \in DOMAIN q[u] : q[u][i].id = n - 1

-----------------------------------------------------------------------------
(***************************************************************************)
(* Stream and RemoteStore, as functions on s.  HARD_ASSERTs of the code    *)
(* are not guards here: Assertions below states them as an invariant.      *)
(***************************************************************************)
IsOpen(t)    == t.state = "Open"
IsStarted(t) == t.state \in {"Starting", "Backoff", "Open"}

\* After an error the stream waits first; otherwise it asks for a token.
Start(t) ==
  IF t.state = "Error"
    THEN [t EXCEPT !.state = "Backoff"]
    ELSE [t EXCEPT !.state = "Starting", !.asks = @ \cup {t.closes}]

ShouldStartWriteStream(t) == ~IsStarted(t) /\ t.pipe # <<>>
StartIfNeeded(t) == IF ShouldStartWriteStream(t) THEN Start(t) ELSE t

\* Stream.Write stops the idle timer.
\* Mutant: it does not.
WriteKeepsTimer(t, batches) == [t EXCEPT !.requests = @ \o batches]

Write(t, batches) ==
  IF batches = <<>> THEN t
  ELSE [t EXCEPT !.requests = @ \o batches, !.idle = FALSE]

AddToWritePipeline(t, batches) ==
  LET added == [t EXCEPT !.pipe = @ \o batches] IN
  IF IsOpen(t) /\ t.handshake THEN Write(added, batches) ELSE added

MarkIdle(t) == IF IsOpen(t) THEN [t EXCEPT !.idle = TRUE] ELSE t

Last(t) == IF t.pipe = <<>> THEN kBatchIdUnknown ELSE t.pipe[Len(t.pipe)].id

\* The batches of q after the last one in the pipeline, as many as fit.
\* Mutant: one more than the pipeline may hold.
NextOneTooMany(t, q) ==
  LET i    == Seek(q, Last(t))
      room == kMaxPendingWrites + 1 - Len(t.pipe)
  IN  SubSeq(q, i, IF i + room - 1 < Len(q) THEN i + room - 1 ELSE Len(q))

NextMutationBatches(t, q) ==
  LET i    == Seek(q, Last(t))
      room == kMaxPendingWrites - Len(t.pipe)
  IN  SubSeq(q, i, IF i + room - 1 < Len(q) THEN i + room - 1 ELSE Len(q))

FillWritePipeline(t, q) ==
  LET next == NextMutationBatches(t, q)
      full == AddToWritePipeline(t, next)
  IN  StartIfNeeded(IF full.pipe = <<>> THEN MarkIdle(full) ELSE full)

\* Stream.Close, up to the call of OnWriteStreamClose.  The connection is
\* destroyed: neither side reads any more of it.
\* Mutant: replies of the old connection are still read.
CloseKeepsReplies(t, state) ==
  [t EXCEPT !.state = state, !.idle = FALSE, !.closes = @ + 1,
            !.requests = <<>>, !.status = "none"]

Close(t, state) ==
  [t EXCEPT !.state = state, !.idle = FALSE, !.closes = @ + 1,
            !.requests = <<>>, !.replies = <<>>, !.status = "none"]

Stop(t) == IF IsStarted(t) THEN [Close(t, "Initial") EXCEPT !.handshake = FALSE] ELSE t

\* The streams are stopped and opened again; InhibitBackoff forgets an error.
\* Mutant: the pipeline is kept.
RestartKeepingPipeline(t, q) ==
  FillWritePipeline([Stop(t) EXCEPT !.state = "Initial"], q)

RestartNetwork(t, q) ==
  FillWritePipeline([Stop(t) EXCEPT !.pipe = <<>>, !.state = "Initial"], q)

-----------------------------------------------------------------------------
(***************************************************************************)
(* SyncEngine and LocalStore                                               *)
(***************************************************************************)
\* NotifyUser: the callback kept under that id for the current user, if any.
NotifyUser(id, answer) ==
  LET heard == {c \in callbacks : c.by = user /\ c.id = id} IN
  /\ callbacks' = callbacks \ heard
  /\ told' = [w \in DOMAIN told |-> IF \E c \in heard : c.w = w THEN answer ELSE told[w]]

\* The batch leaves the queue: AcknowledgeBatch and RejectBatch.
Settle(id, answer) ==
  /\ queue' = [queue EXCEPT ![user] = RemoveMutationBatch(@, id)]
  /\ NotifyUser(id, answer)
  /\ UNCHANGED <<nextId, user, auth, by, log>>

\* The task of the user's change is behind the write, or was run before it.
NoUserTask == \A i \in DOMAIN tasks : tasks[i].kind # "user"

WriteMutations ==
  /\ Len(by) < MaxWrites /\ NoUserTask
  /\ LET b == Batch(nextId, Len(by) + 1) IN
       /\ queue' = [queue EXCEPT ![user] = Append(@, b)]
       /\ nextId' = nextId + 1
       /\ callbacks' = IF \E c \in callbacks : c.by = user /\ c.id = nextId THEN callbacks
                       ELSE callbacks \cup {[by |-> user, id |-> nextId, w |-> b.w]}
  /\ by' = Append(by, user)
  /\ told' = Append(told, "waiting")
  /\ s' = FillWritePipeline(s, queue'[user])
  /\ UNCHANGED <<user, auth, tasks, log, faults>>

-----------------------------------------------------------------------------
(***************************************************************************)
(* Opening the stream                                                      *)
(***************************************************************************)
Fault(n) == faults + n <= MaxFaults /\ faults' = faults + n

\* Auth answers a request for a token, with the token of its current user
\* (it asks again when the user changed meanwhile), or fails.  The answer is
\* a task behind the ones Auth has put on the worker queue before.
GetToken(k, ok) ==
  /\ k \in s.asks
  /\ s' = [s EXCEPT !.asks = @ \ {k}]
  /\ tasks' = Append(tasks, [kind |-> "token", closes |-> k, user |-> auth, ok |-> ok])
  /\ Fault(IF ok THEN 0 ELSE 1)
  /\ UNCHANGED <<queue, nextId, user, callbacks, auth, by, told, log>>

\* An error closes the stream.  Before the handshake it says nothing of the
\* writes; after it a permanent one rejects the first write of the pipeline.
IsPermanentError(code)      == code \in {"Aborted", "NotFound"}
IsPermanentWriteError(code) == IsPermanentError(code) /\ code # "Aborted"

Closed(t, rejects, q) ==
  LET c == Close(t, "Error")
      r == IF rejects
             THEN FillWritePipeline([c EXCEPT !.pipe = Tail(@), !.state = "Initial"], q)
             ELSE c
  IN  [StartIfNeeded(r) EXCEPT !.handshake = FALSE]

OnStreamFinish(code) ==
  LET rejects == s.pipe # <<>> /\ s.handshake /\ IsPermanentWriteError(code) IN
  /\ IF rejects THEN Settle(Head(s.pipe).id, "failed")
                ELSE UNCHANGED <<queue, nextId, user, callbacks, auth, by, told, log>>
  /\ s' = Closed(s, rejects, queue'[user])

\* The worker runs the answer to a request for a token.  If the stream was
\* closed since, nothing happens; if it failed, the stream closes; otherwise
\* the stream opens and the handshake is written.
ResumeStart ==
  /\ tasks # <<>> /\ Head(tasks).kind = "token"
  /\ tasks' = Tail(tasks)
  /\ LET token == Head(tasks) IN
       \/ /\ token.closes # s.closes
          /\ UNCHANGED <<queue, nextId, user, callbacks, s, auth, by, told, log>>
       \/ /\ token.closes = s.closes /\ ~token.ok
          /\ OnStreamFinish("Unavailable")
       \/ /\ token.closes = s.closes /\ token.ok
          /\ s' = Write([s EXCEPT !.state = "Open", !.cred = token.user], <<Handshake>>)
          /\ UNCHANGED <<queue, nextId, user, callbacks, auth, by, told, log>>
  /\ UNCHANGED faults

BackoffElapsed ==
  /\ s.state = "Backoff"
  /\ s' = Start([s EXCEPT !.state = "Initial"])
  /\ UNCHANGED <<queue, nextId, user, callbacks, auth, tasks, by, told, log, faults>>

-----------------------------------------------------------------------------
(***************************************************************************)
(* The open stream.  The server reads the requests of a stream in order    *)
(* and answers each, or ends the stream at one with a status.              *)
(***************************************************************************)
ServerAnswers ==
  /\ s.status = "none" /\ s.requests # <<>>
  /\ LET r == Head(s.requests) IN
       /\ s' = [s EXCEPT !.requests = Tail(@), !.replies = Append(@, r)]
       /\ log' = IF r = Handshake THEN log ELSE Append(log, r.w)
  /\ UNCHANGED <<queue, nextId, user, callbacks, auth, tasks, by, told, faults>>

ServerEnds(code) ==
  /\ s.status = "none" /\ s.requests # <<>>
  /\ Fault(IF IsPermanentWriteError(code) /\ Head(s.requests) # Handshake THEN 0 ELSE 1)
  /\ s' = [s EXCEPT !.requests = Tail(@), !.status = code]
  /\ UNCHANGED <<queue, nextId, user, callbacks, auth, tasks, by, told, log>>

\* The first reply of a stream completes the handshake, and the pipeline is
\* written; any other is the result of the first write of the pipeline.
\* Mutant: the writes are not sent again.
OnStreamReadNotResent ==
  /\ s.replies # <<>>
  /\ LET t == [s EXCEPT !.replies = Tail(@)] IN
       \/ /\ ~s.handshake
          /\ s' = [t EXCEPT !.handshake = TRUE]
          /\ UNCHANGED <<queue, nextId, user, callbacks, auth, by, told, log>>
       \/ /\ s.handshake
          /\ Settle(Head(s.pipe).id, "ok")
          /\ s' = FillWritePipeline([t EXCEPT !.pipe = Tail(@)], queue'[user])
  /\ UNCHANGED <<tasks, faults>>

\* Mutant: the pipeline is filled from the queue before the batch is removed.
OnStreamReadFilledEarly ==
  /\ s.replies # <<>>
  /\ LET t == [s EXCEPT !.replies = Tail(@)] IN
       \/ /\ ~s.handshake
          /\ s' = Write([t EXCEPT !.handshake = TRUE], s.pipe)
          /\ UNCHANGED <<queue, nextId, user, callbacks, auth, by, told, log>>
       \/ /\ s.handshake
          /\ Settle(Head(s.pipe).id, "ok")
          /\ s' = FillWritePipeline([t EXCEPT !.pipe = Tail(@)], queue[user])
  /\ UNCHANGED <<tasks, faults>>

OnStreamRead ==
  /\ s.replies # <<>>
  /\ LET t == [s EXCEPT !.replies = Tail(@)] IN
       \/ /\ ~s.handshake
          /\ s' = Write([t EXCEPT !.handshake = TRUE], s.pipe)
          /\ UNCHANGED <<queue, nextId, user, callbacks, auth, by, told, log>>
       \/ /\ s.handshake
          /\ Settle(Head(s.pipe).id, "ok")
          /\ s' = FillWritePipeline([t EXCEPT !.pipe = Tail(@)], queue'[user])
  /\ UNCHANGED <<tasks, faults>>

\* The server's status is read after its replies; but a failing write ends
\* the stream at once, and the replies not read yet are dropped.
ReadStatus ==
  /\ s.status # "none"
  /\ s.replies = <<>> \/ s.requests # <<>>
  /\ OnStreamFinish(s.status)
  /\ UNCHANGED <<tasks, faults>>

\* The connection breaks.  The writes the server had applied by then are
\* applied, and their answers are lost.
ConnectionLost ==
  /\ IsOpen(s)
  /\ Fault(1)
  /\ OnStreamFinish("Unavailable")
  /\ UNCHANGED tasks

IdleTimeout ==
  /\ s.idle
  /\ s' = Stop(s)
  /\ UNCHANGED <<queue, nextId, user, callbacks, auth, tasks, by, told, log, faults>>

-----------------------------------------------------------------------------
(***************************************************************************)
(* The network, the user and the process                                   *)
(***************************************************************************)
ConnectivityChanged ==
  /\ Fault(1)
  /\ s' = RestartNetwork(s, queue[user])
  /\ UNCHANGED <<queue, nextId, user, callbacks, auth, tasks, by, told, log>>

\* Auth notifies of a user, who may be the same one with a new token.
AuthStateChanged(u) ==
  /\ Fault(1)
  /\ auth' = u
  /\ tasks' = Append(tasks, [kind |-> "user", closes |-> 0, user |-> u, ok |-> TRUE])
  /\ UNCHANGED <<queue, nextId, user, callbacks, s, by, told, log>>

HandleCredentialChange ==
  /\ tasks # <<>> /\ Head(tasks).kind = "user"
  /\ tasks' = Tail(tasks)
  /\ user' = Head(tasks).user
  /\ nextId' = IF user' # user THEN LoadNextBatchIdFromDb(queue) ELSE nextId
  /\ s' = RestartNetwork(s, queue[user'])
  /\ UNCHANGED <<queue, callbacks, auth, by, told, log, faults>>

\* The app is killed and started again: FirestoreClient.Initialize.
\* Mutant: the queue was not on disk.
InitializeFromNothing ==
  /\ Fault(1)
  /\ queue' = [u \in Users |-> <<>>]
  /\ user' = auth
  /\ nextId' = 1
  /\ callbacks' = {}
  /\ told' = [w \in DOMAIN told |-> IF told[w] = "waiting" THEN "gone" ELSE told[w]]
  /\ tasks' = <<>>
  /\ s' = Idle
  /\ UNCHANGED <<auth, by, log>>

Initialize ==
  /\ Fault(1)
  /\ user' = auth
  /\ nextId' = LoadNextBatchIdFromDb(queue)
  /\ callbacks' = {}
  /\ told' = [w \in DOMAIN told |-> IF told[w] = "waiting" THEN "gone" ELSE told[w]]
  /\ tasks' = <<>>
  /\ s' = FillWritePipeline(Idle, queue[auth])
  /\ UNCHANGED <<queue, auth, by, log>>

Init ==
  /\ queue = [u \in Users |-> <<>>]
  /\ nextId = 1
  /\ user \in Users
  /\ callbacks = {}
  /\ s = Idle
  /\ auth = user
  /\ tasks = <<>>
  /\ by = <<>> /\ told = <<>> /\ log = <<>>
  /\ faults = 0

\* What Auth, the server and the worker queue go on doing by themselves.
Progress ==
  \/ \E k \in s.asks, ok \in BOOLEAN : GetToken(k, ok)
  \/ ResumeStart \/ BackoffElapsed \/ HandleCredentialChange
  \/ ServerAnswers \/ \E code \in Codes : ServerEnds(code)
  \/ OnStreamRead \/ ReadStatus

Next ==
  \/ WriteMutations \/ Progress \/ IdleTimeout
  \/ ConnectionLost \/ ConnectivityChanged \/ Initialize
  \/ \E u \in Users : AuthStateChanged(u)

Spec == Init /\ [][Next]_vars

\* Auth answers every request for a token, the server every request of an
\* open stream, and the worker runs every task and timer it is given.
Fairness ==
  /\ \A k \in 0..(MaxWrites + MaxFaults) : WF_vars(\E ok \in BOOLEAN : GetToken(k, ok))
  /\ WF_vars(ResumeStart) /\ WF_vars(BackoffElapsed) /\ WF_vars(HandleCredentialChange)
  /\ WF_vars(ServerAnswers \/ \E code \in Codes : ServerEnds(code))
  /\ WF_vars(OnStreamRead) /\ WF_vars(ReadStatus)

FairSpec == Spec /\ Fairness

-----------------------------------------------------------------------------
(***************************************************************************)
(* Properties                                                              *)
(***************************************************************************)
Batches == [id : 0..MaxWrites, w : 0..MaxWrites]
IsSeq(q, S) == DOMAIN q = 1..Len(q) /\ \A i \in DOMAIN q : q[i] \in S

\* The type of the state; the pipeline never holds more than kMaxPendingWrites.
TypeOK ==
  /\ \A u \in Users : IsSeq(queue[u], Batches)
  /\ nextId \in 1..(MaxWrites + 1)
  /\ user \in Users /\ auth \in Users
  /\ callbacks \subseteq [by : Users, id : 1..MaxWrites, w : 1..MaxWrites]
  /\ s.state \in States /\ s.handshake \in BOOLEAN /\ s.idle \in BOOLEAN
  /\ s.closes \in Nat /\ s.asks \subseteq 0..s.closes
  /\ s.cred \in Users /\ s.status \in Codes \cup {"none"}
  /\ IsSeq(s.pipe, Batches) /\ Len(s.pipe) <= kMaxPendingWrites
  /\ IsSeq(s.requests, Batches) /\ IsSeq(s.replies, Batches)
  /\ IsSeq(tasks, [kind : {"user", "token"}, closes : Nat, user : Users, ok : BOOLEAN])
  /\ IsSeq(by, Users) /\ IsSeq(told, {"waiting", "ok", "failed", "gone"})
  /\ IsSeq(log, 1..MaxWrites)
  /\ faults \in 0..MaxFaults

IsPrefix(p, q) == Len(p) <= Len(q) /\ \A i \in 1..Len(p) : p[i] = q[i]

(***************************************************************************)
(* The pipeline holds the first batches of the current user's queue, which *)
(* are in the order of their ids: whatever a batch in the pipeline is told *)
(* to do to the queue (HARD_ASSERT "Mutation batch %s did not exist") can  *)
(* be done, also after the user changed and ids were given out again.      *)
(***************************************************************************)
PipelineIsPrefix ==
  /\ IsPrefix(s.pipe, queue[user])
  /\ \A u \in Users : \A i, j \in DOMAIN queue[u] : i < j => queue[u][i].id < queue[u][j].id

(***************************************************************************)
(* A reply does not name its write: the code takes it for the result of    *)
(* the first write of the pipeline.  The replies on their way are those of *)
(* the first writes of the pipeline, in order, whatever was lost, resent   *)
(* or added since (so never "Got result for empty write pipeline").        *)
(***************************************************************************)
RepliesMatch == s.handshake => IsPrefix(s.replies, s.pipe)

(***************************************************************************)
(* HARD_ASSERTs of Stream and RemoteStore: an idle timer that fires finds  *)
(* no write in the pipeline ("Write stream was stopped gracefully while    *)
(* still needed"); nothing is written to, or read from, a stream that is   *)
(* not open; an answer for a token that is still wanted finds the stream   *)
(* starting ("State should still be 'Starting'"), and a starting stream    *)
(* has exactly one on its way.                                             *)
(***************************************************************************)
Assertions ==
  /\ s.idle => IsOpen(s) /\ s.pipe = <<>>
  /\ (s.handshake \/ s.requests # <<>> \/ s.replies # <<>>) => IsOpen(s)
  /\ LET answers == {i \in DOMAIN tasks : tasks[i].kind = "token" /\ tasks[i].closes = s.closes} IN
       /\ s.closes \in s.asks \/ answers # {} => s.state = "Starting"
       /\ s.state = "Starting" => (s.closes \in s.asks) # (answers # {})

(***************************************************************************)
(* Writes go to the server with the token of the user who made them, also  *)
(* when the user changes while a token is being fetched.                   *)
(***************************************************************************)
SentAsOwner == \A i \in DOMAIN s.requests : s.requests[i].w # 0 => by[s.requests[i].w] = s.cred

\* The refinement: a queue of writes, and the writes of this stream that are
\* applied and whose replies the client has not read.
Q == INSTANCE WriteQueue WITH
       pending <- [u \in Users |-> [i \in DOMAIN queue[u] |-> queue[u][i].w]],
       done <- IF s.handshake THEN Len(s.replies) ELSE 0

\* The pipeline keeps the SDK's promise, as WriteQueue states it: every task
\* of the worker and every fault is a step of the abstract queue, or none.
ImplementsQueue == Q!Spec

\* An acknowledged write is applied, and after all earlier ones (WriteQueue).
FinalOrder == Q!FinalOrder

\* No retry applies a write that was answered before (WriteQueue).
NoLateApply == Q!NoLateApply

(***************************************************************************)
(* Every write is settled: a queue that is not empty is, in the end, empty *)
(* or waits for its user to sign in again.  The faults of a behaviour are  *)
(* finitely many; without that no retry need ever succeed.                 *)
(***************************************************************************)
QueueDrains == \A u \in Users : (queue[u] # <<>>) ~> (queue[u] = <<>> \/ user # u)
-----------------------------------------------------------------------------
(***************************************************************************)
(* The invariants made inductive, and what the refinement needs.           *)
(***************************************************************************)
Streams == [state : States, handshake : BOOLEAN, closes : Nat, idle : BOOLEAN,
            asks : SUBSET Nat, pipe : Seq(Batches), cred : Users,
            requests : Seq(Batches), replies : Seq(Batches), status : Codes \cup {"none"}]
Tasks   == [kind : {"user", "token"}, closes : Nat, user : Users, ok : BOOLEAN]

PipeType ==
  /\ queue \in [Users -> Seq(Batches)]
  /\ nextId \in 1..(MaxWrites + 1)
  /\ user \in Users /\ auth \in Users
  /\ callbacks \subseteq [by : Users, id : 1..MaxWrites, w : 1..MaxWrites]
  /\ s \in Streams
  /\ tasks \in Seq(Tasks)
  /\ by \in Seq(Users) /\ told \in Seq({"waiting", "ok", "failed", "gone"})
  /\ Len(told) = Len(by) /\ Len(by) <= MaxWrites
  /\ log \in Seq(1..MaxWrites)
  /\ faults \in 0..MaxFaults

\* The rows of a user: in the order of their ids and of the writes.
Sorted(q) == \A i, j \in DOMAIN q : i < j => q[i].id < q[j].id /\ q[i].w < q[j].w

\* Each queue holds writes of its user; the next id is larger than any in use.
QueuesKept ==
  /\ \A u \in Users :
       /\ Sorted(queue[u])
       /\ \A i \in DOMAIN queue[u] : /\ queue[u][i].id \in 1..(nextId - 1)
                                     /\ queue[u][i].w \in DOMAIN by /\ by[queue[u][i].w] = u
  /\ nextId <= Len(by) + 1

\* Between the replies and the requests there is the one the server ended at.
Ended(t) == IF t.status = "none" THEN 0 ELSE 1

\* Once the handshake is done the replies, that one and the requests are the
\* pipeline; before it there is only the handshake on the connection; without
\* a connection there is nothing.
Matching(t) ==
  /\ t.handshake =>
       /\ IsOpen(t)
       /\ Len(t.replies) + Ended(t) + Len(t.requests) = Len(t.pipe)
       /\ \A i \in 1..Len(t.replies) : t.replies[i] = t.pipe[i]
       /\ \A i \in 1..Len(t.requests) : t.requests[i] = t.pipe[Len(t.replies) + Ended(t) + i]
  /\ IsOpen(t) /\ ~t.handshake =>
       \/ t.status = "none" /\ t.replies = <<>> /\ t.requests = <<Handshake>>
       \/ t.status = "none" /\ t.replies = <<Handshake>> /\ t.requests = <<>>
       \/ t.status # "none" /\ t.replies = <<>> /\ t.requests = <<>>
  /\ ~IsOpen(t) => t.status = "none" /\ t.replies = <<>> /\ t.requests = <<>>

\* The stream t of a user with queue q.
StreamKept(t, q) ==
  /\ IsPrefix(t.pipe, q) /\ Len(t.pipe) <= kMaxPendingWrites
  /\ Matching(t)
  /\ t.idle => IsOpen(t) /\ t.pipe = <<>>
  /\ IsStarted(t) /\ ~t.handshake => t.pipe # <<>>

\* The answers, among the tasks ts, that the stream t still wants.
Wanted(t, ts) == {i \in DOMAIN ts : ts[i].kind = "token" /\ ts[i].closes = t.closes}

TokensKept(t, ts) ==
  /\ t.asks \subseteq 0..t.closes
  /\ \A i \in DOMAIN ts : ts[i].kind = "token" => ts[i].closes <= t.closes
  /\ \A i, j \in Wanted(t, ts) : i = j
  /\ t.closes \in t.asks \/ Wanted(t, ts) # {} => t.state = "Starting"
  /\ t.state = "Starting" => (t.closes \in t.asks) # (Wanted(t, ts) # {})

\* Every token on the worker queue is that of the user who will be current
\* when the worker comes to it, and a stream that is open was opened as the
\* current user.
OwnersKept ==
  /\ \A i \in DOMAIN tasks :
       tasks[i].kind = "token" => tasks[i].user = IF i = 1 THEN user ELSE tasks[i - 1].user
  /\ auth = IF tasks = <<>> THEN user ELSE tasks[Len(tasks)].user
  /\ IsOpen(s) => s.cred = user

\* A callback is kept for exactly the queued writes whose caller waits.
CallbacksKept ==
  /\ \A c \in callbacks : \E i \in DOMAIN queue[c.by] :
       queue[c.by][i] = Batch(c.id, c.w) /\ told[c.w] = "waiting"
  /\ \A u \in Users : \A i \in DOMAIN queue[u] :
       told[queue[u][i].w] = "waiting" => [by |-> u, id |-> queue[u][i].id, w |-> queue[u][i].w] \in callbacks

PipelineInv ==
  /\ PipeType /\ QueuesKept /\ OwnersKept /\ CallbacksKept
  /\ StreamKept(s, queue[user]) /\ TokensKept(s, tasks)
=============================================================================
