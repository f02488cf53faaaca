----------------------------- MODULE WriteQueue -----------------------------
(***************************************************************************)
(* What the Firestore SDK promises the app about the writes of one device. *)
(*                                                                         *)
(* A write is queued for the user who is signed in when it is made, and    *)
(* only the queue of the current user is sent.  The server applies the     *)
(* queued writes in order; an answer takes the first one off the queue and *)
(* goes to its caller.  When the connection is lost the writes not yet     *)
(* answered are sent again from the first, so a write may be applied more  *)
(* than once; when the app is killed the queue stays and the callers are   *)
(* gone.  A write is refused by the server at most as the first of its     *)
(* queue, and may then have been applied by an earlier attempt.            *)
(*                                                                         *)
(* This is the specification the modules of the app assume of the SDK, and *)
(* WritePipeline implements.                                               *)
(***************************************************************************)
EXTENDS Naturals, Sequences

CONSTANT Users

VARIABLES
  user,     \* whose queue is sent
  pending,  \* pending[u]: the queue of u, of write numbers
  done,     \* how many of the first writes are applied and not answered
  by,       \* by[w]: who made write w; the writes are numbered as they are made
  told,     \* told[w]: what its caller knows of w
  log       \* the writes the server has applied, in order

vars == <<user, pending, done, by, told, log>>

Answers == {"ok", "failed"}
Known   == Answers \cup {"waiting", "gone"}

Init ==
  /\ user \in Users
  /\ pending = [u \in Users |-> <<>>]
  /\ done = 0
  /\ by = <<>>
  /\ told = <<>>
  /\ log = <<>>

Submit ==
  /\ by' = Append(by, user)
  /\ told' = Append(told, "waiting")
  /\ pending' = [pending EXCEPT ![user] = Append(@, Len(by) + 1)]
  /\ UNCHANGED <<user, done, log>>

\* The server applies the next write of the current attempt.
Apply ==
  /\ done < Len(pending[user])
  /\ log' = Append(log, pending[user][done + 1])
  /\ done' = done + 1
  /\ UNCHANGED <<user, pending, by, told>>

\* The first write leaves the queue, and its caller hears of it.
Settle(answer) ==
  /\ pending[user] # <<>>
  /\ pending' = [pending EXCEPT ![user] = Tail(@)]
  /\ told' = [w \in DOMAIN told |->
                IF w = Head(pending[user]) /\ told[w] = "waiting" THEN answer ELSE told[w]]
  /\ UNCHANGED <<user, by, log>>

Acknowledge == done > 0 /\ done' = done - 1 /\ Settle("ok")
Reject      == done' = 0 /\ Settle("failed")

\* The connection is lost: the queue is sent again from its first write.
Retry == done' = 0 /\ UNCHANGED <<user, pending, by, told, log>>

SignIn(u) == user' = u /\ done' = 0 /\ UNCHANGED <<pending, by, told, log>>

\* The app is killed and started again.
Restart ==
  /\ told' = [w \in DOMAIN told |-> IF told[w] = "waiting" THEN "gone" ELSE told[w]]
  /\ done' = 0
  /\ \E u \in Users : user' = u
  /\ UNCHANGED <<pending, by, log>>

Next ==
  \/ Submit \/ Apply \/ Acknowledge \/ Reject \/ Retry \/ Restart
  \/ \E u \in Users : SignIn(u)

Spec == Init /\ [][Next]_vars

-----------------------------------------------------------------------------
Queued(w) == \E u \in Users : \E i \in DOMAIN pending[u] : pending[u][i] = w

\* The last time the server applied w.
IsLast(i, w) == log[i] = w /\ \A j \in DOMAIN log : log[j] = w => j <= i

\* v is applied, and for the last time after every earlier write of its user
\* that was applied at all.
InOrder(v) ==
  \E i \in DOMAIN log :
    /\ IsLast(i, v)
    /\ \A j \in DOMAIN log : \A w \in DOMAIN told :
         (IsLast(j, w) /\ w < v /\ by[w] = by[v]) => j < i

(***************************************************************************)
(* The answer a caller waits for means what the app takes it to mean: when *)
(* a write is acknowledged it has been applied, and every earlier write of *)
(* that user which was applied at all was applied, for the last time,      *)
(* before it.  A write sent again never overtakes an acknowledged one.     *)
(***************************************************************************)
FinalOrder == \A v \in DOMAIN told : told[v] = "ok" => InOrder(v)

(***************************************************************************)
(* The server never applies a write that has left the queue: once a write  *)
(* is answered, or rejected, no retry brings it back.                      *)
(***************************************************************************)
NoLateApply == [][log' # log => Queued(log'[Len(log')])]_vars

-----------------------------------------------------------------------------
(***************************************************************************)
(* FinalOrder made inductive.                                              *)
(***************************************************************************)
QueueType ==
  /\ user \in Users
  /\ pending \in [Users -> Seq(Nat)]
  /\ done \in Nat /\ done <= Len(pending[user])
  /\ by \in Seq(Users) /\ told \in Seq(Known) /\ Len(told) = Len(by)
  /\ log \in Seq(Nat)

\* Each queue holds writes of its user, in the order they were made, and the
\* server has applied writes that were made.
QueuesSorted ==
  /\ \A u \in Users : \A i \in DOMAIN pending[u] :
       /\ pending[u][i] \in DOMAIN by /\ by[pending[u][i]] = u
       /\ \A j \in DOMAIN pending[u] : i < j => pending[u][i] < pending[u][j]
  /\ \A i \in DOMAIN log : log[i] \in DOMAIN by

\* Nothing older than an acknowledged write is still queued, so that nothing
\* older will be applied again; the writes applied and not answered are in order.
QueueInv ==
  /\ QueueType /\ QueuesSorted /\ FinalOrder
  /\ \A v \in DOMAIN told : told[v] = "ok" =>
       \A i \in DOMAIN pending[by[v]] : v < pending[by[v]][i]
  /\ \A k \in 1..done : InOrder(pending[user][k])
=============================================================================
