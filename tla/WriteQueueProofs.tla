-------------------------- MODULE WriteQueueProofs --------------------------
(***************************************************************************)
(* Theorems about WriteQueue, for any users and any number of writes.      *)
(***************************************************************************)
EXTENDS WriteQueue, TLAPS

\* The last application of a write is where it was when another one is applied.
LEMMA AppendedLast ==
  ASSUME log \in Seq(Nat), NEW x \in Nat, log' = Append(log, x)
  PROVE  /\ DOMAIN log' = 1..(Len(log) + 1) /\ DOMAIN log = 1..Len(log) /\ Len(log) \in Nat
         /\ log'[Len(log) + 1] = x /\ \A i \in DOMAIN log : log'[i] = log[i]
         /\ \A w : w # x => \A i \in DOMAIN log' : IsLast(i, w)' <=> i \in DOMAIN log /\ IsLast(i, w)
         /\ \A i \in DOMAIN log' : IsLast(i, x)' <=> i = Len(log) + 1
<1>1. /\ DOMAIN log' = 1..(Len(log) + 1) /\ DOMAIN log = 1..Len(log) /\ Len(log) \in Nat
      /\ log'[Len(log) + 1] = x /\ \A i \in DOMAIN log : log'[i] = log[i]
  OBVIOUS
<1>2. ASSUME NEW w, w # x, NEW i \in DOMAIN log'
      PROVE  IsLast(i, w)' <=> i \in DOMAIN log /\ IsLast(i, w)
  BY <1>1, <1>2 DEF IsLast
<1>3. ASSUME NEW i \in DOMAIN log'
      PROVE  IsLast(i, x)' <=> i = Len(log) + 1
  BY <1>1 DEF IsLast
<1> QED BY <1>1, <1>2, <1>3

\* Without a new application, the order of the old writes stays as it is.
LEMMA OrderKept ==
  ASSUME QueueType, QueuesSorted, UNCHANGED log,
         DOMAIN told \subseteq DOMAIN told',
         \A w \in DOMAIN told : by'[w] = by[w],
         NEW v \in DOMAIN told, InOrder(v)
  PROVE  InOrder(v)'
<1>0. DOMAIN told = DOMAIN by
  BY DEF QueueType
<1>1. PICK i \in DOMAIN log :
        /\ IsLast(i, v)
        /\ \A j \in DOMAIN log : \A w \in DOMAIN told :
             (IsLast(j, w) /\ w < v /\ by[w] = by[v]) => j < i
  BY DEF InOrder
<1>2. \A j, w : IsLast(j, w)' <=> IsLast(j, w)
  BY DEF IsLast
<1>3. ASSUME NEW j \in DOMAIN log, NEW w, IsLast(j, w)
      PROVE  w \in DOMAIN told
  BY <1>0, <1>3 DEF IsLast, QueuesSorted
<1> QED BY <1>1, <1>2, <1>3 DEF InOrder

\* The initial states satisfy the invariant.
LEMMA InitQueue == Init => QueueInv
BY DEF Init, QueueInv, QueueType, QueuesSorted, FinalOrder

\* Submit keeps the invariant: the new write is the last of its user's.
LEMMA SubmitQueue ==
  ASSUME QueueInv, Submit
  PROVE  QueueInv'
<1> USE DEF QueueInv, QueueType
<1> DEFINE n == Len(by) + 1
<1>1. /\ n \in Nat /\ DOMAIN by = 1..Len(by) /\ DOMAIN told = 1..Len(by)
      /\ by' = Append(by, user) /\ told' = Append(told, "waiting") /\ log' = log
      /\ user' = user /\ done' = done
      /\ pending' = [pending EXCEPT ![user] = Append(@, n)]
  BY DEF Submit
<1>2. /\ DOMAIN by' = 1..n /\ by' \in Seq(Users) /\ by'[n] = user
      /\ \A w \in DOMAIN by : by'[w] = by[w]
  BY <1>1
<1>3. /\ DOMAIN told' = 1..n /\ told' \in Seq(Known) /\ told'[n] = "waiting" /\ Len(told') = Len(by')
      /\ \A w \in DOMAIN told : told'[w] = told[w]
  BY <1>1 DEF Known
<1>4. /\ pending' \in [Users -> Seq(Nat)]
      /\ \A u \in Users : u # user => pending'[u] = pending[u]
      /\ DOMAIN pending'[user] = 1..(Len(pending[user]) + 1)
      /\ DOMAIN pending[user] = 1..Len(pending[user])
      /\ Len(pending[user]) \in Nat /\ Len(pending'[user]) = Len(pending[user]) + 1
      /\ pending'[user][Len(pending[user]) + 1] = n
      /\ \A i \in DOMAIN pending[user] : pending'[user][i] = pending[user][i]
  BY <1>1
<1> HIDE DEF n
<1>5. QueueType'
  BY <1>1, <1>2, <1>3, <1>4
<1>6. QueuesSorted'
  <2>1. ASSUME NEW u \in Users, NEW i \in DOMAIN pending'[u]
        PROVE  /\ pending'[u][i] \in DOMAIN by' /\ by'[pending'[u][i]] = u
               /\ \A j \in DOMAIN pending'[u] : i < j => pending'[u][i] < pending'[u][j]
    <3>1. CASE u # user
      BY <1>1, <1>2, <1>4, <3>1 DEF QueuesSorted, n
    <3>2. CASE u = user
      <4>1. \A k \in DOMAIN pending[user] : /\ pending[user][k] \in 1..Len(by)
                                            /\ by[pending[user][k]] = user
        BY <1>1 DEF QueuesSorted
      <4>2. \A k, l \in DOMAIN pending[user] : k < l => pending[user][k] < pending[user][l]
        BY DEF QueuesSorted
      <4>3. CASE i \in DOMAIN pending[user]
        <5>1. pending'[user][i] = pending[user][i] /\ pending[user][i] \in 1..Len(by)
          BY <1>4, <4>1, <4>3
        <5>2. by'[pending[user][i]] = user
          BY <1>1, <1>2, <4>1, <4>3
        <5>3. ASSUME NEW j \in DOMAIN pending'[user], i < j
              PROVE  pending[user][i] < pending'[user][j]
          <6>1. CASE j \in DOMAIN pending[user]
            BY <1>4, <4>2, <4>3, <5>3, <6>1
          <6>2. CASE j = Len(pending[user]) + 1
            BY <1>1, <1>4, <5>1, <6>2 DEF n
          <6> QED BY <1>4, <6>1, <6>2
        <5>4. pending[user][i] \in DOMAIN by'
          BY <1>1, <1>2, <5>1 DEF n
        <5> QED BY <3>2, <5>1, <5>2, <5>3, <5>4
      <4>4. CASE i = Len(pending[user]) + 1
        <5>1. pending'[user][i] = n /\ n \in DOMAIN by' /\ by'[n] = user
          BY <1>1, <1>2, <1>4, <4>4 DEF n
        <5>2. \A j \in DOMAIN pending'[user] : ~(i < j)
          BY <1>4, <4>4
        <5> QED BY <3>2, <5>1, <5>2
      <4> QED BY <1>4, <3>2, <4>3, <4>4
    <3> QED BY <3>1, <3>2
  <2>2. \A i \in DOMAIN log' : log'[i] \in DOMAIN by'
    BY <1>1, <1>2 DEF QueuesSorted, n
  <2> QED BY <2>1, <2>2 DEF QueuesSorted
<1>7. \A v \in DOMAIN told : InOrder(v) => InOrder(v)'
  BY <1>1, <1>2, <1>3, OrderKept DEF n
<1>8. \A v \in DOMAIN told' : told'[v] = "ok" => v \in DOMAIN told /\ told[v] = "ok"
  BY <1>1, <1>3 DEF n
<1>9. FinalOrder'
  BY <1>7, <1>8 DEF FinalOrder
<1>10. ASSUME NEW v \in DOMAIN told', told'[v] = "ok", NEW i \in DOMAIN pending'[by'[v]]
       PROVE  v < pending'[by'[v]][i]
  <2>1. v \in DOMAIN told /\ told[v] = "ok" /\ by'[v] = by[v] /\ by[v] \in Users /\ v < n /\ v \in Nat
    BY <1>1, <1>2, <1>8, <1>10 DEF n
  <2>2. CASE by[v] # user
    BY <1>4, <1>10, <2>1, <2>2
  <2>3. CASE by[v] = user /\ i \in DOMAIN pending[user]
    BY <1>4, <2>1, <2>3
  <2>4. CASE by[v] = user /\ i = Len(pending[user]) + 1
    BY <1>4, <2>1, <2>4
  <2>5. by[v] = user => i \in 1..(Len(pending[user]) + 1)
    <3> SUFFICES ASSUME by[v] = user PROVE i \in 1..(Len(pending[user]) + 1)
      OBVIOUS
    <3>1. DOMAIN pending'[by'[v]] = 1..(Len(pending[user]) + 1)
      BY <1>4, <2>1
    <3> QED BY <3>1
  <2>6. \A m \in 1..(Len(pending[user]) + 1) : m \in DOMAIN pending[user] \/ m = Len(pending[user]) + 1
    BY <1>4
  <2> QED BY <2>2, <2>3, <2>4, <2>5, <2>6
<1>11. ASSUME NEW k \in 1..done'
       PROVE  InOrder(pending[user][k])' 
  <2>1. /\ k \in 1..done /\ k \in DOMAIN pending[user]
        /\ pending'[user'][k] = pending[user][k] /\ pending[user][k] \in DOMAIN told
    BY <1>1, <1>4 DEF QueuesSorted
  <2>2. PICK w \in DOMAIN told : w = pending[user][k]
    BY <2>1
  <2>3. InOrder(w)'
    BY <1>7, <2>1, <2>2
  <2> QED BY <2>1, <2>2, <2>3 DEF InOrder, IsLast
<1> QED BY <1>5, <1>6, <1>9, <1>10, <1>11

\* The server applies the next write of the queue: it is newer than every
\* acknowledged one of its user, so nothing that was in order is disturbed.
LEMMA ApplyQueue ==
  ASSUME QueueInv, Apply
  PROVE  QueueInv'
<1>1. /\ user \in Users /\ pending \in [Users -> Seq(Nat)] /\ done \in Nat
      /\ log \in Seq(Nat) /\ DOMAIN told = DOMAIN by /\ DOMAIN by \subseteq Nat
  BY DEF QueueInv, QueueType
<1>0. PICK x : x = pending[user][done + 1]
  OBVIOUS
<1>2. /\ log' = Append(log, x) /\ done' = done + 1 /\ done + 1 \in DOMAIN pending[user]
      /\ UNCHANGED <<user, pending, by, told>>
  BY <1>0, <1>1 DEF Apply
<1>3. /\ x \in DOMAIN by /\ by[x] = user /\ x \in Nat
      /\ \A k \in 1..done : k \in DOMAIN pending[user] /\ pending[user][k] < x
                            /\ pending[user][k] \in DOMAIN by
  <2>1. /\ \A k \in DOMAIN pending[user] : pending[user][k] \in DOMAIN by /\ by[pending[user][k]] = user
        /\ \A k, l \in DOMAIN pending[user] : k < l => pending[user][k] < pending[user][l]
    BY <1>1 DEF QueueInv, QueuesSorted
  <2>2. \A k \in 1..done : k \in DOMAIN pending[user] /\ k < done + 1
    BY <1>1, <1>2
  <2> QED BY <1>0, <1>1, <1>2, <2>1, <2>2
<1>4. /\ DOMAIN log' = 1..(Len(log) + 1) /\ DOMAIN log = 1..Len(log) /\ Len(log) \in Nat
      /\ log'[Len(log) + 1] = x /\ \A i \in DOMAIN log : log'[i] = log[i]
      /\ \A w : w # x => \A i \in DOMAIN log' : IsLast(i, w)' <=> i \in DOMAIN log /\ IsLast(i, w)
      /\ \A i \in DOMAIN log' : IsLast(i, x)' <=> i = Len(log) + 1
  BY <1>1, <1>2, <1>3, AppendedLast
<1>5. QueueType'
  <2>1. log' \in Seq(Nat)
    BY <1>1, <1>2, <1>3
  <2>2. done' \in Nat /\ done' <= Len(pending'[user'])
    BY <1>1, <1>2
  <2> QED BY <1>2, <2>1, <2>2 DEF QueueInv, QueueType
<1>6. QueuesSorted'
  BY <1>2, <1>3, <1>4 DEF QueueInv, QueuesSorted
<1>7. InOrder(x)'
  <2>0. PICK m : m = Len(log) + 1
    OBVIOUS
  <2>1. IsLast(m, x)' /\ m \in DOMAIN log'
    BY <1>4, <2>0
  <2>2. ASSUME NEW j \in DOMAIN log', NEW w \in DOMAIN told, IsLast(j, w)', w < x
        PROVE  j < m
    <3>1. w # x
      BY <1>1, <1>3, <2>2
    <3> QED BY <1>4, <2>0, <2>2, <3>1
  <2> QED BY <1>2, <2>1, <2>2 DEF InOrder
<1>8. ASSUME NEW v \in DOMAIN told, InOrder(v), v < x \/ by[v] # user
      PROVE  InOrder(v)'
  <2>0. v # x
    BY <1>1, <1>3, <1>8
  <2>1. PICK i \in DOMAIN log :
          /\ IsLast(i, v)
          /\ \A j \in DOMAIN log : \A w \in DOMAIN told :
               (IsLast(j, w) /\ w < v /\ by[w] = by[v]) => j < i
    BY <1>8 DEF InOrder
  <2>2. i \in DOMAIN log' /\ IsLast(i, v)'
    BY <1>4, <2>0, <2>1
  <2>3. ASSUME NEW j \in DOMAIN log', NEW w \in DOMAIN told,
               IsLast(j, w)', w < v, by[w] = by[v]
        PROVE  j < i
    <3>1. w # x
      BY <1>1, <1>3, <1>8, <2>3
    <3>2. j \in DOMAIN log /\ IsLast(j, w)
      BY <1>4, <2>3, <3>1
    <3> QED BY <2>1, <2>3, <3>2
  <2> QED BY <1>2, <2>2, <2>3 DEF InOrder
<1>9. \A v \in DOMAIN told : told[v] = "ok" => InOrder(v) /\ (v < x \/ by[v] # user)
  <2> SUFFICES ASSUME NEW v \in DOMAIN told, told[v] = "ok"
               PROVE  InOrder(v) /\ (v < x \/ by[v] # user)
    OBVIOUS
  <2>1. InOrder(v)
    BY DEF QueueInv, FinalOrder
  <2>2. ASSUME by[v] = user PROVE v < pending[user][done + 1]
    BY <1>2, <2>2 DEF QueueInv
  <2> QED BY <1>0, <2>1, <2>2
<1>10. FinalOrder'
  BY <1>2, <1>8, <1>9 DEF FinalOrder
<1>11. \A k \in 1..done' : InOrder(pending[user][k])'
  <2> SUFFICES ASSUME NEW k \in 1..(done + 1) PROVE InOrder(pending[user][k])'
    BY <1>2
  <2>1. CASE k = done + 1
    <3>1. pending'[user'][k] = x
      BY <1>0, <1>2, <2>1
    <3> QED BY <1>7, <3>1 DEF InOrder, IsLast
  <2>2. CASE k \in 1..done
    <3>1. PICK w \in DOMAIN told : w = pending[user][k]
      BY <1>1, <1>3, <2>2
    <3>2. w < x /\ InOrder(w) /\ pending'[user'][k] = w
      BY <1>2, <1>3, <2>2, <3>1 DEF QueueInv
    <3>3. InOrder(w)'
      BY <1>8, <3>2
    <3> QED BY <3>2, <3>3 DEF InOrder, IsLast
  <2>3. k \in 1..done \/ k = done + 1
    BY <1>1
  <2> QED BY <2>1, <2>2, <2>3
<1> QED BY <1>2, <1>5, <1>6, <1>10, <1>11 DEF QueueInv

\* An answer takes the first write off the queue.
LEMMA SettleQueue ==
  ASSUME QueueInv, Acknowledge \/ Reject
  PROVE  QueueInv'
<1>0. PICK h : h = Head(pending[user])
  OBVIOUS
<1>1. /\ user \in Users /\ pending \in [Users -> Seq(Nat)] /\ done \in Nat
      /\ done <= Len(pending[user]) /\ DOMAIN told = DOMAIN by /\ DOMAIN by \subseteq Nat
      /\ told \in Seq(Known) /\ by \in Seq(Users)
  BY DEF QueueInv, QueueType
<1>2. PICK answer \in Answers :
        /\ Settle(answer)
        /\ answer = "ok" => done > 0 /\ done' = done - 1
        /\ answer # "ok" => done' = 0
  BY DEF Acknowledge, Reject, Answers
<1>3. /\ UNCHANGED <<user, by, log>> /\ pending[user] # <<>>
      /\ pending' = [pending EXCEPT ![user] = Tail(@)]
      /\ told' = [w \in DOMAIN told |-> IF w = h /\ told[w] = "waiting" THEN answer ELSE told[w]]
  BY <1>0, <1>2 DEF Settle
<1>4. /\ pending' \in [Users -> Seq(Nat)]
      /\ \A u \in Users : u # user => pending'[u] = pending[u]
      /\ Len(pending[user]) \in Nat \ {0} /\ DOMAIN pending[user] = 1..Len(pending[user])
      /\ Len(pending'[user]) = Len(pending[user]) - 1
      /\ DOMAIN pending'[user] = 1..(Len(pending[user]) - 1)
      /\ \A i \in 1..(Len(pending[user]) - 1) : pending'[user][i] = pending[user][i + 1]
      /\ h = pending[user][1] /\ 1 \in DOMAIN pending[user]
      /\ \A i \in DOMAIN pending'[user] :
           /\ i \in Nat /\ 1 < i + 1 /\ i + 1 \in DOMAIN pending[user]
           /\ pending'[user][i] = pending[user][i + 1]
  <2>1. pending[user] \in Seq(Nat) /\ pending[user] # <<>>
    BY <1>1, <1>3
  <2>2. pending'[user] = Tail(pending[user]) /\ Tail(pending[user]) \in Seq(Nat)
    BY <1>1, <1>3, <2>1
  <2>3. pending' \in [Users -> Seq(Nat)] /\ \A u \in Users : u # user => pending'[u] = pending[u]
    BY <1>1, <1>3, <2>2
  <2>4. /\ Len(pending[user]) \in Nat \ {0} /\ DOMAIN pending[user] = 1..Len(pending[user])
        /\ Len(pending'[user]) = Len(pending[user]) - 1
        /\ DOMAIN pending'[user] = 1..(Len(pending[user]) - 1)
        /\ \A i \in 1..(Len(pending[user]) - 1) : pending'[user][i] = pending[user][i + 1]
        /\ h = pending[user][1]
    BY <1>0, <2>1, <2>2
  <2>5. PICK n \in Nat \ {0} : n = Len(pending[user])
    BY <2>4
  <2>6. 1 \in 1..n /\ \A i \in 1..(n - 1) : i \in Nat /\ 1 < i + 1 /\ i + 1 \in 1..n
    BY <2>5
  <2> QED BY <2>3, <2>4, <2>5, <2>6
<1>5. h \in DOMAIN by /\ by[h] = user /\ \A i \in DOMAIN pending'[user] : h < pending'[user][i]
  <2>1. /\ pending[user][1] \in DOMAIN by /\ by[pending[user][1]] = user
        /\ \A j \in DOMAIN pending[user] : 1 < j => pending[user][1] < pending[user][j]
    BY <1>1, <1>4 DEF QueueInv, QueuesSorted
  <2> QED BY <1>4, <2>1
<1>6. QueueType'
  <2>1. told' \in Seq(Known) /\ Len(told') = Len(told)
    <3>1. told \in [1..Len(told) -> Known] /\ Len(told) \in Nat
      BY <1>1
    <3>2. told' \in [1..Len(told) -> Known]
      BY <1>2, <1>3, <3>1 DEF Known
    <3> QED BY <3>1, <3>2
  <2>2. done' \in Nat /\ done' <= Len(pending'[user'])
    <3>1. user' = user /\ Len(pending'[user]) = Len(pending[user]) - 1
      BY <1>3, <1>4
    <3>2. CASE answer = "ok"
      BY <1>1, <1>2, <1>4, <3>1, <3>2
    <3>3. CASE answer # "ok"
      BY <1>2, <1>4, <3>1, <3>3
    <3> QED BY <3>2, <3>3
  <2> QED BY <1>3, <1>4, <2>1, <2>2 DEF QueueInv, QueueType
<1>7. QueuesSorted'
  <2>1. ASSUME NEW u \in Users, NEW i \in DOMAIN pending'[u]
        PROVE  /\ pending'[u][i] \in DOMAIN by /\ by[pending'[u][i]] = u
               /\ \A j \in DOMAIN pending'[u] : i < j => pending'[u][i] < pending'[u][j]
    <3>1. CASE u # user
      BY <1>4, <2>1, <3>1 DEF QueueInv, QueuesSorted
    <3>2. CASE u = user
      <4>1. /\ \A k \in DOMAIN pending[user] : pending[user][k] \in DOMAIN by /\ by[pending[user][k]] = user
            /\ \A k, l \in DOMAIN pending[user] : k < l => pending[user][k] < pending[user][l]
        BY <1>1 DEF QueueInv, QueuesSorted
      <4>2. ASSUME NEW k \in DOMAIN pending'[user]
            PROVE  k \in Nat /\ k + 1 \in DOMAIN pending[user] /\ pending'[user][k] = pending[user][k + 1]
        BY <1>4
      <4>3. pending'[user][i] \in DOMAIN by /\ by[pending'[user][i]] = user
        BY <3>2, <4>1, <4>2
      <4>4. ASSUME NEW j \in DOMAIN pending'[user], i < j
            PROVE  pending'[user][i] < pending'[user][j]
        <5>1. i \in Nat /\ j \in Nat /\ i + 1 < j + 1
          BY <3>2, <4>2, <4>4
        <5> QED BY <3>2, <4>1, <4>2, <5>1
      <4> QED BY <3>2, <4>3, <4>4
    <3> QED BY <3>1, <3>2
  <2>2. \A i \in DOMAIN log : log[i] \in DOMAIN by
    BY DEF QueueInv, QueuesSorted
  <2> QED BY <1>3, <2>1, <2>2 DEF QueuesSorted
<1>8. \A v \in DOMAIN told : InOrder(v) => InOrder(v)'
  BY <1>3, OrderKept DEF QueueInv
<1>9. /\ DOMAIN told' = DOMAIN told
      /\ \A v \in DOMAIN told : told'[v] = "ok" => told[v] = "ok" \/ (v = h /\ answer = "ok")
  BY <1>3
<1>10. FinalOrder'
  <2>1. answer = "ok" => InOrder(h)
    BY <1>1, <1>2, <1>4 DEF QueueInv
  <2> QED BY <1>8, <1>9, <2>1 DEF QueueInv, FinalOrder
<1>11. ASSUME NEW v \in DOMAIN told, told'[v] = "ok", NEW i \in DOMAIN pending'[by[v]]
       PROVE  v < pending'[by[v]][i]
  <2>1. CASE v = h
    BY <1>5, <1>11, <2>1
  <2>2. CASE told[v] = "ok" /\ by[v] # user
    BY <1>1, <1>4, <1>11, <2>2 DEF QueueInv
  <2>3. CASE told[v] = "ok" /\ by[v] = user
    <3>1. \A k \in DOMAIN pending[user] : v < pending[user][k]
      BY <2>3 DEF QueueInv
    <3>2. i + 1 \in DOMAIN pending[user] /\ pending'[user][i] = pending[user][i + 1]
      <4>1. i \in DOMAIN pending'[user]
        BY <1>11, <2>3
      <4> QED BY <1>4, <4>1
    <3> QED BY <2>3, <3>1, <3>2
  <2> QED BY <1>9, <1>11, <2>1, <2>2, <2>3
<1>12. \A k \in 1..done' : InOrder(pending[user][k])'
  <2> SUFFICES ASSUME NEW k \in 1..done' PROVE InOrder(pending[user][k])'
    OBVIOUS
  <2>1. answer = "ok" /\ done' = done - 1 /\ k + 1 \in 1..done
    BY <1>1, <1>2
  <2>2. PICK w : w = pending[user][k + 1]
    OBVIOUS
  <2>3. k + 1 \in DOMAIN pending[user] /\ pending'[user'][k] = w
    BY <1>1, <1>3, <1>4, <2>1, <2>2
  <2>4. InOrder(w)'
    <3>1. w \in DOMAIN told
      BY <1>1, <2>2, <2>3 DEF QueueInv, QueuesSorted
    <3>2. InOrder(w)
      BY <2>1, <2>2 DEF QueueInv
    <3> QED BY <1>8, <3>1, <3>2
  <2> QED BY <2>3, <2>4 DEF InOrder, IsLast
<1> QED BY <1>3, <1>6, <1>7, <1>9, <1>10, <1>11, <1>12 DEF QueueInv

\* The queue is sent again from its first write, for whichever user.
LEMMA RetryQueue ==
  ASSUME QueueInv, Retry \/ Restart \/ \E u \in Users : SignIn(u)
  PROVE  QueueInv'
<1>1. /\ user' \in Users /\ done' = 0 /\ UNCHANGED <<pending, by, log>>
      /\ DOMAIN told' = DOMAIN told
      /\ \A v \in DOMAIN told : told'[v] = "ok" <=> told[v] = "ok"
  BY DEF QueueInv, QueueType, Retry, Restart, SignIn
<1>2. QueueType'
  <2>1. told \in [1..Len(told) -> Known] /\ Len(told) \in Nat
    BY DEF QueueInv, QueueType
  <2>2. told' \in [1..Len(told) -> Known]
    BY <2>1 DEF Retry, Restart, SignIn, Known
  <2>3. told' \in Seq(Known) /\ Len(told') = Len(told)
    BY <2>1, <2>2
  <2>4. Len(pending'[user']) \in Nat
    BY <1>1 DEF QueueInv, QueueType
  <2> QED BY <1>1, <2>3, <2>4 DEF QueueInv, QueueType
<1>3. QueuesSorted'
  BY <1>1 DEF QueueInv, QueuesSorted
<1>4. \A v \in DOMAIN told : InOrder(v) => InOrder(v)'
  BY <1>1, OrderKept DEF QueueInv
<1>5. FinalOrder'
  BY <1>1, <1>4 DEF QueueInv, FinalOrder
<1> QED BY <1>1, <1>2, <1>3, <1>5 DEF QueueInv

\* Every step keeps the invariant.
LEMMA NextQueue == QueueInv /\ [Next]_vars => QueueInv'
<1> SUFFICES ASSUME QueueInv, [Next]_vars PROVE QueueInv'
  OBVIOUS
<1>1. CASE Next
  BY <1>1, SubmitQueue, ApplyQueue, SettleQueue, RetryQueue DEF Next
<1>2. CASE UNCHANGED vars
  <2>1. \A v \in DOMAIN told : InOrder(v) => InOrder(v)'
    BY <1>2, OrderKept DEF QueueInv, vars
  <2>2. FinalOrder'
    BY <1>2, <2>1 DEF QueueInv, FinalOrder, vars
  <2>3. \A k \in 1..done' : InOrder(pending[user][k])'
    BY <1>2 DEF QueueInv, vars, InOrder, IsLast
  <2>4. QueueType' /\ QueuesSorted'
    BY <1>2 DEF QueueInv, QueueType, QueuesSorted, vars
  <2> QED BY <1>2, <2>2, <2>3, <2>4 DEF QueueInv, vars
<1> QED BY <1>1, <1>2

\* What the app may conclude from the answer of an awaited write: it and what
\* was written before it are on the server in that order, for good, however
\* often connections were lost, users changed or the app was killed (the
\* promise of SyncEngine and RemoteStore, as WriteQueue states it).
THEOREM AcknowledgedInOrder == Spec => []FinalOrder
<1>1. QueueInv => FinalOrder
  BY DEF QueueInv
<1> QED BY InitQueue, NextQueue, <1>1, PTL DEF Spec

\* Only writes that are still queued are ever applied, so a write that was
\* answered, or refused, never comes back (RemoteStore's retries).
THEOREM OnlyQueuedApplied == Spec => NoLateApply
<1>1. ASSUME QueueInv, [Next]_vars
      PROVE  [log' # log => Queued(log'[Len(log')])]_vars
  <2>1. CASE Apply
    <3>1. /\ log \in Seq(Nat) /\ user \in Users /\ done \in Nat
          /\ pending[user] \in Seq(Nat)
      BY <1>1 DEF QueueInv, QueueType
    <3>2. done + 1 \in DOMAIN pending[user] /\ log' = Append(log, pending[user][done + 1])
      BY <2>1, <3>1 DEF Apply
    <3>3. log'[Len(log')] = pending[user][done + 1]
      BY <3>1, <3>2
    <3> QED BY <3>1, <3>2, <3>3 DEF Queued
  <2>2. CASE ~Apply
    BY <1>1, <2>2 DEF Next, Submit, Acknowledge, Reject, Settle, Retry, SignIn, Restart, vars
  <2> QED BY <2>1, <2>2
<1> QED BY InitQueue, NextQueue, <1>1, PTL DEF Spec, NoLateApply
=============================================================================
