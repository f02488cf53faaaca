---------------------------- MODULE DiaryProofs ----------------------------
(***************************************************************************)
(* Theorems about Diary, for any number of devices, diaries, texts,        *)
(* screens and faults.                                                     *)
(***************************************************************************)
EXTENDS Diary, SequenceTheorems, TLAPS

-----------------------------------------------------------------------------
(***************************************************************************)
(* The operators                                                           *)
(***************************************************************************)
\* Popping the top route leaves the routes below it.
LEMMA WithoutRoutes ==
  ASSUME NEW s \in Seq(Routes)
  PROVE  /\ Without(s) \in Seq(Routes)
         /\ Len(Without(s)) = (IF s = <<>> THEN 0 ELSE Len(s) - 1)
         /\ \A k \in DOMAIN Without(s) : k \in DOMAIN s /\ Without(s)[k] = s[k]
<1>1. Len(s) \in Nat /\ DOMAIN s = 1..Len(s) /\ \A i \in 1..(Len(s) - 1) : s[i] \in Routes
  OBVIOUS
<1>2. /\ Without(s) \in Seq(Routes)
      /\ Len(Without(s)) = IF 1 <= Len(s) - 1 THEN Len(s) - 1 - 1 + 1 ELSE 0
      /\ \A i \in 1..(Len(s) - 1 - 1 + 1) : Without(s)[i] = s[1 + i - 1]
  BY <1>1, SubSeqProperties DEF Without
<1>3. s = <<>> <=> Len(s) = 0
  OBVIOUS
<1>4. DOMAIN Without(s) = 1..Len(Without(s))
  BY <1>2
<1> HIDE DEF Without
<1>5. PICK n \in Nat : n = Len(s)
  BY <1>1
<1>6. Len(Without(s)) = (IF n = 0 THEN 0 ELSE n - 1) /\ \A i \in 1..(n - 1) : Without(s)[i] = s[i]
  <2>1. /\ Len(Without(s)) = IF 1 <= n - 1 THEN n - 1 - 1 + 1 ELSE 0
        /\ \A i \in 1..(n - 1 - 1 + 1) : Without(s)[i] = s[1 + i - 1]
    BY <1>2, <1>5
  <2>2. \A i \in 1..(n - 1) : i \in 1..(n - 1 - 1 + 1) /\ 1 + i - 1 = i
    BY <1>5
  <2>3. Len(Without(s)) = (IF n = 0 THEN 0 ELSE n - 1)
    BY <2>1
  <2> QED BY <2>1, <2>2, <2>3
<1>7. Len(Without(s)) = (IF s = <<>> THEN 0 ELSE Len(s) - 1)
  BY <1>3, <1>5, <1>6
<1>8. ASSUME NEW k \in DOMAIN Without(s) PROVE k \in DOMAIN s /\ Without(s)[k] = s[k]
  <2>1. k \in 1..(IF n = 0 THEN 0 ELSE n - 1)
    BY <1>4, <1>6
  <2>2. k \in 1..(n - 1) /\ k \in 1..n
    BY <2>1
  <2> QED BY <1>1, <1>5, <1>6, <2>2
<1> QED BY <1>2, <1>7, <1>8

\* One more route on top.
LEMMA PushedRoutes ==
  ASSUME NEW s \in Seq(Routes), NEW r \in Routes
  PROVE  /\ Append(s, r) \in Seq(Routes) /\ Append(s, r) # <<>>
         /\ \A k \in DOMAIN Append(s, r) :
              \/ k \in DOMAIN s /\ Append(s, r)[k] = s[k]
              \/ k = Len(s) + 1 /\ Append(s, r)[k] = r
         /\ s # <<>> => Append(s, r)[1] = s[1]
OBVIOUS

\* Diaries and their contents are numbers; a diary has a first version.
LEMMA Numbers ==
  /\ Texts \subseteq Contents /\ None \in Contents /\ Deleted \in Contents
  /\ Deleted \notin Texts /\ None \notin Texts /\ 1 \in Diaries
BY BoundsAssumption DEF Texts, Contents, None, Deleted, Diaries

\* What a write makes of a document is the content of a document.
LEMMA ApplyOpType ==
  ASSUME NEW o \in Ops, NEW c \in Contents
  PROVE  ApplyOp(o, c) \in Contents
BY Numbers DEF Ops, ApplyOp, Missing

-----------------------------------------------------------------------------
(***************************************************************************)
(* The parts of the actions                                                *)
(***************************************************************************)
\* A queued write changes no version.
LEMMA EnqueueKeeps ==
  ASSUME DiaryType, VersionsExist, NEW d \in Devices, NEW o \in Ops, Enqueue(d, o)
  PROVE  /\ queue' \in [Devices -> Seq(Ops)] /\ writers' \in [Diaries -> SUBSET Devices]
         /\ UNCHANGED <<hist, cache, sent>>
         /\ VersionsExist'
<1>1. /\ queue' \in [Devices -> Seq(Ops)] /\ writers' \in [Diaries -> SUBSET Devices]
      /\ UNCHANGED <<hist, cache, sent>>
  <2>1. queue' \in [Devices -> Seq(Ops)]
    <3>1. Append(queue[d], o) \in Seq(Ops)
      BY DEF DiaryType
    <3> QED BY <3>1 DEF DiaryType, Enqueue
  <2>2. writers' \in [Diaries -> SUBSET Devices]
    <3>1. o.id \in Diaries
      BY DEF Ops
    <3> QED BY <3>1 DEF DiaryType, Enqueue
  <2> QED BY <2>1, <2>2 DEF Enqueue
<1>2. ASSUME NEW e \in Devices
      PROVE  /\ Len(sent[e]) <= Len(queue'[e])
             /\ \A k \in DOMAIN sent[e] : queue'[e][k] = queue[e][k]
  <2>1. queue[e] \in Seq(Ops) /\ sent[e] \in Seq(Nat) /\ Len(sent[e]) <= Len(queue[e])
    BY DEF DiaryType, VersionsExist
  <2>2. queue'[e] = IF e = d THEN Append(queue[e], o) ELSE queue[e]
    BY DEF DiaryType, Enqueue
  <2>3. CASE e = d
    <3>1. /\ Len(queue'[e]) = Len(queue[e]) + 1
          /\ \A k \in 1..Len(queue[e]) : queue'[e][k] = queue[e][k]
      BY <2>1, <2>2, <2>3, AppendProperties
    <3> QED BY <2>1, <3>1
  <2> QED BY <2>1, <2>2, <2>3
<1>3. VersionsExist'
  BY <1>1, <1>2 DEF VersionsExist
<1> QED BY <1>1, <1>3

\* A pop that leaves the first route where it is, or comes after a hurry.
LEMMA PopKeeps ==
  ASSUME DiaryType, RoutesInPlace, NEW d \in Devices, NEW q, Pop(d, q),
         routes[d] # <<>>, ~hurried[d] => Len(routes[d]) > 1, opened' = opened
  PROVE  /\ routes' \in [Devices -> Seq(Routes)]
         /\ leaving' \in [Devices -> SUBSET (1..opened)]
         /\ hurried' \in [Devices -> BOOLEAN]
         /\ RoutesInPlace'
<1> DEFINE n == routes[d][Len(routes[d])].screen
<1>1. routes[d] \in Seq(Routes) /\ Len(routes[d]) \in DOMAIN routes[d]
  BY DEF DiaryType
<1>2. n \in Nat /\ n <= opened /\ (Pending(q, n) => n \in 1..opened)
  <2>1. routes[d][Len(routes[d])] \in Routes
    BY <1>1
  <2>2. n \in Nat /\ n <= opened
    BY <1>1, <2>1 DEF Routes, RoutesInPlace
  <2>3. Pending(q, n) => n # 0
    BY DEF Pending
  <2> QED BY <2>2, <2>3 DEF DiaryType
<1>3. /\ routes' = [routes EXCEPT ![d] = Without(@)]
      /\ hurried' = [hurried EXCEPT ![d] = @ \/ Pending(q, n)]
      /\ leaving' = [leaving EXCEPT ![d] = IF Pending(q, n) THEN @ \cup {n} ELSE @]
  BY DEF Pop
<1> HIDE DEF n
<1>4. Pending(q, n) \in BOOLEAN
  BY DEF Pending
<1>5. /\ routes' \in [Devices -> Seq(Routes)]
      /\ leaving' \in [Devices -> SUBSET (1..opened)]
      /\ hurried' \in [Devices -> BOOLEAN]
  <2>1. routes' \in [Devices -> Seq(Routes)]
    BY <1>1, <1>3, WithoutRoutes DEF DiaryType
  <2>2. leaving' \in [Devices -> SUBSET (1..opened)]
    BY <1>2, <1>3 DEF DiaryType
  <2>3. hurried' \in [Devices -> BOOLEAN]
    BY <1>3, <1>4 DEF DiaryType
  <2> QED BY <2>1, <2>2, <2>3
<1>6. ASSUME NEW e \in Devices
      PROVE  /\ \A k \in DOMAIN routes'[e] : routes'[e][k].screen <= opened
             /\ ~hurried'[e] =>
                  /\ leaving'[e] = {}
                  /\ routes'[e] # <<>> /\ routes'[e][1] = Route("dashboard", 0)
                  /\ \A k \in DOMAIN routes'[e] : routes'[e][k].name = "dialog" => k > 2
  <2>1. CASE e # d
    <3>1. routes'[e] = routes[e] /\ hurried'[e] = hurried[e] /\ leaving'[e] = leaving[e]
      BY <1>3, <2>1 DEF DiaryType
    <3> QED BY <3>1 DEF RoutesInPlace
  <2>2. CASE e = d
    <3>1. /\ routes'[d] = Without(routes[d])
          /\ ~hurried'[d] => ~hurried[d] /\ ~Pending(q, n)
          /\ ~Pending(q, n) => leaving'[d] = leaving[d]
      BY <1>3 DEF DiaryType
    <3>2. /\ Len(routes'[d]) = Len(routes[d]) - 1 /\ routes'[d] \in Seq(Routes)
          /\ \A k \in DOMAIN routes'[d] : k \in DOMAIN routes[d] /\ routes'[d][k] = routes[d][k]
      BY <1>1, <3>1, WithoutRoutes
    <3>3. ~hurried'[d] => routes'[d] # <<>> /\ 1 \in DOMAIN routes'[d]
      <4>1. ~hurried[d] => Len(routes'[d]) > 0
        BY <1>1, <3>2
      <4> QED BY <3>1, <3>2, <4>1
    <3> QED BY <2>2, <3>1, <3>2, <3>3 DEF RoutesInPlace
  <2> QED BY <2>1, <2>2
<1> QED BY <1>5, <1>6 DEF RoutesInPlace

\* A push on top of some route, of one that is no dialog or has an editor below it.
LEMMA PushKeeps ==
  ASSUME DiaryType, RoutesInPlace, NEW d \in Devices, NEW r \in Routes, Push(d, r),
         routes[d] # <<>>, r.screen <= opened',
         r.name = "dialog" => (~hurried[d] => Len(routes[d]) > 1),
         opened' \in Nat, opened <= opened', UNCHANGED <<leaving, hurried>>
  PROVE  routes' \in [Devices -> Seq(Routes)] /\ RoutesInPlace'
<1>1. routes' = [routes EXCEPT ![d] = Append(@, r)] /\ routes[d] \in Seq(Routes)
  BY DEF Push, DiaryType
<1>2. routes' \in [Devices -> Seq(Routes)]
  BY <1>1, PushedRoutes DEF DiaryType
<1>3. \A e \in Devices : \A k \in DOMAIN routes[e] : routes[e][k].screen <= opened'
  <2>1. \A e \in Devices : \A k \in DOMAIN routes[e] :
          routes[e][k].screen \in Nat /\ routes[e][k].screen <= opened
    <3>1. \A e \in Devices : \A k \in DOMAIN routes[e] : routes[e][k] \in Routes
      BY DEF DiaryType
    <3> QED BY <3>1 DEF Routes, RoutesInPlace
  <2>2. opened \in Nat
    BY BoundsAssumption DEF DiaryType
  <2> QED BY <2>1, <2>2
<1>4. ASSUME NEW e \in Devices
      PROVE  /\ \A k \in DOMAIN routes'[e] : routes'[e][k].screen <= opened'
             /\ ~hurried[e] =>
                  /\ leaving[e] = {}
                  /\ routes'[e] # <<>> /\ routes'[e][1] = Route("dashboard", 0)
                  /\ \A k \in DOMAIN routes'[e] : routes'[e][k].name = "dialog" => k > 2
  <2>1. CASE e # d
    <3>1. routes'[e] = routes[e]
      BY <1>1, <2>1 DEF DiaryType
    <3> QED BY <1>3, <3>1 DEF RoutesInPlace
  <2>2. CASE e = d
    <3>1. /\ routes'[d] # <<>> /\ routes'[d][1] = routes[d][1]
          /\ \A k \in DOMAIN routes'[d] :
               \/ k \in DOMAIN routes[d] /\ routes'[d][k] = routes[d][k]
               \/ k = Len(routes[d]) + 1 /\ routes'[d][k] = r
      BY <1>1, PushedRoutes DEF DiaryType
    <3>2. Len(routes[d]) \in Nat
      BY <1>1
    <3>3. \A k \in DOMAIN routes'[d] : routes'[d][k].screen <= opened'
      BY <1>3, <3>1
    <3>4. ASSUME ~hurried[d], NEW k \in DOMAIN routes'[d], routes'[d][k].name = "dialog"
          PROVE  k > 2
      <4>1. CASE k \in DOMAIN routes[d] /\ routes'[d][k] = routes[d][k]
        BY <3>4, <4>1 DEF RoutesInPlace
      <4>2. CASE k = Len(routes[d]) + 1 /\ routes'[d][k] = r
        BY <3>2, <3>4, <4>2
      <4> QED BY <3>1, <4>1, <4>2
    <3> QED BY <2>2, <3>1, <3>3, <3>4 DEF RoutesInPlace
  <2> QED BY <2>1, <2>2
<1> QED BY <1>2, <1>4 DEF RoutesInPlace

\* Where the top route may be.
LEMMA TopRoute ==
  ASSUME DiaryType, RoutesInPlace, NEW d \in Devices, Top(d) # "none"
  PROVE  /\ routes[d] # <<>> /\ Len(routes[d]) \in DOMAIN routes[d]
         /\ routes[d][Len(routes[d])].name = Top(d)
         /\ routes[d][Len(routes[d])].screen \in 0..opened
         /\ Top(d) # "dashboard" => (~hurried[d] => Len(routes[d]) > 1)
         /\ Top(d) = "dialog" => (~hurried[d] => Len(routes[d]) > 2)
<1>1. routes[d] \in Seq(Routes) /\ opened \in Nat
  BY BoundsAssumption DEF DiaryType
<1>2. routes[d] # <<>> /\ routes[d][Len(routes[d])].name = Top(d)
  BY DEF Top
<1>3. Len(routes[d]) \in Nat \ {0} /\ Len(routes[d]) \in DOMAIN routes[d]
  BY <1>1, <1>2
<1>4. routes[d][Len(routes[d])].screen \in 0..opened
  <2>1. routes[d][Len(routes[d])] \in Routes
    BY <1>1, <1>3
  <2>2. routes[d][Len(routes[d])].screen \in Nat
    BY <2>1 DEF Routes
  <2>3. routes[d][Len(routes[d])].screen <= opened
    BY <1>3 DEF RoutesInPlace
  <2> QED BY <1>1, <2>2, <2>3
<1>5. ~hurried[d] => routes[d][1].name = "dashboard"
  BY DEF RoutesInPlace, Route
<1>6. Top(d) # "dashboard" => (~hurried[d] => Len(routes[d]) > 1)
  <2>1. SUFFICES ASSUME Top(d) # "dashboard", ~hurried[d] PROVE Len(routes[d]) > 1
    OBVIOUS
  <2>2. Len(routes[d]) # 1
    BY <1>2, <1>5, <2>1
  <2>3. PICK n \in Nat \ {0} : n = Len(routes[d])
    BY <1>1, <1>2
  <2>4. n # 1 => n > 1
    OBVIOUS
  <2> QED BY <2>2, <2>3, <2>4
<1>7. Top(d) = "dialog" => (~hurried[d] => Len(routes[d]) > 2)
  BY <1>2, <1>3 DEF RoutesInPlace
<1> QED BY <1>2, <1>3, <1>4, <1>6, <1>7

\* What stays when the routes stay.
LEMMA RoutesStay ==
  ASSUME RoutesInPlace, UNCHANGED <<routes, hurried, opened>>, 
         \A d \in Devices : leaving'[d] \subseteq leaving[d]
  PROVE  RoutesInPlace'
BY DEF RoutesInPlace

-----------------------------------------------------------------------------
(***************************************************************************)
(* The SDK's actions                                                       *)
(***************************************************************************)
\* The server applies a write: versions are only added.
LEMMA ServerAppliesKeeps ==
  ASSUME DiaryInv, NEW d \in Devices, ServerApplies(d)
  PROVE  DiaryInv'
<1> USE DEF DiaryInv
<1> DEFINE o == queue[d][Len(sent[d]) + 1]
           c == ApplyOp(o, Content(o.id))
<1>1. /\ hist' = [hist EXCEPT ![o.id] = Append(@, c)]
      /\ sent' = [sent EXCEPT ![d] = Append(@, Len(hist[o.id]) + 1)]
      /\ UNCHANGED <<cache, queue, writers, ui, created, typed, opened, faults>>
  BY DEF ServerApplies
<1>2. /\ queue[d] \in Seq(Ops) /\ sent[d] \in Seq(Nat)
      /\ Len(sent[d]) + 1 \in DOMAIN queue[d] /\ o \in Ops
  BY DEF ServerApplies, DiaryType
<1>3. o.id \in Diaries /\ hist[o.id] \in Seq(Contents) /\ hist[o.id] # <<>>
  BY <1>2 DEF Ops, DiaryType, VersionsExist
<1>4. c \in Contents
  BY <1>2, <1>3, ApplyOpType DEF Content
<1> HIDE DEF c, o
<1>5. /\ hist' \in [Diaries -> Seq(Contents)]
      /\ \A i \in Diaries : hist'[i] # <<>> /\ DOMAIN hist[i] \subseteq DOMAIN hist'[i]
      /\ Len(hist[o.id]) + 1 \in DOMAIN hist'[o.id]
  <2>1. /\ Append(hist[o.id], c) \in Seq(Contents) /\ Append(hist[o.id], c) # <<>>
        /\ DOMAIN hist[o.id] \subseteq DOMAIN Append(hist[o.id], c)
        /\ Len(hist[o.id]) + 1 \in DOMAIN Append(hist[o.id], c)
    BY <1>3, <1>4
  <2>2. hist' \in [Diaries -> Seq(Contents)]
    BY <1>1, <2>1 DEF DiaryType
  <2>3. \A i \in Diaries : hist'[i] = IF i = o.id THEN Append(hist[o.id], c) ELSE hist[i]
    BY <1>1 DEF DiaryType
  <2> QED BY <1>3, <2>1, <2>2, <2>3 DEF VersionsExist
<1>6. sent' \in [Devices -> Seq(Nat)]
  <2>1. Append(sent[d], Len(hist[o.id]) + 1) \in Seq(Nat)
    BY <1>2, <1>3
  <2> QED BY <1>1, <2>1 DEF DiaryType
<1>7. DiaryType'
  BY <1>1, <1>5, <1>6 DEF DiaryType, ui
<1>8. ASSUME NEW e \in Devices
      PROVE  /\ Len(sent'[e]) <= Len(queue[e])
             /\ \A k \in DOMAIN sent'[e] : sent'[e][k] \in DOMAIN hist'[queue[e][k].id]
  <2>1. ASSUME NEW k \in DOMAIN sent[e] 
        PROVE  sent[e][k] \in DOMAIN hist'[queue[e][k].id]
    <3>1. queue[e] \in Seq(Ops) /\ sent[e] \in Seq(Nat) /\ Len(sent[e]) <= Len(queue[e])
      BY DEF DiaryType, VersionsExist
    <3>2. k \in DOMAIN queue[e]
      BY <3>1
    <3>3. queue[e][k].id \in Diaries
      <4>1. queue[e][k] \in Ops
        BY <3>1, <3>2
      <4> QED BY <4>1 DEF Ops
    <3> QED BY <1>5, <3>3 DEF VersionsExist
  <2>2. CASE e # d
    <3>1. sent'[e] = sent[e]
      BY <1>1, <2>2 DEF DiaryType
    <3> QED BY <2>1, <3>1 DEF VersionsExist
  <2>3. CASE e = d
    <3>1. sent'[d] = Append(sent[d], Len(hist[o.id]) + 1)
      BY <1>1 DEF DiaryType
    <3>2. /\ Len(sent'[d]) = Len(sent[d]) + 1
          /\ \A k \in DOMAIN sent'[d] : \/ k \in DOMAIN sent[d] /\ sent'[d][k] = sent[d][k]
                                        \/ k = Len(sent[d]) + 1 /\ sent'[d][k] = Len(hist[o.id]) + 1
      BY <1>2, <1>3, <3>1
    <3>3. Len(sent'[d]) <= Len(queue[d])
      BY <1>2, <3>2
    <3> QED BY <1>5, <2>1, <2>3, <3>2, <3>3 DEF o
  <2> QED BY <2>2, <2>3
<1>9. VersionsExist'
  BY <1>1, <1>5, <1>8 DEF VersionsExist
<1>10. RoutesInPlace'
  BY <1>1, RoutesStay DEF ui
<1> QED BY <1>7, <1>9, <1>10

\* The connection is lost with the answers.
LEMMA AnswersLostKeeps ==
  ASSUME DiaryInv, NEW d \in Devices, AnswersLost(d)
  PROVE  DiaryInv'
<1> USE DEF DiaryInv
<1>1. /\ sent' = [sent EXCEPT ![d] = <<>>] /\ faults' \in 0..MaxFaults
      /\ UNCHANGED <<hist, cache, queue, writers, ui, created, typed, opened>>
  BY BoundsAssumption DEF AnswersLost, Fault, DiaryType
<1>2. <<>> \in Seq(Nat) /\ Len(<<>>) = 0 /\ DOMAIN <<>> = {}
  OBVIOUS
<1>3. sent' \in [Devices -> Seq(Nat)]
  BY <1>1, <1>2 DEF DiaryType
<1>4. DiaryType'
  BY <1>1, <1>3 DEF DiaryType, ui
<1>5. \A e \in Devices : sent'[e] = IF e = d THEN <<>> ELSE sent[e]
  BY <1>1 DEF DiaryType
<1>6. Len(queue[d]) >= 0
  <2>1. queue[d] \in Seq(Ops)
    BY DEF DiaryType
  <2> QED BY <2>1
<1>7. VersionsExist'
  BY <1>1, <1>2, <1>5, <1>6 DEF VersionsExist
<1>8. RoutesInPlace'
  BY <1>1, RoutesStay DEF ui
<1> QED BY <1>4, <1>7, <1>8

\* The listener brings a version that exists.
LEMMA SnapshotKeeps ==
  ASSUME DiaryInv, NEW d \in Devices, NEW i \in Diaries, NEW v, Snapshot(d, i, v)
  PROVE  DiaryInv'
<1> USE DEF DiaryInv
<1>1. /\ cache' = [cache EXCEPT ![d][i] = v] /\ v \in DOMAIN hist[i]
      /\ UNCHANGED <<hist, queue, sent, writers, ui, created, typed, opened, faults>>
  BY DEF Snapshot
<1>2. v \in Nat
  <2>1. hist[i] \in Seq(Contents)
    BY DEF DiaryType
  <2> QED BY <1>1, <2>1
<1>3. DiaryType'
  BY <1>1, <1>2 DEF DiaryType, ui
<1>4. \A e \in Devices, j \in Diaries : cache'[e][j] = IF e = d /\ j = i THEN v ELSE cache[e][j]
  BY <1>1 DEF DiaryType
<1>5. VersionsExist'
  BY <1>1, <1>4 DEF VersionsExist
<1>6. RoutesInPlace'
  BY <1>1, RoutesStay DEF ui
<1> QED BY <1>3, <1>5, <1>6

\* The first write leaves the queue: what was sent moves up with the rest.
LEMMA TailsMatch ==
  ASSUME DiaryType, VersionsExist, NEW d \in Devices, queue[d] # <<>>,
         NEW s \in Seq(Nat), queue' = [queue EXCEPT ![d] = Tail(@)],
         sent' = [sent EXCEPT ![d] = s], hist' = hist,
         \/ s = <<>>
         \/ sent[d] # <<>> /\ s = Tail(sent[d])
  PROVE  /\ queue' \in [Devices -> Seq(Ops)] /\ sent' \in [Devices -> Seq(Nat)]
         /\ \A e \in Devices :
              /\ Len(sent'[e]) <= Len(queue'[e])
              /\ \A k \in DOMAIN sent'[e] : sent'[e][k] \in DOMAIN hist'[queue'[e][k].id]
<1>1. queue[d] \in Seq(Ops) /\ sent[d] \in Seq(Nat) /\ Len(sent[d]) <= Len(queue[d])
  BY DEF DiaryType, VersionsExist
<1>2. /\ Tail(queue[d]) \in Seq(Ops) /\ Len(Tail(queue[d])) = Len(queue[d]) - 1
      /\ \A k \in 1..(Len(queue[d]) - 1) : Tail(queue[d])[k] = queue[d][k + 1]
      /\ Len(queue[d]) \in Nat \ {0}
  BY <1>1
<1>3. queue' \in [Devices -> Seq(Ops)] /\ sent' \in [Devices -> Seq(Nat)]
  BY <1>2 DEF DiaryType
<1>4. \A e \in Devices : /\ queue'[e] = IF e = d THEN Tail(queue[d]) ELSE queue[e]
                         /\ sent'[e] = IF e = d THEN s ELSE sent[e]
  BY DEF DiaryType
<1>5. /\ Len(s) <= Len(Tail(queue[d]))
      /\ \A k \in DOMAIN s : s[k] \in DOMAIN hist[Tail(queue[d])[k].id]
  <2>1. CASE s = <<>>
    <3>1. Len(s) = 0 /\ DOMAIN s = {}
      BY <2>1
    <3>2. Len(Tail(queue[d])) \in Nat
      BY <1>2
    <3> QED BY <3>1, <3>2
  <2>2. CASE sent[d] # <<>> /\ s = Tail(sent[d])
    <3>1. /\ Len(s) = Len(sent[d]) - 1 /\ Len(sent[d]) \in Nat \ {0}
          /\ DOMAIN s = 1..(Len(sent[d]) - 1) /\ DOMAIN sent[d] = 1..Len(sent[d])
          /\ \A k \in 1..(Len(sent[d]) - 1) : s[k] = sent[d][k + 1]
      BY <1>1, <2>2
    <3>2. PICK m, n \in Nat \ {0} : m = Len(sent[d]) /\ n = Len(queue[d])
      BY <1>2, <3>1
    <3>3. m <= n => /\ m - 1 <= n - 1
                    /\ \A k \in 1..(m - 1) : k \in 1..(n - 1) /\ k + 1 \in 1..m
      OBVIOUS
    <3>4. \A k \in DOMAIN sent[d] : sent[d][k] \in DOMAIN hist[queue[d][k].id]
      BY DEF VersionsExist
    <3> QED BY <1>1, <1>2, <3>1, <3>2, <3>3, <3>4
  <2> QED BY <2>1, <2>2
<1>6. ASSUME NEW e \in Devices
      PROVE  /\ Len(sent'[e]) <= Len(queue'[e])
             /\ \A k \in DOMAIN sent'[e] : sent'[e][k] \in DOMAIN hist'[queue'[e][k].id]
  <2>1. CASE e = d
    BY <1>4, <1>5, <2>1
  <2>2. CASE e # d
    BY <1>4, <2>2 DEF VersionsExist
  <2> QED BY <2>1, <2>2
<1> QED BY <1>3, <1>6

\* The callback of an answered write pops nothing below the creator.
LEMMA ThenPopKeeps ==
  ASSUME DiaryType, RoutesInPlace, NEW d \in Devices, NEW o, ThenPop(d, o), opened' = opened
  PROVE  /\ routes' \in [Devices -> Seq(Routes)]
         /\ leaving' \in [Devices -> SUBSET (1..opened)]
         /\ hurried' \in [Devices -> BOOLEAN]
         /\ RoutesInPlace'
<1>1. CASE o.creator # 0 /\ (IsShown(d, o.creator) \/ o.creator \in leaving[d]) /\ routes[d] # <<>>
  <2>1. Pop(d, queue'[d])
    BY <1>1 DEF ThenPop
  <2>2. ~hurried[d] => Len(routes[d]) > 1
    <3> SUFFICES ASSUME ~hurried[d] PROVE Len(routes[d]) > 1
      OBVIOUS
    <3>1. PICK k \in DOMAIN routes[d] : routes[d][k].screen # 0
      BY <1>1 DEF IsShown, RoutesInPlace
    <3>2. k # 1
      BY <3>1 DEF RoutesInPlace, Route
    <3>3. routes[d] \in Seq(Routes)
      BY DEF DiaryType
    <3> QED BY <3>1, <3>2, <3>3
  <2> QED BY <1>1, <2>1, <2>2, PopKeeps
<1>2. CASE ~(o.creator # 0 /\ (IsShown(d, o.creator) \/ o.creator \in leaving[d]) /\ routes[d] # <<>>)
  <2>1. UNCHANGED <<routes, leaving, hurried>>
    BY <1>2 DEF ThenPop
  <2> QED BY <2>1, RoutesStay DEF DiaryType
<1> QED BY <1>1, <1>2

\* An answered write leaves the queue and may pop a route.
LEMMA AnswerKeeps ==
  ASSUME DiaryInv, NEW d \in Devices, Answer(d)
  PROVE  DiaryInv'
<1> USE DEF DiaryInv
<1> DEFINE o == Head(queue[d])
           v == Acknowledged(d, o, Head(sent[d]))
<1>1. /\ queue' = [queue EXCEPT ![d] = Tail(@)]
      /\ sent' = [sent EXCEPT ![d] = Tail(@)]
      /\ cache' = [cache EXCEPT ![d][o.id] = v]
      /\ ThenPop(d, o)
      /\ UNCHANGED <<hist, writers, editor, created, typed, opened, faults>>
      /\ sent[d] # <<>>
  BY DEF Answer
<1>2. /\ queue[d] \in Seq(Ops) /\ sent[d] \in Seq(Nat) /\ Len(sent[d]) <= Len(queue[d])
  BY DEF DiaryType, VersionsExist
<1>3. /\ queue[d] # <<>> /\ o \in Ops /\ o = queue[d][1]
      /\ 1 \in DOMAIN sent[d] /\ Head(sent[d]) = sent[d][1] /\ Tail(sent[d]) \in Seq(Nat)
  BY <1>1, <1>2
<1>4. o.id \in Diaries
  BY <1>3 DEF Ops
<1>5. v \in DOMAIN hist[o.id] /\ v \in Nat
  <2>1. sent[d][1] \in DOMAIN hist[queue[d][1].id]
    BY <1>3 DEF VersionsExist
  <2>2. cache[d][o.id] \in DOMAIN hist[o.id]
    BY <1>4 DEF VersionsExist
  <2>3. v \in DOMAIN hist[o.id]
    BY <1>3, <2>1, <2>2 DEF Acknowledged
  <2>4. hist[o.id] \in Seq(Contents)
    BY <1>4 DEF DiaryType
  <2> QED BY <2>3, <2>4
<1> HIDE DEF o, v
<1>6. /\ queue' \in [Devices -> Seq(Ops)] /\ sent' \in [Devices -> Seq(Nat)]
      /\ \A e \in Devices :
           /\ Len(sent'[e]) <= Len(queue'[e])
           /\ \A k \in DOMAIN sent'[e] : sent'[e][k] \in DOMAIN hist'[queue'[e][k].id]
  <2>1. sent' = [sent EXCEPT ![d] = Tail(sent[d])]
    BY <1>1
  <2> QED BY <1>1, <1>3, <2>1, TailsMatch
<1>7. /\ cache' \in [Devices -> [Diaries -> Nat]]
      /\ \A e \in Devices, i \in Diaries : cache'[e][i] \in DOMAIN hist'[i]
  <2>1. cache' \in [Devices -> [Diaries -> Nat]]
    BY <1>1, <1>4, <1>5 DEF DiaryType
  <2>2. \A e \in Devices, i \in Diaries : cache'[e][i] = IF e = d /\ i = o.id THEN v ELSE cache[e][i]
    BY <1>1, <1>4 DEF DiaryType
  <2> QED BY <1>1, <1>5, <2>1, <2>2 DEF VersionsExist
<1>8. /\ routes' \in [Devices -> Seq(Routes)]
      /\ leaving' \in [Devices -> SUBSET (1..opened)]
      /\ hurried' \in [Devices -> BOOLEAN]
      /\ RoutesInPlace'
  BY <1>1, ThenPopKeeps
<1>9. DiaryType'
  BY <1>1, <1>6, <1>7, <1>8 DEF DiaryType
<1>10. VersionsExist'
  BY <1>1, <1>6, <1>7 DEF VersionsExist
<1> QED BY <1>8, <1>9, <1>10

\* A refused write leaves the queue.
LEMMA RejectKeeps ==
  ASSUME DiaryInv, NEW d \in Devices, Reject(d)
  PROVE  DiaryInv'
<1> USE DEF DiaryInv
<1>1. /\ queue[d] # <<>> /\ sent[d] = <<>>
      /\ queue' = [queue EXCEPT ![d] = Tail(@)]
      /\ UNCHANGED <<hist, cache, sent, writers, ui, created, typed, opened, faults>>
  BY DEF Reject
<1>2. sent' = [sent EXCEPT ![d] = <<>>] /\ <<>> \in Seq(Nat)
  BY <1>1 DEF DiaryType
<1>3. PICK s \in Seq(Nat) : s = <<>>
  BY <1>2
<1>4. /\ queue' \in [Devices -> Seq(Ops)] /\ sent' \in [Devices -> Seq(Nat)]
      /\ \A e \in Devices :
           /\ Len(sent'[e]) <= Len(queue'[e])
           /\ \A k \in DOMAIN sent'[e] : sent'[e][k] \in DOMAIN hist'[queue'[e][k].id]
  BY <1>1, <1>2, <1>3, TailsMatch
<1>5. DiaryType'
  BY <1>1, <1>4 DEF DiaryType, ui
<1>6. VersionsExist'
  BY <1>1, <1>4 DEF VersionsExist
<1>7. RoutesInPlace'
  BY <1>1, RoutesStay DEF ui
<1> QED BY <1>5, <1>6, <1>7
-----------------------------------------------------------------------------
(***************************************************************************)
(* The screens' actions                                                    *)
(***************************************************************************)
\* What leaves the documents, the queues and the versions alone.
LEMMA SdkStays ==
  ASSUME VersionsExist, UNCHANGED <<hist, cache, queue, sent>>
  PROVE  VersionsExist'
BY DEF VersionsExist

\* A creator is opened on the dashboard.
LEMMA OpenCreatorKeeps ==
  ASSUME DiaryInv, NEW d \in Devices, OpenCreator(d)
  PROVE  DiaryInv'
<1> USE DEF DiaryInv
<1>1. /\ Top(d) = "dashboard" /\ opened' = opened + 1 /\ opened < MaxScreens
      /\ Push(d, Route("creator", opened'))
      /\ UNCHANGED <<sdk, leaving, editor, hurried, created, typed, faults>>
  BY DEF OpenCreator
<1>2. opened \in Nat /\ opened' \in 0..MaxScreens /\ opened' \in Nat /\ opened <= opened'
  BY <1>1, BoundsAssumption DEF DiaryType
<1>3. PICK r \in Routes : r = Route("creator", opened')
  BY <1>2 DEF Routes, Route
<1>4. routes' \in [Devices -> Seq(Routes)] /\ RoutesInPlace'
  <2>1. r.screen <= opened' /\ r.name # "dialog"
    BY <1>2, <1>3 DEF Route
  <2>2. routes[d] # <<>>
    BY <1>1, TopRoute
  <2> QED BY <1>1, <1>2, <1>3, <2>1, <2>2, PushKeeps
<1>5. leaving' \in [Devices -> SUBSET (1..opened')]
  <2>1. 1..opened \subseteq 1..opened'
    BY <1>2
  <2> QED BY <1>1, <2>1 DEF DiaryType
<1>6. DiaryType'
  BY <1>1, <1>2, <1>4, <1>5 DEF DiaryType, sdk
<1> QED BY <1>1, <1>4, <1>6, SdkStays DEF sdk

\* The save button: a new diary's number and text are within the bounds.
LEMMA SaveNewKeeps ==
  ASSUME DiaryInv, NEW d \in Devices, SaveNew(d)
  PROVE  DiaryInv'
<1> USE DEF DiaryInv
<1>1. PICK n : n = routes[d][Len(routes[d])].screen
  OBVIOUS
<1>2. /\ Top(d) = "creator" /\ created < MaxDiaries /\ typed < MaxTexts
      /\ created' = created + 1 /\ typed' = typed + 1
      /\ Enqueue(d, Op("add", created', typed', n))
      /\ UNCHANGED <<ui, opened, faults>>
  BY <1>1 DEF SaveNew
<1>3. n \in 0..MaxScreens
  <2>1. n \in 0..opened
    BY <1>1, <1>2, TopRoute
  <2> QED BY <2>1, BoundsAssumption DEF DiaryType
<1>4. created' \in Diaries /\ created' \in 0..MaxDiaries /\ typed' \in Texts /\ typed' \in 0..MaxTexts
  BY <1>2, BoundsAssumption DEF DiaryType, Diaries, Texts
<1>5. PICK o \in Ops : o = Op("add", created', typed', n)
  BY <1>3, <1>4, Numbers DEF Ops, Op
<1>6. /\ queue' \in [Devices -> Seq(Ops)] /\ writers' \in [Diaries -> SUBSET Devices]
      /\ UNCHANGED <<hist, cache, sent>> /\ VersionsExist'
  BY <1>2, <1>5, EnqueueKeeps
<1>7. DiaryType'
  BY <1>2, <1>4, <1>6 DEF DiaryType, ui
<1>8. RoutesInPlace'
  BY <1>2, RoutesStay DEF ui
<1> QED BY <1>6, <1>7, <1>8

\* A screen that is left without a write: the creator, the editor, the dialog.
LEMMA LeaveKeeps ==
  ASSUME DiaryInv, NEW d \in Devices, Top(d) \in {"creator", "editor", "dialog"},
         Pop(d, queue[d]), UNCHANGED <<sdk, editor, created, typed, opened, faults>>
  PROVE  DiaryInv'
<1> USE DEF DiaryInv
<1>1. routes[d] # <<>> /\ (~hurried[d] => Len(routes[d]) > 1)
  BY TopRoute
<1>2. /\ routes' \in [Devices -> Seq(Routes)]
      /\ leaving' \in [Devices -> SUBSET (1..opened)]
      /\ hurried' \in [Devices -> BOOLEAN]
      /\ RoutesInPlace'
  <2>1. PICK q : q = queue[d]
    OBVIOUS
  <2> QED BY <1>1, <2>1, PopKeeps
<1>3. DiaryType'
  BY <1>2 DEF DiaryType, sdk
<1> QED BY <1>2, <1>3, SdkStays DEF sdk

\* A creator's animation is over.
LEMMA UnmountKeeps ==
  ASSUME DiaryInv, NEW d \in Devices, NEW n, Unmount(d, n)
  PROVE  DiaryInv'
<1> USE DEF DiaryInv
<1>1. /\ leaving' = [leaving EXCEPT ![d] = @ \ {n}]
      /\ UNCHANGED <<sdk, routes, editor, hurried, created, typed, opened, faults>>
  BY DEF Unmount
<1>2. \A e \in Devices : leaving'[e] \subseteq leaving[e]
  BY <1>1 DEF DiaryType
<1>3. DiaryType'
  BY <1>1 DEF DiaryType, sdk
<1>4. RoutesInPlace'
  BY <1>1, <1>2, RoutesStay
<1> QED BY <1>1, <1>3, <1>4, SdkStays DEF sdk

\* The editor is opened on a text that is shown.
LEMMA OpenEditorKeeps ==
  ASSUME DiaryInv, NEW d \in Devices, NEW i \in Diaries, OpenEditor(d, i)
  PROVE  DiaryInv'
<1> USE DEF DiaryInv
<1>1. PICK c : c = View(d, i)
  OBVIOUS
<1>2. /\ Top(d) = "dashboard" /\ opened' = opened + 1 /\ opened < MaxScreens
      /\ c \in Texts /\ Push(d, Route("editor", 0))
      /\ editor' = [editor EXCEPT ![d] = [id |-> i, doc |-> c, text |-> c]]
      /\ UNCHANGED <<sdk, leaving, hurried, created, typed, faults>>
  BY <1>1 DEF OpenEditor, Exists
<1>3. opened \in Nat /\ opened' \in 0..MaxScreens /\ opened' \in Nat /\ opened <= opened'
  BY <1>2, BoundsAssumption DEF DiaryType
<1>4. PICK r \in Routes : r = Route("editor", 0)
  BY DEF Routes, Route
<1>5. routes' \in [Devices -> Seq(Routes)] /\ RoutesInPlace'
  <2>1. r.screen <= opened' /\ r.name # "dialog"
    BY <1>3, <1>4 DEF Route
  <2>2. routes[d] # <<>>
    BY <1>2, TopRoute
  <2> QED BY <1>2, <1>3, <1>4, <2>1, <2>2, PushKeeps
<1>6. leaving' \in [Devices -> SUBSET (1..opened')]
  <2>1. 1..opened \subseteq 1..opened'
    BY <1>3
  <2> QED BY <1>2, <2>1 DEF DiaryType
<1>7. editor' \in [Devices -> [id : Diaries, doc : Contents, text : Contents]]
  BY <1>2, Numbers DEF DiaryType
<1>8. DiaryType'
  BY <1>2, <1>3, <1>5, <1>6, <1>7 DEF DiaryType, sdk
<1> QED BY <1>2, <1>5, <1>8, SdkStays DEF sdk

\* What is typed, and what a rebuild of the screen makes of it.
LEMMA TextChangesKeep ==
  ASSUME DiaryInv, NEW d \in Devices, Type(d) \/ Rebuild(d)
  PROVE  DiaryInv'
<1> USE DEF DiaryInv
<1>1. UNCHANGED <<sdk, routes, leaving, hurried, created, opened>>
  BY DEF Type, Rebuild
<1>2. typed' \in 0..MaxTexts /\ faults' \in 0..MaxFaults
  BY BoundsAssumption DEF Type, Rebuild, Fault, DiaryType
<1>3. editor' \in [Devices -> [id : Diaries, doc : Contents, text : Contents]]
  <2>1. PICK c \in Contents : editor' = [editor EXCEPT ![d].text = c]
    <3>1. CASE Type(d)
      <4>1. typed' \in Texts /\ editor' = [editor EXCEPT ![d].text = typed']
        BY <3>1, BoundsAssumption DEF Type, DiaryType, Texts
      <4> QED BY <4>1, Numbers
    <3>2. CASE Rebuild(d)
      BY <3>2 DEF Rebuild, DiaryType
    <3> QED BY <3>1, <3>2
  <2> QED BY <2>1 DEF DiaryType
<1>4. DiaryType'
  BY <1>1, <1>2, <1>3 DEF DiaryType, sdk
<1>5. RoutesInPlace'
  BY <1>1, RoutesStay
<1> QED BY <1>1, <1>4, <1>5, SdkStays DEF sdk

\* The editor's arrow saves what it holds.
LEMMA ArrowBackKeeps ==
  ASSUME DiaryInv, NEW d \in Devices, ArrowBack(d)
  PROVE  DiaryInv'
<1> USE DEF DiaryInv
<1>1. PICK o : o = Op("update", editor[d].id, editor[d].text, 0)
  OBVIOUS
<1>2. PICK q : q = queue[d]
  OBVIOUS
<1>3. /\ Top(d) = "editor" /\ Enqueue(d, o) /\ Pop(d, q)
      /\ UNCHANGED <<editor, created, typed, opened, faults>>
  BY <1>1, <1>2 DEF ArrowBack
<1>4. o \in Ops
  <2>1. editor[d].id \in Diaries /\ editor[d].text \in Contents
    BY DEF DiaryType
  <2>2. 0 \in 0..MaxScreens
    BY BoundsAssumption
  <2> QED BY <1>1, <2>1, <2>2 DEF Ops, Op
<1>5. /\ queue' \in [Devices -> Seq(Ops)] /\ writers' \in [Diaries -> SUBSET Devices]
      /\ UNCHANGED <<hist, cache, sent>> /\ VersionsExist'
  BY <1>3, <1>4, EnqueueKeeps
<1>6. routes[d] # <<>> /\ (~hurried[d] => Len(routes[d]) > 1)
  BY <1>3, TopRoute
<1>7. /\ routes' \in [Devices -> Seq(Routes)]
      /\ leaving' \in [Devices -> SUBSET (1..opened)]
      /\ hurried' \in [Devices -> BOOLEAN]
      /\ RoutesInPlace'
  BY <1>3, <1>6, PopKeeps
<1>8. DiaryType'
  BY <1>3, <1>5, <1>7 DEF DiaryType
<1> QED BY <1>5, <1>7, <1>8

\* The dialog comes up over the editor.
LEMMA AskDeleteKeeps ==
  ASSUME DiaryInv, NEW d \in Devices, AskDelete(d)
  PROVE  DiaryInv'
<1> USE DEF DiaryInv
<1>1. /\ Top(d) = "editor" /\ Push(d, Route("dialog", 0))
      /\ UNCHANGED <<sdk, leaving, editor, hurried, created, typed, opened, faults>>
  BY DEF AskDelete
<1>2. PICK r \in Routes : r = Route("dialog", 0)
  BY DEF Routes, Route
<1>3. opened \in Nat
  BY BoundsAssumption DEF DiaryType
<1>4. routes' \in [Devices -> Seq(Routes)] /\ RoutesInPlace'
  <2>1. r.screen <= opened'
    BY <1>1, <1>2, <1>3 DEF Route
  <2>2. routes[d] # <<>> /\ (~hurried[d] => Len(routes[d]) > 1)
    BY <1>1, TopRoute
  <2>3. opened' \in Nat /\ opened <= opened'
    BY <1>1, <1>3
  <2> QED BY <1>1, <1>2, <2>1, <2>2, <2>3, PushKeeps
<1>5. DiaryType'
  BY <1>1, <1>4 DEF DiaryType, sdk
<1> QED BY <1>1, <1>4, <1>5, SdkStays DEF sdk

\* The dialog and the editor under it go together: the dashboard is below both.
LEMMA ConfirmDeleteKeeps ==
  ASSUME DiaryInv, NEW d \in Devices, ConfirmDelete(d)
  PROVE  DiaryInv'
<1> USE DEF DiaryInv
<1>1. PICK o : o = Op("delete", editor[d].id, Deleted, 0)
  OBVIOUS
<1>2. /\ Top(d) = "dialog" /\ Enqueue(d, o)
      /\ routes' = [routes EXCEPT ![d] = Without(Without(@))]
      /\ UNCHANGED <<leaving, editor, hurried, created, typed, opened, faults>>
  BY <1>1 DEF ConfirmDelete
<1>3. o \in Ops
  <2>1. editor[d].id \in Diaries
    BY DEF DiaryType
  <2>2. 0 \in 0..MaxScreens
    BY BoundsAssumption
  <2> QED BY <1>1, <2>1, <2>2, Numbers DEF Ops, Op
<1>4. /\ queue' \in [Devices -> Seq(Ops)] /\ writers' \in [Diaries -> SUBSET Devices]
      /\ UNCHANGED <<hist, cache, sent>> /\ VersionsExist'
  BY <1>2, <1>3, EnqueueKeeps
<1>5. PICK s, t : s = Without(routes[d]) /\ t = Without(s)
  OBVIOUS
<1>6. /\ routes[d] \in Seq(Routes) /\ s \in Seq(Routes) /\ t \in Seq(Routes)
      /\ \A k \in DOMAIN t : k \in DOMAIN routes[d] /\ t[k] = routes[d][k]
  <2>1. routes[d] \in Seq(Routes)
    BY DEF DiaryType
  <2>2. s \in Seq(Routes) /\ \A k \in DOMAIN s : k \in DOMAIN routes[d] /\ s[k] = routes[d][k]
    BY <1>5, <2>1, WithoutRoutes
  <2>3. t \in Seq(Routes) /\ \A k \in DOMAIN t : k \in DOMAIN s /\ t[k] = s[k]
    BY <1>5, <2>2, WithoutRoutes
  <2> QED BY <2>1, <2>2, <2>3
<1>7. ~hurried[d] => t # <<>> /\ 1 \in DOMAIN t
  <2> SUFFICES ASSUME ~hurried[d] PROVE t # <<>> /\ 1 \in DOMAIN t
    OBVIOUS
  <2>1. routes[d] # <<>> /\ Len(routes[d]) > 2
    BY <1>2, TopRoute
  <2>2. PICK n \in Nat : n = Len(routes[d])
    BY <1>6
  <2>3. Len(s) = n - 1 
    BY <1>5, <1>6, <2>1, <2>2, WithoutRoutes
  <2>4. s # <<>>
    BY <1>6, <2>1, <2>2, <2>3
  <2>5. Len(t) = n - 1 - 1
    BY <1>5, <1>6, <2>3, <2>4, WithoutRoutes
  <2>6. Len(t) > 0
    BY <2>1, <2>2, <2>5
  <2> QED BY <1>6, <2>6
<1>8. routes' \in [Devices -> Seq(Routes)]
  BY <1>2, <1>5, <1>6 DEF DiaryType
<1>9. \A e \in Devices : routes'[e] = IF e = d THEN t ELSE routes[e]
  BY <1>2, <1>5 DEF DiaryType
<1>10. RoutesInPlace'
  BY <1>2, <1>6, <1>7, <1>9 DEF RoutesInPlace
<1>11. DiaryType'
  BY <1>2, <1>4, <1>8 DEF DiaryType
<1> QED BY <1>4, <1>10, <1>11

\* The app starts again: only the queue and the cache are left of the device.
LEMMA RestartKeeps ==
  ASSUME DiaryInv, NEW d \in Devices, Restart(d)
  PROVE  DiaryInv'
<1> USE DEF DiaryInv
<1>1. PICK s \in Seq(Routes) : s = <<Route("dashboard", 0)>>
  <2>1. Route("dashboard", 0) \in Routes
    BY DEF Route, Routes
  <2>2. <<Route("dashboard", 0)>> \in Seq(Routes)
    BY <2>1
  <2> QED BY <2>2
<1>2. /\ routes' = [routes EXCEPT ![d] = s] /\ leaving' = [leaving EXCEPT ![d] = {}]
      /\ sent' = [sent EXCEPT ![d] = <<>>] /\ faults' \in 0..MaxFaults
      /\ UNCHANGED <<hist, cache, queue, writers, editor, hurried, created, typed, opened>>
  BY <1>1, BoundsAssumption DEF Restart, Fault, DiaryType
<1>3. s # <<>> /\ DOMAIN s = {1} /\ s[1] = Route("dashboard", 0)
  BY <1>1
<1>4. <<>> \in Seq(Nat) /\ Len(<<>>) = 0 /\ DOMAIN <<>> = {}
  OBVIOUS
<1>5. /\ routes' \in [Devices -> Seq(Routes)] /\ sent' \in [Devices -> Seq(Nat)]
      /\ leaving' \in [Devices -> SUBSET (1..opened)]
  BY <1>2, <1>4 DEF DiaryType
<1>6. DiaryType'
  BY <1>2, <1>5 DEF DiaryType
<1>7. \A e \in Devices : /\ sent'[e] = IF e = d THEN <<>> ELSE sent[e]
                         /\ routes'[e] = IF e = d THEN s ELSE routes[e]
                         /\ leaving'[e] = IF e = d THEN {} ELSE leaving[e]
  BY <1>2 DEF DiaryType
<1>8. VersionsExist'
  <2>1. Len(queue[d]) >= 0
    <3>1. queue[d] \in Seq(Ops)
      BY DEF DiaryType
    <3> QED BY <3>1
  <2> QED BY <1>2, <1>4, <1>7, <2>1 DEF VersionsExist
<1>9. RoutesInPlace'
  <2>1. s[1].screen <= opened /\ s[1].name = "dashboard"
    <3>1. opened \in Nat
      BY BoundsAssumption DEF DiaryType
    <3> QED BY <1>3, <3>1 DEF Route
  <2> QED BY <1>2, <1>3, <1>7, <2>1 DEF RoutesInPlace
<1> QED BY <1>6, <1>8, <1>9

-----------------------------------------------------------------------------
(***************************************************************************)
(* The theorems                                                            *)
(***************************************************************************)
\* The first state, with a diary or without.
LEMMA InitDiary == Init => DiaryInv
<1> SUFFICES ASSUME NEW k \in {0, 1}, k <= MaxDiaries, k <= MaxTexts, InitWith(k)
             PROVE  DiaryInv
  BY DEF Init
<1>1. PICK s \in Seq(Routes) : s = <<Route("dashboard", 0)>>
  <2>1. Route("dashboard", 0) \in Routes
    BY DEF Route, Routes
  <2>2. <<Route("dashboard", 0)>> \in Seq(Routes)
    BY <2>1
  <2> QED BY <2>2
<1>2. s # <<>> /\ DOMAIN s = {1} /\ s[1] = Route("dashboard", 0)
  BY <1>1
<1>3. routes = [d \in Devices |-> s]
  BY <1>1 DEF InitWith
<1>4. /\ hist \in [Diaries -> Seq(Contents)]
      /\ \A i \in Diaries : hist[i] # <<>> /\ DOMAIN hist[i] = IF i <= k THEN 1..2 ELSE 1..1
  <2>1. \A i \in Diaries : i <= k => i \in Contents
    BY Numbers, BoundsAssumption DEF Diaries, Texts
  <2>2. \A i \in Diaries : i <= k => <<None, i>> \in Seq(Contents)
    BY <2>1, Numbers
  <2>3. <<None>> \in Seq(Contents)
    BY Numbers
  <2>4. hist = [i \in Diaries |-> IF i <= k THEN <<None, i>> ELSE <<None>>]
    BY DEF InitWith
  <2>5. hist \in [Diaries -> Seq(Contents)]
    BY <2>2, <2>3, <2>4
  <2>6. \A i : DOMAIN <<None, i>> = 1..2 /\ <<None, i>> # <<>>
    OBVIOUS
  <2>7. DOMAIN <<None>> = 1..1 /\ <<None>> # <<>>
    OBVIOUS
  <2> QED BY <2>4, <2>5, <2>6, <2>7
<1>5. cache = [d \in Devices |-> [i \in Diaries |-> IF i <= k THEN 2 ELSE 1]]
  BY DEF InitWith
<1>6. /\ queue = [d \in Devices |-> <<>>] /\ sent = [d \in Devices |-> <<>>]
      /\ leaving = [d \in Devices |-> {}] /\ writers = [i \in Diaries |-> {}]
      /\ editor = [d \in Devices |-> [id |-> 1, doc |-> None, text |-> None]]
      /\ hurried = [d \in Devices |-> FALSE]
      /\ created = k /\ typed = k /\ opened = 0 /\ faults = 0
  BY DEF InitWith
<1>7. DiaryType
  <2>1. /\ queue \in [Devices -> Seq(Ops)] /\ sent \in [Devices -> Seq(Nat)]
        /\ routes \in [Devices -> Seq(Routes)] /\ leaving \in [Devices -> SUBSET (1..opened)]
        /\ hurried \in [Devices -> BOOLEAN] /\ writers \in [Diaries -> SUBSET Devices]
    BY <1>3, <1>6
  <2>2. cache \in [Devices -> [Diaries -> Nat]]
    BY <1>5
  <2>3. editor \in [Devices -> [id : Diaries, doc : Contents, text : Contents]]
    BY <1>6, Numbers
  <2>4. /\ created \in 0..MaxDiaries /\ typed \in 0..MaxTexts
        /\ opened \in 0..MaxScreens /\ faults \in 0..MaxFaults
    BY <1>6, BoundsAssumption
  <2> QED BY <1>4, <2>1, <2>2, <2>3, <2>4 DEF DiaryType
<1>8. VersionsExist
  <2>1. \A d \in Devices : Len(sent[d]) = 0 /\ Len(queue[d]) = 0 /\ DOMAIN sent[d] = {}
    BY <1>6
  <2>2. \A d \in Devices, i \in Diaries : cache[d][i] \in DOMAIN hist[i]
    BY <1>4, <1>5
  <2> QED BY <1>4, <2>1, <2>2 DEF VersionsExist
<1>9. RoutesInPlace
  BY <1>2, <1>3, <1>6 DEF RoutesInPlace, Route
<1> QED BY <1>7, <1>8, <1>9 DEF DiaryInv

\* Every step keeps the invariant.
LEMMA NextDiary == DiaryInv /\ [Next]_vars => DiaryInv'
<1> SUFFICES ASSUME DiaryInv, [Next]_vars PROVE DiaryInv'
  OBVIOUS
<1>1. CASE UNCHANGED vars
  BY <1>1 DEF vars, sdk, ui, DiaryInv, DiaryType, VersionsExist, RoutesInPlace
<1>2. CASE Next
  <2>1. PICK d \in Devices :
          \/ Answers(d) \/ AnswersLost(d) \/ User(d) \/ Rebuild(d) \/ Restart(d)
          \/ \E i \in Diaries : \E v \in DOMAIN hist[i] : Snapshot(d, i, v)
          \/ \E n \in 1..MaxScreens : Unmount(d, n)
    BY <1>2 DEF Next
  <2>2. CASE Answers(d)
    BY <2>2, ServerAppliesKeeps, AnswerKeeps, RejectKeeps DEF Answers
  <2>3. CASE AnswersLost(d)
    BY <2>3, AnswersLostKeeps
  <2>4. CASE User(d)
    <3>1. CASE OpenCreator(d)
      BY <3>1, OpenCreatorKeeps
    <3>2. CASE SaveNew(d)
      BY <3>2, SaveNewKeeps
    <3>3. CASE LeaveCreator(d) \/ SystemBack(d) \/ CancelDelete(d)
      <4>1. /\ Top(d) \in {"creator", "editor", "dialog"} /\ Pop(d, queue[d])
            /\ UNCHANGED <<sdk, editor, created, typed, opened, faults>>
        BY <3>3 DEF LeaveCreator, SystemBack, CancelDelete
      <4> QED BY <4>1, LeaveKeeps
    <3>4. ASSUME NEW i \in Diaries, OpenEditor(d, i) PROVE DiaryInv'
      BY <3>4, OpenEditorKeeps
    <3>5. CASE Type(d)
      BY <3>5, TextChangesKeep
    <3>6. CASE ArrowBack(d)
      BY <3>6, ArrowBackKeeps
    <3>7. CASE AskDelete(d)
      BY <3>7, AskDeleteKeeps
    <3>8. CASE ConfirmDelete(d)
      BY <3>8, ConfirmDeleteKeeps
    <3> QED BY <2>4, <3>1, <3>2, <3>3, <3>4, <3>5, <3>6, <3>7, <3>8 DEF User
  <2>5. CASE Rebuild(d)
    BY <2>5, TextChangesKeep
  <2>6. CASE Restart(d)
    BY <2>6, RestartKeeps
  <2>7. ASSUME NEW i \in Diaries, NEW v, Snapshot(d, i, v) PROVE DiaryInv'
    BY <2>7, SnapshotKeeps
  <2>8. ASSUME NEW n, Unmount(d, n) PROVE DiaryInv'
    BY <2>8, UnmountKeeps
  <2> QED BY <2>1, <2>2, <2>3, <2>4, <2>5, <2>6, <2>7, <2>8
<1> QED BY <1>1, <1>2

\* Every state has the invariant.
LEMMA DiaryInvariant == Spec => []DiaryInv
BY InitDiary, NextDiary, PTL DEF Spec

(***************************************************************************)
(* The state keeps its types: every version a device knows of a document,  *)
(* and every version one of its unanswered writes has become, exists on    *)
(* the server, whatever is lost, sent again, answered late or restarted.   *)
(***************************************************************************)
THEOREM DiaryTypeCorrect == Spec => []TypeOK
<1>1. DiaryInv => TypeOK
  BY DEF DiaryInv, DiaryType, VersionsExist, TypeOK
<1> QED BY <1>1, DiaryInvariant, PTL

(***************************************************************************)
(* Navigator.pop in the creator's .then, in the editor and in the dialog   *)
(* never takes the dashboard off the stack of a user who did not leave a   *)
(* creator while its write was pending.                                    *)
(***************************************************************************)
THEOREM DashboardStaysCorrect == Spec => []DashboardStays
<1>1. DiaryInv => DashboardStays
  BY DEF DiaryInv, RoutesInPlace, DashboardStays, Route
<1> QED BY <1>1, DiaryInvariant, PTL

\* Only a write that the server applies changes a document.
LEMMA OnlyTheServer ==
  ASSUME Next, hist' # hist
  PROVE  \E d \in Devices : ServerApplies(d)
BY DEF Next, Answers, AnswersLost, User, Rebuild, Restart, Snapshot, Unmount, Answer, Reject,
       OpenCreator, SaveNew, LeaveCreator, OpenEditor, Type, ArrowBack, SystemBack, AskDelete,
       CancelDelete, ConfirmDelete, Enqueue, sdk

\* A deleted document stays deleted unless an add of it is applied again.
LEMMA DeletedStays ==
  ASSUME DiaryInv, [Next]_vars, NEW i \in Diaries, Content(i) = Deleted, ~AddPending(i)
  PROVE  Content(i)' = Deleted
<1>1. CASE hist' = hist
  BY <1>1 DEF Content
<1>2. CASE hist' # hist
  <2>1. PICK d \in Devices : ServerApplies(d)
    <3>1. Next
      BY <1>2 DEF vars, sdk
    <3> QED BY <1>2, <3>1, OnlyTheServer
  <2>2. PICK o : o = queue[d][Len(sent[d]) + 1]
    OBVIOUS
  <2>3. PICK c : c = ApplyOp(o, Content(o.id))
    OBVIOUS
  <2>4. /\ ~Refused(o) /\ hist' = [hist EXCEPT ![o.id] = Append(@, c)]
        /\ Len(sent[d]) < Len(queue[d])
    BY <2>1, <2>2, <2>3 DEF ServerApplies
  <2>5. /\ queue[d] \in Seq(Ops) /\ sent[d] \in Seq(Nat) /\ Len(sent[d]) + 1 \in DOMAIN queue[d]
    BY <2>4 DEF DiaryInv, DiaryType
  <2>6. o \in Ops
    BY <2>2, <2>5
  <2>7. CASE o.id # i
    BY <2>4, <2>7 DEF Content, DiaryInv, DiaryType
  <2>8. CASE o.id = i
    <3>1. o.op # "add"
      BY <2>2, <2>5, <2>8 DEF AddPending
    <3>2. o.op # "update"
      BY <2>4, <2>8, Numbers DEF Refused, Missing, Exists
    <3>3. o.op = "delete"
      BY <2>6, <3>1, <3>2 DEF Ops
    <3>4. c = Deleted
      BY <2>3, <3>3 DEF ApplyOp
    <3>5. hist[i] \in Seq(Contents) /\ hist'[i] = Append(hist[i], c) /\ c \in Contents
      BY <2>4, <2>8, <3>4, Numbers DEF DiaryInv, DiaryType
    <3>6. hist'[i][Len(hist'[i])] = c
      BY <3>5
    <3> QED BY <3>4, <3>6 DEF Content
  <2> QED BY <2>7, <2>8
<1> QED BY <1>1, <1>2

(***************************************************************************)
(* A deleted diary comes back on the server only while the add that made   *)
(* it is unanswered and may be sent again: the update of an editor closed  *)
(* after the delete is refused, on whatever device and however late.       *)
(***************************************************************************)
THEOREM NoResurrectionCorrect == Spec => NoResurrection
<1>1. DiaryInv /\ [Next]_vars =>
        [\A i \in Diaries : Content(i) = Deleted /\ ~AddPending(i) => Content(i)' = Deleted]_vars
  BY DeletedStays
<1> QED BY <1>1, DiaryInvariant, PTL DEF Spec, NoResurrection
=============================================================================
