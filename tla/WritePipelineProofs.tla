------------------------ MODULE WritePipelineProofs ------------------------
(***************************************************************************)
(* Theorems about WritePipeline, for any users, any length of the pipeline *)
(* and any number of writes and faults: the invariants of the run, and     *)
(* that the pipeline implements WriteQueue.                                *)
(***************************************************************************)
EXTENDS WritePipeline, SequenceTheorems, WellFoundedInduction, TLAPS

-----------------------------------------------------------------------------
(***************************************************************************)
(* The rows of a user                                                      *)
(***************************************************************************)
\* Batches have numbers.
LEMMA BatchNumbers ==
  ASSUME NEW q \in Seq(Batches)
  PROVE  /\ Len(q) \in Nat /\ DOMAIN q = 1..Len(q)
         /\ \A i \in 1..Len(q) : q[i] \in Batches /\ q[i].id \in Nat /\ q[i].w \in Nat
<1>1. Len(q) \in Nat /\ DOMAIN q = 1..Len(q) /\ \A i \in 1..Len(q) : q[i] \in Batches
  OBVIOUS
<1>2. \A b \in Batches : b.id \in Nat /\ b.w \in Nat
  BY BoundsAssumption DEF Batches
<1> QED BY <1>1, <1>2

\* Seek finds the first row after the last batch of the pipeline.
LEMMA SeekAfter ==
  ASSUME NEW q \in Seq(Batches), Sorted(q), NEW p \in Seq(Batches), IsPrefix(p, q)
  PROVE  Seek(q, IF p = <<>> THEN kBatchIdUnknown ELSE p[Len(p)].id) = Len(p) + 1
<1>1. PICK n \in Nat : n = Len(p)
  OBVIOUS
<1>2. PICK m \in Nat : m = Len(q)
  OBVIOUS
<1>3. PICK id : id = IF p = <<>> THEN kBatchIdUnknown ELSE p[Len(p)].id
  OBVIOUS
<1>4. n <= m /\ \A i \in 1..n : p[i] = q[i]
  BY <1>1, <1>2 DEF IsPrefix
<1>5. \A i \in 1..m : q[i].id \in Nat
  BY <1>2, BatchNumbers
<1>6. \A i, j \in 1..m : i < j => q[i].id < q[j].id
  BY <1>2 DEF Sorted
<1>7. CASE n = 0
  <2>0. p = <<>>
    BY <1>1, <1>7, EmptySeq
  <2>1. id = -1
    BY <1>3, <2>0 DEF kBatchIdUnknown
  <2>2. \A i \in 1..(m + 1) :
          (/\ \A j \in 1..(i - 1) : q[j].id <= id
           /\ i <= m => q[i].id > id) <=> i = 1
    <3> SUFFICES ASSUME NEW i \in 1..(m + 1)
                 PROVE  (/\ \A j \in 1..(i - 1) : q[j].id <= id
                         /\ i <= m => q[i].id > id) <=> i = 1
      OBVIOUS
    <3>1. i # 1 => 1 \in 1..(i - 1) /\ ~(q[1].id <= id)
      BY <1>5, <2>1
    <3>2. i = 1 => 1..(i - 1) = {} /\ (i <= m => q[i].id > id)
      BY <1>5, <2>1
    <3> QED BY <3>1, <3>2
  <2>3. Seek(q, id) = 1
    BY <1>2, <2>2 DEF Seek
  <2> QED BY <1>1, <1>3, <1>7, <2>3
<1>8. CASE n # 0
  <2>1. id = q[n].id /\ n \in 1..m
    BY <1>1, <1>2, <1>3, <1>4, <1>8
  <2>2. \A i \in 1..(m + 1) :
          (/\ \A j \in 1..(i - 1) : q[j].id <= id
           /\ i <= m => q[i].id > id) <=> i = n + 1
    <3> SUFFICES ASSUME NEW i \in 1..(m + 1)
                 PROVE  (/\ \A j \in 1..(i - 1) : q[j].id <= id
                         /\ i <= m => q[i].id > id) <=> i = n + 1
      OBVIOUS
    <3>1. CASE i = n + 1
      <4>1. \A j \in 1..n : q[j].id <= q[n].id
        BY <1>5, <1>6, <2>1
      <4>2. n + 1 <= m => q[n + 1].id > q[n].id
        BY <1>5, <1>6, <2>1
      <4> QED BY <2>1, <3>1, <4>1, <4>2
    <3>2. CASE i < n + 1
      <4>1. i \in 1..m /\ (i = n \/ i < n)
        BY <2>1, <3>2
      <4>2. ~(q[i].id > q[n].id)
        BY <1>5, <1>6, <2>1, <4>1
      <4> QED BY <2>1, <3>2, <4>1, <4>2
    <3>3. CASE i > n + 1
      <4>1. n + 1 \in 1..(i - 1) /\ n + 1 \in 1..m /\ n < n + 1
        BY <3>3
      <4>2. ~(q[n + 1].id <= q[n].id)
        BY <1>5, <1>6, <2>1, <4>1
      <4> QED BY <2>1, <3>3, <4>1, <4>2
    <3> QED BY <3>1, <3>2, <3>3
  <2>3. Seek(q, id) = n + 1
    BY <1>2, <2>1, <2>2 DEF Seek
  <2> QED BY <1>1, <1>3, <2>3
<1> QED BY <1>7, <1>8

\* Removing the first batch by its id leaves the rest.
LEMMA RemoveFirst ==
  ASSUME NEW q \in Seq(Batches), q # <<>>, Sorted(q)
  PROVE  RemoveMutationBatch(q, q[1].id) = Tail(q)
<1>1. PICK m \in Nat \ {0} : m = Len(q)
  OBVIOUS
<1>2. q[1].id \in Nat
  BY <1>1, BatchNumbers
<1>3. PICK id \in Nat : id = q[1].id
  BY <1>2
<1>4. \A i \in 1..(m + 1) :
        (/\ \A j \in 1..(i - 1) : q[j].id <= id - 1
         /\ i <= m => q[i].id > id - 1) <=> i = 1
  <2> SUFFICES ASSUME NEW i \in 1..(m + 1)
               PROVE  (/\ \A j \in 1..(i - 1) : q[j].id <= id - 1
                       /\ i <= m => q[i].id > id - 1) <=> i = 1
    OBVIOUS
  <2>1. i # 1 => 1 \in 1..(i - 1) /\ ~(q[1].id <= id - 1)
    BY <1>3
  <2>2. i = 1 => 1..(i - 1) = {} /\ q[i].id > id - 1
    BY <1>3
  <2> QED BY <2>1, <2>2
<1>5. Seek(q, id - 1) = 1
  BY <1>1, <1>4 DEF Seek
<1>6. RemoveMutationBatch(q, id) = SubSeq(q, 1, 0) \o SubSeq(q, 2, Len(q))
  <2>1. RemoveMutationBatch(q, id) = SubSeq(q, 1, 1 - 1) \o SubSeq(q, 1 + 1, Len(q))
    BY <1>5 DEF RemoveMutationBatch
  <2>2. 1 - 1 = 0 /\ 1 + 1 = 2
    OBVIOUS
  <2> QED BY <2>1, <2>2
<1>7. Tail(q) = SubSeq(q, 2, Len(q)) /\ Tail(q) \in Seq(Batches)
  BY TailIsSubSeq
<1>8. SubSeq(q, 1, 0) = <<>>
  BY SubSeqEmpty
<1> QED BY <1>3, <1>6, <1>7, <1>8, ConcatEmptySeq

\* The order of the rows when one is added after all others, or the first goes.
LEMMA SortedTail ==
  ASSUME NEW q \in Seq(Batches), q # <<>>, Sorted(q)
  PROVE  /\ Tail(q) \in Seq(Batches) /\ Sorted(Tail(q)) /\ Len(Tail(q)) = Len(q) - 1
         /\ \A i \in DOMAIN Tail(q) : i + 1 \in DOMAIN q /\ Tail(q)[i] = q[i + 1]
<1>1. PICK m \in Nat \ {0} : m = Len(q)
  OBVIOUS
<1>2. PICK r : r = Tail(q)
  OBVIOUS
<1>3. /\ r \in Seq(Batches) /\ Len(r) = m - 1 /\ DOMAIN r = 1..(m - 1) /\ DOMAIN q = 1..m
      /\ \A i \in 1..(m - 1) : r[i] = q[i + 1]
  BY <1>1, <1>2
<1>4. \A i \in 1..(m - 1) : i + 1 \in 1..m
  BY <1>1
<1>5. Sorted(r)
  <2> SUFFICES ASSUME NEW i \in 1..(m - 1), NEW j \in 1..(m - 1), i < j
               PROVE  r[i].id < r[j].id /\ r[i].w < r[j].w
    BY <1>3 DEF Sorted
  <2>1. i + 1 < j + 1
    OBVIOUS
  <2> QED BY <1>3, <1>4, <2>1 DEF Sorted
<1> QED BY <1>1, <1>2, <1>3, <1>4, <1>5

\* A row with a larger id and write keeps the queue sorted.
LEMMA SortedAppend ==
  ASSUME NEW q \in Seq(Batches), Sorted(q), NEW b \in Batches,
         \A i \in DOMAIN q : q[i].id < b.id /\ q[i].w < b.w
  PROVE  /\ Append(q, b) \in Seq(Batches) /\ Sorted(Append(q, b))
         /\ Len(Append(q, b)) = Len(q) + 1 /\ Append(q, b)[Len(q) + 1] = b
         /\ \A i \in DOMAIN q : i \in DOMAIN Append(q, b) /\ Append(q, b)[i] = q[i]
         /\ \A i \in DOMAIN Append(q, b) : i \in DOMAIN q \/ i = Len(q) + 1
<1>1. PICK m \in Nat : m = Len(q)
  OBVIOUS
<1>2. PICK r : r = Append(q, b)
  OBVIOUS
<1>3. /\ r \in Seq(Batches) /\ Len(r) = m + 1 /\ DOMAIN r = 1..(m + 1) /\ DOMAIN q = 1..m
      /\ r[m + 1] = b /\ \A i \in 1..m : r[i] = q[i]
  BY <1>1, <1>2
<1>4. \A i \in 1..(m + 1) : i \in 1..m \/ i = m + 1
  OBVIOUS
<1>5. Sorted(r)
  <2> SUFFICES ASSUME NEW i \in 1..(m + 1), NEW j \in 1..(m + 1), i < j
               PROVE  r[i].id < r[j].id /\ r[i].w < r[j].w
    BY <1>3 DEF Sorted
  <2>1. i \in 1..m /\ (j \in 1..m \/ j = m + 1)
    OBVIOUS
  <2> QED BY <1>3, <2>1 DEF Sorted
<1>6. \A i \in 1..m : i \in 1..(m + 1)
  OBVIOUS
<1> QED BY <1>1, <1>2, <1>3, <1>4, <1>5, <1>6

-----------------------------------------------------------------------------
(***************************************************************************)
(* The stream, as functions on its record                                  *)
(***************************************************************************)
\* NextMutationBatches continues the pipeline with the rows that follow it,
\* up to the end of the queue or the pipeline's limit.
LEMMA NextBatches ==
  ASSUME NEW q \in Seq(Batches), Sorted(q), NEW t \in Streams, IsPrefix(t.pipe, q),
         Len(t.pipe) <= kMaxPendingWrites
  PROVE  /\ NextMutationBatches(t, q) \in Seq(Batches)
         /\ t.pipe \o NextMutationBatches(t, q) \in Seq(Batches)
         /\ IsPrefix(t.pipe \o NextMutationBatches(t, q), q)
         /\ Len(t.pipe \o NextMutationBatches(t, q)) <= kMaxPendingWrites
<1>1. PICK p \in Seq(Batches) : p = t.pipe
  BY DEF Streams
<1>2. PICK n \in Nat : n = Len(p)
  OBVIOUS
<1>3. PICK m \in Nat : m = Len(q)
  OBVIOUS
<1>4. PICK k \in Nat : k = kMaxPendingWrites /\ n <= k
  BY <1>1, <1>2, PendingAssumption
<1>5. n <= m /\ \A i \in 1..n : p[i] = q[i]
  BY <1>1, <1>2, <1>3 DEF IsPrefix
<1>6. Seek(q, Last(t)) = n + 1
  BY <1>1, <1>2, SeekAfter DEF Last
<1>7. PICK l : l = IF n + 1 + (k - n) - 1 < m THEN n + 1 + (k - n) - 1 ELSE m
  OBVIOUS
<1>8. l \in Nat /\ n <= l /\ l <= m /\ l <= k
  BY <1>4, <1>5, <1>7
<1>9. NextMutationBatches(t, q) = SubSeq(q, n + 1, l)
  BY <1>1, <1>2, <1>3, <1>4, <1>6, <1>7 DEF NextMutationBatches
<1>10. SubSeq(q, 1, n) = p
  <2>1. \A i \in 1..n : q[i] \in Batches
    BY <1>3, <1>5
  <2>2. /\ SubSeq(q, 1, n) \in Seq(Batches)
        /\ Len(SubSeq(q, 1, n)) = IF 1 <= n THEN n - 1 + 1 ELSE 0
        /\ \A i \in 1..(n - 1 + 1) : SubSeq(q, 1, n)[i] = q[1 + i - 1]
    BY <2>1, SubSeqProperties
  <2>3. (IF 1 <= n THEN n - 1 + 1 ELSE 0) = n /\ \A i \in 1..n : i \in 1..(n - 1 + 1) /\ 1 + i - 1 = i
    OBVIOUS
  <2>4. Len(SubSeq(q, 1, n)) = n /\ \A i \in 1..n : SubSeq(q, 1, n)[i] = p[i]
    BY <1>5, <2>2, <2>3
  <2> QED BY <1>2, <2>2, <2>4, SeqEqual
<1>11. p \o SubSeq(q, n + 1, l) = SubSeq(q, 1, l)
  <2>1. 1 \in 1..(m + 1) /\ n \in (1 - 1)..m /\ l \in n..m
    BY <1>5, <1>8
  <2>2. SubSeq(q, 1, n) \o SubSeq(q, n + 1, l) = SubSeq(q, 1, l)
    BY <1>3, <2>1, ConcatAdjacentSubSeq
  <2> QED BY <1>10, <2>2
<1>12. /\ SubSeq(q, 1, l) \in Seq(Batches) /\ Len(SubSeq(q, 1, l)) = l
       /\ \A i \in 1..l : SubSeq(q, 1, l)[i] = q[i]
  <2>1. \A i \in 1..l : q[i] \in Batches
    BY <1>3, <1>8
  <2>2. /\ SubSeq(q, 1, l) \in Seq(Batches)
        /\ Len(SubSeq(q, 1, l)) = IF 1 <= l THEN l - 1 + 1 ELSE 0
        /\ \A i \in 1..(l - 1 + 1) : SubSeq(q, 1, l)[i] = q[1 + i - 1]
    BY <1>8, <2>1, SubSeqProperties
  <2>3. (IF 1 <= l THEN l - 1 + 1 ELSE 0) = l /\ \A i \in 1..l : i \in 1..(l - 1 + 1) /\ 1 + i - 1 = i
    BY <1>8
  <2> QED BY <2>2, <2>3
<1>13. SubSeq(q, n + 1, l) \in Seq(Batches)
  <2>1. \A i \in (n + 1)..l : q[i] \in Batches
    BY <1>3, <1>8
  <2> QED BY <1>8, <2>1, SubSeqProperties
<1>14. IsPrefix(SubSeq(q, 1, l), q)
  BY <1>3, <1>8, <1>12 DEF IsPrefix
<1> QED BY <1>1, <1>4, <1>8, <1>9, <1>11, <1>12, <1>13, <1>14

\* What filling the pipeline does to each field of the stream.
Filled(t, r, next) ==
  /\ r.pipe = t.pipe \o next
  /\ r.requests = (IF IsOpen(t) /\ t.handshake THEN t.requests \o next ELSE t.requests)
  /\ r.idle = (IF IsOpen(t) /\ t.handshake /\ next # <<>> THEN FALSE
               ELSE IF IsOpen(t) /\ r.pipe = <<>> THEN TRUE ELSE t.idle)
  /\ r.state = (IF ~IsStarted(t) /\ r.pipe # <<>>
                  THEN IF t.state = "Error" THEN "Backoff" ELSE "Starting" ELSE t.state)
  /\ r.asks = (IF ~IsStarted(t) /\ r.pipe # <<>> /\ t.state # "Error"
                 THEN t.asks \cup {t.closes} ELSE t.asks)
  /\ r.handshake = t.handshake /\ r.closes = t.closes /\ r.cred = t.cred
  /\ r.replies = t.replies /\ r.status = t.status

\* Filling the pipeline does what Filled says.
LEMMA FillEffect ==
  ASSUME NEW q \in Seq(Batches), Sorted(q), NEW t \in Streams, IsPrefix(t.pipe, q),
         Len(t.pipe) <= kMaxPendingWrites
  PROVE  \E next \in Seq(Batches) :
           /\ Filled(t, FillWritePipeline(t, q), next)
           /\ t.pipe \o next \in Seq(Batches)
           /\ IsPrefix(t.pipe \o next, q) /\ Len(t.pipe \o next) <= kMaxPendingWrites
           /\ FillWritePipeline(t, q) \in Streams
<1>1. PICK next \in Seq(Batches) : next = NextMutationBatches(t, q)
  BY NextBatches
<1>2. /\ t.pipe \o next \in Seq(Batches)
      /\ IsPrefix(t.pipe \o next, q) /\ Len(t.pipe \o next) <= kMaxPendingWrites
  BY <1>1, NextBatches
<1>3. PICK p \in Seq(Batches) : p = t.pipe \o next
  BY <1>2
<1>4. PICK full : full = AddToWritePipeline(t, next)
  OBVIOUS
<1>5. /\ full \in Streams /\ full.pipe = p
      /\ full.requests = (IF IsOpen(t) /\ t.handshake THEN t.requests \o next ELSE t.requests)
      /\ full.idle = (IF IsOpen(t) /\ t.handshake /\ next # <<>> THEN FALSE ELSE t.idle)
      /\ full.state = t.state /\ full.asks = t.asks
      /\ full.handshake = t.handshake /\ full.closes = t.closes /\ full.cred = t.cred
      /\ full.replies = t.replies /\ full.status = t.status
  <2>1. PICK added : added = [t EXCEPT !.pipe = p]
    OBVIOUS
  <2>2. /\ added \in Streams /\ added.pipe = p /\ added.requests = t.requests
        /\ added.idle = t.idle /\ added.state = t.state /\ added.asks = t.asks
        /\ added.handshake = t.handshake /\ added.closes = t.closes /\ added.cred = t.cred
        /\ added.replies = t.replies /\ added.status = t.status
    BY <2>1 DEF Streams
  <2>3. full = IF IsOpen(t) /\ t.handshake THEN Write(added, next) ELSE added
    BY <1>3, <1>4, <2>1 DEF AddToWritePipeline
  <2>4. CASE ~(IsOpen(t) /\ t.handshake)
    BY <2>2, <2>3, <2>4
  <2>5. CASE IsOpen(t) /\ t.handshake /\ next = <<>>
    <3>1. t.requests \o next = t.requests
      BY <2>5, ConcatEmptySeq DEF Streams
    <3> QED BY <2>2, <2>3, <2>5, <3>1 DEF Write
  <2>6. CASE IsOpen(t) /\ t.handshake /\ next # <<>>
    <3>1. PICK r \in Seq(Batches) : r = t.requests \o next
      BY ConcatProperties DEF Streams
    <3>2. full = [added EXCEPT !.requests = r, !.idle = FALSE]
      BY <2>2, <2>3, <2>6, <3>1 DEF Write
    <3> QED BY <2>2, <2>6, <3>1, <3>2 DEF Streams
  <2> QED BY <2>4, <2>5, <2>6
<1>6. PICK m : m = IF full.pipe = <<>> THEN MarkIdle(full) ELSE full
  OBVIOUS
<1>7. /\ m \in Streams /\ m.pipe = p /\ m.requests = full.requests
      /\ m.idle = (IF IsOpen(t) /\ p = <<>> THEN TRUE ELSE full.idle)
      /\ m.state = t.state /\ m.asks = t.asks
      /\ m.handshake = t.handshake /\ m.closes = t.closes /\ m.cred = t.cred
      /\ m.replies = t.replies /\ m.status = t.status
  <2>1. CASE IsOpen(t) /\ p = <<>>
    <3>1. m = [full EXCEPT !.idle = TRUE]
      BY <1>5, <1>6, <2>1 DEF MarkIdle, IsOpen
    <3> QED BY <1>5, <2>1, <3>1 DEF Streams
  <2>2. CASE ~(IsOpen(t) /\ p = <<>>)
    <3>1. m = full
      BY <1>5, <1>6, <2>2 DEF MarkIdle, IsOpen
    <3> QED BY <1>5, <2>2, <3>1
  <2> QED BY <2>1, <2>2
<1>8. PICK r : r = FillWritePipeline(t, q)
  OBVIOUS
<1>9. r = StartIfNeeded(m)
  BY <1>1, <1>4, <1>6, <1>8 DEF FillWritePipeline
<1>10. next # <<>> => p # <<>>
  BY <1>3, ConcatEqualIffEmpty DEF Streams
<1>11. r \in Streams /\ Filled(t, r, next)
  <2>1. CASE ~(~IsStarted(t) /\ p # <<>>)
    <3>1. r = m
      BY <1>7, <1>9, <2>1 DEF StartIfNeeded, ShouldStartWriteStream, IsStarted
    <3> QED BY <1>3, <1>5, <1>7, <1>10, <2>1, <3>1 DEF Filled
  <2>2. CASE ~IsStarted(t) /\ p # <<>> /\ t.state = "Error"
    <3>1. r = [m EXCEPT !.state = "Backoff"]
      BY <1>7, <1>9, <2>2 DEF StartIfNeeded, ShouldStartWriteStream, IsStarted, Start
    <3>2. /\ r \in Streams /\ r.state = "Backoff" /\ r.pipe = p /\ r.requests = m.requests /\ r.idle = m.idle
          /\ r.asks = m.asks /\ r.handshake = m.handshake /\ r.closes = m.closes
          /\ r.cred = m.cred /\ r.replies = m.replies /\ r.status = m.status
      BY <1>7, <3>1 DEF Streams, States
    <3> QED BY <1>3, <1>5, <1>7, <1>10, <2>2, <3>2 DEF Filled
  <2>3. CASE ~IsStarted(t) /\ p # <<>> /\ t.state # "Error"
    <3>1. r = [m EXCEPT !.state = "Starting", !.asks = @ \cup {m.closes}]
      BY <1>7, <1>9, <2>3 DEF StartIfNeeded, ShouldStartWriteStream, IsStarted, Start
    <3>2. /\ r \in Streams /\ r.state = "Starting" /\ r.pipe = p /\ r.requests = m.requests /\ r.idle = m.idle
          /\ r.asks = m.asks \cup {m.closes} /\ r.handshake = m.handshake /\ r.closes = m.closes
          /\ r.cred = m.cred /\ r.replies = m.replies /\ r.status = m.status
      BY <1>7, <3>1 DEF Streams, States
    <3> QED BY <1>3, <1>5, <1>7, <1>10, <2>3, <3>2 DEF Filled
  <2> QED BY <2>1, <2>2, <2>3
<1> QED BY <1>2, <1>8, <1>11

\* One sequence of batches after another.
LEMMA ConcatBatches ==
  ASSUME NEW a \in Seq(Batches), NEW b \in Seq(Batches)
  PROVE  \E g \in Seq(Batches) :
           /\ g = a \o b /\ Len(g) = Len(a) + Len(b)
           /\ \A i \in 1..(Len(a) + Len(b)) : g[i] = IF i <= Len(a) THEN a[i] ELSE b[i - Len(a)]
<1>1. /\ a \o b \in Seq(Batches) /\ Len(a \o b) = Len(a) + Len(b)
      /\ \A i \in 1..(Len(a) + Len(b)) : (a \o b)[i] = IF i <= Len(a) THEN a[i] ELSE b[i - Len(a)]
  BY ConcatProperties
<1> QED BY <1>1, Zenon

\* The pipeline and the requests grow by the same batches.
LEMMA MatchingGrows ==
  ASSUME NEW t \in Streams, Matching(t), NEW r \in Streams, NEW next \in Seq(Batches),
         Filled(t, r, next)
  PROVE  Matching(r)
<1>1. PICK p \in Seq(Batches) : p = t.pipe
  BY DEF Streams
<1>2. PICK a \in Seq(Batches) : a = t.replies
  BY DEF Streams
<1>3. PICK c \in Seq(Batches) : c = t.requests
  BY DEF Streams
<1>4. IsOpen(r) <=> IsOpen(t)
  BY DEF Filled, IsOpen, IsStarted
<1>5. Ended(r) = Ended(t) /\ Ended(t) \in Nat
  BY DEF Filled, Ended
<1>6. CASE t.handshake
  <2>1. /\ IsOpen(t) /\ r.handshake /\ r.requests = c \o next /\ r.pipe = p \o next /\ r.replies = a
    BY <1>1, <1>2, <1>3, <1>6 DEF Matching, Filled
  <2>2. PICK x, y, z, n \in Nat : x = Len(a) /\ y = Len(c) /\ z = Ended(t) /\ n = Len(next)
    BY <1>5
  <2>3. /\ Len(p) = x + z + y /\ \A i \in 1..x : a[i] = p[i]
        /\ \A i \in 1..y : c[i] = p[x + z + i]
    BY <1>1, <1>2, <1>3, <1>6, <2>2 DEF Matching
  <2>4. PICK g \in Seq(Batches) :
          /\ g = c \o next /\ Len(g) = Len(c) + Len(next)
          /\ \A i \in 1..(Len(c) + Len(next)) : g[i] = IF i <= Len(c) THEN c[i] ELSE next[i - Len(c)]
    BY ConcatBatches
  <2>5. Len(g) = y + n /\ \A i \in 1..(y + n) : g[i] = IF i <= y THEN c[i] ELSE next[i - y]
    BY <2>2, <2>4
  <2>6. PICK l \in Nat : l = x + z + y
    OBVIOUS
  <2>7. PICK h \in Seq(Batches) :
          /\ h = p \o next /\ Len(h) = Len(p) + Len(next)
          /\ \A i \in 1..(Len(p) + Len(next)) : h[i] = IF i <= Len(p) THEN p[i] ELSE next[i - Len(p)]
    BY ConcatBatches
  <2>8. Len(h) = l + n /\ \A i \in 1..(l + n) : h[i] = IF i <= l THEN p[i] ELSE next[i - l]
    <3>1. Len(p) = l /\ Len(next) = n
      BY <2>2, <2>3, <2>6
    <3> QED BY <2>7, <3>1, Zenon
  <2>9. \A i \in 1..x : a[i] = h[i]
    <3>1. \A i \in 1..x : i \in 1..(l + n) /\ i <= l
      BY <2>6
    <3> QED BY <2>3, <2>8, <3>1
  <2>10. ASSUME NEW i \in 1..(y + n) PROVE g[i] = h[x + z + i]
    <3>1. PICK j \in 1..(l + n) : j = x + z + i
      BY <2>6
    <3>2. CASE i <= y
      <4>1. i \in 1..y /\ j <= l
        BY <2>6, <3>1, <3>2
      <4>2. g[i] = c[i]
        BY <2>5, <3>2
      <4>3. h[j] = p[j]
        BY <2>8, <4>1
      <4>4. c[i] = p[j]
        BY <2>3, <3>1, <4>1
      <4> QED BY <3>1, <4>2, <4>3, <4>4
    <3>3. CASE i > y
      <4>1. j - l = i - y /\ ~(j <= l) /\ ~(i <= y)
        BY <2>6, <3>1, <3>3
      <4>2. g[i] = next[i - y] /\ h[j] = next[j - l]
        BY <2>5, <2>8, <4>1
      <4> QED BY <3>1, <4>1, <4>2
    <3> QED BY <3>2, <3>3
  <2>11. x + z + (y + n) = l + n
    BY <2>6
  <2>12. /\ r.requests = g /\ r.pipe = h
    BY <2>1, <2>4, <2>7
  <2>13. Len(r.replies) = x /\ Len(r.requests) = y + n /\ Len(r.pipe) = l + n /\ Ended(r) = z
    BY <1>5, <2>1, <2>2, <2>12, <2>5, <2>8
  <2> QED BY <1>4, <2>1, <2>9, <2>10, <2>11, <2>12, <2>13 DEF Matching
<1>7. CASE ~t.handshake
  <2>1. r.requests = c /\ r.replies = a /\ ~r.handshake /\ r.status = t.status
    BY <1>2, <1>3, <1>7 DEF Filled
  <2> QED BY <1>2, <1>3, <1>4, <1>7, <2>1 DEF Matching
<1> QED BY <1>6, <1>7

\* What is known of the connection depends on six fields of the stream.
LEMMA MatchingSame ==
  ASSUME NEW t, NEW r, Matching(t), r.handshake = t.handshake, r.state = t.state,
         r.status = t.status, r.pipe = t.pipe, r.requests = t.requests, r.replies = t.replies
  PROVE  Matching(r)
<1>1. (IsOpen(r) <=> IsOpen(t)) /\ Ended(r) = Ended(t)
  BY DEF IsOpen, Ended
<1> QED BY <1>1 DEF Matching

\* A stream that filling the pipeline starts has asked for one token.
LEMMA FilledTokens ==
  ASSUME NEW t \in Streams, NEW ts, TokensKept(t, ts), NEW r, NEW next, Filled(t, r, next)
  PROVE  TokensKept(r, ts)
<1>1. r.closes = t.closes /\ Wanted(r, ts) = Wanted(t, ts)
  BY DEF Filled, Wanted
<1>2. CASE IsStarted(t) \/ r.pipe = <<>> \/ t.state = "Error"
  <2>1. r.asks = t.asks /\ (r.state = "Starting" <=> t.state = "Starting")
    BY <1>2 DEF Filled, IsStarted
  <2> QED BY <1>1, <2>1 DEF TokensKept
<1>3. CASE ~(IsStarted(t) \/ r.pipe = <<>> \/ t.state = "Error")
  <2>1. r.asks = t.asks \cup {t.closes} /\ r.state = "Starting" /\ t.state # "Starting"
    BY <1>3 DEF Filled, IsStarted
  <2>2. Wanted(t, ts) = {}
    BY <2>1 DEF TokensKept
  <2>3. t.closes \in 0..t.closes
    BY DEF Streams
  <2> QED BY <1>1, <2>1, <2>2, <2>3 DEF TokensKept
<1> QED BY <1>2, <1>3

\* Filling the pipeline keeps what is known of the stream.
LEMMA FillKeeps ==
  ASSUME NEW q \in Seq(Batches), Sorted(q), NEW t \in Streams, StreamKept(t, q),
         NEW ts, TokensKept(t, ts)
  PROVE  /\ FillWritePipeline(t, q) \in Streams
         /\ StreamKept(FillWritePipeline(t, q), q) /\ TokensKept(FillWritePipeline(t, q), ts)
         /\ IsOpen(FillWritePipeline(t, q)) <=> IsOpen(t)
         /\ FillWritePipeline(t, q).handshake = t.handshake
         /\ FillWritePipeline(t, q).replies = t.replies
         /\ FillWritePipeline(t, q).cred = t.cred
<1>1. PICK r : r = FillWritePipeline(t, q)
  OBVIOUS
<1>2. PICK next \in Seq(Batches) :
        /\ Filled(t, r, next) /\ r \in Streams
        /\ IsPrefix(t.pipe \o next, q) /\ Len(t.pipe \o next) <= kMaxPendingWrites
  BY <1>1, FillEffect DEF StreamKept
<1>3. IsPrefix(r.pipe, q) /\ Len(r.pipe) <= kMaxPendingWrites
  BY <1>2 DEF Filled
<1>4. Matching(r)
  BY <1>2, MatchingGrows DEF StreamKept
<1>5. t.pipe # <<>> => r.pipe # <<>>
  <2>1. t.pipe \in Seq(Batches) /\ r.pipe = t.pipe \o next
    BY <1>2 DEF Streams, Filled
  <2> QED BY <2>1, ConcatEqualIffEmpty
<1>6. r.pipe # <<>> /\ next = <<>> => t.pipe # <<>>
  <2>1. t.pipe \in Seq(Batches) /\ r.pipe = t.pipe \o next
    BY <1>2 DEF Streams, Filled
  <2> QED BY <2>1, ConcatEqualIffEmpty
<1>7. /\ IsOpen(r) <=> IsOpen(t)
      /\ r.handshake = t.handshake /\ r.replies = t.replies /\ r.cred = t.cred /\ r.closes = t.closes
  BY <1>2 DEF Filled, IsOpen, IsStarted
<1>8. r.idle => IsOpen(r) /\ r.pipe = <<>>
  <2> SUFFICES ASSUME r.idle PROVE IsOpen(r) /\ r.pipe = <<>>
    OBVIOUS
  <2>1. ~(IsOpen(t) /\ t.handshake /\ next # <<>>)
    BY <1>2 DEF Filled
  <2>2. (IsOpen(t) /\ r.pipe = <<>>) \/ t.idle
    BY <1>2, <2>1 DEF Filled
  <2>3. CASE t.idle
    <3>1. IsOpen(t) /\ t.pipe = <<>>
      BY <2>3 DEF StreamKept
    <3>2. t.handshake
      BY <3>1 DEF StreamKept, IsOpen, IsStarted, Streams
    <3>3. r.pipe = <<>>
      BY <1>6, <2>1, <3>1, <3>2
    <3> QED BY <1>7, <3>1, <3>3
  <2> QED BY <1>7, <2>2, <2>3
<1>9. IsStarted(r) /\ ~r.handshake => r.pipe # <<>>
  <2>1. IsStarted(t) => (IsStarted(r) /\ ~r.handshake => r.pipe # <<>>)
    BY <1>5, <1>7 DEF StreamKept
  <2>2. ~IsStarted(t) => (IsStarted(r) => r.pipe # <<>>)
    BY <1>2 DEF Filled, IsStarted
  <2> QED BY <2>1, <2>2
<1>10. StreamKept(r, q)
  BY <1>3, <1>4, <1>8, <1>9 DEF StreamKept
<1>11. TokensKept(r, ts)
  BY <1>2, FilledTokens
<1> QED BY <1>1, <1>2, <1>7, <1>10, <1>11

\* What Close does to each field.
LEMMA CloseFields ==
  ASSUME NEW t \in Streams, NEW st \in States
  PROVE  /\ Close(t, st) \in Streams
         /\ Close(t, st).state = st /\ ~Close(t, st).idle /\ Close(t, st).closes = t.closes + 1
         /\ Close(t, st).requests = <<>> /\ Close(t, st).replies = <<>>
         /\ Close(t, st).status = "none" /\ Close(t, st).handshake = t.handshake
         /\ Close(t, st).asks = t.asks /\ Close(t, st).pipe = t.pipe /\ Close(t, st).cred = t.cred
<1>1. <<>> \in Seq(Batches)
  OBVIOUS
<1>2. t.closes + 1 \in Nat
  BY DEF Streams
<1> QED BY <1>1, <1>2 DEF Close, Streams

\* A closed stream wants none of the tokens asked for before.
LEMMA ClosedTokens ==
  ASSUME NEW t \in Streams, NEW ts \in Seq(Tasks), TokensKept(t, ts), NEW r \in Streams,
         r.closes = t.closes + 1, r.asks = t.asks, r.state # "Starting"
  PROVE  TokensKept(r, ts)
<1>1. t.closes \in Nat /\ t.asks \subseteq 0..t.closes
  BY DEF Streams, TokensKept
<1>2. r.asks \subseteq 0..r.closes /\ r.closes \notin r.asks
  BY <1>1
<1>3. \A i \in DOMAIN ts : ts[i].kind = "token" => ts[i].closes \in Nat /\ ts[i].closes <= t.closes
  <2>1. \A i \in DOMAIN ts : ts[i] \in Tasks
    OBVIOUS
  <2> QED BY <2>1 DEF Tasks, TokensKept
<1>4. \A i \in DOMAIN ts : ts[i].kind = "token" => ts[i].closes <= r.closes /\ ts[i].closes # r.closes
  BY <1>1, <1>3
<1>5. Wanted(r, ts) = {}
  BY <1>4 DEF Wanted
<1> QED BY <1>2, <1>4, <1>5 DEF TokensKept

\* A stream that is not started, and has an empty connection.
LEMMA Quiet ==
  ASSUME NEW r \in Streams, ~IsStarted(r), ~r.handshake, ~r.idle, r.status = "none",
         r.requests = <<>>, r.replies = <<>>, NEW q, IsPrefix(r.pipe, q),
         Len(r.pipe) <= kMaxPendingWrites
  PROVE  StreamKept(r, q)
<1>1. ~IsOpen(r)
  BY DEF IsOpen, IsStarted
<1> QED BY <1>1 DEF StreamKept, Matching

\* Stop, which the idle timer calls when the pipeline is empty.
LEMMA StopKeeps ==
  ASSUME NEW t \in Streams, NEW q \in Seq(Batches), StreamKept(t, q),
         NEW ts \in Seq(Tasks), TokensKept(t, ts)
  PROVE  /\ Stop(t) \in Streams /\ ~IsStarted(Stop(t)) /\ Stop(t).pipe = t.pipe
         /\ ~Stop(t).handshake /\ ~Stop(t).idle /\ Stop(t).status = "none"
         /\ Stop(t).requests = <<>> /\ Stop(t).replies = <<>>
         /\ TokensKept(Stop(t), ts) /\ StreamKept(Stop(t), q)
<1>1. PICK r : r = Stop(t)
  OBVIOUS
<1>2. CASE IsStarted(t)
  <2>1. PICK c : c = Close(t, "Initial")
    OBVIOUS
  <2>2. /\ c \in Streams /\ c.state = "Initial" /\ ~c.idle /\ c.closes = t.closes + 1
        /\ c.requests = <<>> /\ c.replies = <<>> /\ c.status = "none"
        /\ c.asks = t.asks /\ c.pipe = t.pipe
    BY <2>1, CloseFields DEF States
  <2>3. r = [c EXCEPT !.handshake = FALSE]
    BY <1>1, <1>2, <2>1 DEF Stop
  <2>4. /\ r \in Streams /\ r.state = "Initial" /\ ~r.idle /\ r.closes = t.closes + 1 /\ ~r.handshake
        /\ r.requests = <<>> /\ r.replies = <<>> /\ r.status = "none"
        /\ r.asks = t.asks /\ r.pipe = t.pipe
    BY <2>2, <2>3 DEF Streams
  <2>5. ~IsStarted(r)
    BY <2>4 DEF IsStarted
  <2>6. TokensKept(r, ts)
    BY <2>4, ClosedTokens
  <2>7. IsPrefix(r.pipe, q) /\ Len(r.pipe) <= kMaxPendingWrites
    BY <2>4 DEF StreamKept
  <2>8. StreamKept(r, q)
    BY <2>4, <2>5, <2>7, Quiet
  <2> QED BY <1>1, <2>4, <2>5, <2>6, <2>8
<1>3. CASE ~IsStarted(t)
  <2>1. r = t /\ ~IsOpen(t)
    BY <1>1, <1>3 DEF Stop, IsOpen, IsStarted
  <2> QED BY <1>1, <1>3, <2>1 DEF StreamKept, Matching
<1> QED BY <1>2, <1>3

\* RestartNetwork, for whichever user's queue.
LEMMA RestartKeeps ==
  ASSUME NEW t \in Streams, NEW q0 \in Seq(Batches), StreamKept(t, q0),
         NEW ts \in Seq(Tasks), TokensKept(t, ts), NEW q \in Seq(Batches), Sorted(q)
  PROVE  /\ RestartNetwork(t, q) \in Streams /\ ~IsOpen(RestartNetwork(t, q))
         /\ ~RestartNetwork(t, q).handshake
         /\ StreamKept(RestartNetwork(t, q), q) /\ TokensKept(RestartNetwork(t, q), ts)
<1>1. PICK c : c = Stop(t)
  OBVIOUS
<1>2. /\ c \in Streams /\ ~IsStarted(c) /\ ~c.handshake /\ ~c.idle /\ c.status = "none"
      /\ c.requests = <<>> /\ c.replies = <<>> /\ TokensKept(c, ts)
  BY <1>1, StopKeeps
<1>3. PICK r : r = [c EXCEPT !.pipe = <<>>, !.state = "Initial"]
  OBVIOUS
<1>4. /\ r \in Streams /\ r.state = "Initial" /\ r.pipe = <<>> /\ ~r.handshake /\ ~r.idle
      /\ r.status = "none" /\ r.requests = <<>> /\ r.replies = <<>>
      /\ r.closes = c.closes /\ r.asks = c.asks
  <2>1. <<>> \in Seq(Batches) /\ "Initial" \in States
    BY DEF States
  <2> QED BY <1>2, <1>3, <2>1 DEF Streams
<1>5. StreamKept(r, q)
  <2>1. Len(r.pipe) = 0 /\ Len(q) \in Nat
    BY <1>4
  <2>2. IsPrefix(r.pipe, q) /\ Len(r.pipe) <= kMaxPendingWrites
    BY <2>1, PendingAssumption DEF IsPrefix
  <2>3. ~IsStarted(r)
    BY <1>4 DEF IsStarted
  <2> QED BY <1>4, <2>2, <2>3, Quiet
<1>6. TokensKept(r, ts)
  <2>1. Wanted(r, ts) = Wanted(c, ts)
    BY <1>4 DEF Wanted
  <2>2. c.state # "Starting"
    BY <1>2 DEF IsStarted
  <2> QED BY <1>2, <1>4, <2>1, <2>2 DEF TokensKept
<1>7. RestartNetwork(t, q) = FillWritePipeline(r, q)
  BY <1>1, <1>3 DEF RestartNetwork
<1>8. ~IsOpen(r)
  BY <1>4 DEF IsOpen
<1> QED BY <1>4, <1>5, <1>6, <1>7, <1>8, FillKeeps

\* The stream closes with an error, and starts again if something is left to
\* write: at once for a rejected write, after a while otherwise.
LEMMA ClosedKeeps ==
  ASSUME NEW t \in Streams, NEW ts \in Seq(Tasks), TokensKept(t, ts), NEW rejects \in BOOLEAN,
         NEW q \in Seq(Batches), Sorted(q), Len(t.pipe) <= kMaxPendingWrites,
         rejects => t.pipe # <<>> /\ IsPrefix(Tail(t.pipe), q),
         ~rejects => IsPrefix(t.pipe, q)
  PROVE  /\ Closed(t, rejects, q) \in Streams /\ ~IsOpen(Closed(t, rejects, q))
         /\ ~Closed(t, rejects, q).handshake /\ Closed(t, rejects, q).closes = t.closes + 1
         /\ StreamKept(Closed(t, rejects, q), q) /\ TokensKept(Closed(t, rejects, q), ts)
<1>1. PICK c : c = Close(t, "Error")
  OBVIOUS
<1>2. /\ c \in Streams /\ c.state = "Error" /\ ~c.idle /\ c.closes = t.closes + 1
      /\ c.requests = <<>> /\ c.replies = <<>> /\ c.status = "none"
      /\ c.asks = t.asks /\ c.pipe = t.pipe
  BY <1>1, CloseFields DEF States
<1>3. PICK z : z = Closed(t, rejects, q)
  OBVIOUS
<1>4. \E y : /\ z = [y EXCEPT !.handshake = FALSE] /\ y \in Streams
             /\ y.status = "none" /\ y.requests = <<>> /\ y.replies = <<>> /\ ~y.idle
             /\ y.state # "Open" /\ (IsStarted(y) => y.pipe # <<>>)
             /\ IsPrefix(y.pipe, q) /\ Len(y.pipe) <= kMaxPendingWrites /\ TokensKept(y, ts)
             /\ y.closes = t.closes + 1
  <2>1. CASE rejects
    <3>1. PICK x : x = [c EXCEPT !.pipe = Tail(t.pipe), !.state = "Initial"]
      OBVIOUS
    <3>2. /\ x \in Streams /\ x.state = "Initial" /\ ~x.idle /\ x.closes = t.closes + 1
          /\ x.requests = <<>> /\ x.replies = <<>> /\ x.status = "none"
          /\ x.asks = t.asks /\ x.pipe = Tail(t.pipe) /\ Len(x.pipe) <= kMaxPendingWrites
      <4>1. t.pipe \in Seq(Batches) /\ t.pipe # <<>> /\ "Initial" \in States
        BY <2>1 DEF Streams, States
      <4>2. Tail(t.pipe) \in Seq(Batches) /\ Len(Tail(t.pipe)) = Len(t.pipe) - 1 /\ Len(t.pipe) \in Nat
        BY <4>1
      <4>3. Len(Tail(t.pipe)) <= kMaxPendingWrites
        BY <4>2, PendingAssumption
      <4>4. PICK p \in Seq(Batches) : p = Tail(t.pipe)
        BY <4>2
      <4> QED BY <1>2, <3>1, <4>1, <4>3, <4>4 DEF Streams
    <3>3. PICK r : r = FillWritePipeline(x, q)
      OBVIOUS
    <3>4. PICK next \in Seq(Batches) :
            /\ Filled(x, r, next) /\ r \in Streams
            /\ IsPrefix(x.pipe \o next, q) /\ Len(x.pipe \o next) <= kMaxPendingWrites
      BY <2>1, <3>2, <3>3, FillEffect
    <3>5. r.pipe # <<>> => IsStarted(r)
      BY <3>2, <3>4 DEF Filled, IsStarted
    <3>6. z = [StartIfNeeded(r) EXCEPT !.handshake = FALSE]
      BY <1>1, <1>2, <1>3, <2>1, <3>1, <3>3 DEF Closed
    <3>7. StartIfNeeded(r) = r
      BY <3>5 DEF StartIfNeeded, ShouldStartWriteStream
    <3>8. TokensKept(x, ts)
      BY <3>2, ClosedTokens
    <3>9. TokensKept(r, ts)
      BY <3>2, <3>4, <3>8, FilledTokens
    <3>10. /\ r.status = "none" /\ r.requests = <<>> /\ r.replies = <<>> /\ ~r.idle
           /\ r.state # "Open" /\ (IsStarted(r) => r.pipe # <<>>) /\ r.pipe = x.pipe \o next
           /\ r.closes = t.closes + 1
      BY <3>2, <3>4 DEF Filled, IsOpen, IsStarted
    <3> QED BY <3>4, <3>6, <3>7, <3>9, <3>10
  <2>2. CASE ~rejects
    <3>1. z = [StartIfNeeded(c) EXCEPT !.handshake = FALSE]
      BY <1>1, <1>3, <2>2 DEF Closed
    <3>2. PICK y : y = StartIfNeeded(c)
      OBVIOUS
    <3>3. y = IF t.pipe # <<>> THEN [c EXCEPT !.state = "Backoff"] ELSE c
      BY <1>2, <3>2 DEF StartIfNeeded, ShouldStartWriteStream, IsStarted, Start
    <3>4. /\ y \in Streams /\ y.closes = t.closes + 1 /\ y.asks = t.asks
          /\ y.status = "none" /\ y.requests = <<>> /\ y.replies = <<>> /\ ~y.idle /\ y.pipe = t.pipe
          /\ y.state = IF t.pipe # <<>> THEN "Backoff" ELSE "Error"
      BY <1>2, <3>3 DEF Streams, States
    <3>5. TokensKept(y, ts)
      BY <3>4, ClosedTokens
    <3>6. y.state # "Open" /\ (IsStarted(y) => y.pipe # <<>>)
      BY <3>4 DEF IsStarted
    <3> QED BY <2>2, <3>1, <3>2, <3>4, <3>5, <3>6
  <2> QED BY <2>1, <2>2
<1>5. PICK y : /\ z = [y EXCEPT !.handshake = FALSE] /\ y \in Streams
               /\ y.status = "none" /\ y.requests = <<>> /\ y.replies = <<>> /\ ~y.idle
               /\ y.state # "Open" /\ (IsStarted(y) => y.pipe # <<>>)
               /\ IsPrefix(y.pipe, q) /\ Len(y.pipe) <= kMaxPendingWrites /\ TokensKept(y, ts)
               /\ y.closes = t.closes + 1
  BY <1>4
<1>6. /\ z \in Streams /\ ~z.handshake /\ z.state = y.state /\ z.closes = y.closes /\ z.asks = y.asks
      /\ z.status = "none" /\ z.requests = <<>> /\ z.replies = <<>> /\ ~z.idle /\ z.pipe = y.pipe
  BY <1>5 DEF Streams
<1>7. ~IsOpen(z) /\ (IsStarted(z) => z.pipe # <<>>)
  BY <1>5, <1>6 DEF IsOpen, IsStarted
<1>8. StreamKept(z, q)
  BY <1>5, <1>6, <1>7 DEF StreamKept, Matching
<1>9. TokensKept(z, ts)
  <2>1. Wanted(z, ts) = Wanted(y, ts)
    BY <1>6 DEF Wanted
  <2> QED BY <1>5, <1>6, <2>1 DEF TokensKept
<1> QED BY <1>3, <1>5, <1>6, <1>7, <1>8, <1>9

-----------------------------------------------------------------------------
(***************************************************************************)
(* The ids of the batches                                                  *)
(***************************************************************************)
\* A set of numbers that is not empty has a smallest one.
LEMMA Smallest ==
  ASSUME NEW T, T \subseteq Nat, T # {}
  PROVE  \E x \in T : \A y \in T : x <= y
<1>1. PICK x \in T : \A y \in T : ~(<<y, x>> \in OpToRel(<, Nat))
  BY NatLessThanWellFounded, WFMin, Zenon
<1>2. \A y \in T : ~(y < x)
  BY <1>1 DEF OpToRel
<1>3. \A y, z \in Nat : ~(y < z) => z <= y
  OBVIOUS
<1> QED BY <1>2, <1>3

\* LoadNextBatchIdFromDb finds an id above all in use, and no larger than the
\* next one of the queue it was called for.
LEMMA LoadedId ==
  ASSUME PipeType, QueuesKept
  PROVE  /\ LoadNextBatchIdFromDb(queue) \in 1..(MaxWrites + 1)
         /\ LoadNextBatchIdFromDb(queue) <= nextId
         /\ \A u \in Users : \A i \in DOMAIN queue[u] :
              queue[u][i].id \in 1..(LoadNextBatchIdFromDb(queue) - 1)
<1> DEFINE Above(n) == \A u \in Users : \A i \in DOMAIN queue[u] : queue[u][i].id < n
           Reached(n) == n = 1 \/ \E u \in Users : \E i \in DOMAIN queue[u] : queue[u][i].id = n - 1
           T == {n \in Nat \ {0} : Above(n)}
<1>1. nextId \in Nat \ {0} /\ nextId <= MaxWrites + 1 /\ MaxWrites \in Nat
  BY BoundsAssumption DEF PipeType
<1>2. \A u \in Users : \A i \in DOMAIN queue[u] :
        queue[u][i].id \in Nat \ {0} /\ queue[u][i].id <= nextId - 1
  <2>1. \A u \in Users : \A i \in DOMAIN queue[u] : queue[u][i].id \in 1..(nextId - 1)
    BY DEF QueuesKept
  <2>2. \A x \in 1..(nextId - 1) : x \in Nat \ {0} /\ x <= nextId - 1
    BY <1>1
  <2> QED BY <2>1, <2>2
<1>3. nextId \in T
  BY <1>1, <1>2
<1>4. PICK n \in T : \A m \in T : n <= m
  BY <1>3, Smallest
<1>5. Reached(n)
  <2>1. SUFFICES ASSUME n # 1 PROVE \E u \in Users : \E i \in DOMAIN queue[u] : queue[u][i].id = n - 1
    OBVIOUS
  <2>2. n - 1 \in Nat \ {0} /\ ~(n <= n - 1)
    BY <2>1
  <2>3. ~Above(n - 1)
    BY <1>4, <2>2
  <2>4. PICK u \in Users : \E i \in DOMAIN queue[u] : ~(queue[u][i].id < n - 1)
    BY <2>3
  <2>5. PICK i \in DOMAIN queue[u] : ~(queue[u][i].id < n - 1)
    BY <2>4
  <2>6. queue[u][i].id < n /\ queue[u][i].id \in Nat
    BY <1>2
  <2>7. queue[u][i].id = n - 1
    BY <2>5, <2>6
  <2> QED BY <2>7
<1>6. n \in 1..(MaxWrites + 1) /\ Above(n)
  <2>1. n <= nextId /\ n \in Nat \ {0}
    BY <1>3, <1>4
  <2> QED BY <1>1, <2>1
<1>7. PICK k : k = LoadNextBatchIdFromDb(queue)
  OBVIOUS
<1>8. k \in 1..(MaxWrites + 1) /\ Above(k) /\ Reached(k)
  <2>1. \E m \in 1..(MaxWrites + 1) : Above(m) /\ Reached(m)
    BY <1>5, <1>6
  <2>2. k = CHOOSE m \in 1..(MaxWrites + 1) : Above(m) /\ Reached(m)
    BY <1>7 DEF LoadNextBatchIdFromDb
  <2> HIDE DEF Above, Reached
  <2> QED BY <2>1, <2>2
<1>9. k <= nextId
  BY <1>1, <1>2, <1>8
<1>10. \A u \in Users : \A i \in DOMAIN queue[u] : queue[u][i].id \in 1..(k - 1)
  <2> SUFFICES ASSUME NEW u \in Users, NEW i \in DOMAIN queue[u] PROVE queue[u][i].id \in 1..(k - 1)
    OBVIOUS
  <2>1. queue[u][i].id \in Nat \ {0} /\ queue[u][i].id < k
    BY <1>2, <1>8
  <2> QED BY <1>8, <2>1
<1> QED BY <1>7, <1>8, <1>9, <1>10

-----------------------------------------------------------------------------
(***************************************************************************)
(* The queues and the callbacks                                            *)
(***************************************************************************)
\* The first batch of the pipeline is the first of the queue.
LEMMA FirstBatch ==
  ASSUME PipelineInv, s.pipe # <<>>
  PROVE  /\ queue[user] \in Seq(Batches) /\ Sorted(queue[user]) /\ queue[user] # <<>>
         /\ 1 \in DOMAIN queue[user] /\ Head(s.pipe) = queue[user][1]
         /\ queue[user][1].w \in DOMAIN by /\ by[queue[user][1].w] = user
<1>1. PICK p \in Seq(Batches) : p = s.pipe
  BY DEF PipelineInv, PipeType, Streams
<1>2. queue[user] \in Seq(Batches) /\ Sorted(queue[user]) /\ IsPrefix(p, queue[user])
  BY <1>1 DEF PipelineInv, PipeType, QueuesKept, StreamKept
<1>3. Len(p) \in Nat \ {0} /\ Head(p) = p[1]
  BY <1>1
<1>4. 1 \in 1..Len(p) /\ Len(p) <= Len(queue[user]) /\ p[1] = queue[user][1]
  BY <1>2, <1>3 DEF IsPrefix
<1>5. Len(queue[user]) \in Nat /\ Len(queue[user]) # 0
  BY <1>2, <1>3, <1>4
<1>6. queue[user] # <<>> /\ 1 \in DOMAIN queue[user]
  BY <1>2, <1>5
<1>7. queue[user][1].w \in DOMAIN by /\ by[queue[user][1].w] = user
  BY <1>6 DEF PipelineInv, PipeType, QueuesKept
<1> QED BY <1>1, <1>2, <1>3, <1>4, <1>6, <1>7

\* The callback that NotifyUser finds for the first batch is that of its own
\* write, never one kept under an id that was given out again.
LEMMA HeardIsFirst ==
  ASSUME PipelineInv, s.pipe # <<>>, NEW w
  PROVE  (\E c \in callbacks : c.by = user /\ c.id = queue[user][1].id /\ c.w = w)
           <=> (w = queue[user][1].w /\ told[w] = "waiting")
<1>1. PICK q \in Seq(Batches) : q = queue[user]
  BY FirstBatch
<1>2. 1 \in DOMAIN q /\ Sorted(q) /\ DOMAIN q = 1..Len(q)
  BY <1>1, FirstBatch
<1>3. ASSUME NEW c \in callbacks, c.by = user, c.id = q[1].id
      PROVE  c.w = q[1].w /\ told[c.w] = "waiting"
  <2>1. PICK i \in DOMAIN q : q[i] = Batch(c.id, c.w) /\ told[c.w] = "waiting"
    BY <1>1, <1>3 DEF PipelineInv, CallbacksKept
  <2>2. q[i].id = q[1].id /\ q[i].w = c.w
    BY <1>3, <2>1 DEF Batch
  <2>3. q[1].id \in Nat
    BY <1>2, BatchNumbers
  <2>4. i = 1
    <3>1. ~(1 < i)
      BY <1>2, <2>2, <2>3 DEF Sorted
    <3> QED BY <1>2, <3>1
  <2> QED BY <2>1, <2>2, <2>4
<1>4. ASSUME told[q[1].w] = "waiting"
      PROVE  \E c \in callbacks : c.by = user /\ c.id = q[1].id /\ c.w = q[1].w
  <2>1. [by |-> user, id |-> q[1].id, w |-> q[1].w] \in callbacks
    BY <1>1, <1>2, <1>4 DEF PipelineInv, PipeType, CallbacksKept
  <2> QED BY <2>1
<1> QED BY <1>1, <1>3, <1>4

\* AcknowledgeBatch and RejectBatch: the first row goes, and its caller hears.
LEMMA SettleKeeps ==
  ASSUME PipelineInv, s.pipe # <<>>, NEW answer \in {"ok", "failed"},
         Settle(Head(s.pipe).id, answer)
  PROVE  /\ queue' = [queue EXCEPT ![user] = Tail(@)]
         /\ told' = [w \in DOMAIN told |->
                       IF w = queue[user][1].w /\ told[w] = "waiting" THEN answer ELSE told[w]]
         /\ UNCHANGED <<nextId, user, auth, by, log>>
         /\ queue' \in [Users -> Seq(Batches)]
         /\ callbacks' \subseteq [by : Users, id : 1..MaxWrites, w : 1..MaxWrites]
         /\ told' \in Seq({"waiting", "ok", "failed", "gone"}) /\ Len(told') = Len(told)
         /\ QueuesKept' /\ CallbacksKept'
<1>1. PICK q \in Seq(Batches) : q = queue[user]
  BY FirstBatch
<1>2. /\ 1 \in DOMAIN q /\ Sorted(q) /\ q # <<>> /\ DOMAIN q = 1..Len(q) /\ Len(q) \in Nat
      /\ Head(s.pipe) = q[1] /\ q[1].w \in DOMAIN by /\ by[q[1].w] = user
  BY <1>1, FirstBatch
<1>3. /\ queue' = [queue EXCEPT ![user] = RemoveMutationBatch(@, q[1].id)]
      /\ UNCHANGED <<nextId, user, auth, by, log>> /\ NotifyUser(q[1].id, answer)
  BY <1>2 DEF Settle
<1>4. user \in Users /\ queue \in [Users -> Seq(Batches)]
  BY DEF PipelineInv, PipeType
<1>5. queue' = [queue EXCEPT ![user] = Tail(@)]
  BY <1>1, <1>2, <1>3, <1>4, RemoveFirst
<1>6. PICK r : r = Tail(q)
  OBVIOUS
<1>7. /\ r \in Seq(Batches) /\ Sorted(r)
      /\ \A i \in DOMAIN r : i + 1 \in DOMAIN q /\ r[i] = q[i + 1]
  BY <1>2, <1>6, SortedTail
<1>8. /\ queue' \in [Users -> Seq(Batches)]
      /\ \A u \in Users : queue'[u] = IF u = user THEN r ELSE queue[u]
  BY <1>1, <1>4, <1>5, <1>6, <1>7
<1>9. told' = [w \in DOMAIN told |->
                 IF w = q[1].w /\ told[w] = "waiting" THEN answer ELSE told[w]]
  <2>1. told' = [w \in DOMAIN told |->
           IF \E c \in {c \in callbacks : c.by = user /\ c.id = q[1].id} : c.w = w
             THEN answer ELSE told[w]]
    BY <1>3 DEF NotifyUser
  <2>2. ASSUME NEW w
        PROVE (\E c \in {c \in callbacks : c.by = user /\ c.id = q[1].id} : c.w = w)
                <=> (w = q[1].w /\ told[w] = "waiting")
    BY <1>1, HeardIsFirst
  <2> QED BY <2>1, <2>2
<1>10. told' \in Seq({"waiting", "ok", "failed", "gone"}) /\ Len(told') = Len(told)
  <2>1. PICK K : K = {"waiting", "ok", "failed", "gone"}
    OBVIOUS
  <2>2. told \in [1..Len(told) -> K] /\ Len(told) \in Nat /\ answer \in K
    BY <2>1 DEF PipelineInv, PipeType
  <2>3. told' \in [1..Len(told) -> K]
    BY <1>9, <2>2
  <2>4. told' \in Seq(K) /\ Len(told') = Len(told)
    BY <2>2, <2>3
  <2> QED BY <2>1, <2>4
<1>11. ASSUME NEW u \in Users, NEW i \in DOMAIN queue'[u]
       PROVE  \E j \in DOMAIN queue[u] : /\ queue'[u][i] = queue[u][j]
                                         /\ u = user => 1 < j
  <2>1. CASE u # user
    BY <1>8, <2>1
  <2>2. CASE u = user
    <3>1. i \in DOMAIN r /\ i \in Nat /\ i # 0
      BY <1>7, <1>8, <2>2
    <3>2. i + 1 \in DOMAIN q /\ r[i] = q[i + 1] /\ 1 < i + 1
      BY <1>7, <3>1
    <3> QED BY <1>1, <1>8, <2>2, <3>2
  <2> QED BY <2>1, <2>2
<1>12. QueuesKept'
  <2>1. \A u \in Users : Sorted(queue'[u])
    BY <1>7, <1>8 DEF PipelineInv, QueuesKept
  <2>2. ASSUME NEW u \in Users, NEW i \in DOMAIN queue'[u]
        PROVE  /\ queue'[u][i].id \in 1..(nextId - 1)
               /\ queue'[u][i].w \in DOMAIN by /\ by[queue'[u][i].w] = u
    BY <1>11 DEF PipelineInv, QueuesKept
  <2>3. nextId <= Len(by) + 1
    BY DEF PipelineInv, QueuesKept
  <2> QED BY <1>3, <2>1, <2>2, <2>3 DEF QueuesKept
<1>13. /\ callbacks' \subseteq callbacks
       /\ \A c \in callbacks : c \in callbacks' <=> ~(c.by = user /\ c.id = q[1].id)
  BY <1>3 DEF NotifyUser
<1>14. ASSUME NEW u \in Users, NEW j \in DOMAIN queue[u], u = user => 1 < j
       PROVE  /\ queue[u][j].w # q[1].w /\ queue[u][j].w \in DOMAIN told
              /\ u = user => queue[u][j].id # q[1].id
  <2>1. queue[u][j].w \in DOMAIN by /\ by[queue[u][j].w] = u
    BY DEF PipelineInv, QueuesKept
  <2>2. DOMAIN by = DOMAIN told
    BY DEF PipelineInv, PipeType
  <2>3. CASE u # user
    BY <1>2, <2>1, <2>2, <2>3
  <2>4. CASE u = user
    <3>1. j \in DOMAIN q /\ 1 < j /\ queue[u][j] = q[j]
      BY <1>1, <1>14, <2>4
    <3>2. q[1].id < q[j].id /\ q[1].w < q[j].w
      BY <1>2, <3>1 DEF Sorted
    <3>3. q[1].id \in Nat /\ q[j].id \in Nat /\ q[1].w \in Nat /\ q[j].w \in Nat
      BY <1>2, <3>1, BatchNumbers
    <3>4. q[1].id # q[j].id /\ q[1].w # q[j].w
      BY <3>2, <3>3
    <3> QED BY <2>1, <2>2, <3>1, <3>4
  <2> QED BY <2>3, <2>4
<1>15. ASSUME NEW c \in callbacks'
       PROVE  \E i \in DOMAIN queue'[c.by] :
                queue'[c.by][i] = Batch(c.id, c.w) /\ told'[c.w] = "waiting"
  <2>1. c \in callbacks /\ ~(c.by = user /\ c.id = q[1].id) /\ c.by \in Users
    BY <1>13 DEF PipelineInv, PipeType
  <2>2. PICK j \in DOMAIN queue[c.by] : queue[c.by][j] = Batch(c.id, c.w) /\ told[c.w] = "waiting"
    BY <2>1 DEF PipelineInv, CallbacksKept
  <2>3. queue[c.by][j].w = c.w /\ queue[c.by][j].id = c.id
    BY <2>2 DEF Batch
  <2>4. c.by = user => j \in Nat /\ 1 < j
    <3>1. c.by = user => j \in 1..Len(q) /\ j # 1
      BY <1>1, <1>2, <2>1, <2>3
    <3> QED BY <1>2, <3>1
  <2>5. c.w # q[1].w /\ c.w \in DOMAIN told
    BY <1>14, <2>1, <2>3, <2>4
  <2>6. told'[c.w] = "waiting"
    BY <1>9, <2>2, <2>5
  <2>7. CASE c.by # user
    BY <1>8, <2>1, <2>2, <2>6, <2>7
  <2>8. CASE c.by = user
    <3>1. PICK i : i = j - 1
      OBVIOUS
    <3>2. Len(r) = Len(q) - 1 /\ DOMAIN r = 1..Len(r) /\ j \in 1..Len(q)
      BY <1>1, <1>2, <1>6, <1>7, <2>8
    <3>3. i \in DOMAIN r /\ i + 1 = j
      BY <1>2, <2>4, <2>8, <3>1, <3>2
    <3>4. r[i] = q[j]
      BY <1>7, <3>3
    <3> QED BY <1>1, <1>4, <1>8, <2>2, <2>6, <2>8, <3>3, <3>4
  <2> QED BY <2>7, <2>8
<1>16. ASSUME NEW u \in Users, NEW i \in DOMAIN queue'[u], told'[queue'[u][i].w] = "waiting"
       PROVE  [by |-> u, id |-> queue'[u][i].id, w |-> queue'[u][i].w] \in callbacks'
  <2>1. PICK j \in DOMAIN queue[u] : queue'[u][i] = queue[u][j] /\ (u = user => 1 < j)
    BY <1>11
  <2>2. PICK b : b = queue[u][j]
    OBVIOUS
  <2>3. b.w # q[1].w /\ b.w \in DOMAIN told /\ (u = user => b.id # q[1].id)
    BY <1>14, <2>1, <2>2
  <2>4. told[b.w] = "waiting"
    BY <1>9, <1>16, <2>1, <2>2, <2>3
  <2>5. [by |-> u, id |-> b.id, w |-> b.w] \in callbacks
    BY <2>2, <2>4 DEF PipelineInv, CallbacksKept
  <2> QED BY <1>13, <2>1, <2>2, <2>3, <2>5
<1>17. CallbacksKept'
  BY <1>15, <1>16 DEF CallbacksKept
<1>18. callbacks' \subseteq [by : Users, id : 1..MaxWrites, w : 1..MaxWrites]
  BY <1>13 DEF PipelineInv, PipeType
<1> QED BY <1>1, <1>3, <1>5, <1>8, <1>9, <1>10, <1>12, <1>17, <1>18

-----------------------------------------------------------------------------
(***************************************************************************)
(* The worker's tasks                                                      *)
(***************************************************************************)
\* What is known of the tokens depends on three fields of the stream.
LEMMA TokensSame ==
  ASSUME NEW t, NEW r, NEW ts, TokensKept(t, ts),
         r.closes = t.closes, r.asks = t.asks, r.state = "Starting" <=> t.state = "Starting"
  PROVE  TokensKept(r, ts)
<1>1. Wanted(r, ts) = Wanted(t, ts)
  BY DEF Wanted
<1> QED BY <1>1 DEF TokensKept

\* The first task was run, and was no answer the stream still wants.
LEMMA TokensTail ==
  ASSUME NEW t \in Streams, NEW ts \in Seq(Tasks), ts # <<>>, TokensKept(t, ts),
         1 \notin Wanted(t, ts)
  PROVE  TokensKept(t, Tail(ts))
<1>1. PICK m \in Nat \ {0} : m = Len(ts)
  OBVIOUS
<1>2. PICK r : r = Tail(ts)
  OBVIOUS
<1>3. DOMAIN ts = 1..m /\ DOMAIN r = 1..(m - 1) /\ \A i \in 1..(m - 1) : r[i] = ts[i + 1]
  BY <1>1, <1>2
<1>4. /\ \A i \in 1..(m - 1) : i + 1 \in 1..m
      /\ \A j \in 1..m : j # 1 => j - 1 \in 1..(m - 1) /\ (j - 1) + 1 = j
  OBVIOUS
<1>5. \A i \in DOMAIN r : r[i].kind = "token" => r[i].closes <= t.closes
  BY <1>3, <1>4 DEF TokensKept
<1>6. \A i \in 1..(m - 1) : i \in Wanted(t, r) <=> i + 1 \in Wanted(t, ts)
  BY <1>3, <1>4 DEF Wanted
<1>7. Wanted(t, r) \subseteq 1..(m - 1) /\ Wanted(t, ts) \subseteq 1..m
  BY <1>3 DEF Wanted
<1>8. Wanted(t, r) # {} <=> Wanted(t, ts) # {}
  <2>1. ASSUME NEW i \in Wanted(t, r) PROVE Wanted(t, ts) # {}
    BY <1>6, <1>7
  <2>2. ASSUME NEW j \in Wanted(t, ts) PROVE j - 1 \in Wanted(t, r)
    BY <1>4, <1>6, <1>7
  <2> QED BY <2>1, <2>2
<1>9. ASSUME NEW i \in Wanted(t, r), NEW j \in Wanted(t, r) PROVE i = j
  <2>1. i + 1 = j + 1
    BY <1>6, <1>7 DEF TokensKept
  <2> QED BY <1>7, <2>1
<1> QED BY <1>2, <1>5, <1>8, <1>9 DEF TokensKept

\* A prefix stays one when both lose their first batch.
LEMMA PrefixTail ==
  ASSUME NEW p \in Seq(Batches), NEW q \in Seq(Batches), p # <<>>, q # <<>>, IsPrefix(p, q)
  PROVE  IsPrefix(Tail(p), Tail(q))
<1>1. PICK n, m \in Nat \ {0} : n = Len(p) /\ m = Len(q)
  OBVIOUS
<1>2. PICK a, b : a = Tail(p) /\ b = Tail(q)
  OBVIOUS
<1>3. /\ Len(a) = n - 1 /\ \A i \in 1..(n - 1) : a[i] = p[i + 1]
      /\ Len(b) = m - 1 /\ \A i \in 1..(m - 1) : b[i] = q[i + 1]
  BY <1>1, <1>2
<1>4. n <= m /\ \A i \in 1..n : p[i] = q[i]
  BY <1>1 DEF IsPrefix
<1>5. n - 1 <= m - 1 /\ \A i \in 1..(n - 1) : i \in 1..(m - 1) /\ i + 1 \in 1..n
  BY <1>4
<1>6. \A i \in 1..(n - 1) : a[i] = b[i]
  BY <1>3, <1>4, <1>5
<1> QED BY <1>2, <1>3, <1>5, <1>6 DEF IsPrefix

\* The users of the tasks when the first is run, and when one is added.
LEMMA OwnersTail ==
  ASSUME PipeType, OwnersKept, tasks # <<>>, tasks' = Tail(tasks), auth' = auth,
         user' = Head(tasks).user, IsOpen(s') => s'.cred = user'
  PROVE  OwnersKept'
<1>1. PICK m \in Nat \ {0} : m = Len(tasks)
  BY DEF PipeType
<1>2. /\ DOMAIN tasks = 1..m /\ DOMAIN tasks' = 1..(m - 1) /\ Len(tasks') = m - 1
      /\ \A i \in 1..(m - 1) : tasks'[i] = tasks[i + 1]
      /\ Head(tasks) = tasks[1] /\ tasks' \in Seq(Tasks)
  BY <1>1 DEF PipeType
<1>3. ASSUME NEW i \in DOMAIN tasks', tasks'[i].kind = "token"
      PROVE  tasks'[i].user = IF i = 1 THEN user' ELSE tasks'[i - 1].user
  <2>1. i \in 1..(m - 1) /\ i + 1 \in 1..m /\ i + 1 # 1 /\ (i + 1) - 1 = i
    BY <1>2
  <2>2. tasks'[i].user = tasks[i].user
    BY <1>2, <1>3, <2>1 DEF OwnersKept
  <2>3. i # 1 => i - 1 \in 1..(m - 1) /\ (i - 1) + 1 = i
    BY <2>1
  <2>4. i # 1 => tasks'[i - 1] = tasks[i]
    BY <1>2, <2>3
  <2> QED BY <1>2, <2>2, <2>4
<1>4. auth' = IF tasks' = <<>> THEN user' ELSE tasks'[Len(tasks')].user
  <2>1. auth = tasks[m].user
    BY <1>1 DEF OwnersKept
  <2>2. tasks' = <<>> <=> m = 1
    <3>1. tasks' # <<>> => Len(tasks') # 0
      BY <1>2, EmptySeq
    <3>2. tasks' = <<>> => Len(tasks') = 0
      OBVIOUS
    <3>3. m - 1 = 0 <=> m = 1
      BY <1>1
    <3> QED BY <1>2, <3>1, <3>2, <3>3
  <2>3. m # 1 => m - 1 \in 1..(m - 1) /\ (m - 1) + 1 = m
    OBVIOUS
  <2>4. m # 1 => tasks'[m - 1] = tasks[m]
    BY <1>2, <2>3
  <2> QED BY <1>2, <2>1, <2>2, <2>4
<1> QED BY <1>3, <1>4 DEF OwnersKept

\* A task more: a token is that of Auth's user, who is current when it is run.
LEMMA OwnersAppend ==
  ASSUME PipeType, OwnersKept, NEW x \in Tasks, tasks' = Append(tasks, x),
         auth' = x.user, x.kind = "token" => x.user = auth, user' = user,
         IsOpen(s') => s'.cred = user'
  PROVE  OwnersKept'
<1>1. PICK m \in Nat : m = Len(tasks)
  BY DEF PipeType
<1>2. /\ DOMAIN tasks = 1..m /\ DOMAIN tasks' = 1..(m + 1) /\ Len(tasks') = m + 1
      /\ tasks'[m + 1] = x /\ tasks' # <<>>
      /\ \A i \in 1..m : tasks'[i] = tasks[i]
  BY <1>1 DEF PipeType
<1>3. ASSUME NEW i \in DOMAIN tasks', tasks'[i].kind = "token"
      PROVE  tasks'[i].user = IF i = 1 THEN user ELSE tasks'[i - 1].user
  <2>1. CASE i \in 1..m
    <3>1. tasks[i].user = IF i = 1 THEN user ELSE tasks[i - 1].user
      BY <1>2, <1>3, <2>1 DEF OwnersKept
    <3>2. i # 1 => i - 1 \in 1..m
      BY <2>1
    <3> QED BY <1>2, <2>1, <3>1, <3>2
  <2>2. CASE i = m + 1
    <3>1. tasks'[i].user = auth
      BY <1>2, <1>3, <2>2
    <3>2. m = 0 => tasks = <<>>
      BY <1>1, EmptySeq DEF PipeType
    <3>3. m # 0 => tasks # <<>> /\ m \in 1..m /\ i - 1 = m /\ i # 1
      BY <1>1, <2>2
    <3>4. m = 0 => i = 1 /\ auth = user
      BY <2>2, <3>2 DEF OwnersKept
    <3>5. m # 0 => auth = tasks[m].user
      BY <1>1, <3>3 DEF OwnersKept
    <3> QED BY <1>2, <3>1, <3>3, <3>4, <3>5
  <2>3. i \in 1..m \/ i = m + 1
    BY <1>2
  <2> QED BY <2>1, <2>2, <2>3
<1> QED BY <1>2, <1>3 DEF OwnersKept

\* A step that changes only the stream, the tasks and the user of Auth.
LEMMA StreamStep ==
  ASSUME PipelineInv, UNCHANGED <<queue, nextId, user, callbacks, by, told, log>>,
         s' \in Streams, tasks' \in Seq(Tasks), auth' \in Users, faults' \in 0..MaxFaults,
         StreamKept(s', queue[user]), TokensKept(s', tasks'), OwnersKept'
  PROVE  PipelineInv'
<1>1. PipeType'
  BY DEF PipelineInv, PipeType
<1>2. QueuesKept' /\ CallbacksKept'
  BY DEF PipelineInv, QueuesKept, CallbacksKept
<1> QED BY <1>1, <1>2 DEF PipelineInv

\* The user is the same, and a stream that is open was so before.
LEMMA OwnersStay ==
  ASSUME OwnersKept, UNCHANGED <<tasks, auth, user>>, IsOpen(s') => IsOpen(s), s'.cred = s.cred \/ ~IsOpen(s')
  PROVE  OwnersKept'
BY DEF OwnersKept

\* The bound on faults.
LEMMA FaultType ==
  ASSUME PipelineInv, NEW n \in {0, 1}, Fault(n)
  PROVE  faults' \in 0..MaxFaults
BY BoundsAssumption DEF PipelineInv, PipeType, Fault

\* The error path of the stream, with the first write rejected or not.
LEMMA FinishKeeps ==
  ASSUME PipelineInv, NEW code, OnStreamFinish(code)
  PROVE  /\ queue' \in [Users -> Seq(Batches)]
         /\ callbacks' \subseteq [by : Users, id : 1..MaxWrites, w : 1..MaxWrites]
         /\ told' \in Seq({"waiting", "ok", "failed", "gone"}) /\ Len(told') = Len(told)
         /\ UNCHANGED <<nextId, user, auth, by, log>>
         /\ QueuesKept' /\ CallbacksKept'
         /\ s' \in Streams /\ ~IsOpen(s') /\ ~s'.handshake /\ s'.closes = s.closes + 1
         /\ StreamKept(s', queue'[user]) /\ TokensKept(s', tasks)
<1>1. PICK rejects \in BOOLEAN :
        rejects <=> s.pipe # <<>> /\ s.handshake /\ IsPermanentWriteError(code)
  OBVIOUS
<1>2. /\ rejects => s.pipe # <<>> /\ Settle(Head(s.pipe).id, "failed")
      /\ ~rejects => UNCHANGED <<queue, nextId, user, callbacks, auth, by, told, log>>
      /\ s' = Closed(s, rejects, queue'[user])
  BY <1>1 DEF OnStreamFinish, Settle
<1>3. /\ queue' \in [Users -> Seq(Batches)]
      /\ callbacks' \subseteq [by : Users, id : 1..MaxWrites, w : 1..MaxWrites]
      /\ told' \in Seq({"waiting", "ok", "failed", "gone"}) /\ Len(told') = Len(told)
      /\ UNCHANGED <<nextId, user, auth, by, log>>
      /\ QueuesKept' /\ CallbacksKept'
  <2>1. CASE rejects
    BY <1>2, <2>1, SettleKeeps
  <2>2. CASE ~rejects
    BY <1>2, <2>2 DEF PipelineInv, PipeType, QueuesKept, CallbacksKept
  <2> QED BY <2>1, <2>2
<1>4. PICK q \in Seq(Batches) : q = queue'[user]
  BY <1>3 DEF PipelineInv, PipeType
<1>5. Sorted(q) /\ user \in Users
  BY <1>3, <1>4 DEF PipelineInv, PipeType, QueuesKept
<1>6. s \in Streams /\ tasks \in Seq(Tasks) /\ TokensKept(s, tasks) /\ Len(s.pipe) <= kMaxPendingWrites
  BY DEF PipelineInv, PipeType, StreamKept
<1>7. rejects => s.pipe # <<>> /\ IsPrefix(Tail(s.pipe), q)
  <2> SUFFICES ASSUME rejects PROVE s.pipe # <<>> /\ IsPrefix(Tail(s.pipe), q)
    OBVIOUS
  <2>1. q = Tail(queue[user]) /\ queue[user] \in Seq(Batches) /\ queue[user] # <<>>
    BY <1>2, <1>4, SettleKeeps, FirstBatch DEF PipelineInv, PipeType
  <2>2. s.pipe \in Seq(Batches) /\ s.pipe # <<>> /\ IsPrefix(s.pipe, queue[user])
    BY <1>2 DEF PipelineInv, PipeType, Streams, StreamKept
  <2> QED BY <2>1, <2>2, PrefixTail
<1>8. ~rejects => IsPrefix(s.pipe, q)
  BY <1>2, <1>4 DEF PipelineInv, StreamKept
<1> QED BY <1>2, <1>3, <1>4, <1>5, <1>6, <1>7, <1>8, ClosedKeeps

-----------------------------------------------------------------------------
(***************************************************************************)
(* One lemma for each action                                               *)
(***************************************************************************)
\* What the type and the invariant say of the stream.
LEMMA StreamFacts ==
  ASSUME PipelineInv
  PROVE  /\ s \in Streams /\ s.state \in States /\ s.handshake \in BOOLEAN /\ s.closes \in Nat
         /\ s.pipe \in Seq(Batches) /\ s.requests \in Seq(Batches) /\ s.replies \in Seq(Batches)
         /\ queue[user] \in Seq(Batches) /\ Sorted(queue[user])
         /\ StreamKept(s, queue[user]) /\ TokensKept(s, tasks) /\ tasks \in Seq(Tasks)
         /\ user \in Users /\ auth \in Users /\ faults \in 0..MaxFaults
BY DEF PipelineInv, PipeType, Streams, QueuesKept

\* Auth answers: what was asked for is now on its way.
LEMMA GetTokenKeeps ==
  ASSUME PipelineInv, NEW k, NEW ok \in BOOLEAN, GetToken(k, ok)
  PROVE  PipelineInv'
<1>1. PICK x : x = [kind |-> "token", closes |-> k, user |-> auth, ok |-> ok]
  OBVIOUS
<1>2. /\ k \in s.asks /\ s' = [s EXCEPT !.asks = @ \ {k}] /\ tasks' = Append(tasks, x)
      /\ UNCHANGED <<queue, nextId, user, callbacks, auth, by, told, log>>
      /\ Fault(IF ok THEN 0 ELSE 1)
  BY <1>1 DEF GetToken
<1>3. faults' \in 0..MaxFaults
  BY <1>2, FaultType
<1>4. /\ s' \in Streams /\ s'.asks = s.asks \ {k} /\ s'.state = s.state /\ s'.closes = s.closes
      /\ s'.handshake = s.handshake /\ s'.idle = s.idle /\ s'.pipe = s.pipe /\ s'.cred = s.cred
      /\ s'.requests = s.requests /\ s'.replies = s.replies /\ s'.status = s.status
  BY <1>2, StreamFacts DEF Streams
<1>5. k \in Nat /\ k <= s.closes /\ s.closes \in Nat
  BY <1>2, StreamFacts DEF TokensKept
<1>6. x \in Tasks
  BY <1>1, <1>5, StreamFacts DEF Tasks
<1>7. PICK m \in Nat : m = Len(tasks)
  BY StreamFacts
<1>8. /\ tasks' \in Seq(Tasks) /\ DOMAIN tasks = 1..m /\ DOMAIN tasks' = 1..(m + 1)
      /\ tasks'[m + 1] = x /\ \A i \in 1..m : tasks'[i] = tasks[i]
  BY <1>2, <1>6, <1>7, StreamFacts
<1>9. StreamKept(s', queue[user])
  <2>1. Matching(s')
    BY <1>4, StreamFacts, MatchingSame DEF StreamKept
  <2> QED BY <1>4, <2>1, StreamFacts DEF StreamKept, IsOpen, IsStarted
<1>10. TokensKept(s', tasks')
  <2>1. s'.asks \subseteq 0..s'.closes
    BY <1>4, StreamFacts DEF TokensKept
  <2>2. \A i \in 1..(m + 1) : i \in 1..m \/ i = m + 1
    OBVIOUS
  <2>3. x.kind = "token" /\ x.closes = k
    BY <1>1
  <2>4. \A i \in DOMAIN tasks' : tasks'[i].kind = "token" => tasks'[i].closes <= s'.closes
    BY <1>4, <1>5, <1>8, <2>2, <2>3, StreamFacts DEF TokensKept
  <2>5. CASE k = s.closes
    <3>1. s.state = "Starting" /\ Wanted(s, tasks) = {}
      BY <1>2, <2>5, StreamFacts DEF TokensKept
    <3>2. Wanted(s', tasks') = {m + 1}
      <4>1. \A i \in 1..m : i \notin Wanted(s', tasks')
        BY <1>4, <1>8, <3>1 DEF Wanted
      <4>2. m + 1 \in Wanted(s', tasks') /\ Wanted(s', tasks') \subseteq 1..(m + 1)
        BY <1>4, <1>8, <2>3, <2>5 DEF Wanted
      <4> QED BY <2>2, <4>1, <4>2
    <3>3. s'.closes \notin s'.asks
      BY <1>4, <2>5
    <3> QED BY <1>4, <2>1, <2>4, <3>1, <3>2, <3>3 DEF TokensKept
  <2>6. CASE k # s.closes
    <3>1. Wanted(s', tasks') = Wanted(s, tasks)
      <4>1. m + 1 \notin Wanted(s', tasks')
        BY <1>4, <1>8, <2>3, <2>6 DEF Wanted
      <4>2. \A i \in 1..m : i \in Wanted(s', tasks') <=> i \in Wanted(s, tasks)
        BY <1>4, <1>8 DEF Wanted
      <4>3. Wanted(s', tasks') \subseteq 1..(m + 1) /\ Wanted(s, tasks) \subseteq 1..m
        BY <1>8 DEF Wanted
      <4> QED BY <2>2, <4>1, <4>2, <4>3
    <3>2. s'.closes \in s'.asks <=> s.closes \in s.asks
      BY <1>4, <2>6
    <3> QED BY <1>4, <2>1, <2>4, <3>1, <3>2, StreamFacts DEF TokensKept
  <2> QED BY <2>5, <2>6
<1>11. OwnersKept'
  <2>1. x.kind = "token" /\ x.user = auth
    BY <1>1
  <2>2. IsOpen(s') => s'.cred = user'
    BY <1>2, <1>4 DEF PipelineInv, OwnersKept, IsOpen
  <2> QED BY <1>2, <1>6, <2>1, <2>2, OwnersAppend DEF PipelineInv
<1> QED BY <1>2, <1>3, <1>4, <1>8, <1>9, <1>10, <1>11, StreamFacts, StreamStep

\* The worker comes to a token, which is the current user's.
LEMMA TokenOfUser ==
  ASSUME PipelineInv, tasks # <<>>, Head(tasks).kind = "token"
  PROVE  /\ Head(tasks).user = user /\ Head(tasks) = tasks[1] /\ 1 \in DOMAIN tasks
         /\ Head(tasks) \in Tasks /\ Tail(tasks) \in Seq(Tasks)
         /\ 1 \in Wanted(s, tasks) <=> Head(tasks).closes = s.closes
<1>1. Head(tasks) = tasks[1] /\ 1 \in DOMAIN tasks /\ Head(tasks) \in Tasks /\ Tail(tasks) \in Seq(Tasks)
  BY StreamFacts
<1>2. Head(tasks).user = user
  BY <1>1 DEF PipelineInv, OwnersKept
<1> QED BY <1>1, <1>2 DEF Wanted

\* ResumeStart: the token is out of date, or was not to be had, or opens the stream.
LEMMA ResumeStartKeeps ==
  ASSUME PipelineInv, ResumeStart
  PROVE  PipelineInv'
<1>1. PICK token : token = Head(tasks)
  OBVIOUS
<1>2. /\ tasks # <<>> /\ token.kind = "token" /\ tasks' = Tail(tasks) /\ faults' = faults
      /\ \/ /\ token.closes # s.closes
            /\ UNCHANGED <<queue, nextId, user, callbacks, s, auth, by, told, log>>
         \/ /\ token.closes = s.closes /\ ~token.ok
            /\ OnStreamFinish("Unavailable")
         \/ /\ token.closes = s.closes /\ token.ok
            /\ s' = Write([s EXCEPT !.state = "Open", !.cred = token.user], <<Handshake>>)
            /\ UNCHANGED <<queue, nextId, user, callbacks, auth, by, told, log>>
  BY <1>1 DEF ResumeStart
<1>3. /\ token.user = user /\ token = tasks[1] /\ 1 \in DOMAIN tasks /\ tasks' \in Seq(Tasks)
      /\ 1 \in Wanted(s, tasks) <=> token.closes = s.closes
  BY <1>1, <1>2, TokenOfUser
<1>4. CASE /\ token.closes # s.closes
           /\ UNCHANGED <<queue, nextId, user, callbacks, s, auth, by, told, log>>
  <2>1. TokensKept(s, Tail(tasks))
    BY <1>2, <1>3, <1>4, StreamFacts, TokensTail
  <2>2. OwnersKept'
    <3>1. IsOpen(s') => s'.cred = user'
      BY <1>4 DEF PipelineInv, OwnersKept
    <3> QED BY <1>1, <1>2, <1>3, <1>4, <3>1, OwnersTail DEF PipelineInv
  <2> QED BY <1>2, <1>3, <1>4, <2>1, <2>2, StreamFacts, StreamStep
<1>5. CASE token.closes = s.closes /\ ~token.ok /\ OnStreamFinish("Unavailable")
  <2>1. /\ queue' \in [Users -> Seq(Batches)]
        /\ callbacks' \subseteq [by : Users, id : 1..MaxWrites, w : 1..MaxWrites]
        /\ told' \in Seq({"waiting", "ok", "failed", "gone"}) /\ Len(told') = Len(told)
        /\ UNCHANGED <<nextId, user, auth, by, log>>
        /\ QueuesKept' /\ CallbacksKept'
        /\ s' \in Streams /\ ~IsOpen(s') /\ s'.closes = s.closes + 1
        /\ StreamKept(s', queue'[user]) /\ TokensKept(s', tasks)
    BY <1>5, FinishKeeps
  <2>2. TokensKept(s', tasks')
    <3>1. token.closes # s'.closes
      BY <1>5, <2>1, StreamFacts
    <3>2. 1 \notin Wanted(s', tasks)
      BY <1>3, <3>1 DEF Wanted
    <3> QED BY <1>2, <2>1, <3>2, StreamFacts, TokensTail
  <2>3. OwnersKept'
    BY <1>1, <1>2, <1>3, <2>1, OwnersTail DEF PipelineInv
  <2>4. PipeType'
    BY <1>2, <1>3, <2>1 DEF PipelineInv, PipeType
  <2> QED BY <2>1, <2>2, <2>3, <2>4 DEF PipelineInv
<1>6. CASE /\ token.closes = s.closes /\ token.ok
           /\ s' = Write([s EXCEPT !.state = "Open", !.cred = token.user], <<Handshake>>)
           /\ UNCHANGED <<queue, nextId, user, callbacks, auth, by, told, log>>
  <2>1. s.state = "Starting" /\ s.closes \notin s.asks /\ \A i \in Wanted(s, tasks) : i = 1
    BY <1>3, <1>6, StreamFacts DEF TokensKept
  <2>2. ~IsOpen(s) /\ IsStarted(s)
    BY <2>1 DEF IsOpen, IsStarted
  <2>3. /\ ~s.handshake /\ s.pipe # <<>> /\ s.requests = <<>> /\ s.replies = <<>> /\ s.status = "none"
    BY <2>2, StreamFacts DEF StreamKept, Matching
  <2>4. PICK h \in Seq(Batches) : h = <<Handshake>> /\ h # <<>>
    <3>1. Handshake \in Batches
      BY BoundsAssumption DEF Handshake, Batch, Batches
    <3>2. <<Handshake>> \in Seq(Batches) /\ <<Handshake>> # <<>>
      BY <3>1
    <3> QED BY <3>2
  <2>5. PICK t : t = [s EXCEPT !.state = "Open", !.cred = token.user]
    OBVIOUS
  <2>6. /\ t \in Streams /\ t.state = "Open" /\ t.cred = user /\ t.asks = s.asks /\ t.closes = s.closes
        /\ ~t.handshake /\ t.pipe = s.pipe /\ t.requests = <<>> /\ t.replies = <<>> /\ t.status = "none"
    BY <1>3, <2>3, <2>5, StreamFacts DEF Streams, States
  <2>7. s' = [t EXCEPT !.requests = h, !.idle = FALSE]
    <3>1. s' = [t EXCEPT !.requests = @ \o h, !.idle = FALSE]
      BY <1>6, <2>4, <2>5 DEF Write
    <3>2. <<>> \o h = h
      BY ConcatEmptySeq
    <3> QED BY <2>6, <3>1, <3>2
  <2>8. /\ s' \in Streams /\ s'.state = "Open" /\ s'.cred = user /\ s'.asks = s.asks
        /\ s'.closes = s.closes /\ ~s'.handshake /\ s'.pipe = s.pipe /\ s'.requests = h
        /\ s'.replies = <<>> /\ s'.status = "none" /\ ~s'.idle
    BY <2>6, <2>7 DEF Streams
  <2>9. StreamKept(s', queue[user])
    <3>1. Matching(s')
      BY <2>4, <2>8 DEF Matching, IsOpen
    <3> QED BY <2>3, <2>8, <3>1, StreamFacts DEF StreamKept
  <2>10. TokensKept(s', tasks')
    <3>1. PICK m \in Nat \ {0} : m = Len(tasks)
      BY <1>2, StreamFacts
    <3>2. DOMAIN tasks = 1..m /\ DOMAIN tasks' = 1..(m - 1) /\ \A i \in 1..(m - 1) : tasks'[i] = tasks[i + 1]
      BY <1>2, <3>1, StreamFacts
    <3>3. \A i \in 1..(m - 1) : i + 1 \in 1..m /\ i + 1 # 1
      OBVIOUS
    <3>4. \A i \in 1..(m - 1) : i \in Wanted(s', tasks') => i + 1 \in Wanted(s, tasks)
      BY <2>8, <3>2, <3>3 DEF Wanted
    <3>5. Wanted(s', tasks') = {}
      <4>1. \A i \in 1..(m - 1) : i \notin Wanted(s', tasks')
        BY <2>1, <3>3, <3>4
      <4>2. Wanted(s', tasks') \subseteq 1..(m - 1)
        BY <3>2 DEF Wanted
      <4> QED BY <4>1, <4>2
    <3>6. \A i \in DOMAIN tasks' : tasks'[i].kind = "token" => tasks'[i].closes <= s'.closes
      BY <2>8, <3>2, <3>3, StreamFacts DEF TokensKept
    <3> QED BY <2>1, <2>8, <3>5, <3>6, StreamFacts DEF TokensKept
  <2>11. OwnersKept'
    <3>1. IsOpen(s') => s'.cred = user'
      BY <1>6, <2>8
    <3> QED BY <1>1, <1>2, <1>3, <1>6, <3>1, OwnersTail DEF PipelineInv
  <2> QED BY <1>2, <1>3, <1>6, <2>8, <2>9, <2>10, <2>11, StreamFacts, StreamStep
<1> QED BY <1>2, <1>4, <1>5, <1>6

\* The backoff is over: the stream asks for a token.
LEMMA BackoffElapsedKeeps ==
  ASSUME PipelineInv, BackoffElapsed
  PROVE  PipelineInv'
<1>1. /\ s.state = "Backoff" /\ s' = Start([s EXCEPT !.state = "Initial"])
      /\ UNCHANGED <<queue, nextId, user, callbacks, auth, tasks, by, told, log, faults>>
  BY DEF BackoffElapsed
<1>2. /\ s' \in Streams /\ s'.state = "Starting" /\ s'.asks = s.asks \cup {s.closes}
      /\ s'.closes = s.closes /\ s'.handshake = s.handshake /\ s'.idle = s.idle /\ s'.pipe = s.pipe
      /\ s'.requests = s.requests /\ s'.replies = s.replies /\ s'.status = s.status /\ s'.cred = s.cred
  <2>1. PICK t : t = [s EXCEPT !.state = "Initial"]
    OBVIOUS
  <2>2. /\ t \in Streams /\ t.state = "Initial" /\ t.asks = s.asks
        /\ t.closes = s.closes /\ t.handshake = s.handshake /\ t.idle = s.idle /\ t.pipe = s.pipe
        /\ t.requests = s.requests /\ t.replies = s.replies /\ t.status = s.status /\ t.cred = s.cred
    BY <2>1, StreamFacts DEF Streams, States
  <2>3. s' = [t EXCEPT !.state = "Starting", !.asks = @ \cup {t.closes}]
    BY <1>1, <2>1, <2>2 DEF Start
  <2> QED BY <2>2, <2>3, StreamFacts DEF Streams, States
<1>3. ~IsOpen(s) /\ IsStarted(s) /\ ~IsOpen(s')
  BY <1>1, <1>2 DEF IsOpen, IsStarted
<1>4. StreamKept(s', queue[user])
  <2>1. Matching(s')
    BY <1>2, <1>3, StreamFacts DEF StreamKept, Matching
  <2> QED BY <1>2, <1>3, <2>1, StreamFacts DEF StreamKept
<1>5. TokensKept(s', tasks)
  <2>1. Wanted(s', tasks) = Wanted(s, tasks)
    BY <1>2 DEF Wanted
  <2>2. Wanted(s, tasks) = {}
    BY <1>1, StreamFacts DEF TokensKept
  <2>3. s.closes \in 0..s.closes
    BY StreamFacts
  <2> QED BY <1>2, <2>1, <2>2, <2>3, StreamFacts DEF TokensKept
<1>6. OwnersKept'
  BY <1>1, <1>2, <1>3, OwnersStay DEF PipelineInv
<1> QED BY <1>1, <1>2, <1>4, <1>5, <1>6, StreamFacts, StreamStep

\* A batch of the pipeline is a write that was made, and not the handshake.
LEMMA PipeWrites ==
  ASSUME PipelineInv, NEW i \in 1..Len(s.pipe)
  PROVE  /\ i \in DOMAIN queue[user] /\ s.pipe[i] = queue[user][i]
         /\ s.pipe[i].w \in DOMAIN by /\ by[s.pipe[i].w] = user
         /\ s.pipe[i].w \in 1..MaxWrites /\ s.pipe[i] # Handshake
<1>1. PICK p, q \in Seq(Batches) : p = s.pipe /\ q = queue[user]
  BY StreamFacts
<1>2. Len(p) <= Len(q) /\ p[i] = q[i]
  BY <1>1, StreamFacts DEF StreamKept, IsPrefix
<1>3. i \in DOMAIN q
  BY <1>1, <1>2
<1>4. q[i].w \in DOMAIN by /\ by[q[i].w] = user
  BY <1>1, <1>3, StreamFacts DEF PipelineInv, QueuesKept
<1>5. DOMAIN by = 1..Len(by) /\ Len(by) \in Nat /\ Len(by) <= MaxWrites /\ MaxWrites \in Nat
  BY BoundsAssumption DEF PipelineInv, PipeType
<1>6. q[i].w \in 1..MaxWrites
  BY <1>4, <1>5
<1>7. q[i].w # 0
  BY <1>6
<1>8. q[i] # Handshake
  BY <1>7 DEF Handshake, Batch
<1> QED BY <1>1, <1>2, <1>3, <1>4, <1>6, <1>8

\* A step of the server on the connection.
LEMMA ServerStep ==
  ASSUME PipelineInv, s' \in Streams, Matching(s'), s'.pipe = s.pipe, s'.state = s.state,
         s'.handshake = s.handshake, s'.idle = s.idle, s'.cred = s.cred,
         s'.closes = s.closes, s'.asks = s.asks,
         UNCHANGED <<queue, nextId, user, callbacks, auth, tasks, by, told>>,
         log' \in Seq(1..MaxWrites), faults' \in 0..MaxFaults
  PROVE  PipelineInv'
<1>1. (IsOpen(s') <=> IsOpen(s)) /\ (IsStarted(s') <=> IsStarted(s))
  BY DEF IsOpen, IsStarted
<1>2. StreamKept(s', queue[user])
  BY <1>1, StreamFacts DEF StreamKept
<1>3. TokensKept(s', tasks)
  BY StreamFacts, TokensSame
<1>4. OwnersKept'
  BY <1>1, OwnersStay DEF PipelineInv
<1>5. PipeType'
  BY DEF PipelineInv, PipeType
<1>6. QueuesKept' /\ CallbacksKept'
  BY DEF PipelineInv, QueuesKept, CallbacksKept
<1> QED BY <1>2, <1>3, <1>4, <1>5, <1>6 DEF PipelineInv

\* The server answers the next request: its reply is that of the next write.
LEMMA ServerAnswersKeeps ==
  ASSUME PipelineInv, ServerAnswers
  PROVE  /\ PipelineInv'
         /\ s.handshake => /\ s'.handshake /\ Len(s.replies) < Len(s.pipe)
                           /\ log' = Append(log, s.pipe[Len(s.replies) + 1].w)
                           /\ Len(s'.replies) = Len(s.replies) + 1
         /\ ~s.handshake => ~s'.handshake /\ log' = log
<1>1. PICK r : r = Head(s.requests)
  OBVIOUS
<1>2. /\ s.status = "none" /\ s.requests # <<>>
      /\ s' = [s EXCEPT !.requests = Tail(@), !.replies = Append(@, r)]
      /\ log' = IF r = Handshake THEN log ELSE Append(log, r.w)
      /\ UNCHANGED <<queue, nextId, user, callbacks, auth, tasks, by, told, faults>>
  BY <1>1 DEF ServerAnswers
<1>3. PICK a, c, p \in Seq(Batches) : a = s.replies /\ c = s.requests /\ p = s.pipe
  BY StreamFacts
<1>4. PICK x \in Nat : x = Len(a)
  OBVIOUS
<1>5. PICK y \in Nat \ {0} : y = Len(c)
  BY <1>2, <1>3
<1>6. PICK a2 : a2 = Append(a, r)
  OBVIOUS
<1>7. PICK c2 : c2 = Tail(c)
  OBVIOUS
<1>8. /\ r = c[1] /\ r \in Batches /\ a2 \in Seq(Batches) /\ Len(a2) = x + 1 /\ a2[x + 1] = r
      /\ \A i \in 1..x : a2[i] = a[i]
      /\ c2 \in Seq(Batches) /\ Len(c2) = y - 1 /\ \A i \in 1..(y - 1) : c2[i] = c[i + 1]
  BY <1>1, <1>2, <1>3, <1>4, <1>5, <1>6, <1>7
<1>9. /\ s' \in Streams /\ s'.requests = c2 /\ s'.replies = a2 /\ s'.pipe = p
      /\ s'.state = s.state /\ s'.handshake = s.handshake /\ s'.idle = s.idle /\ s'.cred = s.cred
      /\ s'.closes = s.closes /\ s'.asks = s.asks /\ s'.status = s.status
  BY <1>2, <1>3, <1>6, <1>7, <1>8, StreamFacts DEF Streams
<1>10. IsOpen(s) /\ IsOpen(s') /\ Ended(s) = 0 /\ Ended(s') = 0
  BY <1>2, <1>9, StreamFacts DEF StreamKept, Matching, IsOpen, Ended
<1>11. CASE s.handshake
  <2>1. /\ x + y = Len(p) /\ \A i \in 1..x : a[i] = p[i]
        /\ \A i \in 1..y : c[i] = p[x + i]
    <3>1. /\ Len(a) + 0 + Len(c) = Len(p) /\ \A i \in 1..Len(a) : a[i] = p[i]
          /\ \A i \in 1..Len(c) : c[i] = p[Len(a) + 0 + i]
      BY <1>3, <1>10, <1>11, StreamFacts DEF StreamKept, Matching
    <3> QED BY <1>4, <1>5, <3>1
  <2>2. r = p[x + 1] /\ x + 1 \in 1..Len(p)
    <3>1. PICK m \in Nat : m = Len(p)
      OBVIOUS
    <3>2. 1 \in 1..y
      OBVIOUS
    <3>3. c[1] = p[x + 1]
      BY <2>1, <3>2
    <3>4. x + y = m
      BY <2>1, <3>1
    <3>5. x + 1 \in 1..m
      BY <3>4
    <3> QED BY <1>8, <3>1, <3>3, <3>5
  <2>3. \A i \in 1..(x + 1) : a2[i] = p[i]
    <3>1. \A i \in 1..(x + 1) : i \in 1..x \/ i = x + 1
      OBVIOUS
    <3> QED BY <1>8, <2>1, <2>2, <3>1
  <2>4. \A i \in 1..(y - 1) : c2[i] = p[x + 1 + 0 + i]
    <3>1. \A i \in 1..(y - 1) : i + 1 \in 1..y /\ x + (i + 1) = x + 1 + 0 + i
      OBVIOUS
    <3> QED BY <1>8, <2>1, <3>1
  <2>5. x + 1 + 0 + (y - 1) = Len(p)
    BY <2>1
  <2>6. Matching(s')
    BY <1>8, <1>9, <1>10, <1>11, <2>3, <2>4, <2>5 DEF Matching
  <2>7. r.w \in 1..MaxWrites /\ r # Handshake
    BY <1>3, <2>2, PipeWrites
  <2>8. log' \in Seq(1..MaxWrites) /\ log' = Append(log, r.w)
    BY <1>2, <2>7 DEF PipelineInv, PipeType
  <2>9. Len(s.replies) < Len(s.pipe) /\ log' = Append(log, s.pipe[Len(s.replies) + 1].w)
    BY <1>3, <1>4, <2>1, <2>2, <2>8
  <2> QED BY <1>3, <1>4, <1>8, <1>9, <1>2, <1>11, <2>6, <2>8, <2>9, StreamFacts, ServerStep
<1>12. CASE ~s.handshake
  <2>1. a = <<>> /\ c = <<Handshake>>
    BY <1>2, <1>3, <1>10, <1>12, StreamFacts DEF StreamKept, Matching
  <2>2. r = Handshake /\ a2 = <<Handshake>> /\ c2 = <<>>
    BY <1>6, <1>7, <1>8, <2>1
  <2>3. Matching(s')
    BY <1>2, <1>9, <1>10, <1>12, <2>2 DEF Matching
  <2>4. log' = log /\ log' \in Seq(1..MaxWrites)
    BY <1>2, <2>2 DEF PipelineInv, PipeType
  <2> QED BY <1>3, <1>9, <1>12, <2>3, <2>4, <1>2, StreamFacts, ServerStep
<1> QED BY <1>11, <1>12, StreamFacts

\* The server ends the stream at the next request.
LEMMA ServerEndsKeeps ==
  ASSUME PipelineInv, NEW code \in Codes, ServerEnds(code)
  PROVE  /\ PipelineInv' /\ s'.handshake = s.handshake /\ s'.replies = s.replies
<1>1. /\ s.status = "none" /\ s.requests # <<>>
      /\ s' = [s EXCEPT !.requests = Tail(@), !.status = code]
      /\ UNCHANGED <<queue, nextId, user, callbacks, auth, tasks, by, told, log>>
      /\ faults' \in 0..MaxFaults
  <2>1. PICK n \in {0, 1} :
          n = IF IsPermanentWriteError(code) /\ Head(s.requests) # Handshake THEN 0 ELSE 1
    OBVIOUS
  <2>2. Fault(n)
    BY <2>1 DEF ServerEnds
  <2> QED BY <2>2, FaultType DEF ServerEnds, PipelineInv, PipeType
<1>2. PICK a, c, p \in Seq(Batches) : a = s.replies /\ c = s.requests /\ p = s.pipe
  BY StreamFacts
<1>3. PICK x \in Nat : x = Len(a)
  OBVIOUS
<1>4. PICK y \in Nat \ {0} : y = Len(c)
  BY <1>1, <1>2
<1>5. PICK c2 : c2 = Tail(c)
  OBVIOUS
<1>6. c2 \in Seq(Batches) /\ Len(c2) = y - 1 /\ \A i \in 1..(y - 1) : c2[i] = c[i + 1]
  BY <1>1, <1>2, <1>4, <1>5
<1>7. /\ s' \in Streams /\ s'.requests = c2 /\ s'.replies = a /\ s'.pipe = p
      /\ s'.state = s.state /\ s'.handshake = s.handshake /\ s'.idle = s.idle /\ s'.cred = s.cred
      /\ s'.closes = s.closes /\ s'.asks = s.asks /\ s'.status = code
  BY <1>1, <1>2, <1>5, <1>6, StreamFacts DEF Streams
<1>8. IsOpen(s) /\ IsOpen(s') /\ Ended(s) = 0 /\ Ended(s') = 1 /\ code # "none"
  BY <1>1, <1>7, StreamFacts DEF StreamKept, Matching, IsOpen, Ended, Codes
<1>9. CASE s.handshake
  <2>1. /\ x + y = Len(p) /\ \A i \in 1..x : a[i] = p[i]
        /\ \A i \in 1..y : c[i] = p[x + i]
    <3>1. /\ Len(a) + 0 + Len(c) = Len(p) /\ \A i \in 1..Len(a) : a[i] = p[i]
          /\ \A i \in 1..Len(c) : c[i] = p[Len(a) + 0 + i]
      BY <1>2, <1>8, <1>9, StreamFacts DEF StreamKept, Matching
    <3> QED BY <1>3, <1>4, <3>1
  <2>2. \A i \in 1..(y - 1) : c2[i] = p[x + 1 + i]
    <3>1. \A i \in 1..(y - 1) : i + 1 \in 1..y /\ x + (i + 1) = x + 1 + i
      OBVIOUS
    <3> QED BY <1>6, <2>1, <3>1
  <2>3. x + 1 + (y - 1) = Len(p)
    <3>1. x + 1 + (y - 1) = x + y
      OBVIOUS
    <3> QED BY <2>1, <3>1
  <2>4. Matching(s')
    <3>1. /\ Len(s'.replies) = x /\ Len(s'.requests) = y - 1
      BY <1>3, <1>6, <1>7
    <3>2. Len(s'.replies) + Ended(s') + Len(s'.requests) = Len(s'.pipe)
      BY <1>7, <1>8, <2>3, <3>1
    <3>3. \A i \in 1..Len(s'.replies) : s'.replies[i] = s'.pipe[i]
      BY <1>7, <2>1, <3>1
    <3>4. \A i \in 1..Len(s'.requests) :
            s'.requests[i] = s'.pipe[Len(s'.replies) + Ended(s') + i]
      BY <1>7, <1>8, <2>2, <3>1
    <3> QED BY <1>7, <1>8, <1>9, <3>2, <3>3, <3>4 DEF Matching
  <2> QED BY <1>1, <1>2, <1>7, <2>4, ServerStep DEF PipelineInv, PipeType
<1>10. CASE ~s.handshake
  <2>1. a = <<>> /\ c = <<Handshake>>
    BY <1>1, <1>2, <1>8, <1>10, StreamFacts DEF StreamKept, Matching
  <2>2. c2 = <<>>
    BY <1>5, <2>1
  <2>3. Matching(s')
    BY <1>7, <1>8, <1>10, <2>1, <2>2 DEF Matching
  <2> QED BY <1>1, <1>2, <1>7, <2>3, ServerStep DEF PipelineInv, PipeType
<1> QED BY <1>9, <1>10, StreamFacts

\* The first reply completes the handshake, and the pipeline is written.
LEMMA HandshakeReadKeeps ==
  ASSUME PipelineInv, OnStreamRead, ~s.handshake
  PROVE  /\ PipelineInv' /\ s'.handshake /\ s'.replies = <<>>
         /\ UNCHANGED <<queue, user, by, told, log>>
<1>1. /\ s.replies # <<>>
      /\ s' = Write([[s EXCEPT !.replies = Tail(@)] EXCEPT !.handshake = TRUE], s.pipe)
      /\ UNCHANGED <<queue, nextId, user, callbacks, auth, by, told, log, tasks, faults>>
  BY DEF OnStreamRead
<1>2. /\ IsOpen(s) /\ s.status = "none" /\ s.replies = <<Handshake>> /\ s.requests = <<>>
  BY <1>1, StreamFacts DEF StreamKept, Matching
<1>3. s.pipe # <<>> /\ s.pipe \in Seq(Batches)
  BY <1>2, StreamFacts DEF StreamKept, IsStarted, IsOpen
<1>4. Tail(s.replies) = <<>>
  BY <1>2
<1>5. PICK p \in Seq(Batches) : p = s.pipe /\ <<>> \o p = p
  <2>1. <<>> \o s.pipe = s.pipe
    BY <1>3, ConcatEmptySeq
  <2> QED BY <1>3, <2>1
<1>6. s' = [s EXCEPT !.replies = <<>>, !.handshake = TRUE, !.requests = p, !.idle = FALSE]
  BY <1>1, <1>2, <1>3, <1>4, <1>5, StreamFacts DEF Write, Streams
<1>7. /\ s' \in Streams /\ s'.replies = <<>> /\ s'.handshake /\ s'.requests = p /\ ~s'.idle
      /\ s'.pipe = p /\ s'.state = s.state /\ s'.cred = s.cred /\ s'.closes = s.closes
      /\ s'.asks = s.asks /\ s'.status = "none"
  <2>1. <<>> \in Seq(Batches)
    OBVIOUS
  <2> QED BY <1>2, <1>5, <1>6, <2>1, StreamFacts DEF Streams
<1>8. Matching(s')
  <2>1. Len(s'.replies) = 0 /\ Ended(s') = 0 /\ IsOpen(s')
    BY <1>2, <1>7 DEF Ended, IsOpen
  <2>2. PICK n \in Nat : n = Len(p)
    OBVIOUS
  <2>3. 0 + 0 + n = n /\ \A i \in 1..n : 0 + 0 + i = i
    OBVIOUS
  <2> QED BY <1>7, <2>1, <2>2, <2>3 DEF Matching
<1>9. StreamKept(s', queue[user])
  BY <1>5, <1>7, <1>8, StreamFacts DEF StreamKept
<1>10. TokensKept(s', tasks')
  BY <1>1, <1>7, TokensSame, StreamFacts
<1>11. OwnersKept'
  BY <1>1, <1>2, <1>7, OwnersStay DEF PipelineInv, IsOpen
<1>12. PipelineInv'
  BY <1>1, <1>7, <1>9, <1>10, <1>11, StreamStep, StreamFacts
<1> QED BY <1>1, <1>7, <1>12

\* Dropping the first reply and the first write of the pipeline keeps them
\* matched.
LEMMA ReadMatches ==
  ASSUME NEW t \in Streams, Matching(t), t.handshake, t.replies # <<>>, NEW r \in Streams,
         t.pipe # <<>>, r.replies = Tail(t.replies), r.pipe = Tail(t.pipe),
         r.requests = t.requests, r.state = t.state, r.handshake, r.status = t.status
  PROVE  Matching(r)
<1>1. PICK a, c, p \in Seq(Batches) : a = t.replies /\ c = t.requests /\ p = t.pipe
  BY DEF Streams
<1>2. PICK e \in {0, 1} : e = Ended(t)
  BY DEF Ended
<1>3. PICK x, z \in Nat \ {0} : x = Len(a) /\ z = Len(p)
  BY <1>1
<1>4. PICK y \in Nat : y = Len(c)
  OBVIOUS
<1>5. /\ IsOpen(t) /\ x + e + y = z /\ \A i \in 1..x : a[i] = p[i]
      /\ \A i \in 1..y : c[i] = p[x + e + i]
  BY <1>1, <1>2, <1>3, <1>4 DEF Matching
<1>6. PICK a2, p2 : a2 = Tail(a) /\ p2 = Tail(p)
  OBVIOUS
<1>7. /\ Len(a2) = x - 1 /\ \A i \in 1..(x - 1) : a2[i] = a[i + 1]
      /\ Len(p2) = z - 1 /\ \A i \in 1..(z - 1) : p2[i] = p[i + 1]
  BY <1>1, <1>3, <1>6
<1>8. /\ (x - 1) + e + y = z - 1
      /\ \A i \in 1..(x - 1) : i + 1 \in 1..x /\ i \in 1..(z - 1)
      /\ \A i \in 1..y : (x - 1) + e + i \in 1..(z - 1) /\ ((x - 1) + e + i) + 1 = x + e + i
  BY <1>5
<1>9. \A i \in 1..(x - 1) : a2[i] = p2[i]
  BY <1>5, <1>7, <1>8
<1>10. \A i \in 1..y : c[i] = p2[(x - 1) + e + i]
  BY <1>5, <1>7, <1>8
<1>11. r.replies = a2 /\ r.requests = c /\ r.pipe = p2 /\ Ended(r) = e /\ IsOpen(r)
  BY <1>1, <1>2, <1>5, <1>6 DEF Ended, IsOpen
<1>12. Len(r.replies) = x - 1 /\ Len(r.requests) = y /\ Len(r.pipe) = z - 1
  BY <1>4, <1>7, <1>11
<1>13. Len(r.replies) + Ended(r) + Len(r.requests) = Len(r.pipe)
  BY <1>8, <1>11, <1>12
<1>14. \A i \in 1..Len(r.replies) : r.replies[i] = r.pipe[i]
  BY <1>9, <1>11, <1>12
<1>15. \A i \in 1..Len(r.requests) : r.requests[i] = r.pipe[Len(r.replies) + Ended(r) + i]
  BY <1>10, <1>11, <1>12
<1> QED BY <1>11, <1>13, <1>14, <1>15 DEF Matching

\* Any other reply settles the first write of the pipeline, and the pipeline
\* is filled from what is left of the queue.
LEMMA ResultReadKeeps ==
  ASSUME PipelineInv, OnStreamRead, s.handshake
  PROVE  /\ PipelineInv' /\ s.pipe # <<>> /\ Settle(Head(s.pipe).id, "ok")
         /\ s'.handshake /\ s'.replies = Tail(s.replies)
<1>1. /\ s.replies # <<>> /\ Settle(Head(s.pipe).id, "ok") /\ UNCHANGED <<tasks, faults>>
      /\ s' = FillWritePipeline([[s EXCEPT !.replies = Tail(@)] EXCEPT !.pipe = Tail(@)], queue'[user])
  BY DEF OnStreamRead, Settle
<1>2. s.pipe # <<>>
  <2>1. PICK x, z \in Nat : x = Len(s.replies) /\ z = Len(s.pipe)
    BY StreamFacts
  <2>2. PICK e, y \in Nat : e = Ended(s) /\ y = Len(s.requests)
    <3>1. Len(s.requests) \in Nat /\ Ended(s) \in Nat
      BY StreamFacts DEF Ended
    <3> QED BY <3>1
  <2>3. x + e + y = z
    BY <2>1, <2>2, StreamFacts DEF StreamKept, Matching
  <2>4. x # 0
    BY <1>1, <2>1, StreamFacts, EmptySeq
  <2>5. z # 0
    BY <2>3, <2>4
  <2> QED BY <2>1, <2>5
<1>3. /\ queue' = [queue EXCEPT ![user] = Tail(@)] /\ UNCHANGED <<nextId, user, auth, by, log>>
      /\ queue' \in [Users -> Seq(Batches)]
      /\ callbacks' \subseteq [by : Users, id : 1..MaxWrites, w : 1..MaxWrites]
      /\ told' \in Seq({"waiting", "ok", "failed", "gone"}) /\ Len(told') = Len(told)
      /\ QueuesKept' /\ CallbacksKept'
  BY <1>1, <1>2, SettleKeeps
<1>4. PICK q \in Seq(Batches) : q = queue'[user] /\ q = Tail(queue[user]) /\ Sorted(q)
  <2>1. queue'[user] \in Seq(Batches)
    BY <1>3, StreamFacts
  <2>2. queue'[user] = Tail(queue[user])
    BY <1>3, StreamFacts DEF PipelineInv, PipeType
  <2>3. Sorted(queue'[user])
    BY <1>3, StreamFacts DEF QueuesKept
  <2> QED BY <2>1, <2>2, <2>3
<1>5. PICK t : t = [[s EXCEPT !.replies = Tail(@)] EXCEPT !.pipe = Tail(@)]
  OBVIOUS
<1>6. /\ t \in Streams /\ t.replies = Tail(s.replies) /\ t.pipe = Tail(s.pipe) /\ t.handshake
      /\ t.requests = s.requests /\ t.state = s.state /\ t.status = s.status /\ t.idle = s.idle
      /\ t.cred = s.cred /\ t.closes = s.closes /\ t.asks = s.asks
  <2>1. Tail(s.replies) \in Seq(Batches) /\ Tail(s.pipe) \in Seq(Batches)
    BY <1>1, <1>2, StreamFacts
  <2> QED BY <1>5, <2>1, StreamFacts DEF Streams
<1>7. Matching(t)
  BY <1>1, <1>2, <1>6, StreamFacts, ReadMatches DEF StreamKept
<1>8. StreamKept(t, q)
  <2>1. IsPrefix(t.pipe, q)
    BY <1>2, <1>4, <1>6, StreamFacts, FirstBatch, PrefixTail DEF StreamKept
  <2>2. Len(t.pipe) <= kMaxPendingWrites
    <3>1. Len(t.pipe) = Len(s.pipe) - 1 /\ Len(s.pipe) \in Nat
      BY <1>2, <1>6, StreamFacts
    <3>2. Len(s.pipe) <= kMaxPendingWrites
      BY StreamFacts DEF StreamKept
    <3> QED BY <3>1, <3>2, PendingAssumption
  <2>3. ~t.idle
    BY <1>2, <1>6, StreamFacts DEF StreamKept
  <2> QED BY <1>6, <1>7, <2>1, <2>2, <2>3 DEF StreamKept
<1>9. TokensKept(t, tasks)
  BY <1>6, TokensSame, StreamFacts
<1>10. /\ s' \in Streams /\ StreamKept(s', q) /\ TokensKept(s', tasks)
       /\ IsOpen(s') <=> IsOpen(t)
       /\ s'.handshake = t.handshake /\ s'.replies = t.replies /\ s'.cred = t.cred
  BY <1>1, <1>4, <1>5, <1>6, <1>8, <1>9, FillKeeps
<1>11. OwnersKept'
  BY <1>1, <1>3, <1>6, <1>10, OwnersStay DEF PipelineInv, IsOpen
<1>12. StreamKept(s', queue'[user']) /\ TokensKept(s', tasks')
  BY <1>1, <1>3, <1>4, <1>10
<1>13. PipeType'
  BY <1>1, <1>3, <1>10 DEF PipelineInv, PipeType
<1> QED BY <1>1, <1>2, <1>3, <1>6, <1>10, <1>11, <1>12, <1>13 DEF PipelineInv

\* A reply is read.
LEMMA OnStreamReadKeeps ==
  ASSUME PipelineInv, OnStreamRead
  PROVE  PipelineInv'
BY HandshakeReadKeeps, ResultReadKeeps, StreamFacts

\* The stream fails: what an error leaves.
LEMMA FailureKeeps ==
  ASSUME PipelineInv, NEW code, OnStreamFinish(code), tasks' = tasks, faults' \in 0..MaxFaults
  PROVE  PipelineInv'
<1>1. OwnersKept'
  BY FinishKeeps, OwnersStay DEF PipelineInv
<1>2. PipeType'
  BY FinishKeeps DEF PipelineInv, PipeType
<1>3. StreamKept(s', queue'[user']) /\ TokensKept(s', tasks')
  BY FinishKeeps
<1> QED BY <1>1, <1>2, <1>3, FinishKeeps DEF PipelineInv

\* The status of a stream the server ended is read.
LEMMA ReadStatusKeeps ==
  ASSUME PipelineInv, ReadStatus
  PROVE  PipelineInv'
BY FailureKeeps, StreamFacts DEF ReadStatus

\* The connection breaks.
LEMMA ConnectionLostKeeps ==
  ASSUME PipelineInv, ConnectionLost
  PROVE  PipelineInv'
<1>1. faults' \in 0..MaxFaults
  BY FaultType DEF ConnectionLost
<1> QED BY <1>1, FailureKeeps DEF ConnectionLost

\* The idle timer stops a stream that nothing needs.
LEMMA IdleTimeoutKeeps ==
  ASSUME PipelineInv, IdleTimeout
  PROVE  PipelineInv' /\ ~s'.handshake
<1>1. /\ s' = Stop(s)
      /\ UNCHANGED <<queue, nextId, user, callbacks, auth, tasks, by, told, log, faults>>
  BY DEF IdleTimeout
<1>2. /\ s' \in Streams /\ ~IsStarted(s') /\ ~s'.handshake
      /\ TokensKept(s', tasks) /\ StreamKept(s', queue[user])
  BY <1>1, StopKeeps, StreamFacts
<1>3. OwnersKept'
  BY <1>1, <1>2, OwnersStay DEF PipelineInv, IsOpen, IsStarted
<1> QED BY <1>1, <1>2, <1>3, StreamFacts, StreamStep

\* The network changes and the stream is restarted.
LEMMA ConnectivityChangedKeeps ==
  ASSUME PipelineInv, ConnectivityChanged
  PROVE  PipelineInv' /\ ~s'.handshake
<1>1. /\ s' = RestartNetwork(s, queue[user]) /\ faults' \in 0..MaxFaults
      /\ UNCHANGED <<queue, nextId, user, callbacks, auth, tasks, by, told, log>>
  BY FaultType DEF ConnectivityChanged
<1>2. /\ s' \in Streams /\ ~IsOpen(s') /\ ~s'.handshake
      /\ TokensKept(s', tasks) /\ StreamKept(s', queue[user])
  BY <1>1, RestartKeeps, StreamFacts
<1>3. OwnersKept'
  BY <1>1, <1>2, OwnersStay DEF PipelineInv
<1> QED BY <1>1, <1>2, <1>3, StreamFacts, StreamStep

\* Auth notifies of a user: a task more.
LEMMA AuthStateChangedKeeps ==
  ASSUME PipelineInv, NEW u \in Users, AuthStateChanged(u)
  PROVE  PipelineInv'
<1>1. PICK x \in Tasks : x = [kind |-> "user", closes |-> 0, user |-> u, ok |-> TRUE]
  BY DEF Tasks
<1>2. /\ faults' \in 0..MaxFaults /\ auth' = u /\ tasks' = Append(tasks, x)
      /\ UNCHANGED <<queue, nextId, user, callbacks, s, by, told, log>>
  BY <1>1, FaultType DEF AuthStateChanged
<1>3. PICK ts : ts = Append(tasks, x)
  OBVIOUS
<1>4. PICK n \in Nat : n = Len(tasks)
  BY StreamFacts
<1>5. /\ ts \in Seq(Tasks) /\ DOMAIN ts = 1..(n + 1) /\ DOMAIN tasks = 1..n /\ ts[n + 1] = x
      /\ \A i \in 1..n : ts[i] = tasks[i]
  BY <1>3, <1>4, StreamFacts
<1>6. x.kind = "user" /\ x.user = u
  BY <1>1
<1>7. \A i \in 1..(n + 1) : i \in 1..n \/ i = n + 1
  OBVIOUS
<1>8. \A i \in 1..n : i \in 1..(n + 1)
  OBVIOUS
<1>9. Wanted(s, ts) = Wanted(s, tasks)
  BY <1>5, <1>6, <1>7, <1>8 DEF Wanted
<1>10. TokensKept(s, ts)
  BY <1>5, <1>6, <1>7, <1>9, StreamFacts DEF TokensKept
<1>11. IsOpen(s') => s'.cred = user'
  BY <1>2 DEF PipelineInv, OwnersKept, IsOpen
<1>12. OwnersKept'
  BY <1>2, <1>6, <1>11, OwnersAppend DEF PipelineInv
<1>13. s' \in Streams /\ StreamKept(s', queue[user]) /\ TokensKept(s', tasks')
  BY <1>2, <1>3, <1>10, StreamFacts
<1> QED BY <1>2, <1>3, <1>5, <1>12, <1>13, StreamStep

\* The ids of the rows on disk allow the next id to be loaded anew.
LEMMA ReloadKeeps ==
  ASSUME PipelineInv, UNCHANGED <<queue, by>>,
         nextId' = nextId \/ nextId' = LoadNextBatchIdFromDb(queue)
  PROVE  nextId' \in 1..(MaxWrites + 1) /\ QueuesKept'
<1>1. PipeType /\ QueuesKept
  BY DEF PipelineInv
<1>2. CASE nextId' = nextId
  BY <1>1, <1>2 DEF PipeType, QueuesKept
<1>3. CASE nextId' = LoadNextBatchIdFromDb(queue)
  <2>1. PICK m : m = LoadNextBatchIdFromDb(queue)
    OBVIOUS
  <2>2. /\ m \in 1..(MaxWrites + 1) /\ m <= nextId
        /\ \A u \in Users : \A i \in DOMAIN queue[u] : queue[u][i].id \in 1..(m - 1)
    BY <1>1, <2>1, LoadedId
  <2>3. m <= Len(by) + 1
    <3>1. PICK l \in Nat : l = Len(by)
      BY <1>1 DEF PipeType
    <3>2. nextId <= l + 1 /\ nextId \in 1..(MaxWrites + 1)
      BY <1>1, <3>1 DEF QueuesKept, PipeType
    <3>3. m <= l + 1
      BY <2>2, <3>2, BoundsAssumption
    <3> QED BY <3>1, <3>3
  <2> QED BY <1>1, <1>3, <2>1, <2>2, <2>3 DEF QueuesKept
<1> QED BY <1>2, <1>3

\* The worker runs a change of the user.
LEMMA HandleCredentialChangeKeeps ==
  ASSUME PipelineInv, HandleCredentialChange
  PROVE  PipelineInv' /\ ~s'.handshake /\ user' \in Users
<1>1. /\ tasks # <<>> /\ Head(tasks).kind = "user" /\ tasks' = Tail(tasks)
      /\ user' = Head(tasks).user /\ s' = RestartNetwork(s, queue[user'])
      /\ nextId' = nextId \/ nextId' = LoadNextBatchIdFromDb(queue)
      /\ UNCHANGED <<queue, callbacks, auth, by, told, log, faults>>
  BY DEF HandleCredentialChange
<1>2. 1 \in DOMAIN tasks /\ tasks[1] = Head(tasks) /\ tasks[1] \in Tasks
  BY <1>1, StreamFacts
<1>3. user' \in Users /\ Tail(tasks) \in Seq(Tasks) /\ 1 \notin Wanted(s, tasks)
  BY <1>1, <1>2, StreamFacts DEF Tasks, Wanted
<1>4. queue[user'] \in Seq(Batches) /\ Sorted(queue[user'])
  BY <1>3 DEF PipelineInv, PipeType, QueuesKept
<1>5. PICK q \in Seq(Batches) : q = queue[user'] /\ Sorted(q)
  BY <1>4
<1>6. TokensKept(s, Tail(tasks))
  BY <1>1, <1>3, StreamFacts, TokensTail
<1>7. /\ s' \in Streams /\ ~IsOpen(s') /\ ~s'.handshake
      /\ StreamKept(s', q) /\ TokensKept(s', Tail(tasks))
  BY <1>1, <1>3, <1>5, <1>6, StreamFacts, RestartKeeps
<1>8. nextId' \in 1..(MaxWrites + 1) /\ QueuesKept'
  BY <1>1, ReloadKeeps
<1>9. OwnersKept'
  BY <1>1, <1>7, OwnersTail DEF PipelineInv
<1>10. CallbacksKept'
  BY <1>1 DEF PipelineInv, CallbacksKept
<1>11. PipeType'
  BY <1>1, <1>3, <1>7, <1>8 DEF PipelineInv, PipeType
<1>12. StreamKept(s', queue'[user']) /\ TokensKept(s', tasks')
  BY <1>1, <1>5, <1>7
<1> QED BY <1>3, <1>7, <1>8, <1>9, <1>10, <1>11, <1>12 DEF PipelineInv

\* A stream that was never started.
LEMMA IdleKept ==
  ASSUME Users # {}, NEW q \in Seq(Batches)
  PROVE  /\ Idle \in Streams /\ ~IsOpen(Idle) /\ ~Idle.handshake /\ Idle.replies = <<>>
         /\ StreamKept(Idle, q) /\ TokensKept(Idle, <<>>)
<1>1. PICK v \in Users : v = CHOOSE u \in Users : TRUE
  OBVIOUS
<1>2. PICK t : t = Idle
  OBVIOUS
<1>3. /\ t \in Streams /\ t.state = "Initial" /\ ~t.handshake /\ t.closes = 0 /\ ~t.idle
      /\ t.asks = {} /\ t.pipe = <<>> /\ t.requests = <<>> /\ t.replies = <<>> /\ t.status = "none"
  <2>1. <<>> \in Seq(Batches)
    OBVIOUS
  <2> QED BY <1>1, <1>2, <2>1 DEF Idle, Streams, States
<1>4. ~IsStarted(t) /\ ~IsOpen(t)
  BY <1>3 DEF IsStarted, IsOpen
<1>5. IsPrefix(t.pipe, q) /\ Len(t.pipe) <= kMaxPendingWrites
  <2>1. Len(t.pipe) = 0 /\ Len(q) \in Nat
    BY <1>3
  <2> QED BY <2>1, PendingAssumption DEF IsPrefix
<1>6. StreamKept(t, q)
  BY <1>3, <1>4, <1>5, Quiet
<1>7. TokensKept(t, <<>>)
  <2>1. DOMAIN <<>> = {}
    OBVIOUS
  <2> QED BY <1>3, <2>1 DEF TokensKept, Wanted
<1> QED BY <1>2, <1>3, <1>4, <1>6, <1>7

\* The app is killed and started again.
LEMMA InitializeKeeps ==
  ASSUME PipelineInv, Initialize
  PROVE  PipelineInv' /\ ~s'.handshake
<1>1. /\ faults' \in 0..MaxFaults /\ user' = auth /\ nextId' = LoadNextBatchIdFromDb(queue)
      /\ callbacks' = {} /\ tasks' = <<>> /\ s' = FillWritePipeline(Idle, queue[auth])
      /\ told' = [w \in DOMAIN told |-> IF told[w] = "waiting" THEN "gone" ELSE told[w]]
      /\ UNCHANGED <<queue, auth, by, log>>
  BY FaultType DEF Initialize
<1>2. auth \in Users
  BY StreamFacts
<1>3. queue[auth] \in Seq(Batches) /\ Sorted(queue[auth])
  BY <1>2 DEF PipelineInv, PipeType, QueuesKept
<1>4. PICK q \in Seq(Batches) : q = queue[auth] /\ Sorted(q)
  BY <1>3
<1>5. /\ Idle \in Streams /\ ~IsOpen(Idle) /\ ~Idle.handshake
      /\ StreamKept(Idle, q) /\ TokensKept(Idle, <<>>)
  BY <1>2, IdleKept
<1>6. /\ s' \in Streams /\ ~IsOpen(s') /\ ~s'.handshake /\ StreamKept(s', q) /\ TokensKept(s', <<>>)
  BY <1>1, <1>4, <1>5, FillKeeps
<1>7. nextId' \in 1..(MaxWrites + 1) /\ QueuesKept'
  BY <1>1, ReloadKeeps
<1>8. OwnersKept'
  <2>1. DOMAIN <<>> = {}
    OBVIOUS
  <2> QED BY <1>1, <1>6, <2>1 DEF OwnersKept
<1>9. /\ told' \in Seq({"waiting", "ok", "failed", "gone"}) /\ Len(told') = Len(told)
      /\ DOMAIN told' = DOMAIN told /\ \A w \in DOMAIN told : told'[w] # "waiting"
  <2>1. PICK n \in Nat : n = Len(told)
    BY DEF PipelineInv, PipeType
  <2>2. DOMAIN told = 1..n /\ \A w \in 1..n : told[w] \in {"waiting", "ok", "failed", "gone"}
    BY <2>1 DEF PipelineInv, PipeType
  <2>3. PICK g : g = [w \in 1..n |-> IF told[w] = "waiting" THEN "gone" ELSE told[w]]
    OBVIOUS
  <2>4. g \in [1..n -> {"waiting", "ok", "failed", "gone"}]
    BY <2>2, <2>3
  <2>5. g \in Seq({"waiting", "ok", "failed", "gone"}) /\ Len(g) = n
    BY <2>4
  <2> QED BY <1>1, <2>1, <2>2, <2>3, <2>5
<1>10. CallbacksKept'
  <2>1. \A u \in Users : \A i \in DOMAIN queue[u] : queue[u][i].w \in DOMAIN told
    <3>1. \A u \in Users : \A i \in DOMAIN queue[u] : queue[u][i].w \in DOMAIN by
      BY DEF PipelineInv, QueuesKept
    <3>2. DOMAIN by = DOMAIN told
      BY DEF PipelineInv, PipeType
    <3> QED BY <3>1, <3>2
  <2> QED BY <1>1, <1>9, <2>1 DEF CallbacksKept
<1>11. PipeType'
  <2>1. {} \subseteq [by : Users, id : 1..MaxWrites, w : 1..MaxWrites] /\ <<>> \in Seq(Tasks)
    OBVIOUS
  <2> QED BY <1>1, <1>2, <1>6, <1>7, <1>9, <2>1 DEF PipelineInv, PipeType
<1>12. StreamKept(s', queue'[user']) /\ TokensKept(s', tasks')
  BY <1>1, <1>4, <1>6
<1> QED BY <1>6, <1>7, <1>8, <1>10, <1>11, <1>12 DEF PipelineInv

\* The row of a new write, and what it leaves of the others.
LEMMA NewBatch ==
  ASSUME PipelineInv, WriteMutations
  PROVE  \E b \in Batches, l \in Nat, n \in Nat :
           /\ l = Len(by) /\ n = nextId /\ l < MaxWrites /\ n \in 1..(l + 1)
           /\ b = Batch(n, l + 1) /\ b.id = n /\ b.w = l + 1
           /\ queue' = [queue EXCEPT ![user] = Append(@, b)]
           /\ Append(queue[user], b) \in Seq(Batches) /\ Sorted(Append(queue[user], b))
           /\ \A i \in DOMAIN queue[user] : /\ i \in DOMAIN Append(queue[user], b)
                                            /\ Append(queue[user], b)[i] = queue[user][i]
           /\ \A i \in DOMAIN Append(queue[user], b) :
                i \in DOMAIN queue[user] \/ (i = Len(queue[user]) + 1 /\ Append(queue[user], b)[i] = b)
           /\ Len(queue[user]) + 1 \in DOMAIN Append(queue[user], b)
           /\ Append(queue[user], b)[Len(queue[user]) + 1] = b
<1>1. PICK l \in Nat : l = Len(by)
  BY DEF PipelineInv, PipeType
<1>2. PICK n \in Nat : n = nextId
  BY DEF PipelineInv, PipeType
<1>3. l < MaxWrites
  BY <1>1 DEF WriteMutations
<1>4. n <= l + 1 /\ n \in 1..(MaxWrites + 1)
  BY <1>1, <1>2 DEF PipelineInv, PipeType, QueuesKept
<1>5. n \in 1..(l + 1) /\ n \in 0..MaxWrites /\ l + 1 \in 0..MaxWrites
  BY <1>3, <1>4, BoundsAssumption
<1>6. PICK b : b = Batch(n, l + 1)
  OBVIOUS
<1>7. b \in Batches /\ b.id = n /\ b.w = l + 1
  BY <1>5, <1>6 DEF Batch, Batches
<1>8. PICK q \in Seq(Batches) : q = queue[user] /\ Sorted(q)
  BY StreamFacts
<1>9. \A i \in DOMAIN q : q[i].id \in 1..(n - 1) /\ q[i].w \in DOMAIN by
  BY <1>2, <1>8, StreamFacts DEF PipelineInv, QueuesKept
<1>10. DOMAIN by = 1..l
  BY <1>1 DEF PipelineInv, PipeType
<1>11. \A i \in DOMAIN q : q[i].id < b.id /\ q[i].w < b.w
  <2> SUFFICES ASSUME NEW i \in DOMAIN q PROVE q[i].id < b.id /\ q[i].w < b.w
    OBVIOUS
  <2>1. PICK x \in 1..(n - 1), y \in 1..l : x = q[i].id /\ y = q[i].w
    BY <1>9, <1>10
  <2>2. x < n /\ y < l + 1
    OBVIOUS
  <2> QED BY <1>7, <2>1, <2>2
<1>12. /\ Append(q, b) \in Seq(Batches) /\ Sorted(Append(q, b))
       /\ Len(Append(q, b)) = Len(q) + 1 /\ Append(q, b)[Len(q) + 1] = b
       /\ \A i \in DOMAIN q : i \in DOMAIN Append(q, b) /\ Append(q, b)[i] = q[i]
       /\ \A i \in DOMAIN Append(q, b) : i \in DOMAIN q \/ i = Len(q) + 1
  BY <1>7, <1>8, <1>11, SortedAppend
<1>13. Len(q) + 1 \in DOMAIN Append(q, b)
  <2>1. PICK m \in Nat : m = Len(q)
    OBVIOUS
  <2>2. DOMAIN Append(q, b) = 1..(m + 1)
    BY <1>12, <2>1
  <2>3. m + 1 \in 1..(m + 1)
    OBVIOUS
  <2> QED BY <2>1, <2>2, <2>3
<1>14. queue' = [queue EXCEPT ![user] = Append(@, b)]
  BY <1>1, <1>2, <1>6 DEF WriteMutations
<1> QED BY <1>1, <1>2, <1>3, <1>5, <1>6, <1>7, <1>8, <1>12, <1>13, <1>14

\* The app makes a write.
LEMMA WriteMutationsKeeps ==
  ASSUME PipelineInv, WriteMutations
  PROVE  /\ PipelineInv' /\ s'.handshake = s.handshake /\ s'.replies = s.replies
<1>1. PICK b \in Batches, l \in Nat, n \in Nat :
           /\ l = Len(by) /\ n = nextId /\ l < MaxWrites /\ n \in 1..(l + 1)
           /\ b = Batch(n, l + 1) /\ b.id = n /\ b.w = l + 1
           /\ queue' = [queue EXCEPT ![user] = Append(@, b)]
           /\ Append(queue[user], b) \in Seq(Batches) /\ Sorted(Append(queue[user], b))
           /\ \A i \in DOMAIN queue[user] : /\ i \in DOMAIN Append(queue[user], b)
                                            /\ Append(queue[user], b)[i] = queue[user][i]
           /\ \A i \in DOMAIN Append(queue[user], b) :
                i \in DOMAIN queue[user] \/ (i = Len(queue[user]) + 1 /\ Append(queue[user], b)[i] = b)
           /\ Len(queue[user]) + 1 \in DOMAIN Append(queue[user], b)
           /\ Append(queue[user], b)[Len(queue[user]) + 1] = b
  BY NewBatch
<1>2. PICK q : q = Append(queue[user], b)
  OBVIOUS
<1>3. PICK k : k = Len(queue[user]) + 1
  OBVIOUS
<1>4. /\ q \in Seq(Batches) /\ Sorted(q) /\ k \in DOMAIN q /\ q[k] = b
      /\ \A i \in DOMAIN queue[user] : i \in DOMAIN q /\ q[i] = queue[user][i]
      /\ \A i \in DOMAIN q : i \in DOMAIN queue[user] \/ (i = k /\ q[i] = b)
  BY <1>1, <1>2, <1>3
<1>5. /\ queue \in [Users -> Seq(Batches)] /\ user \in Users
      /\ queue' = [queue EXCEPT ![user] = q] /\ queue' \in [Users -> Seq(Batches)]
      /\ queue'[user] = q /\ \A u \in Users : u # user => queue'[u] = queue[u]
  BY <1>1, <1>2, <1>4 DEF PipelineInv, PipeType
<1>6. /\ nextId' = n + 1 /\ by' = Append(by, user) /\ told' = Append(told, "waiting")
      /\ s' = FillWritePipeline(s, queue'[user])
      /\ callbacks' = IF \E c \in callbacks : c.by = user /\ c.id = nextId THEN callbacks
                      ELSE callbacks \cup {[by |-> user, id |-> nextId, w |-> b.w]}
      /\ UNCHANGED <<user, auth, tasks, log, faults>>
  BY <1>1 DEF WriteMutations
<1>7. /\ by' \in Seq(Users) /\ Len(by') = l + 1 /\ DOMAIN by = 1..l /\ DOMAIN by' = 1..(l + 1)
      /\ by'[l + 1] = user /\ \A w \in 1..l : by'[w] = by[w]
  BY <1>1, <1>5, <1>6 DEF PipelineInv, PipeType
<1>8. /\ told' \in Seq({"waiting", "ok", "failed", "gone"}) /\ Len(told') = l + 1
      /\ told'[l + 1] = "waiting" /\ \A w \in 1..l : told'[w] = told[w]
  <2>1. told \in Seq({"waiting", "ok", "failed", "gone"}) /\ Len(told) = l
    BY <1>1 DEF PipelineInv, PipeType
  <2> QED BY <1>6, <2>1
<1>9. \A u \in Users : \A i \in DOMAIN queue[u] :
        queue[u][i].id \in 1..(n - 1) /\ queue[u][i].w \in 1..l /\ by[queue[u][i].w] = u
  BY <1>1, <1>7 DEF PipelineInv, QueuesKept
<1>10. /\ \A x \in 1..(n - 1) : x \in 1..((n + 1) - 1) /\ x # n
       /\ n \in 1..((n + 1) - 1) /\ n \in 1..MaxWrites /\ l + 1 \in 1..(l + 1) /\ l + 1 \in 1..MaxWrites
       /\ n + 1 \in 1..(MaxWrites + 1) /\ n + 1 <= (l + 1) + 1 /\ \A w \in 1..l : w \in 1..(l + 1)
       /\ l + 1 <= MaxWrites
  BY <1>1, BoundsAssumption
<1>11. QueuesKept'
  <2>1. \A u \in Users : Sorted(queue'[u])
    BY <1>4, <1>5 DEF PipelineInv, QueuesKept
  <2>2. ASSUME NEW u \in Users, NEW i \in DOMAIN queue'[u]
        PROVE  /\ queue'[u][i].id \in 1..((n + 1) - 1)
               /\ queue'[u][i].w \in 1..(l + 1) /\ by'[queue'[u][i].w] = u
    <3>1. CASE i \in DOMAIN queue[u] /\ queue'[u][i] = queue[u][i]
      BY <1>7, <1>9, <1>10, <3>1
    <3>2. CASE u = user /\ queue'[u][i] = b
      BY <1>1, <1>7, <1>10, <3>2
    <3> QED BY <1>4, <1>5, <2>2, <3>1, <3>2
  <2> QED BY <1>6, <1>7, <1>10, <2>1, <2>2 DEF QueuesKept
<1>12. /\ callbacks' = callbacks \cup {[by |-> user, id |-> n, w |-> b.w]}
  <2>1. ASSUME NEW c \in callbacks, c.by = user, c.id = n
        PROVE  FALSE
    <3>1. PICK i \in DOMAIN queue[c.by] : queue[c.by][i] = Batch(c.id, c.w)
      BY DEF PipelineInv, CallbacksKept
    <3>2. queue[user][i].id = n
      BY <2>1, <3>1 DEF Batch
    <3> QED BY <1>5, <1>9, <1>10, <2>1, <3>1, <3>2
  <2> QED BY <1>1, <1>6, <2>1
<1>13. callbacks' \subseteq [by : Users, id : 1..MaxWrites, w : 1..MaxWrites]
  BY <1>1, <1>5, <1>10, <1>12 DEF PipelineInv, PipeType
<1>14. CallbacksKept'
  <2>1. ASSUME NEW c \in callbacks'
        PROVE  \E i \in DOMAIN queue'[c.by] :
                 queue'[c.by][i] = Batch(c.id, c.w) /\ told'[c.w] = "waiting"
    <3>1. CASE c \in callbacks
      <4>1. PICK i \in DOMAIN queue[c.by] : queue[c.by][i] = Batch(c.id, c.w) /\ told[c.w] = "waiting"
        BY <3>1 DEF PipelineInv, CallbacksKept
      <4>2. c.by \in Users
        BY <3>1 DEF PipelineInv, PipeType
      <4>3. queue[c.by][i].w = c.w
        BY <4>1 DEF Batch
      <4>4. c.w \in 1..l
        BY <1>9, <4>1, <4>2, <4>3
      <4>5. i \in DOMAIN queue'[c.by] /\ queue'[c.by][i] = queue[c.by][i]
        BY <1>4, <1>5, <4>1, <4>2
      <4> QED BY <1>8, <4>1, <4>4, <4>5
    <3>2. CASE c = [by |-> user, id |-> n, w |-> b.w]
      BY <1>1, <1>4, <1>5, <1>8, <3>2
    <3> QED BY <1>12, <2>1, <3>1, <3>2
  <2>2. ASSUME NEW u \in Users, NEW i \in DOMAIN queue'[u], told'[queue'[u][i].w] = "waiting"
        PROVE  [by |-> u, id |-> queue'[u][i].id, w |-> queue'[u][i].w] \in callbacks'
    <3>1. CASE i \in DOMAIN queue[u] /\ queue'[u][i] = queue[u][i]
      <4>1. told[queue[u][i].w] = "waiting"
        BY <1>8, <1>9, <2>2, <3>1
      <4>2. [by |-> u, id |-> queue[u][i].id, w |-> queue[u][i].w] \in callbacks
        BY <3>1, <4>1 DEF PipelineInv, CallbacksKept
      <4> QED BY <1>12, <3>1, <4>2
    <3>2. CASE u = user /\ queue'[u][i] = b
      BY <1>1, <1>12, <3>2
    <3> QED BY <1>4, <1>5, <2>2, <3>1, <3>2
  <2> QED BY <2>1, <2>2 DEF CallbacksKept
<1>15. StreamKept(s, q)
  <2>1. PICK p \in Seq(Batches) : p = s.pipe /\ IsPrefix(p, queue[user])
    BY StreamFacts DEF StreamKept
  <2>2. Len(q) = Len(queue[user]) + 1
    BY <1>1, <1>2, StreamFacts
  <2>3. \A i \in 1..Len(p) : i \in DOMAIN queue[user]
    <3>1. PICK x, y \in Nat : x = Len(p) /\ y = Len(queue[user])
      BY StreamFacts
    <3>2. x <= y /\ DOMAIN queue[user] = 1..y
      BY <2>1, <3>1, StreamFacts DEF IsPrefix
    <3>3. \A i \in 1..x : i \in 1..y
      BY <3>2
    <3> QED BY <3>1, <3>2, <3>3
  <2>4. IsPrefix(p, q)
    <3>1. Len(p) <= Len(q)
      <4>1. PICK x, y \in Nat : x = Len(p) /\ y = Len(queue[user])
        BY StreamFacts
      <4>2. x <= y
        BY <2>1, <4>1 DEF IsPrefix
      <4>3. x <= y + 1
        BY <4>2
      <4> QED BY <2>2, <4>1, <4>3
    <3> QED BY <1>4, <2>1, <2>3, <3>1 DEF IsPrefix
  <2> QED BY <2>1, <2>4, StreamFacts DEF StreamKept
<1>16. /\ s' \in Streams /\ StreamKept(s', q) /\ TokensKept(s', tasks)
       /\ IsOpen(s') <=> IsOpen(s)
       /\ s'.handshake = s.handshake /\ s'.replies = s.replies /\ s'.cred = s.cred
  BY <1>4, <1>5, <1>6, <1>15, StreamFacts, FillKeeps
<1>17. OwnersKept'
  BY <1>6, <1>16, OwnersStay DEF PipelineInv
<1>18. PipeType'
  BY <1>5, <1>6, <1>7, <1>8, <1>10, <1>13, <1>16 DEF PipelineInv, PipeType
<1>19. StreamKept(s', queue'[user']) /\ TokensKept(s', tasks')
  BY <1>5, <1>6, <1>16
<1> QED BY <1>11, <1>14, <1>16, <1>17, <1>18, <1>19 DEF PipelineInv

-----------------------------------------------------------------------------
(***************************************************************************)
(* The invariant, and what follows from it                                 *)
(***************************************************************************)
\* The app starts with empty queues and a stream that was never started.
LEMMA InitPipeline == Init => PipelineInv
<1> SUFFICES ASSUME Init PROVE PipelineInv
  OBVIOUS
<1>1. <<>> \in Seq(Batches) /\ DOMAIN <<>> = {} /\ Len(<<>>) = 0
  OBVIOUS
<1>2. user \in Users /\ queue = [u \in Users |-> <<>>] /\ \A u \in Users : queue[u] = <<>>
  BY DEF Init
<1>3. Idle \in Streams /\ ~IsOpen(Idle) /\ StreamKept(Idle, <<>>) /\ TokensKept(Idle, <<>>)
  BY <1>1, <1>2, IdleKept
<1>4. PipeType
  <2>1. {} \subseteq [by : Users, id : 1..MaxWrites, w : 1..MaxWrites] /\ <<>> \in Seq(Tasks)
        /\ <<>> \in Seq(Users) /\ <<>> \in Seq({"waiting", "ok", "failed", "gone"})
        /\ <<>> \in Seq(1..MaxWrites)
    OBVIOUS
  <2>2. queue \in [Users -> Seq(Batches)]
    BY <1>1, <1>2
  <2>3. 1 \in 1..(MaxWrites + 1) /\ 0 \in 0..MaxFaults /\ 0 <= MaxWrites
    BY BoundsAssumption
  <2> QED BY <1>1, <1>3, <2>1, <2>2, <2>3 DEF Init, PipeType
<1>5. QueuesKept
  BY <1>1, <1>2 DEF Init, QueuesKept, Sorted
<1>6. OwnersKept
  BY <1>1, <1>3 DEF Init, OwnersKept
<1>7. CallbacksKept
  BY <1>1, <1>2 DEF Init, CallbacksKept
<1> QED BY <1>2, <1>3, <1>4, <1>5, <1>6, <1>7 DEF Init, PipelineInv

\* Every step keeps the invariant.
LEMMA NextPipeline == PipelineInv /\ [Next]_vars => PipelineInv'
<1> SUFFICES ASSUME PipelineInv, [Next]_vars PROVE PipelineInv'
  OBVIOUS
<1>1. CASE WriteMutations
  BY <1>1, WriteMutationsKeeps
<1>2. CASE Progress
  <2>1. CASE \E k \in s.asks, ok \in BOOLEAN : GetToken(k, ok)
    BY <2>1, GetTokenKeeps
  <2>2. CASE ResumeStart
    BY <2>2, ResumeStartKeeps
  <2>3. CASE BackoffElapsed
    BY <2>3, BackoffElapsedKeeps
  <2>4. CASE HandleCredentialChange
    BY <2>4, HandleCredentialChangeKeeps
  <2>5. CASE ServerAnswers
    BY <2>5, ServerAnswersKeeps
  <2>6. CASE \E code \in Codes : ServerEnds(code)
    BY <2>6, ServerEndsKeeps
  <2>7. CASE OnStreamRead
    BY <2>7, OnStreamReadKeeps
  <2>8. CASE ReadStatus
    BY <2>8, ReadStatusKeeps
  <2> QED BY <1>2, <2>1, <2>2, <2>3, <2>4, <2>5, <2>6, <2>7, <2>8 DEF Progress
<1>3. CASE IdleTimeout
  BY <1>3, IdleTimeoutKeeps
<1>4. CASE ConnectionLost
  BY <1>4, ConnectionLostKeeps
<1>5. CASE ConnectivityChanged
  BY <1>5, ConnectivityChangedKeeps
<1>6. CASE Initialize
  BY <1>6, InitializeKeeps
<1>7. CASE \E u \in Users : AuthStateChanged(u)
  BY <1>7, AuthStateChangedKeeps
<1>8. CASE UNCHANGED vars
  BY <1>8 DEF vars, PipelineInv, PipeType, QueuesKept, OwnersKept, CallbacksKept
<1> QED BY <1>1, <1>2, <1>3, <1>4, <1>5, <1>6, <1>7, <1>8 DEF Next

(***************************************************************************)
(* The inductive invariant holds of every behaviour of the SDK's worker    *)
(* queue, Auth, the server and the network: queues in the order of their   *)
(* ids and writes, the pipeline and the connection in step with them, one  *)
(* token wanted by a starting stream, each token on the worker queue that  *)
(* of the user it will find, a callback for every caller that waits.       *)
(***************************************************************************)
THEOREM PipelineInvariant == Spec => []PipelineInv
BY InitPipeline, NextPipeline, PTL DEF Spec

\* What the type of the stream says, as TypeOK puts it.
LEMMA TypeFollows == PipelineInv => TypeOK
<1> SUFFICES ASSUME PipelineInv PROVE TypeOK
  OBVIOUS
<1>1. PipeType /\ StreamKept(s, queue[user]) /\ TokensKept(s, tasks)
  BY DEF PipelineInv
<1>2. \A u \in Users : queue[u] \in Seq(Batches)
  BY <1>1 DEF PipeType
<1>3. \A S : \A q \in Seq(S) : IsSeq(q, S)
  BY DEF IsSeq
<1>4. /\ s.state \in States /\ s.handshake \in BOOLEAN /\ s.idle \in BOOLEAN /\ s.closes \in Nat
      /\ s.cred \in Users /\ s.status \in Codes \cup {"none"} /\ s.pipe \in Seq(Batches)
      /\ s.requests \in Seq(Batches) /\ s.replies \in Seq(Batches)
  BY <1>1 DEF PipeType, Streams
<1>5. s.asks \subseteq 0..s.closes /\ Len(s.pipe) <= kMaxPendingWrites
  BY <1>1 DEF StreamKept, TokensKept
<1>6. /\ \A u \in Users : IsSeq(queue[u], Batches)
      /\ IsSeq(s.pipe, Batches) /\ IsSeq(s.requests, Batches) /\ IsSeq(s.replies, Batches)
  BY <1>2, <1>3, <1>4
<1>7. /\ IsSeq(tasks, [kind : {"user", "token"}, closes : Nat, user : Users, ok : BOOLEAN])
      /\ IsSeq(by, Users) /\ IsSeq(told, {"waiting", "ok", "failed", "gone"})
      /\ IsSeq(log, 1..MaxWrites)
  BY <1>1, <1>3 DEF PipeType, Tasks
<1> QED BY <1>1, <1>4, <1>5, <1>6, <1>7 DEF PipeType, TypeOK

(***************************************************************************)
(* TypeOK for any number of users, writes and faults and any limit: above  *)
(* all, RemoteStore's pipeline never holds more than kMaxPendingWrites.    *)
(***************************************************************************)
THEOREM PipelineTypeCorrect == Spec => []TypeOK
BY PipelineInvariant, TypeFollows, PTL

(***************************************************************************)
(* RemoteStore's pipeline is the beginning of LevelDB's queue of the       *)
(* current user, sorted by id, through every retry, restart and change of  *)
(* user: the HARD_ASSERT of RemoveMutationBatch never fails.               *)
(***************************************************************************)
THEOREM PipelineIsPrefixCorrect == Spec => []PipelineIsPrefix
<1>1. PipelineInv => PipelineIsPrefix
  BY DEF PipelineInv, StreamKept, QueuesKept, Sorted, PipelineIsPrefix
<1> QED BY <1>1, PipelineInvariant, PTL

(***************************************************************************)
(* RemoteStore.OnWriteStreamMutationResult takes a reply for the result of *)
(* the first write of the pipeline, and it is.                             *)
(***************************************************************************)
THEOREM RepliesMatchCorrect == Spec => []RepliesMatch
<1>1. PipelineInv => RepliesMatch
  <2> SUFFICES ASSUME PipelineInv, s.handshake PROVE IsPrefix(s.replies, s.pipe)
    BY DEF RepliesMatch
  <2>1. PICK x, y, z \in Nat : x = Len(s.replies) /\ y = Len(s.requests) /\ z = Len(s.pipe)
    BY StreamFacts
  <2>2. PICK e \in {0, 1} : e = Ended(s)
    BY DEF Ended
  <2>3. x + e + y = z /\ \A i \in 1..x : s.replies[i] = s.pipe[i]
    BY <2>1, <2>2, StreamFacts DEF StreamKept, Matching
  <2>4. x <= z
    BY <2>3
  <2> QED BY <2>1, <2>3, <2>4 DEF IsPrefix
<1> QED BY <1>1, PipelineInvariant, PTL

(***************************************************************************)
(* The HARD_ASSERTs of Stream and RemoteStore on the idle timer, on the    *)
(* state in which a stream is written to or read, and on the token that a  *)
(* starting stream waits for never fail.                                   *)
(***************************************************************************)
THEOREM AssertionsCorrect == Spec => []Assertions
<1>1. PipelineInv => Assertions
  <2> SUFFICES ASSUME PipelineInv PROVE Assertions
    OBVIOUS
  <2>1. (s.handshake \/ s.requests # <<>> \/ s.replies # <<>>) => IsOpen(s)
    BY DEF PipelineInv, StreamKept, Matching
  <2>2. s.idle => IsOpen(s) /\ s.pipe = <<>>
    BY DEF PipelineInv, StreamKept
  <2> QED BY <2>1, <2>2 DEF PipelineInv, TokensKept, Wanted, Assertions
<1> QED BY <1>1, PipelineInvariant, PTL

(***************************************************************************)
(* No write is sent with the token of another user than the one who made   *)
(* it, although the token is fetched while users sign in and out.          *)
(***************************************************************************)
THEOREM SentAsOwnerCorrect == Spec => []SentAsOwner
<1>1. PipelineInv => SentAsOwner
  <2> SUFFICES ASSUME PipelineInv, NEW i \in DOMAIN s.requests, s.requests[i].w # 0
               PROVE  by[s.requests[i].w] = s.cred
    BY DEF SentAsOwner
  <2>1. PICK c \in Seq(Batches) : c = s.requests
    BY StreamFacts
  <2>2. IsOpen(s) /\ s.cred = user
    <3>1. c # <<>>
      BY <2>1
    <3> QED BY <2>1, <3>1 DEF PipelineInv, StreamKept, Matching, OwnersKept
  <2>3. CASE s.handshake
    <3>1. PICK x, y, z \in Nat : x = Len(s.replies) /\ y = Len(s.requests) /\ z = Len(s.pipe)
      BY StreamFacts
    <3>2. PICK e \in {0, 1} : e = Ended(s)
      BY DEF Ended
    <3>3. x + e + y = z /\ \A j \in 1..y : s.requests[j] = s.pipe[x + e + j]
      BY <2>3, <3>1, <3>2, StreamFacts DEF StreamKept, Matching
    <3>4. i \in 1..y
      BY <2>1, <3>1
    <3>5. x + e + i \in 1..z
      BY <3>3, <3>4
    <3>6. PICK k \in 1..Len(s.pipe) : s.requests[i] = s.pipe[k]
      BY <3>1, <3>3, <3>4, <3>5
    <3> QED BY <2>2, <3>6, PipeWrites
  <2>4. CASE ~s.handshake
    <3>1. c = <<Handshake>>
      BY <2>1, <2>2, <2>4 DEF PipelineInv, StreamKept, Matching
    <3>2. s.requests[i] = Handshake
      BY <2>1, <3>1
    <3> QED BY <3>2 DEF Handshake, Batch
  <2> QED BY <2>3, <2>4, StreamFacts
<1> QED BY <1>1, PipelineInvariant, PTL

-----------------------------------------------------------------------------
(***************************************************************************)
(* The refinement: what the steps do to the abstract queue.                *)
(***************************************************************************)
Writes(q) == [i \in DOMAIN q |-> q[i].w]
Pending   == [u \in Users |-> [i \in DOMAIN queue[u] |-> queue[u][i].w]]
Done      == IF s.handshake THEN Len(s.replies) ELSE 0

\* The writes of a queue.
LEMMA WritesOf ==
  ASSUME NEW q \in Seq(Batches)
  PROVE  /\ Writes(q) \in Seq(Nat) /\ Len(Writes(q)) = Len(q)
         /\ \A i \in 1..Len(q) : Writes(q)[i] = q[i].w
<1>1. PICK n \in Nat : n = Len(q)
  OBVIOUS
<1>2. DOMAIN q = 1..n /\ \A i \in 1..n : q[i].w \in Nat
  BY <1>1, BatchNumbers
<1>3. PICK g : g = Writes(q)
  OBVIOUS
<1>4. g \in [1..n -> Nat] /\ \A i \in 1..n : g[i] = q[i].w
  BY <1>2, <1>3 DEF Writes
<1>5. g \in Seq(Nat) /\ Len(g) = n
  BY <1>4
<1> QED BY <1>1, <1>3, <1>4, <1>5

\* A row more is a write more.
LEMMA WritesAppend ==
  ASSUME NEW q \in Seq(Batches), NEW b \in Batches
  PROVE  Writes(Append(q, b)) = Append(Writes(q), b.w)
<1>1. PICK n \in Nat : n = Len(q)
  OBVIOUS
<1>2. PICK r : r = Append(q, b)
  OBVIOUS
<1>3. /\ r \in Seq(Batches) /\ Len(r) = n + 1 /\ r[n + 1] = b /\ \A i \in 1..n : r[i] = q[i]
  BY <1>1, <1>2
<1>4. PICK g, h : g = Writes(q) /\ h = Writes(r)
  OBVIOUS
<1>5. /\ g \in Seq(Nat) /\ Len(g) = n /\ \A i \in 1..n : g[i] = q[i].w
      /\ h \in Seq(Nat) /\ Len(h) = n + 1 /\ \A i \in 1..(n + 1) : h[i] = r[i].w
  BY <1>1, <1>3, <1>4, WritesOf
<1>6. PICK k : k = Append(g, b.w)
  OBVIOUS
<1>7. b.w \in Nat
  BY DEF Batches
<1>8. k \in Seq(Nat) /\ Len(k) = n + 1 /\ k[n + 1] = b.w /\ \A i \in 1..n : k[i] = g[i]
  BY <1>5, <1>6, <1>7
<1>9. \A i \in 1..(n + 1) : i \in 1..n \/ i = n + 1
  OBVIOUS
<1>10. \A i \in 1..(n + 1) : h[i] = k[i]
  BY <1>3, <1>5, <1>8, <1>9
<1>11. h = k
  BY <1>5, <1>8, <1>10, SeqEqual
<1> QED BY <1>2, <1>4, <1>6, <1>11

\* Without the first row, the first write is gone.
LEMMA WritesTail ==
  ASSUME NEW q \in Seq(Batches), q # <<>>
  PROVE  /\ Writes(Tail(q)) = Tail(Writes(q)) /\ Writes(q) # <<>>
         /\ Head(Writes(q)) = q[1].w
<1>1. PICK n \in Nat \ {0} : n = Len(q)
  BY EmptySeq
<1>2. PICK r : r = Tail(q)
  OBVIOUS
<1>3. /\ r \in Seq(Batches) /\ Len(r) = n - 1 /\ \A i \in 1..(n - 1) : r[i] = q[i + 1]
  BY <1>1, <1>2
<1>4. PICK g, h : g = Writes(q) /\ h = Writes(r)
  OBVIOUS
<1>5. /\ g \in Seq(Nat) /\ Len(g) = n /\ \A i \in 1..n : g[i] = q[i].w
      /\ h \in Seq(Nat) /\ Len(h) = n - 1 /\ \A i \in 1..(n - 1) : h[i] = r[i].w
  BY <1>1, <1>3, <1>4, WritesOf
<1>6. g # <<>>
  BY <1>5
<1>7. PICK k : k = Tail(g)
  OBVIOUS
<1>8. k \in Seq(Nat) /\ Len(k) = n - 1 /\ \A i \in 1..(n - 1) : k[i] = g[i + 1]
  BY <1>5, <1>6, <1>7
<1>9. \A i \in 1..(n - 1) : i + 1 \in 1..n
  OBVIOUS
<1>10. \A i \in 1..(n - 1) : h[i] = k[i]
  BY <1>3, <1>5, <1>8, <1>9
<1>11. h = k
  BY <1>5, <1>8, <1>10, SeqEqual
<1>12. Head(g) = q[1].w
  <2>1. 1 \in 1..n
    OBVIOUS
  <2> QED BY <1>5, <1>6, <2>1
<1> QED BY <1>2, <1>4, <1>6, <1>7, <1>11, <1>12

\* A step that changes nothing the abstract queue keeps.
LEMMA Stutters ==
  ASSUME UNCHANGED <<queue, user, by, told, log>>, Done' = Done
  PROVE  UNCHANGED Q!vars
BY DEF Q!vars, Done

\* The writes applied and not answered: none, or as many as there are replies.
LEMMA DoneType ==
  ASSUME PipelineInv
  PROVE  Done \in Nat /\ (~s.handshake => Done = 0) /\ (s.handshake => Done = Len(s.replies))
BY StreamFacts DEF Done

\* The first batch of the queue is settled, and so is the first write.
LEMMA SettleMaps ==
  ASSUME PipelineInv, s.pipe # <<>>, NEW answer \in {"ok", "failed"},
         Settle(Head(s.pipe).id, answer)
  PROVE  Q!Settle(answer)
<1>1. /\ queue' = [queue EXCEPT ![user] = Tail(@)]
      /\ told' = [w \in DOMAIN told |->
                    IF w = queue[user][1].w /\ told[w] = "waiting" THEN answer ELSE told[w]]
      /\ UNCHANGED <<nextId, user, auth, by, log>>
  BY SettleKeeps
<1>2. queue \in [Users -> Seq(Batches)] /\ user \in Users /\ queue[user] \in Seq(Batches) /\ queue[user] # <<>>
  BY FirstBatch DEF PipelineInv, PipeType
<1>3. /\ Writes(Tail(queue[user])) = Tail(Writes(queue[user])) /\ Writes(queue[user]) # <<>>
      /\ Head(Writes(queue[user])) = queue[user][1].w
  BY <1>2, WritesTail
<1>4. Pending[user] = Writes(queue[user])
  BY <1>2 DEF Pending, Writes
<1>5. Pending' = [Pending EXCEPT ![user] = Tail(@)]
  <2>1. Pending' = [u \in Users |-> Writes(queue'[u])] /\ Pending = [u \in Users |-> Writes(queue[u])]
    BY DEF Pending, Writes
  <2>2. \A u \in Users : queue'[u] = IF u = user THEN Tail(queue[u]) ELSE queue[u]
    BY <1>1, <1>2
  <2>3. [u \in Users |-> Writes(queue'[u])]
          = [u \in Users |-> IF u = user THEN Tail(Writes(queue[u])) ELSE Writes(queue[u])]
    BY <1>3, <2>2
  <2> QED BY <1>2, <2>1, <2>3
<1>6. /\ Pending[user] # <<>> /\ Pending' = [Pending EXCEPT ![user] = Tail(@)]
      /\ told' = [w \in DOMAIN told |->
                    IF w = Head(Pending[user]) /\ told[w] = "waiting" THEN answer ELSE told[w]]
      /\ UNCHANGED <<user, by, log>>
  BY <1>1, <1>3, <1>4, <1>5
<1> QED BY <1>6 DEF Q!Settle, Pending

\* An error of the stream: the first write is rejected, or all are retried.
LEMMA FinishMaps ==
  ASSUME PipelineInv, NEW code, OnStreamFinish(code)
  PROVE  Q!Next
<1>1. Done' = 0
  BY FinishKeeps DEF Done
<1>2. CASE s.pipe # <<>> /\ s.handshake /\ IsPermanentWriteError(code)
  <2>1. Q!Settle("failed")
    BY <1>2, SettleMaps DEF OnStreamFinish
  <2> QED BY <1>1, <2>1 DEF Q!Next, Q!Reject, Done
<1>3. CASE ~(s.pipe # <<>> /\ s.handshake /\ IsPermanentWriteError(code))
  <2>1. UNCHANGED <<queue, user, by, told, log>>
    BY <1>3 DEF OnStreamFinish
  <2> QED BY <1>1, <2>1 DEF Q!Next, Q!Retry, Done
<1> QED BY <1>2, <1>3

\* A write is made.
LEMMA WriteMutationsMaps ==
  ASSUME PipelineInv, WriteMutations
  PROVE  Q!Next
<1>1. PICK b \in Batches : /\ b.w = Len(by) + 1
                           /\ queue' = [queue EXCEPT ![user] = Append(@, b)]
  BY NewBatch
<1>2. /\ by' = Append(by, user) /\ told' = Append(told, "waiting") /\ UNCHANGED <<user, log>>
  BY DEF WriteMutations
<1>3. queue \in [Users -> Seq(Batches)] /\ user \in Users /\ queue[user] \in Seq(Batches)
  BY DEF PipelineInv, PipeType
<1>4. Writes(Append(queue[user], b)) = Append(Writes(queue[user]), b.w)
  BY <1>3, WritesAppend
<1>5. Pending' = [Pending EXCEPT ![user] = Append(@, Len(by) + 1)]
  <2>1. Pending' = [u \in Users |-> Writes(queue'[u])] /\ Pending = [u \in Users |-> Writes(queue[u])]
    BY DEF Pending, Writes
  <2>2. \A u \in Users : queue'[u] = IF u = user THEN Append(queue[u], b) ELSE queue[u]
    BY <1>1, <1>3
  <2>3. [u \in Users |-> Writes(queue'[u])]
          = [u \in Users |-> IF u = user THEN Append(Writes(queue[u]), b.w) ELSE Writes(queue[u])]
    BY <1>4, <2>2
  <2> QED BY <1>1, <1>3, <2>1, <2>3
<1>6. Done' = Done
  BY WriteMutationsKeeps DEF Done
<1> QED BY <1>2, <1>5, <1>6 DEF Q!Next, Q!Submit, Pending, Done

\* The server applies a write, unless it answers the handshake.
LEMMA ServerAnswersMaps ==
  ASSUME PipelineInv, ServerAnswers
  PROVE  Q!Next \/ UNCHANGED Q!vars
<1>1. UNCHANGED <<queue, user, by, told>>
  BY DEF ServerAnswers
<1>2. CASE s.handshake
  <2>1. PICK x, z \in Nat : x = Len(s.replies) /\ z = Len(s.pipe)
    BY StreamFacts
  <2>2. x < z /\ log' = Append(log, s.pipe[x + 1].w) /\ Done = x /\ Done' = x + 1
    BY <1>2, <2>1, ServerAnswersKeeps DEF Done
  <2>3. PICK k \in 1..Len(s.pipe) : k = x + 1
    <3>1. x + 1 \in 1..z
      BY <2>2
    <3> QED BY <2>1, <3>1
  <2>4. k \in DOMAIN queue[user] /\ s.pipe[k] = queue[user][k]
    BY PipeWrites
  <2>5. PICK n \in Nat : n = Len(queue[user])
    BY StreamFacts
  <2>6. k \in 1..n
    BY <2>4, <2>5, StreamFacts
  <2>7. x < n
    BY <2>3, <2>6
  <2>8. Len(Writes(queue[user])) = n /\ Writes(queue[user])[k] = queue[user][k].w
    BY <2>5, <2>6, StreamFacts, WritesOf
  <2>9. Pending[user] = Writes(queue[user])
    BY StreamFacts DEF Pending, Writes
  <2>10. Done < Len(Pending[user]) /\ log' = Append(log, Pending[user][Done + 1]) /\ Done' = Done + 1
    BY <2>2, <2>3, <2>4, <2>7, <2>8, <2>9
  <2> QED BY <1>1, <2>10 DEF Q!Next, Q!Apply, Pending, Done
<1>3. CASE ~s.handshake
  <2>1. log' = log /\ Done' = Done
    BY <1>3, ServerAnswersKeeps DEF Done
  <2> QED BY <1>1, <2>1, Stutters
<1> QED BY <1>2, <1>3

\* A reply acknowledges the first write, unless it completes the handshake.
LEMMA OnStreamReadMaps ==
  ASSUME PipelineInv, OnStreamRead
  PROVE  Q!Next \/ UNCHANGED Q!vars
<1>1. CASE s.handshake
  <2>1. /\ s.pipe # <<>> /\ Settle(Head(s.pipe).id, "ok") /\ s'.handshake /\ s'.replies = Tail(s.replies)
    BY <1>1, ResultReadKeeps
  <2>2. Q!Settle("ok")
    BY <2>1, SettleMaps
  <2>3. s.replies # <<>>
    BY DEF OnStreamRead
  <2>4. PICK x \in Nat \ {0} : x = Len(s.replies)
    BY <2>3, StreamFacts, EmptySeq
  <2>5. Len(Tail(s.replies)) = x - 1
    BY <2>3, <2>4, StreamFacts
  <2>6. Done = x /\ Done' = x - 1
    BY <1>1, <2>1, <2>4, <2>5 DEF Done
  <2>7. Done > 0 /\ Done' = Done - 1
    BY <2>6
  <2> QED BY <2>2, <2>7 DEF Q!Next, Q!Acknowledge, Done
<1>2. CASE ~s.handshake
  <2>1. s'.handshake /\ s'.replies = <<>> /\ UNCHANGED <<queue, user, by, told, log>>
    BY <1>2, HandshakeReadKeeps
  <2>2. Done' = Done
    BY <1>2, <2>1 DEF Done
  <2> QED BY <2>1, <2>2, Stutters
<1> QED BY <1>1, <1>2

\* The answer for a token: ignored, an error of the stream, or a stream that
\* opens and has no replies yet.
LEMMA ResumeStartMaps ==
  ASSUME PipelineInv, ResumeStart
  PROVE  Q!Next \/ UNCHANGED Q!vars
<1>1. CASE UNCHANGED <<queue, user, s, by, told, log>>
  BY <1>1, Stutters DEF Done
<1>2. CASE OnStreamFinish("Unavailable")
  BY <1>2, FinishMaps
<1>3. CASE /\ Head(tasks).closes = s.closes
           /\ s' = Write([s EXCEPT !.state = "Open", !.cred = Head(tasks).user], <<Handshake>>)
           /\ UNCHANGED <<queue, user, by, told, log>>
  <2>1. PICK t : t = [s EXCEPT !.state = "Open", !.cred = Head(tasks).user]
    OBVIOUS
  <2>2. t.handshake = s.handshake /\ t.replies = s.replies
    BY <2>1, StreamFacts DEF Streams
  <2>3. s' = [t EXCEPT !.requests = @ \o <<Handshake>>, !.idle = FALSE]
    <3>1. <<Handshake>> # <<>>
      OBVIOUS
    <3> QED BY <1>3, <2>1, <3>1 DEF Write
  <2>4. s'.handshake = s.handshake /\ s'.replies = s.replies
    BY <2>1, <2>2, <2>3, StreamFacts DEF Streams
  <2>5. Done' = Done
    BY <2>4 DEF Done
  <2> QED BY <1>3, <2>5, Stutters
<1> QED BY <1>1, <1>2, <1>3 DEF ResumeStart

\* The tasks that move the stream, and nothing the abstract queue keeps.
LEMMA QuietMaps ==
  ASSUME PipelineInv,
         \/ \E k \in s.asks, ok \in BOOLEAN : GetToken(k, ok)
         \/ BackoffElapsed
         \/ \E code \in Codes : ServerEnds(code)
         \/ \E u \in Users : AuthStateChanged(u)
  PROVE  UNCHANGED Q!vars
<1>1. UNCHANGED <<queue, user, by, told, log>>
  BY DEF GetToken, BackoffElapsed, ServerEnds, AuthStateChanged
<1>2. s'.handshake = s.handshake /\ s'.replies = s.replies
  <2>1. CASE \E k \in s.asks, ok \in BOOLEAN : GetToken(k, ok)
    BY <2>1, StreamFacts DEF GetToken, Streams
  <2>2. CASE BackoffElapsed
    <3>1. PICK t : t = [s EXCEPT !.state = "Initial"]
      OBVIOUS
    <3>2. t \in Streams /\ t.state = "Initial" /\ t.handshake = s.handshake /\ t.replies = s.replies
      BY <3>1, StreamFacts DEF Streams, States
    <3>3. s' = [t EXCEPT !.state = "Starting", !.asks = @ \cup {t.closes}]
      BY <2>2, <3>1, <3>2 DEF BackoffElapsed, Start
    <3> QED BY <3>2, <3>3 DEF Streams
  <2>3. CASE \E code \in Codes : ServerEnds(code)
    BY <2>3, ServerEndsKeeps
  <2>4. CASE \E u \in Users : AuthStateChanged(u)
    BY <2>4 DEF AuthStateChanged
  <2> QED BY <2>1, <2>2, <2>3, <2>4
<1>3. Done' = Done
  BY <1>2 DEF Done
<1> QED BY <1>1, <1>3, Stutters

\* A stream that is stopped or restarted sends the queue again.
LEMMA RestartMaps ==
  ASSUME PipelineInv, IdleTimeout \/ ConnectivityChanged \/ HandleCredentialChange \/ Initialize
  PROVE  Q!Next
<1>1. Done' = 0
  BY IdleTimeoutKeeps, ConnectivityChangedKeeps, HandleCredentialChangeKeeps, InitializeKeeps DEF Done
<1>2. CASE IdleTimeout \/ ConnectivityChanged
  <2>1. UNCHANGED <<queue, user, by, told, log>>
    BY <1>2 DEF IdleTimeout, ConnectivityChanged
  <2> QED BY <1>1, <2>1 DEF Q!Next, Q!Retry, Done
<1>3. CASE HandleCredentialChange
  <2>1. UNCHANGED <<queue, by, told, log>> /\ user' \in Users
    BY <1>3, HandleCredentialChangeKeeps DEF HandleCredentialChange
  <2> QED BY <1>1, <2>1 DEF Q!Next, Q!SignIn, Done
<1>4. CASE Initialize
  <2>1. /\ UNCHANGED <<queue, by, log>> /\ user' = auth /\ auth \in Users
        /\ told' = [w \in DOMAIN told |-> IF told[w] = "waiting" THEN "gone" ELSE told[w]]
    BY <1>4, StreamFacts DEF Initialize
  <2> QED BY <1>1, <2>1 DEF Q!Next, Q!Restart, Done
<1> QED BY <1>2, <1>3, <1>4

(***************************************************************************)
(* The write path of the Firestore SDK keeps the promise of WriteQueue:    *)
(* whatever the worker queue, Auth, the server and the network do, in any  *)
(* order and with any number of faults, is a step of the abstract queue of *)
(* writes, or none.                                                        *)
(***************************************************************************)
THEOREM PipelineImplementsQueue == Spec => ImplementsQueue
<1>1. Init => Q!Init
  <2> SUFFICES ASSUME Init PROVE Q!Init
    OBVIOUS
  <2>1. /\ user \in Users /\ by = <<>> /\ told = <<>> /\ log = <<>>
        /\ queue = [u \in Users |-> <<>>] /\ s = Idle
    BY DEF Init
  <2>2. [i \in DOMAIN <<>> |-> <<>>[i].w] = <<>>
    OBVIOUS
  <2>3. Pending = [u \in Users |-> <<>>]
    BY <2>1, <2>2 DEF Pending
  <2>4. Done = 0
    BY <2>1 DEF Done, Idle
  <2> QED BY <2>1, <2>3, <2>4 DEF Q!Init, Pending, Done
<1>2. PipelineInv /\ [Next]_vars => [Q!Next]_(Q!vars)
  <2> SUFFICES ASSUME PipelineInv, [Next]_vars PROVE Q!Next \/ UNCHANGED Q!vars
    OBVIOUS
  <2>1. CASE WriteMutations
    BY <2>1, WriteMutationsMaps
  <2>2. CASE ServerAnswers
    BY <2>2, ServerAnswersMaps
  <2>3. CASE OnStreamRead
    BY <2>3, OnStreamReadMaps
  <2>4. CASE ResumeStart
    BY <2>4, ResumeStartMaps
  <2>5. CASE ReadStatus \/ ConnectionLost
    BY <2>5, FinishMaps DEF ReadStatus, ConnectionLost
  <2>6. CASE IdleTimeout \/ ConnectivityChanged \/ HandleCredentialChange \/ Initialize
    BY <2>6, RestartMaps
  <2>7. CASE \/ \E k \in s.asks, ok \in BOOLEAN : GetToken(k, ok)
             \/ BackoffElapsed
             \/ \E code \in Codes : ServerEnds(code)
             \/ \E u \in Users : AuthStateChanged(u)
    BY <2>7, QuietMaps
  <2>8. CASE UNCHANGED vars
    BY <2>8, Stutters DEF vars, Done
  <2> QED BY <2>1, <2>2, <2>3, <2>4, <2>5, <2>6, <2>7, <2>8 DEF Next, Progress
<1> QED BY <1>1, <1>2, PipelineInvariant, PTL DEF Spec, Q!Spec, ImplementsQueue

\* WriteQueue with its theorems, under the same refinement mapping as Q.
QP == INSTANCE WriteQueueProofs WITH
        pending <- [u \in Users |-> [i \in DOMAIN queue[u] |-> queue[u][i].w]],
        done <- IF s.handshake THEN Len(s.replies) ELSE 0

\* The two instances of WriteQueue are the same specification.
LEMMA SameQueue == Q!Spec => QP!Spec
<1>1. Q!Init => QP!Init
  BY DEF Q!Init, QP!Init
<1>2. [Q!Next]_(Q!vars) => [QP!Next]_(QP!vars)
  BY DEF Q!Next, QP!Next, Q!vars, QP!vars, Q!Submit, QP!Submit, Q!Apply, QP!Apply,
         Q!Acknowledge, QP!Acknowledge, Q!Reject, QP!Reject, Q!Settle, QP!Settle,
         Q!Retry, QP!Retry, Q!Restart, QP!Restart, Q!SignIn, QP!SignIn
<1> QED BY <1>1, <1>2, PTL DEF Q!Spec, QP!Spec

(***************************************************************************)
(* An acknowledged write of the app is applied, and after every earlier    *)
(* one of its user, however often RemoteStore sent them again: WriteQueue  *)
(* has the property, and the pipeline implements WriteQueue.               *)
(***************************************************************************)
THEOREM PipelineFinalOrder == Spec => []FinalOrder
<1>1. QP!FinalOrder => FinalOrder
  BY DEF QP!FinalOrder, FinalOrder, Q!FinalOrder, Q!InOrder, QP!InOrder, Q!IsLast, QP!IsLast
<1>2. QP!Spec => []QP!FinalOrder
  BY QP!AcknowledgedInOrder
<1> QED BY PipelineImplementsQueue, SameQueue, <1>1, <1>2, PTL DEF ImplementsQueue

(***************************************************************************)
(* No retry of the pipeline, restart of the app or change of the user      *)
(* brings back a write that has left the queue of LevelDB.                 *)
(***************************************************************************)
THEOREM PipelineNoLateApply == Spec => NoLateApply
<1>1. [log' # log => QP!Queued(log'[Len(log')])]_(QP!vars)
        => [log' # log => Q!Queued(log'[Len(log')])]_(Q!vars)
  BY DEF QP!Queued, Q!Queued, QP!vars, Q!vars
<1>2. QP!Spec => QP!NoLateApply
  BY QP!OnlyQueuedApplied
<1> QED BY PipelineImplementsQueue, SameQueue, <1>1, <1>2, PTL
       DEF ImplementsQueue, NoLateApply, Q!NoLateApply, QP!NoLateApply
=============================================================================
