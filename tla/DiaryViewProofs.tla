-------------------------- MODULE DiaryViewProofs --------------------------
(***************************************************************************)
(* What a device shows of a diary that is written nowhere else never goes  *)
(* back: ViewOnlyAdvances, for any number of devices, diaries, texts,      *)
(* screens and faults.                                                     *)
(***************************************************************************)
EXTENDS DiaryProofs, WellFoundedInduction

-----------------------------------------------------------------------------
(***************************************************************************)
(* Induction up to a number, for a set of numbers                          *)
(***************************************************************************)
\* A set that has 0 and with every number below m the next one has m.
LEMMA UpTo ==
  ASSUME NEW m \in Nat, NEW T, 0 \in T, \A n \in Nat : n < m /\ n \in T => n + 1 \in T
  PROVE  m \in T
<1> SUFFICES ASSUME m \notin T PROVE FALSE
  OBVIOUS
<1>1. PICK N : N = {n \in Nat : n <= m /\ n \notin T}
  OBVIOUS
<1>2. \E k \in N : \A n \in N : ~(<<n, k>> \in OpToRel(<, Nat))
  <2>1. N \subseteq Nat /\ N # {}
    BY <1>1
  <2> QED BY <2>1, NatLessThanWellFounded, WFMin, Zenon
<1>3. PICK k \in N : \A n \in N : ~(<<n, k>> \in OpToRel(<, Nat))
  BY <1>2
<1>4. k \in Nat /\ k <= m /\ k \notin T
  BY <1>1
<1>5. k # 0 /\ k - 1 \in Nat /\ k - 1 < k /\ k - 1 < m /\ k - 1 <= m /\ (k - 1) + 1 = k
  BY <1>4
<1>6. k - 1 \notin N
  BY <1>3, <1>4, <1>5 DEF OpToRel
<1>7. k - 1 \in T
  BY <1>1, <1>5, <1>6
<1> QED BY <1>4, <1>5, <1>7

-----------------------------------------------------------------------------
(***************************************************************************)
(* The writes of a queue over a document                                   *)
(***************************************************************************)
\* What one write makes of the document of diary i.
Stepped(o, i, c) == IF o.id = i THEN ApplyOp(o, c) ELSE c

\* f[n] is what the first n writes of q make of c.
Runs(f, q, i, c) ==
  f = [n \in 0..Len(q) |-> IF n = 0 THEN c ELSE Stepped(q[n], i, f[n - 1])]

\* There is such a function, and its last value is what the queue makes of c.
LEMMA OverlaidRuns ==
  ASSUME NEW q, Len(q) \in Nat, NEW i, NEW c
  PROVE  \E f : Runs(f, q, i, c) /\ Overlaid(q, i, c) = f[Len(q)]
<1> PICK L \in Nat : L = Len(q)
  OBVIOUS
<1> DEFINE Is(m, f) == f = [n \in 0..m |-> IF n = 0 THEN c ELSE Stepped(q[n], i, f[n - 1])]
<1> DEFINE T == {m \in Nat : \E f : Is(m, f)}
<1>1. 0 \in T
  <2>1. Is(0, [n \in 0..0 |-> c])
    OBVIOUS
  <2> QED BY <2>1
<1>2. ASSUME NEW m \in Nat, m \in T PROVE m + 1 \in T
  <2>1. PICK g : Is(m, g)
    BY <1>2
  <2>2. PICK f : f = [n \in 0..(m + 1) |-> IF n = m + 1 THEN Stepped(q[m + 1], i, g[m]) ELSE g[n]]
    OBVIOUS
  <2>3. \A n \in 0..m : f[n] = g[n]
    BY <2>2
  <2>4. f[m + 1] = Stepped(q[m + 1], i, f[m])
    BY <2>2, <2>3
  <2>5. \A n \in 0..(m + 1) : f[n] = IF n = 0 THEN c ELSE Stepped(q[n], i, f[n - 1])
    <3> TAKE n \in 0..(m + 1)
    <3>1. CASE n = m + 1
      <4>1. n # 0 /\ n - 1 = m
        BY <3>1
      <4> QED BY <4>1, <3>1, <2>4
    <3>2. CASE n # m + 1
      <4>1. n \in 0..m /\ (n # 0 => n - 1 \in 0..m)
        BY <3>2
      <4>2. g[n] = IF n = 0 THEN c ELSE Stepped(q[n], i, g[n - 1])
        BY <2>1, <4>1
      <4> QED BY <4>1, <4>2, <2>3
    <3> QED BY <3>1, <3>2
  <2>6. Is(m + 1, f)
    BY <2>2, <2>5
  <2>7. m + 1 \in Nat
    OBVIOUS
  <2> QED BY <2>6, <2>7
<1>3. \E f : Is(L, f)
  <2>1. L \in T
    <3> HIDE DEF T
    <3> QED BY <1>1, <1>2, UpTo
  <2> QED BY <2>1
<1>4. PICK f : f = CHOOSE g : Is(L, g)
  OBVIOUS
<1>5. Is(L, f)
  BY <1>3, <1>4
<1>6. Overlaid(q, i, c) = f[L]
  BY <1>4 DEF Overlaid, Stepped
<1> QED BY <1>5, <1>6 DEF Runs

\* The function starts with c and takes one write after the other.
LEMMA RunsSteps ==
  ASSUME NEW q, Len(q) \in Nat, NEW i, NEW c, NEW f, Runs(f, q, i, c)
  PROVE  f[0] = c /\ \A n \in Nat : n < Len(q) => f[n + 1] = Stepped(q[n + 1], i, f[n])
<1> PICK L \in Nat : L = Len(q)
  OBVIOUS
<1>1. f = [n \in 0..L |-> IF n = 0 THEN c ELSE Stepped(q[n], i, f[n - 1])]
  BY DEF Runs
<1>2. f[0] = c
  BY <1>1
<1>3. ASSUME NEW n \in Nat, n < L PROVE f[n + 1] = Stepped(q[n + 1], i, f[n])
  <2>1. n + 1 \in 0..L /\ n + 1 # 0 /\ (n + 1) - 1 = n
    BY <1>3
  <2> QED BY <1>1, <2>1
<1> QED BY <1>2, <1>3

\* One more write at the end of the queue.
LEMMA OverlaidAppend ==
  ASSUME NEW q \in Seq(Ops), NEW o \in Ops, NEW i, NEW c
  PROVE  Overlaid(Append(q, o), i, c) = Stepped(o, i, Overlaid(q, i, c))
<1>1. PICK L \in Nat : L = Len(q)
  OBVIOUS
<1>2. PICK p \in Seq(Ops) : p = Append(q, o)
  <2>1. Append(q, o) \in Seq(Ops)
    OBVIOUS
  <2> QED BY <2>1
<1>3. Len(p) = L + 1 /\ p[L + 1] = o /\ \A n \in 1..L : p[n] = q[n]
  BY <1>1, <1>2
<1>4. L + 1 \in Nat
  OBVIOUS
<1>5. PICK f : Runs(f, q, i, c) /\ Overlaid(q, i, c) = f[L]
  BY <1>1, OverlaidRuns
<1>6. PICK g : Runs(g, p, i, c) /\ Overlaid(p, i, c) = g[L + 1]
  BY <1>3, <1>4, OverlaidRuns
<1>7. f[0] = c /\ \A n \in Nat : n < L => f[n + 1] = Stepped(q[n + 1], i, f[n])
  BY <1>1, <1>5, RunsSteps
<1>8. g[0] = c /\ \A n \in Nat : n < L + 1 => g[n + 1] = Stepped(p[n + 1], i, g[n])
  BY <1>3, <1>4, <1>6, RunsSteps
<1> DEFINE T == {n \in Nat : f[n] = g[n]}
<1>9. 0 \in T
  BY <1>7, <1>8
<1>10. ASSUME NEW n \in Nat, n < L, n \in T PROVE n + 1 \in T
  <2>1. n + 1 \in 1..L /\ n < L + 1 /\ n + 1 \in Nat
    BY <1>10
  <2>2. f[n] = g[n]
    BY <1>10
  <2>3. f[n + 1] = g[n + 1]
    BY <1>3, <1>7, <1>8, <1>10, <2>1, <2>2
  <2> QED BY <2>1, <2>3
<1>11. L \in T
  <2> HIDE DEF T
  <2> QED BY <1>9, <1>10, UpTo
<1>12. f[L] = g[L] /\ L < L + 1
  BY <1>11
<1> QED BY <1>2, <1>3, <1>5, <1>6, <1>8, <1>12

\* The first write, then the others.
LEMMA OverlaidTail ==
  ASSUME NEW q \in Seq(Ops), q # <<>>, NEW i, NEW c
  PROVE  Overlaid(q, i, c) = Overlaid(Tail(q), i, Stepped(Head(q), i, c))
<1>0. /\ Len(q) \in Nat /\ Len(q) # 0 /\ Head(q) = q[1]
      /\ Tail(q) \in Seq(Ops) /\ Len(Tail(q)) = Len(q) - 1
      /\ \A n \in 1..(Len(q) - 1) : Tail(q)[n] = q[n + 1]
  OBVIOUS
<1>1. PICK L \in Nat : L + 1 = Len(q) /\ L = Len(q) - 1
  <2>1. PICK m \in Nat : m = Len(q) /\ m # 0
    BY <1>0
  <2>2. m - 1 \in Nat /\ (m - 1) + 1 = m
    BY <2>1
  <2> QED BY <2>1, <2>2
<1>2. PICK p \in Seq(Ops) : p = Tail(q)
  BY <1>0
<1>3. PICK b : b = Stepped(Head(q), i, c)
  OBVIOUS
<1>4. Len(p) = L /\ Head(q) = q[1] /\ \A n \in 1..L : p[n] = q[n + 1]
  BY <1>0, <1>1, <1>2
<1>5. L + 1 \in Nat /\ Len(p) = L /\ Len(p) \in Nat
  BY <1>4
<1>6. PICK f : Runs(f, p, i, b) /\ Overlaid(p, i, b) = f[L]
  BY <1>5, OverlaidRuns
<1>7. PICK g : Runs(g, q, i, c) /\ Overlaid(q, i, c) = g[L + 1]
  BY <1>1, <1>5, OverlaidRuns
<1>8. f[0] = b /\ \A n \in Nat : n < L => f[n + 1] = Stepped(p[n + 1], i, f[n])
  BY <1>5, <1>6, RunsSteps
<1>9. g[0] = c /\ \A n \in Nat : n < L + 1 => g[n + 1] = Stepped(q[n + 1], i, g[n])
  BY <1>1, <1>5, <1>7, RunsSteps
<1> DEFINE T == {n \in Nat : f[n] = g[n + 1]}
<1>10. 0 \in T
  <2>1. g[0 + 1] = Stepped(q[0 + 1], i, g[0]) /\ 0 + 1 = 1
    BY <1>9
  <2> QED BY <1>3, <1>4, <1>8, <1>9, <2>1
<1>11. ASSUME NEW n \in Nat, n < L, n \in T PROVE n + 1 \in T
  <2>1. n + 1 \in 1..L /\ n + 1 < L + 1 /\ n + 1 \in Nat
    BY <1>11
  <2>2. f[n] = g[n + 1]
    BY <1>11
  <2>3. g[(n + 1) + 1] = Stepped(q[(n + 1) + 1], i, g[n + 1])
    BY <1>9, <2>1
  <2>4. f[n + 1] = Stepped(p[n + 1], i, f[n]) /\ p[n + 1] = q[(n + 1) + 1]
    BY <1>4, <1>8, <1>11, <2>1
  <2> QED BY <2>1, <2>2, <2>3, <2>4
<1>12. L \in T
  <2> HIDE DEF T
  <2> QED BY <1>10, <1>11, UpTo
<1>13. f[L] = g[L + 1]
  BY <1>12
<1> QED BY <1>2, <1>3, <1>6, <1>7, <1>13

\* Writes of other diaries make nothing of this one.
LEMMA OverlaidOthers ==
  ASSUME NEW q \in Seq(Ops), NEW i, NEW c, \A k \in DOMAIN q : q[k].id # i
  PROVE  Overlaid(q, i, c) = c
<1>1. PICK L \in Nat : L = Len(q)
  OBVIOUS
<1>2. PICK f : Runs(f, q, i, c) /\ Overlaid(q, i, c) = f[L]
  BY <1>1, OverlaidRuns
<1>3. f[0] = c /\ \A n \in Nat : n < L => f[n + 1] = Stepped(q[n + 1], i, f[n])
  BY <1>1, <1>2, RunsSteps
<1> DEFINE T == {n \in Nat : f[n] = c}
<1>4. 0 \in T
  BY <1>3
<1>5. ASSUME NEW n \in Nat, n < L, n \in T PROVE n + 1 \in T
  <2>1. n + 1 \in DOMAIN q /\ n + 1 \in Nat
    BY <1>1, <1>5
  <2> QED BY <1>3, <1>5, <2>1 DEF Stepped
<1>6. L \in T
  <2> HIDE DEF T
  <2> QED BY <1>4, <1>5, UpTo
<1> QED BY <1>2, <1>6

\* What comes out is what went in, a text that is queued, or nothing.
LEMMA OverlaidIn ==
  ASSUME NEW q \in Seq(Ops), NEW i, NEW S, NEW c \in S, Deleted \in S,
         \A k \in DOMAIN q : q[k].text \in S
  PROVE  Overlaid(q, i, c) \in S
<1>1. PICK L \in Nat : L = Len(q)
  OBVIOUS
<1>2. PICK f : Runs(f, q, i, c) /\ Overlaid(q, i, c) = f[L]
  BY <1>1, OverlaidRuns
<1>3. f[0] = c /\ \A n \in Nat : n < L => f[n + 1] = Stepped(q[n + 1], i, f[n])
  BY <1>1, <1>2, RunsSteps
<1> DEFINE T == {n \in Nat : f[n] \in S}
<1>4. 0 \in T
  BY <1>3
<1>5. ASSUME NEW n \in Nat, n < L, n \in T PROVE n + 1 \in T
  <2>1. n + 1 \in DOMAIN q /\ n + 1 \in Nat
    BY <1>1, <1>5
  <2> QED BY <1>3, <1>5, <2>1 DEF Stepped, ApplyOp
<1>6. L \in T
  <2> HIDE DEF T
  <2> QED BY <1>4, <1>5, UpTo
<1> QED BY <1>2, <1>6

\* A queue with an add or a delete of the diary makes the same of everything,
\* one with an update the same of every document that exists.
LEMMA OverlaidSame ==
  ASSUME NEW q \in Seq(Ops), NEW i, NEW a, NEW b, NEW k \in DOMAIN q, q[k].id = i,
         q[k].op # "update" \/ (Exists(a) /\ Exists(b))
  PROVE  Overlaid(q, i, a) = Overlaid(q, i, b)
<1>1. PICK L \in Nat : L = Len(q)
  OBVIOUS
<1>2. PICK f : Runs(f, q, i, a) /\ Overlaid(q, i, a) = f[L]
  BY <1>1, OverlaidRuns
<1>3. PICK g : Runs(g, q, i, b) /\ Overlaid(q, i, b) = g[L]
  BY <1>1, OverlaidRuns
<1>4. f[0] = a /\ \A n \in Nat : n < L => f[n + 1] = Stepped(q[n + 1], i, f[n])
  BY <1>1, <1>2, RunsSteps
<1>5. g[0] = b /\ \A n \in Nat : n < L => g[n + 1] = Stepped(q[n + 1], i, g[n])
  BY <1>1, <1>3, RunsSteps
<1>6. DOMAIN q = 1..L /\ k \in 1..L
  BY <1>1
<1> DEFINE Both(n) == f[n] = g[n] \/ (n < k /\ (q[k].op # "update" \/ (Exists(f[n]) /\ Exists(g[n]))))
           T == {n \in Nat : Both(n)}
<1>7. 0 \in T
  <2>1. 0 < k
    BY <1>6
  <2> QED BY <1>4, <1>5, <2>1
<1>8. ASSUME NEW n \in Nat, n < L, n \in T PROVE n + 1 \in T
  <2>1. n + 1 \in DOMAIN q /\ n + 1 \in Nat /\ (n < k => n + 1 = k \/ n + 1 < k)
    BY <1>6, <1>8
  <2>2. PICK o \in Ops : o = q[n + 1]
    BY <2>1
  <2>3. f[n + 1] = Stepped(o, i, f[n]) /\ g[n + 1] = Stepped(o, i, g[n])
    BY <1>4, <1>5, <1>8, <2>2
  <2>4. Both(n)
    BY <1>8
  <2>5. o.op \in {"add", "update", "delete"}
    BY DEF Ops
  <2>6. CASE f[n] = g[n]
    BY <2>1, <2>3, <2>6
  <2>7. CASE n < k /\ (q[k].op # "update" \/ (Exists(f[n]) /\ Exists(g[n])))
    <3>1. CASE o.id # i
      <4>1. n + 1 # k
        BY <2>2, <3>1
      <4>2. f[n + 1] = f[n] /\ g[n + 1] = g[n] /\ n + 1 < k
        BY <2>1, <2>3, <2>7, <3>1, <4>1 DEF Stepped
      <4> QED BY <2>1, <2>7, <4>2
    <3>2. CASE o.id = i /\ o.op # "update"
      <4>1. f[n + 1] = g[n + 1]
        BY <2>3, <2>5, <3>2 DEF Stepped, ApplyOp, Missing
      <4> QED BY <2>1, <4>1
    <3>3. CASE o.id = i /\ o.op = "update" /\ Exists(f[n]) /\ Exists(g[n])
      <4>1. f[n + 1] = g[n + 1]
        BY <2>3, <3>3 DEF Stepped, ApplyOp, Missing
      <4> QED BY <2>1, <4>1
    <3>4. CASE o.op = "update" /\ q[k].op # "update"
      <4>1. n + 1 < k
        BY <2>1, <2>2, <2>7, <3>4
      <4> QED BY <2>1, <3>4, <4>1
    <3> QED BY <2>7, <3>1, <3>2, <3>3, <3>4
  <2> QED BY <2>4, <2>6, <2>7
<1>9. L \in T
  <2> HIDE DEF T
  <2> QED BY <1>7, <1>8, UpTo
<1>10. f[L] = g[L]
  <2>1. Both(L) /\ ~(L < k)
    BY <1>6, <1>9
  <2> QED BY <2>1
<1> QED BY <1>2, <1>3, <1>10

\* What is queued: a delete leaves nothing, the others a text.
TypedOps(q) == \A n \in DOMAIN q : IF q[n].op = "delete" THEN q[n].text = Deleted ELSE Exists(q[n].text)

\* The first write may go where it changes nothing, or where a later one
\* makes the same of what it leaves.
LEMMA HeadAbsorbed ==
  ASSUME NEW q \in Seq(Ops), q # <<>>, NEW i, NEW c,
         \/ Stepped(Head(q), i, c) = c
         \/ \E k \in DOMAIN q :
              /\ k # 1 /\ q[k].id = i
              /\ q[k].op # "update" \/ (Exists(c) /\ Exists(Stepped(Head(q), i, c)))
  PROVE  Overlaid(Tail(q), i, c) = Overlaid(q, i, c)
<1>1. PICK b : b = Stepped(Head(q), i, c)
  OBVIOUS
<1>2. Overlaid(q, i, c) = Overlaid(Tail(q), i, b)
  BY <1>1, OverlaidTail
<1>3. CASE b = c
  BY <1>2, <1>3
<1>4. ASSUME NEW k \in DOMAIN q, k # 1, q[k].id = i,
             q[k].op # "update" \/ (Exists(c) /\ Exists(b))
      PROVE  Overlaid(Tail(q), i, c) = Overlaid(q, i, c)
  <2>1. /\ Len(q) \in Nat /\ Tail(q) \in Seq(Ops) /\ DOMAIN q = 1..Len(q)
        /\ DOMAIN Tail(q) = 1..(Len(q) - 1)
        /\ \A n \in 1..(Len(q) - 1) : Tail(q)[n] = q[n + 1]
    OBVIOUS
  <2>2. PICK L \in Nat : L = Len(q)
    BY <2>1
  <2>3. k \in 1..L
    BY <2>1, <2>2
  <2>4. k - 1 \in 1..(L - 1) /\ (k - 1) + 1 = k
    BY <1>4, <2>3
  <2>5. PICK j \in DOMAIN Tail(q) : Tail(q)[j] = q[k]
    BY <2>1, <2>2, <2>4
  <2>6. Overlaid(Tail(q), i, c) = Overlaid(Tail(q), i, b)
    <3>1. PICK p \in Seq(Ops) : p = Tail(q)
      BY <2>1
    <3>2. PICK n \in DOMAIN p : p[n] = q[k]
      BY <2>5, <3>1
    <3>3. p[n].id = i /\ (p[n].op # "update" \/ (Exists(c) /\ Exists(b)))
      BY <1>4, <3>2
    <3>4. Overlaid(p, i, c) = Overlaid(p, i, b)
      BY <3>3, OverlaidSame
    <3> QED BY <3>1, <3>4
  <2> QED BY <1>2, <2>6
<1> QED BY <1>1, <1>3, <1>4

\* The first of several updates changes what is there, and is not missed: if
\* it makes the same of a document and of none, later ones overwrite it.
LEMMA UpdateAbsorbed ==
  ASSUME NEW q \in Seq(Ops), q # <<>>, TypedOps(q), NEW i, NEW c, NEW x,
         Head(q).op = "update", Head(q).id = i, ~Exists(x),
         Overlaid(q, i, x) = Overlaid(q, i, c)
  PROVE  Overlaid(Tail(q), i, c) = Overlaid(q, i, c)
<1>1. 1 \in DOMAIN q /\ Head(q) = q[1]
  OBVIOUS
<1>2. PICK t : t = Head(q).text
  OBVIOUS
<1>3. Exists(t)
  BY <1>1, <1>2 DEF TypedOps
<1>4. CASE ~Exists(c)
  <2>1. Stepped(Head(q), i, c) = c
    BY <1>4 DEF Stepped, ApplyOp, Missing
  <2> QED BY <2>1, HeadAbsorbed
<1>5. CASE Exists(c)
  <2>1. Stepped(Head(q), i, c) = t /\ Stepped(Head(q), i, x) = x
    BY <1>2, <1>5 DEF Stepped, ApplyOp, Missing
  <2>2. CASE \E k \in DOMAIN q : k # 1 /\ q[k].id = i
    BY <1>3, <1>5, <2>1, <2>2, HeadAbsorbed
  <2>3. CASE ~\E k \in DOMAIN q : k # 1 /\ q[k].id = i
    <3>1. /\ Len(q) \in Nat /\ Tail(q) \in Seq(Ops) /\ DOMAIN q = 1..Len(q)
          /\ DOMAIN Tail(q) = 1..(Len(q) - 1)
          /\ \A n \in 1..(Len(q) - 1) : Tail(q)[n] = q[n + 1]
      OBVIOUS
    <3>2. PICK L \in Nat : L = Len(q)
      BY <3>1
    <3>3. \A n \in 1..(L - 1) : n + 1 \in 1..L /\ n + 1 # 1
      OBVIOUS
    <3>4. \A n \in DOMAIN Tail(q) : Tail(q)[n].id # i
      BY <2>3, <3>1, <3>2, <3>3
    <3>5. /\ Overlaid(q, i, x) = Overlaid(Tail(q), i, x)
          /\ Overlaid(q, i, c) = Overlaid(Tail(q), i, t)
      BY <2>1, OverlaidTail
    <3>6. Overlaid(Tail(q), i, x) = x /\ Overlaid(Tail(q), i, t) = t
      BY <3>1, <3>4, OverlaidOthers
    <3>7. FALSE
      BY <1>3, <3>5, <3>6
    <3> QED BY <3>7
  <2> QED BY <2>2, <2>3
<1> QED BY <1>4, <1>5

-----------------------------------------------------------------------------
(***************************************************************************)
(* What each step of the SDK makes of a view                               *)
(***************************************************************************)
\* The view is that of the version in the cache.
LEMMA ViewIs ==
  ASSUME NEW d, NEW i
  PROVE  /\ View(d, i) = Overlaid(queue[d], i, hist[i][cache[d][i]])
         /\ View(d, i)' = Overlaid(queue'[d], i, hist'[i][cache'[d][i]])
BY DEF View, Cached

LEMMA SettledIs ==
  ASSUME NEW d, NEW i
  PROVE  Settled(d, i)' <=> \A v \in DOMAIN hist'[i] : v >= cache'[d][i] =>
            Overlaid(queue'[d], i, hist'[i][v]) = Overlaid(queue'[d], i, hist'[i][cache'[d][i]])
BY ViewIs DEF Settled

\* The versions, and what is queued of them.
LEMMA Ranges ==
  ASSUME DiaryInv, TextsTyped, NEW d \in Devices, NEW i \in Diaries
  PROVE  /\ hist[i] \in Seq(Contents) /\ Len(hist[i]) \in Nat \ {0} /\ DOMAIN hist[i] = 1..Len(hist[i])
         /\ cache[d][i] \in DOMAIN hist[i] /\ cache[d][i] \in Nat
         /\ queue[d] \in Seq(Ops) /\ sent[d] \in Seq(Nat) /\ Len(sent[d]) <= Len(queue[d])
         /\ TypedOps(queue[d])
<1>1. /\ hist[i] \in Seq(Contents) /\ hist[i] # <<>>
      /\ cache[d][i] \in DOMAIN hist[i] /\ cache[d][i] \in Nat
      /\ queue[d] \in Seq(Ops) /\ sent[d] \in Seq(Nat) /\ Len(sent[d]) <= Len(queue[d])
  BY DEF DiaryInv, DiaryType, VersionsExist
<1>2. Len(hist[i]) \in Nat \ {0} /\ DOMAIN hist[i] = 1..Len(hist[i])
  BY <1>1
<1>3. 1..typed \subseteq Texts
  BY BoundsAssumption DEF DiaryInv, DiaryType, Texts
<1>4. TypedOps(queue[d])
  BY <1>3 DEF TextsTyped, TypedOps, Exists
<1> QED BY <1>1, <1>2, <1>4

\* Where neither the document nor what the device knows of it changes.
LEMMA SameSettles ==
  ASSUME NEW d, NEW i, Settled(d, i),
         hist'[i] = hist[i], cache'[d][i] = cache[d][i], queue'[d] = queue[d]
  PROVE  Settled(d, i)' /\ View(d, i)' = View(d, i)
BY ViewIs, SettledIs DEF Settled

\* One write more is queued.
LEMMA EnqueueSettles ==
  ASSUME DiaryInv, TextsTyped, NEW d \in Devices, NEW i \in Diaries, NEW o \in Ops,
         Enqueue(d, o), Settled(d, i)
  PROVE  Settled(d, i)' /\ View(d, i)' = Stepped(o, i, View(d, i))
<1>1. PICK q \in Seq(Ops) : q = queue[d]
  BY Ranges
<1>2. queue'[d] = Append(q, o) /\ hist' = hist /\ cache' = cache
  BY <1>1 DEF Enqueue, DiaryInv, DiaryType
<1>3. View(d, i)' = Stepped(o, i, View(d, i))
  <2>1. PICK c : c = hist[i][cache[d][i]]
    OBVIOUS
  <2>2. View(d, i) = Overlaid(q, i, c)
    BY <1>1, <2>1, ViewIs
  <2>3. View(d, i)' = Overlaid(Append(q, o), i, c)
    BY <1>2, <2>1, ViewIs
  <2> QED BY <2>2, <2>3, OverlaidAppend
<1>4. ASSUME NEW v \in DOMAIN hist'[i], v >= cache'[d][i]
      PROVE  Overlaid(queue'[d], i, hist'[i][v]) = Stepped(o, i, View(d, i))
  <2>1. Overlaid(q, i, hist[i][v]) = View(d, i)
    BY <1>1, <1>2, <1>4 DEF Settled
  <2> QED BY <1>2, <2>1, OverlaidAppend
<1> QED BY <1>3, <1>4, ViewIs, SettledIs

\* A listener brings a later version.
LEMMA SnapshotSettles ==
  ASSUME DiaryInv, TextsTyped, NEW d \in Devices, NEW j \in Diaries, NEW v, Snapshot(d, j, v),
         NEW e \in Devices, NEW i \in Diaries, Settled(e, i)
  PROVE  Settled(e, i)' /\ View(e, i)' = View(e, i)
<1>1. /\ v \in DOMAIN hist[j] /\ v > cache[d][j]
      /\ cache' = [cache EXCEPT ![d][j] = v] /\ hist' = hist /\ queue' = queue
  BY DEF Snapshot
<1>2. cache'[e][i] = IF e = d /\ i = j THEN v ELSE cache[e][i]
  BY <1>1 DEF DiaryInv, DiaryType
<1>3. CASE e = d /\ i = j
  <2>1. cache'[e][i] = v /\ v \in DOMAIN hist[i] /\ v \in Nat /\ cache[e][i] \in Nat /\ v > cache[e][i]
    BY <1>1, <1>2, <1>3, Ranges
  <2>2. View(e, i)' = View(e, i)
    BY <1>1, <2>1, ViewIs DEF Settled
  <2>3. ASSUME NEW w \in DOMAIN hist[i], w >= v PROVE Overlaid(queue[e], i, hist[i][w]) = View(e, i)
    <3>1. w \in Nat /\ w >= cache[e][i]
      BY <2>1, <2>3, Ranges
    <3> QED BY <3>1 DEF Settled
  <2> QED BY <1>1, <2>1, <2>2, <2>3, ViewIs, SettledIs
<1>4. CASE ~(e = d /\ i = j)
  BY <1>1, <1>2, <1>4, SameSettles
<1> QED BY <1>3, <1>4

\* The server applies a write: the rest of the queue covers what it made.
LEMMA AppliesSettles ==
  ASSUME DiaryInv, TextsTyped, NEW d \in Devices, ServerApplies(d),
         NEW e \in Devices, NEW i \in Diaries, Sole(e, i), Settled(e, i)
  PROVE  Settled(e, i)' /\ View(e, i)' = View(e, i)
<1>1. PICK k : k = Len(sent[d]) + 1
  OBVIOUS
<1>2. PICK o : o = queue[d][k]
  OBVIOUS
<1>3. PICK b : b = ApplyOp(o, Content(o.id))
  OBVIOUS
<1>4. /\ Len(sent[d]) < Len(queue[d]) /\ ~Missing(o, Content(o.id))
      /\ hist' = [hist EXCEPT ![o.id] = Append(@, b)]
      /\ cache' = cache /\ queue' = queue
  BY <1>1, <1>2, <1>3 DEF ServerApplies, Refused
<1>5. k \in DOMAIN queue[d]
  BY <1>1, <1>4, Ranges
<1>6. o \in Ops
  BY <1>2, <1>5, Ranges
<1>7. CASE o.id # i
  <2>1. hist'[i] = hist[i]
    BY <1>4, <1>7 DEF DiaryInv, DiaryType
  <2> QED BY <1>4, <2>1, SameSettles
<1>8. CASE o.id = i
  <2>1. e = d
    BY <1>2, <1>5, <1>8 DEF TextsTyped, Sole
  <2>2. hist'[i] = Append(hist[i], b)
    BY <1>4, <1>8 DEF DiaryInv, DiaryType
  <2>3. PICK L \in Nat \ {0} : L = Len(hist[i]) /\ DOMAIN hist[i] = 1..L /\ cache[e][i] \in 1..L
    BY Ranges
  <2>4. PICK h \in Seq(Contents) : h = hist[i]
    BY Ranges
  <2>5. b \in Contents
    <3>1. h[L] \in Contents /\ Content(i) = h[L]
      BY <2>3, <2>4 DEF Content
    <3> QED BY <1>3, <1>6, <1>8, <3>1, ApplyOpType
  <2>6. DOMAIN hist'[i] = 1..(L + 1) /\ hist'[i][L + 1] = b /\ \A v \in 1..L : hist'[i][v] = hist[i][v]
    BY <2>2, <2>3, <2>4, <2>5
  <2>7. Overlaid(queue[d], i, b) = Overlaid(queue[d], i, Content(i))
    <3>1. o.op # "update" \/ (Exists(Content(i)) /\ Exists(b))
      <4>1. CASE o.op = "update"
        <5>1. Exists(o.text)
          BY <1>2, <1>5, <4>1, Ranges DEF TypedOps
        <5> QED BY <1>3, <1>4, <1>8, <4>1, <5>1 DEF ApplyOp, Missing
      <4> QED BY <4>1
    <3>2. PICK q \in Seq(Ops) : q = queue[d]
      BY Ranges
    <3>3. k \in DOMAIN q /\ q[k] = o
      BY <1>2, <1>5, <3>2
    <3>4. Overlaid(q, i, b) = Overlaid(q, i, Content(i))
      BY <1>8, <3>1, <3>3, OverlaidSame
    <3> QED BY <3>2, <3>4
  <2>8. Overlaid(queue[d], i, Content(i)) = View(e, i)
    <3>1. L \in 1..L /\ L >= cache[e][i]
      BY <2>3
    <3> QED BY <2>1, <2>3, <3>1 DEF Settled, Content
  <2>9. cache'[e][i] = cache[e][i] /\ queue'[e] = queue[d] /\ cache[e][i] \in 1..L
    BY <1>4, <2>1, <2>3
  <2>10. View(e, i)' = View(e, i)
    BY <2>1, <2>6, <2>9, ViewIs
  <2>11. ASSUME NEW v \in 1..(L + 1), v >= cache[e][i]
         PROVE  Overlaid(queue'[e], i, hist'[i][v]) = View(e, i)
    <3>1. CASE v = L + 1
      BY <2>6, <2>7, <2>8, <2>9, <3>1
    <3>2. CASE v # L + 1
      <4>1. v \in 1..L
        BY <3>2
      <4> QED BY <2>1, <2>3, <2>6, <2>9, <2>11, <4>1 DEF Settled
    <3> QED BY <3>1, <3>2
  <2> QED BY <2>6, <2>9, <2>10, <2>11, ViewIs, SettledIs
<1> QED BY <1>7, <1>8

\* The first write goes, where what is left makes the same of what may be known.
LEMMA DropSettles ==
  ASSUME DiaryInv, TextsTyped, NEW d \in Devices, NEW i \in Diaries, Settled(d, i),
         queue'[d] = Tail(queue[d]), hist'[i] = hist[i],
         cache'[d][i] \in DOMAIN hist[i], cache'[d][i] >= cache[d][i],
         \A v \in DOMAIN hist[i] : v >= cache'[d][i] =>
            Overlaid(Tail(queue[d]), i, hist[i][v]) = Overlaid(queue[d], i, hist[i][v])
  PROVE  Settled(d, i)' /\ View(d, i)' = View(d, i)
<1>1. PICK m \in Nat : m = cache'[d][i] /\ m \in DOMAIN hist[i] /\ m >= cache[d][i]
  BY Ranges
<1>2. ASSUME NEW v \in DOMAIN hist[i], v >= m
      PROVE  Overlaid(Tail(queue[d]), i, hist[i][v]) = View(d, i)
  <2>1. v \in Nat /\ cache[d][i] \in Nat /\ v >= cache[d][i]
    BY <1>1, <1>2, Ranges
  <2> QED BY <1>1, <1>2, <2>1 DEF Settled
<1>3. View(d, i)' = View(d, i)
  BY <1>1, <1>2, ViewIs
<1> QED BY <1>1, <1>2, <1>3, ViewIs, SettledIs

\* A write of another diary goes.
LEMMA OtherHead ==
  ASSUME DiaryInv, TextsTyped, NEW d \in Devices, NEW i \in Diaries, Settled(d, i),
         queue[d] # <<>>, Head(queue[d]).id # i, queue'[d] = Tail(queue[d]),
         hist' = hist, cache'[d][i] = cache[d][i]
  PROVE  Settled(d, i)' /\ View(d, i)' = View(d, i)
<1>1. PICK q \in Seq(Ops) : q = queue[d]
  BY Ranges
<1>2. \A c : Overlaid(Tail(q), i, c) = Overlaid(q, i, c)
  <2> TAKE c
  <2>1. Stepped(Head(q), i, c) = c
    BY <1>1 DEF Stepped
  <2> QED BY <1>1, <2>1, HeadAbsorbed
<1>3. cache[d][i] \in DOMAIN hist[i] /\ cache[d][i] >= cache[d][i]
  BY Ranges
<1> QED BY <1>1, <1>2, <1>3, DropSettles

\* A refused update goes.
LEMMA RejectSettles ==
  ASSUME DiaryInv, TextsTyped, NEW d \in Devices, Reject(d),
         NEW e \in Devices, NEW i \in Diaries, Settled(e, i)
  PROVE  Settled(e, i)' /\ View(e, i)' = View(e, i)
<1>1. /\ queue[d] # <<>> /\ Missing(Head(queue[d]), Content(Head(queue[d]).id))
      /\ queue'[d] = Tail(queue[d]) /\ \A p \in Devices : p # d => queue'[p] = queue[p]
      /\ hist' = hist /\ cache' = cache
  BY DEF Reject, Refused, DiaryInv, DiaryType
<1>2. CASE e # d
  BY <1>1, <1>2, SameSettles
<1>3. CASE e = d /\ Head(queue[d]).id # i
  BY <1>1, <1>3, OtherHead
<1>4. CASE e = d /\ Head(queue[d]).id = i
  <2>1. PICK q \in Seq(Ops) : q = queue[d]
    BY Ranges
  <2>2. q # <<>> /\ TypedOps(q) /\ Head(q).op = "update" /\ Head(q).id = i /\ ~Exists(Content(i))
    BY <1>1, <1>4, <2>1, Ranges DEF Missing
  <2>3. PICK L \in Nat \ {0} : L = Len(hist[i]) /\ DOMAIN hist[i] = 1..L /\ cache[d][i] \in 1..L
    BY Ranges
  <2>4. Content(i) = hist[i][L]
    BY <2>3 DEF Content
  <2>5. Overlaid(q, i, Content(i)) = View(d, i)
    <3>1. L \in 1..L /\ L >= cache[d][i]
      BY <2>3
    <3> QED BY <1>4, <2>1, <2>3, <2>4, <3>1 DEF Settled
  <2>6. ASSUME NEW v \in DOMAIN hist[i], v >= cache[d][i]
        PROVE  Overlaid(Tail(q), i, hist[i][v]) = Overlaid(q, i, hist[i][v])
    <3>1. Overlaid(q, i, hist[i][v]) = View(d, i)
      BY <1>4, <2>1, <2>6 DEF Settled
    <3> QED BY <2>2, <2>5, <3>1, UpdateAbsorbed
  <2>7. cache'[d][i] = cache[d][i] /\ cache[d][i] \in DOMAIN hist[i] /\ cache[d][i] >= cache[d][i]
    BY <1>1, <2>3
  <2> QED BY <1>1, <1>4, <2>1, <2>6, <2>7, DropSettles
<1> QED BY <1>2, <1>3, <1>4

\* The version of an answered write and the later ones are those of sent
\* writes: what is left of the queue makes of them what all of it does.
LEMMA AnsweredAbsorbed ==
  ASSUME DiaryInv, TextsTyped, SentLast, NEW d \in Devices, NEW i \in Diaries, Sole(d, i),
         sent[d] # <<>>, NEW q \in Seq(Ops), q = queue[d], Head(q).id = i,
         NEW v \in DOMAIN hist[i], v >= Head(sent[d])
  PROVE  Overlaid(Tail(q), i, hist[i][v]) = Overlaid(q, i, hist[i][v])
<1>1. /\ 1 \in DOMAIN sent[d] /\ Head(sent[d]) = sent[d][1]
      /\ DOMAIN sent[d] \subseteq DOMAIN q /\ q # <<>> /\ Head(q) = q[1] /\ 1 \in DOMAIN q
  <2>1. sent[d] \in Seq(Nat) /\ Len(sent[d]) <= Len(q)
    BY Ranges
  <2> QED BY <2>1
<1>2. PICK o \in Ops : o = q[1] /\ o = Head(q) /\ o.id = i
  BY <1>1
<1>3. PICK c : c = hist[i][v]
  OBVIOUS
<1>4. /\ \E m \in DOMAIN sent[d] : m >= 1 /\ q[m].id = i /\ c = q[m].text
      /\ o.op = "delete" /\ Exists(c) => \E m \in DOMAIN sent[d] : m >= 1 /\ q[m].id = i /\ q[m].op = "add"
  <2>1. PICK N \in Nat : N = Len(sent[d]) /\ DOMAIN sent[d] = 1..N
    BY Ranges
  <2>2. Covering(q, N, 1, i, c)
    BY <1>1, <1>2, <1>3, <2>1 DEF SentLast, SentOf
  <2> QED BY <1>2, <2>1, <2>2 DEF Covering
<1>5. PICK m \in DOMAIN q : q[m].id = i /\ c = q[m].text
  BY <1>1, <1>4
<1>6. TypedOps(q) /\ o.op \in {"add", "update", "delete"}
  BY <1>2, Ranges DEF Ops
<1>7. CASE m = 1
  <2>1. c = o.text
    BY <1>2, <1>5, <1>7
  <2>2. o.op = "delete" => o.text = Deleted
    BY <1>1, <1>2, <1>6 DEF TypedOps
  <2>3. Stepped(o, i, c) = c
    BY <1>2, <2>1, <2>2 DEF Stepped, ApplyOp
  <2> QED BY <1>1, <1>2, <1>3, <2>3, HeadAbsorbed
<1>8. CASE m # 1 /\ q[m].op # "update"
  BY <1>1, <1>3, <1>5, <1>8, HeadAbsorbed
<1>9. CASE m # 1 /\ q[m].op = "update"
  <2>1. Exists(c)
    BY <1>5, <1>6, <1>9 DEF TypedOps
  <2>2. CASE o.op # "delete"
    <3>1. Exists(o.text)
      BY <1>1, <1>2, <1>6, <2>2 DEF TypedOps
    <3>2. Exists(Stepped(o, i, c))
      BY <1>2, <2>1, <2>2, <3>1 DEF Stepped, ApplyOp
    <3> QED BY <1>1, <1>2, <1>3, <1>5, <1>9, <2>1, <3>2, HeadAbsorbed
  <2>3. CASE o.op = "delete"
    <3>1. PICK n \in DOMAIN q : q[n].id = i /\ q[n].op = "add"
      BY <1>1, <1>4, <2>1, <2>3
    <3>2. n # 1
      BY <1>2, <2>3, <3>1
    <3> QED BY <1>1, <1>3, <3>1, <3>2, HeadAbsorbed
  <2> QED BY <2>2, <2>3
<1> QED BY <1>7, <1>8, <1>9

\* An answered write goes, and the device may know its version.
LEMMA AnswerSettles ==
  ASSUME DiaryInv, TextsTyped, SentLast, NEW d \in Devices, Answer(d),
         NEW e \in Devices, NEW i \in Diaries, Sole(e, i), Settled(e, i)
  PROVE  Settled(e, i)' /\ View(e, i)' = View(e, i)
<1>1. PICK q \in Seq(Ops) : q = queue[d]
  BY Ranges
<1>2. PICK s : s = Head(sent[d])
  OBVIOUS
<1>3. PICK a : a = Acknowledged(d, Head(q), s)
  OBVIOUS
<1>4. /\ sent[d] # <<>> /\ queue' = [queue EXCEPT ![d] = Tail(@)] /\ hist' = hist
      /\ cache' = [cache EXCEPT ![d][Head(q).id] = a]
  BY <1>1, <1>2, <1>3 DEF Answer
<1>5. q # <<>> /\ Head(q) = q[1] /\ s = sent[d][1] /\ 1 \in DOMAIN sent[d] /\ Head(q) \in Ops
  <2>1. sent[d] \in Seq(Nat) /\ Len(sent[d]) <= Len(q)
    BY <1>1, Ranges
  <2> QED BY <1>2, <1>4, <2>1
<1>6. /\ \A p \in Devices : queue'[p] = IF p = d THEN Tail(q) ELSE queue[p]
      /\ \A p \in Devices, j \in Diaries :
           cache'[p][j] = IF p = d /\ j = Head(q).id THEN a ELSE cache[p][j]
  <2>1. Head(q).id \in Diaries
    BY <1>5 DEF Ops
  <2> QED BY <1>1, <1>4, <2>1 DEF DiaryInv, DiaryType
<1>7. CASE e # d
  BY <1>4, <1>6, <1>7, SameSettles
<1>8. CASE e = d /\ Head(q).id # i
  BY <1>1, <1>4, <1>5, <1>6, <1>8, OtherHead
<1>9. CASE e = d /\ Head(q).id = i
  <2>1. PICK o \in Ops : o = Head(q) /\ o.id = i
    BY <1>5, <1>9
  <2>2. PICK L \in Nat \ {0} : DOMAIN hist[i] = 1..L /\ cache[d][i] \in 1..L
    BY Ranges
  <2>3. s \in 1..L
    <3>1. s \in DOMAIN hist[i]
      BY <1>1, <1>5, <2>1 DEF DiaryInv, VersionsExist
    <3> QED BY <2>2, <3>1
  <2>4. PICK m \in 1..L : m = cache[d][i]
    BY <2>2
  <2>5. a = IF s > m /\ (o.op # "update" \/ Exists(hist[i][m])) THEN s ELSE m
    BY <1>3, <2>1, <2>4 DEF Acknowledged, Cached
  <2>6. a \in 1..L /\ a >= m
    BY <2>3, <2>4, <2>5
  <2>7. ASSUME NEW v \in 1..L, v >= a
        PROVE  Overlaid(Tail(q), i, hist[i][v]) = Overlaid(q, i, hist[i][v])
    <3>1. CASE v >= s
      BY <1>1, <1>2, <1>4, <1>9, <2>2, <3>1, AnsweredAbsorbed
    <3>2. CASE ~(v >= s)
      <4>1. s > m /\ o.op = "update" /\ ~Exists(hist[i][m]) /\ v >= m
        BY <2>3, <2>4, <2>5, <2>7, <3>2
      <4>2. Overlaid(q, i, hist[i][v]) = View(d, i) /\ Overlaid(q, i, hist[i][m]) = View(d, i)
        BY <1>1, <1>9, <2>2, <2>4, <4>1, ViewIs DEF Settled
      <4>3. TypedOps(q)
        BY <1>1, Ranges
      <4> QED BY <1>5, <2>1, <4>1, <4>2, <4>3, UpdateAbsorbed
    <3> QED BY <3>1, <3>2
  <2>8. cache'[d][i] = a /\ queue'[d] = Tail(queue[d]) /\ hist'[i] = hist[i]
    BY <1>1, <1>4, <1>6, <1>9
  <2>9. /\ cache'[d][i] \in DOMAIN hist[i] /\ cache'[d][i] >= cache[d][i]
        /\ \A v \in DOMAIN hist[i] : v >= cache'[d][i] =>
             Overlaid(Tail(queue[d]), i, hist[i][v]) = Overlaid(queue[d], i, hist[i][v])
    BY <1>1, <2>2, <2>4, <2>6, <2>7, <2>8
  <2> QED BY <1>9, <2>8, <2>9, DropSettles
<1> QED BY <1>7, <1>8, <1>9

-----------------------------------------------------------------------------
(***************************************************************************)
(* What has been sent                                                      *)
(***************************************************************************)
\* Where the document stays, and the device has sent the same or nothing.
LEMMA SentSame ==
  ASSUME DiaryInv, NEW d \in Devices, NEW i \in Diaries, SentOf(d, i), hist'[i] = hist[i],
         \/ sent'[d] = <<>>
         \/ sent'[d] = sent[d] /\ \A k \in DOMAIN sent[d] : queue'[d][k] = queue[d][k]
  PROVE  SentOf(d, i)'
<1>1. CASE sent'[d] = <<>>
  <2>1. DOMAIN sent'[d] = {}
    BY <1>1
  <2> QED BY <2>1 DEF SentOf
<1>2. CASE sent'[d] = sent[d] /\ \A k \in DOMAIN sent[d] : queue'[d][k] = queue[d][k]
  <2>1. PICK N \in Nat : N = Len(sent[d]) /\ DOMAIN sent[d] = 1..N
    BY DEF DiaryInv, DiaryType
  <2>2. \A c : \A k \in 1..N : Covering(queue[d], N, k, i, c) => Covering(queue'[d], N, k, i, c)
    BY <1>2, <2>1 DEF Covering
  <2> QED BY <1>2, <2>1, <2>2 DEF SentOf
<1> QED BY <1>1, <1>2

\* One more write sent.
LEMMA CoverMore ==
  ASSUME NEW q, NEW N \in Nat, NEW k, NEW i, NEW c, Covering(q, N, k, i, c)
  PROVE  Covering(q, N + 1, k, i, c)
<1>1. 1..N \subseteq 1..(N + 1)
  OBVIOUS
<1> QED BY <1>1 DEF Covering

\* What the last write has left.
LEMMA CoverLast ==
  ASSUME NEW q, NEW N \in Nat, NEW k \in 1..(N + 1), NEW i, NEW b,
         q[N + 1].id = i, b = q[N + 1].text,
         \/ q[N + 1].op = "add" \/ ~Exists(b) \/ q[k].op # "delete"
         \/ \E c : Exists(c) /\ Covering(q, N, k, i, c)
  PROVE  Covering(q, N + 1, k, i, b)
<1>1. N + 1 \in 1..(N + 1) /\ N + 1 >= k /\ 1..N \subseteq 1..(N + 1)
  OBVIOUS
<1> QED BY <1>1 DEF Covering

\* The first write gone.
LEMMA CoverTail ==
  ASSUME NEW q, NEW p, NEW N \in Nat, NEW k \in 1..N, NEW i, NEW c,
         \A n \in 1..N : p[n] = q[n + 1], Covering(q, N + 1, k + 1, i, c)
  PROVE  Covering(p, N, k, i, c)
<1>1. p[k] = q[k + 1]
  OBVIOUS
<1>2. ASSUME NEW n \in 1..(N + 1), n >= k + 1
      PROVE  \E m \in 1..N : m >= k /\ p[m] = q[n]
  <2>1. n - 1 \in 1..N /\ n - 1 >= k /\ (n - 1) + 1 = n
    BY <1>2
  <2> QED BY <2>1
<1> QED BY <1>1, <1>2 DEF Covering

\* The next write is sent, and becomes the last version.
LEMMA SentApplies ==
  ASSUME DiaryInv, TextsTyped, NEW d \in Devices, ServerApplies(d),
         NEW e \in Devices, NEW i \in Diaries, Sole(e, i), SentOf(e, i)
  PROVE  SentOf(e, i)'
<1>1. PICK t \in Seq(Nat) : t = sent[d]
  BY Ranges
<1>2. PICK N \in Nat : N = Len(t) /\ DOMAIN t = 1..N
  BY <1>1
<1>3. PICK q \in Seq(Ops) : q = queue[d]
  BY Ranges
<1>4. PICK o : o = q[N + 1]
  OBVIOUS
<1>5. PICK b : b = ApplyOp(o, Content(o.id))
  OBVIOUS
<1>6. /\ N < Len(q) /\ ~Missing(o, Content(o.id)) /\ queue' = queue
      /\ hist' = [hist EXCEPT ![o.id] = Append(@, b)]
      /\ sent' = [sent EXCEPT ![d] = Append(@, Len(hist[o.id]) + 1)]
  BY <1>1, <1>2, <1>3, <1>4, <1>5 DEF ServerApplies, Refused
<1>7. N + 1 \in DOMAIN q
  BY <1>6
<1>8. o \in Ops
  BY <1>4, <1>7
<1>9. o.id \in Diaries /\ o.op \in {"add", "update", "delete"}
  BY <1>8 DEF Ops
<1>10. PICK w \in Nat : w = Len(hist[o.id]) + 1
  BY <1>9, Ranges
<1>11. \A p \in Devices : sent'[p] = IF p = d THEN Append(t, w) ELSE sent[p]
  BY <1>1, <1>6, <1>10 DEF DiaryInv, DiaryType
<1>12. PICK r \in Seq(Nat) : /\ r = Append(t, w) /\ Len(r) = N + 1 /\ DOMAIN r = 1..(N + 1)
                             /\ r[N + 1] = w /\ \A k \in 1..N : r[k] = t[k]
  <2>1. Append(t, w) \in Seq(Nat)
    OBVIOUS
  <2>2. /\ Len(Append(t, w)) = N + 1 /\ DOMAIN Append(t, w) = 1..(N + 1)
        /\ Append(t, w)[N + 1] = w /\ \A k \in 1..N : Append(t, w)[k] = t[k]
    BY <1>2
  <2> QED BY <2>1, <2>2
<1>13. CASE e # d
  <2>1. o.id # i
    BY <1>3, <1>4, <1>7, <1>13 DEF TextsTyped, Sole
  <2>2. hist'[i] = hist[i]
    BY <1>6, <2>1 DEF DiaryInv, DiaryType
  <2> QED BY <1>6, <1>11, <1>13, <2>2, SentSame
<1>14. CASE e = d
  <2>1. sent'[e] = r /\ queue'[e] = q /\ sent[e] = t /\ queue[e] = q
    BY <1>1, <1>3, <1>6, <1>11, <1>12, <1>14
  <2>2. \A k \in 1..(N + 1) : k = N + 1 \/ k \in 1..N
    OBVIOUS
  <2>3. ASSUME NEW k \in 1..N, NEW v \in DOMAIN hist[i], q[k].id = i, v >= t[k]
        PROVE  Covering(q, N, k, i, hist[i][v])
    BY <1>2, <2>1, <2>3 DEF SentOf
  <2>4. CASE o.id # i
    <3>1. hist'[i] = hist[i]
      BY <1>6, <2>4 DEF DiaryInv, DiaryType
    <3>2. ASSUME NEW k \in 1..(N + 1), NEW v \in DOMAIN hist[i], q[k].id = i, v >= r[k]
          PROVE  Covering(q, N + 1, k, i, hist[i][v])
      <4>1. k \in 1..N
        BY <1>4, <2>2, <2>4, <3>2
      <4>2. v >= t[k]
        BY <1>12, <3>2, <4>1
      <4> QED BY <2>3, <3>2, <4>1, <4>2, CoverMore
    <3> QED BY <1>12, <2>1, <3>1, <3>2 DEF SentOf
  <2>5. CASE o.id = i
    <3>1. PICK h \in Seq(Contents) : h = hist[i]
      BY Ranges
    <3>2. PICK L \in Nat \ {0} : L = Len(h) /\ DOMAIN h = 1..L /\ w = L + 1
      BY <1>10, <2>5, <3>1, Ranges
    <3>3. Content(i) = h[L] /\ h[L] \in Contents
      BY <3>1, <3>2 DEF Content
    <3>4. b \in Contents
      BY <1>5, <1>8, <2>5, <3>3, ApplyOpType
    <3>5. hist'[i] = Append(h, b)
      BY <1>6, <2>5, <3>1 DEF DiaryInv, DiaryType
    <3>6. PICK g : /\ g = hist'[i] /\ DOMAIN g = 1..(L + 1) /\ g[L + 1] = b
                   /\ \A v \in 1..L : g[v] = h[v]
      <4>1. /\ DOMAIN Append(h, b) = 1..(L + 1) /\ Append(h, b)[L + 1] = b
            /\ \A v \in 1..L : Append(h, b)[v] = h[v]
        BY <3>2, <3>4
      <4> QED BY <3>5, <4>1
    <3>7. b = o.text
      <4>1. o.op = "delete" => o.text = Deleted
        BY <1>3, <1>4, <1>7, Ranges DEF TypedOps
      <4> QED BY <1>5, <1>6, <4>1 DEF ApplyOp
    <3>8. ASSUME NEW k \in 1..(N + 1), q[k].id = i PROVE Covering(q, N + 1, k, i, b)
      <4>1. CASE o.op = "add" \/ ~Exists(b) \/ q[k].op # "delete"
        BY <1>4, <2>5, <3>7, <4>1, CoverLast
      <4>2. CASE ~(o.op = "add" \/ ~Exists(b) \/ q[k].op # "delete")
        <5>1. o.op = "update"
          <6>1. o.op # "delete"
            BY <1>5, <4>2, Numbers DEF ApplyOp, Exists
          <6> QED BY <1>9, <4>2, <6>1
        <5>2. Exists(h[L])
          BY <1>6, <2>5, <3>3, <5>1 DEF Missing
        <5>3. k \in 1..N
          BY <1>4, <2>2, <4>2, <5>1
        <5>4. t[k] \in 1..L
          <6>1. sent[d][k] \in DOMAIN hist[queue[d][k].id]
            BY <1>1, <1>2, <5>3 DEF DiaryInv, VersionsExist
          <6> QED BY <1>1, <1>3, <3>1, <3>2, <3>8, <6>1
        <5>5. L \in 1..L /\ L >= t[k]
          BY <5>4
        <5>6. Covering(q, N, k, i, h[L])
          BY <2>3, <3>1, <3>2, <3>8, <5>3, <5>5
        <5> QED BY <1>4, <2>5, <3>7, <5>2, <5>6, CoverLast
      <4> QED BY <4>1, <4>2
    <3>9. ASSUME NEW k \in 1..(N + 1), NEW v \in 1..(L + 1), q[k].id = i, v >= r[k]
          PROVE  Covering(q, N + 1, k, i, g[v])
      <4>1. CASE v = L + 1
        BY <3>6, <3>8, <3>9, <4>1
      <4>2. CASE v # L + 1
        <5>1. v \in 1..L
          BY <4>2
        <5>2. k # N + 1
          BY <1>12, <3>2, <3>9, <5>1
        <5>3. k \in 1..N
          BY <2>2, <5>2
        <5>4. v >= t[k]
          BY <1>12, <3>9, <5>3
        <5>5. Covering(q, N, k, i, h[v])
          BY <2>3, <3>1, <3>2, <3>9, <5>1, <5>3, <5>4
        <5>6. g[v] = h[v]
          BY <3>6, <5>1
        <5> QED BY <5>5, <5>6, CoverMore
      <4> QED BY <4>1, <4>2
    <3> QED BY <1>12, <2>1, <3>6, <3>9 DEF SentOf
  <2> QED BY <2>4, <2>5
<1> QED BY <1>13, <1>14

\* The first sent write is answered: the others move up.
LEMMA SentAnswer ==
  ASSUME DiaryInv, TextsTyped, NEW d \in Devices, Answer(d),
         NEW e \in Devices, NEW i \in Diaries, SentOf(e, i)
  PROVE  SentOf(e, i)'
<1>1. /\ sent[d] # <<>> /\ queue' = [queue EXCEPT ![d] = Tail(@)]
      /\ sent' = [sent EXCEPT ![d] = Tail(@)] /\ hist' = hist
  BY DEF Answer
<1>2. CASE e # d
  <2>1. sent'[e] = sent[e] /\ queue'[e] = queue[e]
    BY <1>1, <1>2 DEF DiaryInv, DiaryType
  <2> QED BY <1>1, <2>1, SentSame
<1>3. CASE e = d
  <2>1. PICK q \in Seq(Ops) : q = queue[d]
    BY Ranges
  <2>2. PICK t \in Seq(Nat) : t = sent[d] /\ Len(t) <= Len(q) /\ t # <<>>
    BY <1>1, <2>1, Ranges
  <2>3. PICK p, r : p = Tail(q) /\ r = Tail(t)
    OBVIOUS
  <2>4. queue'[d] = p /\ sent'[d] = r
    BY <1>1, <2>1, <2>2, <2>3 DEF DiaryInv, DiaryType
  <2>5. PICK n \in Nat : n = Len(t) /\ n # 0 /\ DOMAIN t = 1..n
    BY <2>2
  <2>6. PICK N \in Nat : N + 1 = n /\ N = n - 1
    <3>1. n - 1 \in Nat /\ (n - 1) + 1 = n
      BY <2>5
    <3> QED BY <3>1
  <2>7. Len(r) = N /\ DOMAIN r = 1..N /\ \A k \in 1..N : r[k] = t[k + 1]
    BY <2>2, <2>3, <2>5, <2>6
  <2>8. \A k \in 1..N : p[k] = q[k + 1]
    <3>1. PICK M \in Nat : M = Len(q) /\ n <= M
      BY <2>2, <2>5
    <3>2. \A k \in 1..(M - 1) : Tail(q)[k] = q[k + 1]
      BY <2>5, <3>1
    <3>3. 1..N \subseteq 1..(M - 1)
      BY <2>6, <3>1
    <3> QED BY <2>3, <3>2, <3>3
  <2>9. ASSUME NEW k \in 1..N, NEW v \in DOMAIN hist[i], p[k].id = i, v >= r[k]
        PROVE  Covering(p, N, k, i, hist[i][v])
    <3>1. k + 1 \in 1..(N + 1)
      OBVIOUS
    <3>2. q[k + 1].id = i /\ v >= t[k + 1]
      BY <2>7, <2>8, <2>9
    <3>3. Covering(q, N + 1, k + 1, i, hist[i][v])
      <4>1. k + 1 \in DOMAIN sent[e] /\ queue[e][k + 1].id = i /\ v >= sent[e][k + 1]
        BY <1>3, <2>1, <2>2, <2>5, <2>6, <3>1, <3>2
      <4>2. Covering(queue[e], Len(sent[e]), k + 1, i, hist[i][v])
        BY <4>1 DEF SentOf
      <4> QED BY <1>3, <2>1, <2>2, <2>5, <2>6, <4>2
    <3> QED BY <2>8, <3>3, CoverTail
  <2>10. queue'[e] = p /\ sent'[e] = r /\ hist'[i] = hist[i]
    BY <1>1, <1>3, <2>4
  <2> QED BY <2>7, <2>9, <2>10 DEF SentOf
<1> QED BY <1>2, <1>3

-----------------------------------------------------------------------------
(***************************************************************************)
(* The stacks                                                              *)
(***************************************************************************)
\* Routes are taken off the top of e's stack, if at all.
Shrinks(e) == \A k \in DOMAIN routes'[e] : k \in DOMAIN routes[e] /\ routes'[e][k] = routes[e][k]

LEMMA PopShrinks ==
  ASSUME DiaryInv, NEW d \in Devices, NEW q, Pop(d, q), NEW e \in Devices
  PROVE  Shrinks(e)
<1>1. routes'[e] = IF e = d THEN Without(routes[e]) ELSE routes[e]
  BY DEF Pop, DiaryInv, DiaryType
<1>2. routes[e] \in Seq(Routes)
  BY DEF DiaryInv, DiaryType
<1> QED BY <1>1, <1>2, WithoutRoutes DEF Shrinks

\* A stack shrinks, or is made anew, or something is opened on its top.
LEMMA RouteSteps ==
  ASSUME DiaryInv, [Next]_vars, NEW e \in Devices
  PROVE  \/ Shrinks(e)
         \/ routes'[e] = <<Route("dashboard", 0)>>
         \/ Top(e) = "dashboard" /\ \E n : routes'[e] = Append(routes[e], Route("creator", n))
         \/ Top(e) = "dashboard" /\ routes'[e] = Append(routes[e], Route("editor", 0))
              /\ \E i \in Diaries : OpenEditor(e, i)
         \/ Top(e) = "editor" /\ routes'[e] = Append(routes[e], Route("dialog", 0))
<1>1. ASSUME routes'[e] = routes[e] PROVE Shrinks(e)
  BY <1>1 DEF Shrinks
<1>2. CASE UNCHANGED vars
  BY <1>1, <1>2 DEF vars, ui
<1>3. CASE Next
  <2>1. PICK d \in Devices :
          \/ Answers(d) \/ AnswersLost(d) \/ User(d) \/ Rebuild(d) \/ Restart(d)
          \/ \E i \in Diaries : \E v \in DOMAIN hist[i] : Snapshot(d, i, v)
          \/ \E n \in 1..MaxScreens : Unmount(d, n)
    BY <1>3 DEF Next
  <2>2. CASE Answers(d)
    <3>1. CASE ServerApplies(d) \/ Reject(d)
      BY <1>1, <3>1 DEF ServerApplies, Reject, ui
    <3>2. CASE Answer(d)
      <4>1. PICK o : ThenPop(d, o)
        BY <3>2 DEF Answer
      <4>2. (\E q : Pop(d, q)) \/ routes' = routes
        BY <4>1 DEF ThenPop
      <4> QED BY <1>1, <4>2, PopShrinks
    <3> QED BY <2>2, <3>1, <3>2 DEF Answers
  <2>3. CASE AnswersLost(d)
    BY <1>1, <2>3 DEF AnswersLost, ui
  <2>4. CASE User(d)
    <3>1. CASE OpenCreator(d)
      <4>1. Top(d) = "dashboard" /\ Push(d, Route("creator", opened'))
        BY <3>1 DEF OpenCreator
      <4>2. PICK n : n = opened'
        OBVIOUS
      <4>3. routes'[e] = IF e = d THEN Append(routes[e], Route("creator", n)) ELSE routes[e]
        BY <4>1, <4>2 DEF Push, DiaryInv, DiaryType
      <4> QED BY <1>1, <4>1, <4>3
    <3>2. CASE SaveNew(d) \/ Type(d)
      BY <1>1, <3>2 DEF SaveNew, Type, ui
    <3>3. CASE LeaveCreator(d) \/ SystemBack(d) \/ CancelDelete(d) \/ ArrowBack(d)
      <4>1. Pop(d, queue[d])
        BY <3>3 DEF LeaveCreator, SystemBack, CancelDelete, ArrowBack
      <4>2. PICK q : q = queue[d]
        OBVIOUS
      <4> QED BY <4>1, <4>2, PopShrinks
    <3>4. ASSUME NEW i \in Diaries, OpenEditor(d, i)
          PROVE  Shrinks(e) \/ (/\ Top(e) = "dashboard" /\ routes'[e] = Append(routes[e], Route("editor", 0))
                                /\ OpenEditor(e, i))
      <4>1. Top(d) = "dashboard" /\ Push(d, Route("editor", 0))
        BY <3>4 DEF OpenEditor
      <4>2. routes'[e] = IF e = d THEN Append(routes[e], Route("editor", 0)) ELSE routes[e]
        BY <4>1 DEF Push, DiaryInv, DiaryType
      <4> QED BY <1>1, <3>4, <4>1, <4>2
    <3>5. CASE AskDelete(d)
      <4>1. Top(d) = "editor" /\ Push(d, Route("dialog", 0))
        BY <3>5 DEF AskDelete
      <4>2. routes'[e] = IF e = d THEN Append(routes[e], Route("dialog", 0)) ELSE routes[e]
        BY <4>1 DEF Push, DiaryInv, DiaryType
      <4> QED BY <1>1, <4>1, <4>2
    <3>6. CASE ConfirmDelete(d)
      <4>1. routes'[e] = IF e = d THEN Without(Without(routes[e])) ELSE routes[e]
        BY <3>6 DEF ConfirmDelete, DiaryInv, DiaryType
      <4>2. routes[e] \in Seq(Routes)
        BY DEF DiaryInv, DiaryType
      <4>3. PICK s \in Seq(Routes) : s = Without(routes[e])
        BY <4>2, WithoutRoutes
      <4>4. \A k \in DOMAIN s : k \in DOMAIN routes[e] /\ s[k] = routes[e][k]
        BY <4>2, <4>3, WithoutRoutes
      <4>5. \A k \in DOMAIN Without(s) : k \in DOMAIN s /\ Without(s)[k] = s[k]
        BY WithoutRoutes
      <4> QED BY <4>1, <4>3, <4>4, <4>5 DEF Shrinks
    <3> QED BY <2>4, <3>1, <3>2, <3>3, <3>4, <3>5, <3>6 DEF User
  <2>5. CASE Rebuild(d)
    BY <1>1, <2>5 DEF Rebuild
  <2>6. CASE Restart(d)
    <3>1. routes'[e] = IF e = d THEN <<Route("dashboard", 0)>> ELSE routes[e]
      BY <2>6 DEF Restart, DiaryInv, DiaryType
    <3> QED BY <1>1, <3>1
  <2>7. CASE \E i \in Diaries : \E v \in DOMAIN hist[i] : Snapshot(d, i, v)
    BY <1>1, <2>7 DEF Snapshot, ui
  <2>8. CASE \E n \in 1..MaxScreens : Unmount(d, n)
    BY <1>1, <2>8 DEF Unmount
  <2> QED BY <2>1, <2>2, <2>3, <2>4, <2>5, <2>6, <2>7, <2>8
<1> QED BY <1>2, <1>3

\* The top route is in its place.
LEMMA TopPlace ==
  ASSUME DiaryInv, StacksKept, NEW d \in Devices, Top(d) # "none"
  PROVE  /\ routes[d] \in Seq(Routes) /\ Len(routes[d]) \in DOMAIN routes[d]
         /\ Len(routes[d]) = Place(Top(d)) /\ routes[d][Len(routes[d])].name = Top(d)
<1>1. routes[d] \in Seq(Routes)
  BY DEF DiaryInv, DiaryType
<1>2. Len(routes[d]) \in DOMAIN routes[d] /\ routes[d][Len(routes[d])].name = Top(d)
  BY TopRoute DEF DiaryInv
<1> QED BY <1>1, <1>2 DEF StacksKept

\* What is opened takes the place above the others.
LEMMA PushPlaces ==
  ASSUME DiaryInv, StacksKept, NEW e \in Devices, NEW r, NEW n \in Nat, n = Len(routes[e]),
         routes'[e] = Append(routes[e], r), Place(r.name) = n + 1, r.name = "dialog" => Editing(e)
  PROVE  /\ \A k \in DOMAIN routes'[e] :
              k = Place(routes'[e][k].name) /\ (routes'[e][k].name = "dialog" => Editing(e)')
         /\ r.name # "editor" => (Editing(e)' => Editing(e))
<1>1. PICK x \in Seq(Routes) : x = routes[e] /\ DOMAIN x = 1..n
  BY DEF DiaryInv, DiaryType
<1>2. PICK y : /\ y = routes'[e] /\ DOMAIN y = 1..(n + 1) /\ y[n + 1] = r
               /\ \A k \in 1..n : k \in DOMAIN x /\ y[k] = x[k]
  <2>1. /\ DOMAIN Append(x, r) = 1..(n + 1) /\ Append(x, r)[n + 1] = r
        /\ \A k \in 1..n : k \in DOMAIN x /\ Append(x, r)[k] = x[k]
    BY <1>1
  <2> QED BY <1>1, <2>1
<1>3. \A k \in 1..(n + 1) : k = n + 1 \/ k \in 1..n
  OBVIOUS
<1>4. Editing(e) => Editing(e)'
  <2>1. \A k \in 1..n : k \in 1..(n + 1)
    OBVIOUS
  <2> QED BY <1>1, <1>2, <2>1 DEF Editing
<1>5. ASSUME NEW k \in 1..(n + 1)
      PROVE  k = Place(y[k].name) /\ (y[k].name = "dialog" => Editing(e)')
  <2>1. CASE k = n + 1
    BY <1>2, <1>4, <2>1
  <2>2. CASE k \in 1..n
    BY <1>1, <1>2, <1>4, <2>2 DEF StacksKept
  <2> QED BY <1>3, <2>1, <2>2
<1>6. ASSUME r.name # "editor", Editing(e)' PROVE Editing(e)
  <2>1. 2 \in 1..(n + 1) /\ y[2].name = "editor"
    BY <1>2, <1>6 DEF Editing
  <2>2. 2 \in 1..n
    BY <1>2, <1>3, <1>6, <2>1
  <2> QED BY <1>1, <1>2, <2>1, <2>2 DEF Editing
<1> QED BY <1>2, <1>5, <1>6

\* Routes keep their places, and an editor is on a stack if it was, or is
\* opened.
LEMMA StacksNext ==
  ASSUME DiaryInv, DiaryInv', StacksKept, [Next]_vars
  PROVE  /\ StacksKept'
         /\ \A e \in Devices : Editing(e)' => Editing(e) \/ \E i \in Diaries : OpenEditor(e, i)
<1>1. ASSUME NEW e \in Devices
      PROVE  /\ \A k \in DOMAIN routes'[e] :
                  k = Place(routes'[e][k].name) /\ (routes'[e][k].name = "dialog" => Editing(e)')
             /\ Editing(e)' => Editing(e) \/ \E i \in Diaries : OpenEditor(e, i)
  <2>1. CASE Shrinks(e)
    <3>1. PICK n \in Nat : DOMAIN routes'[e] = 1..n
      BY DEF DiaryInv, DiaryType
    <3>2. ASSUME NEW k \in DOMAIN routes'[e], routes'[e][k].name = "dialog" PROVE Editing(e)'
      <4>1. k = 3 /\ Editing(e)
        BY <2>1, <3>2 DEF Shrinks, StacksKept, Place
      <4>2. 2 \in DOMAIN routes'[e]
        BY <3>1, <3>2, <4>1
      <4> QED BY <2>1, <4>1, <4>2 DEF Shrinks, Editing
    <3> QED BY <2>1, <3>2 DEF Shrinks, StacksKept, Editing
  <2>2. CASE routes'[e] = <<Route("dashboard", 0)>>
    <3>1. PICK r : r = Route("dashboard", 0)
      OBVIOUS
    <3>2. r.name = "dashboard"
      BY <3>1 DEF Route
    <3>3. DOMAIN routes'[e] = {1} /\ routes'[e][1] = r
      BY <2>2, <3>1
    <3> QED BY <3>2, <3>3 DEF Place, Editing
  <2>3. ASSUME NEW m, Top(e) = "dashboard", routes'[e] = Append(routes[e], Route("creator", m))
        PROVE  /\ \A k \in DOMAIN routes'[e] :
                    k = Place(routes'[e][k].name) /\ (routes'[e][k].name = "dialog" => Editing(e)')
               /\ Editing(e)' => Editing(e)
    <3>1. Len(routes[e]) = 1
      BY <2>3, TopPlace DEF Place
    <3>2. PICK r : r = Route("creator", m)
      OBVIOUS
    <3>3. Place(r.name) = 1 + 1 /\ r.name = "creator"
      BY <3>2 DEF Route, Place
    <3> QED BY <2>3, <3>1, <3>2, <3>3, PushPlaces
  <2>4. ASSUME Top(e) = "dashboard", routes'[e] = Append(routes[e], Route("editor", 0))
        PROVE  \A k \in DOMAIN routes'[e] :
                 k = Place(routes'[e][k].name) /\ (routes'[e][k].name = "dialog" => Editing(e)')
    <3>1. Len(routes[e]) = 1
      BY <2>4, TopPlace DEF Place
    <3>2. PICK r : r = Route("editor", 0)
      OBVIOUS
    <3>3. Place(r.name) = 1 + 1 /\ r.name = "editor"
      BY <3>2 DEF Route, Place
    <3> QED BY <2>4, <3>1, <3>2, <3>3, PushPlaces
  <2>5. ASSUME Top(e) = "editor", routes'[e] = Append(routes[e], Route("dialog", 0))
        PROVE  /\ \A k \in DOMAIN routes'[e] :
                    k = Place(routes'[e][k].name) /\ (routes'[e][k].name = "dialog" => Editing(e)')
               /\ Editing(e)' => Editing(e)
    <3>1. Len(routes[e]) = 2 /\ Editing(e)
      BY <2>5, TopPlace DEF Place, Editing
    <3>2. PICK r : r = Route("dialog", 0)
      OBVIOUS
    <3>3. Place(r.name) = 2 + 1 /\ r.name = "dialog"
      BY <3>2 DEF Route, Place
    <3> QED BY <2>5, <3>1, <3>2, <3>3, PushPlaces
  <2> QED BY <2>1, <2>2, <2>3, <2>4, <2>5, RouteSteps
<1> QED BY <1>1 DEF StacksKept

\* A stack without its top.
LEMMA ShorterStack ==
  ASSUME NEW x \in Seq(Routes), NEW n \in Nat, Len(x) = n + 1
  PROVE  Without(x) \in Seq(Routes) /\ Len(Without(x)) = n
<1>1. x # <<>>
  BY SMT
<1>2. Without(x) \in Seq(Routes) /\ Len(Without(x)) = Len(x) - 1
  BY <1>1, WithoutRoutes
<1>3. (n + 1) - 1 = n
  OBVIOUS
<1> QED BY <1>2, <1>3

\* The screens that write leave no editor behind.
LEMMA WritersLeave ==
  ASSUME DiaryInv, StacksKept, NEW d \in Devices, SaveNew(d) \/ ArrowBack(d) \/ ConfirmDelete(d)
  PROVE  ~Editing(d)'
<1>1. routes[d] \in Seq(Routes)
  BY DEF DiaryInv, DiaryType
<1>2. CASE SaveNew(d)
  <2>1. Top(d) = "creator" /\ routes' = routes
    BY <1>2 DEF SaveNew, ui
  <2>2. routes[d][2].name = "creator"
    BY <2>1, TopPlace DEF Place
  <2> QED BY <2>1, <2>2 DEF Editing
<1>3. CASE ArrowBack(d)
  <2>1. Top(d) = "editor" /\ routes'[d] = Without(routes[d])
    BY <1>3 DEF ArrowBack, Pop, DiaryInv, DiaryType
  <2>2. PICK x \in Seq(Routes) : x = routes[d] /\ Len(x) = 2
    BY <2>1, TopPlace DEF Place
  <2>3. PICK s \in Seq(Routes) : s = Without(x) /\ Len(s) = 1
    <3>1. Len(x) = 1 + 1
      BY <2>2
    <3> QED BY <3>1, ShorterStack
  <2>4. 2 \notin DOMAIN s
    BY <2>3
  <2> QED BY <2>1, <2>2, <2>3, <2>4 DEF Editing
<1>4. CASE ConfirmDelete(d)
  <2>1. Top(d) = "dialog" /\ routes'[d] = Without(Without(routes[d]))
    BY <1>4 DEF ConfirmDelete, DiaryInv, DiaryType
  <2>2. PICK x \in Seq(Routes) : x = routes[d] /\ Len(x) = 3
    BY <2>1, TopPlace DEF Place
  <2>3. PICK s \in Seq(Routes) : s = Without(x) /\ Len(s) = 2
    <3>1. Len(x) = 2 + 1
      BY <2>2
    <3> QED BY <3>1, ShorterStack
  <2>4. PICK t \in Seq(Routes) : t = Without(s) /\ Len(t) = 1
    <3>1. Len(s) = 1 + 1
      BY <2>3
    <3> QED BY <3>1, ShorterStack
  <2>5. 2 \notin DOMAIN t
    BY <2>4
  <2> QED BY <2>1, <2>2, <2>3, <2>4, <2>5 DEF Editing
<1> QED BY <1>2, <1>3, <1>4

-----------------------------------------------------------------------------
(***************************************************************************)
(* What a step does to the SDK's part of a device                          *)
(***************************************************************************)
\* A screen queues a write.
Writes(d, o) ==
  \/ SaveNew(d) /\ o = Op("add", created', typed', routes[d][Len(routes[d])].screen)
  \/ ArrowBack(d) /\ o = Op("update", editor[d].id, editor[d].text, 0)
  \/ ConfirmDelete(d) /\ o = Op("delete", editor[d].id, Deleted, 0)

\* Nothing is written, applied, answered or known.
Quiet ==
  /\ UNCHANGED <<hist, cache, queue, writers, created>>
  /\ \A e \in Devices : sent'[e] = sent[e] \/ sent'[e] = <<>>
  /\ typed' = typed \/ typed' = typed + 1

\* The server, the listener and the answers: the screens have no part in it.
Syncs(d) ==
  /\ ServerApplies(d) \/ Answer(d) \/ Reject(d) \/ \E i \in Diaries, v \in Nat : Snapshot(d, i, v)
  /\ UNCHANGED <<writers, editor, created, typed>>

LEMMA Kinds ==
  ASSUME DiaryInv, [Next]_vars
  PROVE  \/ Quiet
         \/ \E d \in Devices : Syncs(d)
         \/ \E d \in Devices : \E o : Writes(d, o)
<1>1. CASE UNCHANGED vars
  BY <1>1 DEF vars, sdk, Quiet
<1>2. CASE Next
  <2>1. PICK d \in Devices :
          \/ Answers(d) \/ AnswersLost(d) \/ User(d) \/ Rebuild(d) \/ Restart(d)
          \/ \E i \in Diaries : \E v \in DOMAIN hist[i] : Snapshot(d, i, v)
          \/ \E n \in 1..MaxScreens : Unmount(d, n)
    BY <1>2 DEF Next
  <2>2. CASE Answers(d)
    <3>1. ServerApplies(d) \/ Answer(d) \/ Reject(d)
      BY <2>2 DEF Answers
    <3>2. UNCHANGED <<writers, editor, created, typed>>
      BY <3>1 DEF ServerApplies, Answer, Reject, ui
    <3> QED BY <3>1, <3>2 DEF Syncs
  <2>3. CASE AnswersLost(d) \/ Restart(d)
    <3>1. \A e \in Devices : sent'[e] = sent[e] \/ sent'[e] = <<>>
      BY <2>3 DEF AnswersLost, Restart, DiaryInv, DiaryType
    <3>2. UNCHANGED <<hist, cache, queue, writers, created, typed>>
      BY <2>3 DEF AnswersLost, Restart
    <3> QED BY <3>1, <3>2 DEF Quiet
  <2>4. CASE User(d)
    <3>1. CASE SaveNew(d) \/ ArrowBack(d) \/ ConfirmDelete(d)
      BY <3>1 DEF Writes
    <3>2. CASE OpenCreator(d) \/ LeaveCreator(d) \/ SystemBack(d) \/ AskDelete(d) \/ CancelDelete(d)
      BY <3>2 DEF OpenCreator, LeaveCreator, SystemBack, AskDelete, CancelDelete, sdk, Quiet
    <3>3. CASE Type(d)
      BY <3>3 DEF Type, sdk, Quiet
    <3>4. CASE \E i \in Diaries : OpenEditor(d, i)
      BY <3>4 DEF OpenEditor, sdk, Quiet
    <3> QED BY <2>4, <3>1, <3>2, <3>3, <3>4 DEF User
  <2>5. CASE Rebuild(d)
    BY <2>5 DEF Rebuild, sdk, Quiet
  <2>6. ASSUME NEW i \in Diaries, NEW v \in DOMAIN hist[i], Snapshot(d, i, v)
        PROVE  Syncs(d)
    <3>1. v \in Nat
      BY DEF DiaryInv, DiaryType
    <3> QED BY <2>6, <3>1 DEF Syncs, Snapshot, ui
  <2>7. CASE \E n \in 1..MaxScreens : Unmount(d, n)
    BY <2>7 DEF Unmount, sdk, Quiet
  <2> QED BY <2>1, <2>2, <2>3, <2>4, <2>5, <2>6, <2>7
<1> QED BY <1>1, <1>2

\* What a screen writes.
LEMMA WriteOps ==
  ASSUME DiaryInv, StacksKept, TextsTyped, NEW d \in Devices, NEW o, Writes(d, o)
  PROVE  /\ o \in Ops /\ Enqueue(d, o) /\ d \in writers'[o.id]
         /\ IF o.op = "delete" THEN o.text = Deleted ELSE o.text \in 1..typed'
         /\ o.id <= created' /\ created <= created' /\ typed <= typed'
<1>1. CASE SaveNew(d) /\ o = Op("add", created', typed', routes[d][Len(routes[d])].screen)
  <2>1. /\ Top(d) = "creator" /\ created < MaxDiaries /\ typed < MaxTexts
        /\ created' = created + 1 /\ typed' = typed + 1 /\ Enqueue(d, o)
    BY <1>1 DEF SaveNew
  <2>2. routes[d][Len(routes[d])].screen \in 0..opened
    BY <2>1, TopRoute DEF DiaryInv
  <2>3. PICK n : n = routes[d][Len(routes[d])].screen
    OBVIOUS
  <2>4. n \in 0..MaxScreens
    BY <2>2, <2>3, BoundsAssumption DEF DiaryInv, DiaryType
  <2>5. PICK a, b \in Nat : a = created' /\ b = typed' /\ a = created + 1 /\ b = typed + 1
    BY <2>1 DEF DiaryInv, DiaryType
  <2>6. /\ created \in Nat /\ typed \in Nat /\ a \in Diaries /\ b \in Texts /\ b \in 1..b
        /\ a <= a /\ created <= a /\ typed <= b
    BY <2>1, <2>5, BoundsAssumption DEF DiaryInv, DiaryType, Diaries, Texts
  <2>7. o.op = "add" /\ o.id = a /\ o.text = b /\ o.creator = n /\ o \in Ops
    BY <1>1, <2>3, <2>4, <2>5, <2>6, Numbers DEF Op, Ops
  <2> QED BY <2>1, <2>5, <2>6, <2>7 DEF Enqueue, DiaryInv, DiaryType
<1>2. CASE \/ ArrowBack(d) /\ o = Op("update", editor[d].id, editor[d].text, 0)
           \/ ConfirmDelete(d) /\ o = Op("delete", editor[d].id, Deleted, 0)
  <2>1. Enqueue(d, o) /\ created' = created /\ typed' = typed
    BY <1>2 DEF ArrowBack, ConfirmDelete
  <2>2. Editing(d)
    <3>1. CASE ArrowBack(d)
      <4>1. Top(d) = "editor"
        BY <3>1 DEF ArrowBack
      <4> QED BY <4>1, TopPlace DEF Place, Editing
    <3>2. CASE ConfirmDelete(d)
      <4>1. Top(d) = "dialog"
        BY <3>2 DEF ConfirmDelete
      <4> QED BY <4>1, TopPlace DEF StacksKept
    <3> QED BY <1>2, <3>1, <3>2
  <2>3. editor[d].text \in 1..typed /\ editor[d].id <= created /\ editor[d].id \in Diaries
    BY <2>2 DEF TextsTyped, DiaryInv, DiaryType
  <2>4. created \in Nat /\ typed \in Nat /\ 1..typed \subseteq Contents /\ 0 \in 0..MaxScreens
    BY BoundsAssumption DEF DiaryInv, DiaryType, Contents, Texts
  <2>5. o \in Ops
    BY <1>2, <2>3, <2>4, Numbers DEF Op, Ops
  <2>6. /\ IF o.op = "delete" THEN o.text = Deleted ELSE o.text \in 1..typed
        /\ o.id <= created
    BY <1>2, <2>3 DEF Op
  <2>7. d \in writers'[o.id]
    <3>1. o.id \in Diaries
      BY <2>5 DEF Ops
    <3> QED BY <2>1, <3>1 DEF Enqueue, DiaryInv, DiaryType
  <2> QED BY <2>1, <2>4, <2>5, <2>6, <2>7
<1> QED BY <1>1, <1>2 DEF Writes

\* The counters only go up, and writers only become more.
LEMMA Grows ==
  ASSUME DiaryInv, DiaryInv', StacksKept, TextsTyped, [Next]_vars
  PROVE  /\ typed \in Nat /\ typed' \in Nat /\ typed <= typed' /\ typed' <= MaxTexts
         /\ created \in Nat /\ created' \in Nat /\ created <= created'
         /\ \A i \in Diaries : writers[i] \subseteq writers'[i]
<1>1. /\ typed \in Nat /\ typed' \in Nat /\ typed' <= MaxTexts
      /\ created \in Nat /\ created' \in Nat
  BY BoundsAssumption DEF DiaryInv, DiaryType
<1>2. CASE Quiet
  BY <1>1, <1>2 DEF Quiet
<1>3. CASE \E d \in Devices : Syncs(d)
  BY <1>1, <1>3 DEF Syncs
<1>4. ASSUME NEW d \in Devices, NEW o, Writes(d, o)
      PROVE  /\ typed <= typed' /\ created <= created'
             /\ \A i \in Diaries : writers[i] \subseteq writers'[i]
  <2>1. Enqueue(d, o) /\ typed <= typed' /\ created <= created' /\ o \in Ops
    BY <1>4, WriteOps
  <2>2. \A i \in Diaries : writers[i] \subseteq writers'[i]
    BY <2>1 DEF Enqueue, DiaryInv, DiaryType
  <2> QED BY <2>1, <2>2
<1> QED BY <1>1, <1>2, <1>3, <1>4, Kinds

\* What is shown was typed, or is nothing; of a diary to come it is nothing.
LEMMA ViewKnown ==
  ASSUME DiaryInv, TextsTyped, NEW d \in Devices, NEW i \in Diaries
  PROVE  /\ View(d, i) \in (0..typed) \cup {Deleted}
         /\ i > created => View(d, i) = None
         /\ Exists(View(d, i)) => View(d, i) \in 1..typed /\ i <= created
<1>1. PICK q \in Seq(Ops) : q = queue[d]
  BY Ranges
<1>2. PICK c : c = hist[i][cache[d][i]]
  OBVIOUS
<1>3. View(d, i) = Overlaid(q, i, c)
  BY <1>1, <1>2, ViewIs
<1>4. c \in (0..typed) \cup {Deleted} /\ (i > created => c = None)
  <2>1. cache[d][i] \in DOMAIN hist[i]
    BY Ranges
  <2> QED BY <1>2, <2>1 DEF TextsTyped
<1>5. PICK S : S = (0..typed) \cup {Deleted}
  OBVIOUS
<1>6. View(d, i) \in S
  <2>1. c \in S /\ Deleted \in S /\ 1..typed \subseteq S
    BY <1>4, <1>5
  <2>2. \A k \in DOMAIN q : q[k].text \in S
    BY <1>1, <2>1 DEF TextsTyped
  <2> QED BY <1>3, <2>1, <2>2, OverlaidIn
<1>7. ASSUME i > created PROVE View(d, i) = None
  <2>1. \A k \in DOMAIN q : q[k].id <= created
    BY <1>1 DEF TextsTyped
  <2>2. \A k \in DOMAIN q : q[k].id # i
    BY <1>7, <2>1 DEF DiaryInv, DiaryType, Diaries
  <2> QED BY <1>3, <1>4, <1>7, <2>2, OverlaidOthers
<1>8. ASSUME Exists(View(d, i)) PROVE View(d, i) \in 1..typed /\ i <= created
  <2>1. typed \in Nat /\ created \in Nat /\ i \in Nat /\ MaxTexts \in Nat
    BY BoundsAssumption DEF DiaryInv, DiaryType, Diaries
  <2>2. View(d, i) \in Texts /\ View(d, i) # None
    BY <1>8, Numbers DEF Exists
  <2>3. View(d, i) \in 0..typed /\ View(d, i) # 0
    BY <1>5, <1>6, <2>2, Numbers DEF None
  <2>4. ~(i > created)
    BY <1>7, <2>2
  <2> QED BY <2>1, <2>3, <2>4
<1> QED BY <1>5, <1>6, <1>7, <1>8

\* What a step does to an editor.
LEMMA EditorSteps ==
  ASSUME DiaryInv, [Next]_vars, NEW e \in Devices
  PROVE  \/ editor'[e] = editor[e]
         \/ \E i \in Diaries : OpenEditor(e, i)
         \/ /\ editor'[e] = [editor[e] EXCEPT !.text = typed'] /\ typed' = typed + 1
            /\ UNCHANGED <<sdk, routes>>
         \/ editor'[e] = [editor[e] EXCEPT !.text = editor[e].doc] /\ UNCHANGED <<sdk, routes>>
<1>1. CASE UNCHANGED vars
  BY <1>1 DEF vars, ui
<1>2. CASE Next
  <2>1. PICK d \in Devices :
          \/ Answers(d) \/ AnswersLost(d) \/ User(d) \/ Rebuild(d) \/ Restart(d)
          \/ \E i \in Diaries : \E v \in DOMAIN hist[i] : Snapshot(d, i, v)
          \/ \E n \in 1..MaxScreens : Unmount(d, n)
    BY <1>2 DEF Next
  <2>2. CASE \/ Answers(d) \/ AnswersLost(d) \/ Restart(d)
             \/ \E i \in Diaries : \E v \in DOMAIN hist[i] : Snapshot(d, i, v)
             \/ \E n \in 1..MaxScreens : Unmount(d, n)
    BY <2>2 DEF Answers, ServerApplies, Answer, Reject, AnswersLost, Restart, Snapshot, Unmount, ui
  <2>3. CASE User(d)
    <3>1. CASE \/ OpenCreator(d) \/ SaveNew(d) \/ LeaveCreator(d) \/ ArrowBack(d) \/ SystemBack(d)
               \/ AskDelete(d) \/ CancelDelete(d) \/ ConfirmDelete(d)
      BY <3>1 DEF OpenCreator, SaveNew, LeaveCreator, ArrowBack, SystemBack, AskDelete,
                  CancelDelete, ConfirmDelete, ui
    <3>2. ASSUME NEW i \in Diaries, OpenEditor(d, i)
          PROVE  editor'[e] = editor[e] \/ OpenEditor(e, i)
      <4>1. e # d => editor'[e] = editor[e]
        BY <3>2 DEF OpenEditor, DiaryInv, DiaryType
      <4> QED BY <3>2, <4>1
    <3>3. CASE Type(d)
      <4>1. /\ typed' = typed + 1 /\ UNCHANGED <<sdk, routes>>
            /\ editor' = [editor EXCEPT ![d].text = typed']
        BY <3>3 DEF Type
      <4>2. editor'[e] = IF e = d THEN [editor[e] EXCEPT !.text = typed'] ELSE editor[e]
        BY <4>1 DEF DiaryInv, DiaryType
      <4> QED BY <4>1, <4>2
    <3> QED BY <2>3, <3>1, <3>2, <3>3 DEF User
  <2>4. CASE Rebuild(d)
    <3>1. /\ UNCHANGED <<sdk, routes>>
          /\ editor' = [editor EXCEPT ![d].text = editor[d].doc]
      BY <2>4 DEF Rebuild
    <3>2. editor'[e] = IF e = d THEN [editor[e] EXCEPT !.text = editor[e].doc] ELSE editor[e]
      BY <3>1 DEF DiaryInv, DiaryType
    <3> QED BY <3>1, <3>2
  <2> QED BY <2>1, <2>2, <2>3, <2>4
<1> QED BY <1>1, <1>2

\* Queues lose their first write, or have a new one, or stay.
LEMMA QueueSteps ==
  ASSUME DiaryInv, StacksKept, TextsTyped, [Next]_vars, NEW e \in Devices
  PROVE  \/ queue'[e] = queue[e]
         \/ queue[e] # <<>> /\ queue'[e] = Tail(queue[e])
         \/ \E o : Writes(e, o) /\ queue'[e] = Append(queue[e], o)
<1>1. CASE Quiet
  BY <1>1 DEF Quiet
<1>2. ASSUME NEW d \in Devices, Syncs(d)
      PROVE  queue'[e] = queue[e] \/ (queue[e] # <<>> /\ queue'[e] = Tail(queue[e]))
  <2>1. CASE ServerApplies(d) \/ \E i \in Diaries, v \in Nat : Snapshot(d, i, v)
    BY <2>1 DEF ServerApplies, Snapshot
  <2>2. CASE Answer(d) \/ Reject(d)
    <3>1. queue' = [queue EXCEPT ![d] = Tail(@)]
      BY <2>2 DEF Answer, Reject
    <3>2. queue[d] # <<>>
      <4>1. CASE Answer(d)
        <5>1. PICK q \in Seq(Ops) : q = queue[d]
          BY Numbers, Ranges
        <5>2. PICK s \in Seq(Nat) : s = sent[d] /\ s # <<>> /\ Len(s) <= Len(q)
          <6>1. sent[d] # <<>>
            BY <4>1 DEF Answer
          <6> QED BY <5>1, <6>1, Numbers, Ranges
        <5>3. q # <<>>
          BY <5>2
        <5> QED BY <5>1, <5>3
      <4>2. CASE Reject(d)
        BY <4>2 DEF Reject
      <4> QED BY <2>2, <4>1, <4>2
    <3> QED BY <3>1, <3>2 DEF DiaryInv, DiaryType
  <2> QED BY <1>2, <2>1, <2>2 DEF Syncs
<1>3. ASSUME NEW d \in Devices, NEW o, Writes(d, o)
      PROVE  queue'[e] = queue[e] \/ (Writes(e, o) /\ queue'[e] = Append(queue[e], o))
  <2>1. Enqueue(d, o)
    BY <1>3, WriteOps
  <2>2. queue'[e] = IF e = d THEN Append(queue[e], o) ELSE queue[e]
    BY <2>1 DEF Enqueue, DiaryInv, DiaryType
  <2> QED BY <1>3, <2>2
<1> QED BY <1>1, <1>2, <1>3, Kinds

\* Versions of documents are made of texts that were typed, and of diaries
\* that were made.
LEMMA VersionsTyped ==
  ASSUME DiaryInv, DiaryInv', StacksKept, TextsTyped, [Next]_vars, NEW i \in Diaries
  PROVE  \A v \in DOMAIN hist'[i] :
           hist'[i][v] \in (0..typed') \cup {Deleted} /\ (i > created' => hist'[i][v] = None)
<1>1. PICK S : S = (0..typed) \cup {Deleted}
  OBVIOUS
<1>2. /\ S \subseteq (0..typed') \cup {Deleted} /\ Deleted \in S /\ 1..typed \subseteq S
      /\ i > created' => i > created
  BY <1>1, Grows DEF Diaries
<1>3. \A v \in DOMAIN hist[i] : hist[i][v] \in S /\ (i > created => hist[i][v] = None)
  BY <1>1 DEF TextsTyped
<1>4. CASE hist' = hist
  BY <1>2, <1>3, <1>4
<1>5. CASE hist' # hist
  <2>1. PICK d \in Devices : ServerApplies(d)
    <3>1. Next
      BY <1>5 DEF vars, sdk
    <3> QED BY <1>5, <3>1, OnlyTheServer
  <2>2. PICK q \in Seq(Ops) : q = queue[d]
    BY Ranges
  <2>3. PICK k : k = Len(sent[d]) + 1
    OBVIOUS
  <2>4. k \in DOMAIN q
    BY <2>1, <2>2, <2>3, Ranges DEF ServerApplies
  <2>5. PICK o \in Ops : o = q[k]
    BY <2>4
  <2>6. PICK c : c = ApplyOp(o, Content(o.id))
    OBVIOUS
  <2>7. hist' = [hist EXCEPT ![o.id] = Append(@, c)]
    BY <2>1, <2>2, <2>3, <2>5, <2>6 DEF ServerApplies
  <2>8. CASE o.id # i
    <3>1. hist'[i] = hist[i]
      BY <2>7, <2>8 DEF DiaryInv, DiaryType
    <3> QED BY <1>2, <1>3, <3>1
  <2>9. CASE o.id = i
    <3>1. PICK h \in Seq(Contents) : h = hist[i] /\ Len(h) \in DOMAIN h
      BY Ranges
    <3>2. hist'[i] = Append(h, c)
      BY <2>7, <2>9, <3>1 DEF DiaryInv, DiaryType
    <3>3. o.text \in S /\ o.id <= created
      BY <1>2, <2>2, <2>4, <2>5 DEF TextsTyped
    <3>4. c \in S
      BY <1>2, <1>3, <2>6, <2>9, <3>1, <3>3 DEF Content, ApplyOp
    <3>5. ~(i > created)
      BY <2>9, <3>3, Grows DEF Diaries
    <3>6. \A v \in DOMAIN Append(h, c) : Append(h, c)[v] = c \/ (v \in DOMAIN h /\ Append(h, c)[v] = h[v])
      OBVIOUS
    <3> QED BY <1>2, <1>3, <3>1, <3>2, <3>4, <3>5, <3>6
  <2> QED BY <2>8, <2>9
<1> QED BY <1>4, <1>5

\* So are the texts that are queued.
LEMMA QueuesTyped ==
  ASSUME DiaryInv, DiaryInv', StacksKept, TextsTyped, [Next]_vars, NEW e \in Devices,
         NEW k \in DOMAIN queue'[e]
  PROVE  LET o == queue'[e][k] IN
         /\ IF o.op = "delete" THEN o.text = Deleted ELSE o.text \in 1..typed'
         /\ o.id <= created' /\ e \in writers'[o.id]
<1> DEFINE Known(o) == /\ IF o.op = "delete" THEN o.text = Deleted ELSE o.text \in 1..typed'
                       /\ o.id <= created' /\ e \in writers'[o.id]
<1>1. PICK q \in Seq(Ops) : q = queue[e]
  BY Numbers, Ranges
<1>2. ASSUME NEW n \in DOMAIN q PROVE Known(q[n])
  <2>1. PICK o \in Ops : o = q[n]
    OBVIOUS
  <2>2. /\ IF o.op = "delete" THEN o.text = Deleted ELSE o.text \in 1..typed
        /\ o.id <= created /\ e \in writers[o.id]
    BY <1>1, <2>1 DEF TextsTyped
  <2>3. o.id \in Diaries /\ o.id \in Nat
    BY DEF Ops, Diaries
  <2>4. 1..typed \subseteq 1..typed' /\ o.id <= created' /\ writers[o.id] \subseteq writers'[o.id]
    BY <2>2, <2>3, Grows
  <2> QED BY <2>1, <2>2, <2>4
<1>3. CASE queue'[e] = queue[e]
  BY <1>1, <1>2, <1>3
<1>4. CASE queue[e] # <<>> /\ queue'[e] = Tail(queue[e])
  <2>1. \A n \in DOMAIN Tail(q) : n + 1 \in DOMAIN q /\ Tail(q)[n] = q[n + 1]
    BY <1>1, <1>4
  <2> HIDE DEF Known
  <2>2. Known(queue'[e][k])
    BY <1>1, <1>2, <1>4, <2>1
  <2> QED BY <2>2 DEF Known
<1>5. ASSUME NEW o, Writes(e, o), queue'[e] = Append(queue[e], o) PROVE Known(queue'[e][k])
  <2>1. Known(o) /\ o \in Ops
    BY <1>5, WriteOps
  <2>2. \A n \in DOMAIN Append(q, o) : Append(q, o)[n] = o \/ (n \in DOMAIN q /\ Append(q, o)[n] = q[n])
    BY <2>1
  <2> HIDE DEF Known
  <2> QED BY <1>1, <1>2, <1>5, <2>1, <2>2
<1> QED BY <1>3, <1>4, <1>5, QueueSteps

\* And what an editor holds.
LEMMA EditorsTyped ==
  ASSUME DiaryInv, DiaryInv', StacksKept, TextsTyped, [Next]_vars, NEW e \in Devices, Editing(e)'
  PROVE  editor'[e].doc \in 1..typed' /\ editor'[e].text \in 1..typed' /\ editor'[e].id <= created'
<1>1. editor[e] \in [id : Diaries, doc : Contents, text : Contents] /\ Diaries \subseteq Nat
  BY DEF DiaryInv, DiaryType, Diaries
<1>2. 1..typed \subseteq 1..typed' /\ \A n \in Nat : n <= created => n <= created'
  BY Grows
<1>3. ASSUME NEW i \in Diaries, OpenEditor(e, i)
      PROVE  editor'[e].doc \in 1..typed' /\ editor'[e].text \in 1..typed' /\ editor'[e].id <= created'
  <2>1. Exists(View(e, i)) /\ editor' = [editor EXCEPT ![e] = [id |-> i, doc |-> View(e, i), text |-> View(e, i)]]
    BY <1>3 DEF OpenEditor
  <2>2. PICK c : c = View(e, i)
    OBVIOUS
  <2>3. editor'[e] = [id |-> i, doc |-> c, text |-> c]
    BY <2>1, <2>2 DEF DiaryInv, DiaryType
  <2>4. c \in 1..typed /\ i <= created
    BY <2>1, <2>2, ViewKnown
  <2> QED BY <1>1, <1>2, <2>3, <2>4
<1>4. CASE ~\E i \in Diaries : OpenEditor(e, i)
  <2>1. Editing(e)
    BY <1>4, StacksNext
  <2>2. editor[e].doc \in 1..typed /\ editor[e].text \in 1..typed /\ editor[e].id <= created
    BY <2>1 DEF TextsTyped
  <2>3. editor'[e].doc = editor[e].doc /\ editor'[e].id = editor[e].id
    BY <1>1, <1>4, EditorSteps
  <2>4. \/ editor'[e].text \in {editor[e].text, editor[e].doc}
        \/ editor'[e].text = typed' /\ typed' = typed + 1
    BY <1>1, <1>4, EditorSteps
  <2>5. editor'[e].text \in 1..typed'
    BY <1>2, <2>2, <2>4, Grows
  <2> QED BY <1>1, <1>2, <2>2, <2>3, <2>5
<1> QED BY <1>3, <1>4

LEMMA TextsNext ==
  ASSUME DiaryInv, DiaryInv', StacksKept, TextsTyped, [Next]_vars
  PROVE  TextsTyped'
BY VersionsTyped, QueuesTyped, EditorsTyped DEF TextsTyped

-----------------------------------------------------------------------------
(***************************************************************************)
(* Every step                                                              *)
(***************************************************************************)
\* The view of the one device that writes a diary changes with a write only,
\* and is settled and covered as before.
LEMMA ViewSteps ==
  ASSUME DiaryInv, DiaryInv', StacksKept, TextsTyped, ViewsSettled, SentLast, [Next]_vars,
         NEW e \in Devices, NEW i \in Diaries, Sole(e, i)'
  PROVE  /\ Sole(e, i) /\ Settled(e, i)' /\ SentOf(e, i)'
         /\ View(e, i)' = View(e, i) \/ \E o : Writes(e, o) /\ View(e, i)' = Stepped(o, i, View(e, i))
<1>1. Sole(e, i)
  BY Grows DEF Sole
<1>2. Settled(e, i) /\ SentOf(e, i)
  BY <1>1 DEF ViewsSettled, SentLast
<1>3. CASE Quiet
  <2>1. /\ UNCHANGED <<hist, cache, queue>>
        /\ sent'[e] = sent[e] \/ sent'[e] = <<>>
    BY <1>3 DEF Quiet
  <2>2. hist'[i] = hist[i] /\ cache'[e][i] = cache[e][i] /\ queue'[e] = queue[e]
    BY <2>1
  <2>3. Settled(e, i)' /\ View(e, i)' = View(e, i)
    BY <1>2, <2>2, SameSettles
  <2>4. SentOf(e, i)'
    BY <1>2, <2>1, <2>2, SentSame
  <2> QED BY <1>1, <2>3, <2>4
<1>4. ASSUME NEW d \in Devices, Syncs(d)
      PROVE  Settled(e, i)' /\ SentOf(e, i)' /\ View(e, i)' = View(e, i)
  <2>1. CASE ServerApplies(d)
    BY <1>1, <1>2, <2>1, AppliesSettles, SentApplies
  <2>2. CASE Answer(d)
    BY <1>1, <1>2, <2>2, AnswerSettles, SentAnswer
  <2>3. CASE Reject(d)
    <3>1. Settled(e, i)' /\ View(e, i)' = View(e, i)
      BY <1>2, <2>3, RejectSettles
    <3>2. /\ hist' = hist /\ sent' = sent /\ sent[d] = <<>>
          /\ e # d => queue'[e] = queue[e]
      BY <2>3 DEF Reject, DiaryInv, DiaryType
    <3>3. SentOf(e, i)'
      BY <1>2, <3>2, SentSame
    <3> QED BY <3>1, <3>3
  <2>4. ASSUME NEW j \in Diaries, NEW v \in Nat, Snapshot(d, j, v)
        PROVE  Settled(e, i)' /\ SentOf(e, i)' /\ View(e, i)' = View(e, i)
    <3>1. Settled(e, i)' /\ View(e, i)' = View(e, i)
      BY <1>2, <2>4, SnapshotSettles
    <3>2. UNCHANGED <<hist, sent, queue>>
      BY <2>4 DEF Snapshot
    <3>3. SentOf(e, i)'
      BY <1>2, <3>2, SentSame
    <3> QED BY <3>1, <3>3
  <2> QED BY <1>4, <2>1, <2>2, <2>3, <2>4 DEF Syncs
<1>5. ASSUME NEW d \in Devices, NEW o, Writes(d, o)
      PROVE  /\ Settled(e, i)' /\ SentOf(e, i)'
             /\ \/ View(e, i)' = View(e, i)
                \/ Writes(e, o) /\ View(e, i)' = Stepped(o, i, View(e, i))
  <2>1. o \in Ops /\ Enqueue(d, o)
    BY <1>5, WriteOps
  <2>2. /\ UNCHANGED <<hist, cache, sent>>
        /\ queue'[e] = IF e = d THEN Append(queue[e], o) ELSE queue[e]
    BY <2>1 DEF Enqueue, DiaryInv, DiaryType
  <2>3. SentOf(e, i)'
    <3>1. \A k \in DOMAIN sent[e] : queue'[e][k] = queue[e][k]
      <4>1. PICK q \in Seq(Ops) : q = queue[e]
        BY Ranges
      <4>2. DOMAIN sent[e] \subseteq DOMAIN q
        <5>1. PICK s \in Seq(Nat) : s = sent[e] /\ Len(s) <= Len(q)
          BY <4>1, Ranges
        <5> QED BY <5>1
      <4>3. \A k \in DOMAIN q : Append(q, o)[k] = q[k]
        BY <2>1
      <4> QED BY <2>2, <4>1, <4>2, <4>3
    <3> QED BY <1>2, <2>2, <3>1, SentSame
  <2>4. CASE e = d
    BY <1>2, <1>5, <2>1, <2>3, <2>4, EnqueueSettles
  <2>5. CASE e # d
    <3>1. hist'[i] = hist[i] /\ cache'[e][i] = cache[e][i] /\ queue'[e] = queue[e]
      BY <2>2, <2>5
    <3> QED BY <1>2, <2>3, <3>1, SameSettles
  <2> QED BY <2>4, <2>5
<1> QED BY <1>1, <1>3, <1>4, <1>5, Kinds

\* What an editor holds stays current.
LEMMA EditorsNext ==
  ASSUME ViewInv, DiaryInv', [Next]_vars,
         NEW e \in Devices, NEW i \in Diaries, i = editor'[e].id, 
         Editing(e)', Sole(e, i)', Exists(View(e, i)')
  PROVE  View(e, i)' <= editor'[e].doc /\ View(e, i)' <= editor'[e].text
<1>1. DiaryInv /\ StacksKept /\ TextsTyped /\ ViewsSettled /\ SentLast /\ EditorCurrent
  BY DEF ViewInv
<1>2. CASE \E j \in Diaries : OpenEditor(e, j)
  <2>1. PICK j \in Diaries : OpenEditor(e, j)
    BY <1>2
  <2>2. PICK c : c = View(e, j)
    OBVIOUS
  <2>3. editor'[e] = [id |-> j, doc |-> c, text |-> c] /\ UNCHANGED <<hist, cache, queue>> /\ Exists(c)
    BY <1>1, <2>1, <2>2 DEF OpenEditor, DiaryInv, DiaryType, sdk
  <2>4. j = i /\ View(e, i)' = c
    BY <2>2, <2>3, ViewIs
  <2>5. c <= c
    BY <2>3, BoundsAssumption DEF Exists, Texts
  <2> QED BY <2>3, <2>4, <2>5
<1>3. CASE ~\E j \in Diaries : OpenEditor(e, j)
  <2>1. Editing(e)
    BY <1>1, <1>3, StacksNext
  <2>2. editor[e] \in [id : Diaries, doc : Contents, text : Contents]
    BY <1>1 DEF DiaryInv, DiaryType
  <2>3. /\ editor'[e].id = editor[e].id /\ editor'[e].doc = editor[e].doc
        /\ \/ editor'[e].text \in {editor[e].text, editor[e].doc}
           \/ editor'[e].text = typed'
    BY <1>3, <1>1, <2>2, EditorSteps
  <2>4. ASSUME NEW o, Writes(e, o) PROVE FALSE
    BY <1>1, <2>4, WritersLeave DEF Writes
  <2>5. Sole(e, i) /\ View(e, i)' = View(e, i)
    BY <1>1, <2>4, ViewSteps
  <2>6. View(e, i) <= editor[e].doc /\ View(e, i) <= editor[e].text
    BY <1>1, <2>1, <2>3, <2>5 DEF EditorCurrent
  <2>7. View(e, i) \in 1..typed /\ typed \in Nat /\ typed' \in Nat /\ typed <= typed'
    BY <1>1, <2>5, ViewKnown, Grows
  <2>8. View(e, i) <= typed'
    BY <2>7
  <2> QED BY <2>3, <2>5, <2>6, <2>8
<1> QED BY <1>2, <1>3

\* Every step keeps the invariant.
LEMMA NextView == ViewInv /\ [Next]_vars => ViewInv'
<1> SUFFICES ASSUME ViewInv, [Next]_vars PROVE ViewInv'
  OBVIOUS
<1>1. DiaryInv /\ StacksKept /\ TextsTyped /\ ViewsSettled /\ SentLast /\ EditorCurrent
  BY DEF ViewInv
<1>2. DiaryInv'
  BY <1>1, NextDiary
<1>3. StacksKept' /\ TextsTyped'
  BY <1>1, <1>2, StacksNext, TextsNext
<1>4. ViewsSettled' /\ SentLast'
  <2>1. \A e \in Devices, i \in Diaries : Sole(e, i)' => Settled(e, i)' /\ SentOf(e, i)'
    BY <1>1, <1>2, ViewSteps
  <2> QED BY <2>1 DEF ViewsSettled, SentLast
<1>5. EditorCurrent'
  <2>1. \A e \in Devices : editor'[e].id \in Diaries
    BY <1>2 DEF DiaryInv, DiaryType
  <2>2. \A e \in Devices : 
          Editing(e)' /\ Sole(e, editor[e].id)' /\ Exists(View(e, editor[e].id))'
            => View(e, editor[e].id)' <= editor'[e].doc /\ View(e, editor[e].id)' <= editor'[e].text
    <3> TAKE e \in Devices
    <3>1. PICK i \in Diaries : i = editor'[e].id
      BY <2>1
    <3>2. Editing(e)' /\ Sole(e, i)' /\ Exists(View(e, i)') => View(e, i)' <= editor'[e].doc /\ View(e, i)' <= editor'[e].text
      BY <1>2, <3>1, EditorsNext
    <3> QED BY <3>1, <3>2 DEF Exists, Sole, View, Cached
  <2> QED BY <2>2 DEF EditorCurrent
<1> QED BY <1>2, <1>3, <1>4, <1>5 DEF ViewInv

\* The first state: what is there was typed, and everybody knows it.
LEMMA InitView == Init => ViewInv
<1> SUFFICES ASSUME Init PROVE ViewInv
  OBVIOUS
<1>1. DiaryInv
  BY InitDiary
<1>2. PICK k \in {0, 1} : InitWith(k)
  BY DEF Init
<1>3. /\ hist = [i \in Diaries |-> IF i <= k THEN <<None, i>> ELSE <<None>>]
      /\ cache = [d \in Devices |-> [i \in Diaries |-> IF i <= k THEN 2 ELSE 1]]
      /\ created = k /\ typed = k /\ queue = [d \in Devices |-> <<>>]
      /\ sent = [d \in Devices |-> <<>>] /\ routes = [d \in Devices |-> <<Route("dashboard", 0)>>]
  BY <1>2 DEF InitWith
<1>4. \A d \in Devices : DOMAIN queue[d] = {} /\ DOMAIN sent[d] = {}
  BY <1>3
<1>5. \A d \in Devices : \A n \in DOMAIN routes[d] : n = 1 /\ routes[d][n].name = "dashboard"
  <2>1. PICK r : r = Route("dashboard", 0)
    OBVIOUS
  <2>2. r.name = "dashboard"
    BY <2>1 DEF Route
  <2>3. DOMAIN <<r>> = {1} /\ <<r>>[1] = r
    OBVIOUS
  <2> QED BY <1>3, <2>1, <2>2, <2>3
<1>6. StacksKept /\ \A d \in Devices : ~Editing(d)
  BY <1>5 DEF StacksKept, Place, Editing
<1>7. \A i \in Diaries :
        \/ i <= k /\ DOMAIN hist[i] = {1, 2} /\ hist[i][1] = None /\ hist[i][2] = i
        \/ ~(i <= k) /\ DOMAIN hist[i] = {1} /\ hist[i][1] = None
  <2> TAKE i \in Diaries
  <2>1. CASE i <= k
    <3>1. hist[i] = <<None, i>>
      BY <1>3, <2>1
    <3> QED BY <2>1, <3>1
  <2>2. CASE ~(i <= k)
    <3>1. hist[i] = <<None>>
      BY <1>3, <2>2
    <3> QED BY <2>2, <3>1
  <2> QED BY <2>1, <2>2
<1>8. TextsTyped
  <2>1. \A i \in Diaries : \A v \in DOMAIN hist[i] :
          hist[i][v] \in (0..typed) \cup {Deleted} /\ (i > created => hist[i][v] = None)
    BY <1>3, <1>7 DEF None, Diaries
  <2> QED BY <1>4, <1>6, <2>1 DEF TextsTyped
<1>9. ViewsSettled
  <2>1. ASSUME NEW d \in Devices, NEW i \in Diaries, NEW v \in DOMAIN hist[i], v >= cache[d][i]
        PROVE  v = cache[d][i]
    BY <1>3, <1>7, <2>1
  <2>2. \A d \in Devices, i \in Diaries : Settled(d, i)
    BY <2>1, ViewIs DEF Settled
  <2> QED BY <2>2 DEF ViewsSettled
<1>10. SentLast
  BY <1>4 DEF SentLast, SentOf
<1>11. EditorCurrent
  BY <1>6 DEF EditorCurrent
<1> QED BY <1>1, <1>6, <1>8, <1>9, <1>10, <1>11 DEF ViewInv

-----------------------------------------------------------------------------
(***************************************************************************)
(* The theorems                                                            *)
(***************************************************************************)
(***************************************************************************)
(* On the one device that writes a diary, its queue makes the same of      *)
(* every version that the listener or an answer may bring from now on      *)
(* (ViewsSettled), because whatever a write that will be answered has      *)
(* become, and every later version, is what a sent write has left          *)
(* (SentLast); and an editor never holds less than what is shown           *)
(* (EditorCurrent).                                                        *)
(***************************************************************************)
THEOREM ViewInvariant == Spec => []ViewInv
BY InitView, NextView, PTL DEF Spec

\* A view changes only to a later text, or to none after a delete.
LEMMA ViewAdvances ==
  ASSUME ViewInv, [Next]_vars, NEW e \in Devices, NEW i \in Diaries, writers'[i] \subseteq {e}
  PROVE  View(e, i)' >= View(e, i)
<1>1. DiaryInv /\ StacksKept /\ TextsTyped /\ ViewsSettled /\ SentLast /\ EditorCurrent
  BY DEF ViewInv
<1>2. DiaryInv' /\ TextsTyped'
  BY NextView DEF ViewInv
<1>3. PICK b : b = View(e, i)'
  OBVIOUS
<1>4. PICK a : a = View(e, i)
  OBVIOUS
<1>5. a \in Nat /\ a <= Deleted /\ Deleted \in Nat /\ (i > created => a = 0)
  <2>1. a \in (0..typed) \cup {Deleted} /\ (i > created => a = None)
    BY <1>1, <1>4, ViewKnown
  <2> QED BY <2>1, BoundsAssumption DEF Deleted, None, DiaryInv, DiaryType, ViewInv
<1>6. Sole(e, i)' /\ Sole(e, i)
  BY <1>1, <1>2, Grows DEF Sole
<1>7. b = a \/ \E o : Writes(e, o) /\ b = Stepped(o, i, a)
  BY <1>1, <1>2, <1>3, <1>4, <1>6, ViewSteps
<1>8. ASSUME NEW o, Writes(e, o), b = Stepped(o, i, a) PROVE b >= a
  <2>1. /\ o \in Ops /\ o.id \in Nat
        /\ IF o.op = "delete" THEN o.text = Deleted ELSE o.text \in 1..typed'
    BY <1>1, <1>8, WriteOps DEF Ops, Diaries
  <2>2. CASE o.id # i
    BY <1>5, <1>8, <2>2 DEF Stepped
  <2>3. CASE o.id = i /\ SaveNew(e) /\ o = Op("add", created', typed', routes[e][Len(routes[e])].screen)
    <3>1. i = created + 1 /\ created \in Nat
      BY <2>3 DEF SaveNew, Op, ViewInv, DiaryInv, DiaryType
    <3>2. a = 0
      BY <1>5, <3>1
    <3>3. b = o.text /\ o.op = "add"
      BY <1>8, <2>3 DEF Stepped, ApplyOp, Missing, Op
    <3> QED BY <2>1, <3>2, <3>3
  <2>4. CASE o.id = i /\ ArrowBack(e) /\ o = Op("update", editor[e].id, editor[e].text, 0)
    <3>1. o.op = "update" /\ i = editor[e].id /\ o.text = editor[e].text
      BY <2>4 DEF Op
    <3>2. Editing(e)
      <4>1. Top(e) = "editor"
        BY <2>4 DEF ArrowBack
      <4> QED BY <1>1, <4>1, TopPlace DEF Place, Editing
    <3>3. Exists(a) => a <= o.text
      BY <1>1, <1>4, <1>6, <3>1, <3>2 DEF EditorCurrent
    <3>4. b = IF Exists(a) THEN o.text ELSE a
      BY <1>8, <2>4, <3>1 DEF Stepped, ApplyOp, Missing
    <3> QED BY <1>5, <2>1, <3>1, <3>3, <3>4
  <2>5. CASE o.id = i /\ ConfirmDelete(e) /\ o = Op("delete", editor[e].id, Deleted, 0)
    <3>1. b = Deleted
      BY <1>8, <2>5 DEF Stepped, ApplyOp, Op
    <3> QED BY <1>5, <3>1
  <2> QED BY <1>8, <2>2, <2>3, <2>4, <2>5 DEF Writes
<1> QED BY <1>3, <1>4, <1>5, <1>7, <1>8

(***************************************************************************)
(* On a device whose user edits a diary nowhere else, the StreamBuilder of *)
(* MyDiariesTab never shows an earlier text of it again, nor a deleted     *)
(* diary: not while the SDK sends old writes once more, not between an     *)
(* answer and the listener's snapshot, not after an editor was built again *)
(* or the app was killed.                                                  *)
(***************************************************************************)
THEOREM ViewOnlyAdvancesCorrect == Spec => ViewOnlyAdvances
<1>1. ViewInv /\ [Next]_vars =>
        [\A d \in Devices, i \in Diaries :
           writers'[i] \subseteq {d} => View(d, i)' >= View(d, i)]_vars
  BY ViewAdvances
<1> QED BY <1>1, ViewInvariant, PTL DEF Spec, ViewOnlyAdvances
=============================================================================
