--------------------------- MODULE UserRowsProofs ---------------------------
(***************************************************************************)
(* Proofs about UserRows, for lists of any length.                         *)
(***************************************************************************)
EXTENDS UserRows, FiniteSetTheorems, SequenceTheorems, TLAPS

\* Taking one element out of a list leaves a list that is one shorter.
LEMMA RemoveAtSeq ==
  ASSUME NEW s \in Seq(Users), NEW i \in 1..Len(s)
  PROVE  RemoveAt(s, i) \in Seq(Users) /\ Len(RemoveAt(s, i)) = Len(s) - 1
<1>1. SubSeq(s, 1, i - 1) \in Seq(Users) /\ Len(SubSeq(s, 1, i - 1)) = i - 1
  OBVIOUS
<1>2. SubSeq(s, i + 1, Len(s)) \in Seq(Users) /\ Len(SubSeq(s, i + 1, Len(s))) = Len(s) - i
  OBVIOUS
<1>3. /\ RemoveAt(s, i) \in Seq(Users)
      /\ Len(RemoveAt(s, i)) = Len(SubSeq(s, 1, i - 1)) + Len(SubSeq(s, i + 1, Len(s)))
  BY <1>1, <1>2, ConcatProperties DEF RemoveAt
<1>4. Len(s) \in Nat /\ i \in Int
  OBVIOUS
<1> HIDE DEF RemoveAt
<1> QED BY <1>1, <1>2, <1>3, <1>4, (i - 1) + (Len(s) - i) = Len(s) - 1

\* The next label of the loop is in range, and is the right one.
LEMMA LabelAppended ==
  ASSUME NEW s \in Seq(Users), NEW t \in Seq(Users), Len(t) < Len(s)
  PROVE  LET new == Append(t, s[Len(t) + 1]) IN
         /\ new \in Seq(Users) /\ Len(new) = Len(t) + 1
         /\ (\A i \in 1..Len(t) : i <= Len(s) => t[i] = s[i])
              => \A i \in 1..Len(new) : i <= Len(s) => new[i] = s[i]
<1>1. s[Len(t) + 1] \in Users
  OBVIOUS
<1> QED BY <1>1, AppendProperties

\* The initial states satisfy the invariant.
LEMMA InitInv == Init => TypeOK /\ RowsInv
<1> SUFFICES ASSUME Init PROVE TypeOK /\ RowsInv
  OBVIOUS
<1>1. array \in Seq(Users)
  <2>1. Cardinality(Users) \in Nat
    BY UsersAssumption, FS_CardinalityType
  <2>2. array = <<>> \/ \E m \in 0..Cardinality(Users) : array \in [1..m -> Users]
    BY DEF Init, SeqOf
  <2>3. ASSUME NEW m \in Nat, array \in [1..m -> Users]
        PROVE  array \in Seq(Users)
    BY <2>3, SeqDef
  <2>4. CASE array = <<>>
    BY <2>4
  <2>5. CASE \E m \in 0..Cardinality(Users) : array \in [1..m -> Users]
    BY <2>1, <2>3, <2>5
  <2> QED BY <2>2, <2>4, <2>5
<1>2. <<>> \in Seq(Users)
  OBVIOUS
<1>3. TypeOK
  <2>1. uids \in Seq(Users) /\ names \in Seq(Users) /\ pics \in Seq(Users) /\ hasField \in BOOLEAN
    BY <1>2 DEF Init
  <2>2. /\ kind = "none" /\ pc = "closed" /\ faults = 0 /\ edits = 0
        /\ isLoading = FALSE /\ searching = FALSE /\ edited = FALSE
    BY DEF Init
  <2>3. faults \in 0..MaxFaults /\ edits \in 0..MaxEdits
    BY <2>2, MaxAssumption
  <2> QED BY <1>1, <2>1, <2>2, <2>3 DEF TypeOK, Pcs
<1>4. RowsInv
  BY DEF Init, RowsInv, ListsInStep, LabelsRight, BuildsUnlessFault
<1> QED BY <1>3, <1>4

\* Every step keeps it.
LEMMA NextInv == TypeOK /\ RowsInv /\ [Next]_vars => (TypeOK /\ RowsInv)'
<1> SUFFICES ASSUME TypeOK, RowsInv, [Next]_vars PROVE TypeOK' /\ RowsInv'
  OBVIOUS
<1> USE DEF TypeOK, Kinds, Pcs, RowsInv, ListsInStep, LabelsRight, BuildsUnlessFault
<1>1. CASE UNCHANGED vars
  BY <1>1 DEF vars, server, lists
<1>2. ASSUME NEW k \in Kinds, Open(k)
      PROVE  TypeOK' /\ RowsInv'
  BY <1>2 DEF Open, server, lists
<1>3. CASE Close
  <2>1. uids' \in Seq(Users) /\ names' \in Seq(Users) /\ pics' \in Seq(Users)
    BY <1>3 DEF Close
  <2>2. TypeOK'
    BY <1>3, <2>1 DEF Close, server
  <2>3. RowsInv'
    BY <1>3 DEF Close
  <2> QED BY <2>2, <2>3
<1>4. CASE GetArray
  BY <1>4 DEF GetArray, NextAwait, server
<1>5. CASE GetNoArray
  BY <1>5 DEF GetNoArray, server, lists
<1>6. CASE GetUsername
  <2>1. Len(names) < Len(uids) /\ Len(names) = Len(pics) /\ uids' = uids /\ pics' = pics
    BY <1>6 DEF GetUsername
  <2>2. /\ names' \in Seq(Users) /\ Len(names') = Len(names) + 1
        /\ (\A i \in 1..Len(names) : i <= Len(uids) => names[i] = uids[i])
             => \A i \in 1..Len(names') : i <= Len(uids) => names'[i] = uids[i]
    BY <1>6, <2>1, LabelAppended DEF GetUsername
  <2>3. TypeOK'
    BY <1>6, <2>2 DEF GetUsername, server
  <2>4. RowsInv'
    BY <1>6, <2>1, <2>2 DEF GetUsername
  <2> QED BY <2>3, <2>4
<1>7. CASE GetPicUrl
  <2>1. Len(pics) < Len(uids) /\ Len(names) = Len(pics) + 1 /\ uids' = uids /\ names' = names
    BY <1>7 DEF GetPicUrl
  <2>2. /\ pics' \in Seq(Users) /\ Len(pics') = Len(pics) + 1
        /\ (\A i \in 1..Len(pics) : i <= Len(uids) => pics[i] = uids[i])
             => \A i \in 1..Len(pics') : i <= Len(uids) => pics'[i] = uids[i]
    BY <1>7, <2>1, LabelAppended DEF GetPicUrl
  <2>3. \/ pc' = "name" /\ Len(pics') < Len(uids)
        \/ pc' \in {"username", "end"} /\ Len(pics') = Len(uids)
    BY <1>7, <2>1, <2>2 DEF GetPicUrl, NextAwait
  <2>4. TypeOK'
    BY <1>7, <2>2, <2>3 DEF GetPicUrl, server
  <2>5. RowsInv'
    BY <1>7, <2>1, <2>2, <2>3 DEF GetPicUrl
  <2> QED BY <2>4, <2>5
<1>8. CASE Loaded
  <2>1. Built = "shown" /\ Len(uids) <= Len(names) /\ Len(uids) <= Len(pics)
    BY <1>8 DEF Loaded, Built
  <2> QED BY <1>8, <2>1 DEF Loaded, LoadEnds, server, lists
<1>9. CASE LoadFails
  <2>1. faults' \in 0..MaxFaults /\ faults' > 0
    BY <1>9, MaxAssumption DEF LoadFails
  <2>2. /\ Built \in {"shown", "RangeError"}
        /\ Built = "shown" /\ ~searching => Len(uids) <= Len(names) /\ Len(uids) <= Len(pics)
    BY DEF Built
  <2> QED BY <1>9, <2>1, <2>2 DEF LoadFails, LoadEnds, server, lists
<1>10. CASE SubmitSearch
  BY <1>10 DEF SubmitSearch, server, lists
<1>11. ASSUME NEW i \in 1..Len(uids), TapRow(i)
       PROVE  TypeOK' /\ RowsInv'
  <2>1. uids' \in Seq(Users) /\ Len(uids') = Len(uids) - 1
    BY <1>11, RemoveAtSeq DEF TapRow
  <2> QED BY <1>11, <2>1 DEF TapRow, server
<1>12. ASSUME NEW u \in Users, ArrayUnion(u)
       PROVE  TypeOK' /\ RowsInv'
  BY <1>12, MaxAssumption DEF ArrayUnion, lists
<1>13. ASSUME NEW i \in 1..Len(array), ArrayRemove(i)
       PROVE  TypeOK' /\ RowsInv'
  BY <1>13, RemoveAtSeq, MaxAssumption DEF ArrayRemove, lists
<1> QED
  BY <1>1, <1>2, <1>3, <1>4, <1>5, <1>6, <1>7, <1>8, <1>9, <1>10, <1>11, <1>12, <1>13
  DEF Next, LoadStep

\* The variables of the three screens hold values of their kinds; a label is
\* only read for a uid that is there, which needs the lengths in RowsInv.
THEOREM RowsTypeCorrect == Spec => []TypeOK
BY InitInv, NextInv, PTL DEF Spec

\* Until a row is accepted or declined, every row of SearchTab, FollowerScreen
\* and FollowingScreen shows the name and the picture of its own user, for
\* lists of any length and any interleaving with changes of the array.
THEOREM RowsNamedTheorem == Spec => []RowsNamedUntilEdited
<1>1. TypeOK /\ RowsInv => RowsNamedUntilEdited
  BY DEF TypeOK, RowsInv, ListsInStep, LabelsRight, RowsNamedUntilEdited, RowsNamed
<1> QED BY <1>1, InitInv, NextInv, PTL DEF Spec

\* The build method of the three screens never indexes past the end of a list
\* unless an await of the load has thrown.
THEOREM BuildsTheorem == Spec => []BuildsUnlessFault
<1>1. RowsInv => BuildsUnlessFault
  BY DEF RowsInv
<1> QED BY <1>1, InitInv, NextInv, PTL DEF Spec
=============================================================================
