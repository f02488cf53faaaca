------------------------------ MODULE UserRows ------------------------------
(***************************************************************************)
(* The screens that list users: the follow requests of SearchTab, and the  *)
(* lists of FollowerScreen and FollowingScreen.  Each reads one array of   *)
(* the signed-in user's document and then, in an awaited loop, the name    *)
(* and the picture of every uid in it, into three parallel lists that the  *)
(* build method reads by position.                                         *)
(*                                                                         *)
(* A name (or picture) is the uid whose document it was read from.         *)
(***************************************************************************)
EXTENDS Naturals, Sequences, FiniteSets, SequencesExt

CONSTANTS
  Users,      \* uids
  MaxFaults,  \* bound: awaits that throw
  MaxEdits    \* bound: changes of the array by other calls

ASSUME UsersAssumption == IsFiniteSet(Users)
ASSUME MaxAssumption == MaxFaults \in Nat /\ MaxEdits \in Nat

VARIABLES
  array,     \* the array of the user's document, in Firestore's order
  hasField,  \* FALSE: the document has no such field (only 'requests' may be missing)
  kind,      \* the screen that is open, or "none"
  uids,      \* requestsUid, followerUid or followingUid
  names,     \* requestsName, followerName or followingName
  pics,      \* requestsPicUrl, followerPicUrl or followingPicUrl
  pc,        \* the await of the load, or what was built last
  isLoading,
  searching, \* isShowUsers of SearchTab
  edited,    \* history: a row was taken out since the load
  faults, edits

server == <<array, hasField, edits>>
lists  == <<uids, names, pics>>
vars   == <<server, kind, lists, pc, isLoading, searching, edited, faults>>

Kinds == {"SearchTab", "FollowerScreen", "FollowingScreen"}

-----------------------------------------------------------------------------
\* initState: the lists of a new State are empty.
Open(k) ==
  /\ kind = "none"
  /\ kind' = k
  /\ pc' = "get" /\ isLoading' = TRUE
  /\ UNCHANGED <<server, lists, searching, edited, faults>>

\* The State is gone; what its load still does is seen by nobody.
Close ==
  /\ kind # "none"
  /\ kind' = "none" /\ pc' = "closed" /\ isLoading' = FALSE
  /\ uids' = <<>> /\ names' = <<>> /\ pics' = <<>>
  /\ searching' = FALSE /\ edited' = FALSE
  /\ UNCHANGED <<server, faults>>

\* What the build method makes of the lists: every row indexes all three.
Built == IF searching \/ (Len(uids) <= Len(names) /\ Len(uids) <= Len(pics))
           THEN "shown" ELSE "RangeError"

\* setState(() => isLoading = false)
LoadEnds == pc' = Built /\ isLoading' = FALSE

\* Mutant: the loop stops one element early.
NextAwaitEarly(n) == IF n + 1 < Len(uids') THEN "name" ELSE
                     IF kind = "SearchTab" THEN "username" ELSE "end"

\* The await that follows the one for a picture, or the first one of all.
NextAwait(n) == IF n < Len(uids') THEN "name" ELSE
                IF kind = "SearchTab" THEN "username" ELSE "end"

GetArray ==
  /\ pc = "get" /\ hasField
  /\ uids' = array
  /\ pc' = NextAwait(0)
  /\ UNCHANGED <<server, kind, names, pics, isLoading, searching, edited, faults>>

\* SearchTab.getRequests returns before its last setState.
GetNoArray ==
  /\ pc = "get" /\ ~hasField /\ kind = "SearchTab"
  /\ pc' = "shown"
  /\ UNCHANGED <<server, kind, lists, isLoading, searching, edited, faults>>

\* Mutant: the newest name is put first.
GetUsernameFirst ==
  /\ pc = "name"
  /\ names' = <<uids[Len(names) + 1]>> \o names
  /\ pc' = "pic"
  /\ UNCHANGED <<server, kind, uids, pics, isLoading, searching, edited, faults>>

GetUsername ==
  /\ pc = "name"
  /\ names' = Append(names, uids[Len(names) + 1])
  /\ pc' = "pic"
  /\ UNCHANGED <<server, kind, uids, pics, isLoading, searching, edited, faults>>

GetPicUrl ==
  /\ pc = "pic"
  /\ pics' = Append(pics, uids[Len(pics) + 1])
  /\ uids' = uids
  /\ pc' = NextAwait(Len(pics) + 1)
  /\ UNCHANGED <<server, kind, names, isLoading, searching, edited, faults>>

\* The loop is over, and in SearchTab the user's own name is read.
Loaded ==
  /\ pc \in {"username", "end"}
  /\ LoadEnds
  /\ UNCHANGED <<server, kind, lists, searching, edited, faults>>

\* Mutant: nothing is caught, so the last setState is not reached.
LoadFailsUncaught ==
  /\ pc \in {"get", "name", "pic", "username"}
  /\ faults < MaxFaults
  /\ faults' = faults + 1
  /\ pc' = "thrown"
  /\ UNCHANGED <<server, kind, lists, isLoading, searching, edited>>

\* An await throws: an alert is shown, and the lists stay as they are.
LoadFails ==
  /\ pc \in {"get", "name", "pic", "username"}
  /\ faults < MaxFaults
  /\ faults' = faults + 1
  /\ LoadEnds
  /\ UNCHANGED <<server, kind, lists, searching, edited>>

\* onFieldSubmitted of the search field: the request rows give way to results.
SubmitSearch ==
  /\ kind = "SearchTab" /\ ~searching /\ pc # "RangeError"
  /\ searching' = TRUE
  /\ UNCHANGED <<server, kind, lists, pc, isLoading, edited, faults>>

\* Accept or decline on row i: its uid, which is in no other row, leaves
\* requestsUid; the other lists stay.
TapRow(i) ==
  /\ kind = "SearchTab" /\ pc = "shown" /\ ~searching
  /\ uids' = RemoveAt(uids, i)
  /\ edited' = TRUE
  /\ UNCHANGED <<server, kind, names, pics, pc, isLoading, searching, faults>>

\* followUser, requestFollow and stopFollow, here or on other devices.
ArrayUnion(u) ==
  /\ hasField /\ edits < MaxEdits /\ u \notin Range(array)
  /\ array' = Append(array, u) /\ edits' = edits + 1
  /\ UNCHANGED <<hasField, kind, lists, pc, isLoading, searching, edited, faults>>

ArrayRemove(i) ==
  /\ edits < MaxEdits
  /\ array' = RemoveAt(array, i) /\ edits' = edits + 1
  /\ UNCHANGED <<hasField, kind, lists, pc, isLoading, searching, edited, faults>>

-----------------------------------------------------------------------------
Init ==
  /\ \/ hasField = TRUE  /\ array \in {s \in SeqOf(Users, Cardinality(Users)) : IsInjective(s)}
     \/ hasField = FALSE /\ array = <<>>
  /\ kind = "none" /\ pc = "closed" /\ isLoading = FALSE
  /\ uids = <<>> /\ names = <<>> /\ pics = <<>>
  /\ searching = FALSE /\ edited = FALSE
  /\ faults = 0 /\ edits = 0

LoadStep == GetArray \/ GetNoArray \/ GetUsername \/ GetPicUrl \/ Loaded

Next ==
  \/ \E k \in Kinds : (hasField \/ k = "SearchTab") /\ Open(k)
  \/ Close
  \/ LoadStep \/ LoadFails
  \/ SubmitSearch
  \/ \E i \in 1..Len(uids) : TapRow(i)
  \/ \E u \in Users : ArrayUnion(u)
  \/ \E i \in 1..Len(array) : ArrayRemove(i)

\* Every await of the load is answered.
Fairness == WF_vars(LoadStep)

Spec == Init /\ [][Next]_vars /\ Fairness

-----------------------------------------------------------------------------
Pcs == {"closed", "get", "name", "pic", "username", "end", "shown", "RangeError"}

\* Every variable holds a value of its kind, and something is loading or built
\* exactly while a screen is open.
TypeOK ==
  /\ array \in Seq(Users) /\ hasField \in BOOLEAN
  /\ kind \in Kinds \cup {"none"} /\ pc \in Pcs
  /\ kind = "none" <=> pc = "closed"
  /\ uids \in Seq(Users) /\ names \in Seq(Users) /\ pics \in Seq(Users)
  /\ isLoading \in BOOLEAN /\ searching \in BOOLEAN /\ edited \in BOOLEAN
  /\ faults \in 0..MaxFaults /\ edits \in 0..MaxEdits

\* requestsName is the "List of strings of requests' usernames": every row
\* that is shown has the name and the picture of the user it acts on.
RowsNamed ==
  pc = "shown" /\ ~searching =>
    \A i \in 1..Len(uids) : names[i] = uids[i] /\ pics[i] = uids[i]

\* However a load interleaves with changes of the array, rows show the right
\* names until the first one is accepted or declined.
RowsNamedUntilEdited == ~edited => RowsNamed

\* Only an await that throws half-way leaves lists the build method cannot
\* index (it runs on them all the same).
BuildsUnlessFault == pc = "RangeError" => faults > 0

\* The loading icon of FollowerScreen and FollowingScreen goes away, also when
\* an await throws: the setState after the catch runs all the same.  (The build
\* method of SearchTab does not read isLoading.)
LoadingEnds == (isLoading /\ kind # "SearchTab") ~> ~isLoading

-----------------------------------------------------------------------------
\* How far the three lists are while they are loaded.
ListsInStep ==
  /\ pc \in {"closed", "get"} => uids = <<>> /\ names = <<>> /\ pics = <<>>
  /\ pc = "name" => Len(names) = Len(pics) /\ Len(pics) < Len(uids)
  /\ pc = "pic" => Len(names) = Len(pics) + 1 /\ Len(pics) < Len(uids)
  /\ pc \in {"username", "end"} => Len(names) = Len(uids) /\ Len(pics) = Len(uids)
  /\ pc = "shown" /\ ~searching => Len(uids) <= Len(names) /\ Len(uids) <= Len(pics)

\* What was loaded so far is right, as long as no row was taken out.
LabelsRight ==
  ~edited => /\ \A i \in 1..Len(names) : i <= Len(uids) => names[i] = uids[i]
             /\ \A i \in 1..Len(pics) : i <= Len(uids) => pics[i] = uids[i]

RowsInv == ListsInStep /\ LabelsRight /\ BuildsUnlessFault /\ (edited => pc = "shown")
=============================================================================
