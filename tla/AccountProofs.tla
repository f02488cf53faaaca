---------------------------- MODULE AccountProofs ----------------------------
(***************************************************************************)
(* Theorems about Account, for any users and devices, and any number of    *)
(* registrations, logins, forms, pictures and faults.                      *)
(***************************************************************************)
EXTENDS Account, SequenceTheorems, WellFoundedInduction, TLAPS

Owners == Users \cup {Nobody}
Queued == FirstWrites \cup Updates

-----------------------------------------------------------------------------
(***************************************************************************)
(* Writes and what they make of a document                                 *)
(***************************************************************************)
\* A first write has no job and sets the new profile; an update changes some fields.
LEMMA WriteFacts ==
  ASSUME NEW w \in Queued
  PROVE  /\ w.op \in {"set", "update"} /\ w.doc \in Users /\ w.job \in Nat
         /\ w.op = "set" => w.patch = NewProfile /\ w.job = 0
         /\ w.op = "update" => w.patch \in Patches
<1>1. CASE w \in FirstWrites
  BY <1>1 DEF FirstWrites
<1>2. CASE w \in Updates
  BY <1>2 DEF Updates
<1> QED BY <1>1, <1>2 DEF Queued

\* An update changes no list, and no picture into the default one.
LEMMA PatchFacts ==
  ASSUME NEW p \in Patches
  PROVE  /\ DOMAIN p \subseteq {"name", "bio", "pic"}
         /\ "name" \in DOMAIN p => p.name \in Names
         /\ "bio" \in DOMAIN p => p.bio \in Bios
         /\ "pic" \in DOMAIN p => p.pic \in Pictures /\ p.pic # "default"
<1>1. CASE p \in [bio : Bios]
  BY <1>1
<1>2. CASE p \in [name : Names]
  BY <1>2
<1>3. CASE p \in [bio : Bios, name : Names]
  BY <1>3
<1>4. CASE p \in [pic : {"", "own"}]
  BY <1>4 DEF Pictures
<1> QED BY <1>1, <1>2, <1>3, <1>4 DEF Patches

\* The new profile is one, and has a name.
LEMMA NewProfileFacts ==
  /\ NewProfile \in Profile /\ NewProfile # None
  /\ "name" \in DOMAIN NewProfile /\ NewProfile.name = "first"
  /\ NewProfile.bio = "" /\ "bio" \in DOMAIN NewProfile
<1>1. NewProfile \in Profile
  BY DEF NewProfile, Profile, Names, Bios, Pictures
<1> QED BY <1>1, NoneAssumption DEF NewProfile

\* What a write that is not refused makes of a profile or of none.
LEMMA WrittenProfile ==
  ASSUME NEW w \in Queued, NEW c \in Profile \cup {None}, ~Missing(w, c)
  PROVE  /\ Written(w, c) \in Profile /\ Written(w, c) # None
         /\ w.op = "set" => Written(w, c) = NewProfile
         /\ w.op = "update" =>
              /\ c \in Profile
              /\ Written(w, c).friends = c.friends
              /\ Written(w, c).pic = c.pic \/ Written(w, c).pic # "default"
              /\ Written(w, c).bio = IF "bio" \in DOMAIN w.patch THEN w.patch.bio ELSE c.bio
              /\ Written(w, c).name = IF "name" \in DOMAIN w.patch THEN w.patch.name ELSE c.name
<1>1. CASE w.op = "set"
  BY <1>1, WriteFacts, NewProfileFacts DEF Written, Missing
<1>2. CASE w.op = "update"
  <2>1. c \in Profile
    BY <1>2 DEF Missing
  <2>2. PICK p \in Patches : p = w.patch
    BY <1>2, WriteFacts
  <2>3. PICK x : x = Written(w, c)
    OBVIOUS
  <2>4. DOMAIN c = {"name", "bio", "pic", "friends"}
    BY <2>1 DEF Profile
  <2>5. DOMAIN p \subseteq {"name", "bio", "pic"}
    BY PatchFacts
  <2>6. x = [f \in DOMAIN p \cup DOMAIN c |-> IF f \in DOMAIN p THEN p[f] ELSE c[f]]
    BY <1>2, <2>2, <2>3 DEF Written, Missing
  <2>7. DOMAIN p \cup DOMAIN c = {"name", "bio", "pic", "friends"}
    BY <2>4, <2>5
  <2>8. x = [f \in {"name", "bio", "pic", "friends"} |-> IF f \in DOMAIN p THEN p[f] ELSE c[f]]
    BY <2>6, <2>7
  <2>9. /\ x.name = IF "name" \in DOMAIN p THEN p.name ELSE c.name
        /\ x.bio = IF "bio" \in DOMAIN p THEN p.bio ELSE c.bio
        /\ x.pic = IF "pic" \in DOMAIN p THEN p.pic ELSE c.pic
    BY <2>8
  <2>10. x.friends = c.friends
    BY <2>5, <2>8
  <2>11. x = [name |-> x.name, bio |-> x.bio, pic |-> x.pic, friends |-> x.friends]
    BY <2>8
  <2>12. x \in Profile
    <3>1. c.name \in Names /\ c.bio \in Bios /\ c.pic \in Pictures /\ c.friends \in BOOLEAN
      BY <2>1 DEF Profile
    <3>2. x.name \in Names /\ x.bio \in Bios /\ x.pic \in Pictures /\ x.friends \in BOOLEAN
      BY <3>1, <2>9, <2>10, PatchFacts
    <3> QED BY <3>2, <2>11 DEF Profile
  <2>13. x.pic = c.pic \/ x.pic # "default"
    BY <2>9, PatchFacts
  <2> QED BY <1>2, <2>1, <2>2, <2>3, <2>9, <2>10, <2>12, <2>13, NoneAssumption
<1> QED BY <1>1, <1>2, WriteFacts

\* The name of whatever a write has made of something with a name, or of nothing.
LEMMA WrittenName ==
  ASSUME NEW w \in Queued, NEW c, c # None => "name" \in DOMAIN c, Written(w, c) # None
  PROVE  /\ ~Missing(w, c)
         /\ "name" \in DOMAIN Written(w, c)
         /\ Written(w, c).name = IF "name" \in DOMAIN w.patch THEN w.patch.name ELSE c.name
<1>1. ~Missing(w, c)
  BY DEF Written, Missing
<1>2. CASE w.op = "set"
  BY <1>1, <1>2, WriteFacts, NewProfileFacts DEF Written
<1>3. CASE w.op = "update"
  <2>1. PICK p : p = w.patch
    OBVIOUS
  <2>2. "name" \in DOMAIN c
    BY <1>1, <1>3 DEF Missing
  <2>3. Written(w, c) = [f \in DOMAIN p \cup DOMAIN c |-> IF f \in DOMAIN p THEN p[f] ELSE c[f]]
    BY <1>1, <1>3, <2>1 DEF Written
  <2>4. PICK D : D = DOMAIN p \cup DOMAIN c
    OBVIOUS
  <2>5. Written(w, c) = [f \in D |-> IF f \in DOMAIN p THEN p[f] ELSE c[f]] /\ "name" \in D
    BY <2>2, <2>3, <2>4
  <2> QED BY <1>1, <2>1, <2>5
<1> QED BY <1>2, <1>3, WriteFacts

\* What is known of a document after a write, and what its name is.
LEMMA WrittenKnown ==
  ASSUME NEW w \in Queued, NEW c \in [name : Names, bio : Bios] \cup {None}
  PROVE  /\ Known(Written(w, c)) \in [name : Names, bio : Bios] \cup {None}
         /\ Known(Written(w, c)) # None =>
              /\ ~Missing(w, c)
              /\ Known(Written(w, c)).name = IF "name" \in DOMAIN w.patch THEN w.patch.name ELSE c.name
<1>1. PICK x : x = Written(w, c)
  OBVIOUS
<1>2. CASE x = None
  BY <1>1, <1>2 DEF Known
<1>3. CASE x # None
  <2>1. Known(x) = [name |-> x.name, bio |-> x.bio]
    BY <1>3 DEF Known
  <2>2. c # None => "name" \in DOMAIN c
    OBVIOUS
  <2>3. ~Missing(w, c) /\ x.name = IF "name" \in DOMAIN w.patch THEN w.patch.name ELSE c.name
    BY <1>1, <1>3, <2>2, WrittenName
  <2>4. x.name \in Names /\ x.bio \in Bios
    <3>1. CASE w.op = "set"
      BY <1>1, <2>3, <3>1, WriteFacts, NewProfileFacts DEF Written, Profile
    <3>2. CASE w.op = "update"
      <4>1. c \in [name : Names, bio : Bios]
        BY <2>3, <3>2 DEF Missing
      <4>2. PICK p \in Patches : p = w.patch
        BY <3>2, WriteFacts
      <4>3. PICK D : D = DOMAIN p \cup DOMAIN c
        OBVIOUS
      <4>4. x = [f \in D |-> IF f \in DOMAIN p THEN p[f] ELSE c[f]]
        BY <1>1, <2>3, <3>2, <4>2, <4>3 DEF Written
      <4>5. "bio" \in D
        BY <4>1, <4>3
      <4>6. x.bio = IF "bio" \in DOMAIN p THEN p.bio ELSE c.bio
        BY <4>4, <4>5
      <4> QED BY <2>3, <4>1, <4>2, <4>6, PatchFacts
    <3> QED BY <3>1, <3>2, WriteFacts
  <2> QED BY <1>1, <2>1, <2>3, <2>4
<1> QED BY <1>2, <1>3

\* What the form writes, whatever it has read.
LEMMA PatchType ==
  ASSUME NEW j \in Jobs, NEW old
  PROVE  Patch(j, old) \in Patches
<1>1. j.name \in Names /\ j.bio \in Bios
  BY DEF Jobs
<1> QED BY <1>1 DEF Patch, Patches

-----------------------------------------------------------------------------
(***************************************************************************)
(* Queues and handlers                                                     *)
(***************************************************************************)
\* A queue is a sequence of writes.
LEMMA QueueFacts ==
  ASSUME AccountType, NEW d \in Devices, NEW o \in Owners
  PROVE  /\ queue[d][o] \in Seq(Queued) /\ Len(queue[d][o]) \in Nat
         /\ DOMAIN queue[d][o] = 1..Len(queue[d][o])
         /\ \A i \in DOMAIN queue[d][o] : queue[d][o][i] \in Queued
<1>1. queue[d][o] \in Seq(Queued)
  BY DEF AccountType, Owners, Queued
<1> QED BY <1>1

\* The queue of the user who is signed in is one of the queues.
LEMMA MineFacts ==
  ASSUME AccountType, NEW d \in Devices
  PROVE  /\ signed[d] \in Owners /\ Mine(d) = queue[d][signed[d]]
         /\ Mine(d) \in Seq(Queued) /\ Len(Mine(d)) \in Nat /\ DOMAIN Mine(d) = 1..Len(Mine(d))
         /\ \A i \in DOMAIN Mine(d) : Mine(d)[i] \in Queued
<1>1. signed[d] \in Owners
  BY DEF AccountType, Owners
<1> QED BY <1>1, QueueFacts DEF Mine

\* One queue is replaced.
LEMMA QueueChange ==
  ASSUME AccountType, NEW d \in Devices, NEW o \in Owners, NEW q,
         queue' = [queue EXCEPT ![d][o] = q]
  PROVE  /\ \A e \in Devices, p \in Owners : queue'[e][p] = IF e = d /\ p = o THEN q ELSE queue[e][p]
         /\ q \in Seq(Queued) => queue' \in [Devices -> [Owners -> Seq(Queued)]]
<1>1. queue \in [Devices -> [Owners -> Seq(Queued)]]
  BY DEF AccountType, Owners, Queued
<1> QED BY <1>1

\* A write is added to a queue.
LEMMA Appended ==
  ASSUME NEW q \in Seq(Queued), NEW w \in Queued
  PROVE  /\ Append(q, w) \in Seq(Queued) /\ Len(Append(q, w)) = Len(q) + 1
         /\ DOMAIN Append(q, w) = 1..(Len(q) + 1)
         /\ \A i \in 1..Len(q) : Append(q, w)[i] = q[i]
         /\ Append(q, w)[Len(q) + 1] = w
OBVIOUS

\* The first write is taken off a queue.
LEMMA Shifted ==
  ASSUME NEW q \in Seq(Queued), q # <<>>
  PROVE  /\ Head(q) = q[1] /\ Head(q) \in Queued /\ 1 \in DOMAIN q
         /\ Tail(q) \in Seq(Queued) /\ Len(Tail(q)) = Len(q) - 1 /\ Len(q) \in Nat \ {0}
         /\ DOMAIN Tail(q) = 1..(Len(q) - 1)
         /\ \A i \in 1..(Len(q) - 1) : Tail(q)[i] = q[i + 1]
OBVIOUS

\* Handlers keep what they are for; one that has read its form keeps what it
\* has read; and none gets its screen back.
JobsGo(js, ks) ==
  /\ ks \in Seq(Jobs) /\ Len(js) <= Len(ks)
  /\ \A k \in DOMAIN js :
       /\ k \in DOMAIN ks
       /\ ks[k].kind = js[k].kind /\ ks[k].dev = js[k].dev /\ ks[k].user = js[k].user
       /\ js[k].stage # "get" => ks[k].stage # "get" /\ ks[k].name = js[k].name /\ ks[k].bio = js[k].bio
       /\ ks[k].mounted => js[k].mounted

\* The ways in which handlers go on.
Staged(js, k, st)     == [js EXCEPT ![k].stage = st]
Retyped(js, k, n, b)  == [js EXCEPT ![k].name = n, ![k].bio = b]
WithoutScreen(js, d)  ==
  [k \in DOMAIN js |-> IF js[k].dev = d THEN [js[k] EXCEPT !.mounted = FALSE] ELSE js[k]]
Killed(js, d) ==
  [k \in DOMAIN js |-> IF js[k].dev = d THEN [js[k] EXCEPT !.stage = "done", !.mounted = FALSE] ELSE js[k]]

\* Handlers have their types.
LEMMA JobFacts ==
  ASSUME NEW js \in Seq(Jobs)
  PROVE  /\ Len(js) \in Nat /\ DOMAIN js = 1..Len(js)
         /\ \A k \in DOMAIN js :
              /\ js[k] \in Jobs /\ js[k].kind \in {"form", "picture"} /\ js[k].dev \in Devices
              /\ js[k].user \in Users /\ js[k].name \in Names /\ js[k].bio \in Bios
              /\ js[k].stage \in {"get", "update", "upload", "url", "done"} /\ js[k].mounted \in BOOLEAN
<1>1. \A k \in DOMAIN js : js[k] \in Jobs
  OBVIOUS
<1>2. \A j \in Jobs : /\ j.kind \in {"form", "picture"} /\ j.dev \in Devices
                      /\ j.user \in Users /\ j.name \in Names /\ j.bio \in Bios
                      /\ j.stage \in {"get", "update", "upload", "url", "done"} /\ j.mounted \in BOOLEAN
  BY DEF Jobs
<1> QED BY <1>1, <1>2

\* Nothing happens to the handlers.
LEMMA JobsStay ==
  ASSUME NEW js \in Seq(Jobs)
  PROVE  JobsGo(js, js)
BY JobFacts DEF JobsGo

\* Handlers are replaced one by one.
LEMMA JobsMapped ==
  ASSUME NEW js \in Seq(Jobs), NEW ks, ks = [k \in DOMAIN js |-> ks[k]],
         \A k \in DOMAIN js :
           /\ ks[k] \in Jobs
           /\ ks[k].kind = js[k].kind /\ ks[k].dev = js[k].dev /\ ks[k].user = js[k].user
           /\ js[k].stage # "get" => ks[k].stage # "get" /\ ks[k].name = js[k].name /\ ks[k].bio = js[k].bio
           /\ ks[k].mounted => js[k].mounted
  PROVE  JobsGo(js, ks) /\ Len(ks) = Len(js) /\ DOMAIN ks = DOMAIN js
<1>1. PICK n \in Nat : n = Len(js) /\ DOMAIN js = 1..n
  OBVIOUS
<1>2. ks \in [1..n -> Jobs]
  BY <1>1
<1>3. ks \in Seq(Jobs) /\ Len(ks) = n /\ DOMAIN ks = 1..n
  BY <1>2
<1>4. n <= n
  BY <1>1
<1> QED BY <1>1, <1>3, <1>4 DEF JobsGo

\* A handler reaches another stage, after the read.
LEMMA JobsStaged ==
  ASSUME NEW js \in Seq(Jobs), NEW k \in DOMAIN js, NEW st \in {"update", "upload", "url", "done"},
         NEW ks, ks = Staged(js, k, st)
  PROVE  /\ JobsGo(js, ks) /\ Len(ks) = Len(js) /\ DOMAIN ks = DOMAIN js
         /\ ks[k].stage = st /\ ks[k].name = js[k].name /\ ks[k].bio = js[k].bio
         /\ \A i \in DOMAIN js : ks[i].mounted = js[i].mounted
<1>1. /\ ks = [i \in DOMAIN js |-> ks[i]]
      /\ \A i \in DOMAIN js : ks[i] = IF i = k THEN [js[k] EXCEPT !.stage = st] ELSE js[i]
  BY DEF Staged
<1>2. PICK j : j = [js[k] EXCEPT !.stage = st]
  OBVIOUS
<1>3. /\ j \in Jobs /\ j.kind = js[k].kind /\ j.dev = js[k].dev /\ j.user = js[k].user
      /\ j.name = js[k].name /\ j.bio = js[k].bio /\ j.stage = st /\ j.mounted = js[k].mounted
  <2>1. js[k] \in Jobs
    OBVIOUS
  <2> QED BY <1>2, <2>1 DEF Jobs
<1>4. \A i \in DOMAIN js : ks[i] = IF i = k THEN j ELSE js[i]
  BY <1>1, <1>2
<1>5. \A i \in DOMAIN js :
        /\ ks[i] \in Jobs
        /\ ks[i].kind = js[i].kind /\ ks[i].dev = js[i].dev /\ ks[i].user = js[i].user
        /\ js[i].stage # "get" => ks[i].stage # "get" /\ ks[i].name = js[i].name /\ ks[i].bio = js[i].bio
        /\ ks[i].mounted = js[i].mounted
  BY <1>3, <1>4, JobFacts
<1>6. JobsGo(js, ks) /\ Len(ks) = Len(js) /\ DOMAIN ks = DOMAIN js
  BY <1>1, <1>5, JobsMapped
<1> QED BY <1>3, <1>4, <1>5, <1>6

\* The handlers of a device lose their screen, and end or go on.
LEMMA JobsUnmounted ==
  ASSUME NEW js \in Seq(Jobs), NEW d, NEW ks,
         ks = WithoutScreen(js, d) \/ ks = Killed(js, d)
  PROVE  /\ JobsGo(js, ks) /\ Len(ks) = Len(js) /\ DOMAIN ks = DOMAIN js
         /\ \A k \in DOMAIN js : ks[k].mounted => js[k].mounted /\ js[k].dev # d
<1>1. ks = [k \in DOMAIN js |-> ks[k]]
  BY DEF WithoutScreen, Killed
<1>2. \A k \in DOMAIN js :
        \/ js[k].dev # d /\ ks[k] = js[k]
        \/ js[k].dev = d /\ ks[k] = [js[k] EXCEPT !.mounted = FALSE]
        \/ js[k].dev = d /\ ks[k] = [js[k] EXCEPT !.stage = "done", !.mounted = FALSE]
  BY DEF WithoutScreen, Killed
<1>3. ASSUME NEW k \in DOMAIN js
      PROVE  /\ ks[k] \in Jobs
             /\ ks[k].kind = js[k].kind /\ ks[k].dev = js[k].dev /\ ks[k].user = js[k].user
             /\ js[k].stage # "get" => ks[k].stage # "get" /\ ks[k].name = js[k].name /\ ks[k].bio = js[k].bio
             /\ ks[k].mounted => js[k].mounted /\ js[k].dev # d
  <2>1. js[k] \in Jobs
    BY JobFacts
  <2>2. CASE js[k].dev # d /\ ks[k] = js[k]
    BY <2>1, <2>2
  <2>3. CASE js[k].dev = d /\ ks[k] = [js[k] EXCEPT !.mounted = FALSE]
    BY <2>1, <2>3 DEF Jobs
  <2>4. CASE js[k].dev = d /\ ks[k] = [js[k] EXCEPT !.stage = "done", !.mounted = FALSE]
    BY <2>1, <2>4 DEF Jobs
  <2> QED BY <1>2, <2>2, <2>3, <2>4
<1>4. JobsGo(js, ks) /\ Len(ks) = Len(js) /\ DOMAIN ks = DOMAIN js
  BY <1>1, <1>3, JobsMapped
<1> QED BY <1>3, <1>4

\* One change after another.
LEMMA JobsTwice ==
  ASSUME NEW js \in Seq(Jobs), NEW ks, NEW ls, JobsGo(js, ks), JobsGo(ks, ls)
  PROVE  JobsGo(js, ls)
<1>1. PICK a \in Nat : a = Len(js)
  OBVIOUS
<1>2. PICK b \in Nat : b = Len(ks)
  BY DEF JobsGo
<1>3. PICK c \in Nat : c = Len(ls)
  BY DEF JobsGo
<1>4. a <= c
  <2>1. a <= b /\ b <= c
    BY <1>1, <1>2, <1>3 DEF JobsGo
  <2> QED BY <2>1
<1>5. Len(js) <= Len(ls)
  BY <1>1, <1>3, <1>4
<1> QED BY <1>5 DEF JobsGo

\* A form is filled in again while its read is awaited.
LEMMA JobsRetyped ==
  ASSUME NEW js \in Seq(Jobs), NEW k \in DOMAIN js, js[k].stage = "get", NEW n \in Names, NEW b \in Bios,
         NEW ks, ks = Retyped(js, k, n, b)
  PROVE  /\ JobsGo(js, ks) /\ Len(ks) = Len(js) /\ DOMAIN ks = DOMAIN js
         /\ \A i \in DOMAIN js : ks[i].mounted = js[i].mounted
<1>1. /\ ks = [i \in DOMAIN js |-> ks[i]]
      /\ \A i \in DOMAIN js : ks[i] = IF i = k THEN [js[k] EXCEPT !.name = n, !.bio = b] ELSE js[i]
  BY DEF Retyped
<1>2. PICK j : j = [js[k] EXCEPT !.name = n, !.bio = b]
  OBVIOUS
<1>3. /\ j \in Jobs /\ j.kind = js[k].kind /\ j.dev = js[k].dev /\ j.user = js[k].user
      /\ j.mounted = js[k].mounted
  <2>1. js[k] \in Jobs
    OBVIOUS
  <2> QED BY <1>2, <2>1 DEF Jobs
<1>4. \A i \in DOMAIN js : ks[i] = IF i = k THEN j ELSE js[i]
  BY <1>1, <1>2
<1>5. \A i \in DOMAIN js :
        /\ ks[i] \in Jobs
        /\ ks[i].kind = js[i].kind /\ ks[i].dev = js[i].dev /\ ks[i].user = js[i].user
        /\ js[i].stage # "get" => ks[i].stage # "get" /\ ks[i].name = js[i].name /\ ks[i].bio = js[i].bio
        /\ ks[i].mounted = js[i].mounted
  BY <1>3, <1>4, JobFacts
<1>6. JobsGo(js, ks) /\ Len(ks) = Len(js) /\ DOMAIN ks = DOMAIN js
  BY <1>1, <1>5, JobsMapped
<1> QED BY <1>5, <1>6

\* A form's button is tapped or a picture chosen.
LEMMA JobsAdded ==
  ASSUME NEW js \in Seq(Jobs), NEW j \in Jobs, NEW ks, ks = Append(js, j)
  PROVE  /\ JobsGo(js, ks) /\ Len(ks) = Len(js) + 1 /\ DOMAIN ks = 1..(Len(js) + 1)
         /\ ks[Len(js) + 1] = j
         /\ \A i \in DOMAIN ks : (i \in DOMAIN js /\ ks[i] = js[i]) \/ ks[i] = j
<1>1. /\ ks \in Seq(Jobs) /\ Len(ks) = Len(js) + 1 /\ DOMAIN ks = 1..(Len(js) + 1)
      /\ DOMAIN js = 1..Len(js) /\ Len(js) \in Nat /\ ks[Len(js) + 1] = j
      /\ \A i \in 1..Len(js) : ks[i] = js[i]
  OBVIOUS
<1>2. PICK n \in Nat : n = Len(js)
  BY <1>1
<1>3. n <= n + 1 /\ \A i \in 1..(n + 1) : i \in 1..n \/ i = n + 1
  OBVIOUS
<1>4. 1..n \subseteq 1..(n + 1)
  OBVIOUS
<1> QED BY <1>1, <1>2, <1>3, <1>4 DEF JobsGo

-----------------------------------------------------------------------------
(***************************************************************************)
(* The types                                                               *)
(***************************************************************************)
\* What the steps of the SDK need: what is queued names accounts and handlers.
LEMMA HeadFacts ==
  ASSUME AccountType, WritesKept, NEW d \in Devices, NEW i \in DOMAIN Mine(d)
  PROVE  /\ Mine(d)[i] \in Queued /\ Mine(d)[i].doc \in account /\ Mine(d)[i].doc \in Users
         /\ Mine(d)[i].job \in 0..Len(jobs)
         /\ Mine(d)[i].job # 0 => Mine(d)[i].job \in DOMAIN jobs
<1>1. Mine(d)[i].doc \in account /\ Mine(d)[i].job \in 0..Len(jobs)
  BY MineFacts DEF WritesKept, Owners
<1>2. DOMAIN jobs = 1..Len(jobs) /\ Len(jobs) \in Nat
  BY JobFacts DEF AccountType
<1> QED BY <1>1, <1>2, MineFacts, WriteFacts

\* A document changes.
LEMMA DocType ==
  ASSUME AccountType, NEW u \in Users, NEW c \in Profile, doc' = [doc EXCEPT ![u] = c],
         \/ named' = named
         \/ named' = [named EXCEPT ![u] = @ \cup {doc'[u].name}]
  PROVE  doc' \in [Users -> Profile \cup {None}] /\ named' \in [Users -> SUBSET Names]
<1>1. doc' \in [Users -> Profile \cup {None}] /\ doc'[u] = c
  BY DEF AccountType
<1>2. c.name \in Names
  BY DEF Profile
<1>3. named \in [Users -> SUBSET Names]
  BY DEF AccountType
<1> QED BY <1>1, <1>2, <1>3

\* The server applies a write.
LEMMA AppliesType ==
  ASSUME AccountType, WritesKept, NEW d \in Devices, Applies(d)
  PROVE  AccountType' /\ JobsGo(jobs, jobs')
<1>1. PICK n \in Nat : n = sent[d]
  BY DEF AccountType
<1>2. PICK m \in Nat : m = Len(Mine(d)) /\ DOMAIN Mine(d) = 1..m
  BY MineFacts
<1>3. n + 1 \in 1..m
  BY <1>1, <1>2 DEF Applies
<1>4. PICK w \in Queued : w = Mine(d)[n + 1] /\ w.doc \in Users
  BY <1>2, <1>3, HeadFacts
<1>5. PICK c \in Profile : c = Written(w, doc[w.doc])
  <2>1. doc[w.doc] \in Profile \cup {None}
    BY <1>4 DEF AccountType
  <2> QED BY <1>1, <1>4, <2>1, WrittenProfile DEF Applies
<1>6. doc' = [doc EXCEPT ![w.doc] = c] /\ named' = [named EXCEPT ![w.doc] = @ \cup {doc'[w.doc].name}]
  BY <1>1, <1>4, <1>5 DEF Applies
<1>7. doc' \in [Users -> Profile \cup {None}] /\ named' \in [Users -> SUBSET Names]
  BY <1>4, <1>6, DocType
<1>8. sent' \in [Devices -> Nat]
  BY <1>1 DEF Applies, AccountType
<1>9. UNCHANGED <<account, storage, signed, torn, jobs, queue, cache, welcomed, screen, shown, below, reg, outs, late, taps, faults>>
  BY DEF Applies, ui, cnt
<1>10. JobsGo(jobs, jobs')
  BY <1>9, JobsStay DEF AccountType
<1> QED BY <1>7, <1>8, <1>9, <1>10 DEF AccountType

\* A list of a document changes.
LEMMA BefriendType ==
  ASSUME AccountType, NEW u \in Users, Befriend(u)
  PROVE  /\ AccountType' /\ JobsGo(jobs, jobs')
         /\ doc[u] \in Profile /\ doc' = [doc EXCEPT ![u] = [doc[u] EXCEPT !.friends = TRUE]]
<1>1. doc[u] \in Profile
  BY DEF AccountType, Befriend
<1>2. PICK c : c = [doc[u] EXCEPT !.friends = TRUE]
  OBVIOUS
<1>3. c \in Profile
  BY <1>1, <1>2 DEF Profile
<1>4. doc' = [doc EXCEPT ![u] = c] /\ named' = named
  BY <1>2 DEF Befriend
<1>5. doc' \in [Users -> Profile \cup {None}] /\ named' \in [Users -> SUBSET Names]
  BY <1>3, <1>4, DocType
<1>6. UNCHANGED <<account, storage, signed, torn, jobs, queue, sent, cache, welcomed, screen, shown, below, reg, outs, late, taps, faults>>
  BY DEF Befriend, ui, cnt
<1>7. JobsGo(jobs, jobs')
  BY <1>6, JobsStay DEF AccountType
<1> QED BY <1>1, <1>2, <1>4, <1>5, <1>6, <1>7 DEF AccountType

\* Leaving the form takes the screen from the handlers of the device.
LEMMA UnmountedIs == \A d : Unmounted(d) = WithoutScreen(jobs, d)
BY DEF Unmounted, WithoutScreen

\* The end of the handler that awaited a write.
LEMMA EndJobType ==
  ASSUME AccountType, HandlersKept, NEW w, w.job = 0 \/ w.job \in DOMAIN jobs, EndJob(w)
  PROVE  /\ JobsGo(jobs, jobs') /\ Len(jobs') = Len(jobs) /\ DOMAIN jobs' = DOMAIN jobs
         /\ screen' \in [Devices -> {"login", "register", "dashboard", "edit"}]
         /\ \A d \in Devices : \/ screen'[d] = screen[d]
                               \/ screen[d] = "edit" /\ screen'[d] = "dashboard"
         /\ \A k \in DOMAIN jobs : jobs'[k].mounted => jobs[k].mounted /\ screen'[jobs[k].dev] = screen[jobs[k].dev]
<1>0. jobs \in Seq(Jobs) /\ screen \in [Devices -> {"login", "register", "dashboard", "edit"}]
  BY DEF AccountType
<1>1. CASE UNCHANGED <<jobs, screen>>
  <2>1. JobsGo(jobs, jobs)
    BY <1>0, JobsStay
  <2> QED BY <1>0, <1>1, <2>1
<1>2. CASE w.job \in DOMAIN jobs /\ jobs' = Staged(jobs, w.job, "done") /\ UNCHANGED screen
  <2>1. /\ JobsGo(jobs, jobs') /\ Len(jobs') = Len(jobs) /\ DOMAIN jobs' = DOMAIN jobs
        /\ \A k \in DOMAIN jobs : jobs'[k].mounted = jobs[k].mounted
    BY <1>0, <1>2, JobsStaged
  <2> QED BY <1>0, <1>2, <2>1
<1>3. CASE /\ w.job \in DOMAIN jobs /\ jobs[w.job].mounted
           /\ jobs' = [Unmounted(jobs[w.job].dev) EXCEPT ![w.job].stage = "done"]
           /\ screen' = [screen EXCEPT ![jobs[w.job].dev] = "dashboard"]
  <2>1. PICK d \in Devices : d = jobs[w.job].dev
    BY <1>0, <1>3, JobFacts
  <2>2. screen[d] = "edit"
    BY <1>3, <2>1 DEF HandlersKept
  <2>3. PICK js : js = WithoutScreen(jobs, d)
    OBVIOUS
  <2>4. /\ JobsGo(jobs, js) /\ Len(js) = Len(jobs) /\ DOMAIN js = DOMAIN jobs
        /\ \A k \in DOMAIN jobs : js[k].mounted => jobs[k].mounted /\ jobs[k].dev # d
    BY <1>0, <2>3, JobsUnmounted
  <2>5. js \in Seq(Jobs)
    BY <2>4 DEF JobsGo
  <2>6. jobs' = Staged(js, w.job, "done")
    <3>1. js = Unmounted(d)
      BY <2>3, UnmountedIs
    <3> QED BY <1>3, <2>1, <3>1 DEF Staged
  <2>7. /\ JobsGo(js, jobs') /\ Len(jobs') = Len(js) /\ DOMAIN jobs' = DOMAIN js
        /\ \A k \in DOMAIN js : jobs'[k].mounted = js[k].mounted
    <3>1. PICK k \in DOMAIN js : k = w.job
      BY <1>3, <2>4
    <3> QED BY <2>5, <2>6, <3>1, JobsStaged
  <2>8. JobsGo(jobs, jobs')
    BY <1>0, <2>4, <2>7, JobsTwice
  <2>9. screen' \in [Devices -> {"login", "register", "dashboard", "edit"}] /\ screen'[d] = "dashboard"
        /\ \A e \in Devices : e # d => screen'[e] = screen[e]
    BY <1>0, <1>3, <2>1
  <2>10. \A k \in DOMAIN jobs : jobs[k].dev \in Devices
    BY <1>0, JobFacts
  <2> QED BY <2>2, <2>4, <2>7, <2>8, <2>9, <2>10
<1> QED BY <1>1, <1>2, <1>3 DEF EndJob, Staged

\* The answer to the first write arrives.
LEMMA AnswerType ==
  ASSUME AccountType, HandlersKept, WritesKept, NEW d \in Devices, Answer(d)
  PROVE  /\ AccountType' /\ JobsGo(jobs, jobs')
         /\ Mine(d) # <<>> /\ EndJob(Head(Mine(d)))
         /\ Head(Mine(d)).job = 0 \/ Head(Mine(d)).job \in DOMAIN jobs
         /\ \A e \in Devices, p \in Owners :
              queue'[e][p] = IF e = d /\ p = signed[d] THEN Tail(Mine(d)) ELSE queue[e][p]
<1>1. PICK q \in Seq(Queued) : q = Mine(d) /\ q = queue[d][signed[d]]
  BY MineFacts
<1>2. 1 \in DOMAIN q /\ q # <<>>
  <2>1. PICK n \in Nat : n = sent[d]
    BY DEF AccountType
  <2>2. PICK m \in Nat : m = Len(q) /\ DOMAIN q = 1..m
    OBVIOUS
  <2>3. n > 0 /\ n <= m
    BY <1>1, <2>1, <2>2 DEF Answer, WritesKept
  <2>4. 1 \in 1..m
    BY <2>3
  <2> QED BY <2>2, <2>4
<1>3. PICK w \in Queued : w = Head(q) /\ w = q[1]
  BY <1>2
<1>4. w.doc \in Users /\ w.doc \in account /\ (w.job = 0 \/ w.job \in DOMAIN jobs)
  BY <1>1, <1>2, <1>3, HeadFacts
<1>5. EndJob(w) /\ UNCHANGED <<account, storage, signed, torn, doc, named, shown, below, reg, outs, late, taps, faults>>
  BY <1>1, <1>3 DEF Answer, cnt
<1>6. /\ JobsGo(jobs, jobs') /\ Len(jobs') = Len(jobs)
      /\ screen' \in [Devices -> {"login", "register", "dashboard", "edit"}]
  BY <1>4, <1>5, EndJobType
<1>7. jobs' \in Seq(Jobs) /\ Len(jobs') <= MaxJobs
  BY <1>6 DEF JobsGo, AccountType
<1>8. queue' = [queue EXCEPT ![d][signed[d]] = Tail(q)]
  BY <1>1 DEF Answer, Dequeue
<1>9. /\ queue' \in [Devices -> [Owners -> Seq(Queued)]]
      /\ \A e \in Devices, p \in Owners : queue'[e][p] = IF e = d /\ p = signed[d] THEN Tail(q) ELSE queue[e][p]
  <2>1. signed[d] \in Owners /\ Tail(q) \in Seq(Queued)
    BY <1>2, MineFacts
  <2> QED BY <1>8, <2>1, QueueChange
<1>10. sent' \in [Devices -> Nat]
  <2>1. sent[d] - 1 \in Nat
    BY DEF Answer, AccountType
  <2> QED BY <2>1 DEF Answer, AccountType
<1>11. cache' \in [Devices -> [Users -> [name : Names, bio : Bios] \cup {None}]]
  <2>1. cache[d][w.doc] \in [name : Names, bio : Bios] \cup {None}
    BY <1>4 DEF AccountType
  <2>2. PICK c \in [name : Names, bio : Bios] \cup {None} : c = Known(Written(w, cache[d][w.doc]))
    BY <2>1, WrittenKnown
  <2>3. cache' = [cache EXCEPT ![d][w.doc] = c]
    BY <1>1, <1>3, <2>2 DEF Answer
  <2> QED BY <2>2, <2>3 DEF AccountType
<1>12. welcomed' \subseteq account
  BY <1>1, <1>3, <1>4 DEF Answer, AccountType
<1>13. AccountType'
  BY <1>5, <1>6, <1>7, <1>9, <1>10, <1>11, <1>12 DEF AccountType, Owners, Queued
<1> QED BY <1>1, <1>2, <1>3, <1>4, <1>5, <1>6, <1>9, <1>13

\* The first write is refused.
LEMMA RefuseType ==
  ASSUME AccountType, HandlersKept, WritesKept, NEW d \in Devices, Refuse(d)
  PROVE  /\ AccountType' /\ JobsGo(jobs, jobs') /\ Len(jobs') = Len(jobs)
         /\ \A k \in DOMAIN jobs : jobs'[k].mounted = jobs[k].mounted
         /\ Mine(d) # <<>>
         /\ \A e \in Devices, p \in Owners :
              queue'[e][p] = IF e = d /\ p = signed[d] THEN Tail(Mine(d)) ELSE queue[e][p]
<1>1. PICK q \in Seq(Queued) : q = Mine(d) /\ q = queue[d][signed[d]]
  BY MineFacts
<1>2. 1 \in DOMAIN q /\ q # <<>>
  <2>1. Mine(d) # <<>>
    BY Zenon DEF Refuse
  <2> QED BY <1>1, <2>1, Shifted
<1>3. PICK w \in Queued : w = Head(q) /\ w = q[1]
  BY <1>2
<1>4. w.job = 0 \/ w.job \in DOMAIN jobs
  BY <1>1, <1>2, <1>3, HeadFacts
<1>5. /\ jobs' = jobs \/ (jobs' = Staged(jobs, w.job, "done") /\ w.job \in DOMAIN jobs)
      /\ UNCHANGED <<account, storage, signed, torn, doc, sent, cache, welcomed, named, screen, shown, below, reg, outs, late, taps, faults>>
  <2>1. jobs' = IF w.job = 0 THEN jobs ELSE Staged(jobs, w.job, "done")
    BY <1>1, <1>3, Zenon DEF Refuse, Staged
  <2>2. UNCHANGED <<account, storage, signed, torn, doc, sent, cache, welcomed, named, ui, cnt>>
    BY Zenon DEF Refuse
  <2> QED BY <1>4, <2>1, <2>2 DEF ui, cnt
<1>6. jobs \in Seq(Jobs)
  BY DEF AccountType
<1>7. /\ JobsGo(jobs, jobs') /\ Len(jobs') = Len(jobs)
      /\ \A k \in DOMAIN jobs : jobs'[k].mounted = jobs[k].mounted
  <2>1. CASE jobs' = jobs
    BY <1>6, <2>1, JobsStay
  <2>2. CASE jobs' = Staged(jobs, w.job, "done") /\ w.job \in DOMAIN jobs
    BY <1>6, <2>2, JobsStaged
  <2> QED BY <1>5, <2>1, <2>2
<1>8. jobs' \in Seq(Jobs) /\ Len(jobs') <= MaxJobs
  BY <1>7 DEF JobsGo, AccountType
<1>9. queue' = [queue EXCEPT ![d][signed[d]] = Tail(q)]
  BY <1>1 DEF Refuse, Dequeue
<1>10. /\ queue' \in [Devices -> [Owners -> Seq(Queued)]]
       /\ \A e \in Devices, p \in Owners : queue'[e][p] = IF e = d /\ p = signed[d] THEN Tail(q) ELSE queue[e][p]
  <2>1. signed[d] \in Owners /\ Tail(q) \in Seq(Queued)
    BY <1>2, MineFacts
  <2> QED BY <1>9, <2>1, QueueChange
<1>11. AccountType'
  BY <1>5, <1>8, <1>10 DEF AccountType, Owners, Queued
<1> QED BY <1>1, <1>2, <1>7, <1>10, <1>11

\* The user on a device changes.
LEMMA ChangeUserType ==
  ASSUME AccountType, NEW d \in Devices, NEW u \in account \cup {Nobody}, ChangeUser(d, u)
  PROVE  /\ signed' \in [Devices -> account \cup {Nobody}] /\ sent' \in [Devices -> Nat]
         /\ signed'[d] = u /\ \A e \in Devices : e # d => signed'[e] = signed[e] /\ sent'[e] = sent[e]
         /\ sent'[d] = 0
BY DEF ChangeUser, AccountType

\* A write is queued on d for the owner o.
LEMMA QueueType ==
  ASSUME AccountType, NEW d \in Devices, NEW o \in Owners, NEW w \in Queued,
         queue' = [queue EXCEPT ![d][o] = Append(@, w)]
  PROVE  /\ queue' \in [Devices -> [Owners -> Seq(Queued)]]
         /\ \A e \in Devices, p \in Owners :
              queue'[e][p] = IF e = d /\ p = o THEN Append(queue[d][o], w) ELSE queue[e][p]
<1>1. PICK q \in Seq(Queued) : q = Append(queue[d][o], w)
  BY QueueFacts, Appended
<1>2. queue' = [queue EXCEPT ![d][o] = q]
  BY <1>1
<1>3. queue \in [Devices -> [Owners -> Seq(Queued)]]
  BY DEF AccountType, Owners, Queued
<1> QED BY <1>1, <1>2, <1>3

\* The steps of the registration up to the answer, and of the screens.
LEMMA ScreenType ==
  ASSUME AccountType, HandlersKept, NEW d \in Devices,
         \/ OpenRegister(d) \/ LeaveRegister(d) \/ AuthCreates(d) \/ SignUpFails(d) \/ OpenEdit(d)
         \/ \E u \in Users : SignUp(d, u)
  PROVE  AccountType' /\ JobsGo(jobs, jobs')
<1>1. /\ screen \in [Devices -> {"login", "register", "dashboard", "edit"}] /\ reg \in [Devices -> Handlers]
      /\ account \subseteq Users /\ torn \subseteq account /\ taps \in 0..MaxTaps /\ jobs \in Seq(Jobs)
  BY DEF AccountType
<1>2. UNCHANGED <<storage, signed, jobs, shown, below, outs, late, faults, doc, queue, sent, cache, welcomed, named>>
  BY DEF OpenRegister, LeaveRegister, AuthCreates, SignUpFails, OpenEdit, SignUp, sdk, cnt, Tap
<1>3. JobsGo(jobs, jobs')
  BY <1>1, <1>2, JobsStay
<1>4. reg[d] \in Handlers /\ reg[d].stage \in {"idle", "create", "created", "signIn"}
  BY <1>1 DEF Handlers
<1>5. Idle \in Handlers
  BY DEF Idle, Handlers
<1>6. CASE OpenRegister(d) \/ OpenEdit(d)
  <2>1. UNCHANGED <<account, torn, reg, taps>> /\ screen' \in [Devices -> {"login", "register", "dashboard", "edit"}]
    BY <1>1, <1>6 DEF OpenRegister, OpenEdit, cnt
  <2> QED BY <1>2, <1>3, <2>1 DEF AccountType
<1>7. CASE LeaveRegister(d)
  <2>1. [reg[d] EXCEPT !.mounted = FALSE] \in Handlers
    BY <1>4 DEF Handlers
  <2>2. /\ UNCHANGED <<account, torn, taps>> /\ screen' \in [Devices -> {"login", "register", "dashboard", "edit"}]
        /\ reg' = [reg EXCEPT ![d] = [reg[d] EXCEPT !.mounted = FALSE]]
    BY <1>1, <1>7 DEF LeaveRegister, cnt
  <2>3. reg' \in [Devices -> Handlers]
    BY <1>1, <2>1, <2>2
  <2> QED BY <1>2, <1>3, <2>2, <2>3 DEF AccountType
<1>8. CASE AuthCreates(d)
  <2>1. [reg[d] EXCEPT !.stage = "created"] \in Handlers
    BY <1>4 DEF Handlers
  <2>2. reg[d].user \in Users
    BY <1>8 DEF AuthCreates, HandlersKept
  <2>3. /\ UNCHANGED <<torn, taps, screen>> /\ account' = account \cup {reg[d].user}
        /\ reg' = [reg EXCEPT ![d] = [reg[d] EXCEPT !.stage = "created"]]
    BY <1>1, <1>8 DEF AuthCreates, cnt
  <2>4. reg' \in [Devices -> Handlers]
    BY <1>1, <2>1, <2>3
  <2>5. account' \subseteq Users /\ account \subseteq account'
    BY <1>1, <2>2, <2>3
  <2> QED BY <1>2, <1>3, <2>3, <2>4, <2>5 DEF AccountType
<1>9. CASE SignUpFails(d)
  <2>1. UNCHANGED <<account, taps, screen>> /\ reg' = [reg EXCEPT ![d] = Idle]
    BY <1>9 DEF SignUpFails, cnt
  <2>2. torn' \subseteq account
    BY <1>1, <1>9 DEF SignUpFails, HandlersKept
  <2>3. reg' \in [Devices -> Handlers]
    BY <1>1, <1>5, <2>1
  <2> QED BY <1>2, <1>3, <2>1, <2>2, <2>3 DEF AccountType
<1>10. CASE \E u \in Users : SignUp(d, u)
  <2>1. PICK u \in Users : SignUp(d, u)
    BY <1>10
  <2>2. PICK r : r = [stage |-> "create", user |-> u, mounted |-> TRUE]
    OBVIOUS
  <2>3. r \in Handlers
    BY <2>2 DEF Handlers
  <2>4. UNCHANGED <<account, torn, screen>> /\ reg' = [reg EXCEPT ![d] = r]
    BY <2>1, <2>2 DEF SignUp
  <2>5. reg' \in [Devices -> Handlers]
    BY <1>1, <2>3, <2>4
  <2>6. taps' \in 0..MaxTaps
    BY <1>1, <2>1, AccountAssumption DEF SignUp, Tap
  <2> QED BY <1>2, <1>3, <2>4, <2>5, <2>6 DEF AccountType
<1> QED BY <1>6, <1>7, <1>8, <1>9, <1>10

\* createUser is answered.
LEMMA SignedUpType ==
  ASSUME AccountType, HandlersKept, NEW d \in Devices, SignedUp(d)
  PROVE  /\ AccountType' /\ JobsGo(jobs, jobs')
         /\ reg[d].user \in account /\ ChangeUser(d, reg[d].user)
         /\ Write("set", reg[d].user, NewProfile, 0) \in Queued
         /\ \A e \in Devices, p \in Owners :
              queue'[e][p] = IF e = d /\ p = reg[d].user
                             THEN Append(queue[d][p], Write("set", reg[d].user, NewProfile, 0)) ELSE queue[e][p]
<1>1. PICK u \in account : u = reg[d].user
  BY DEF SignedUp, HandlersKept
<1>2. u \in Owners /\ u \in Users
  BY DEF AccountType, Owners
<1>3. PICK w \in Queued : w = Write("set", u, NewProfile, 0)
  BY <1>2 DEF Write, Queued, FirstWrites
<1>4. /\ queue' = [queue EXCEPT ![d][u] = Append(@, w)] /\ ChangeUser(d, u)
      /\ UNCHANGED <<account, storage, torn, jobs, doc, cache, welcomed, named, screen, shown, below, outs, taps, faults>>
  BY <1>1, <1>3 DEF SignedUp, SettingNewProfile, cnt
<1>5. /\ queue' \in [Devices -> [Owners -> Seq(Queued)]]
      /\ \A e \in Devices, p \in Owners :
           queue'[e][p] = IF e = d /\ p = u THEN Append(queue[d][u], w) ELSE queue[e][p]
  BY <1>2, <1>4, QueueType
<1>6. signed' \in [Devices -> account \cup {Nobody}] /\ sent' \in [Devices -> Nat]
  BY <1>4, ChangeUserType
<1>7. reg' \in [Devices -> Handlers] /\ late' \subseteq Devices
  <2>1. PICK r : r = reg[d]
    OBVIOUS
  <2>2. r \in Handlers /\ reg \in [Devices -> Handlers]
    BY <2>1 DEF AccountType
  <2>3. PICK t : t = [r EXCEPT !.stage = "signIn"]
    OBVIOUS
  <2>4. t \in Handlers /\ Idle \in Handlers
    BY <2>2, <2>3 DEF Handlers, Idle
  <2>5. reg' = [reg EXCEPT ![d] = IF r.mounted THEN t ELSE Idle]
    BY <2>1, <2>3, Zenon DEF SignedUp
  <2>6. late' \subseteq Devices
    BY Zenon DEF SignedUp, Late, AccountType
  <2> QED BY <2>2, <2>4, <2>5, <2>6
<1>8. JobsGo(jobs, jobs')
  BY <1>4, JobsStay DEF AccountType
<1>9. AccountType'
  BY <1>4, <1>5, <1>6, <1>7 DEF AccountType, Owners, Queued
<1>10. \A e \in Devices, p \in Owners : queue'[e][p] = IF e = d /\ p = u THEN Append(queue[d][p], w) ELSE queue[e][p]
  BY <1>5
<1> QED BY <1>1, <1>3, <1>4, <1>8, <1>9, <1>10

\* The login after the registration is answered, or throws.
LEMMA SignInAfterType ==
  ASSUME AccountType, HandlersKept, NEW d \in Devices, SignInAfter(d)
  PROVE  /\ AccountType' /\ JobsGo(jobs, jobs')
         /\ reg[d].user \in account
<1>1. PICK u \in account : u = reg[d].user
  BY DEF SignInAfter, HandlersKept
<1>2. UNCHANGED <<account, storage, torn, jobs, doc, queue, cache, welcomed, named, below, outs, taps, faults>>
  BY DEF SignInAfter, cnt
<1>3. Idle \in Handlers
  BY DEF Handlers, Idle
<1>4. reg' \in [Devices -> Handlers] /\ late' \subseteq Devices
  BY <1>3 DEF SignInAfter, Late, AccountType
<1>5. signed' \in [Devices -> account \cup {Nobody}] /\ sent' \in [Devices -> Nat]
  <2>1. CASE ChangeUser(d, u)
    BY <2>1, ChangeUserType
  <2>2. CASE UNCHANGED <<signed, sent, screen, shown>>
    BY <2>2 DEF AccountType
  <2> QED BY <1>1, <2>1, <2>2 DEF SignInAfter
<1>6. /\ screen' \in [Devices -> {"login", "register", "dashboard", "edit"}]
      /\ shown' \in [Devices -> account \cup {Nobody}]
  BY <1>1 DEF SignInAfter, AccountType
<1>7. JobsGo(jobs, jobs')
  BY <1>2, JobsStay DEF AccountType
<1>8. AccountType'
  BY <1>2, <1>4, <1>5, <1>6 DEF AccountType
<1> QED BY <1>1, <1>7, <1>8

\* Login, lost answers and a killed app.
LEMMA SessionType ==
  ASSUME AccountType, HandlersKept, NEW d \in Devices,
         (\E u \in Users : LogIn(d, u)) \/ AnswersLost(d) \/ Restart(d)
  PROVE  AccountType' /\ JobsGo(jobs, jobs') /\ Len(jobs') = Len(jobs)
<1>0. jobs \in Seq(Jobs)
  BY DEF AccountType
<1>2. CASE \E u \in Users : LogIn(d, u)
  <2>1. PICK u \in Users : LogIn(d, u)
    BY <1>2
  <2>2. UNCHANGED <<account, storage, torn, jobs, doc, queue, cache, welcomed, named, below, reg, outs, late, faults>>
    BY <2>1 DEF LogIn, Tap
  <2>3. signed' \in [Devices -> account \cup {Nobody}] /\ sent' \in [Devices -> Nat]
    BY <2>1, ChangeUserType DEF LogIn
  <2>4. /\ screen' \in [Devices -> {"login", "register", "dashboard", "edit"}]
        /\ shown' \in [Devices -> account \cup {Nobody}]
    BY <2>1 DEF LogIn, AccountType
  <2>5. taps' \in 0..MaxTaps
    BY <2>1, AccountAssumption DEF LogIn, Tap, AccountType
  <2>6. JobsGo(jobs, jobs')
    BY <1>0, <2>2, JobsStay
  <2> QED BY <2>2, <2>3, <2>4, <2>5, <2>6 DEF AccountType
<1>3. CASE AnswersLost(d)
  <2>1. UNCHANGED <<account, storage, signed, torn, jobs, doc, queue, cache, welcomed, named, screen, shown, below, reg, outs, late, taps>>
    BY <1>3 DEF AnswersLost, ui, Fault
  <2>2. sent' \in [Devices -> Nat]
    BY <1>3 DEF AnswersLost, AccountType
  <2>3. faults' \in 0..MaxFaults
    BY <1>3, AccountAssumption DEF AnswersLost, Fault, AccountType
  <2>4. JobsGo(jobs, jobs')
    BY <1>0, <2>1, JobsStay
  <2> QED BY <2>1, <2>2, <2>3, <2>4 DEF AccountType
<1>4. CASE Restart(d)
  <2>1. UNCHANGED <<account, storage, signed, doc, queue, cache, welcomed, named, taps>>
    BY <1>4, Zenon DEF Restart, Fault
  <2>2. sent' \in [Devices -> Nat]
    <3>1. sent' = [sent EXCEPT ![d] = 0]
      BY <1>4, Zenon DEF Restart
    <3> QED BY <3>1 DEF AccountType
  <2>3. faults' \in 0..MaxFaults
    <3>1. faults < MaxFaults /\ faults' = faults + 1
      BY <1>4, Zenon DEF Restart, Fault
    <3> QED BY <3>1, AccountAssumption DEF AccountType
  <2>4. jobs' = Killed(jobs, d)
    BY <1>4, Zenon DEF Restart, Killed
  <2>5. JobsGo(jobs, jobs') /\ Len(jobs') = Len(jobs)
    BY <1>0, <2>4, JobsUnmounted
  <2>6. jobs' \in Seq(Jobs) /\ Len(jobs') <= MaxJobs
    BY <2>5 DEF JobsGo, AccountType
  <2>7. torn' \subseteq account
    <3>1. torn' = IF reg[d].stage = "created" THEN torn \cup {reg[d].user} ELSE torn
      BY <1>4, Zenon DEF Restart
    <3> QED BY <3>1 DEF AccountType, HandlersKept
  <2>8. /\ screen' \in [Devices -> {"login", "register", "dashboard", "edit"}]
        /\ shown' \in [Devices -> account \cup {Nobody}] /\ late' \subseteq Devices
    <3>1. /\ screen' = [screen EXCEPT ![d] = "login"] /\ shown' = [shown EXCEPT ![d] = Nobody]
          /\ late' = late \ {d}
      BY <1>4, Zenon DEF Restart
    <3> QED BY <3>1 DEF AccountType
  <2>9. reg' \in [Devices -> Handlers]
    <3>1. reg' = [reg EXCEPT ![d] = Idle]
      BY <1>4, Zenon DEF Restart
    <3>2. Idle \in Handlers
      BY DEF Handlers, Idle
    <3> QED BY <3>1, <3>2 DEF AccountType
  <2>10. below' \in [Devices -> Seq(Routes)] /\ outs' \in [Devices -> Seq(SignOuts)]
    <3>1. below' = [below EXCEPT ![d] = <<>>] /\ outs' = [outs EXCEPT ![d] = <<>>]
      BY <1>4, Zenon DEF Restart
    <3>2. <<>> \in Seq(Routes) /\ <<>> \in Seq(SignOuts)
      OBVIOUS
    <3> QED BY <3>1, <3>2 DEF AccountType
  <2> QED BY <2>1, <2>2, <2>3, <2>5, <2>6, <2>7, <2>8, <2>9, <2>10 DEF AccountType
<1> QED BY <1>2, <1>3, <1>4


\* The newest of the old routes is taken off.
LEMMA RoutePopped ==
  ASSUME NEW b \in Seq(Routes), b # <<>>
  PROVE  \E n \in Nat :
           /\ Len(b) = n + 1 /\ DOMAIN b = 1..(n + 1) /\ b[n + 1] \in Routes
           /\ SubSeq(b, 1, Len(b) - 1) \in Seq(Routes) /\ Len(SubSeq(b, 1, Len(b) - 1)) = n
           /\ DOMAIN SubSeq(b, 1, Len(b) - 1) = 1..n
           /\ \A i \in 1..n : SubSeq(b, 1, Len(b) - 1)[i] = b[i]
<1>1. PICK m \in Nat : m = Len(b) /\ DOMAIN b = 1..m
  OBVIOUS
<1>2. m # 0
  BY <1>1
<1>3. PICK n \in Nat : m = n + 1
  BY <1>2
<1>4. m - 1 = n /\ n + 1 \in 1..(n + 1) /\ 1..n \subseteq 1..(n + 1)
  BY <1>3
<1>5. PICK c : c = SubSeq(b, 1, n)
  OBVIOUS
<1>6. c = [i \in 1..n |-> b[i]]
  BY <1>3, <1>5
<1>7. \A i \in 1..(n + 1) : b[i] \in Routes
  BY <1>1, <1>3
<1>8. c \in [1..n -> Routes]
  BY <1>4, <1>6, <1>7
<1>9. c \in Seq(Routes) /\ Len(c) = n /\ DOMAIN c = 1..n
  BY <1>8
<1>10. \A i \in 1..n : c[i] = b[i]
  BY <1>6
<1>11. SubSeq(b, 1, Len(b) - 1) = c
  BY <1>1, <1>4, <1>5
<1> QED BY <1>1, <1>3, <1>4, <1>7, <1>9, <1>10, <1>11

\* A route is left under the login, and a handler of Sign Out is added or ends.
LEMMA RoutePushed ==
  ASSUME NEW b \in Seq(Routes), NEW r \in Routes
  PROVE  /\ Append(b, r) \in Seq(Routes) /\ Append(b, r) # <<>> /\ Len(Append(b, r)) = Len(b) + 1
         /\ DOMAIN Append(b, r) = 1..(Len(b) + 1) /\ Len(b) \in Nat /\ DOMAIN b = 1..Len(b)
         /\ \A i \in 1..Len(b) : Append(b, r)[i] = b[i]
         /\ Append(b, r)[Len(b) + 1] = r
OBVIOUS
LEMMA OutsAdded ==
  ASSUME NEW q \in Seq(SignOuts), NEW o \in SignOuts
  PROVE  /\ Append(q, o) \in Seq(SignOuts) /\ DOMAIN q \subseteq DOMAIN Append(q, o)
         /\ \A k \in DOMAIN q : Append(q, o)[k] = q[k]
         /\ \A k \in DOMAIN Append(q, o) : k \in DOMAIN q \/ Append(q, o)[k] = o
OBVIOUS
LEMMA OutsEnded ==
  ASSUME NEW q \in Seq(SignOuts), q # <<>>
  PROVE  /\ Tail(q) \in Seq(SignOuts) /\ 1 \in DOMAIN q /\ Head(q) = q[1]
         /\ \A k \in DOMAIN Tail(q) : k + 1 \in DOMAIN q /\ Tail(q)[k] = q[k + 1]
         /\ \A k \in DOMAIN q : k = 1 \/ (k - 1 \in DOMAIN Tail(q) /\ Tail(q)[k - 1] = q[k])
OBVIOUS

\* The handlers of Sign Out after a pop.
LEMMA HomelessIs ==
  ASSUME NEW d, NEW q \in Seq(SignOuts), NEW hs, hs = Homeless(d, q)
  PROVE  /\ hs \in Seq(SignOuts) /\ DOMAIN hs = DOMAIN q
         /\ \A k \in DOMAIN q :
              hs[k].home = IF screen[d] = "dashboard" /\ q[k].home = Len(below[d]) + 1 THEN 0 ELSE q[k].home
<1>1. /\ DOMAIN hs = DOMAIN q
      /\ \A k \in DOMAIN q : hs[k] = IF screen[d] = "dashboard" /\ q[k].home = Len(below[d]) + 1
                                     THEN [q[k] EXCEPT !.home = 0] ELSE q[k]
  BY DEF Homeless
<1>2. ASSUME NEW k \in DOMAIN q
      PROVE  /\ hs[k] \in SignOuts
             /\ hs[k].home = IF screen[d] = "dashboard" /\ q[k].home = Len(below[d]) + 1 THEN 0 ELSE q[k].home
  <2>1. q[k] \in SignOuts
    OBVIOUS
  <2>2. CASE screen[d] = "dashboard" /\ q[k].home = Len(below[d]) + 1
    <3>1. hs[k] = [q[k] EXCEPT !.home = 0]
      BY <1>1, <2>2
    <3> QED BY <2>1, <2>2, <3>1 DEF SignOuts
  <2>3. CASE ~(screen[d] = "dashboard" /\ q[k].home = Len(below[d]) + 1)
    BY <1>1, <2>1, <2>3
  <2> QED BY <2>2, <2>3
<1>3. PICK n \in Nat : DOMAIN q = 1..n
  OBVIOUS
<1>4. hs = [k \in 1..n |-> hs[k]]
  BY <1>3 DEF Homeless
<1>5. hs \in [1..n -> SignOuts]
  BY <1>2, <1>3, <1>4
<1>6. hs \in Seq(SignOuts)
  BY <1>5
<1> QED BY <1>1, <1>2, <1>6

\* The top route is popped.
LEMMA UncoverType ==
  ASSUME AccountType, HandlersKept, NEW d \in Devices, Uncover(d)
  PROVE  /\ screen' \in [Devices -> {"login", "register", "dashboard", "edit"}]
         /\ shown' \in [Devices -> account \cup {Nobody}]
         /\ below' \in [Devices -> Seq(Routes)] /\ outs' \in [Devices -> Seq(SignOuts)]
<1>1. PICK b \in Seq(Routes) : b = below[d]
  BY DEF AccountType
<1>2. b # <<>>
  BY <1>1 DEF Uncover
<1>3. PICK n \in Nat : /\ Len(b) = n + 1 /\ DOMAIN b = 1..(n + 1) /\ b[n + 1] \in Routes
                       /\ SubSeq(b, 1, Len(b) - 1) \in Seq(Routes)
  BY <1>2, RoutePopped
<1>4. PICK r \in Routes : r = b[n + 1]
  BY <1>3
<1>5. r.screen \in {"login", "register", "dashboard", "edit"}
  BY DEF Routes
<1>6. r.shown \in account \cup {Nobody}
  <2>1. n + 1 \in DOMAIN b
    BY <1>3
  <2>2. b[n + 1].shown \in account \cup {Nobody}
    BY <1>1, <2>1 DEF HandlersKept, RoutesKept
  <2> QED BY <1>4, <2>2
<1>7. /\ screen' = [screen EXCEPT ![d] = r.screen] /\ shown' = [shown EXCEPT ![d] = r.shown]
      /\ below' = [below EXCEPT ![d] = SubSeq(b, 1, Len(b) - 1)]
  BY <1>1, <1>3, <1>4 DEF Uncover
<1>8. PICK q \in Seq(SignOuts) : q = outs[d]
  BY DEF AccountType
<1>9. PICK hs : hs = Homeless(d, q)
  OBVIOUS
<1>10. hs \in Seq(SignOuts)
  BY <1>9, HomelessIs
<1>11. outs' = [outs EXCEPT ![d] = hs]
  BY <1>8, <1>9 DEF Uncover
<1>12. outs' \in [Devices -> Seq(SignOuts)]
  BY <1>10, <1>11 DEF AccountType
<1>13. below' \in [Devices -> Seq(Routes)]
  BY <1>3, <1>7 DEF AccountType
<1> QED BY <1>5, <1>6, <1>7, <1>12, <1>13 DEF AccountType

\* What a sign-out leaves under the login.
LEMMA CoveredIs ==
  ASSUME AccountType, HandlersKept, NEW d \in Devices, NEW c, c = Covered(d)
  PROVE  \/ c = below[d] /\ screen[d] \in {"login", "dashboard"}
         \/ \E r \in Routes :
              /\ c = Append(below[d], r) /\ screen[d] \in {"register", "edit"}
              /\ r.shown \in account \cup {Nobody}
              /\ r.screen = "dashboard" => r.shown # Nobody
              /\ screen[d] = "edit" => r.screen = "dashboard"
<1>1. screen[d] \in {"login", "register", "dashboard", "edit"} /\ shown[d] \in account \cup {Nobody}
      /\ account \subseteq Users
  BY DEF AccountType
<1>2. CASE screen[d] = "edit"
  <2>1. PICK r : r = [screen |-> "dashboard", shown |-> shown[d]]
    OBVIOUS
  <2>2. r \in Routes /\ r.screen = "dashboard" /\ r.shown = shown[d]
    BY <1>1, <2>1 DEF Routes
  <2>3. shown[d] # Nobody
    BY <1>2 DEF HandlersKept
  <2>4. c = Append(below[d], r)
    BY <1>2, <2>1 DEF Covered
  <2> QED BY <1>1, <1>2, <2>2, <2>3, <2>4
<1>3. CASE screen[d] = "register"
  <2>1. PICK r : r = [screen |-> "login", shown |-> Nobody]
    OBVIOUS
  <2>2. r \in Routes /\ r.screen = "login" /\ r.shown = Nobody
    BY <2>1 DEF Routes
  <2>3. c = Append(below[d], r)
    BY <1>3, <2>1 DEF Covered
  <2> QED BY <1>3, <2>2, <2>3
<1>4. CASE screen[d] \in {"login", "dashboard"}
  BY <1>4 DEF Covered
<1> QED BY <1>1, <1>2, <1>3, <1>4

\* The steps of a sign-out and of the back button.
LEMMA SignOutType ==
  ASSUME AccountType, HandlersKept, NEW d \in Devices,
         \/ GoBack(d) \/ (\E u \in Users : LogInLeft(d, u))
         \/ TapSignOut(d) \/ AuthSignsOut(d) \/ SignOutThrows(d) \/ SignOutReturns(d)
  PROVE  AccountType' /\ JobsGo(jobs, jobs') /\ Len(jobs') = Len(jobs)
<1>0. jobs \in Seq(Jobs)
  BY DEF AccountType
<1>1. PICK q \in Seq(SignOuts) : q = outs[d]
  BY DEF AccountType
<1>2. PICK b \in Seq(Routes) : b = below[d]
  BY DEF AccountType
<1>3. CASE GoBack(d)
  <2>1. UNCHANGED <<account, storage, signed, torn, jobs, doc, queue, sent, cache, welcomed, named, reg, late, taps, faults>>
    BY <1>3 DEF GoBack, sdk, cnt
  <2>2. /\ screen' \in [Devices -> {"login", "register", "dashboard", "edit"}]
        /\ shown' \in [Devices -> account \cup {Nobody}]
        /\ below' \in [Devices -> Seq(Routes)] /\ outs' \in [Devices -> Seq(SignOuts)]
    BY <1>3, UncoverType DEF GoBack
  <2>3. JobsGo(jobs, jobs')
    BY <1>0, <2>1, JobsStay
  <2> QED BY <2>1, <2>2, <2>3 DEF AccountType
<1>4. CASE \E u \in Users : LogInLeft(d, u)
  <2>1. PICK u \in Users : LogInLeft(d, u)
    BY <1>4
  <2>2. UNCHANGED <<account, storage, torn, jobs, doc, queue, cache, welcomed, named, reg, late, faults>>
    BY <2>1 DEF LogInLeft, Tap
  <2>3. /\ screen' \in [Devices -> {"login", "register", "dashboard", "edit"}]
        /\ shown' \in [Devices -> account \cup {Nobody}]
        /\ below' \in [Devices -> Seq(Routes)] /\ outs' \in [Devices -> Seq(SignOuts)]
    BY <2>1, UncoverType DEF LogInLeft
  <2>4. signed' \in [Devices -> account \cup {Nobody}] /\ sent' \in [Devices -> Nat]
    BY <2>1, ChangeUserType DEF LogInLeft
  <2>5. taps' \in 0..MaxTaps
    BY <2>1, AccountAssumption DEF LogInLeft, Tap, AccountType
  <2>6. JobsGo(jobs, jobs')
    BY <1>0, <2>2, JobsStay
  <2> QED BY <2>2, <2>3, <2>4, <2>5, <2>6 DEF AccountType
<1>5. CASE TapSignOut(d)
  <2>1. UNCHANGED <<account, storage, signed, torn, jobs, doc, queue, sent, cache, welcomed, named, screen, shown, below, reg, late, taps, faults>>
    BY <1>5 DEF TapSignOut, sdk, cnt
  <2>2. PICK o : o = [home |-> Len(below[d]) + 1, done |-> FALSE]
    OBVIOUS
  <2>3. o \in SignOuts
    <3>1. PICK n \in Nat : n = Len(below[d])
      BY <1>2
    <3>2. n + 1 \in Nat
      OBVIOUS
    <3> QED BY <2>2, <3>1, <3>2 DEF SignOuts
  <2>4. Append(q, o) \in Seq(SignOuts)
    BY <2>3, OutsAdded
  <2>5. outs' = [outs EXCEPT ![d] = Append(q, o)]
    BY <1>1, <1>5, <2>2 DEF TapSignOut
  <2>6. outs' \in [Devices -> Seq(SignOuts)]
    BY <2>4, <2>5 DEF AccountType
  <2>7. JobsGo(jobs, jobs')
    BY <1>0, <2>1, JobsStay
  <2> QED BY <2>1, <2>6, <2>7 DEF AccountType
<1>6. CASE AuthSignsOut(d)
  <2>1. UNCHANGED <<account, storage, torn, jobs, doc, queue, cache, welcomed, named, screen, shown, below, reg, taps, faults>>
    BY <1>6 DEF AuthSignsOut, cnt
  <2>2. signed' \in [Devices -> account \cup {Nobody}] /\ sent' \in [Devices -> Nat]
    <3>1. CASE UNCHANGED <<signed, sent>>
      BY <3>1 DEF AccountType
    <3>2. CASE ChangeUser(d, Nobody)
      BY <3>2, ChangeUserType
    <3> QED BY <1>6, <3>1, <3>2 DEF AuthSignsOut
  <2>3. PICK k \in DOMAIN q : /\ outs' = [outs EXCEPT ![d][k].done = TRUE]
                              /\ IF outs[d][k].home = 0 THEN Late(d) ELSE UNCHANGED late
    BY <1>1, <1>6 DEF AuthSignsOut
  <2>4. PICK o : o = [q[k] EXCEPT !.done = TRUE]
    OBVIOUS
  <2>5. o \in SignOuts
    <3>1. q[k] \in SignOuts
      OBVIOUS
    <3> QED BY <2>4, <3>1 DEF SignOuts
  <2>6. PICK p : p = [q EXCEPT ![k] = o]
    OBVIOUS
  <2>7. p \in Seq(SignOuts)
    BY <2>5, <2>6
  <2>8. outs' = [outs EXCEPT ![d] = p]
    BY <1>1, <2>3, <2>4, <2>6 DEF AccountType
  <2>9. outs' \in [Devices -> Seq(SignOuts)]
    BY <2>7, <2>8 DEF AccountType
  <2>10. late' \subseteq Devices
    BY <2>3 DEF Late, AccountType
  <2>11. JobsGo(jobs, jobs')
    BY <1>0, <2>1, JobsStay
  <2> QED BY <2>1, <2>2, <2>9, <2>10, <2>11 DEF AccountType
<1>7. CASE SignOutThrows(d)
  <2>1. UNCHANGED <<account, storage, signed, torn, jobs, doc, queue, sent, cache, welcomed, named, screen, shown, below, reg, late, taps, faults>>
    BY <1>7 DEF SignOutThrows, sdk, cnt
  <2>2. outs' = [outs EXCEPT ![d] = Tail(q)] /\ q # <<>>
    BY <1>1, <1>7 DEF SignOutThrows
  <2>3. Tail(q) \in Seq(SignOuts)
    BY <2>2, OutsEnded
  <2>4. outs' \in [Devices -> Seq(SignOuts)]
    BY <2>2, <2>3 DEF AccountType
  <2>5. JobsGo(jobs, jobs')
    BY <1>0, <2>1, JobsStay
  <2> QED BY <2>1, <2>4, <2>5 DEF AccountType
<1>8. CASE SignOutReturns(d)
  <2>1. UNCHANGED <<account, storage, signed, torn, doc, queue, sent, cache, welcomed, named, taps, faults>>
    BY <1>8, Zenon DEF SignOutReturns, sdk, cnt
  <2>2. PICK c : c = Covered(d)
    OBVIOUS
  <2>3. c \in Seq(Routes)
    <3>1. CASE c = below[d]
      BY <1>2, <3>1
    <3>2. CASE \E r \in Routes : c = Append(below[d], r)
      BY <1>2, <3>2, RoutePushed
    <3> QED BY <2>2, <3>1, <3>2, CoveredIs
  <2>4. q # <<>> /\ Tail(q) \in Seq(SignOuts)
    BY <1>1, <1>8, OutsEnded DEF SignOutReturns
  <2>5. PICK hs : hs = Homeless(d, Tail(q))
    OBVIOUS
  <2>6. hs \in Seq(SignOuts)
    BY <2>4, <2>5, HomelessIs
  <2>7. PICK r : r = [reg[d] EXCEPT !.mounted = FALSE]
    OBVIOUS
  <2>8. r \in Handlers
    <3>1. reg[d] \in Handlers
      BY DEF AccountType
    <3> QED BY <2>7, <3>1 DEF Handlers
  <2>9. /\ screen' = [screen EXCEPT ![d] = "login"] /\ shown' = [shown EXCEPT ![d] = Nobody]
        /\ below' = [below EXCEPT ![d] = c] /\ outs' = [outs EXCEPT ![d] = hs] /\ reg' = [reg EXCEPT ![d] = r]
        /\ jobs' = Unmounted(d) /\ late' = IF c = <<>> THEN late \ {d} ELSE late \cup {d}
    BY <1>1, <1>8, <2>2, <2>5, <2>7, Zenon DEF SignOutReturns
  <2>10. /\ below' \in [Devices -> Seq(Routes)] /\ outs' \in [Devices -> Seq(SignOuts)]
         /\ reg' \in [Devices -> Handlers]
    BY <2>3, <2>6, <2>8, <2>9 DEF AccountType
  <2>11. /\ screen' \in [Devices -> {"login", "register", "dashboard", "edit"}]
         /\ shown' \in [Devices -> account \cup {Nobody}] /\ late' \subseteq Devices
    BY <2>9 DEF AccountType
  <2>12. jobs' = WithoutScreen(jobs, d)
    BY <2>9, UnmountedIs
  <2>13. JobsGo(jobs, jobs') /\ Len(jobs') = Len(jobs)
    BY <1>0, <2>12, JobsUnmounted
  <2>14. jobs' \in Seq(Jobs) /\ Len(jobs') <= MaxJobs
    BY <2>13 DEF JobsGo, AccountType
  <2> QED BY <2>1, <2>10, <2>11, <2>13, <2>14 DEF AccountType
<1> QED BY <1>3, <1>4, <1>5, <1>6, <1>7, <1>8

\* Steps of the forms and pictures that queue nothing.
LEMMA FormType ==
  ASSUME AccountType, HandlersKept,
         \/ \E d \in Devices : \/ LeaveEdit(d) \/ SelectImage(d)
                               \/ \E n \in Names, b \in Bios : ChangeDetails(d, n, b)
         \/ \E k \in DOMAIN jobs : \/ FormThrows(k) \/ Uploaded(k)
                                   \/ \E n \in Names, b \in Bios : Retype(k, n, b)
  PROVE  /\ AccountType' /\ JobsGo(jobs, jobs')
         /\ UNCHANGED <<account, signed, torn, doc, queue, sent, cache, welcomed, named, shown, below, reg, outs, late, taps, faults>>
<1>0. jobs \in Seq(Jobs) /\ Len(jobs) \in Nat
  BY JobFacts DEF AccountType
<1>1. UNCHANGED <<account, signed, torn, doc, queue, sent, cache, welcomed, named, shown, below, reg, outs, late, taps, faults>>
  <2>1. ASSUME NEW d \in Devices, LeaveEdit(d) \/ SelectImage(d) \/ \E n \in Names, b \in Bios : ChangeDetails(d, n, b)
        PROVE  UNCHANGED <<account, signed, torn, doc, queue, sent, cache, welcomed, named, shown, below, reg, outs, late, taps, faults>>
    BY <2>1 DEF LeaveEdit, SelectImage, ChangeDetails, sdk, ui, cnt
  <2>2. ASSUME NEW k \in DOMAIN jobs, FormThrows(k) \/ Uploaded(k) \/ \E n \in Names, b \in Bios : Retype(k, n, b)
        PROVE  UNCHANGED <<account, signed, torn, doc, queue, sent, cache, welcomed, named, shown, below, reg, outs, late, taps, faults>>
    BY <2>2 DEF FormThrows, Uploaded, Retype, sdk, ui, cnt
  <2> QED BY <2>1, <2>2
<1> DEFINE Same == screen' = screen /\ storage' = storage
<1>2. ASSUME NEW d \in Devices, LeaveEdit(d)
      PROVE  /\ JobsGo(jobs, jobs') /\ Len(jobs') <= MaxJobs /\ storage' = storage
             /\ screen' \in [Devices -> {"login", "register", "dashboard", "edit"}]
  <2>1. jobs' = WithoutScreen(jobs, d)
    BY <1>2, UnmountedIs DEF LeaveEdit
  <2>2. JobsGo(jobs, jobs') /\ Len(jobs') = Len(jobs)
    BY <1>0, <2>1, JobsUnmounted
  <2> QED BY <1>2, <2>2 DEF LeaveEdit, AccountType
<1>3. ASSUME NEW d \in Devices, SelectImage(d)
      PROVE  JobsGo(jobs, jobs') /\ Len(jobs') <= MaxJobs /\ Same
  <2>1. shown[d] \in Users
    BY <1>3 DEF SelectImage, HandlersKept, AccountType
  <2>2. Job("picture", d, shown[d], "", "") \in Jobs
    BY <2>1 DEF Job, Jobs, Names, Bios
  <2>3. JobsGo(jobs, jobs') /\ Len(jobs') = Len(jobs) + 1
    BY <1>0, <1>3, <2>2, JobsAdded DEF SelectImage
  <2>4. Len(jobs) + 1 <= MaxJobs
    <3>1. PICK a \in Nat : a = Len(jobs)
      BY <1>0
    <3>2. a < MaxJobs /\ MaxJobs \in Nat
      BY <1>3, <3>1, AccountAssumption DEF SelectImage
    <3>3. a + 1 <= MaxJobs
      BY <3>2
    <3> QED BY <3>1, <3>3
  <2> QED BY <1>3, <2>3, <2>4 DEF SelectImage, ui
<1>4. ASSUME NEW d \in Devices, NEW n \in Names, NEW b \in Bios, ChangeDetails(d, n, b)
      PROVE  JobsGo(jobs, jobs') /\ Len(jobs') <= MaxJobs /\ Same
  <2>1. signed[d] \in Users
    BY <1>4 DEF ChangeDetails, AccountType
  <2>2. Job("form", d, signed[d], n, b) \in Jobs
    BY <2>1 DEF Job, Jobs
  <2>3. JobsGo(jobs, jobs') /\ Len(jobs') = Len(jobs) + 1
    <3>1. PICK j \in Jobs : j = Job("form", d, signed[d], n, b)
      BY <2>2
    <3>2. jobs' = Append(jobs, j)
      BY <1>4, <3>1 DEF ChangeDetails
    <3> QED BY <1>0, <3>2, JobsAdded
  <2>4. Len(jobs) + 1 <= MaxJobs
    <3>1. PICK a \in Nat : a = Len(jobs)
      BY <1>0
    <3>2. a < MaxJobs /\ MaxJobs \in Nat
      BY <1>4, <3>1, AccountAssumption DEF ChangeDetails
    <3>3. a + 1 <= MaxJobs
      BY <3>2
    <3> QED BY <3>1, <3>3
  <2> QED BY <1>4, <2>3, <2>4 DEF ChangeDetails, ui
<1>5. ASSUME NEW k \in DOMAIN jobs, FormThrows(k)
      PROVE  JobsGo(jobs, jobs') /\ Len(jobs') <= MaxJobs /\ Same
  <2>1. jobs' = Staged(jobs, k, "done")
    BY <1>5 DEF FormThrows, Staged
  <2>2. JobsGo(jobs, jobs') /\ Len(jobs') = Len(jobs)
    BY <1>0, <2>1, JobsStaged
  <2> QED BY <1>5, <2>2 DEF FormThrows, ui, AccountType
<1>6. ASSUME NEW k \in DOMAIN jobs, Uploaded(k)
      PROVE  JobsGo(jobs, jobs') /\ Len(jobs') <= MaxJobs /\ screen' = screen /\ storage' \subseteq Users
  <2>1. jobs' = Staged(jobs, k, "url")
    BY <1>6 DEF Uploaded, Staged
  <2>2. JobsGo(jobs, jobs') /\ Len(jobs') = Len(jobs)
    BY <1>0, <2>1, JobsStaged
  <2>3. jobs[k].user \in Users
    BY <1>0, JobFacts
  <2> QED BY <1>6, <2>2, <2>3 DEF Uploaded, ui, AccountType
<1>7. ASSUME NEW k \in DOMAIN jobs, NEW n \in Names, NEW b \in Bios, Retype(k, n, b)
      PROVE  JobsGo(jobs, jobs') /\ Len(jobs') <= MaxJobs /\ Same
  <2>1. jobs' = Retyped(jobs, k, n, b) /\ jobs[k].stage = "get"
    BY <1>7 DEF Retype, Retyped
  <2>2. JobsGo(jobs, jobs') /\ Len(jobs') = Len(jobs)
    BY <1>0, <2>1, JobsRetyped
  <2> QED BY <1>7, <2>2 DEF Retype, ui, AccountType
<1>8. /\ JobsGo(jobs, jobs') /\ Len(jobs') <= MaxJobs /\ storage' \subseteq Users
      /\ screen' \in [Devices -> {"login", "register", "dashboard", "edit"}]
  <2>1. storage \subseteq Users /\ screen \in [Devices -> {"login", "register", "dashboard", "edit"}]
    BY DEF AccountType
  <2> QED BY <2>1, <1>2, <1>3, <1>4, <1>5, <1>6, <1>7
<1>9. jobs' \in Seq(Jobs)
  BY <1>8 DEF JobsGo
<1> QED BY <1>1, <1>8, <1>9 DEF AccountType

\* The k-th handler, of the form j on d, queues its update after a read for u.
FormQueues(j, d, u, k) ==
  \E c \in {doc[u], cache[d][u]}, v \in Queued :
    /\ View(d, u, c) # None
    /\ v = Write("update", signed[d], Patch(j, View(d, u, c)), k)
    /\ cache' = [cache EXCEPT ![d][u] = Known(c)]
    /\ \A e \in Devices, p \in Owners :
         queue'[e][p] = IF e = d /\ p = signed[e] THEN Append(queue[e][p], v) ELSE queue[e][p]

\* The form has read what there is and queues its update.
LEMMA FormReadType ==
  ASSUME AccountType, HandlersKept, NEW k \in DOMAIN jobs, NEW online \in BOOLEAN, FormRead(k, online),
         NEW j \in Jobs, jobs[k] = j, NEW d \in Devices, j.dev = d, NEW u \in Users, j.user = u
  PROVE  /\ AccountType' /\ JobsGo(jobs, jobs') /\ Len(jobs') = Len(jobs)
         /\ \A i \in DOMAIN jobs : jobs'[i].mounted = jobs[i].mounted
         /\ j.kind = "form"
         /\ jobs'[k].stage = "update" /\ jobs'[k].name = j.name /\ jobs'[k].bio = j.bio
         /\ signed[d] \in account
         /\ UNCHANGED <<account, storage, signed, torn, doc, sent, welcomed, named, screen, shown, below, reg, outs, late, taps, faults>>
         /\ FormQueues(j, d, u, k)
<1>0. jobs \in Seq(Jobs)
  BY DEF AccountType
<1>4. PICK content \in {doc[u], cache[d][u]} : content = IF online THEN doc[u] ELSE cache[d][u]
  OBVIOUS
<1>5. PICK old : old = View(d, u, content)
  OBVIOUS
<1>6. /\ j.kind = "form" /\ j.stage = "get" /\ old # None /\ signed[d] # Nobody
      /\ queue' = [queue EXCEPT ![d][signed[d]] = Append(@, Write("update", signed[d], Patch(j, old), k))]
      /\ cache' = [cache EXCEPT ![d][u] = Known(content)]
      /\ jobs' = Staged(jobs, k, "update")
  BY <1>4, <1>5, Zenon DEF FormRead, Target, Staged
<1>7. UNCHANGED <<account, storage, signed, torn, doc, sent, welcomed, named, screen, shown, below, reg, outs, late, taps, faults>>
  BY DEF FormRead, ui, cnt
<1>8. signed[d] \in account /\ signed[d] \in Owners /\ signed[d] \in Users
  BY <1>6 DEF AccountType, Owners
<1>9. PICK w \in Queued : w = Write("update", signed[d], Patch(j, old), k)
  <2>1. k \in Nat
    BY <1>0
  <2>2. Patch(j, old) \in Patches
    BY PatchType
  <2> QED BY <1>8, <2>1, <2>2 DEF Write, Queued, Updates
<1>10. /\ queue' \in [Devices -> [Owners -> Seq(Queued)]]
       /\ \A e \in Devices, p \in Owners :
            queue'[e][p] = IF e = d /\ p = signed[d] THEN Append(queue[d][signed[d]], w) ELSE queue[e][p]
  <2>1. PICK o \in Owners : o = signed[d]
    BY <1>8
  <2>2. queue' = [queue EXCEPT ![d][o] = Append(@, w)]
    BY <1>6, <1>9, <2>1
  <2>3. /\ queue' \in [Devices -> [Owners -> Seq(Queued)]]
        /\ \A e \in Devices, p \in Owners :
             queue'[e][p] = IF e = d /\ p = o THEN Append(queue[d][o], w) ELSE queue[e][p]
    <3>1. PICK q \in Seq(Queued) : q = Append(queue[d][o], w)
      BY QueueFacts, Appended
    <3>2. queue' = [queue EXCEPT ![d][o] = q]
      BY <2>2, <3>1
    <3>3. queue \in [Devices -> [Owners -> Seq(Queued)]]
      BY DEF AccountType, Owners, Queued
    <3> QED BY <3>1, <3>2, <3>3
  <2> QED BY <2>1, <2>3
<1>11. cache' \in [Devices -> [Users -> [name : Names, bio : Bios] \cup {None}]]
  <2>1. doc[u] \in Profile \cup {None} /\ cache[d][u] \in [name : Names, bio : Bios] \cup {None}
    BY DEF AccountType
  <2>2. content = None \/ (content.name \in Names /\ content.bio \in Bios)
    BY <1>4, <2>1 DEF Profile
  <2>3. PICK c : c = Known(content)
    OBVIOUS
  <2>4. c \in [name : Names, bio : Bios] \cup {None}
    BY <2>2, <2>3 DEF Known
  <2>5. cache' = [cache EXCEPT ![d][u] = c]
    BY <1>6, <2>3
  <2> QED BY <2>4, <2>5 DEF AccountType
<1>12. /\ JobsGo(jobs, jobs') /\ Len(jobs') = Len(jobs)
       /\ jobs'[k].stage = "update" /\ jobs'[k].name = jobs[k].name /\ jobs'[k].bio = jobs[k].bio
       /\ \A i \in DOMAIN jobs : jobs'[i].mounted = jobs[i].mounted
  BY <1>0, <1>6, JobsStaged
<1>13. jobs' \in Seq(Jobs) /\ Len(jobs') <= MaxJobs
  BY <1>12 DEF JobsGo, AccountType
<1>14. AccountType'
  BY <1>7, <1>10, <1>11, <1>13 DEF AccountType, Owners, Queued
<1>15. \A e \in Devices, p \in Owners : queue'[e][p] = IF e = d /\ p = signed[e] THEN Append(queue[e][p], w) ELSE queue[e][p]
  BY <1>10
<1>16. FormQueues(j, d, u, k)
  <2>1. \E c \in {doc[u], cache[d][u]}, v \in Queued :
          /\ View(d, u, c) # None
          /\ v = Write("update", signed[d], Patch(j, View(d, u, c)), k)
          /\ cache' = [cache EXCEPT ![d][u] = Known(c)]
          /\ \A e \in Devices, p \in Owners :
               queue'[e][p] = IF e = d /\ p = signed[e] THEN Append(queue[e][p], v) ELSE queue[e][p]
    <3>1. WITNESS content \in {doc[u], cache[d][u]}, w \in Queued
    <3> QED BY <1>5, <1>6, <1>9, <1>15
  <2> QED BY <2>1, Zenon DEF FormQueues
<1> QED BY <1>6, <1>7, <1>8, <1>12, <1>14, <1>16

\* The URL is there or missing, and the update of the picture queued.
LEMMA GotURLType ==
  ASSUME AccountType, HandlersKept, NEW k \in DOMAIN jobs, NEW url \in Pictures, GotURL(k, url)
  PROVE  /\ AccountType' /\ JobsGo(jobs, jobs') /\ Len(jobs') = Len(jobs)
         /\ \A i \in DOMAIN jobs : jobs'[i].mounted = jobs[i].mounted
         /\ jobs[k].dev \in Devices /\ jobs[k].user \in account
         /\ UNCHANGED <<account, storage, signed, torn, doc, sent, cache, welcomed, named, screen, shown, below, reg, outs, late, taps, faults>>
         /\ \E w \in Queued :
              /\ w = Write("update", jobs[k].user, [pic |-> url], 0)
              /\ \A e \in Devices, p \in Owners :
                   queue'[e][p] = IF e = jobs[k].dev /\ p = signed[e] THEN Append(queue[e][p], w) ELSE queue[e][p]
<1>0. jobs \in Seq(Jobs)
  BY DEF AccountType
<1>1. PICK j \in Jobs : j = jobs[k]
  BY <1>0, JobFacts
<1>2. PICK d \in Devices : d = j.dev
  BY <1>1 DEF Jobs
<1>3. PICK u \in Users : u = j.user
  BY <1>1 DEF Jobs
<1>4. url \in {"", "own"}
  BY DEF GotURL
<1>5. PICK w \in Queued : w = Write("update", u, [pic |-> url], 0)
  <2>1. [pic |-> url] \in Patches
    BY <1>4 DEF Patches
  <2> QED BY <2>1 DEF Write, Queued, Updates
<1>6. queue' = [queue EXCEPT ![d][signed[d]] = Append(@, w)] /\ jobs' = Staged(jobs, k, "done")
  BY <1>1, <1>2, <1>3, <1>5, Zenon DEF GotURL, Staged
<1>7. UNCHANGED <<account, storage, signed, torn, doc, sent, cache, welcomed, named, screen, shown, below, reg, outs, late, taps, faults>>
  BY DEF GotURL, ui, cnt
<1>8. /\ queue' \in [Devices -> [Owners -> Seq(Queued)]]
      /\ \A e \in Devices, p \in Owners :
           queue'[e][p] = IF e = d /\ p = signed[d] THEN Append(queue[d][signed[d]], w) ELSE queue[e][p]
  <2>1. PICK o \in Owners : o = signed[d]
    BY MineFacts
  <2>2. queue' = [queue EXCEPT ![d][o] = Append(@, w)]
    BY <1>6, <2>1
  <2>3. /\ queue' \in [Devices -> [Owners -> Seq(Queued)]]
        /\ \A e \in Devices, p \in Owners :
             queue'[e][p] = IF e = d /\ p = o THEN Append(queue[d][o], w) ELSE queue[e][p]
    <3>1. PICK q \in Seq(Queued) : q = Append(queue[d][o], w)
      BY QueueFacts, Appended
    <3>2. queue' = [queue EXCEPT ![d][o] = q]
      BY <2>2, <3>1
    <3>3. queue \in [Devices -> [Owners -> Seq(Queued)]]
      BY DEF AccountType, Owners, Queued
    <3> QED BY <3>1, <3>2, <3>3
  <2> QED BY <2>1, <2>3
<1>9. /\ JobsGo(jobs, jobs') /\ Len(jobs') = Len(jobs)
      /\ \A i \in DOMAIN jobs : jobs'[i].mounted = jobs[i].mounted
  BY <1>0, <1>6, JobsStaged
<1>10. jobs' \in Seq(Jobs) /\ Len(jobs') <= MaxJobs
  BY <1>9 DEF JobsGo, AccountType
<1>11. AccountType'
  BY <1>7, <1>8, <1>10 DEF AccountType, Owners, Queued
<1>12. \A e \in Devices, p \in Owners : queue'[e][p] = IF e = d /\ p = signed[e] THEN Append(queue[e][p], w) ELSE queue[e][p]
  BY <1>8
<1>13. u \in account
  BY <1>1, <1>3 DEF HandlersKept
<1> QED BY <1>1, <1>2, <1>3, <1>5, <1>7, <1>9, <1>11, <1>12, <1>13

-----------------------------------------------------------------------------
(***************************************************************************)
(* Screens and their handlers                                              *)
(***************************************************************************)
\* What both invariants say of one device.
OfSigned(d) == signed[d] = shown[d] \/ (signed[d] = Nobody /\ SigningOut(d))
DeviceKept(d) ==
  /\ reg[d].stage # "idle" => reg[d].user \in Users
  /\ reg[d].stage \in {"created", "signIn"} => reg[d].user \in account
  /\ reg[d].mounted => screen[d] = "register"
  /\ screen[d] \in {"dashboard", "edit"} => shown[d] # Nobody
  /\ RoutesKept(d)
  /\ \A k \in DOMAIN jobs : jobs[k].dev = d /\ jobs[k].mounted => screen[d] = "edit"
  /\ screen[d] \in {"dashboard", "edit"} /\ d \notin late =>
       /\ OfSigned(d)
       /\ \A k \in DOMAIN jobs : jobs[k].dev = d /\ jobs[k].mounted => jobs[k].user = shown[d]

\* The routes and the handlers of Sign Out are left alone, and a dashboard stays one.
LEMMA RoutesStay ==
  ASSUME NEW d, RoutesKept(d), account \subseteq account', below'[d] = below[d], outs'[d] = outs[d],
         d \in late => d \in late',
         screen[d] \in {"dashboard", "edit"} => screen'[d] \in {"dashboard", "edit"}
  PROVE  RoutesKept(d)'
BY DEF RoutesKept
LEMMA SigningStays ==
  ASSUME NEW d, below'[d] = below[d], outs'[d] = outs[d]
  PROVE  SigningOut(d)' <=> SigningOut(d)
BY DEF SigningOut

\* The two invariants, device by device.
LEMMA DevicesKept ==
  ASSUME AccountType, HandlersKept, DashboardOfSigned
  PROVE  (\A d \in Devices : DeviceKept(d)) /\ \A k \in DOMAIN jobs : jobs[k].user \in account
<1>1. \A k \in DOMAIN jobs : jobs[k].dev \in Devices
  BY JobFacts DEF AccountType
<1> QED BY <1>1 DEF HandlersKept, DashboardOfSigned, DeviceKept, OfSigned

\* And after a step.
LEMMA DevicesKeptNext ==
  ASSUME AccountType', \A d \in Devices : DeviceKept(d)', \A k \in DOMAIN jobs' : jobs'[k].user \in account'
  PROVE  HandlersKept' /\ DashboardOfSigned'
<1>1. \A k \in DOMAIN jobs' : jobs'[k].dev \in Devices
  BY JobFacts DEF AccountType
<1> QED BY <1>1 DEF HandlersKept, DashboardOfSigned, DeviceKept, OfSigned

\* A device on which nothing happens, while handlers of others go on.
LEMMA DeviceStays ==
  ASSUME AccountType, AccountType', NEW d \in Devices, DeviceKept(d), account \subseteq account',
         reg'[d] = reg[d], screen'[d] = screen[d], shown'[d] = shown[d], signed'[d] = signed[d],
         below'[d] = below[d], outs'[d] = outs[d], d \in late' <=> d \in late,
         \A k \in DOMAIN jobs' : jobs'[k].dev = d /\ jobs'[k].mounted =>
           k \in DOMAIN jobs /\ jobs[k].dev = d /\ jobs[k].mounted /\ jobs'[k].user = jobs[k].user
  PROVE  DeviceKept(d)'
<1>1. RoutesKept(d)' /\ (SigningOut(d)' <=> SigningOut(d))
  BY RoutesStay, SigningStays DEF DeviceKept
<1> QED BY <1>1 DEF DeviceKept, OfSigned

\* The users of the handlers have accounts.
LEMMA JobUsers ==
  ASSUME AccountType, JobsGo(jobs, jobs'), Len(jobs') = Len(jobs), account \subseteq account',
         \A k \in DOMAIN jobs : jobs[k].user \in account
  PROVE  /\ \A k \in DOMAIN jobs' : jobs'[k].user \in account'
         /\ \A k \in DOMAIN jobs' :
              /\ k \in DOMAIN jobs /\ jobs'[k].dev = jobs[k].dev /\ jobs'[k].user = jobs[k].user
              /\ jobs'[k].mounted => jobs[k].mounted
<1>1. DOMAIN jobs' = DOMAIN jobs
  BY JobFacts DEF JobsGo, AccountType
<1> QED BY <1>1 DEF JobsGo

\* Steps that leave all screens alone.
LEMMA QuietScreens ==
  ASSUME AccountType, AccountType', HandlersKept, DashboardOfSigned, JobsGo(jobs, jobs'), Len(jobs') = Len(jobs),
         UNCHANGED <<account, signed, screen, shown, below, reg, outs, late>>
  PROVE  HandlersKept' /\ DashboardOfSigned'
<1>1. (\A d \in Devices : DeviceKept(d)) /\ \A k \in DOMAIN jobs : jobs[k].user \in account
  BY DevicesKept
<1>2. /\ \A k \in DOMAIN jobs' : jobs'[k].user \in account'
      /\ \A k \in DOMAIN jobs' :
           /\ k \in DOMAIN jobs /\ jobs'[k].dev = jobs[k].dev /\ jobs'[k].user = jobs[k].user
           /\ jobs'[k].mounted => jobs[k].mounted
  BY <1>1, JobUsers
<1>3. \A d \in Devices : DeviceKept(d)'
  BY <1>1, <1>2, DeviceStays
<1> QED BY <1>2, <1>3, DevicesKeptNext

\* A step on one device: the others stay.
LEMMA OneDevice ==
  ASSUME AccountType, AccountType', HandlersKept, DashboardOfSigned, JobsGo(jobs, jobs'), Len(jobs') = Len(jobs),
         account \subseteq account', NEW d \in Devices, DeviceKept(d)',
         \A e \in Devices \ {d} : /\ reg'[e] = reg[e] /\ screen'[e] = screen[e] /\ shown'[e] = shown[e]
                                  /\ signed'[e] = signed[e] /\ (e \in late' <=> e \in late)
                                  /\ below'[e] = below[e] /\ outs'[e] = outs[e]
  PROVE  HandlersKept' /\ DashboardOfSigned'
<1>1. (\A e \in Devices : DeviceKept(e)) /\ \A k \in DOMAIN jobs : jobs[k].user \in account
  BY DevicesKept
<1>2. /\ \A k \in DOMAIN jobs' : jobs'[k].user \in account'
      /\ \A k \in DOMAIN jobs' :
           /\ k \in DOMAIN jobs /\ jobs'[k].dev = jobs[k].dev /\ jobs'[k].user = jobs[k].user
           /\ jobs'[k].mounted => jobs[k].mounted
  BY <1>1, JobUsers
<1>3. ASSUME NEW e \in Devices, e # d PROVE DeviceKept(e)'
  BY <1>1, <1>2, <1>3, DeviceStays
<1>4. \A e \in Devices : DeviceKept(e)'
  BY <1>3
<1> QED BY <1>2, <1>4, DevicesKeptNext

\* The steps of the registration and of the screens.
LEMMA ScreenKeeps ==
  ASSUME AccountType, AccountType', HandlersKept, DashboardOfSigned, NEW d \in Devices,
         \/ OpenRegister(d) \/ LeaveRegister(d) \/ AuthCreates(d) \/ SignUpFails(d) \/ OpenEdit(d)
         \/ \E u \in Users : SignUp(d, u)
  PROVE  HandlersKept' /\ DashboardOfSigned'
<1>1. UNCHANGED <<signed, jobs, shown, below, outs, late>>
  BY DEF OpenRegister, LeaveRegister, AuthCreates, SignUpFails, OpenEdit, SignUp
<1>2. JobsGo(jobs, jobs') /\ Len(jobs') = Len(jobs)
  BY <1>1, JobsStay DEF AccountType
<1>3. DeviceKept(d) /\ reg[d] \in Handlers /\ reg \in [Devices -> Handlers] /\ DOMAIN screen = Devices
  BY DevicesKept DEF AccountType
<1>4. /\ reg[d].mounted => screen[d] = "register"
      /\ SigningOut(d)' <=> SigningOut(d)
      /\ account \subseteq account' /\ (screen[d] \in {"dashboard", "edit"} => screen'[d] \in {"dashboard", "edit"})
           => RoutesKept(d)'
  BY <1>1, <1>3, RoutesStay, SigningStays DEF DeviceKept
<1>5. CASE OpenRegister(d) \/ OpenEdit(d)
  <2>1. UNCHANGED <<account, reg>> /\ screen' = [screen EXCEPT ![d] = screen'[d]]
    BY <1>3, <1>5 DEF OpenRegister, OpenEdit
  <2>2. \/ screen[d] = "login" /\ screen'[d] = "register"
        \/ screen[d] = "dashboard" /\ screen'[d] = "edit"
    BY <1>3, <1>5 DEF OpenRegister, OpenEdit
  <2>3. DeviceKept(d)'
    BY <1>1, <1>3, <1>4, <2>1, <2>2 DEF DeviceKept, OfSigned
  <2> QED BY <1>1, <1>2, <1>3, <2>1, <2>3, OneDevice
<1>6. CASE LeaveRegister(d)
  <2>1. account' = account /\ screen[d] = "register" /\ screen' = [screen EXCEPT ![d] = "login"]
    BY <1>6, Zenon DEF LeaveRegister
  <2>2. /\ \A e \in Devices \ {d} : reg'[e] = reg[e]
        /\ reg'[d].stage = reg[d].stage /\ reg'[d].user = reg[d].user /\ reg'[d].mounted = FALSE
    BY <1>3, <1>6 DEF LeaveRegister, Handlers
  <2>3. screen'[d] = "login" /\ \A e \in Devices \ {d} : screen'[e] = screen[e]
    BY <1>3, <2>1
  <2>4. DeviceKept(d)'
    BY <1>1, <1>3, <1>4, <2>1, <2>2, <2>3 DEF DeviceKept, OfSigned
  <2> QED BY <1>1, <1>2, <2>1, <2>2, <2>3, <2>4, OneDevice
<1>7. CASE AuthCreates(d)
  <2>1. account' = account \cup {reg[d].user} /\ screen' = screen /\ reg[d].stage = "create"
    BY <1>7, Zenon DEF AuthCreates
  <2>2. /\ \A e \in Devices \ {d} : reg'[e] = reg[e]
        /\ reg'[d].stage = "created" /\ reg'[d].user = reg[d].user /\ reg'[d].mounted = reg[d].mounted
    BY <1>3, <1>7 DEF AuthCreates, Handlers
  <2>3. DeviceKept(d)'
    BY <1>1, <1>3, <1>4, <2>1, <2>2 DEF DeviceKept, OfSigned
  <2> QED BY <1>1, <1>2, <2>1, <2>2, <2>3, OneDevice
<1>8. CASE SignUpFails(d)
  <2>1. account' = account /\ screen' = screen /\ reg' = [reg EXCEPT ![d] = Idle]
    BY <1>8 DEF SignUpFails
  <2>2. /\ \A e \in Devices \ {d} : reg'[e] = reg[e]
        /\ reg'[d].stage = "idle" /\ reg'[d].mounted = FALSE
    BY <1>3, <2>1 DEF Idle
  <2>3. DeviceKept(d)'
    BY <1>1, <1>3, <1>4, <2>1, <2>2 DEF DeviceKept, OfSigned
  <2> QED BY <1>1, <1>2, <2>1, <2>2, <2>3, OneDevice
<1>9. CASE \E u \in Users : SignUp(d, u)
  <2>1. PICK u \in Users : SignUp(d, u)
    BY <1>9
  <2>2. account' = account /\ screen' = screen /\ screen[d] = "register"
    BY <2>1 DEF SignUp
  <2>3. /\ \A e \in Devices \ {d} : reg'[e] = reg[e]
        /\ reg'[d].stage = "create" /\ reg'[d].user = u
    BY <1>3, <2>1 DEF SignUp
  <2>4. DeviceKept(d)'
    BY <1>1, <1>3, <1>4, <2>2, <2>3 DEF DeviceKept, OfSigned
  <2> QED BY <1>1, <1>2, <2>2, <2>3, <2>4, OneDevice
<1> QED BY <1>5, <1>6, <1>7, <1>8, <1>9

\* The answer of createUser changes the user under the screens that are there.
LEMMA SignedUpKeeps ==
  ASSUME AccountType, AccountType', HandlersKept, DashboardOfSigned, NEW d \in Devices, SignedUp(d)
  PROVE  HandlersKept' /\ DashboardOfSigned'
<1>1. UNCHANGED <<account, jobs, screen, shown, below, outs>> /\ reg[d].stage = "created"
  BY Zenon DEF SignedUp
<1>2. JobsGo(jobs, jobs') /\ Len(jobs') = Len(jobs)
  BY <1>1, JobsStay DEF AccountType
<1>3. DeviceKept(d) /\ reg[d] \in Handlers /\ reg \in [Devices -> Handlers]
  BY DevicesKept DEF AccountType
<1>4. signed'[d] = reg[d].user /\ \A e \in Devices : e # d => signed'[e] = signed[e]
  BY SignedUpType, ChangeUserType
<1>5. late' = IF screen[d] \in {"dashboard", "edit"} THEN late \cup {d} ELSE late
  BY Zenon DEF SignedUp, Late
<1>6. /\ \A e \in Devices \ {d} : reg'[e] = reg[e]
      /\ \/ reg'[d].stage = "signIn" /\ reg'[d].user = reg[d].user /\ reg'[d].mounted = reg[d].mounted
         \/ reg'[d].stage = "idle" /\ reg'[d].mounted = FALSE
  <2>1. PICK r : r = reg[d]
    OBVIOUS
  <2>2. PICK t : t = [r EXCEPT !.stage = "signIn"]
    OBVIOUS
  <2>3. t.stage = "signIn" /\ t.user = r.user /\ t.mounted = r.mounted
    BY <1>3, <2>1, <2>2 DEF Handlers
  <2>4. reg' = [reg EXCEPT ![d] = IF r.mounted THEN t ELSE Idle]
    BY <2>1, <2>2, Zenon DEF SignedUp
  <2>5. reg'[d] = (IF r.mounted THEN t ELSE Idle) /\ \A e \in Devices \ {d} : reg'[e] = reg[e]
    BY <1>3, <2>4
  <2>6. Idle.stage = "idle" /\ Idle.mounted = FALSE
    BY DEF Idle
  <2>7. CASE r.mounted
    BY <2>1, <2>3, <2>5, <2>7
  <2>8. CASE ~r.mounted
    BY <2>5, <2>6, <2>8
  <2> QED BY <2>7, <2>8
<1>7. DeviceKept(d)'
  <2>1. RoutesKept(d)'
    BY <1>1, <1>3, <1>5, RoutesStay DEF DeviceKept
  <2> QED BY <1>1, <1>3, <1>5, <1>6, <2>1 DEF DeviceKept
<1>8. \A e \in Devices \ {d} : e \in late' <=> e \in late
  BY <1>5
<1> QED BY <1>1, <1>2, <1>4, <1>6, <1>7, <1>8, OneDevice

\* The login after the registration pushes the dashboard of its user, or leaves the screens.
LEMMA SignInAfterKeeps ==
  ASSUME AccountType, AccountType', HandlersKept, DashboardOfSigned, NEW d \in Devices, SignInAfter(d)
  PROVE  HandlersKept' /\ DashboardOfSigned'
<1>1. /\ UNCHANGED <<account, jobs, below, outs>> /\ reg[d].stage = "signIn" /\ reg' = [reg EXCEPT ![d] = Idle]
      /\ late' = IF screen[d] \in {"dashboard", "edit"} THEN late \cup {d} ELSE late
  BY DEF SignInAfter, Late
<1>2. JobsGo(jobs, jobs') /\ Len(jobs') = Len(jobs)
  BY <1>1, JobsStay DEF AccountType
<1>3. /\ DeviceKept(d) /\ reg \in [Devices -> Handlers] /\ DOMAIN screen = Devices /\ DOMAIN shown = Devices
      /\ reg[d].user \in account /\ Nobody \notin account
  BY DevicesKept, SignInAfterType, AccountAssumption DEF AccountType
<1>4. /\ \A e \in Devices \ {d} : reg'[e] = reg[e] /\ (e \in late' <=> e \in late)
      /\ reg'[d].stage = "idle" /\ reg'[d].mounted = FALSE
  BY <1>1, <1>3 DEF Idle
<1>5. CASE UNCHANGED <<signed, sent, screen, shown>>
  <2>1. DeviceKept(d)'
    <3>1. RoutesKept(d)' /\ (SigningOut(d)' <=> SigningOut(d))
      BY <1>1, <1>3, <1>5, RoutesStay, SigningStays DEF DeviceKept
    <3> QED BY <1>1, <1>3, <1>4, <1>5, <3>1 DEF DeviceKept, OfSigned
  <2> QED BY <1>1, <1>2, <1>4, <1>5, <2>1, OneDevice
<1>6. CASE /\ ChangeUser(d, reg[d].user)
           /\ screen' = [screen EXCEPT ![d] = IF reg[d].mounted THEN "dashboard" ELSE @]
           /\ shown' = [shown EXCEPT ![d] = IF reg[d].mounted THEN reg[d].user ELSE @]
  <2>1. signed'[d] = reg[d].user /\ \A e \in Devices : e # d => signed'[e] = signed[e]
    BY <1>3, <1>6, ChangeUserType
  <2>2. /\ \A e \in Devices \ {d} : screen'[e] = screen[e] /\ shown'[e] = shown[e]
        /\ reg[d].mounted => screen'[d] = "dashboard" /\ shown'[d] = reg[d].user
        /\ ~reg[d].mounted => screen'[d] = screen[d] /\ shown'[d] = shown[d]
    BY <1>3, <1>6
  <2>3. DeviceKept(d)'
    <3>0. RoutesKept(d)'
      BY <1>1, <1>3, <2>2, RoutesStay DEF DeviceKept
    <3>1. CASE reg[d].mounted
      <4>1. screen[d] = "register" /\ late' = late /\ \A k \in DOMAIN jobs : jobs[k].dev = d => ~jobs[k].mounted
        BY <1>1, <1>3, <3>1 DEF DeviceKept
      <4> QED BY <1>1, <1>3, <1>4, <2>1, <2>2, <3>0, <3>1, <4>1 DEF DeviceKept, OfSigned
    <3>2. CASE ~reg[d].mounted
      BY <1>1, <1>3, <1>4, <2>1, <2>2, <3>0, <3>2 DEF DeviceKept, OfSigned
    <3> QED BY <3>1, <3>2
  <2> QED BY <1>1, <1>2, <1>4, <2>1, <2>2, <2>3, OneDevice
<1> QED BY <1>5, <1>6 DEF SignInAfter

\* Login and a restart.
LEMMA SessionKeeps ==
  ASSUME AccountType, AccountType', HandlersKept, DashboardOfSigned, NEW d \in Devices,
         (\E u \in Users : LogIn(d, u)) \/ Restart(d)
  PROVE  HandlersKept' /\ DashboardOfSigned'
<1>1. JobsGo(jobs, jobs') /\ Len(jobs') = Len(jobs)
  BY SessionType
<1>2. /\ DeviceKept(d) /\ reg \in [Devices -> Handlers] /\ DOMAIN screen = Devices /\ DOMAIN shown = Devices
      /\ Nobody \notin account /\ jobs \in Seq(Jobs)
  BY DevicesKept, AccountAssumption DEF AccountType
<1>3. CASE \E u \in Users : LogIn(d, u)
  <2>1. PICK u \in Users : LogIn(d, u)
    BY <1>3
  <2>2. UNCHANGED <<account, jobs, below, reg, outs, late>> /\ screen[d] = "login" /\ u \in account
    BY <2>1 DEF LogIn
  <2>3. signed'[d] = u /\ \A e \in Devices : e # d => signed'[e] = signed[e]
    BY <2>1, <2>2, ChangeUserType DEF LogIn
  <2>4. /\ screen'[d] = "dashboard" /\ shown'[d] = u
        /\ \A e \in Devices \ {d} : screen'[e] = screen[e] /\ shown'[e] = shown[e]
    BY <1>2, <2>1 DEF LogIn
  <2>5. \A k \in DOMAIN jobs : jobs[k].dev = d => ~jobs[k].mounted
    BY <1>2, <2>2 DEF DeviceKept
  <2>6. DeviceKept(d)'
    <3>1. RoutesKept(d)'
      BY <1>2, <2>2, <2>4, RoutesStay DEF DeviceKept
    <3> QED BY <1>2, <2>2, <2>3, <2>4, <2>5, <3>1 DEF DeviceKept, OfSigned
  <2> QED BY <1>1, <2>2, <2>3, <2>4, <2>6, OneDevice
<1>4. CASE Restart(d)
  <2>1. /\ UNCHANGED <<account, signed>> /\ jobs' = Killed(jobs, d) /\ late' = late \ {d}
        /\ screen' = [screen EXCEPT ![d] = "login"] /\ shown' = [shown EXCEPT ![d] = Nobody]
        /\ reg' = [reg EXCEPT ![d] = Idle]
        /\ below' = [below EXCEPT ![d] = <<>>] /\ outs' = [outs EXCEPT ![d] = <<>>]
    BY <1>4, Zenon DEF Restart, Killed
  <2>2. /\ screen'[d] = "login" /\ reg'[d].stage = "idle" /\ reg'[d].mounted = FALSE
        /\ \A e \in Devices \ {d} : screen'[e] = screen[e] /\ shown'[e] = shown[e] /\ reg'[e] = reg[e]
        /\ below'[d] = <<>> /\ outs'[d] = <<>>
        /\ \A e \in Devices \ {d} : below'[e] = below[e] /\ outs'[e] = outs[e]
    BY <1>2, <2>1 DEF Idle, AccountType
  <2>3. DOMAIN jobs' = DOMAIN jobs /\ \A k \in DOMAIN jobs : jobs'[k].mounted => jobs[k].mounted /\ jobs[k].dev # d
    BY <1>2, <2>1, JobsUnmounted
  <2>4. \A k \in DOMAIN jobs : jobs'[k].dev = jobs[k].dev
    BY <1>1 DEF JobsGo
  <2>5. DeviceKept(d)'
    <3>1. RoutesKept(d)'
      BY <2>2 DEF RoutesKept
    <3> QED BY <2>2, <2>3, <2>4, <3>1 DEF DeviceKept
  <2>6. \A e \in Devices \ {d} : signed'[e] = signed[e] /\ (e \in late' <=> e \in late)
    BY <2>1
  <2> QED BY <1>1, <2>1, <2>2, <2>5, <2>6, OneDevice
<1> QED BY <1>3, <1>4

\* The top route is popped where there are older ones: a dashboard that shows then
\* is under the exception, and its handlers of Sign Out are on top again.
LEMMA UncoverKeeps ==
  ASSUME AccountType, AccountType', HandlersKept, DashboardOfSigned, NEW d \in Devices,
         Uncover(d), UNCHANGED <<account, jobs, reg, late>>,
         \A e \in Devices \ {d} : signed'[e] = signed[e]
  PROVE  HandlersKept' /\ DashboardOfSigned'
<1>1. PICK b \in Seq(Routes) : b = below[d]
  BY DEF AccountType
<1>2. b # <<>> /\ screen[d] \in {"login", "dashboard"}
  BY <1>1 DEF Uncover
<1>3. PICK n \in Nat : /\ Len(b) = n + 1 /\ DOMAIN b = 1..(n + 1) /\ b[n + 1] \in Routes
                       /\ Len(SubSeq(b, 1, Len(b) - 1)) = n
                       /\ DOMAIN SubSeq(b, 1, Len(b) - 1) = 1..n
                       /\ \A i \in 1..n : SubSeq(b, 1, Len(b) - 1)[i] = b[i]
  BY <1>2, RoutePopped
<1>4. PICK r \in Routes : r = b[n + 1]
  BY <1>3
<1>5. PICK c : c = SubSeq(b, 1, Len(b) - 1)
  OBVIOUS
<1>6. PICK q \in Seq(SignOuts) : q = outs[d]
  BY DEF AccountType
<1>7. PICK hs : hs = Homeless(d, q)
  OBVIOUS
<1>8. /\ DOMAIN hs = DOMAIN q
      /\ \A k \in DOMAIN q :
           hs[k].home = IF screen[d] = "dashboard" /\ q[k].home = Len(below[d]) + 1 THEN 0 ELSE q[k].home
  BY <1>7, HomelessIs
<1>9. /\ screen'[d] = r.screen /\ shown'[d] = r.shown /\ below'[d] = c /\ outs'[d] = hs
      /\ \A e \in Devices \ {d} : /\ screen'[e] = screen[e] /\ shown'[e] = shown[e]
                                  /\ below'[e] = below[e] /\ outs'[e] = outs[e]
  BY <1>1, <1>3, <1>4, <1>5, <1>6, <1>7 DEF Uncover, AccountType
<1>10. DeviceKept(d) /\ RoutesKept(d)
  BY DevicesKept DEF DeviceKept
<1>11. d \in late /\ d \in late'
  BY <1>1, <1>2, <1>10 DEF RoutesKept
<1>12. /\ n + 1 \in DOMAIN b /\ 1..n \subseteq DOMAIN b
       /\ \A i \in DOMAIN b : /\ b[i].shown \in account \cup {Nobody}
                              /\ b[i].screen = "dashboard" => b[i].shown # Nobody
  BY <1>1, <1>3, <1>10 DEF RoutesKept
<1>13. r.screen = "dashboard" => r.shown # Nobody
  BY <1>4, <1>12
<1>14. ASSUME NEW k \in DOMAIN hs
       PROVE  \/ hs[k].home = 0
              \/ hs[k].home \in DOMAIN c /\ c[hs[k].home].screen = "dashboard"
              \/ hs[k].home = Len(c) + 1 /\ r.screen = "dashboard"
  <2>1. PICK h : h = q[k].home
    OBVIOUS
  <2>2. \/ h = 0
        \/ h \in DOMAIN b /\ b[h].screen = "dashboard"
        \/ h = Len(b) + 1 /\ screen[d] \in {"dashboard", "edit"}
    BY <1>1, <1>6, <1>8, <1>10, <2>1 DEF RoutesKept
  <2>3. hs[k].home = IF screen[d] = "dashboard" /\ h = Len(b) + 1 THEN 0 ELSE h
    BY <1>1, <1>8, <2>1
  <2>4. CASE h = Len(b) + 1 /\ screen[d] \in {"dashboard", "edit"}
    <3>1. screen[d] = "dashboard"
      BY <1>2, <2>4
    <3>2. hs[k].home = 0
      BY <2>3, <2>4, <3>1
    <3> QED BY <3>2
  <2>5. CASE h = 0 /\ h # Len(b) + 1
    BY <2>3, <2>5
  <2>6. CASE h \in DOMAIN b /\ b[h].screen = "dashboard" /\ h # Len(b) + 1
    <3>1. hs[k].home = h
      BY <2>3, <2>6
    <3>2. h \in 1..(n + 1)
      BY <1>3, <2>6
    <3>3. h \in 1..n \/ h = n + 1
      BY <3>2
    <3>4. CASE h \in 1..n
      BY <1>3, <1>5, <2>6, <3>1, <3>4
    <3>5. CASE h = n + 1
      BY <1>3, <1>4, <1>5, <2>6, <3>1, <3>5
    <3> QED BY <3>3, <3>4, <3>5
  <2>7. 0 # Len(b) + 1
    <3>1. n + 1 + 1 # 0
      OBVIOUS
    <3> QED BY <1>3, <3>1
  <2>8. h \in DOMAIN b => h # Len(b) + 1
    <3>1. h \in 1..(n + 1) => h # n + 1 + 1
      OBVIOUS
    <3> QED BY <1>3, <3>1
  <2> QED BY <2>2, <2>4, <2>5, <2>6, <2>7, <2>8
<1>15. \A i \in DOMAIN c : /\ c[i].shown \in account \cup {Nobody}
                           /\ c[i].screen = "dashboard" => c[i].shown # Nobody
  BY <1>3, <1>5, <1>12
<1>16. RoutesKept(d)'
  BY <1>9, <1>11, <1>14, <1>15 DEF RoutesKept
<1>17. \A k \in DOMAIN jobs : jobs[k].dev = d => ~jobs[k].mounted
  BY <1>2, <1>10 DEF DeviceKept
<1>18. r.screen \in {"login", "dashboard"} /\ ~reg[d].mounted
  BY <1>2, <1>10 DEF Routes, DeviceKept
<1>19. DeviceKept(d)'
  BY <1>9, <1>10, <1>11, <1>13, <1>16, <1>17, <1>18 DEF DeviceKept
<1>20. JobsGo(jobs, jobs') /\ Len(jobs') = Len(jobs)
  BY JobsStay DEF AccountType
<1> QED BY <1>9, <1>19, <1>20, OneDevice

\* Firebase Auth has signed out for a handler whose dashboard is on top, or gone.
LEMMA AuthSignsOutKeeps ==
  ASSUME AccountType, AccountType', HandlersKept, DashboardOfSigned, NEW d \in Devices, AuthSignsOut(d)
  PROVE  HandlersKept' /\ DashboardOfSigned'
<1>1. UNCHANGED <<account, jobs, screen, shown, below, reg>>
  BY DEF AuthSignsOut
<1>2. PICK q \in Seq(SignOuts) : q = outs[d]
  BY DEF AccountType
<1>3. PICK k \in DOMAIN q : /\ outs' = [outs EXCEPT ![d][k].done = TRUE]
                            /\ IF outs[d][k].home = 0 THEN Late(d) ELSE UNCHANGED late
  BY <1>2 DEF AuthSignsOut
<1>4. PICK p : p = [q EXCEPT ![k].done = TRUE]
  OBVIOUS
<1>5. outs'[d] = p /\ \A e \in Devices \ {d} : outs'[e] = outs[e]
  BY <1>2, <1>3, <1>4 DEF AccountType
<1>6. DOMAIN p = DOMAIN q /\ p[k].done = TRUE /\ \A i \in DOMAIN q : p[i].home = q[i].home
  <2>1. q[k] \in SignOuts
    OBVIOUS
  <2>2. PICK o : o = [q[k] EXCEPT !.done = TRUE]
    OBVIOUS
  <2>3. o.done = TRUE /\ o.home = q[k].home
    BY <2>1, <2>2 DEF SignOuts
  <2>4. p = [q EXCEPT ![k] = o]
    BY <1>4, <2>2
  <2> QED BY <2>3, <2>4
<1>7. signed'[d] = Nobody /\ \A e \in Devices : e # d => signed'[e] = signed[e]
  <2>1. CASE signed[d] = Nobody /\ UNCHANGED <<signed, sent>>
    BY <2>1
  <2>2. CASE ChangeUser(d, Nobody)
    BY <2>2, ChangeUserType
  <2> QED BY <2>1, <2>2 DEF AuthSignsOut
<1>8. /\ late \subseteq late' /\ \A e \in Devices \ {d} : e \in late' <=> e \in late
      /\ q[k].home = 0 /\ screen[d] \in {"dashboard", "edit"} => d \in late'
  BY <1>2, <1>3 DEF Late
<1>9. DeviceKept(d) /\ RoutesKept(d)
  BY DevicesKept DEF DeviceKept
<1>10. RoutesKept(d)'
  <2>1. \A i \in DOMAIN p : LET h == p[i].home IN
          \/ h = 0
          \/ h \in DOMAIN below[d] /\ below[d][h].screen = "dashboard"
          \/ h = Len(below[d]) + 1 /\ screen[d] \in {"dashboard", "edit"}
    BY <1>2, <1>6, <1>9 DEF RoutesKept
  <2> QED BY <1>1, <1>5, <1>8, <1>9, <2>1 DEF RoutesKept
<1>11. screen[d] \in {"dashboard", "edit"} /\ d \notin late' => SigningOut(d)'
  <2> SUFFICES ASSUME screen[d] \in {"dashboard", "edit"}, d \notin late' PROVE SigningOut(d)'
    OBVIOUS
  <2>1. below[d] = <<>>
    BY <1>8, <1>9 DEF RoutesKept
  <2>2. DOMAIN below[d] = {}
    BY <2>1
  <2>3. q[k].home = Len(below[d]) + 1
    BY <1>2, <1>8, <1>9, <2>2 DEF RoutesKept
  <2> QED BY <1>1, <1>5, <1>6, <2>3 DEF SigningOut
<1>12. DeviceKept(d)'
  BY <1>1, <1>7, <1>8, <1>9, <1>10, <1>11 DEF DeviceKept, OfSigned
<1>13. JobsGo(jobs, jobs') /\ Len(jobs') = Len(jobs)
  BY <1>1, JobsStay DEF AccountType
<1> QED BY <1>1, <1>5, <1>7, <1>8, <1>12, <1>13, OneDevice

\* signOut returns to its handler, and the login is pushed over what is left.
LEMMA SignOutReturnsKeeps ==
  ASSUME AccountType, AccountType', HandlersKept, DashboardOfSigned, NEW d \in Devices, SignOutReturns(d)
  PROVE  HandlersKept' /\ DashboardOfSigned'
<1>1. PICK b \in Seq(Routes) : b = below[d]
  BY DEF AccountType
<1>2. PICK q \in Seq(SignOuts) : q = outs[d]
  BY DEF AccountType
<1>3. q # <<>>
  BY <1>2 DEF SignOutReturns
<1>4. PICK t : t = Tail(q)
  OBVIOUS
<1>5. t \in Seq(SignOuts) /\ \A k \in DOMAIN t : k + 1 \in DOMAIN q /\ t[k] = q[k + 1]
  BY <1>3, <1>4, OutsEnded
<1>6. PICK hs : hs = Homeless(d, t)
  OBVIOUS
<1>7. /\ DOMAIN hs = DOMAIN t
      /\ \A k \in DOMAIN t :
           hs[k].home = IF screen[d] = "dashboard" /\ t[k].home = Len(below[d]) + 1 THEN 0 ELSE t[k].home
  BY <1>5, <1>6, HomelessIs
<1>8. PICK c : c = Covered(d)
  OBVIOUS
<1>9. /\ screen' = [screen EXCEPT ![d] = "login"] /\ shown' = [shown EXCEPT ![d] = Nobody]
      /\ below' = [below EXCEPT ![d] = c] /\ outs' = [outs EXCEPT ![d] = hs]
      /\ reg' = [reg EXCEPT ![d].mounted = FALSE]
      /\ jobs' = Unmounted(d) /\ late' = IF c = <<>> THEN late \ {d} ELSE late \cup {d}
      /\ UNCHANGED <<account, signed>>
  BY <1>2, <1>4, <1>6, <1>8, Zenon DEF SignOutReturns
<1>10. /\ screen'[d] = "login" /\ below'[d] = c /\ outs'[d] = hs
       /\ \A e \in Devices \ {d} : /\ screen'[e] = screen[e] /\ shown'[e] = shown[e]
                                   /\ below'[e] = below[e] /\ outs'[e] = outs[e]
                                   /\ (e \in late' <=> e \in late) /\ signed'[e] = signed[e]
       /\ c # <<>> => d \in late'
  BY <1>9 DEF AccountType
<1>11. /\ reg'[d].stage = reg[d].stage /\ reg'[d].user = reg[d].user /\ reg'[d].mounted = FALSE
       /\ \A e \in Devices \ {d} : reg'[e] = reg[e]
  <2>1. reg \in [Devices -> Handlers] /\ reg[d] \in Handlers
    BY DEF AccountType
  <2> QED BY <1>9, <2>1 DEF Handlers
<1>12. DeviceKept(d) /\ RoutesKept(d)
  BY DevicesKept DEF DeviceKept
<1>13. ASSUME NEW k \in DOMAIN hs
       PROVE  \/ hs[k].home = 0
              \/ hs[k].home \in DOMAIN b /\ b[hs[k].home].screen = "dashboard"
              \/ hs[k].home = Len(b) + 1 /\ screen[d] = "edit"
  <2>1. k + 1 \in DOMAIN q /\ t[k] = q[k + 1]
    BY <1>5, <1>7
  <2>2. PICK h : h = t[k].home
    OBVIOUS
  <2>3. \/ h = 0
        \/ h \in DOMAIN b /\ b[h].screen = "dashboard"
        \/ h = Len(b) + 1 /\ screen[d] \in {"dashboard", "edit"}
    BY <1>1, <1>2, <1>12, <2>1, <2>2 DEF RoutesKept
  <2>4. hs[k].home = IF screen[d] = "dashboard" /\ h = Len(b) + 1 THEN 0 ELSE h
    BY <1>1, <1>7, <2>2
  <2> QED BY <2>3, <2>4
<1>14. RoutesKept(d)'
  <2>1. \A i \in DOMAIN b : /\ b[i].shown \in account \cup {Nobody}
                            /\ b[i].screen = "dashboard" => b[i].shown # Nobody
    BY <1>1, <1>12 DEF RoutesKept
  <2>2. CASE c = b /\ screen[d] \in {"login", "dashboard"}
    <3>1. \A k \in DOMAIN hs : \/ hs[k].home = 0
                               \/ hs[k].home \in DOMAIN c /\ c[hs[k].home].screen = "dashboard"
      BY <1>13, <2>2
    <3> QED BY <1>9, <1>10, <2>1, <2>2, <3>1 DEF RoutesKept
  <2>3. ASSUME NEW r \in Routes, c = Append(b, r), screen[d] \in {"register", "edit"},
               r.shown \in account \cup {Nobody}, r.screen = "dashboard" => r.shown # Nobody,
               screen[d] = "edit" => r.screen = "dashboard"
        PROVE  RoutesKept(d)'
    <3>1. PICK n \in Nat : n = Len(b) /\ DOMAIN b = 1..n
      OBVIOUS
    <3>2. c # <<>> /\ DOMAIN c = 1..(n + 1) /\ (\A i \in 1..n : c[i] = b[i]) /\ c[n + 1] = r
      BY <2>3, <3>1, RoutePushed
    <3>3. 1..n \subseteq 1..(n + 1) /\ n + 1 \in 1..(n + 1) /\ \A i \in 1..(n + 1) : i \in 1..n \/ i = n + 1
      OBVIOUS
    <3>4. \A i \in DOMAIN c : /\ c[i].shown \in account \cup {Nobody}
                              /\ c[i].screen = "dashboard" => c[i].shown # Nobody
      BY <2>1, <2>3, <3>1, <3>2, <3>3
    <3>5. \A k \in DOMAIN hs : \/ hs[k].home = 0
                               \/ hs[k].home \in DOMAIN c /\ c[hs[k].home].screen = "dashboard"
      BY <1>13, <2>3, <3>1, <3>2, <3>3
    <3> QED BY <1>9, <1>10, <3>2, <3>4, <3>5 DEF RoutesKept
  <2> QED BY <1>1, <1>8, <2>2, <2>3, CoveredIs
<1>15. jobs' = WithoutScreen(jobs, d) /\ jobs \in Seq(Jobs)
  BY <1>9, UnmountedIs DEF AccountType
<1>16. /\ JobsGo(jobs, jobs') /\ Len(jobs') = Len(jobs) /\ DOMAIN jobs' = DOMAIN jobs
       /\ \A k \in DOMAIN jobs : jobs'[k].mounted => jobs[k].mounted /\ jobs[k].dev # d
  BY <1>15, JobsUnmounted
<1>17. \A k \in DOMAIN jobs : jobs'[k].dev = jobs[k].dev
  BY <1>16 DEF JobsGo
<1>18. DeviceKept(d)'
  <2>1. account' = account /\ screen'[d] = "login"
    BY <1>9, <1>10
  <2>2. \A k \in DOMAIN jobs' : jobs'[k].dev = d => ~jobs'[k].mounted
    BY <1>16, <1>17
  <2> QED BY <1>11, <1>12, <1>14, <2>1, <2>2 DEF DeviceKept
<1> QED BY <1>9, <1>10, <1>11, <1>16, <1>18, OneDevice

\* The back button, and a sign-out from the tap to its end.
LEMMA SignOutKeeps ==
  ASSUME AccountType, AccountType', HandlersKept, DashboardOfSigned, NEW d \in Devices,
         \/ GoBack(d) \/ (\E u \in Users : LogInLeft(d, u))
         \/ TapSignOut(d) \/ AuthSignsOut(d) \/ SignOutThrows(d) \/ SignOutReturns(d)
  PROVE  HandlersKept' /\ DashboardOfSigned'
<1>1. PICK q \in Seq(SignOuts) : q = outs[d]
  BY DEF AccountType
<1>2. DeviceKept(d) /\ RoutesKept(d)
  BY DevicesKept DEF DeviceKept
<1>3. CASE GoBack(d)
  <2>1. Uncover(d) /\ UNCHANGED <<account, jobs, reg, late, signed>>
    BY <1>3 DEF GoBack
  <2> QED BY <2>1, UncoverKeeps
<1>4. CASE \E u \in Users : LogInLeft(d, u)
  <2>1. PICK u \in Users : LogInLeft(d, u)
    BY <1>4
  <2>2. Uncover(d) /\ UNCHANGED <<account, jobs, reg, late>> /\ ChangeUser(d, u) /\ u \in account
    BY <2>1 DEF LogInLeft
  <2>3. \A e \in Devices \ {d} : signed'[e] = signed[e]
    BY <2>2, ChangeUserType
  <2> QED BY <2>2, <2>3, UncoverKeeps
<1>5. ASSUME NEW p, outs'[d] = p, \A e \in Devices \ {d} : outs'[e] = outs[e],
             UNCHANGED <<account, signed, jobs, screen, shown, below, reg, late>>,
             \A k \in DOMAIN p : (\E i \in DOMAIN q : p[k] = q[i])
                                  \/ (p[k].home = Len(below[d]) + 1 /\ screen[d] = "dashboard"),
             \A i \in DOMAIN q : q[i].home = 0 \/ \E k \in DOMAIN p : p[k] = q[i]
      PROVE  HandlersKept' /\ DashboardOfSigned'
  <2>1. \A k \in DOMAIN p : LET h == p[k].home IN
          \/ h = 0
          \/ h \in DOMAIN below[d] /\ below[d][h].screen = "dashboard"
          \/ h = Len(below[d]) + 1 /\ screen[d] \in {"dashboard", "edit"}
    BY <1>1, <1>2, <1>5 DEF RoutesKept
  <2>2. RoutesKept(d)'
    BY <1>2, <1>5, <2>1 DEF RoutesKept
  <2>3. Len(below[d]) + 1 # 0
    <3>1. PICK n \in Nat : n = Len(below[d])
      BY DEF AccountType
    <3>2. n + 1 # 0
      OBVIOUS
    <3> QED BY <3>1, <3>2
  <2>4. SigningOut(d) => SigningOut(d)'
    BY <1>1, <1>5, <2>3 DEF SigningOut
  <2>5. DeviceKept(d)'
    BY <1>2, <1>5, <2>2, <2>4 DEF DeviceKept, OfSigned
  <2>6. JobsGo(jobs, jobs') /\ Len(jobs') = Len(jobs)
    BY <1>5, JobsStay DEF AccountType
  <2> QED BY <1>5, <2>5, <2>6, OneDevice
<1>6. CASE TapSignOut(d)
  <2>1. PICK o : o = [home |-> Len(below[d]) + 1, done |-> FALSE]
    OBVIOUS
  <2>2. o \in SignOuts /\ o.home = Len(below[d]) + 1
    <3>1. PICK n \in Nat : n = Len(below[d])
      BY DEF AccountType
    <3>2. n + 1 \in Nat
      OBVIOUS
    <3> QED BY <2>1, <3>1, <3>2 DEF SignOuts
  <2>3. PICK p : p = Append(q, o)
    OBVIOUS
  <2>4. /\ \A k \in DOMAIN q : k \in DOMAIN p /\ p[k] = q[k]
        /\ \A k \in DOMAIN p : k \in DOMAIN q \/ p[k] = o
    BY <2>2, <2>3, OutsAdded
  <2>5. /\ outs'[d] = p /\ (\A e \in Devices \ {d} : outs'[e] = outs[e]) /\ screen[d] = "dashboard"
        /\ UNCHANGED <<account, signed, jobs, screen, shown, below, reg, late>>
    BY <1>1, <1>6, <2>1, <2>3 DEF TapSignOut, AccountType
  <2>6. /\ \A k \in DOMAIN p : (\E i \in DOMAIN q : p[k] = q[i])
                                \/ (p[k].home = Len(below[d]) + 1 /\ screen[d] = "dashboard")
        /\ \A i \in DOMAIN q : q[i].home = 0 \/ \E k \in DOMAIN p : p[k] = q[i]
    BY <2>2, <2>4, <2>5
  <2> QED BY <1>5, <2>5, <2>6
<1>7. CASE SignOutThrows(d)
  <2>1. PICK p : p = Tail(q)
    OBVIOUS
  <2>2. q # <<>> /\ Head(q).home = 0
    BY <1>1, <1>7 DEF SignOutThrows
  <2>3. /\ Head(q) = q[1] /\ \A k \in DOMAIN p : k + 1 \in DOMAIN q /\ p[k] = q[k + 1]
        /\ \A k \in DOMAIN q : k = 1 \/ (k - 1 \in DOMAIN p /\ p[k - 1] = q[k])
    BY <2>1, <2>2, OutsEnded
  <2>4. /\ outs'[d] = p /\ \A e \in Devices \ {d} : outs'[e] = outs[e]
        /\ UNCHANGED <<account, signed, jobs, screen, shown, below, reg, late>>
    BY <1>1, <1>7, <2>1 DEF SignOutThrows, AccountType
  <2>5. /\ \A k \in DOMAIN p : \E i \in DOMAIN q : p[k] = q[i]
        /\ \A i \in DOMAIN q : q[i].home = 0 \/ \E k \in DOMAIN p : p[k] = q[i]
    BY <2>2, <2>3
  <2> QED BY <1>5, <2>4, <2>5
<1> QED BY <1>3, <1>4, <1>6, <1>7, AuthSignsOutKeeps, SignOutReturnsKeeps

\* The answer may end the handler of a form, and leave the form.
LEMMA AnswerKeeps ==
  ASSUME AccountType, AccountType', HandlersKept, WritesKept, DashboardOfSigned, NEW d \in Devices, Answer(d)
  PROVE  HandlersKept' /\ DashboardOfSigned'
<1>1. UNCHANGED <<account, signed, shown, below, reg, outs, late>>
  BY DEF Answer
<1>2. PICK w : /\ w = Head(Mine(d)) /\ EndJob(w) /\ (w.job = 0 \/ w.job \in DOMAIN jobs)
  BY AnswerType
<1>3. /\ JobsGo(jobs, jobs') /\ Len(jobs') = Len(jobs) /\ DOMAIN jobs' = DOMAIN jobs
      /\ \A e \in Devices : \/ screen'[e] = screen[e]
                            \/ screen[e] = "edit" /\ screen'[e] = "dashboard"
      /\ \A k \in DOMAIN jobs : jobs'[k].mounted => jobs[k].mounted /\ screen'[jobs[k].dev] = screen[jobs[k].dev]
  BY <1>2, EndJobType
<1>4. (\A e \in Devices : DeviceKept(e)) /\ \A k \in DOMAIN jobs : jobs[k].user \in account
  BY DevicesKept
<1>5. \A k \in DOMAIN jobs : jobs'[k].dev = jobs[k].dev /\ jobs'[k].user = jobs[k].user
  BY <1>3 DEF JobsGo
<1>6. ASSUME NEW e \in Devices PROVE DeviceKept(e)'
  <2>1. DeviceKept(e)
    BY <1>4
  <2>2. screen'[e] = screen[e] \/ (screen[e] = "edit" /\ screen'[e] = "dashboard")
    BY <1>3
  <2>3. RoutesKept(e)' /\ (SigningOut(e)' <=> SigningOut(e))
    BY <1>1, <2>1, <2>2, RoutesStay, SigningStays DEF DeviceKept
  <2> QED BY <1>1, <1>3, <1>5, <2>1, <2>2, <2>3 DEF DeviceKept, OfSigned
<1>7. \A k \in DOMAIN jobs' : jobs'[k].user \in account'
  BY <1>1, <1>3, <1>4, <1>5
<1> QED BY <1>6, <1>7, DevicesKeptNext

\* The form is left, a picture is chosen, or the form's button tapped.
LEMMA FormKeeps ==
  ASSUME AccountType, AccountType', HandlersKept, DashboardOfSigned, NEW d \in Devices,
         LeaveEdit(d) \/ SelectImage(d) \/ \E n \in Names, b \in Bios : ChangeDetails(d, n, b)
  PROVE  HandlersKept' /\ DashboardOfSigned'
<1>1. /\ UNCHANGED <<account, signed, shown, below, reg, outs, late>> /\ jobs \in Seq(Jobs) /\ DOMAIN screen = Devices
      /\ JobsGo(jobs, jobs')
  BY FormType DEF AccountType
<1>2. (\A e \in Devices : DeviceKept(e)) /\ \A k \in DOMAIN jobs : jobs[k].user \in account
  BY DevicesKept
<1>3. CASE LeaveEdit(d)
  <2>1. jobs' = WithoutScreen(jobs, d)
    BY <1>3, UnmountedIs DEF LeaveEdit
  <2>2. /\ Len(jobs') = Len(jobs) /\ DOMAIN jobs' = DOMAIN jobs
        /\ \A k \in DOMAIN jobs : jobs'[k].mounted => jobs[k].mounted /\ jobs[k].dev # d
    BY <1>1, <2>1, JobsUnmounted
  <2>3. /\ screen[d] = "edit" /\ screen'[d] = "dashboard"
        /\ \A e \in Devices \ {d} : screen'[e] = screen[e]
    BY <1>1, <1>3 DEF LeaveEdit
  <2>4. \A k \in DOMAIN jobs : jobs'[k].dev = jobs[k].dev
    BY <1>1 DEF JobsGo
  <2>5. DeviceKept(d)'
    <3>1. DeviceKept(d)
      BY <1>2
    <3>2. RoutesKept(d)' /\ (SigningOut(d)' <=> SigningOut(d))
      BY <1>1, <2>3, <3>1, RoutesStay, SigningStays DEF DeviceKept
    <3> QED BY <1>1, <2>2, <2>3, <2>4, <3>1, <3>2 DEF DeviceKept, OfSigned
  <2> QED BY <1>1, <2>2, <2>3, <2>5, OneDevice
<1>4. ASSUME NEW j \in Jobs, jobs' = Append(jobs, j), screen' = screen, j.user \in account, j.dev = d,
             j.mounted => screen[d] = "edit" /\ j.user = signed[d]
      PROVE  HandlersKept' /\ DashboardOfSigned'
  <2>1. \A i \in DOMAIN jobs' : (i \in DOMAIN jobs /\ jobs'[i] = jobs[i]) \/ jobs'[i] = j
    BY <1>1, <1>4, JobsAdded
  <2>2. ASSUME NEW e \in Devices PROVE DeviceKept(e)'
    <3>1. DeviceKept(e)
      BY <1>2
    <3>2. RoutesKept(e)' /\ (SigningOut(e)' <=> SigningOut(e))
      BY <1>1, <1>4, <3>1, RoutesStay, SigningStays DEF DeviceKept
    <3>3. Nobody \notin account
      BY AccountAssumption DEF AccountType
    <3> QED BY <1>1, <1>4, <2>1, <3>1, <3>2, <3>3 DEF DeviceKept, OfSigned
  <2>3. \A k \in DOMAIN jobs' : jobs'[k].user \in account'
    BY <1>1, <1>2, <1>4, <2>1
  <2> QED BY <2>2, <2>3, DevicesKeptNext
<1>5. CASE SelectImage(d)
  <2>1. PICK j : j = Job("picture", d, shown[d], "", "")
    OBVIOUS
  <2>2. shown[d] \in account /\ shown[d] \in Users
    BY <1>5 DEF SelectImage, HandlersKept, AccountType
  <2>3. j \in Jobs /\ j.user = shown[d] /\ j.dev = d /\ j.mounted = FALSE
    BY <2>1, <2>2 DEF Job, Jobs, Names, Bios
  <2>4. jobs' = Append(jobs, j) /\ screen' = screen
    BY <1>5, <2>1 DEF SelectImage, ui
  <2> QED BY <1>4, <2>2, <2>3, <2>4
<1>6. CASE \E n \in Names, b \in Bios : ChangeDetails(d, n, b)
  <2>1. PICK n \in Names, b \in Bios : ChangeDetails(d, n, b)
    BY <1>6
  <2>2. PICK j : j = Job("form", d, signed[d], n, b)
    OBVIOUS
  <2>3. signed[d] \in account /\ signed[d] \in Users /\ screen[d] = "edit"
    BY <2>1 DEF ChangeDetails, AccountType
  <2>4. j \in Jobs /\ j.user = signed[d] /\ j.dev = d
    BY <2>2, <2>3 DEF Job, Jobs
  <2>5. jobs' = Append(jobs, j) /\ screen' = screen
    BY <2>1, <2>2 DEF ChangeDetails, ui
  <2> QED BY <1>4, <2>3, <2>4, <2>5
<1> QED BY <1>3, <1>5, <1>6

\* A step of the SDK, of a screen or of a handler on device d; a step of the
\* k-th form or picture.
DeviceStep(d) ==
  \/ Applies(d) \/ Answer(d) \/ Refuse(d) \/ AnswersLost(d) \/ Restart(d)
  \/ OpenRegister(d) \/ LeaveRegister(d) \/ GoBack(d)
  \/ TapSignOut(d) \/ AuthSignsOut(d) \/ SignOutThrows(d) \/ SignOutReturns(d)
  \/ AuthCreates(d) \/ SignUpFails(d) \/ SignedUp(d) \/ SignInAfter(d)
  \/ OpenEdit(d) \/ LeaveEdit(d) \/ SelectImage(d)
  \/ \E u \in Users : SignUp(d, u) \/ LogIn(d, u) \/ LogInLeft(d, u)
  \/ \E n \in Names, b \in Bios : ChangeDetails(d, n, b)
JobStep(k) ==
  \/ FormThrows(k) \/ Uploaded(k)
  \/ \E n \in Names, b \in Bios : Retype(k, n, b)
  \/ \E online \in BOOLEAN : FormRead(k, online)
  \/ \E url \in Pictures : GotURL(k, url)

\* The next-state relation, by actors.
LEMMA NextSteps ==
  Next <=> \/ \E d \in Devices : DeviceStep(d)
           \/ \E k \in DOMAIN jobs : JobStep(k)
           \/ \E u \in Users : Befriend(u)
BY Zenon DEF Next, DeviceStep, JobStep

\* Every step keeps the types, lets the handlers go on, and keeps the screens.
LEMMA NextScreens ==
  ASSUME AccountType, HandlersKept, WritesKept, DashboardOfSigned, [Next]_vars
  PROVE  AccountType' /\ JobsGo(jobs, jobs') /\ HandlersKept' /\ DashboardOfSigned'
<1> DEFINE Goal == AccountType' /\ JobsGo(jobs, jobs') /\ HandlersKept' /\ DashboardOfSigned'
<1>0. jobs \in Seq(Jobs)
  BY DEF AccountType
<1>1. CASE UNCHANGED vars
  <2>1. UNCHANGED <<account, storage, signed, torn, jobs, doc, queue, sent, cache, welcomed, named, screen, shown, below, reg, outs, late, taps, faults>>
    BY <1>1 DEF vars, sdk, ui, cnt
  <2>2. AccountType' /\ HandlersKept' /\ DashboardOfSigned'
    <3>1. AccountType'
      BY <2>1 DEF AccountType
    <3>2. HandlersKept' /\ DashboardOfSigned'
      BY <2>1 DEF HandlersKept, RoutesKept, DashboardOfSigned, SigningOut
    <3> QED BY <3>1, <3>2
  <2>3. JobsGo(jobs, jobs')
    BY <1>0, <2>1, JobsStay
  <2> QED BY <2>2, <2>3
<1>2. ASSUME NEW d \in Devices, Applies(d) PROVE Goal
  <2>1. UNCHANGED <<account, signed, screen, shown, below, reg, outs, late, jobs>>
    BY <1>2 DEF Applies, ui
  <2> QED BY <1>2, <2>1, AppliesType, QuietScreens
<1>3. ASSUME NEW d \in Devices, Answer(d) PROVE Goal
  BY <1>3, AnswerType, AnswerKeeps
<1>4. ASSUME NEW d \in Devices, Refuse(d) PROVE Goal
  <2>1. UNCHANGED <<account, storage, signed, torn, doc, sent, cache, welcomed, named, ui, cnt>>
    BY <1>4, Zenon DEF Refuse
  <2>2. UNCHANGED <<account, signed, screen, shown, below, reg, outs, late>>
    BY <2>1 DEF ui
  <2> QED BY <1>4, <2>2, RefuseType, QuietScreens
<1>5. ASSUME NEW d \in Devices, AnswersLost(d) PROVE Goal
  <2>1. UNCHANGED <<account, signed, screen, shown, below, reg, outs, late>>
    BY <1>5 DEF AnswersLost, ui
  <2> QED BY <1>5, <2>1, SessionType, QuietScreens
<1>6. ASSUME NEW d \in Devices, (\E u \in Users : LogIn(d, u)) \/ Restart(d) PROVE Goal
  BY <1>6, SessionType, SessionKeeps
<1>7. ASSUME NEW d \in Devices,
             \/ OpenRegister(d) \/ LeaveRegister(d) \/ AuthCreates(d) \/ SignUpFails(d) \/ OpenEdit(d)
             \/ \E u \in Users : SignUp(d, u)
      PROVE Goal
  BY <1>7, ScreenType, ScreenKeeps
<1>8. ASSUME NEW d \in Devices, SignedUp(d) PROVE Goal
  BY <1>8, SignedUpType, SignedUpKeeps
<1>9. ASSUME NEW d \in Devices, SignInAfter(d) PROVE Goal
  BY <1>9, SignInAfterType, SignInAfterKeeps
<1>10. ASSUME NEW d \in Devices,
              LeaveEdit(d) \/ SelectImage(d) \/ \E n \in Names, b \in Bios : ChangeDetails(d, n, b)
       PROVE Goal
  BY <1>10, FormType, FormKeeps
<1>11. ASSUME NEW k \in DOMAIN jobs,
              FormThrows(k) \/ Uploaded(k) \/ \E n \in Names, b \in Bios : Retype(k, n, b)
       PROVE Goal
  <2>1. /\ AccountType' /\ JobsGo(jobs, jobs')
        /\ UNCHANGED <<account, signed, shown, below, reg, outs, late>>
    BY <1>11, FormType
  <2>2. screen' = screen
    BY <1>11 DEF FormThrows, Uploaded, Retype, ui
  <2>3. Len(jobs') = Len(jobs)
    <3>1. \/ jobs' = Staged(jobs, k, "done") \/ jobs' = Staged(jobs, k, "url")
          \/ \E n \in Names, b \in Bios : jobs' = Retyped(jobs, k, n, b) /\ jobs[k].stage = "get"
      BY <1>11 DEF FormThrows, Uploaded, Retype, Staged, Retyped
    <3> QED BY <1>0, <3>1, JobsStaged, JobsRetyped
  <2> QED BY <2>1, <2>2, <2>3, QuietScreens
<1>12. ASSUME NEW k \in DOMAIN jobs, NEW online \in BOOLEAN, FormRead(k, online) PROVE Goal
  <2>1. jobs[k] \in Jobs /\ jobs[k].dev \in Devices /\ jobs[k].user \in Users
    BY <1>0, JobFacts
  <2>2. PICK j \in Jobs, d \in Devices, u \in Users : jobs[k] = j /\ j.dev = d /\ j.user = u
    BY <2>1
  <2>3. /\ AccountType' /\ JobsGo(jobs, jobs') /\ Len(jobs') = Len(jobs)
        /\ UNCHANGED <<account, signed, screen, shown, below, reg, outs, late>>
    BY <1>12, <2>2, FormReadType
  <2> QED BY <2>3, QuietScreens
<1>13. ASSUME NEW k \in DOMAIN jobs, NEW url \in Pictures, GotURL(k, url) PROVE Goal
  <2>1. /\ AccountType' /\ JobsGo(jobs, jobs') /\ Len(jobs') = Len(jobs)
        /\ UNCHANGED <<account, signed, screen, shown, below, reg, outs, late>>
    BY <1>13, GotURLType
  <2> QED BY <2>1, QuietScreens
<1>14. ASSUME NEW u \in Users, Befriend(u) PROVE Goal
  <2>1. UNCHANGED <<account, signed, screen, shown, below, reg, outs, late, jobs>>
    BY <1>14 DEF Befriend, ui
  <2> QED BY <1>14, <2>1, BefriendType, QuietScreens
<1>15. ASSUME NEW d \in Devices,
             \/ GoBack(d) \/ (\E u \in Users : LogInLeft(d, u))
             \/ TapSignOut(d) \/ AuthSignsOut(d) \/ SignOutThrows(d) \/ SignOutReturns(d)
      PROVE Goal
  BY <1>15, SignOutType, SignOutKeeps
<1> HIDE DEF Goal
<1>16. ASSUME NEW d \in Devices, DeviceStep(d) PROVE Goal
  BY <1>16, <1>2, <1>3, <1>4, <1>5, <1>6, <1>7, <1>8, <1>9, <1>10, <1>15 DEF DeviceStep
<1>17. ASSUME NEW k \in DOMAIN jobs, JobStep(k) PROVE Goal
  BY <1>17, <1>11, <1>12, <1>13 DEF JobStep
<1>18. ASSUME Next PROVE Goal
  BY <1>14, <1>16, <1>17, <1>18, NextSteps
<1> QED BY <1>1, <1>18 DEF Goal

-----------------------------------------------------------------------------
(***************************************************************************)
(* What is queued and sent                                                 *)
(***************************************************************************)
\* What WritesKept says of a queue with writes for accounts, and of what was sent of it.
AboutAccounts(q) == \A i \in DOMAIN q : q[i].doc \in account /\ q[i].job \in 0..Len(jobs)
SentExists(d, n) == n <= Len(Mine(d)) /\ \A i \in 1..n : doc[Mine(d)[i].doc] # None

\* Accounts and handlers become more.
LEMMA MoreAccounts ==
  ASSUME AccountType, JobsGo(jobs, jobs'), account \subseteq account', NEW q, AboutAccounts(q)
  PROVE  AboutAccounts(q)'
<1>1. PICK m \in Nat : m = Len(jobs)
  BY JobFacts DEF AccountType
<1>2. PICK n \in Nat : n = Len(jobs')
  BY JobFacts DEF JobsGo
<1>3. m <= n
  BY <1>1, <1>2 DEF JobsGo
<1>4. 0..m \subseteq 0..n
  BY <1>3
<1> QED BY <1>1, <1>2, <1>4 DEF AboutAccounts

\* The invariant, queue by queue and device by device.
LEMMA WritesSplit ==
  WritesKept <=> \A d \in Devices : /\ SentExists(d, sent[d])
                                    /\ \A o \in Owners : AboutAccounts(queue[d][o])
BY DEF WritesKept, SentExists, AboutAccounts, Owners

\* And after a step.
LEMMA WritesSplitNext ==
  ASSUME \A d \in Devices : SentExists(d, sent[d])' /\ \A o \in Owners : AboutAccounts(queue[d][o])'
  PROVE  WritesKept'
BY DEF WritesKept, SentExists, AboutAccounts, Owners

\* Nothing that is sent is nothing wrong.
LEMMA NothingSent ==
  ASSUME AccountType', NEW d \in Devices, sent'[d] = 0
  PROVE  SentExists(d, sent[d])'
<1>1. Len(Mine(d)') \in Nat
  BY DEF Mine, AccountType
<1>2. PICK n \in Nat : n = Len(Mine(d)')
  BY <1>1
<1>3. 0 <= n /\ 1..0 = {}
  BY <1>2
<1> QED BY <1>2, <1>3 DEF SentExists

\* The steps that leave the queues alone.
LEMMA QuietWrites ==
  ASSUME AccountType, AccountType', WritesKept, JobsGo(jobs, jobs'), account \subseteq account',
         UNCHANGED <<queue, doc>>,
         \A d \in Devices : (signed'[d] = signed[d] /\ sent'[d] = sent[d]) \/ sent'[d] = 0
  PROVE  WritesKept'
<1>1. ASSUME NEW d \in Devices PROVE SentExists(d, sent[d])'
  <2>1. CASE signed'[d] = signed[d] /\ sent'[d] = sent[d]
    BY <2>1, WritesSplit DEF SentExists, Mine
  <2>2. CASE sent'[d] = 0
    BY <2>2, NothingSent
  <2> QED BY <2>1, <2>2
<1>2. ASSUME NEW d \in Devices, NEW o \in Owners PROVE AboutAccounts(queue[d][o])'
  <2>1. PICK q : q = queue[d][o]
    OBVIOUS
  <2>2. AboutAccounts(q)
    BY <2>1, WritesSplit
  <2>3. AboutAccounts(q)'
    BY <2>2, MoreAccounts
  <2>4. queue'[d][o] = q
    BY <2>1
  <2> QED BY <2>3, <2>4 DEF AboutAccounts
<1> QED BY <1>1, <1>2, WritesSplitNext

\* A write is queued.
LEMMA QueuedWrites ==
  ASSUME AccountType, AccountType', WritesKept, JobsGo(jobs, jobs'), UNCHANGED <<account, doc>>,
         NEW d \in Devices, NEW o \in Owners, NEW w \in Queued, w.doc \in account, w.job \in 0..Len(jobs),
         \A e \in Devices, p \in Owners :
           queue'[e][p] = IF e = d /\ p = o THEN Append(queue[e][p], w) ELSE queue[e][p],
         \A e \in Devices : (signed'[e] = signed[e] /\ sent'[e] = sent[e]) \/ sent'[e] = 0
  PROVE  WritesKept'
<1>1. ASSUME NEW e \in Devices PROVE SentExists(e, sent[e])'
  <2>1. CASE sent'[e] = 0
    BY <2>1, NothingSent
  <2>2. CASE signed'[e] = signed[e] /\ sent'[e] = sent[e]
    <3>1. PICK q \in Seq(Queued) : q = Mine(e)
      BY MineFacts
    <3>2. PICK r : r = Mine(e)'
      OBVIOUS
    <3>3. r = q \/ r = Append(q, w)
      <4>1. PICK p \in Owners : p = signed[e] /\ q = queue[e][p]
        BY <3>1, MineFacts
      <4>2. r = queue'[e][p]
        BY <2>2, <3>2, <4>1 DEF Mine
      <4> QED BY <4>1, <4>2
    <3>4. PICK m \in Nat : m = Len(q)
      BY <3>1
    <3>5. PICK n \in Nat : n = sent[e]
      BY DEF AccountType
    <3>6. n <= m /\ \A i \in 1..n : doc[q[i].doc] # None
      BY <3>1, <3>4, <3>5, WritesSplit DEF SentExists
    <3>7. (Len(r) = m \/ Len(r) = m + 1) /\ \A i \in 1..m : r[i] = q[i]
      BY <3>3, <3>4, Appended
    <3>8. n <= m + 1 /\ 1..n \subseteq 1..m
      BY <3>6
    <3>9. n <= Len(r) /\ \A i \in 1..n : doc[r[i].doc] # None
      BY <3>6, <3>7, <3>8
    <3> QED BY <2>2, <3>2, <3>5, <3>9 DEF SentExists
  <2> QED BY <2>1, <2>2
<1>2. ASSUME NEW e \in Devices, NEW p \in Owners PROVE AboutAccounts(queue[e][p])'
  <2>1. PICK q \in Seq(Queued) : q = queue[e][p]
    BY QueueFacts
  <2>2. PICK r : r = queue'[e][p]
    OBVIOUS
  <2>3. r = q \/ r = Append(q, w)
    BY <2>1, <2>2
  <2>4. PICK m \in Nat : m = Len(q) /\ DOMAIN q = 1..m
    BY <2>1
  <2>5. AboutAccounts(q)
    BY <2>1, WritesSplit
  <2>6. AboutAccounts(r)
    <3>1. CASE r = q
      BY <2>5, <3>1
    <3>2. CASE r = Append(q, w)
      <4>1. DOMAIN r = 1..(m + 1) /\ r[m + 1] = w /\ \A i \in 1..m : r[i] = q[i]
        BY <2>4, <3>2, Appended
      <4>2. \A i \in 1..(m + 1) : i \in 1..m \/ i = m + 1
        BY <2>4
      <4> QED BY <2>4, <2>5, <4>1, <4>2 DEF AboutAccounts
    <3> QED BY <2>3, <3>1, <3>2
  <2>7. AboutAccounts(r)'
    BY <2>6, MoreAccounts
  <2> QED BY <2>2, <2>7 DEF AboutAccounts
<1> QED BY <1>1, <1>2, WritesSplitNext

\* The first write of the signed-in user is answered or refused.
LEMMA DequeuedWrites ==
  ASSUME AccountType, AccountType', WritesKept, JobsGo(jobs, jobs'), UNCHANGED <<account, doc, signed>>,
         NEW d \in Devices, Mine(d) # <<>>,
         \A e \in Devices, p \in Owners :
           queue'[e][p] = IF e = d /\ p = signed[d] THEN Tail(Mine(d)) ELSE queue[e][p],
         \A e \in Devices \ {d} : sent'[e] = sent[e],
         sent'[d] = sent[d] - 1 \/ sent'[d] = 0
  PROVE  WritesKept'
<1>1. ASSUME NEW e \in Devices PROVE SentExists(e, sent[e])'
  <2>1. CASE sent'[e] = 0
    BY <2>1, NothingSent
  <2>2. CASE e # d
    <3>1. Mine(e)' = Mine(e)
      BY <2>2, MineFacts DEF Mine
    <3> QED BY <2>2, <3>1, WritesSplit DEF SentExists
  <2>3. CASE e = d /\ sent'[d] = sent[d] - 1 /\ sent'[d] # 0
    <3>1. PICK q \in Seq(Queued) : q = Mine(d) /\ q # <<>>
      BY MineFacts
    <3>2. PICK r : r = Tail(q)
      OBVIOUS
    <3>3. Mine(d)' = r
      BY <3>1, <3>2, MineFacts DEF Mine
    <3>4. PICK m \in Nat : m = Len(q)
      BY <3>1
    <3>5. PICK n \in Nat : n = sent[d]
      BY DEF AccountType
    <3>6. PICK k \in Nat : k = sent'[d]
      BY DEF AccountType
    <3>7. n <= m /\ \A i \in 1..n : doc[q[i].doc] # None
      BY <3>1, <3>4, <3>5, WritesSplit DEF SentExists
    <3>8. Len(r) = m - 1 /\ \A i \in 1..(m - 1) : r[i] = q[i + 1]
      BY <3>1, <3>2, <3>4, Shifted
    <3>9. k = n - 1
      BY <2>3, <3>5, <3>6
    <3>10. k <= m - 1 /\ \A i \in 1..k : i \in 1..(m - 1) /\ i + 1 \in 1..n
      BY <3>7, <3>9
    <3>11. k <= Len(r) /\ \A i \in 1..k : doc[r[i].doc] # None
      <4>1. k <= Len(r)
        BY <3>8, <3>10
      <4>2. ASSUME NEW i \in 1..k PROVE doc[r[i].doc] # None
        <5>1. i \in 1..(m - 1) /\ i + 1 \in 1..n
          BY <3>10
        <5>2. r[i] = q[i + 1]
          BY <3>8, <5>1
        <5>3. PICK h \in 1..n : h = i + 1
          BY <5>1
        <5> QED BY <3>7, <5>2, <5>3
      <4> QED BY <4>1, <4>2
    <3> QED BY <2>3, <3>3, <3>6, <3>11 DEF SentExists
  <2> QED BY <2>1, <2>2, <2>3
<1>2. ASSUME NEW e \in Devices, NEW p \in Owners PROVE AboutAccounts(queue[e][p])'
  <2>1. PICK q \in Seq(Queued) : q = queue[e][p]
    BY QueueFacts
  <2>2. PICK r : r = queue'[e][p]
    OBVIOUS
  <2>3. r = q \/ (q # <<>> /\ r = Tail(q))
    BY <2>1, <2>2, MineFacts
  <2>4. PICK m \in Nat : m = Len(q) /\ DOMAIN q = 1..m
    BY <2>1
  <2>5. AboutAccounts(q)
    BY <2>1, WritesSplit
  <2>6. AboutAccounts(r)
    <3>1. CASE r = q
      BY <2>5, <3>1
    <3>2. CASE q # <<>> /\ r = Tail(q)
      <4>1. DOMAIN r = 1..(m - 1) /\ \A i \in 1..(m - 1) : r[i] = q[i + 1]
        BY <2>4, <3>2, Shifted
      <4>2. \A i \in 1..(m - 1) : i + 1 \in 1..m
        BY <2>4
      <4>3. ASSUME NEW i \in DOMAIN r PROVE r[i].doc \in account /\ r[i].job \in 0..Len(jobs)
        <5>1. PICK h \in DOMAIN q : r[i] = q[h]
          BY <2>4, <4>1, <4>2
        <5> QED BY <2>5, <5>1 DEF AboutAccounts
      <4> QED BY <4>3 DEF AboutAccounts
    <3> QED BY <2>3, <3>1, <3>2
  <2>7. AboutAccounts(r)'
    BY <2>6, MoreAccounts
  <2> QED BY <2>2, <2>7 DEF AboutAccounts
<1> QED BY <1>1, <1>2, WritesSplitNext

\* The server applies a write, or a list of a document changes.
LEMMA AppliedWrites ==
  ASSUME AccountType, AccountType', WritesKept,
         (\E d \in Devices : Applies(d)) \/ (\E u \in Users : Befriend(u))
  PROVE  WritesKept' /\ \A u \in Users : doc[u] # None => doc'[u] # None
<1>1. ASSUME NEW e \in Devices, NEW o \in Owners, UNCHANGED <<account, jobs, queue>>
      PROVE  AboutAccounts(queue[e][o])'
  BY <1>1, WritesSplit DEF AboutAccounts
<1>2. ASSUME NEW d \in Devices, Applies(d)
      PROVE  WritesKept' /\ \A u \in Users : doc[u] # None => doc'[u] # None
  <2>1. PICK q \in Seq(Queued) : q = Mine(d)
    BY MineFacts
  <2>2. PICK n \in Nat : n = sent[d]
    BY DEF AccountType
  <2>3. PICK m \in Nat : m = Len(q) /\ DOMAIN q = 1..m
    BY <2>1
  <2>4. n + 1 \in 1..m /\ n + 1 <= m
    <3>1. sent[d] < Len(Mine(d))
      BY <1>2, Zenon DEF Applies
    <3>2. n < m
      BY <2>1, <2>2, <2>3, <3>1
    <3> QED BY <3>2
  <2>5. PICK w \in Queued : w = q[n + 1] /\ w.doc \in Users
    BY <2>1, <2>3, <2>4, HeadFacts
  <2>6. PICK c : c = Written(w, doc[w.doc])
    OBVIOUS
  <2>7. c # None
    <3>1. doc[w.doc] \in Profile \cup {None} /\ ~Missing(w, doc[w.doc])
      BY <1>2, <2>1, <2>2, <2>5 DEF Applies, AccountType
    <3> QED BY <2>6, <3>1, WrittenProfile
  <2>8. doc' = [doc EXCEPT ![w.doc] = c] /\ sent' = [sent EXCEPT ![d] = n + 1]
    BY <1>2, <2>1, <2>2, <2>5, <2>6 DEF Applies
  <2>9. UNCHANGED <<account, jobs, queue, signed>>
    BY <1>2 DEF Applies
  <2>10. /\ doc'[w.doc] # None /\ \A u \in Users : doc[u] # None => doc'[u] # None
         /\ sent'[d] = n + 1 /\ \A e \in Devices : e # d => sent'[e] = sent[e]
    <3>1. doc \in [Users -> Profile \cup {None}] /\ sent \in [Devices -> Nat]
      BY DEF AccountType
    <3>2. doc'[w.doc] # None /\ \A u \in Users : doc[u] # None => doc'[u] # None
      BY <2>5, <2>7, <2>8, <3>1
    <3> QED BY <2>8, <3>1, <3>2
  <2>11. \A e \in Devices : Mine(e)' = Mine(e)
    BY <2>9 DEF Mine
  <2>12. ASSUME NEW e \in Devices PROVE SentExists(e, sent[e])'
    <3>1. SentExists(e, sent[e])
      BY WritesSplit
    <3>2. \A i \in DOMAIN Mine(e) : Mine(e)[i].doc \in Users
      BY HeadFacts
    <3>3. DOMAIN Mine(e) = 1..Len(Mine(e)) /\ Len(Mine(e)) \in Nat /\ sent[e] \in Nat
      BY MineFacts DEF AccountType
    <3>4. CASE e # d
      <4>1. PICK a \in Nat : a = sent[e]
        BY <3>3
      <4>2. PICK b \in Nat : b = Len(Mine(e))
        BY <3>3
      <4>3. a <= b /\ 1..a \subseteq 1..b
        BY <3>1, <4>1, <4>2 DEF SentExists
      <4>4. \A i \in 1..a : doc'[Mine(e)[i].doc] # None
        BY <2>10, <3>1, <3>2, <3>3, <4>1, <4>2, <4>3 DEF SentExists
      <4> QED BY <2>10, <2>11, <3>4, <4>1, <4>2, <4>3, <4>4 DEF SentExists
    <3>5. CASE e = d
      <4>1. \A i \in 1..n : i \in 1..m /\ doc[q[i].doc] # None
        BY <2>1, <2>2, <2>4, <3>1, <3>5 DEF SentExists
      <4>2. \A i \in 1..(n + 1) : i \in 1..n \/ i = n + 1
        OBVIOUS
      <4>3. \A i \in 1..(n + 1) : doc'[q[i].doc] # None
        <5> TAKE i \in 1..(n + 1)
        <5>1. CASE i \in 1..n
          BY <2>1, <2>3, <2>10, <3>2, <3>5, <4>1, <5>1
        <5>2. CASE i = n + 1
          BY <2>5, <2>10, <5>2
        <5> QED BY <4>2, <5>1, <5>2
      <4>4. Mine(e)' = q /\ sent'[e] = n + 1
        BY <2>1, <2>10, <2>11, <3>5
      <4> QED BY <2>3, <2>4, <4>3, <4>4 DEF SentExists
    <3> QED BY <3>4, <3>5
  <2> QED BY <1>1, <2>9, <2>10, <2>12, WritesSplitNext
<1>3. ASSUME NEW v \in Users, Befriend(v)
      PROVE  WritesKept' /\ \A u \in Users : doc[u] # None => doc'[u] # None
  <2>1. /\ doc[v] \in Profile /\ doc' = [doc EXCEPT ![v] = [doc[v] EXCEPT !.friends = TRUE]]
    BY <1>3, BefriendType
  <2>2. PICK c : c = [doc[v] EXCEPT !.friends = TRUE]
    OBVIOUS
  <2>3. c # None
    <3>1. c \in Profile
      BY <2>1, <2>2 DEF Profile
    <3> QED BY <3>1, NoneAssumption
  <2>4. doc' = [doc EXCEPT ![v] = c]
    BY <2>1, <2>2
  <2>5. \A u \in Users : doc[u] # None => doc'[u] # None
    BY <2>3, <2>4 DEF AccountType
  <2>6. UNCHANGED <<account, jobs, queue, signed, sent>>
    BY <1>3 DEF Befriend
  <2>7. ASSUME NEW e \in Devices PROVE SentExists(e, sent[e])'
    <3>1. SentExists(e, sent[e]) /\ Mine(e)' = Mine(e)
      BY <2>6, WritesSplit DEF Mine
    <3>2. \A i \in DOMAIN Mine(e) : Mine(e)[i].doc \in Users
      BY HeadFacts
    <3>3. PICK a \in Nat : a = sent[e]
      BY DEF AccountType
    <3>4. PICK b \in Nat : b = Len(Mine(e)) /\ DOMAIN Mine(e) = 1..b
      BY MineFacts
    <3>5. a <= b /\ 1..a \subseteq 1..b
      BY <3>1, <3>3, <3>4 DEF SentExists
    <3>6. \A i \in 1..a : doc'[Mine(e)[i].doc] # None
      BY <2>5, <3>1, <3>2, <3>3, <3>4, <3>5 DEF SentExists
    <3> QED BY <2>6, <3>1, <3>3, <3>4, <3>5, <3>6 DEF SentExists
  <2> QED BY <1>1, <2>5, <2>6, <2>7, WritesSplitNext
<1> QED BY <1>2, <1>3

-----------------------------------------------------------------------------
(***************************************************************************)
(* What a step does to the queues                                          *)
(***************************************************************************)
\* On every device the user and what was sent stay, or nothing counts as sent.
Sends == \A e \in Devices : (signed'[e] = signed[e] /\ sent'[e] = sent[e]) \/ sent'[e] = 0

Replaced(d, o, q) == \A e \in Devices, p \in Owners : queue'[e][p] = IF e = d /\ p = o THEN q ELSE queue[e][p]

QuietStep == UNCHANGED <<queue, doc, named, cache, welcomed>> /\ Sends /\ account \subseteq account'

QueueStep(d, o, w) ==
  /\ UNCHANGED <<account, doc, named, welcomed>> /\ Sends
  /\ w.doc \in account /\ w.job \in 0..Len(jobs)
  /\ Replaced(d, o, Append(queue[d][o], w))

DequeueStep(d) ==
  /\ UNCHANGED <<account, doc, named, signed>>
  /\ Mine(d) # <<>> /\ Replaced(d, signed[d], Tail(Mine(d)))
  /\ \A e \in Devices \ {d} : sent'[e] = sent[e]
  /\ sent'[d] = sent[d] - 1 \/ sent'[d] = 0

\* The steps of a device and of a handler that leave the queues alone.
QuietDevice(d) ==
  \/ AnswersLost(d) \/ Restart(d) \/ OpenRegister(d) \/ LeaveRegister(d) \/ GoBack(d)
  \/ TapSignOut(d) \/ AuthSignsOut(d) \/ SignOutThrows(d) \/ SignOutReturns(d)
  \/ AuthCreates(d) \/ SignUpFails(d) \/ SignInAfter(d) \/ OpenEdit(d) \/ LeaveEdit(d) \/ SelectImage(d)
  \/ \E u \in Users : SignUp(d, u) \/ LogIn(d, u) \/ LogInLeft(d, u)
  \/ \E n \in Names, b \in Bios : ChangeDetails(d, n, b)
QuietJob(k) == FormThrows(k) \/ Uploaded(k) \/ \E n \in Names, b \in Bios : Retype(k, n, b)

\* The next-state relation, by what it does to the queues.
LEMMA NextQueues ==
  Next <=> \/ \E d \in Devices : QuietDevice(d) \/ SignedUp(d) \/ Answer(d) \/ Refuse(d) \/ Applies(d)
           \/ \E k \in DOMAIN jobs : \/ QuietJob(k)
                                     \/ \E online \in BOOLEAN : FormRead(k, online)
                                     \/ \E url \in Pictures : GotURL(k, url)
           \/ \E u \in Users : Befriend(u)
BY Zenon DEF Next, QuietDevice, QuietJob

\* The user on a device changes, or what was sent is forgotten.
LEMMA SendsOf ==
  ASSUME AccountType, NEW d \in Devices,
         \/ UNCHANGED <<signed, sent>>
         \/ \E u \in account \cup {Nobody} : ChangeUser(d, u)
         \/ signed' = signed /\ sent' = [sent EXCEPT ![d] = 0]
  PROVE  Sends
<1>1. CASE UNCHANGED <<signed, sent>>
  BY <1>1 DEF Sends
<1>2. CASE \E u \in account \cup {Nobody} : ChangeUser(d, u)
  BY <1>2, ChangeUserType DEF Sends
<1>3. CASE signed' = signed /\ sent' = [sent EXCEPT ![d] = 0]
  BY <1>3 DEF Sends, AccountType
<1> QED BY <1>1, <1>2, <1>3

\* The screens, the sessions and the forms leave the queues alone.
LEMMA QuietSteps ==
  ASSUME AccountType, HandlersKept,
         \/ UNCHANGED vars
         \/ \E d \in Devices : QuietDevice(d)
         \/ \E k \in DOMAIN jobs : QuietJob(k)
  PROVE  QuietStep
<1>1. CASE UNCHANGED vars
  BY <1>1 DEF vars, sdk, QuietStep, Sends
<1>2. ASSUME NEW k \in DOMAIN jobs, QuietJob(k) PROVE QuietStep
  BY <1>2 DEF QuietJob, FormThrows, Uploaded, Retype, sdk, QuietStep, Sends
<1>3. ASSUME NEW d \in Devices,
             \/ OpenRegister(d) \/ LeaveRegister(d) \/ AuthCreates(d) \/ SignUpFails(d) \/ OpenEdit(d)
             \/ LeaveEdit(d) \/ SelectImage(d) \/ \E u \in Users : SignUp(d, u)
             \/ GoBack(d) \/ TapSignOut(d) \/ SignOutThrows(d) \/ SignOutReturns(d)
             \/ \E n \in Names, b \in Bios : ChangeDetails(d, n, b)
      PROVE  QuietStep
  <2>1. UNCHANGED <<queue, doc, named, cache, welcomed, signed, sent>> /\ account \subseteq account'
    BY <1>3 DEF OpenRegister, LeaveRegister, AuthCreates, SignUpFails, OpenEdit, LeaveEdit, SelectImage,
                SignUp, ChangeDetails, GoBack, TapSignOut, SignOutThrows, SignOutReturns, sdk
  <2> QED BY <2>1 DEF QuietStep, Sends
<1>4. ASSUME NEW d \in Devices,
             \/ AnswersLost(d) \/ Restart(d) \/ AuthSignsOut(d) \/ SignInAfter(d)
             \/ \E u \in Users : LogIn(d, u) \/ LogInLeft(d, u)
      PROVE  QuietStep
  <2>1. UNCHANGED <<queue, doc, named, cache, welcomed, account>>
    BY <1>4 DEF AnswersLost, Restart, AuthSignsOut, SignInAfter, LogIn, LogInLeft
  <2>2. SignInAfter(d) => reg[d].user \in account
    BY DEF SignInAfter, HandlersKept
  <2>3. \/ UNCHANGED <<signed, sent>>
        \/ \E u \in account \cup {Nobody} : ChangeUser(d, u)
        \/ signed' = signed /\ sent' = [sent EXCEPT ![d] = 0]
    <3>1. CASE AnswersLost(d) \/ Restart(d)
      BY <3>1 DEF AnswersLost, Restart
    <3>2. CASE AuthSignsOut(d)
      BY <3>2 DEF AuthSignsOut
    <3>3. CASE \E u \in Users : LogIn(d, u) \/ LogInLeft(d, u)
      BY <3>3 DEF LogIn, LogInLeft
    <3>4. CASE SignInAfter(d)
      BY <2>2, <3>4 DEF SignInAfter
    <3> QED BY <1>4, <3>1, <3>2, <3>3, <3>4
  <2>4. Sends
    BY <2>3, SendsOf
  <2> QED BY <2>1, <2>4 DEF QuietStep
<1> QED BY <1>1, <1>2, <1>3, <1>4 DEF QuietDevice

\* createUser is answered, and the first write is queued for its user.
LEMMA SignedUpQueues ==
  ASSUME AccountType, HandlersKept, NEW d \in Devices, SignedUp(d)
  PROVE  \E u \in account, w \in Queued :
           /\ Creating(d, u) /\ u \in Users /\ w.op = "set" /\ w.doc = u /\ w.patch = NewProfile
           /\ cache' = cache /\ QueueStep(d, u, w)
<1>1. PICK u \in account : u = reg[d].user
  BY SignedUpType
<1>2. PICK w \in Queued : w = Write("set", u, NewProfile, 0)
  BY <1>1, SignedUpType
<1>3. w.op = "set" /\ w.doc = u /\ w.job = 0 /\ w.patch = NewProfile
  BY <1>2 DEF Write
<1>4. Creating(d, u) /\ u \in Users
  BY <1>1 DEF SignedUp, Creating, AccountType
<1>5. UNCHANGED <<account, doc, named, welcomed, cache>> /\ ChangeUser(d, u)
  BY <1>1 DEF SignedUp
<1>6. Sends
  BY <1>5, SendsOf
<1>7. Replaced(d, u, Append(queue[d][u], w))
  <2>1. \A e \in Devices, p \in Owners : queue'[e][p] = IF e = d /\ p = u THEN Append(queue[d][p], w) ELSE queue[e][p]
    BY <1>1, <1>2, SignedUpType
  <2> QED BY <2>1 DEF Replaced
<1>8. w.job \in 0..Len(jobs)
  BY <1>3, JobFacts DEF AccountType
<1> QED BY <1>3, <1>4, <1>5, <1>6, <1>7, <1>8 DEF QueueStep

\* A form or a picture queues an update for the user who is signed in.
LEMMA JobQueues ==
  ASSUME AccountType, HandlersKept, NEW k \in DOMAIN jobs,
         (\E online \in BOOLEAN : FormRead(k, online)) \/ (\E url \in Pictures : GotURL(k, url))
  PROVE  \E d \in Devices, w \in Queued :
           w.op = "update" /\ QueueStep(d, signed[d], w) /\ UNCHANGED <<reg, torn, signed, sent>>
<1>0. jobs \in Seq(Jobs) /\ DOMAIN jobs = 1..Len(jobs) /\ Len(jobs) \in Nat
  BY JobFacts DEF AccountType
<1>1. ASSUME NEW online \in BOOLEAN, FormRead(k, online)
      PROVE  \E d \in Devices, w \in Queued :
               w.op = "update" /\ QueueStep(d, signed[d], w) /\ UNCHANGED <<reg, torn, signed, sent>>
  <2>1. jobs[k] \in Jobs /\ jobs[k].dev \in Devices /\ jobs[k].user \in Users
    BY <1>0, JobFacts
  <2>2. PICK j \in Jobs, d \in Devices, u \in Users : jobs[k] = j /\ j.dev = d /\ j.user = u
    BY <2>1
  <2>3. /\ signed[d] \in account
        /\ UNCHANGED <<account, signed, sent, doc, welcomed, named, reg, torn>>
        /\ FormQueues(j, d, u, k)
    BY <1>1, <2>2, FormReadType
  <2>4. PICK c \in {doc[u], cache[d][u]}, v \in Queued :
             /\ v = Write("update", signed[d], Patch(j, View(d, u, c)), k)
             /\ \A e \in Devices, p \in Owners :
                  queue'[e][p] = IF e = d /\ p = signed[e] THEN Append(queue[e][p], v) ELSE queue[e][p]
    BY <2>3, Zenon DEF FormQueues
  <2>5. v.op = "update" /\ v.doc = signed[d] /\ v.job = k
    BY <2>4 DEF Write
  <2>6. v.job \in 0..Len(jobs)
    BY <1>0, <2>5
  <2>7. Sends
    BY <2>3 DEF Sends
  <2>8. Replaced(d, signed[d], Append(queue[d][signed[d]], v))
    BY <2>4 DEF Replaced
  <2> QED BY <2>3, <2>5, <2>6, <2>7, <2>8 DEF QueueStep
<1>2. ASSUME NEW url \in Pictures, GotURL(k, url)
      PROVE  \E d \in Devices, w \in Queued :
               w.op = "update" /\ QueueStep(d, signed[d], w) /\ UNCHANGED <<reg, torn, signed, sent>>
  <2>1. PICK d \in Devices, u \in account : jobs[k].dev = d /\ jobs[k].user = u
    BY <1>2, GotURLType
  <2>2. /\ UNCHANGED <<account, signed, sent, doc, welcomed, named, reg, torn>>
        /\ \E w \in Queued :
             /\ w = Write("update", u, [pic |-> url], 0)
             /\ \A e \in Devices, p \in Owners :
                  queue'[e][p] = IF e = d /\ p = signed[e] THEN Append(queue[e][p], w) ELSE queue[e][p]
    BY <1>2, <2>1, GotURLType
  <2>3. PICK w \in Queued :
             /\ w = Write("update", u, [pic |-> url], 0)
             /\ \A e \in Devices, p \in Owners :
                  queue'[e][p] = IF e = d /\ p = signed[e] THEN Append(queue[e][p], w) ELSE queue[e][p]
    BY <2>2
  <2>4. w.op = "update" /\ w.doc = u /\ w.job = 0
    BY <2>3 DEF Write
  <2>5. w.job \in 0..Len(jobs)
    BY <1>0, <2>4
  <2>6. Sends
    BY <2>2 DEF Sends
  <2>7. Replaced(d, signed[d], Append(queue[d][signed[d]], w))
    BY <2>3 DEF Replaced
  <2> QED BY <2>2, <2>4, <2>5, <2>6, <2>7 DEF QueueStep
<1> QED BY <1>1, <1>2

\* An answer or a refusal takes the first write off the queue.
LEMMA DequeueSteps ==
  ASSUME AccountType, HandlersKept, WritesKept, NEW d \in Devices, Answer(d) \/ Refuse(d)
  PROVE  /\ DequeueStep(d) /\ UNCHANGED <<reg, torn>>
         /\ \/ UNCHANGED <<cache, welcomed>> /\ sent[d] = 0 /\ sent' = sent
            \/ LET w == Head(Mine(d)) IN
                 /\ sent[d] > 0 /\ sent'[d] = sent[d] - 1
                 /\ cache' = [cache EXCEPT ![d][w.doc] = Known(Written(w, @))]
                 /\ welcomed' = IF w.op = "set" THEN welcomed \cup {w.doc} ELSE welcomed
<1>1. CASE Answer(d)
  <2>1. /\ Mine(d) # <<>>
        /\ \A e \in Devices, p \in Owners :
             queue'[e][p] = IF e = d /\ p = signed[d] THEN Tail(Mine(d)) ELSE queue[e][p]
    BY <1>1, AnswerType
  <2>2. UNCHANGED <<account, doc, named, signed, reg, torn>>
    BY <1>1 DEF Answer
  <2>3. sent' = [sent EXCEPT ![d] = @ - 1] /\ sent[d] > 0
    BY <1>1, Zenon DEF Answer
  <2>4. LET w == Head(Mine(d)) IN
          /\ cache' = [cache EXCEPT ![d][w.doc] = Known(Written(w, @))]
          /\ welcomed' = IF w.op = "set" THEN welcomed \cup {w.doc} ELSE welcomed
    BY <1>1, Zenon DEF Answer
  <2>5. sent'[d] = sent[d] - 1 /\ \A e \in Devices \ {d} : sent'[e] = sent[e]
    BY <2>3 DEF AccountType
  <2> QED BY <2>1, <2>2, <2>3, <2>4, <2>5 DEF DequeueStep, Replaced
<1>2. CASE Refuse(d)
  <2>1. /\ Mine(d) # <<>>
        /\ \A e \in Devices, p \in Owners :
             queue'[e][p] = IF e = d /\ p = signed[d] THEN Tail(Mine(d)) ELSE queue[e][p]
    BY <1>2, RefuseType
  <2>2. UNCHANGED <<account, storage, signed, torn, doc, sent, cache, welcomed, named, ui, cnt>> /\ sent[d] = 0
    BY <1>2, Zenon DEF Refuse
  <2> QED BY <2>1, <2>2 DEF DequeueStep, Replaced, ui
<1> QED BY <1>1, <1>2

\* Every step keeps what the invariant says of the writes.
LEMMA NextWrites ==
  ASSUME AccountType, HandlersKept, WritesKept, AccountType', JobsGo(jobs, jobs'), [Next]_vars
  PROVE  WritesKept'
<1>1. CASE QuietStep
  BY <1>1, QuietWrites DEF QuietStep, Sends
<1>2. ASSUME NEW d \in Devices, NEW o \in Owners, NEW w \in Queued, QueueStep(d, o, w) PROVE WritesKept'
  <2>1. /\ UNCHANGED <<account, doc>> /\ w.doc \in account /\ w.job \in 0..Len(jobs)
        /\ \A e \in Devices : (signed'[e] = signed[e] /\ sent'[e] = sent[e]) \/ sent'[e] = 0
    BY <1>2 DEF QueueStep, Sends
  <2>2. \A e \in Devices, p \in Owners :
           queue'[e][p] = IF e = d /\ p = o THEN Append(queue[e][p], w) ELSE queue[e][p]
    BY <1>2 DEF QueueStep, Replaced
  <2> QED BY <2>1, <2>2, QueuedWrites
<1>3. ASSUME NEW d \in Devices, DequeueStep(d) PROVE WritesKept'
  BY <1>3, DequeuedWrites DEF DequeueStep, Replaced
<1>4. CASE (\E d \in Devices : Applies(d)) \/ (\E u \in Users : Befriend(u))
  BY <1>4, AppliedWrites
<1>5. ASSUME NEW d \in Devices, SignedUp(d) PROVE WritesKept'
  <2>1. PICK u \in account, w \in Queued : u \in Users /\ QueueStep(d, u, w)
    BY <1>5, SignedUpQueues
  <2> QED BY <1>2, <2>1 DEF Owners
<1>6. ASSUME NEW k \in DOMAIN jobs,
             (\E online \in BOOLEAN : FormRead(k, online)) \/ (\E url \in Pictures : GotURL(k, url))
      PROVE  WritesKept'
  <2>1. PICK d \in Devices, w \in Queued : QueueStep(d, signed[d], w)
    BY <1>6, JobQueues
  <2>2. signed[d] \in Owners
    BY MineFacts
  <2> QED BY <1>2, <2>1, <2>2
<1>7. ASSUME NEW d \in Devices, Answer(d) \/ Refuse(d) PROVE WritesKept'
  BY <1>3, <1>7, DequeueSteps
<1>8. CASE UNCHANGED vars \/ (\E d \in Devices : QuietDevice(d)) \/ (\E k \in DOMAIN jobs : QuietJob(k))
  BY <1>1, <1>8, QuietSteps
<1> QED BY <1>4, <1>5, <1>6, <1>7, <1>8, NextQueues

-----------------------------------------------------------------------------
(***************************************************************************)
(* The types and the dashboard                                             *)
(***************************************************************************)
Screens == AccountType /\ HandlersKept /\ WritesKept /\ DashboardOfSigned

\* Nothing has happened yet.
LEMMA InitScreens == Init => Screens
<1> SUFFICES ASSUME Init PROVE Screens
  OBVIOUS
<1>1. [NewProfile EXCEPT !.bio = "bio"] \in Profile
  BY DEF NewProfile, Profile, Names, Bios, Pictures
<1>2. doc \in [Users -> Profile \cup {None}] /\ named \in [Users -> SUBSET Names]
  BY <1>1 DEF Init, Names
<1>3. <<>> \in Seq(Queued) /\ jobs \in Seq(Jobs) /\ Len(jobs) = 0 /\ DOMAIN jobs = {}
  BY DEF Init
<1>4. queue \in [Devices -> [Owners -> Seq(Queued)]]
  BY <1>3 DEF Init, Owners
<1>5. Idle \in Handlers
  BY DEF Idle, Handlers
<1>6. reg \in [Devices -> Handlers] /\ \A d \in Devices : reg[d].stage = "idle" /\ ~reg[d].mounted
  BY <1>5 DEF Init, Idle
<1>7. MaxJobs \in Nat /\ MaxTaps \in Nat /\ MaxFaults \in Nat /\ Old \subseteq Users
  BY AccountAssumption
<1>8. 0 <= MaxJobs /\ 0 \in 0..MaxTaps /\ 0 \in 0..MaxFaults
  BY <1>7
<1>9. /\ account \subseteq Users /\ storage \subseteq Users /\ torn \subseteq account
      /\ welcomed \subseteq account /\ late \subseteq Devices
      /\ signed \in [Devices -> account \cup {Nobody}] /\ shown \in [Devices -> account \cup {Nobody}]
      /\ screen \in [Devices -> {"login", "register", "dashboard", "edit"}]
      /\ cache \in [Devices -> [Users -> [name : Names, bio : Bios] \cup {None}]]
      /\ sent \in [Devices -> Nat] /\ taps = 0 /\ faults = 0
      /\ below \in [Devices -> Seq(Routes)] /\ outs \in [Devices -> Seq(SignOuts)]
  BY <1>7 DEF Init
<1>10. AccountType
  BY <1>2, <1>3, <1>4, <1>6, <1>8, <1>9 DEF AccountType, Owners, Queued
<1>11. HandlersKept /\ DashboardOfSigned
  BY <1>3, <1>6 DEF Init, HandlersKept, RoutesKept, DashboardOfSigned
<1>12. WritesKept
  <2>1. \A d \in Devices, o \in Owners : queue[d][o] = <<>>
    BY DEF Init, Owners
  <2>2. ASSUME NEW d \in Devices PROVE SentExists(d, sent[d])
    <3>1. Mine(d) = <<>> /\ sent[d] = 0
      BY <1>10, <2>1, MineFacts DEF Init
    <3> QED BY <3>1 DEF SentExists
  <2>3. \A d \in Devices, o \in Owners : AboutAccounts(queue[d][o])
    BY <2>1 DEF AboutAccounts
  <2> QED BY <2>2, <2>3, WritesSplit
<1> QED BY <1>10, <1>11, <1>12 DEF Screens

\* The four parts need each other and nothing else.
LEMMA NextOfScreens ==
  ASSUME Screens, [Next]_vars
  PROVE  Screens' /\ JobsGo(jobs, jobs')
<1>1. AccountType' /\ JobsGo(jobs, jobs') /\ HandlersKept' /\ DashboardOfSigned'
  BY NextScreens DEF Screens
<1>2. WritesKept'
  BY <1>1, NextWrites DEF Screens
<1> QED BY <1>1, <1>2 DEF Screens

\* They hold in every state that is reached.
LEMMA AlwaysScreens == Spec => []Screens
<1>1. Init => Screens
  BY InitScreens
<1>2. Screens /\ [Next]_vars => Screens'
  BY NextOfScreens
<1> QED BY <1>1, <1>2, PTL DEF Spec

(***************************************************************************)
(* The state has its type: every device has a user with an account or      *)
(* none, every queued write is for the document of an account, and no more *)
(* is sent than queued, through changes of user, lost answers and kills.   *)
(***************************************************************************)
THEOREM AccountTypeCorrect == Spec => []TypeOK
<1>1. Screens => TypeOK
  <2> SUFFICES ASSUME Screens PROVE TypeOK
    OBVIOUS
  <2>1. AccountType /\ HandlersKept /\ WritesKept
    BY DEF Screens
  <2>2. /\ account \subseteq Users /\ storage \subseteq Users
        /\ torn \subseteq account /\ welcomed \subseteq account /\ late \subseteq Devices
        /\ \A u \in Users : doc[u] \in Profile \cup {None} /\ named[u] \subseteq Names
    BY <2>1 DEF AccountType
  <2>3. ASSUME NEW d \in Devices
        PROVE  /\ signed[d] \in account \cup {Nobody} /\ shown[d] \in account \cup {Nobody}
               /\ reg[d].user \in Users \cup {Nobody}
               /\ screen[d] \in {"login", "register", "dashboard", "edit"}
               /\ \A u \in Users : cache[d][u] \in [name : Names, bio : Bios] \cup {None}
    BY <2>1 DEF AccountType, Handlers
  <2>7. ASSUME NEW d \in Devices, NEW k \in DOMAIN outs[d] PROVE outs[d][k].home \in 0..(Len(below[d]) + 1)
    <3>1. PICK n \in Nat : n = Len(below[d]) /\ DOMAIN below[d] = 1..n
      BY <2>1 DEF AccountType
    <3>2. PICK h : h = outs[d][k].home
      OBVIOUS
    <3>3. h = 0 \/ h \in DOMAIN below[d] \/ h = Len(below[d]) + 1
      BY <2>1, <3>2 DEF HandlersKept, RoutesKept
    <3>4. h = 0 \/ h \in 1..n \/ h = n + 1
      BY <3>1, <3>3
    <3>5. h \in 0..(n + 1)
      BY <3>4
    <3> QED BY <3>1, <3>2, <3>5
  <2>4. ASSUME NEW d \in Devices PROVE sent[d] \in 0..Len(Mine(d))
    <3>1. sent[d] \in Nat /\ Len(Mine(d)) \in Nat /\ sent[d] <= Len(Mine(d))
      BY <2>1, MineFacts DEF AccountType, WritesKept
    <3> QED BY <3>1
  <2>5. \A d \in Devices : \A o \in Users \cup {Nobody} : \A w \in Writes(d, o) :
          w.doc \in account /\ w.job \in 0..Len(jobs)
    BY <2>1 DEF WritesKept, Writes
  <2>6. Len(jobs) <= MaxJobs /\ taps <= MaxTaps /\ faults <= MaxFaults
    BY <2>1, AccountAssumption DEF AccountType
  <2> QED BY <2>2, <2>3, <2>7, <2>4, <2>5, <2>6 DEF TypeOK
<1> QED BY <1>1, AlwaysScreens, PTL

(***************************************************************************)
(* The dashboard and the forms over it belong to the user who is signed    *)
(* in, or nobody is and the sign-out asked for on this very dashboard is   *)
(* about to leave it: on every device where no Sign Up and no Sign Out was *)
(* answered to another screen than it was asked on.                        *)
(***************************************************************************)
THEOREM DashboardOfSignedCorrect == Spec => []DashboardOfSigned
<1>1. Screens => DashboardOfSigned
  BY DEF Screens
<1> QED BY <1>1, AlwaysScreens, PTL

-----------------------------------------------------------------------------
(***************************************************************************)
(* Every user is registered once                                           *)
(***************************************************************************)
\* The invariant by the positions of the first writes.
Once ==
  /\ \A d \in Devices, o \in Owners : \A i \in Nat : First(d, o, i) => queue[d][o][i].doc = o
  /\ \A u \in Users : \A d, e \in Devices :
       /\ \A i, j \in Nat : First(d, u, i) /\ First(e, u, j) => d = e /\ i = j
       /\ Creating(d, u) => (\A i \in Nat : ~First(e, u, i)) /\ (Creating(e, u) => d = e)
       /\ u \in welcomed => (\A i \in Nat : ~First(d, u, i)) /\ ~Creating(d, u)

\* What waits as u's first write is at a position of a queue of u.
LEMMA FirstQueued ==
  ASSUME AccountType, NEW d \in Devices, NEW u \in Users,
         \A i \in Nat : First(d, u, i) => queue[d][u][i].doc = u
  PROVE  ProfileQueued(d, u) <=> \E i \in Nat : First(d, u, i)
<1>1. DOMAIN queue[d][u] \subseteq Nat
  BY QueueFacts DEF Owners
<1> QED BY <1>1 DEF ProfileQueued, Writes, First

\* The two forms agree.
LEMMA OnceIs ==
  ASSUME AccountType
  PROVE  RegisteredOnce <=> Once
<1>1. \A d \in Devices, o \in Owners : DOMAIN queue[d][o] \subseteq Nat
  BY QueueFacts
<1>2. (\A d \in Devices, o \in Users \cup {Nobody} : \A i \in DOMAIN queue[d][o] : First(d, o, i) => queue[d][o][i].doc = o)
        <=> (\A d \in Devices, o \in Owners : \A i \in Nat : First(d, o, i) => queue[d][o][i].doc = o)
  BY <1>1 DEF Owners, First
<1>3. ASSUME \A d \in Devices, o \in Owners : \A i \in Nat : First(d, o, i) => queue[d][o][i].doc = o
      PROVE  RegisteredOnce <=> Once
  <2>1. \A d \in Devices, u \in Users : ProfileQueued(d, u) <=> \E i \in Nat : First(d, u, i)
    BY <1>3, FirstQueued DEF Owners
  <2>2. \A u \in Users : \A d, e \in Devices :
          (\A i \in DOMAIN queue[d][u], j \in DOMAIN queue[e][u] : First(d, u, i) /\ First(e, u, j) => d = e /\ i = j)
             <=> (\A i, j \in Nat : First(d, u, i) /\ First(e, u, j) => d = e /\ i = j)
    BY <1>1 DEF Owners, First
  <2> QED BY <1>2, <1>3, <2>1, <2>2 DEF RegisteredOnce, Once
<1> QED BY <1>2, <1>3 DEF RegisteredOnce, Once

\* What a step that queues nothing for a new account does to the handlers of
\* Sign Up: one of them may have made an account, others may have been cut off.
RegStep(d) ==
  /\ torn \subseteq torn'
  /\ \A e \in Devices, u \in Users :
       /\ Creating(e, u)' => Creating(e, u) \/ (e = d /\ u \notin account)
       /\ Creating(e, u) => Creating(e, u)' \/ u \in torn'
  /\ \A u \in account' \ account : \E e \in Devices : Creating(e, u)'

\* Nothing happens to the handlers of Sign Up.
LEMMA RegStays ==
  ASSUME UNCHANGED <<account, torn, reg>>
  PROVE  \E d : RegStep(d)
BY DEF RegStep, Creating

\* The steps that leave the queues alone are such steps.
LEMMA RegSteps ==
  ASSUME AccountType, HandlersKept,
         \/ UNCHANGED vars
         \/ \E d \in Devices : QuietDevice(d)
         \/ \E k \in DOMAIN jobs : QuietJob(k)
  PROVE  \E d : RegStep(d)
<1>0. reg \in [Devices -> Handlers]
  BY DEF AccountType
<1>1. CASE UNCHANGED vars
  BY <1>1, RegStays DEF vars, ui
<1>2. ASSUME NEW k \in DOMAIN jobs, QuietJob(k) PROVE \E d : RegStep(d)
  <2>1. UNCHANGED <<account, torn, reg>>
    BY <1>2 DEF QuietJob, FormThrows, Uploaded, Retype, ui
  <2> QED BY <2>1, RegStays
<1>3. ASSUME NEW d \in Devices,
             \/ AnswersLost(d) \/ OpenRegister(d) \/ OpenEdit(d) \/ LeaveEdit(d) \/ SelectImage(d)
             \/ GoBack(d) \/ TapSignOut(d) \/ AuthSignsOut(d) \/ SignOutThrows(d)
             \/ \E u \in Users : LogIn(d, u) \/ LogInLeft(d, u)
             \/ \E n \in Names, b \in Bios : ChangeDetails(d, n, b)
      PROVE \E c : RegStep(c)
  <2>1. UNCHANGED <<account, torn, reg>>
    BY <1>3 DEF AnswersLost, OpenRegister, OpenEdit, LeaveEdit, SelectImage, GoBack, TapSignOut, AuthSignsOut,
                SignOutThrows, LogIn, LogInLeft, ChangeDetails, ui
  <2> QED BY <2>1, RegStays
<1>4. ASSUME NEW d \in Devices, NEW r, reg' = [reg EXCEPT ![d] = r], account' = account,
             torn' = IF reg[d].stage = "created" THEN torn \cup {reg[d].user} ELSE torn,
             r.stage # "created"
      PROVE  RegStep(d)
  <2>1. reg'[d] = r /\ \A e \in Devices : e # d => reg'[e] = reg[e]
    BY <1>0, <1>4
  <2> QED BY <1>4, <2>1 DEF RegStep, Creating
<1>5. ASSUME NEW d \in Devices, Restart(d) \/ SignUpFails(d) PROVE \E c : RegStep(c)
  <2>1. /\ reg' = [reg EXCEPT ![d] = Idle] /\ account' = account
        /\ torn' = IF reg[d].stage = "created" THEN torn \cup {reg[d].user} ELSE torn
    BY <1>5 DEF Restart, SignUpFails
  <2>2. Idle.stage # "created"
    BY DEF Idle
  <2> QED BY <1>4, <2>1, <2>2
<1>6. ASSUME NEW d \in Devices, SignInAfter(d) PROVE \E c : RegStep(c)
  <2>1. reg' = [reg EXCEPT ![d] = Idle] /\ account' = account /\ torn' = torn /\ reg[d].stage = "signIn"
    BY <1>6 DEF SignInAfter
  <2>2. Idle.stage # "created"
    BY DEF Idle
  <2> QED BY <1>4, <2>1, <2>2
<1>7. ASSUME NEW d \in Devices, NEW u \in Users, SignUp(d, u) PROVE \E c : RegStep(c)
  <2>1. PICK r : r = [stage |-> "create", user |-> u, mounted |-> TRUE]
    OBVIOUS
  <2>2. reg' = [reg EXCEPT ![d] = r] /\ account' = account /\ torn' = torn /\ reg[d] = Idle
    BY <1>7, <2>1 DEF SignUp
  <2>3. reg[d].stage # "created" /\ r.stage # "created"
    BY <2>1, <2>2 DEF Idle
  <2> QED BY <1>4, <2>2, <2>3
<1>8. ASSUME NEW d \in Devices, LeaveRegister(d) \/ SignOutReturns(d) PROVE \E c : RegStep(c)
  <2>1. PICK r : r = [reg[d] EXCEPT !.mounted = FALSE]
    OBVIOUS
  <2>2. r.stage = reg[d].stage /\ r.user = reg[d].user
    BY <1>0, <2>1 DEF Handlers
  <2>3. reg' = [reg EXCEPT ![d] = r] /\ account' = account /\ torn' = torn
    BY <1>8, <2>1 DEF LeaveRegister, SignOutReturns
  <2>4. reg'[d] = r /\ \A e \in Devices : e # d => reg'[e] = reg[e]
    BY <1>0, <2>3
  <2>5. \A e \in Devices, u \in Users : Creating(e, u)' <=> Creating(e, u)
    BY <2>2, <2>4 DEF Creating
  <2> QED BY <2>3, <2>5 DEF RegStep
<1>9. ASSUME NEW d \in Devices, AuthCreates(d) PROVE \E c : RegStep(c)
  <2>1. PICK r : r = [reg[d] EXCEPT !.stage = "created"]
    OBVIOUS
  <2>2. PICK u : u = reg[d].user
    OBVIOUS
  <2>3. r.stage = "created" /\ r.user = u
    BY <1>0, <2>1, <2>2 DEF Handlers
  <2>4. /\ reg' = [reg EXCEPT ![d] = r] /\ account' = account \cup {u} /\ torn' = torn
        /\ u \notin account /\ reg[d].stage = "create"
    BY <1>9, <2>1, <2>2 DEF AuthCreates
  <2>5. reg'[d] = r /\ \A e \in Devices : e # d => reg'[e] = reg[e]
    BY <1>0, <2>4
  <2>6. /\ \A e \in Devices, v \in Users : Creating(e, v)' => Creating(e, v) \/ (e = d /\ v = u)
        /\ \A e \in Devices, v \in Users : Creating(e, v) => Creating(e, v)'
        /\ Creating(d, u)'
    BY <2>3, <2>4, <2>5 DEF Creating
  <2> QED BY <2>4, <2>6 DEF RegStep
<1> QED BY <1>1, <1>2, <1>3, <1>5, <1>6, <1>7, <1>8, <1>9 DEF QuietDevice

\* Users who are not known have no first write and no handler that awaits one.
LEMMA NewUser ==
  ASSUME AccountType, HandlersKept, WritesKept, Once, NEW u \in Users, u \notin account, NEW d \in Devices
  PROVE  (\A i \in Nat : ~First(d, u, i)) /\ ~Creating(d, u) /\ u \notin welcomed
<1>1. \A i \in Nat : First(d, u, i) => queue[d][u][i].doc \in account /\ queue[d][u][i].doc = u
  BY DEF WritesKept, First, Once, Owners
<1>2. ~Creating(d, u)
  BY DEF Creating, HandlersKept
<1> QED BY <1>1, <1>2 DEF AccountType

\* Steps that leave the queues alone.
LEMMA QuietOnce ==
  ASSUME AccountType, HandlersKept, WritesKept, Once, UNCHANGED <<queue, welcomed>>, NEW c, RegStep(c)
  PROVE  Once'
<1>1. \A d, o, i : First(d, o, i)' <=> First(d, o, i)
  BY DEF First
<1>2. \A d \in Devices, u \in Users : Creating(d, u)' => Creating(d, u) \/ (d = c /\ u \notin account)
  BY DEF RegStep
<1>3. ASSUME NEW u \in Users, NEW d \in Devices, NEW e \in Devices
      PROVE  /\ \A i, j \in Nat : First(d, u, i)' /\ First(e, u, j)' => d = e /\ i = j
             /\ Creating(d, u)' => (\A i \in Nat : ~First(e, u, i)') /\ (Creating(e, u)' => d = e)
             /\ u \in welcomed' => (\A i \in Nat : ~First(d, u, i)') /\ ~Creating(d, u)'
  <2>1. CASE u \in account
    BY <1>1, <1>2, <2>1 DEF Once
  <2>2. CASE u \notin account
    <3>1. (\A i \in Nat : ~First(d, u, i) /\ ~First(e, u, i)) /\ ~Creating(d, u) /\ ~Creating(e, u) /\ u \notin welcomed
      BY <2>2, NewUser
    <3> QED BY <1>1, <1>2, <2>2, <3>1
  <2> QED BY <2>1, <2>2
<1>4. \A d \in Devices, o \in Owners : \A i \in Nat : First(d, o, i)' => queue'[d][o][i].doc = o
  BY <1>1 DEF Once
<1> QED BY <1>3, <1>4 DEF Once

\* Where the first writes are after a write was queued.
LEMMA FirstAppended ==
  ASSUME AccountType, NEW d \in Devices, NEW o \in Owners, NEW w \in Queued,
         Replaced(d, o, Append(queue[d][o], w)),
         NEW e \in Devices, NEW p \in Owners, NEW i \in Nat
  PROVE  /\ First(e, p, i) => First(e, p, i)' /\ queue'[e][p][i] = queue[e][p][i]
         /\ First(e, p, i)' =>
              \/ First(e, p, i)
              \/ e = d /\ p = o /\ w.op = "set" /\ i = Len(queue[d][o]) + 1 /\ queue'[e][p][i] = w
         /\ w.op = "set" => \E k \in Nat : First(d, o, k)'
<1>1. PICK q \in Seq(Queued) : q = queue[d][o]
  BY QueueFacts
<1>2. PICK m \in Nat : m = Len(q) /\ DOMAIN q = 1..m
  BY <1>1
<1>3. PICK r : r = Append(q, w)
  OBVIOUS
<1>4. DOMAIN r = 1..(m + 1) /\ r[m + 1] = w /\ \A h \in 1..m : r[h] = q[h]
  BY <1>2, <1>3, Appended
<1>5. m + 1 \in 1..(m + 1) /\ (i \in 1..(m + 1) <=> i \in 1..m \/ i = m + 1)
  BY <1>2
<1>6. queue'[d][o] = r /\ (e # d \/ p # o => queue'[e][p] = queue[e][p])
  BY <1>1, <1>3 DEF Replaced
<1>7. First(d, o, i)' <=> i \in 1..(m + 1) /\ r[i].op = "set"
  BY <1>4, <1>6 DEF First
<1>8. First(d, o, i) <=> i \in 1..m /\ q[i].op = "set"
  BY <1>1, <1>2 DEF First
<1>9. w.op = "set" => First(d, o, m + 1)'
  BY <1>4, <1>5, <1>6 DEF First
<1>10. First(d, o, i) => First(d, o, i)' /\ r[i] = q[i]
  BY <1>4, <1>5, <1>7, <1>8
<1>11. First(d, o, i)' => First(d, o, i) \/ (w.op = "set" /\ i = m + 1 /\ r[i] = w)
  BY <1>4, <1>5, <1>7, <1>8
<1>12. e # d \/ p # o => (First(e, p, i)' <=> First(e, p, i)) /\ queue'[e][p][i] = queue[e][p][i]
  BY <1>6 DEF First
<1>13. Len(queue[d][o]) = m /\ queue'[d][o] = r /\ queue[d][o] = q
  BY <1>1, <1>2, <1>6
<1>14. w.op = "set" => \E k \in Nat : First(d, o, k)'
  <2>1. PICK k \in Nat : k = m + 1
    OBVIOUS
  <2> QED BY <1>9, <2>1
<1>15. CASE e # d \/ p # o
  BY <1>12, <1>14, <1>15
<1>16. CASE e = d /\ p = o
  BY <1>10, <1>11, <1>13, <1>14, <1>16, Zenon
<1> QED BY <1>15, <1>16

\* An update is queued.
LEMMA UpdateOnce ==
  ASSUME AccountType, Once, NEW d \in Devices, NEW o \in Owners, NEW w \in Queued, w.op = "update",
         QueueStep(d, o, w), UNCHANGED reg
  PROVE  Once'
<1>1. Replaced(d, o, Append(queue[d][o], w)) /\ welcomed' = welcomed
  BY DEF QueueStep
<1>2. \A e \in Devices, p \in Owners, i \in Nat :
        First(e, p, i)' => First(e, p, i) /\ queue'[e][p][i] = queue[e][p][i]
  BY <1>1, FirstAppended
<1>3. \A e, u : Creating(e, u)' <=> Creating(e, u)
  BY DEF Creating
<1>4. \A e \in Devices, u \in Users, i \in Nat : First(e, u, i)' => First(e, u, i)
  BY <1>2 DEF Owners
<1> QED BY <1>1, <1>2, <1>3, <1>4 DEF Once

\* The first write is queued: its handler awaits it no more.
LEMMA SignedUpOnce ==
  ASSUME AccountType, HandlersKept, Once, NEW d \in Devices, SignedUp(d)
  PROVE  Once'
<1>1. PICK u \in account, w \in Queued :
           /\ Creating(d, u) /\ u \in Users /\ w.op = "set" /\ w.doc = u
           /\ QueueStep(d, u, w)
  BY SignedUpQueues
<1>2. PICK o \in Owners : o = u
  BY <1>1 DEF Owners
<1>3. Replaced(d, o, Append(queue[d][o], w)) /\ welcomed' = welcomed
  BY <1>1, <1>2 DEF QueueStep
<1>4. PICK m \in Nat : m = Len(queue[d][o]) + 1
  BY QueueFacts
<1>5. \A e \in Devices, p \in Owners, i \in Nat :
        First(e, p, i)' => \/ First(e, p, i) /\ queue'[e][p][i] = queue[e][p][i]
                           \/ e = d /\ p = o /\ i = m /\ queue'[e][p][i] = w
  BY <1>3, <1>4, FirstAppended
<1>6. \A e \in Devices, v \in Users : Creating(e, v)' => Creating(e, v) /\ e # d
  <2>1. PICK r : r = IF reg[d].mounted THEN [reg[d] EXCEPT !.stage = "signIn"] ELSE Idle
    OBVIOUS
  <2>2. reg \in [Devices -> Handlers] /\ reg[d] \in Handlers
    BY DEF AccountType
  <2>3. r.stage # "created"
    BY <2>1, <2>2 DEF Handlers, Idle
  <2>4. reg' = [reg EXCEPT ![d] = r]
    BY <2>1 DEF SignedUp
  <2>5. reg'[d] = r /\ \A e \in Devices : e # d => reg'[e] = reg[e]
    BY <2>2, <2>4
  <2> QED BY <2>3, <2>5 DEF Creating
<1>7. \A e \in Devices : (\A i \in Nat : ~First(e, u, i)) /\ (Creating(e, u) => e = d) /\ u \notin welcomed
  BY <1>1 DEF Once
<1>8. ASSUME NEW v \in Users, NEW e \in Devices, NEW f \in Devices
      PROVE  /\ \A i, j \in Nat : First(e, v, i)' /\ First(f, v, j)' => e = f /\ i = j
             /\ Creating(e, v)' => (\A i \in Nat : ~First(f, v, i)') /\ (Creating(f, v)' => e = f)
             /\ v \in welcomed' => (\A i \in Nat : ~First(e, v, i)') /\ ~Creating(e, v)'
  <2>1. v \in Owners
    BY DEF Owners
  <2>2. CASE v = u
    <3>1. \A g \in Devices, i \in Nat : First(g, v, i)' => g = d /\ i = m
      BY <1>2, <1>5, <1>7, <2>1, <2>2
    <3>2. ~Creating(e, v)' /\ v \notin welcomed'
      BY <1>3, <1>6, <1>7, <2>2
    <3> QED BY <3>1, <3>2
  <2>3. CASE v # u
    <3>1. \A g \in Devices, i \in Nat : First(g, v, i)' => First(g, v, i)
      BY <1>2, <1>5, <2>1, <2>3
    <3> QED BY <1>3, <1>6, <3>1 DEF Once
  <2> QED BY <2>2, <2>3
<1>9. \A e \in Devices, p \in Owners : \A i \in Nat : First(e, p, i)' => queue'[e][p][i].doc = p
  BY <1>1, <1>2, <1>5 DEF Once
<1> QED BY <1>8, <1>9 DEF Once

\* Where the first writes are after one write was answered or refused.
LEMMA FirstShifted ==
  ASSUME AccountType, NEW d \in Devices, DequeueStep(d), NEW e \in Devices, NEW p \in Owners, NEW i \in Nat
  PROVE  /\ e # d \/ p # signed[d] =>
              (First(e, p, i)' <=> First(e, p, i)) /\ queue'[e][p] = queue[e][p]
         /\ e = d /\ p = signed[d] =>
              /\ First(e, p, i)' => First(e, p, i + 1) /\ queue'[e][p][i] = queue[e][p][i + 1] /\ i # 0
              /\ First(e, p, i + 1) /\ i # 0 => First(e, p, i)'
<1>1. PICK q \in Seq(Queued) : q = Mine(d) /\ q # <<>> /\ q = queue[d][signed[d]]
  BY MineFacts DEF DequeueStep
<1>2. PICK m \in Nat : m = Len(q) /\ DOMAIN q = 1..m
  BY <1>1
<1>3. PICK r : r = Tail(q)
  OBVIOUS
<1>4. DOMAIN r = 1..(m - 1) /\ \A h \in 1..(m - 1) : r[h] = q[h + 1]
  BY <1>1, <1>2, <1>3, Shifted
<1>5. /\ i \in 1..(m - 1) => i + 1 \in 1..m /\ i # 0
      /\ i + 1 \in 1..m /\ i # 0 => i \in 1..(m - 1)
  BY <1>2
<1>6. /\ e # d \/ p # signed[d] => queue'[e][p] = queue[e][p]
      /\ e = d /\ p = signed[d] => queue'[e][p] = r /\ queue[e][p] = q
  BY <1>1, <1>3 DEF DequeueStep, Replaced
<1>7. CASE e # d \/ p # signed[d]
  BY <1>6, <1>7 DEF First
<1>8. CASE e = d /\ p = signed[d]
  <2>1. First(e, p, i)' <=> i \in 1..(m - 1) /\ r[i].op = "set"
    BY <1>4, <1>6, <1>8 DEF First
  <2>2. First(e, p, i + 1) <=> i + 1 \in 1..m /\ q[i + 1].op = "set"
    BY <1>2, <1>6, <1>8 DEF First
  <2>3. i \in 1..(m - 1) => r[i] = q[i + 1]
    BY <1>4
  <2> QED BY <1>5, <1>6, <1>8, <2>1, <2>2, <2>3
<1> QED BY <1>7, <1>8

\* A first write is answered, or an update answered or refused.
LEMMA DequeuedOnce ==
  ASSUME AccountType, HandlersKept, WritesKept, Once, NEW d \in Devices, Answer(d) \/ Refuse(d)
  PROVE  Once'
<1>1. DequeueStep(d) /\ reg' = reg
  BY DequeueSteps
<1>2. PICK w \in Queued : w = Head(Mine(d)) /\ Mine(d) # <<>> /\ 1 \in DOMAIN Mine(d) /\ w = Mine(d)[1]
  BY <1>1, MineFacts, Shifted DEF DequeueStep
<1>3. PICK o \in Owners : o = signed[d] /\ Mine(d) = queue[d][o]
  BY MineFacts
<1>4. welcomed' = welcomed \/ (w.op = "set" /\ welcomed' = welcomed \cup {w.doc})
  BY <1>2, DequeueSteps
<1>5. w.op = "set" => First(d, o, 1) /\ w.doc = o
  BY <1>2, <1>3 DEF First, Once
<1>6. \A e, u : Creating(e, u)' <=> Creating(e, u)
  BY <1>1 DEF Creating
<1>7. ASSUME NEW e \in Devices, NEW p \in Owners, NEW i \in Nat, First(e, p, i)'
      PROVE  \E k \in Nat : /\ First(e, p, k) /\ queue'[e][p][i] = queue[e][p][k]
                            /\ k = IF e = d /\ p = o THEN i + 1 ELSE i
                            /\ e = d /\ p = o => i # 0
  <2>1. CASE e # d \/ p # o
    BY <1>1, <1>3, <1>7, <2>1, FirstShifted
  <2>2. CASE e = d /\ p = o
    <3>1. First(e, p, i + 1) /\ queue'[e][p][i] = queue[e][p][i + 1] /\ i # 0
      BY <1>1, <1>3, <1>7, <2>2, FirstShifted
    <3>2. PICK k \in Nat : k = i + 1
      OBVIOUS
    <3> QED BY <2>2, <3>1, <3>2
  <2> QED BY <2>1, <2>2
<1>8. \A e \in Devices, p \in Owners : \A i \in Nat : First(e, p, i)' => queue'[e][p][i].doc = p
  BY <1>7 DEF Once
<1>9. ASSUME NEW u \in Users, NEW e \in Devices, NEW i \in Nat, First(e, u, i)'
      PROVE  ~(w.op = "set" /\ w.doc = u)
  <2>1. SUFFICES ASSUME w.op = "set", w.doc = u PROVE FALSE
    OBVIOUS
  <2>2. u = o /\ First(d, u, 1)
    BY <1>5, <2>1
  <2>3. PICK k \in Nat : First(e, u, k) /\ (e = d => k = i + 1 /\ i # 0)
    BY <1>7, <1>9, <2>2 DEF Owners
  <2>4. d = e /\ 1 = k
    BY <2>2, <2>3 DEF Once
  <2> QED BY <2>3, <2>4
<1>10. ASSUME NEW u \in Users, NEW e \in Devices, NEW f \in Devices
       PROVE  /\ \A i, j \in Nat : First(e, u, i)' /\ First(f, u, j)' => e = f /\ i = j
              /\ Creating(e, u)' => (\A i \in Nat : ~First(f, u, i)') /\ (Creating(f, u)' => e = f)
              /\ u \in welcomed' => (\A i \in Nat : ~First(e, u, i)') /\ ~Creating(e, u)'
  <2>1. u \in Owners
    BY DEF Owners
  <2>2. ASSUME NEW i \in Nat, NEW j \in Nat, First(e, u, i)', First(f, u, j)' PROVE e = f /\ i = j
    <3>1. PICK k \in Nat : First(e, u, k) /\ k = IF e = d /\ u = o THEN i + 1 ELSE i
      BY <1>7, <2>1, <2>2
    <3>2. PICK l \in Nat : First(f, u, l) /\ l = IF f = d /\ u = o THEN j + 1 ELSE j
      BY <1>7, <2>1, <2>2
    <3>3. e = f /\ k = l
      BY <3>1, <3>2 DEF Once
    <3> QED BY <3>1, <3>2, <3>3
  <2>3. Creating(e, u)' => (\A i \in Nat : ~First(f, u, i)') /\ (Creating(f, u)' => e = f)
    <3>1. Creating(e, u) => \A i \in Nat : ~First(f, u, i)'
      BY <1>7, <2>1 DEF Once
    <3> QED BY <1>6, <3>1 DEF Once
  <2>4. u \in welcomed' => (\A i \in Nat : ~First(e, u, i)') /\ ~Creating(e, u)'
    <3>1. CASE u \in welcomed
      <4>1. \A i \in Nat : ~First(e, u, i)'
        BY <1>7, <2>1, <3>1 DEF Once
      <4> QED BY <1>6, <3>1, <4>1 DEF Once
    <3>2. CASE w.op = "set" /\ w.doc = u
      <4>1. u = o /\ First(d, u, 1)
        BY <1>5, <3>2
      <4>2. ~Creating(e, u)
        BY <4>1 DEF Once
      <4> QED BY <1>6, <1>9, <3>2, <4>2
    <3> QED BY <1>4, <3>1, <3>2
  <2> QED BY <2>2, <2>3, <2>4
<1> QED BY <1>8, <1>10 DEF Once

\* Every step keeps it.
LEMMA NextOnce ==
  ASSUME AccountType, HandlersKept, WritesKept, Once, [Next]_vars
  PROVE  Once'
<1>1. CASE UNCHANGED vars \/ (\E d \in Devices : QuietDevice(d)) \/ (\E k \in DOMAIN jobs : QuietJob(k))
  <2>1. PICK c : RegStep(c)
    BY <1>1, RegSteps
  <2>2. UNCHANGED <<queue, welcomed>>
    BY <1>1, QuietSteps DEF QuietStep
  <2> QED BY <2>1, <2>2, QuietOnce
<1>2. ASSUME NEW d \in Devices, SignedUp(d) PROVE Once'
  BY <1>2, SignedUpOnce
<1>3. ASSUME NEW d \in Devices, Answer(d) \/ Refuse(d) PROVE Once'
  BY <1>3, DequeuedOnce
<1>4. ASSUME NEW k \in DOMAIN jobs,
             (\E online \in BOOLEAN : FormRead(k, online)) \/ (\E url \in Pictures : GotURL(k, url))
      PROVE  Once'
  <2>1. PICK d \in Devices, w \in Queued : w.op = "update" /\ QueueStep(d, signed[d], w) /\ UNCHANGED reg
    BY <1>4, JobQueues
  <2>2. PICK o \in Owners : o = signed[d]
    BY MineFacts
  <2> QED BY <2>1, <2>2, UpdateOnce
<1>5. CASE (\E d \in Devices : Applies(d)) \/ (\E u \in Users : Befriend(u))
  <2>1. UNCHANGED <<queue, welcomed, account, torn, reg>>
    BY <1>5 DEF Applies, Befriend, ui
  <2>2. PICK c : RegStep(c)
    BY <2>1, RegStays
  <2> QED BY <2>1, <2>2, QuietOnce
<1> QED BY <1>1, <1>2, <1>3, <1>4, <1>5, NextQueues

-----------------------------------------------------------------------------
(***************************************************************************)
(* Accounts and documents                                                  *)
(***************************************************************************)
\* The document of u is there, or will be, or the registration was cut off.
Waiting(u) == \E d \in Devices : (\E i \in Nat : First(d, u, i)) \/ Creating(d, u)
HasDocument == \A u \in account : doc[u] # None \/ u \in torn \/ Waiting(u)

\* The two forms agree.
LEMMA HasDocumentIs ==
  ASSUME AccountType, Once
  PROVE  HasDocument <=> AccountHasDocument
<1>1. \A d \in Devices, u \in Users : ProfileQueued(d, u) <=> \E i \in Nat : First(d, u, i)
  BY FirstQueued DEF Once, Owners
<1>2. account \subseteq Users
  BY DEF AccountType
<1> QED BY <1>1, <1>2 DEF HasDocument, AccountHasDocument, Waiting, Creating

\* A first write leaves its queue only once it has made the document.
LEMMA DequeuedDocument ==
  ASSUME AccountType, HandlersKept, WritesKept, Once, NEW d \in Devices, Answer(d) \/ Refuse(d),
         NEW u \in Users, Waiting(u), doc[u] = None
  PROVE  Waiting(u)'
<1>1. DequeueStep(d) /\ reg' = reg /\ Mine(d) # <<>>
  BY DequeueSteps DEF DequeueStep
<1>2. PICK w \in Queued : w = Head(Mine(d)) /\ 1 \in DOMAIN Mine(d) /\ w = Mine(d)[1]
  BY <1>1, MineFacts, Shifted
<1>3. CASE \E e \in Devices : Creating(e, u)
  BY <1>1, <1>3 DEF Waiting, Creating
<1>4. CASE \E e \in Devices : \E i \in Nat : First(e, u, i)
  <2>1. PICK e \in Devices, i \in Nat : First(e, u, i)
    BY <1>4
  <2>2. u \in Owners
    BY DEF Owners
  <2>3. CASE e # d \/ u # signed[d]
    BY <1>1, <2>1, <2>2, <2>3, FirstShifted DEF Waiting
  <2>4. CASE e = d /\ u = signed[d] /\ i = 1
    <3>1. w.op = "set" /\ w.doc = u
      BY <1>2, <2>1, <2>2, <2>4, MineFacts DEF First, Once
    <3>2. ~Refuse(d)
      BY <1>2, <3>1 DEF Refuse, Missing
    <3>3. sent[d] \in Nat /\ sent[d] > 0
      BY <3>2 DEF Answer, AccountType
    <3>4. doc[w.doc] # None
      <4>1. 1 \in 1..sent[d]
        BY <3>3
      <4> QED BY <1>2, <4>1, WritesSplit DEF SentExists
    <3> QED BY <3>1, <3>4
  <2>5. CASE e = d /\ u = signed[d] /\ i # 1
    <3>1. i # 0
      <4>1. DOMAIN queue[e][u] = 1..Len(queue[e][u]) /\ Len(queue[e][u]) \in Nat /\ i \in DOMAIN queue[e][u]
        BY <2>1, <2>2, QueueFacts DEF First
      <4> QED BY <4>1
    <3>2. PICK k \in Nat : i = k + 1 /\ k # 0
      <4>1. i - 1 \in Nat /\ i = (i - 1) + 1 /\ i - 1 # 0
        BY <2>5, <3>1
      <4> QED BY <4>1
    <3>3. First(e, u, k)'
      BY <1>1, <2>1, <2>2, <2>5, <3>2, FirstShifted
    <3> QED BY <3>3 DEF Waiting
  <2> QED BY <2>3, <2>4, <2>5
<1> QED BY <1>3, <1>4 DEF Waiting

\* Every step keeps it.
LEMMA NextDocument ==
  ASSUME AccountType, HandlersKept, WritesKept, Once, HasDocument, AccountType', [Next]_vars
  PROVE  HasDocument'
<1>0. account \subseteq Users /\ account' \subseteq Users
  BY DEF AccountType
<1>1. ASSUME NEW c, RegStep(c), UNCHANGED <<queue>>, \A u \in Users : doc[u] # None => doc'[u] # None
      PROVE  HasDocument'
  <2>1. \A d, o, i : First(d, o, i)' <=> First(d, o, i)
    BY <1>1 DEF First
  <2>2. \A u \in Users : Waiting(u) => Waiting(u)' \/ u \in torn'
    BY <1>1, <2>1 DEF RegStep, Waiting
  <2>3. \A u \in account' \ account : Waiting(u)'
    BY <1>1 DEF RegStep, Waiting
  <2>4. torn \subseteq torn'
    BY <1>1 DEF RegStep
  <2> QED BY <1>0, <1>1, <2>2, <2>3, <2>4 DEF HasDocument
<1>2. CASE UNCHANGED vars \/ (\E d \in Devices : QuietDevice(d)) \/ (\E k \in DOMAIN jobs : QuietJob(k))
  <2>1. PICK c : RegStep(c)
    BY <1>2, RegSteps
  <2>2. UNCHANGED <<queue, doc>>
    BY <1>2, QuietSteps DEF QuietStep
  <2> QED BY <1>1, <2>1, <2>2
<1>3. CASE (\E d \in Devices : Applies(d)) \/ (\E u \in Users : Befriend(u))
  <2>1. UNCHANGED <<queue, account, torn, reg>>
    BY <1>3 DEF Applies, Befriend, ui
  <2>2. PICK c : RegStep(c)
    BY <2>1, RegStays
  <2>3. \A u \in Users : doc[u] # None => doc'[u] # None
    BY <1>3, AppliedWrites
  <2> QED BY <1>1, <2>1, <2>2, <2>3
<1>4. ASSUME NEW d \in Devices, NEW o \in Owners, NEW w \in Queued, QueueStep(d, o, w),
             NEW u \in Users, \E e \in Devices, i \in Nat : First(e, u, i)
      PROVE  Waiting(u)'
  <2>1. PICK e \in Devices, i \in Nat : First(e, u, i)
    BY <1>4
  <2>2. First(e, u, i)'
    BY <1>4, <2>1, FirstAppended DEF QueueStep, Owners
  <2> QED BY <2>2 DEF Waiting
<1>5. ASSUME NEW d \in Devices, SignedUp(d) PROVE HasDocument'
  <2>1. PICK v \in account, w \in Queued : Creating(d, v) /\ v \in Users /\ w.op = "set" /\ QueueStep(d, v, w)
    BY <1>5, SignedUpQueues
  <2>2. PICK o \in Owners : o = v
    BY <2>1 DEF Owners
  <2>3. UNCHANGED <<account, torn, doc>>
    BY <1>5 DEF SignedUp
  <2>4. Waiting(v)'
    <3>1. \E k \in Nat : First(d, v, k)'
      BY <2>1, <2>2, FirstAppended DEF QueueStep
    <3> QED BY <3>1 DEF Waiting
  <2>5. ASSUME NEW u \in Users, Waiting(u) PROVE Waiting(u)'
    <3>1. CASE \E e \in Devices, i \in Nat : First(e, u, i)
      BY <1>4, <2>1, <2>2, <3>1
    <3>2. CASE Creating(d, u)
      BY <2>1, <2>4, <3>2 DEF Creating
    <3>3. CASE \E e \in Devices \ {d} : Creating(e, u)
      <4>1. PICK e \in Devices \ {d} : Creating(e, u)
        BY <3>3
      <4>2. reg'[e] = reg[e]
        BY <1>5, <4>1 DEF SignedUp, AccountType
      <4> QED BY <4>1, <4>2 DEF Waiting, Creating
    <3> QED BY <2>5, <3>1, <3>2, <3>3 DEF Waiting
  <2> QED BY <1>0, <2>3, <2>5 DEF HasDocument
<1>6. ASSUME NEW k \in DOMAIN jobs,
             (\E online \in BOOLEAN : FormRead(k, online)) \/ (\E url \in Pictures : GotURL(k, url))
      PROVE  HasDocument'
  <2>1. PICK d \in Devices, w \in Queued : QueueStep(d, signed[d], w) /\ UNCHANGED <<reg, torn>>
    BY <1>6, JobQueues
  <2>2. PICK o \in Owners : o = signed[d]
    BY MineFacts
  <2>3. ASSUME NEW u \in Users, Waiting(u) PROVE Waiting(u)'
    <3>1. CASE \E e \in Devices, i \in Nat : First(e, u, i)
      BY <1>4, <2>1, <2>2, <3>1
    <3>2. CASE \E e \in Devices : Creating(e, u)
      BY <2>1, <3>2 DEF Waiting, Creating
    <3> QED BY <2>3, <3>1, <3>2 DEF Waiting
  <2>4. UNCHANGED <<account, doc>>
    BY <2>1 DEF QueueStep
  <2> QED BY <1>0, <2>1, <2>3, <2>4 DEF HasDocument
<1>7. ASSUME NEW d \in Devices, Answer(d) \/ Refuse(d) PROVE HasDocument'
  <2>1. UNCHANGED <<account, doc, torn>>
    BY <1>7, DequeueSteps DEF DequeueStep
  <2>2. \A u \in Users : doc[u] = None /\ Waiting(u) => Waiting(u)'
    BY <1>7, DequeuedDocument
  <2> QED BY <1>0, <2>1, <2>2 DEF HasDocument
<1> QED BY <1>2, <1>3, <1>5, <1>6, <1>7, NextQueues

\* Nothing is queued at first, and no registration under way.
LEMMA InitOnce == Init => Once /\ HasDocument
<1> SUFFICES ASSUME Init PROVE Once /\ HasDocument
  OBVIOUS
<1>1. \A d \in Devices, o \in Owners : DOMAIN queue[d][o] = {}
  BY DEF Init, Owners
<1>2. \A d \in Devices : \A u : ~Creating(d, u)
  BY DEF Init, Creating, Idle
<1>3. \A d \in Devices, o \in Owners, i \in Nat : ~First(d, o, i)
  BY <1>1 DEF First
<1>4. Once
  BY <1>2, <1>3 DEF Once, Owners
<1>5. PICK p : p = [NewProfile EXCEPT !.bio = "bio"]
  OBVIOUS
<1>6. p # None
  <2>1. p \in Profile
    BY <1>5 DEF NewProfile, Profile, Names, Bios, Pictures
  <2> QED BY <2>1, NoneAssumption
<1>7. \A u \in account : u \in Users /\ doc[u] = p
  BY <1>5, AccountAssumption DEF Init
<1> QED BY <1>4, <1>6, <1>7 DEF HasDocument

Registered == Screens /\ Once /\ HasDocument

\* Both hold in every state that is reached.
LEMMA AlwaysRegistered == Spec => []Registered
<1>1. Init => Registered
  BY InitScreens, InitOnce DEF Registered
<1>2. ASSUME Registered, [Next]_vars PROVE Registered'
  <2>1. AccountType /\ HandlersKept /\ WritesKept /\ Once /\ HasDocument /\ Screens
    BY <1>2 DEF Registered, Screens
  <2>2. Screens'
    BY <1>2, <2>1, NextOfScreens
  <2>3. AccountType'
    BY <2>2 DEF Screens
  <2>4. Once'
    BY <1>2, <2>1, NextOnce
  <2>5. HasDocument'
    BY <1>2, <2>1, <2>3, NextDocument
  <2> QED BY <2>2, <2>4, <2>5 DEF Registered
<1>3. Registered /\ [Next]_vars => Registered'
  BY <1>2
<1> QED BY <1>1, <1>3, PTL DEF Spec

(***************************************************************************)
(* An account has a document, or will have one: the set that settingNew-   *)
(* Profile queues without awaiting it leaves its queue only after the      *)
(* server has applied it, through changes of user, lost answers and kills. *)
(***************************************************************************)
THEOREM AccountHasDocumentCorrect == Spec => []AccountHasDocument
<1>1. Registered => AccountHasDocument
  BY HasDocumentIs DEF Registered, Screens
<1> QED BY <1>1, AlwaysRegistered, PTL

\* Only the server's steps change a document.
LEMMA DocSteps ==
  ASSUME AccountType, HandlersKept, WritesKept, [Next]_vars
  PROVE  (\E d \in Devices : Applies(d)) \/ (\E v \in Users : Befriend(v)) \/ doc' = doc
<1>1. CASE UNCHANGED vars \/ (\E d \in Devices : QuietDevice(d)) \/ (\E k \in DOMAIN jobs : QuietJob(k))
  BY <1>1, QuietSteps DEF QuietStep
<1>2. ASSUME NEW d \in Devices, SignedUp(d) PROVE doc' = doc
  BY <1>2 DEF SignedUp
<1>3. ASSUME NEW k \in DOMAIN jobs,
             (\E online \in BOOLEAN : FormRead(k, online)) \/ (\E url \in Pictures : GotURL(k, url))
      PROVE  doc' = doc
  BY <1>3, JobQueues DEF QueueStep
<1>4. ASSUME NEW d \in Devices, Answer(d) \/ Refuse(d) PROVE doc' = doc
  BY <1>4, DequeueSteps DEF DequeueStep
<1> QED BY <1>1, <1>2, <1>3, <1>4, NextQueues

\* The writes that change the document of a user whose first write was
\* answered are updates; they keep the lists, and the picture or set one.
LEMMA ProfileStays ==
  ASSUME Registered, [Next]_vars, NEW u \in welcomed
  PROVE  /\ doc[u].friends => doc'[u].friends
         /\ doc[u].pic # "default" => doc'[u].pic # "default"
<1>0. AccountType /\ HandlersKept /\ WritesKept /\ Once
  BY DEF Registered, Screens
<1>1. u \in Users
  BY <1>0 DEF AccountType
<1>2. ASSUME NEW d \in Devices, Applies(d)
      PROVE  /\ doc[u].friends => doc'[u].friends
             /\ doc[u].pic # "default" => doc'[u].pic # "default"
  <2>1. PICK q \in Seq(Queued) : q = Mine(d) /\ q = queue[d][signed[d]]
    BY <1>0, MineFacts
  <2>2. PICK n \in Nat : n = sent[d]
    BY <1>0 DEF AccountType
  <2>3. n + 1 \in DOMAIN q /\ n + 1 \in Nat
    <3>1. sent[d] < Len(Mine(d))
      BY <1>2, Zenon DEF Applies
    <3>2. PICK m \in Nat : m = Len(q) /\ DOMAIN q = 1..m
      BY <2>1
    <3>3. n < m
      BY <2>1, <2>2, <3>1, <3>2
    <3> QED BY <3>2, <3>3
  <2>4. PICK w \in Queued : w = q[n + 1] /\ w.doc \in Users
    BY <1>0, <2>1, <2>3, HeadFacts
  <2>5. doc[w.doc] \in Profile \cup {None} /\ ~Missing(w, doc[w.doc])
    BY <1>0, <1>2, <2>1, <2>2, <2>4 DEF Applies, AccountType
  <2>6. PICK c : c = Written(w, doc[w.doc])
    OBVIOUS
  <2>7. doc' = [doc EXCEPT ![w.doc] = c]
    BY <1>2, <2>1, <2>2, <2>4, <2>6 DEF Applies
  <2>8. doc'[w.doc] = c /\ (u # w.doc => doc'[u] = doc[u])
    BY <1>0, <1>1, <2>4, <2>7 DEF AccountType
  <2>9. CASE u # w.doc
    BY <2>8, <2>9
  <2>10. CASE u = w.doc
    <3>1. w.op # "set"
      <4>1. SUFFICES ASSUME w.op = "set" PROVE FALSE
        OBVIOUS
      <4>2. signed[d] \in Owners
        BY <1>0, MineFacts
      <4>3. First(d, signed[d], n + 1)
        BY <2>1, <2>3, <2>4, <4>1 DEF First
      <4>4. u = signed[d]
        BY <1>0, <2>1, <2>3, <2>4, <2>10, <4>2, <4>3 DEF Once
      <4> QED BY <1>0, <1>1, <2>3, <4>3, <4>4 DEF Once
    <3>2. w.op = "update"
      BY <3>1, WriteFacts
    <3>3. c.friends = doc[u].friends /\ (c.pic = doc[u].pic \/ c.pic # "default")
      BY <2>5, <2>6, <2>10, <3>2, WrittenProfile
    <3> QED BY <2>8, <2>10, <3>3
  <2> QED BY <2>9, <2>10
<1>3. ASSUME NEW v \in Users, Befriend(v)
      PROVE  /\ doc[u].friends => doc'[u].friends
             /\ doc[u].pic # "default" => doc'[u].pic # "default"
  <2>1. doc[v] \in Profile /\ doc' = [doc EXCEPT ![v] = [doc[v] EXCEPT !.friends = TRUE]]
    BY <1>0, <1>3, BefriendType
  <2>2. PICK c : c = [doc[v] EXCEPT !.friends = TRUE]
    OBVIOUS
  <2>3. c.friends = TRUE /\ c.pic = doc[v].pic
    BY <2>1, <2>2 DEF Profile
  <2>4. doc'[u] = IF u = v THEN c ELSE doc[u]
    BY <1>0, <1>1, <2>1, <2>2 DEF AccountType
  <2> QED BY <2>3, <2>4
<1>4. CASE doc' = doc
  BY <1>4
<1>5. (\E d \in Devices : Applies(d)) \/ (\E v \in Users : Befriend(v)) \/ doc' = doc
  BY <1>0, DocSteps
<1> QED BY <1>2, <1>3, <1>4, <1>5

(***************************************************************************)
(* Once the first write of a user has been answered nothing resets the     *)
(* profile: the set of settingNewProfile is not queued or sent again.      *)
(***************************************************************************)
THEOREM ProfileKeptCorrect == Spec => ProfileKept
<1>1. Registered /\ [Next]_vars =>
        [\A u \in welcomed :
           /\ doc[u].friends => doc'[u].friends
           /\ doc[u].pic # "default" => doc'[u].pic # "default"]_vars
  BY ProfileStays
<1> QED BY <1>1, AlwaysRegistered, PTL DEF Spec, ProfileKept

-----------------------------------------------------------------------------
(***************************************************************************)
(* What a read returns                                                     *)
(***************************************************************************)
\* Induction over the natural numbers, for a set of them.
LEMMA SetInduction ==
  ASSUME NEW T \in SUBSET Nat, 0 \in T, \A n \in T : n + 1 \in T
  PROVE  T = Nat
<1> SUFFICES ASSUME T # Nat PROVE FALSE
  OBVIOUS
<1>1. PICK N : N = Nat \ T
  OBVIOUS
<1>2. \E m \in N : \A n \in N : ~(<<n, m>> \in OpToRel(<, Nat))
  <2>1. N \subseteq Nat /\ N # {}
    BY <1>1
  <2> QED BY <2>1, NatLessThanWellFounded, WFMin, Zenon
<1>3. PICK m \in N : \A n \in N : ~(<<n, m>> \in OpToRel(<, Nat))
  BY <1>2
<1>4. m \in Nat /\ m # 0 /\ m - 1 \in Nat /\ m - 1 < m
  BY <1>1
<1>5. m - 1 \notin N
  BY <1>3, <1>4 DEF OpToRel
<1>6. (m - 1) + 1 \in T
  BY <1>1, <1>4, <1>5
<1> QED BY <1>1, <1>4, <1>6

\* What a read returns is the last value of a function that follows the queue.
LEMMA ViewUnfolds ==
  ASSUME NEW d, NEW u, NEW content, Len(Mine(d)) \in Nat
  PROVE  \E f : /\ f = [n \in 0..Len(Mine(d)) |-> IF n = 0 THEN content
                                ELSE IF Mine(d)[n].doc = u THEN Written(Mine(d)[n], f[n - 1])
                                ELSE f[n - 1]]
                /\ View(d, u, content) = f[Len(Mine(d))]
<1> PICK q : q = Mine(d)
  OBVIOUS
<1> PICK L \in Nat : L = Len(q)
  OBVIOUS
<1> DEFINE Step(n, x) == IF q[n].doc = u THEN Written(q[n], x) ELSE x
<1> DEFINE Is(m, f) == f = [n \in 0..m |-> IF n = 0 THEN content ELSE Step(n, f[n - 1])]
<1> DEFINE T == {m \in Nat : \E f : Is(m, f)}
<1> HIDE DEF Step
<1>1. 0 \in T
  <2>1. Is(0, [n \in 0..0 |-> content])
    OBVIOUS
  <2> QED BY <2>1
<1>2. ASSUME NEW m \in T PROVE m + 1 \in T
  <2>1. m \in Nat /\ \E g : Is(m, g)
    OBVIOUS
  <2>2. PICK g : Is(m, g)
    BY <2>1
  <2>3. PICK f : f = [n \in 0..(m + 1) |-> IF n = m + 1 THEN Step(m + 1, g[m]) ELSE g[n]]
    OBVIOUS
  <2>4. \A n \in 0..m : f[n] = g[n]
    BY <2>1, <2>3
  <2>5. f[m + 1] = Step(m + 1, f[m])
    BY <2>1, <2>3, <2>4
  <2>6. \A n \in 0..(m + 1) : f[n] = IF n = 0 THEN content ELSE Step(n, f[n - 1])
    <3> TAKE n \in 0..(m + 1)
    <3>1. CASE n = m + 1
      <4>1. n # 0 /\ n - 1 = m
        BY <2>1, <3>1
      <4> QED BY <4>1, <3>1, <2>5
    <3>2. CASE n # m + 1
      <4>1. n \in 0..m /\ (n # 0 => n - 1 \in 0..m)
        BY <2>1, <3>2
      <4>2. g[n] = IF n = 0 THEN content ELSE Step(n, g[n - 1])
        BY <2>2, <4>1
      <4> QED BY <4>1, <4>2, <2>4
    <3> QED BY <3>1, <3>2
  <2>7. Is(m + 1, f)
    BY <2>3, <2>6
  <2>8. m + 1 \in Nat
    BY <2>1
  <2> QED BY <2>7, <2>8
<1>3. \E f : Is(L, f)
  <2>1. T = Nat
    <3> HIDE DEF T
    <3>1. T \in SUBSET Nat
      BY DEF T
    <3> QED BY <1>1, <1>2, <3>1, SetInduction
  <2> QED BY <2>1
<1>4. PICK f : f = CHOOSE g : Is(L, g)
  OBVIOUS
<1>5. Is(L, f)
  BY <1>3, <1>4
<1>6. View(d, u, content) = f[L]
  BY <1>4 DEF View, Step
<1> QED BY <1>5, <1>6 DEF Step

\* y is what the n-th write of q makes of x, a content of u's document; what
\* there is after n writes has a name that u's document has had or gets.
Follows(q, n, u, x, y) == y = IF q[n].doc = u THEN Written(q[n], x) ELSE x
Named(q, n, u, x) ==
  x # None => /\ "name" \in DOMAIN x /\ x.name \in named[u] \cup NamesBefore(q, n + 1, u)
              /\ doc[u] # None \/ \E h \in 1..n : q[h].op = "set" /\ q[h].doc = u

\* One write more.
LEMMA ViewStep ==
  ASSUME NEW q \in Seq(Queued), NEW n \in Nat, n + 1 \in DOMAIN q, NEW u, NEW x, NEW y,
         Named(q, n, u, x), Follows(q, n + 1, u, x, y)
  PROVE  Named(q, n + 1, u, y)
<1> SUFFICES ASSUME y # None
             PROVE  /\ "name" \in DOMAIN y /\ y.name \in named[u] \cup NamesBefore(q, n + 2, u)
                    /\ doc[u] # None \/ \E h \in 1..(n + 1) : q[h].op = "set" /\ q[h].doc = u
  <2>1. (n + 1) + 1 = n + 2
    OBVIOUS
  <2> QED BY <2>1 DEF Named
<1>0. /\ x # None => /\ "name" \in DOMAIN x /\ x.name \in named[u] \cup NamesBefore(q, n + 1, u)
                     /\ doc[u] # None \/ \E h \in 1..n : q[h].op = "set" /\ q[h].doc = u
      /\ y = IF q[n + 1].doc = u THEN Written(q[n + 1], x) ELSE x
  BY DEF Named, Follows
<1>1. /\ 1..n \subseteq 1..(n + 1) /\ n + 1 \in 1..(n + 1)
      /\ (n + 1) - 1 = n /\ (n + 2) - 1 = n + 1
  OBVIOUS
<1>2. PICK w \in Queued : w = q[n + 1]
  OBVIOUS
<1>3. /\ NamesBefore(q, n + 1, u) = {q[j].patch.name : j \in {h \in 1..n : NamesIt(q, h, u)}}
      /\ NamesBefore(q, n + 2, u) = {q[j].patch.name : j \in {h \in 1..(n + 1) : NamesIt(q, h, u)}}
  BY <1>1 DEF NamesBefore
<1>4. NamesBefore(q, n + 1, u) \subseteq NamesBefore(q, n + 2, u)
  BY <1>1, <1>3
<1>5. NamesIt(q, n + 1, u) => w.patch.name \in NamesBefore(q, n + 2, u)
  BY <1>1, <1>2, <1>3
<1>6. CASE w.doc # u
  <2>1. y = x
    BY <1>0, <1>2, <1>6
  <2> QED BY <1>0, <1>1, <1>4, <2>1
<1>7. CASE w.doc = u
  <2>1. y = Written(w, x)
    BY <1>0, <1>2, <1>7
  <2>2. /\ ~Missing(w, x) /\ "name" \in DOMAIN y
        /\ y.name = IF "name" \in DOMAIN w.patch THEN w.patch.name ELSE x.name
    <3>1. x # None => "name" \in DOMAIN x
      BY <1>0
    <3> QED BY <2>1, <3>1, WrittenName
  <2>3. w.op = "set" \/ x # None
    BY <2>2, WriteFacts DEF Missing
  <2>4. doc[u] # None \/ \E h \in 1..(n + 1) : q[h].op = "set" /\ q[h].doc = u
    BY <1>0, <1>1, <1>2, <1>7, <2>3
  <2>5. CASE "name" \in DOMAIN w.patch
    <3>1. NamesIt(q, n + 1, u)
      BY <1>2, <1>7, <2>4, <2>5 DEF NamesIt
    <3> QED BY <1>5, <2>2, <2>4, <2>5, <3>1
  <2>6. CASE "name" \notin DOMAIN w.patch
    <3>1. w.op # "set"
      BY <2>6, WriteFacts, NewProfileFacts
    <3> QED BY <1>0, <1>4, <2>2, <2>3, <2>4, <2>6, <3>1
  <2> QED BY <2>5, <2>6
<1> QED BY <1>6, <1>7

\* The name of what a read returns is one the document has had, or gets from
\* the queue.
LEMMA ViewNamed ==
  ASSUME AccountType, NEW d \in Devices, NEW u \in Users, NEW c,
         c # None => "name" \in DOMAIN c /\ c.name \in named[u] /\ doc[u] # None,
         NEW q \in Seq(Queued), q = Mine(d), NEW m \in Nat, m = Len(q),
         View(d, u, c) # None
  PROVE  View(d, u, c).name \in named[u] \cup NamesBefore(q, m + 1, u)
<1>1. PICK f : /\ f = [n \in 0..m |-> IF n = 0 THEN c
                                  ELSE IF q[n].doc = u THEN Written(q[n], f[n - 1]) ELSE f[n - 1]]
               /\ View(d, u, c) = f[m]
  BY ViewUnfolds
<1> DEFINE P(n) == Named(q, n, u, f[n])
<1> DEFINE T == {n \in Nat : n <= m => P(n)}
<1>2. 0 \in T
  <2>1. f[0] = c
    BY <1>1
  <2> QED BY <2>1 DEF Named
<1>3. ASSUME NEW n \in T PROVE n + 1 \in T
  <2>1. n \in Nat /\ (n <= m => P(n))
    OBVIOUS
  <2>2. n + 1 \in Nat
    BY <2>1
  <2>3. SUFFICES ASSUME n + 1 <= m PROVE P(n + 1)
    BY <2>2
  <2>4. n <= m /\ n + 1 \in 0..m /\ n + 1 # 0 /\ (n + 1) - 1 = n /\ n + 1 \in 1..m
    BY <2>1, <2>3
  <2>5. P(n)
    BY <2>1, <2>4
  <2>6. Follows(q, n + 1, u, f[n], f[n + 1])
    BY <1>1, <2>4 DEF Follows
  <2>7. n + 1 \in DOMAIN q
    BY <2>4
  <2> QED BY <2>1, <2>5, <2>6, <2>7, ViewStep
<1>4. T = Nat
  <2> HIDE DEF T
  <2>1. T \in SUBSET Nat
    BY DEF T
  <2> QED BY <1>2, <1>3, <2>1, SetInduction
<1>5. P(m)
  <2>1. m \in T /\ m <= m
    BY <1>4
  <2> QED BY <2>1
<1> QED BY <1>1, <1>5 DEF Named

-----------------------------------------------------------------------------
(***************************************************************************)
(* The names a document has had                                            *)
(***************************************************************************)
EmptyBio(w) == w.op = "update" /\ "bio" \in DOMAIN w.patch /\ w.patch.bio = ""

\* The parts of NamesKept.
DocNamed    == \A u \in Users : doc[u] # None => doc[u].name \in named[u]
CacheNamed  == \A d \in Devices, u \in Users : cache[d][u] # None => doc[u] # None /\ cache[d][u].name \in named[u]
SentNamed(d, n) == \A i \in 1..n : "name" \in DOMAIN Mine(d)[i].patch => Mine(d)[i].patch.name \in named[Mine(d)[i].doc]
BiosNamed(q) == \A i \in DOMAIN q : EmptyBio(q[i]) => Emptied(q, i)
NamesParts ==
  /\ DocNamed /\ CacheNamed
  /\ \A d \in Devices : SentNamed(d, sent[d])
  /\ \A d \in Devices, o \in Owners : BiosNamed(queue[d][o])

\* They are its parts.
LEMMA NamesSplit == NamesKept <=> NamesParts
BY DEF NamesKept, NamesParts, DocNamed, CacheNamed, SentNamed, BiosNamed, EmptyBio, Owners

\* Documents and names become more.
Grows == \A u \in Users : (doc[u] # None => doc'[u] # None) /\ named[u] \subseteq named'[u]

\* The reason for an empty bio stays one.
LEMMA EmptiedKept ==
  ASSUME AccountType, JobsGo(jobs, jobs'), Grows, NEW q, NEW i, Emptied(q, i)
  PROVE  Emptied(q, i)'
<1>1. PICK k \in DOMAIN jobs : k = q[i].job
  BY DEF Emptied
<1>2. PICK j : j = jobs[k]
  OBVIOUS
<1>3. PICK h : h = jobs'[k]
  OBVIOUS
<1>4. PICK u \in Users : u = j.user
  BY <1>2, JobFacts DEF AccountType
<1>5. j.kind = "form" /\ j.stage # "get" /\ j.bio = "" /\ j.name \in {""} \cup named[u] \cup NamesBefore(q, i, u)
  BY <1>1, <1>2, <1>4 DEF Emptied
<1>6. k \in DOMAIN jobs' /\ h.kind = "form" /\ h.stage # "get" /\ h.bio = "" /\ h.name = j.name /\ h.user = u
  BY <1>2, <1>3, <1>4, <1>5 DEF JobsGo
<1>7. \A n : NamesIt(q, n, u) => NamesIt(q, n, u)'
  BY DEF Grows, NamesIt
<1>8. NamesBefore(q, i, u) \subseteq NamesBefore(q, i, u)'
  BY <1>7 DEF NamesBefore
<1>9. h.name \in {""} \cup named'[u] \cup NamesBefore(q, i, u)'
  BY <1>5, <1>6, <1>8 DEF Grows
<1> QED BY <1>1, <1>3, <1>6, <1>9 DEF Emptied

\* So the bios of a queue stay explained.
LEMMA BiosStay ==
  ASSUME AccountType, JobsGo(jobs, jobs'), Grows, NEW q, BiosNamed(q)
  PROVE  BiosNamed(q)'
BY EmptiedKept DEF BiosNamed, EmptyBio

\* A write behind it changes nothing.
LEMMA EmptiedAppended ==
  ASSUME NEW q \in Seq(Queued), NEW w \in Queued, NEW i \in DOMAIN q, Emptied(q, i), NEW r, r = Append(q, w)
  PROVE  Emptied(r, i)
<1>1. PICK m \in Nat : m = Len(q) /\ DOMAIN q = 1..m
  OBVIOUS
<1>2. \A h \in 1..m : r[h] = q[h]
  BY <1>1, Appended
<1>3. i \in 1..m /\ (\A n \in 1..(i - 1) : n \in 1..m /\ 1..n \subseteq 1..m)
  BY <1>1
<1>4. \A u, n : n \in 1..(i - 1) => (NamesIt(q, n, u) <=> NamesIt(r, n, u)) /\ r[n] = q[n]
  BY <1>2, <1>3 DEF NamesIt
<1>5. \A u : NamesBefore(q, i, u) \subseteq NamesBefore(r, i, u)
  <2> TAKE u
  <2>1. SUFFICES ASSUME NEW x \in NamesBefore(q, i, u) PROVE x \in NamesBefore(r, i, u)
    OBVIOUS
  <2>2. PICK n \in 1..(i - 1) : NamesIt(q, n, u) /\ x = q[n].patch.name
    BY DEF NamesBefore
  <2>3. NamesIt(r, n, u) /\ r[n] = q[n]
    BY <1>4, <2>2
  <2> QED BY <2>2, <2>3 DEF NamesBefore
<1>6. r[i] = q[i]
  BY <1>2, <1>3
<1> QED BY <1>5, <1>6 DEF Emptied

\* The first write of a queue goes: what it names has been named, and what it
\* has made is there.
LEMMA EmptiedShifted ==
  ASSUME NEW q \in Seq(Queued), q # <<>>, NEW i \in 1..(Len(q) - 1), Emptied(q, i + 1), NEW r, r = Tail(q),
         jobs \in Seq(Jobs),
         \A u \in Users : NamesIt(q, 1, u) => q[1].patch.name \in named[u],
         q[1].op = "set" => doc[q[1].doc] # None
  PROVE  Emptied(r, i)
<1>1. PICK m \in Nat : m = Len(q) /\ DOMAIN q = 1..m
  OBVIOUS
<1>2. \A h \in 1..(m - 1) : r[h] = q[h + 1]
  BY <1>1, Shifted
<1>3. i \in 1..(m - 1) /\ i \in Nat /\ (i + 1) - 1 = i
  BY <1>1
<1>4. ASSUME NEW u \in Users, NEW n \in 1..i, NamesIt(q, n, u), n # 1
      PROVE  NamesIt(r, n - 1, u) /\ r[n - 1] = q[n] /\ n - 1 \in 1..(i - 1)
  <2>1. PICK p \in 1..(i - 1) : n = p + 1 /\ p \in 1..(m - 1) /\ p = n - 1
    <3>1. n - 1 \in 1..(i - 1) /\ n = (n - 1) + 1 /\ n - 1 \in 1..(m - 1)
      BY <1>3, <1>4
    <3> QED BY <3>1
  <2>2. r[p] = q[n]
    BY <1>2, <2>1
  <2>3. doc[u] # None \/ \E h \in 1..p : r[h].op = "set" /\ r[h].doc = u
    <3>1. CASE doc[u] # None
      BY <3>1
    <3>2. CASE \E h \in 1..n : q[h].op = "set" /\ q[h].doc = u
      <4>1. PICK h \in 1..n : q[h].op = "set" /\ q[h].doc = u
        BY <3>2
      <4>2. CASE h = 1
        BY <4>1, <4>2
      <4>3. CASE h # 1
        <5>1. PICK g \in 1..p : h = g + 1 /\ g \in 1..(m - 1)
          <6>1. h - 1 \in 1..p /\ h = (h - 1) + 1 /\ h - 1 \in 1..(m - 1)
            BY <2>1, <4>3
          <6> QED BY <6>1
        <5>2. r[g] = q[h]
          BY <1>2, <5>1
        <5> QED BY <4>1, <5>2
      <4> QED BY <4>2, <4>3
    <3> QED BY <1>4, <3>1, <3>2 DEF NamesIt
  <2>4. NamesIt(r, p, u)
    BY <1>4, <2>2, <2>3 DEF NamesIt
  <2> QED BY <2>1, <2>2, <2>4
<1>5. ASSUME NEW u \in Users PROVE NamesBefore(q, i + 1, u) \subseteq named[u] \cup NamesBefore(r, i, u)
  <2>1. SUFFICES ASSUME NEW x \in NamesBefore(q, i + 1, u) PROVE x \in named[u] \cup NamesBefore(r, i, u)
    OBVIOUS
  <2>2. PICK n \in 1..i : NamesIt(q, n, u) /\ x = q[n].patch.name
    BY <1>3 DEF NamesBefore
  <2>3. CASE n = 1
    BY <2>2, <2>3
  <2>4. CASE n # 1
    <3>1. PICK p \in 1..(i - 1) : NamesIt(r, p, u) /\ r[p] = q[n]
      BY <1>4, <2>2, <2>4
    <3> QED BY <2>2, <3>1 DEF NamesBefore
  <2> QED BY <2>3, <2>4
<1>6. r[i] = q[i + 1]
  BY <1>2, <1>3
<1>7. PICK k \in DOMAIN jobs : k = q[i + 1].job /\ k = r[i].job
  BY <1>6 DEF Emptied
<1>8. PICK j : j = jobs[k]
  OBVIOUS
<1>9. PICK u \in Users : u = j.user
  BY <1>8, JobFacts
<1>10. j.kind = "form" /\ j.stage # "get" /\ j.bio = "" /\ j.name \in {""} \cup named[u] \cup NamesBefore(q, i + 1, u)
  BY <1>7, <1>8, <1>9 DEF Emptied
<1>11. j.name \in {""} \cup named[u] \cup NamesBefore(r, i, u)
  BY <1>5, <1>10
<1> QED BY <1>7, <1>8, <1>9, <1>10, <1>11 DEF Emptied

\* Nothing that is sent names nothing.
LEMMA NoneSentNamed ==
  ASSUME NEW d \in Devices, sent'[d] = 0
  PROVE  SentNamed(d, sent[d])'
<1>1. 1..0 = {}
  OBVIOUS
<1> QED BY <1>1 DEF SentNamed

\* The steps that leave the queues alone.
LEMMA QuietNames ==
  ASSUME AccountType, JobsGo(jobs, jobs'), NamesParts, QuietStep
  PROVE  NamesParts'
<1>1. UNCHANGED <<queue, doc, named, cache>> /\ Sends
  BY DEF QuietStep
<1>2. DocNamed' /\ CacheNamed'
  BY <1>1 DEF NamesParts, DocNamed, CacheNamed
<1>3. ASSUME NEW d \in Devices PROVE SentNamed(d, sent[d])'
  <2>1. CASE signed'[d] = signed[d] /\ sent'[d] = sent[d]
    <3>1. Mine(d)' = Mine(d)
      BY <1>1, <2>1 DEF Mine
    <3> QED BY <1>1, <2>1, <3>1 DEF NamesParts, SentNamed
  <2>2. CASE sent'[d] = 0
    BY <2>2, NoneSentNamed
  <2> QED BY <1>1, <2>1, <2>2 DEF Sends
<1>4. ASSUME NEW d \in Devices, NEW o \in Owners PROVE BiosNamed(queue[d][o])'
  <2>1. PICK q : q = queue[d][o]
    OBVIOUS
  <2>2. BiosNamed(q)
    BY <2>1 DEF NamesParts
  <2>3. Grows
    BY <1>1 DEF Grows
  <2>4. BiosNamed(q)'
    BY <2>2, <2>3, BiosStay
  <2>5. queue'[d][o] = q
    BY <1>1, <2>1
  <2> QED BY <2>4, <2>5 DEF BiosNamed
<1> QED BY <1>2, <1>3, <1>4 DEF NamesParts

\* A write is queued; if it empties a bio there is a reason.
LEMMA QueuedNames ==
  ASSUME AccountType, WritesKept, JobsGo(jobs, jobs'), NamesParts, CacheNamed',
         NEW d \in Devices, NEW o \in Owners, NEW w \in Queued, QueueStep(d, o, w),
         NEW m \in Nat, m = Len(queue[d][o]), NEW r, r = queue'[d][o],
         EmptyBio(w) => Emptied(r, m + 1)'
  PROVE  NamesParts'
<1>1. UNCHANGED <<doc, named>> /\ Sends /\ Replaced(d, o, Append(queue[d][o], w))
  BY DEF QueueStep
<1>2. DocNamed'
  BY <1>1 DEF NamesParts, DocNamed
<1>3. ASSUME NEW e \in Devices PROVE SentNamed(e, sent[e])'
  <2>1. CASE sent'[e] = 0
    BY <2>1, NoneSentNamed
  <2>2. CASE signed'[e] = signed[e] /\ sent'[e] = sent[e]
    <3>1. PICK q \in Seq(Queued) : q = Mine(e)
      BY MineFacts
    <3>2. PICK s : s = Mine(e)'
      OBVIOUS
    <3>3. s = q \/ s = Append(q, w)
      BY <1>1, <2>2, <3>1, <3>2, MineFacts DEF Mine, Replaced
    <3>4. PICK l \in Nat : l = Len(q)
      BY <3>1
    <3>5. PICK n \in Nat : n = sent[e]
      BY DEF AccountType
    <3>6. n <= l
      BY <3>1, <3>4, <3>5, WritesSplit DEF SentExists
    <3>7. 1..n \subseteq 1..l /\ \A i \in 1..l : s[i] = q[i]
      <4>1. 1..n \subseteq 1..l
        BY <3>6
      <4>2. \A i \in 1..l : s[i] = q[i]
        BY <3>3, <3>4, Appended
      <4> QED BY <4>1, <4>2
    <3>8. \A i \in 1..n : "name" \in DOMAIN q[i].patch => q[i].patch.name \in named[q[i].doc]
      BY <3>1, <3>5 DEF NamesParts, SentNamed
    <3>9. \A i \in 1..n : "name" \in DOMAIN s[i].patch => s[i].patch.name \in named[s[i].doc]
      BY <3>7, <3>8
    <3> QED BY <1>1, <2>2, <3>2, <3>5, <3>9 DEF SentNamed
  <2> QED BY <1>1, <2>1, <2>2 DEF Sends
<1>4. ASSUME NEW e \in Devices, NEW p \in Owners PROVE BiosNamed(queue[e][p])'
  <2>1. PICK q \in Seq(Queued) : q = queue[e][p]
    BY QueueFacts
  <2>2. Grows
    BY <1>1 DEF Grows
  <2>3. BiosNamed(q)
    BY <2>1 DEF NamesParts
  <2>4. CASE e # d \/ p # o
    <3>1. queue'[e][p] = q
      BY <1>1, <2>1, <2>4 DEF Replaced
    <3>2. BiosNamed(q)'
      BY <2>2, <2>3, BiosStay
    <3> QED BY <3>1, <3>2 DEF BiosNamed
  <2>5. CASE e = d /\ p = o
    <3>1. r = Append(q, w) /\ m = Len(q) /\ queue'[e][p] = r
      BY <1>1, <2>1, <2>5 DEF Replaced
    <3>2. DOMAIN q = 1..m /\ DOMAIN r = 1..(m + 1) /\ r[m + 1] = w /\ \A i \in 1..m : r[i] = q[i]
      BY <3>1, Appended
    <3>3. \A i \in 1..(m + 1) : i \in 1..m \/ i = m + 1
      OBVIOUS
    <3>4. ASSUME NEW i \in DOMAIN r, EmptyBio(r[i]) PROVE Emptied(r, i)'
      <4>1. CASE i \in 1..m
        <5>1. Emptied(q, i)
          BY <2>3, <3>2, <3>4, <4>1 DEF BiosNamed
        <5>2. Emptied(r, i)
          BY <3>1, <3>2, <4>1, <5>1, EmptiedAppended
        <5> QED BY <2>2, <5>2, EmptiedKept
      <4>2. CASE i = m + 1
        BY <3>2, <3>4, <4>2
      <4> QED BY <3>2, <3>3, <4>1, <4>2
    <3>5. BiosNamed(r)'
      BY <3>4 DEF BiosNamed, EmptyBio
    <3> QED BY <3>1, <3>5 DEF BiosNamed
  <2> QED BY <2>4, <2>5
<1> QED BY <1>2, <1>3, <1>4 DEF NamesParts

\* createUser is answered, or the URL of a picture there: no bio is written.
LEMMA NoBioNames ==
  ASSUME AccountType, HandlersKept, WritesKept, JobsGo(jobs, jobs'), NamesParts,
         \/ \E d \in Devices : SignedUp(d)
         \/ \E k \in DOMAIN jobs : \E url \in Pictures : GotURL(k, url)
  PROVE  NamesParts'
<1>1. ASSUME NEW d \in Devices, NEW o \in Owners, NEW w \in Queued, QueueStep(d, o, w), ~EmptyBio(w), cache' = cache
      PROVE  NamesParts'
  <2>1. CacheNamed'
    BY <1>1 DEF NamesParts, CacheNamed, QueueStep
  <2>2. PICK m \in Nat : m = Len(queue[d][o])
    BY QueueFacts
  <2>3. PICK r : r = queue'[d][o]
    OBVIOUS
  <2> QED BY <1>1, <2>1, <2>2, <2>3, QueuedNames
<1>2. ASSUME NEW d \in Devices, SignedUp(d) PROVE NamesParts'
  <2>1. PICK u \in account, w \in Queued : u \in Users /\ w.op = "set" /\ cache' = cache /\ QueueStep(d, u, w)
    BY <1>2, SignedUpQueues
  <2> QED BY <1>1, <2>1 DEF Owners, EmptyBio
<1>3. ASSUME NEW k \in DOMAIN jobs, NEW url \in Pictures, GotURL(k, url) PROVE NamesParts'
  <2>1. PICK d \in Devices, u \in account : jobs[k].dev = d /\ jobs[k].user = u
    BY <1>3, GotURLType
  <2>2. /\ UNCHANGED <<account, signed, sent, doc, welcomed, named, cache>>
        /\ \E w \in Queued :
             /\ w = Write("update", u, [pic |-> url], 0)
             /\ \A e \in Devices, p \in Owners :
                  queue'[e][p] = IF e = d /\ p = signed[e] THEN Append(queue[e][p], w) ELSE queue[e][p]
    BY <1>3, <2>1, GotURLType
  <2>3. PICK w \in Queued :
             /\ w = Write("update", u, [pic |-> url], 0)
             /\ \A e \in Devices, p \in Owners :
                  queue'[e][p] = IF e = d /\ p = signed[e] THEN Append(queue[e][p], w) ELSE queue[e][p]
    BY <2>2
  <2>4. w.doc = u /\ w.job = 0 /\ w.patch = [pic |-> url]
    BY <2>3 DEF Write
  <2>5. w.job \in 0..Len(jobs)
    BY <2>4, JobFacts DEF AccountType
  <2>6. Sends
    BY <2>2 DEF Sends
  <2>7. PICK o \in Owners : o = signed[d]
    BY MineFacts
  <2>8. Replaced(d, o, Append(queue[d][o], w))
    BY <2>3, <2>7 DEF Replaced
  <2>9. QueueStep(d, o, w)
    BY <2>2, <2>4, <2>5, <2>6, <2>8 DEF QueueStep
  <2>10. ~EmptyBio(w)
    BY <2>4 DEF EmptyBio
  <2> QED BY <1>1, <2>2, <2>9, <2>10
<1> QED BY <1>2, <1>3

\* What the form writes empties a bio only if its own is empty, and its name
\* is empty or the one it has read.
LEMMA PatchEmpties ==
  ASSUME NEW j, NEW old, "bio" \in DOMAIN Patch(j, old), Patch(j, old).bio = ""
  PROVE  j.bio = "" /\ j.name \in {old.name, ""}
BY DEF Patch

\* The form has read a name that the document has had, or gets from the queue.
LEMMA FormReadNames ==
  ASSUME AccountType, HandlersKept, WritesKept, JobsGo(jobs, jobs'), NamesParts,
         NEW k \in DOMAIN jobs, NEW online \in BOOLEAN, FormRead(k, online)
  PROVE  NamesParts'
<1>0. jobs \in Seq(Jobs) /\ DOMAIN jobs = 1..Len(jobs) /\ Len(jobs) \in Nat
  BY JobFacts DEF AccountType
<1>1. PICK j \in Jobs, d \in Devices, u \in Users : jobs[k] = j /\ j.dev = d /\ j.user = u
  <2>1. jobs[k] \in Jobs /\ jobs[k].dev \in Devices /\ jobs[k].user \in Users
    BY <1>0, JobFacts
  <2> QED BY <2>1
<1>2. /\ j.kind = "form" /\ jobs'[k].stage = "update" /\ jobs'[k].name = j.name /\ jobs'[k].bio = j.bio
      /\ signed[d] \in account
      /\ UNCHANGED <<account, signed, sent, doc, welcomed, named>>
  BY <1>1, FormReadType
<1>3. PICK c \in {doc[u], cache[d][u]}, w \in Queued :
        /\ View(d, u, c) # None
        /\ w = Write("update", signed[d], Patch(j, View(d, u, c)), k)
        /\ cache' = [cache EXCEPT ![d][u] = Known(c)]
        /\ \A e \in Devices, p \in Owners :
             queue'[e][p] = IF e = d /\ p = signed[e] THEN Append(queue[e][p], w) ELSE queue[e][p]
  <2>1. FormQueues(j, d, u, k)
    BY <1>1, FormReadType
  <2> QED BY <2>1, Zenon DEF FormQueues
<1>4. PICK old : old = View(d, u, c)
  OBVIOUS
<1>5. w.doc = signed[d] /\ w.job = k /\ w.patch = Patch(j, old)
  BY <1>3, <1>4 DEF Write
<1>6. w.job \in 0..Len(jobs) /\ w.job \in DOMAIN jobs
  BY <1>0, <1>5
<1>7. Sends
  BY <1>2 DEF Sends
<1>8. PICK o \in Owners : o = signed[d]
  BY MineFacts
<1>9. Replaced(d, o, Append(queue[d][o], w))
  BY <1>3, <1>8 DEF Replaced
<1>10. QueueStep(d, o, w)
  BY <1>2, <1>5, <1>6, <1>7, <1>9 DEF QueueStep
<1>11. c # None => "name" \in DOMAIN c /\ c.name \in named[u] /\ doc[u] # None
  <2>1. /\ doc[u] # None => doc[u].name \in named[u]
        /\ cache[d][u] # None => doc[u] # None /\ cache[d][u].name \in named[u]
    BY DEF NamesParts, DocNamed, CacheNamed
  <2>2. doc[u] \in Profile \cup {None} /\ cache[d][u] \in [name : Names, bio : Bios] \cup {None}
    BY DEF AccountType
  <2>3. doc[u] # None => "name" \in DOMAIN doc[u]
    BY <2>2 DEF Profile
  <2>4. cache[d][u] # None => "name" \in DOMAIN cache[d][u]
    BY <2>2
  <2> QED BY <2>1, <2>3, <2>4
<1>12. CacheNamed'
  <2>1. PICK x : x = Known(c)
    OBVIOUS
  <2>2. x # None => doc[u] # None /\ x.name \in named[u]
    BY <1>11, <2>1 DEF Known
  <2>3. cache' = [cache EXCEPT ![d][u] = x]
    BY <1>3, <2>1
  <2>4. \A e \in Devices, v \in Users : cache'[e][v] = IF e = d /\ v = u THEN x ELSE cache[e][v]
    BY <2>3 DEF AccountType
  <2> QED BY <1>2, <2>2, <2>4 DEF NamesParts, CacheNamed
<1>13. PICK q \in Seq(Queued) : q = queue[d][o] /\ q = Mine(d)
  BY <1>8, MineFacts
<1>14. PICK m \in Nat : m = Len(q)
  BY <1>13
<1>15. PICK r : r = queue'[d][o]
  OBVIOUS
<1>16. r = Append(q, w) /\ r[m + 1] = w /\ \A i \in 1..m : r[i] = q[i]
  <2>1. r = Append(q, w)
    BY <1>9, <1>13, <1>15 DEF Replaced
  <2> QED BY <1>14, <2>1, Appended
<1>17. ASSUME EmptyBio(w) PROVE Emptied(r, m + 1)'
  <2>1. j.bio = "" /\ j.name \in {old.name, ""}
    BY <1>5, <1>17, PatchEmpties DEF EmptyBio
  <2>2. old.name \in named[u] \cup NamesBefore(q, m + 1, u)
    BY <1>3, <1>4, <1>11, <1>13, <1>14, ViewNamed
  <2>3. (m + 1) - 1 = m /\ \A n \in 1..m : 1..n \subseteq 1..m
    OBVIOUS
  <2>4. \A n \in 1..m : NamesIt(q, n, u) => NamesIt(r, n, u)'
    <3>1. \A n \in 1..m : NamesIt(q, n, u) => NamesIt(r, n, u)
      BY <1>16, <2>3 DEF NamesIt
    <3>2. \A n \in 1..m : NamesIt(r, n, u) => NamesIt(r, n, u)'
      BY <1>2 DEF NamesIt
    <3> QED BY <3>1, <3>2
  <2>5. NamesBefore(q, m + 1, u) \subseteq NamesBefore(r, m + 1, u)'
    <3>1. SUFFICES ASSUME NEW x \in NamesBefore(q, m + 1, u) PROVE x \in NamesBefore(r, m + 1, u)'
      OBVIOUS
    <3>2. PICK n \in 1..m : NamesIt(q, n, u) /\ x = q[n].patch.name
      BY <2>3 DEF NamesBefore
    <3>3. NamesIt(r, n, u)' /\ x = r[n].patch.name
      BY <1>16, <2>4, <3>2
    <3> QED BY <2>3, <3>3 DEF NamesBefore
  <2>6. PICK h : h = jobs'[k]
    OBVIOUS
  <2>7. k \in DOMAIN jobs' /\ h.kind = "form" /\ h.stage = "update" /\ h.bio = "" /\ h.name = j.name /\ h.user = u
    BY <1>1, <1>2, <2>1, <2>6 DEF JobsGo
  <2>8. h.name \in {""} \cup named'[u] \cup NamesBefore(r, m + 1, u)'
    BY <1>2, <2>1, <2>2, <2>5, <2>7
  <2> QED BY <1>5, <1>16, <2>6, <2>7, <2>8 DEF Emptied
<1> QED BY <1>10, <1>12, <1>13, <1>14, <1>15, <1>17, QueuedNames

\* The first write is answered or refused.
LEMMA DequeuedNames ==
  ASSUME AccountType, HandlersKept, WritesKept, JobsGo(jobs, jobs'), NamesParts, NEW d \in Devices, Answer(d) \/ Refuse(d)
  PROVE  NamesParts'
<1>1. /\ UNCHANGED <<account, doc, named, signed>>
      /\ Mine(d) # <<>> /\ Replaced(d, signed[d], Tail(Mine(d)))
      /\ \A e \in Devices \ {d} : sent'[e] = sent[e]
  BY DequeueSteps DEF DequeueStep
<1>2. PICK q \in Seq(Queued) : q = Mine(d) /\ q # <<>> /\ q = queue[d][signed[d]] /\ signed[d] \in Owners
  BY <1>1, MineFacts
<1>3. PICK w \in Queued : w = Head(q) /\ w = q[1] /\ w.doc \in Users /\ 1 \in DOMAIN q
  <2>1. Head(q) = q[1] /\ Head(q) \in Queued /\ 1 \in DOMAIN q
    BY <1>2, Shifted
  <2> QED BY <2>1, WriteFacts
<1>4. PICK r : r = Tail(q)
  OBVIOUS
<1>5. PICK m \in Nat : m = Len(q) /\ DOMAIN q = 1..m
  BY <1>2
<1>6. DOMAIN r = 1..(m - 1) /\ \A i \in 1..(m - 1) : r[i] = q[i + 1] /\ i + 1 \in 1..m
  <2>1. DOMAIN r = 1..(m - 1) /\ \A i \in 1..(m - 1) : r[i] = q[i + 1]
    BY <1>2, <1>4, <1>5, Shifted
  <2>2. \A i \in 1..(m - 1) : i + 1 \in 1..m
    OBVIOUS
  <2> QED BY <2>1, <2>2
<1>7. PICK n \in Nat : n = sent[d] /\ n <= m
  <2>1. sent[d] \in Nat /\ sent[d] <= Len(Mine(d))
    BY WritesSplit DEF AccountType, SentExists
  <2> QED BY <1>2, <1>5, <2>1
<1>8. \A i \in 1..n : "name" \in DOMAIN q[i].patch => q[i].patch.name \in named[q[i].doc]
  BY <1>2, <1>7 DEF NamesParts, SentNamed
<1>9. Answer(d) => 1 \in 1..n /\ doc[w.doc] # None
  <2>1. Answer(d) => n > 0
    BY <1>7 DEF Answer
  <2>2. Answer(d) => 1 \in 1..n
    BY <2>1
  <2> QED BY <1>2, <1>3, <1>7, <2>2, WritesSplit DEF SentExists
<1>10. Refuse(d) => w.op = "update" /\ doc[w.doc] = None
  BY <1>2, <1>3 DEF Refuse, Missing
<1>11. DocNamed'
  BY <1>1 DEF NamesParts, DocNamed
<1>12. CacheNamed'
  <2>1. CASE Refuse(d)
    <3>1. cache' = cache
      BY <2>1, Zenon DEF Refuse
    <3> QED BY <1>1, <3>1 DEF NamesParts, CacheNamed
  <2>2. CASE Answer(d)
    <3>1. PICK v \in Users : v = w.doc
      BY <1>3
    <3>2. PICK c \in [name : Names, bio : Bios] \cup {None} : c = cache[d][v]
      BY DEF AccountType
    <3>3. PICK x : x = Known(Written(w, c))
      OBVIOUS
    <3>4. cache' = [cache EXCEPT ![d][v] = x]
      <4>1. LET y == Head(Mine(d)) IN cache' = [cache EXCEPT ![d][y.doc] = Known(Written(y, @))]
        BY <2>2, Zenon DEF Answer
      <4>2. cache' = [cache EXCEPT ![d][v] = Known(Written(w, @))]
        BY <1>2, <1>3, <3>1, <4>1
      <4> QED BY <3>2, <3>3, <4>2
    <3>5. \A e \in Devices, u \in Users : cache'[e][u] = IF e = d /\ u = v THEN x ELSE cache[e][u]
      BY <3>4 DEF AccountType
    <3>6. x # None => x.name \in named[v]
      <4>1. SUFFICES ASSUME x # None PROVE x.name \in named[v]
        OBVIOUS
      <4>2. ~Missing(w, c) /\ x.name = IF "name" \in DOMAIN w.patch THEN w.patch.name ELSE c.name
        BY <3>3, <4>1, WrittenKnown
      <4>3. CASE "name" \in DOMAIN w.patch
        BY <1>3, <1>8, <1>9, <2>2, <3>1, <4>2, <4>3
      <4>4. CASE "name" \notin DOMAIN w.patch
        <5>1. w.op = "update"
          BY <4>4, WriteFacts, NewProfileFacts
        <5>2. c # None
          BY <4>2, <5>1 DEF Missing
        <5> QED BY <3>2, <4>2, <4>4, <5>2 DEF NamesParts, CacheNamed
      <4> QED BY <4>3, <4>4
    <3>7. doc[v] # None
      BY <1>9, <2>2, <3>1
    <3> QED BY <1>1, <3>5, <3>6, <3>7 DEF NamesParts, CacheNamed
  <2> QED BY <2>1, <2>2
<1>13. ASSUME NEW e \in Devices PROVE SentNamed(e, sent[e])'
  <2>1. CASE e # d
    <3>1. Mine(e)' = Mine(e) /\ sent'[e] = sent[e]
      BY <1>1, <2>1, MineFacts DEF Mine, Replaced
    <3> QED BY <1>1, <3>1 DEF NamesParts, SentNamed
  <2>2. CASE e = d /\ sent'[d] = 0
    BY <2>2, NoneSentNamed
  <2>3. CASE e = d /\ sent'[d] = sent[d] - 1 /\ sent[d] > 0
    <3>1. Mine(e)' = r
      BY <1>1, <1>2, <1>4, <2>3 DEF Mine, Replaced
    <3>2. PICK l \in Nat : l = sent'[e] /\ n = l + 1
      <4>1. n - 1 \in Nat /\ n = (n - 1) + 1 /\ sent'[e] = n - 1
        BY <1>7, <2>3
      <4> QED BY <4>1
    <3>3. ASSUME NEW i \in 1..l, "name" \in DOMAIN r[i].patch PROVE r[i].patch.name \in named[r[i].doc]
      <4>1. i \in 1..(m - 1) /\ i + 1 \in 1..n
        BY <1>7, <3>2
      <4>2. PICK h \in 1..n : h = i + 1 /\ r[i] = q[h]
        BY <1>6, <4>1
      <4> QED BY <1>8, <3>3, <4>2
    <3> QED BY <1>1, <3>1, <3>2, <3>3 DEF SentNamed
  <2>4. sent'[d] = 0 \/ (sent'[d] = sent[d] - 1 /\ sent[d] > 0)
    BY DequeueSteps
  <2> QED BY <2>1, <2>2, <2>3, <2>4
<1>14. /\ \A u \in Users : NamesIt(q, 1, u) => q[1].patch.name \in named[u]
       /\ q[1].op = "set" => doc[q[1].doc] # None
  <2>1. CASE Answer(d)
    BY <1>3, <1>8, <1>9, <2>1 DEF NamesIt
  <2>2. CASE Refuse(d)
    <3>1. \A h \in 1..1 : h = 1
      OBVIOUS
    <3> QED BY <1>3, <1>10, <2>2, <3>1 DEF NamesIt
  <2> QED BY <2>1, <2>2
<1>15. ASSUME NEW e \in Devices, NEW p \in Owners PROVE BiosNamed(queue[e][p])'
  <2>1. Grows
    BY <1>1 DEF Grows
  <2>2. CASE e # d \/ p # signed[d]
    <3>1. PICK s : s = queue[e][p]
      OBVIOUS
    <3>2. queue'[e][p] = s
      BY <1>1, <2>2, <3>1 DEF Replaced
    <3>3. BiosNamed(s)'
      BY <2>1, <3>1, BiosStay DEF NamesParts
    <3> QED BY <3>2, <3>3 DEF BiosNamed
  <2>3. CASE e = d /\ p = signed[d]
    <3>1. queue'[e][p] = r
      BY <1>1, <1>2, <1>4, <2>3 DEF Replaced
    <3>2. BiosNamed(q)
      BY <1>2 DEF NamesParts
    <3>3. ASSUME NEW i \in DOMAIN r, EmptyBio(r[i]) PROVE Emptied(r, i)'
      <4>1. i \in 1..(m - 1) /\ r[i] = q[i + 1] /\ i + 1 \in DOMAIN q
        BY <1>5, <1>6
      <4>2. Emptied(q, i + 1)
        BY <3>2, <3>3, <4>1 DEF BiosNamed
      <4>3. jobs \in Seq(Jobs)
        BY DEF AccountType
      <4>4. Emptied(r, i)
        BY <1>2, <1>4, <1>5, <1>14, <4>1, <4>2, <4>3, EmptiedShifted
      <4> QED BY <2>1, <4>4, EmptiedKept
    <3>4. BiosNamed(r)'
      BY <3>3 DEF BiosNamed, EmptyBio
    <3> QED BY <3>1, <3>4 DEF BiosNamed
  <2> QED BY <2>2, <2>3
<1> QED BY <1>11, <1>12, <1>13, <1>15 DEF NamesParts

\* A document changes: the names of it grow with it.
LEMMA ChangedNames ==
  ASSUME AccountType, JobsGo(jobs, jobs'), NamesParts, UNCHANGED <<queue, signed, cache>>, Grows, DocNamed',
         \A d \in Devices : SentNamed(d, sent[d])'
  PROVE  NamesParts'
<1>1. CacheNamed'
  BY DEF NamesParts, CacheNamed, Grows
<1>2. ASSUME NEW d \in Devices, NEW o \in Owners PROVE BiosNamed(queue[d][o])'
  <2>1. PICK q : q = queue[d][o]
    OBVIOUS
  <2>2. BiosNamed(q)'
    BY <2>1, BiosStay DEF NamesParts
  <2>3. queue'[d][o] = q
    BY <2>1
  <2> QED BY <2>2, <2>3 DEF BiosNamed
<1> QED BY <1>1, <1>2 DEF NamesParts

\* A list of a document changes.
LEMMA BefriendNames ==
  ASSUME AccountType, AccountType', WritesKept, JobsGo(jobs, jobs'), NamesParts, NEW u \in Users, Befriend(u)
  PROVE  NamesParts'
<1>1. doc[u] \in Profile /\ doc' = [doc EXCEPT ![u] = [doc[u] EXCEPT !.friends = TRUE]]
  BY BefriendType
<1>2. PICK c : c = [doc[u] EXCEPT !.friends = TRUE]
  OBVIOUS
<1>3. c.name = doc[u].name
  BY <1>1, <1>2 DEF Profile
<1>4. \A v \in Users : doc'[v] = IF v = u THEN c ELSE doc[v]
  BY <1>1, <1>2 DEF AccountType
<1>5. UNCHANGED <<queue, signed, sent, cache, named>>
  BY DEF Befriend
<1>6. Grows
  BY <1>5, AppliedWrites DEF Grows
<1>7. DocNamed'
  <2>1. doc[u] # None
    BY DEF Befriend
  <2> QED BY <1>3, <1>4, <1>5, <2>1 DEF NamesParts, DocNamed
<1>8. \A d \in Devices : SentNamed(d, sent[d])'
  BY <1>5 DEF NamesParts, SentNamed, Mine
<1> QED BY <1>5, <1>6, <1>7, <1>8, ChangedNames

\* What Applies does, to which write.
LEMMA AppliesFacts ==
  ASSUME AccountType, WritesKept, NEW d \in Devices, Applies(d)
  PROVE  \E q \in Seq(Queued), n \in Nat, w \in Queued :
           /\ q = Mine(d) /\ n = sent[d] /\ n + 1 \in DOMAIN q /\ w = q[n + 1] /\ w.doc \in Users
           /\ doc[w.doc] \in Profile \cup {None} /\ ~Missing(w, doc[w.doc])
           /\ \A u \in Users : doc'[u] = IF u = w.doc THEN Written(w, doc[u]) ELSE doc[u]
           /\ \A u \in Users : named'[u] = IF u = w.doc THEN named[u] \cup {doc'[u].name} ELSE named[u]
           /\ sent'[d] = n + 1 /\ \A e \in Devices : e # d => sent'[e] = sent[e]
           /\ UNCHANGED <<queue, signed, cache, jobs>>
<1>1. PICK q \in Seq(Queued) : q = Mine(d) /\ q = queue[d][signed[d]]
  BY MineFacts
<1>2. PICK n \in Nat : n = sent[d]
  BY DEF AccountType
<1>3. n + 1 \in DOMAIN q
  <2>1. sent[d] < Len(Mine(d))
    BY Zenon DEF Applies
  <2>2. PICK m \in Nat : m = Len(q) /\ DOMAIN q = 1..m
    BY <1>1
  <2>3. n < m
    BY <1>1, <1>2, <2>1, <2>2
  <2> QED BY <2>2, <2>3
<1>4. PICK w \in Queued : w = q[n + 1] /\ w.doc \in Users
  BY <1>1, <1>3, HeadFacts
<1>5. doc[w.doc] \in Profile \cup {None} /\ ~Missing(w, doc[w.doc])
  BY <1>1, <1>2, <1>4 DEF Applies, AccountType
<1>6. PICK c : c = Written(w, doc[w.doc])
  OBVIOUS
<1>7. doc' = [doc EXCEPT ![w.doc] = c] /\ named' = [named EXCEPT ![w.doc] = @ \cup {doc'[w.doc].name}]
  BY <1>1, <1>2, <1>4, <1>6 DEF Applies
<1>8. \A u \in Users : doc'[u] = IF u = w.doc THEN Written(w, doc[u]) ELSE doc[u]
  <2>1. doc \in [Users -> Profile \cup {None}]
    BY DEF AccountType
  <2>2. \A u \in Users : doc'[u] = IF u = w.doc THEN c ELSE doc[u]
    BY <1>7, <2>1
  <2> QED BY <1>6, <2>2
<1>9. \A u \in Users : named'[u] = IF u = w.doc THEN named[u] \cup {doc'[u].name} ELSE named[u]
  <2>1. PICK x : x = doc'[w.doc].name
    OBVIOUS
  <2>2. named' = [named EXCEPT ![w.doc] = named[w.doc] \cup {x}]
    BY <1>7, <2>1
  <2>3. \A u \in Users : named'[u] = IF u = w.doc THEN named[w.doc] \cup {x} ELSE named[u]
    <3>1. named \in [Users -> SUBSET Names]
      BY DEF AccountType
    <3> QED BY <2>2, <3>1
  <2> QED BY <2>1, <2>3
<1>10. sent'[d] = n + 1 /\ \A e \in Devices : e # d => sent'[e] = sent[e]
  <2>1. sent' = [sent EXCEPT ![d] = n + 1]
    BY <1>2 DEF Applies
  <2> QED BY <2>1 DEF AccountType
<1>11. UNCHANGED <<queue, signed, cache, jobs>>
  BY DEF Applies
<1> QED BY <1>1, <1>2, <1>3, <1>4, <1>5, <1>8, <1>9, <1>10, <1>11

\* The server applies a write: its name is one that the document has had.
LEMMA AppliesNames ==
  ASSUME AccountType, AccountType', WritesKept, JobsGo(jobs, jobs'), NamesParts, NEW d \in Devices, Applies(d)
  PROVE  NamesParts'
<1>1. PICK q \in Seq(Queued), n \in Nat, w \in Queued :
           /\ q = Mine(d) /\ n = sent[d] /\ n + 1 \in DOMAIN q /\ w = q[n + 1] /\ w.doc \in Users
           /\ doc[w.doc] \in Profile \cup {None} /\ ~Missing(w, doc[w.doc])
           /\ \A u \in Users : doc'[u] = IF u = w.doc THEN Written(w, doc[u]) ELSE doc[u]
           /\ \A u \in Users : named'[u] = IF u = w.doc THEN named[u] \cup {doc'[u].name} ELSE named[u]
           /\ sent'[d] = n + 1 /\ \A e \in Devices : e # d => sent'[e] = sent[e]
           /\ UNCHANGED <<queue, signed, cache, jobs>>
  BY AppliesFacts
<1>2. Grows
  <2>1. \A u \in Users : doc[u] # None => doc'[u] # None
    BY AppliedWrites
  <2>2. \A u \in Users : named[u] \subseteq named'[u]
    BY <1>1
  <2> QED BY <2>1, <2>2 DEF Grows
<1>3. DocNamed'
  BY <1>1 DEF NamesParts, DocNamed
<1>4. "name" \in DOMAIN w.patch => w.patch.name \in named'[w.doc]
  <2>1. PICK v \in Users : v = w.doc
    BY <1>1
  <2>2. doc'[v] = Written(w, doc[v]) /\ named'[v] = named[v] \cup {doc'[v].name}
    BY <1>1, <2>1
  <2>3. CASE w.op = "set"
    <3>1. Written(w, doc[v]) = w.patch
      BY <1>1, <2>1, <2>3, WrittenProfile, WriteFacts
    <3> QED BY <2>1, <2>2, <3>1
  <2>4. CASE w.op = "update"
    <3>1. "name" \in DOMAIN w.patch => Written(w, doc[v]).name = w.patch.name
      BY <1>1, <2>1, <2>4, WrittenProfile
    <3> QED BY <2>1, <2>2, <3>1
  <2> QED BY <2>3, <2>4, WriteFacts
<1>5. \A e \in Devices : Mine(e)' = Mine(e)
  BY <1>1 DEF Mine
<1>6. ASSUME NEW e \in Devices PROVE SentNamed(e, sent[e])'
  <2>1. SentNamed(e, sent[e])
    BY DEF NamesParts
  <2>2. PICK l \in Nat : l = sent[e] /\ 1..l \subseteq DOMAIN Mine(e)
    <3>1. PICK l \in Nat : l = sent[e]
      BY DEF AccountType
    <3>2. PICK m \in Nat : m = Len(Mine(e)) /\ DOMAIN Mine(e) = 1..m
      BY MineFacts
    <3>3. l <= m
      BY <3>1, <3>2, WritesSplit DEF SentExists
    <3>4. 1..l \subseteq 1..m
      BY <3>3
    <3> QED BY <3>1, <3>2, <3>4
  <2>3. \A i \in 1..l : Mine(e)[i].doc \in Users
    BY <2>2, HeadFacts
  <2>4. \A i \in 1..l : "name" \in DOMAIN Mine(e)[i].patch => Mine(e)[i].patch.name \in named'[Mine(e)[i].doc]
    BY <1>2, <2>1, <2>2, <2>3 DEF SentNamed, Grows
  <2>5. CASE e # d
    BY <1>1, <1>5, <2>2, <2>4, <2>5 DEF SentNamed
  <2>6. CASE e = d
    <3>1. \A i \in 1..(n + 1) : i \in 1..n \/ i = n + 1
      OBVIOUS
    <3>2. l = n /\ Mine(e) = q
      BY <1>1, <2>2, <2>6
    <3>3. \A i \in 1..(n + 1) : "name" \in DOMAIN q[i].patch => q[i].patch.name \in named'[q[i].doc]
      BY <1>1, <1>4, <2>4, <3>1, <3>2
    <3>4. Mine(e)' = q /\ sent'[e] = n + 1
      BY <1>1, <1>5, <2>6
    <3> QED BY <3>3, <3>4 DEF SentNamed
  <2> QED BY <2>5, <2>6
<1> QED BY <1>1, <1>2, <1>3, <1>6, ChangedNames

\* Every step keeps the names.
LEMMA NextNames ==
  ASSUME AccountType, HandlersKept, WritesKept, AccountType', JobsGo(jobs, jobs'), NamesParts, [Next]_vars
  PROVE  NamesParts'
<1>1. CASE UNCHANGED vars \/ (\E d \in Devices : QuietDevice(d)) \/ (\E k \in DOMAIN jobs : QuietJob(k))
  BY <1>1, QuietSteps, QuietNames
<1>2. CASE (\E d \in Devices : SignedUp(d)) \/ (\E k \in DOMAIN jobs : \E url \in Pictures : GotURL(k, url))
  BY <1>2, NoBioNames
<1>3. ASSUME NEW k \in DOMAIN jobs, NEW online \in BOOLEAN, FormRead(k, online) PROVE NamesParts'
  BY <1>3, FormReadNames
<1>4. ASSUME NEW d \in Devices, Answer(d) \/ Refuse(d) PROVE NamesParts'
  BY <1>4, DequeuedNames
<1>5. ASSUME NEW d \in Devices, Applies(d) PROVE NamesParts'
  BY <1>5, AppliesNames
<1>6. ASSUME NEW u \in Users, Befriend(u) PROVE NamesParts'
  BY <1>6, BefriendNames
<1> QED BY <1>1, <1>2, <1>3, <1>4, <1>5, <1>6, NextQueues

\* No document has had another name than the registered one at first.
LEMMA InitNames == Init => NamesParts
<1> SUFFICES ASSUME Init PROVE NamesParts
  OBVIOUS
<1>1. PICK p : p = [NewProfile EXCEPT !.bio = "bio"]
  OBVIOUS
<1>2. p.name = "first"
  BY <1>1 DEF NewProfile
<1>3. \A u \in Users : doc[u] # None => doc[u] = p /\ named[u] = {"first"}
  BY <1>1 DEF Init
<1>4. DocNamed
  BY <1>2, <1>3 DEF DocNamed
<1>5. CacheNamed
  BY DEF Init, CacheNamed
<1>6. \A d \in Devices : SentNamed(d, sent[d])
  <2>1. \A d \in Devices : sent[d] = 0
    BY DEF Init
  <2>2. 1..0 = {}
    OBVIOUS
  <2> QED BY <2>1, <2>2 DEF SentNamed
<1>7. \A d \in Devices, o \in Owners : BiosNamed(queue[d][o])
  <2>1. \A d \in Devices, o \in Owners : DOMAIN queue[d][o] = {}
    BY DEF Init, Owners
  <2> QED BY <2>1 DEF BiosNamed
<1> QED BY <1>4, <1>5, <1>6, <1>7 DEF NamesParts

\* All that is needed for the bios.
LEMMA AlwaysNamed == Spec => [](Registered /\ NamesParts)
<1>1. Init => Registered /\ NamesParts
  BY InitScreens, InitOnce, InitNames DEF Registered
<1>2. ASSUME Registered, NamesParts, [Next]_vars PROVE Registered' /\ NamesParts'
  <2>1. AccountType /\ HandlersKept /\ WritesKept /\ Once /\ HasDocument /\ Screens
    BY <1>2 DEF Registered, Screens
  <2>2. Screens' /\ JobsGo(jobs, jobs')
    BY <1>2, <2>1, NextOfScreens
  <2>3. AccountType'
    BY <2>2 DEF Screens
  <2>4. Once'
    BY <1>2, <2>1, NextOnce
  <2>5. HasDocument'
    BY <1>2, <2>1, <2>3, NextDocument
  <2>6. NamesParts'
    BY <1>2, <2>1, <2>2, <2>3, NextNames
  <2> QED BY <2>2, <2>4, <2>5, <2>6 DEF Registered
<1>3. Registered /\ NamesParts /\ [Next]_vars => (Registered /\ NamesParts)'
  BY <1>2
<1> QED BY <1>1, <1>3, PTL DEF Spec

(***************************************************************************)
(* The inductive invariant: types, handlers that belong to accounts and    *)
(* screens, writes for accounts, one registration for each user, and names *)
(* that explain every emptied bio in a queue.                              *)
(***************************************************************************)
THEOREM AccountInvariant == Spec => []AccountInv
<1>1. Registered /\ NamesParts => AccountInv
  BY OnceIs, NamesSplit DEF Registered, Screens, AccountInv
<1> QED BY <1>1, AlwaysNamed, PTL

EmptiesBio(u) == doc[u].bio # "" /\ doc'[u].bio = ""

\* An applied write that empties a bio comes from a form with an empty bio and
\* a name that is empty or that its user's document has had.
LEMMA BioStays ==
  ASSUME Registered, NamesParts, [Next]_vars, NEW u \in welcomed, EmptiesBio(u)
  PROVE  \E k \in DOMAIN jobs :
           /\ jobs[k].kind = "form" /\ jobs[k].bio = ""
           /\ jobs[k].name \in named[jobs[k].user] \cup {""}
<1>0. AccountType /\ HandlersKept /\ WritesKept /\ Once
  BY DEF Registered, Screens
<1>1. u \in Users
  BY <1>0 DEF AccountType
<1>2. ASSUME NEW v \in Users, Befriend(v) PROVE FALSE
  <2>1. doc[v] \in Profile /\ doc' = [doc EXCEPT ![v] = [doc[v] EXCEPT !.friends = TRUE]]
    BY <1>0, <1>2, BefriendType
  <2>2. PICK c : c = [doc[v] EXCEPT !.friends = TRUE]
    OBVIOUS
  <2>3. c.bio = doc[v].bio
    BY <2>1, <2>2 DEF Profile
  <2>4. doc'[u] = IF u = v THEN c ELSE doc[u]
    BY <1>0, <1>1, <2>1, <2>2 DEF AccountType
  <2> QED BY <2>3, <2>4 DEF EmptiesBio
<1>3. \E d \in Devices : Applies(d)
  <2>1. doc' # doc
    BY DEF EmptiesBio
  <2> QED BY <1>0, <1>2, <2>1, DocSteps
<1>4. PICK d \in Devices : Applies(d)
  BY <1>3
<1>5. PICK q \in Seq(Queued), n \in Nat, w \in Queued :
           /\ q = Mine(d) /\ n = sent[d] /\ n + 1 \in DOMAIN q /\ w = q[n + 1] /\ w.doc \in Users
           /\ doc[w.doc] \in Profile \cup {None} /\ ~Missing(w, doc[w.doc])
           /\ \A v \in Users : doc'[v] = IF v = w.doc THEN Written(w, doc[v]) ELSE doc[v]
           /\ \A v \in Users : named'[v] = IF v = w.doc THEN named[v] \cup {doc'[v].name} ELSE named[v]
           /\ sent'[d] = n + 1 /\ \A e \in Devices : e # d => sent'[e] = sent[e]
           /\ UNCHANGED <<queue, signed, cache, jobs>>
  BY <1>0, <1>4, AppliesFacts
<1>6. u = w.doc /\ Written(w, doc[u]).bio = ""
  BY <1>1, <1>5 DEF EmptiesBio
<1>7. w.op = "update"
  <2>1. SUFFICES ASSUME w.op = "set" PROVE FALSE
    BY WriteFacts
  <2>2. signed[d] \in Owners /\ q = queue[d][signed[d]] /\ n + 1 \in Nat
    BY <1>0, <1>5, MineFacts
  <2>3. First(d, signed[d], n + 1)
    BY <1>5, <2>1, <2>2 DEF First
  <2>4. u = signed[d]
    <3>1. queue[d][signed[d]][n + 1].doc = signed[d]
      BY <1>0, <2>2, <2>3 DEF Once
    <3> QED BY <1>5, <1>6, <2>2, <3>1
  <2> QED BY <1>0, <1>1, <2>2, <2>3, <2>4 DEF Once
<1>8. "bio" \in DOMAIN w.patch /\ w.patch.bio = ""
  <2>1. Written(w, doc[u]).bio = IF "bio" \in DOMAIN w.patch THEN w.patch.bio ELSE doc[u].bio
    BY <1>5, <1>6, <1>7, WrittenProfile
  <2> QED BY <1>6, <2>1 DEF EmptiesBio
<1>9. Emptied(q, n + 1)
  <2>1. BiosNamed(q)
    BY <1>0, <1>5, MineFacts DEF NamesParts
  <2> QED BY <1>5, <1>7, <1>8, <2>1 DEF BiosNamed, EmptyBio
<1>10. PICK k \in DOMAIN jobs : k = q[n + 1].job
  BY <1>9 DEF Emptied
<1>11. PICK j : j = jobs[k]
  OBVIOUS
<1>12. j.kind = "form" /\ j.bio = "" /\ j.name \in {""} \cup named[j.user] \cup NamesBefore(q, n + 1, j.user)
  BY <1>9, <1>10, <1>11 DEF Emptied
<1>13. NamesBefore(q, n + 1, j.user) \subseteq named[j.user]
  <2>1. (n + 1) - 1 = n
    OBVIOUS
  <2>2. \A i \in 1..n : "name" \in DOMAIN q[i].patch => q[i].patch.name \in named[q[i].doc]
    BY <1>5 DEF NamesParts, SentNamed
  <2> QED BY <2>1, <2>2 DEF NamesBefore, NamesIt
<1> QED BY <1>11, <1>12, <1>13

(***************************************************************************)
(* The form empties a bio only when its bio was left empty and its name    *)
(* was empty or one that the document of its user has had: a new name      *)
(* alone leaves the bio as it is, also after a read from the cache, of a   *)
(* document with queued writes, or for a user who has been replaced.       *)
(***************************************************************************)
THEOREM BioKeptCorrect == Spec => BioKept
<1>1. Registered /\ NamesParts /\ [Next]_vars =>
        [\A u \in welcomed :
           doc[u].bio # "" /\ doc'[u].bio = "" =>
             \E k \in DOMAIN jobs :
               /\ jobs[k].kind = "form" /\ jobs[k].bio = ""
               /\ jobs[k].name \in named[jobs[k].user] \cup {""}]_vars
  BY BioStays DEF EmptiesBio
<1> QED BY <1>1, AlwaysNamed, PTL DEF Spec, BioKept
=============================================================================
