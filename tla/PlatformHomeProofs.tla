-------------------------- MODULE PlatformHomeProofs --------------------------
(***************************************************************************)
(* For any lamps, areas, observations, bounds and scenarios, and however    *)
(* requests are lost, synchronisations race and the hub restarts: the       *)
(* kinds of the data (TypeOK), the machine credential (Handshaken), the     *)
(* usage counters (Counting) and what the platform was told of the outages  *)
(* (Told).                                                                  *)
(*                                                                          *)
(* Handshaken follows the credential from the platform's proof through the  *)
(* vault to its acknowledgement; Counting follows each epoch through the    *)
(* trackers, an upload, the platform's rows and the state file, in each of  *)
(* which it appears at most once.  Told follows each outage through what    *)
(* handlers and the sweep have still to do about it (Sane), the outbox, an  *)
(* upload and the platform: the last word on the way is what the hub takes  *)
(* for true, or the step that will make it so still waits (Fit).            *)
(***************************************************************************)
EXTENDS PlatformHome, SequenceTheorems, FiniteSetTheorems, TLAPS

(***************************************************************************)
(* The kinds of data.                                                       *)
(***************************************************************************)
Battery == "battery_critical"
States == {"none", "watching", "open", "recovering", "warning", "critical"}
Words == {"open", "resolved"}

Incident == [state : States, revision : Nat, first : Nat, recovered : Nat]
Case(i) == {v \in Incident : v.state \in IF i = Battery THEN {"none", "warning", "critical"} ELSE {"none", "watching", "open", "recovering"}}
Envelope == [id : Ids, state : Words, revision : Nat]
Boxes == Seq(Envelope)
Home == [up : BOOLEAN, battery : Levels, healthy : BOOLEAN]
Slips == [stale : SUBSET Ids, untold : SUBSET Ids, overtaken : SUBSET Ids]

\* What a handler may still have to do after its first step: save that an
\* outage has ended, or tell that one has begun.
Ended(i) == {v \in Case(i) : v.state \in {"none", "watching"}}
Pending(i) == {Save(i, v, a) : v \in Ended(i), a \in Case(i)} \cup {Tell(i, "open", r) : r \in Nat}
PendingHere == UNION {Pending(i) : i \in Ids \ {Battery}}

Alone == {<<e>> : e \in PendingHere}
AndLook == {<<e, Look(u)>> : e \in Pending(Battery), u \in BOOLEAN}
Looks == {<<Look(u)>> : u \in BOOLEAN}
Measures == {<<Measure(l), Look(u)>> : l \in Levels, u \in BOOLEAN}
Job == Alone \cup AndLook \cup Looks \cup Measures

\* What a handler decides about an incident.
Plans(i) ==
  {<<>>} \cup {<<Save(i, v, a)>> : v \in Case(i), a \in Case(i)}
  \cup {<<Save(i, v, a), Tell(i, "open", r)>> : v \in Case(i), a \in Case(i), r \in Nat}
  \cup {<<Tell(i, "resolved", r), Save(i, v, a)>> : v \in Ended(i), a \in Case(i), r \in Nat}

IncidentsOK ==
  /\ home \in Home
  /\ active \in [Ids -> Incident] /\ (\A i \in Ids : active[i] \in Case(i))
  /\ outbox \in Boxes
  /\ jobs \in Seq(Job)
  /\ sweep \in [todo : SUBSET (Ids \X Incident), doing : {<<>>} \cup Alone, now : Nat]
  /\ \A t \in sweep.todo : t[2] \in Case(t[1])
  /\ recent \subseteq Ids \X Words
  /\ hour \in Nat
  /\ slips \in Slips

LEMMA Two ==
  ASSUME NEW x, NEW y
  PROVE  <<x>> \o <<y>> = <<x, y>>
<1> DEFINE S == {x, y}
<1>0. <<x>> \in Seq(S) /\ <<y>> \in Seq(S) /\ <<x, y>> \in Seq(S)
  OBVIOUS
<1>1. <<x>> \o <<y>> \in Seq(S) /\ Len(<<x>> \o <<y>>) = 2
  BY <1>0, ConcatProperties
<1>2. (<<x>> \o <<y>>)[1] = x /\ (<<x>> \o <<y>>)[2] = y
  BY <1>0, ConcatProperties
<1>3. \A k \in 1..Len(<<x>> \o <<y>>) : (<<x>> \o <<y>>)[k] = <<x, y>>[k]
  BY <1>1, <1>2
<1> QED BY <1>1, <1>3, <1>0, SeqEqual

LEMMA Three ==
  ASSUME NEW x, NEW y, NEW z
  PROVE  <<x, y>> \o <<z>> = <<x, y, z>>
<1> DEFINE S == {x, y, z}
<1>0. <<x, y>> \in Seq(S) /\ <<z>> \in Seq(S) /\ <<x, y, z>> \in Seq(S)
  OBVIOUS
<1>1. <<x, y>> \o <<z>> \in Seq(S) /\ Len(<<x, y>> \o <<z>>) = 3
  BY <1>0, ConcatProperties
<1>2. (<<x, y>> \o <<z>>)[1] = x /\ (<<x, y>> \o <<z>>)[2] = y /\ (<<x, y>> \o <<z>>)[3] = z
  BY <1>0, ConcatProperties
<1>3. \A k \in 1..Len(<<x, y>> \o <<z>>) : (<<x, y>> \o <<z>>)[k] = <<x, y, z>>[k]
  BY <1>1, <1>2
<1> QED BY <1>1, <1>3, <1>0, SeqEqual

LEMMA PlansOf ==
  ASSUME NEW i \in Ids, NEW a \in Case(i), hour \in Nat
  PROVE  /\ i # Battery => /\ Reclassify(i, a) \in Plans(i) /\ Watching(i) \in Plans(i)
                           /\ Escalate(i, a) \in Plans(i) /\ Recover(i, a) \in Plans(i)
         /\ Forget(i, a) \in Plans(i) /\ <<Tell(i, "resolved", a.revision + 1)>> \o Forget(i, a) \in Plans(i)
<1>1. Absent \in Ended(i) /\ Absent \in Case(i)
  BY DEF Absent, Ended, Case, Incident, States
<1> DEFINE w == [a EXCEPT !.state = "watching", !.revision = 0, !.recovered = 0]
<1>2. i # Battery => w \in Ended(i) /\ w \in Case(i)
  BY DEF Ended, Case, Incident, States
<1> DEFINE x == Save(i, w, a)
<1>3. Reclassify(i, a) = (IF a.revision > 0 THEN <<Tell(i, "resolved", a.revision + 1)>> ELSE <<>>) \o <<x>>
  BY DEF Reclassify
<1>4. a.revision \in Nat
  BY DEF Case, Incident
<1>5. i # Battery => Reclassify(i, a) \in Plans(i)
  <2> HAVE i # Battery
  <2>1. CASE a.revision > 0
    <3> DEFINE t == Tell(i, "resolved", a.revision + 1)
    <3>1. Reclassify(i, a) = <<t>> \o <<x>>
      BY <1>3, <2>1
    <3>2. Reclassify(i, a) = <<t, x>>
      <4> HIDE DEF t, x
      <4> QED BY <3>1, Two
    <3> QED BY <3>2, <1>2, <1>4 DEF Plans
  <2>2. CASE a.revision = 0
    <3>1. Reclassify(i, a) = <<>> \o <<x>>
      BY <1>3, <2>2
    <3>2. Reclassify(i, a) = <<x>>
      <4> HIDE DEF x
      <4> QED BY <3>1
    <3> QED BY <3>2, <1>2 DEF Plans
  <2> QED BY <2>1, <2>2, <1>4
<1>7. i # Battery => Watching(i) \in Plans(i)
  <2> HAVE i # Battery
  <2>1. [Absent EXCEPT !.state = "watching", !.first = hour] \in Case(i)
    BY <1>1 DEF Case, Incident, States
  <2> QED BY <2>1, <1>1 DEF Watching, Plans
<1>8. i # Battery => Escalate(i, a) \in Plans(i)
  <2> HAVE i # Battery
  <2>1. [a EXCEPT !.state = "open", !.revision = @ + 1] \in Case(i)
    <3> DEFINE r == a.revision + 1
    <3>1. r \in Nat
      BY <1>4
    <3> HIDE DEF r
    <3>2. [a EXCEPT !.state = "open", !.revision = r] \in Case(i)
      BY <3>1 DEF Case, Incident, States
    <3> QED BY <3>2 DEF r
  <2> QED BY <2>1, <1>4 DEF Escalate, Plans
<1>9. i # Battery => Recover(i, a) \in Plans(i)
  <2> HAVE i # Battery
  <2>1. [a EXCEPT !.state = "recovering", !.recovered = hour] \in Case(i)
    BY DEF Case, Incident, States
  <2> QED BY <2>1 DEF Recover, Plans
<1>10. Forget(i, a) \in Plans(i)
  BY <1>1 DEF Forget, Plans
<1>11. <<Tell(i, "resolved", a.revision + 1)>> \o Forget(i, a) \in Plans(i)
  <2> DEFINE y == Save(i, Absent, a)
  <2>1. <<Tell(i, "resolved", a.revision + 1)>> \o Forget(i, a) = <<Tell(i, "resolved", a.revision + 1), y>>
    <3>1. Forget(i, a) = <<y>>
      BY DEF Forget
    <3> DEFINE t == Tell(i, "resolved", a.revision + 1)
    <3> HIDE DEF y, t
    <3>2. <<t>> \o Forget(i, a) = <<t>> \o <<y>>
      BY <3>1
    <3>3. <<t>> \o <<y>> = <<t, y>>
      BY Two
    <3> QED BY <3>2, <3>3 DEF t
  <2> QED BY <2>1, <1>1, <1>4 DEF Plans
<1> QED BY <1>5, <1>7, <1>8, <1>9, <1>10, <1>11

LEMMA HandlersPlan ==
  ASSUME IncidentsOK, NEW level \in Levels, NEW healthy \in BOOLEAN
  PROVE  /\ ObserveUnavailable \in Plans("device_offline")
         /\ ObserveAvailable \in Plans("device_offline")
         /\ ObserveBattery(level) \in Plans(Battery)
         /\ ObserveIntegration(healthy) \in Plans("integration_offline")
<1> USE DEF IncidentsOK
<1>0. "device_offline" \in Ids /\ Battery \in Ids /\ "integration_offline" \in Ids
  BY DEF Ids, Battery
<1>1. \A i \in Ids : active[i] \in Case(i) /\ active[i].revision \in Nat
  BY DEF Case, Incident
<1>2. \A i \in Ids : <<>> \in Plans(i)
  BY DEF Plans
<1>3. ObserveUnavailable \in Plans("device_offline")
  <2> DEFINE a == active["device_offline"]
             v == [a EXCEPT !.state = IF @ = "recovering" THEN "open" ELSE @, !.recovered = 0]
  <2>1. v \in Case("device_offline")
    <3>1. a \in Case("device_offline")
      BY <1>0, <1>1
    <3> HIDE DEF a
    <3> QED BY <3>1 DEF Case, Incident, States, Battery
  <2>2. <<Save("device_offline", v, a)>> \in Plans("device_offline")
    BY <2>1, <1>0, <1>1 DEF Plans
  <2>3. a \in Case("device_offline") /\ "device_offline" # Battery
    BY <1>0, <1>1 DEF Battery
  <2>4. Watching("device_offline") \in Plans("device_offline") /\ Reclassify("device_offline", a) \in Plans("device_offline")
    BY <2>3, <1>0, PlansOf
  <2> QED BY <2>2, <2>4 DEF ObserveUnavailable
<1>4. ObserveAvailable \in Plans("device_offline")
  <2>1. Recover("device_offline", active["device_offline"]) \in Plans("device_offline") /\ Forget("device_offline", active["device_offline"]) \in Plans("device_offline")
    BY <1>0, <1>1, PlansOf DEF Battery
  <2> QED BY <2>1, <1>0, <1>2 DEF ObserveAvailable
<1>5. ObserveBattery(level) \in Plans(Battery)
  <2> DEFINE a == active[Battery]
             c == [a EXCEPT !.state = "critical", !.revision = @ + 1]
             w == [Absent EXCEPT !.state = "warning"]
  <2>1. c \in Case(Battery) /\ w \in Case(Battery)
    <3>1. a \in Case(Battery) /\ a.revision + 1 \in Nat
      BY <1>0, <1>1
    <3> HIDE DEF a
    <3> QED BY <3>1 DEF Case, Incident, States, Absent
  <2>2. <<Save(Battery, c, a), Tell(Battery, "open", a.revision + 1)>> \in Plans(Battery) /\ <<Save(Battery, w, a)>> \in Plans(Battery)
    BY <2>1, <1>0, <1>1 DEF Plans
  <2>3. <<Tell(Battery, "resolved", a.revision + 1)>> \o Forget(Battery, a) \in Plans(Battery) /\ Forget(Battery, a) \in Plans(Battery)
    BY <1>0, <1>1, PlansOf
  <2> QED BY <2>2, <2>3, <1>0, <1>2 DEF ObserveBattery, Battery
<1>6. ObserveIntegration(healthy) \in Plans("integration_offline")
  <2> DEFINE i == "integration_offline"
             a == active[i]
  <2>1. a \in Case(i) /\ i # Battery
    BY <1>0, <1>1 DEF Battery
  <2>2. /\ Watching(i) \in Plans(i) /\ Reclassify(i, a) \in Plans(i) /\ Recover(i, a) \in Plans(i)
        /\ Forget(i, a) \in Plans(i) /\ Escalate(i, a) \in Plans(i)
    BY <2>1, <1>0, PlansOf
  <2> QED BY <2>2, <1>0, <1>2 DEF ObserveIntegration
<1> QED BY <1>3, <1>4, <1>5, <1>6

LEMMA SweepPlans ==
  ASSUME hour \in Nat, NEW i \in Ids, NEW a \in Case(i), NEW now \in Nat
  PROVE  Sweep(i, a, now) \in Plans(i) /\ (i = Battery => Sweep(i, a, now) = <<>>)
<1>1. <<>> \in Plans(i)
  BY DEF Plans
<1>2. CASE i # Battery
  <2>1. /\ Reclassify(i, a) \in Plans(i) /\ Escalate(i, a) \in Plans(i)
        /\ <<Tell(i, "resolved", a.revision + 1)>> \o Forget(i, a) \in Plans(i)
    BY <1>2, PlansOf
  <2> QED BY <1>1, <1>2, <2>1 DEF Sweep
<1>3. CASE i = Battery
  BY <1>1, <1>3 DEF Sweep, Premature, Case
<1> QED BY <1>2, <1>3

(***************************************************************************)
(* Jobs.                                                                    *)
(***************************************************************************)
\* The jobs after the one at k has gone on and r is left of it.
After(k, r) ==
  IF r = <<>> THEN [n \in 1..Len(jobs) - 1 |-> IF n < k THEN jobs[n] ELSE jobs[n + 1]]
  ELSE [jobs EXCEPT ![k] = r]

LEMMA JobsAfter ==
  ASSUME jobs \in Seq(Job), NEW k \in DOMAIN jobs, NEW r \in Job \cup {<<>>}
  PROVE  /\ SubSeq(jobs, 1, k - 1) \o With(r) \o SubSeq(jobs, k + 1, Len(jobs)) = After(k, r)
         /\ After(k, r) \in Seq(Job)
<1>1. PICK n \in Nat : n = Len(jobs)
  BY LenProperties
<1>2. k \in 1..n /\ (\A m \in 1..n : jobs[m] \in Job) /\ DOMAIN jobs = 1..n
  BY <1>1, LenProperties
<1> DEFINE A == SubSeq(jobs, 1, k - 1)
           B == SubSeq(jobs, k + 1, n)
<1>3. A \in Seq(Job) /\ Len(A) = k - 1 /\ \A m \in 1..k-1 : A[m] = jobs[m]
  <2>1. \A m \in 1..k-1 : jobs[m] \in Job
    BY <1>2
  <2>2. k - 1 \in Int /\ (IF 1 <= k - 1 THEN k - 1 - 1 + 1 ELSE 0) = k - 1 /\ k - 1 - 1 + 1 = k - 1
    BY <1>2
  <2>3. A \in Seq(Job) /\ Len(A) = (IF 1 <= k - 1 THEN k - 1 - 1 + 1 ELSE 0) /\ \A m \in 1..(k - 1 - 1 + 1) : A[m] = jobs[1 + m - 1]
    BY <2>1, <2>2, SubSeqProperties
  <2>4. \A m \in 1..k-1 : 1 + m - 1 = m
    BY <1>2
  <2> QED BY <2>2, <2>3, <2>4
<1>4. B \in Seq(Job) /\ Len(B) = n - k /\ \A m \in 1..n-k : B[m] = jobs[k + m]
  <2>1. \A m \in k+1..n : jobs[m] \in Job
    BY <1>2
  <2>2. k + 1 \in Int /\ n \in Int /\ (IF k + 1 <= n THEN n - (k + 1) + 1 ELSE 0) = n - k /\ n - (k + 1) + 1 = n - k
    BY <1>2
  <2>3. B \in Seq(Job) /\ Len(B) = (IF k + 1 <= n THEN n - (k + 1) + 1 ELSE 0) /\ \A m \in 1..(n - (k + 1) + 1) : B[m] = jobs[k + 1 + m - 1]
    BY <2>1, <2>2, SubSeqProperties
  <2>4. \A m \in 1..n-k : k + 1 + m - 1 = k + m
    BY <1>2
  <2> QED BY <2>2, <2>3, <2>4
<1>5. CASE r = <<>>
  <2>1. With(r) = <<>> /\ <<>> \in Seq(Job)
    BY <1>5 DEF With
  <2>2. A \o With(r) = A
    BY <2>1, <1>3, ConcatEmptySeq
  <2> DEFINE s == A \o B
  <2>3. s \in Seq(Job) /\ Len(s) = Len(A) + Len(B) /\ \A m \in 1..Len(A) + Len(B) : s[m] = IF m <= Len(A) THEN A[m] ELSE B[m - Len(A)]
    <3>1. A \in Seq(Job) /\ B \in Seq(Job)
      BY <1>3, <1>4
    <3> HIDE DEF A, B
    <3> QED BY <3>1, ConcatProperties
  <2>4. Len(s) = n - 1 /\ \A m \in 1..n-1 : s[m] = IF m < k THEN jobs[m] ELSE jobs[m + 1]
    <3>1. Len(A) = k - 1 /\ Len(B) = n - k /\ Len(A) + Len(B) = n - 1
      BY <1>2, <1>3, <1>4
    <3>2. ASSUME NEW m \in 1..n-1 PROVE s[m] = IF m < k THEN jobs[m] ELSE jobs[m + 1]
      <4>1. CASE m < k
        <5>1. m <= k - 1 /\ m \in 1..k-1
          BY <4>1, <1>2
        <5> QED BY <5>1, <2>3, <3>1, <1>3, <4>1
      <4>2. CASE ~(m < k)
        <5>1. ~(m <= k - 1) /\ m - (k - 1) \in 1..n-k /\ k + (m - (k - 1)) = m + 1
          BY <4>2, <1>2
        <5>2. s[m] = B[m - (k - 1)]
          BY <5>1, <2>3, <3>1
        <5> QED BY <5>1, <5>2, <1>4, <4>2
      <4> QED BY <4>1, <4>2
    <3> QED BY <2>3, <3>1, <3>2
  <2>5. s \in [1..n-1 -> Job]
    BY <2>3, <2>4, LenProperties
  <2>6. After(k, r) = [m \in 1..n-1 |-> IF m < k THEN jobs[m] ELSE jobs[m + 1]]
    BY <1>1, <1>5 DEF After
  <2>7. s = After(k, r)
    <3> HIDE DEF s
    <3> QED BY <2>4, <2>5, <2>6
  <2> QED BY <2>2, <2>3, <2>7, <1>1
<1>6. CASE r # <<>>
  <2>1. With(r) = <<r>> /\ <<r>> \in Seq(Job) /\ Len(<<r>>) = 1 /\ <<r>>[1] = r
    BY <1>6 DEF With
  <2> DEFINE h == A \o <<r>>
             s == h \o B
  <2>2. h \in Seq(Job) /\ Len(h) = Len(A) + Len(<<r>>) /\ \A m \in 1..Len(A) + Len(<<r>>) : h[m] = IF m <= Len(A) THEN A[m] ELSE <<r>>[m - Len(A)]
    <3>1. A \in Seq(Job)
      BY <1>3
    <3> HIDE DEF A
    <3> QED BY <3>1, <2>1, ConcatProperties
  <2>3. Len(h) = k /\ \A m \in 1..k : h[m] = IF m < k THEN jobs[m] ELSE r
    <3>1. Len(A) = k - 1 /\ Len(<<r>>) = 1 /\ Len(A) + Len(<<r>>) = k
      BY <1>2, <1>3, <2>1
    <3>2. ASSUME NEW m \in 1..k PROVE h[m] = IF m < k THEN jobs[m] ELSE r
      <4>1. CASE m < k
        <5>1. m <= k - 1 /\ m \in 1..k-1
          BY <4>1, <1>2
        <5> QED BY <5>1, <2>2, <3>1, <1>3, <4>1
      <4>2. CASE ~(m < k)
        <5>1. ~(m <= k - 1) /\ m - (k - 1) = 1
          BY <4>2, <1>2
        <5>2. h[m] = <<r>>[m - (k - 1)]
          BY <5>1, <2>2, <3>1
        <5> QED BY <5>1, <5>2, <2>1, <4>2
      <4> QED BY <4>1, <4>2
    <3> QED BY <2>2, <3>1, <3>2
  <2>4. s \in Seq(Job) /\ Len(s) = Len(h) + Len(B) /\ \A m \in 1..Len(h) + Len(B) : s[m] = IF m <= Len(h) THEN h[m] ELSE B[m - Len(h)]
    <3>1. h \in Seq(Job) /\ B \in Seq(Job)
      BY <2>2, <1>4
    <3> HIDE DEF h, B
    <3> QED BY <3>1, ConcatProperties
  <2>5. Len(s) = n /\ \A m \in 1..n : s[m] = IF m = k THEN r ELSE jobs[m]
    <3>1. Len(h) = k /\ Len(B) = n - k /\ Len(h) + Len(B) = n
      BY <1>2, <2>3, <1>4
    <3>2. ASSUME NEW m \in 1..n PROVE s[m] = IF m = k THEN r ELSE jobs[m]
      <4>1. CASE m <= k
        <5>1. m \in 1..k /\ (m < k <=> m # k)
          BY <4>1, <1>2
        <5>2. s[m] = h[m]
          BY <4>1, <2>4, <3>1
        <5> QED BY <5>1, <5>2, <2>3
      <4>2. CASE ~(m <= k)
        <5>1. m - k \in 1..n-k /\ k + (m - k) = m /\ m # k
          BY <4>2, <1>2
        <5>2. s[m] = B[m - k]
          BY <4>2, <2>4, <3>1
        <5> QED BY <5>1, <5>2, <1>4
      <4> QED BY <4>1, <4>2
    <3> QED BY <2>4, <3>1, <3>2
  <2>6. s \in [1..n -> Job] /\ jobs \in [1..n -> Job]
    BY <2>4, <2>5, <1>1, LenProperties
  <2>7. After(k, r) = [jobs EXCEPT ![k] = r]
    BY <1>6 DEF After
  <2>8. s = After(k, r)
    <3> HIDE DEF s
    <3> QED BY <2>5, <2>6, <2>7
  <2> QED BY <2>1, <2>4, <2>8, <1>1
<1> QED BY <1>5, <1>6

Steps(i) == {Save(i, v, a) : v \in Case(i), a \in Case(i)} \cup {Tell(i, w, r) : w \in Words, r \in Nat}

LEMMA OpenedIs ==
  ASSUME NEW job \in Job
  PROVE  \/ job \in Alone \cup AndLook /\ Opened(job) = job
         \/ \E u \in BOOLEAN : job = <<Look(u)>> /\ Opened(job) = IF u THEN ObserveAvailable ELSE ObserveUnavailable
         \/ \E l \in Levels, u \in BOOLEAN :
              /\ job = <<Measure(l), Look(u)>>
              /\ Opened(job) = IF ObserveBattery(l) = <<>> THEN IF u THEN ObserveAvailable ELSE ObserveUnavailable
                               ELSE ObserveBattery(l) \o <<Look(u)>>
<1>0. job \in Alone \cup AndLook \/ job \in Looks \/ job \in Measures
  BY DEF Job
<1>1. ASSUME job \in Alone \cup AndLook PROVE Opened(job) = job
  <2>0. PICK i \in Ids : \E e \in Pending(i) : job = <<e>> \/ \E u \in BOOLEAN : job = <<e, Look(u)>>
    BY <1>1 DEF Alone, AndLook, PendingHere, Battery, Ids
  <2>1. PICK e \in Pending(i) : job = <<e>> \/ \E u \in BOOLEAN : job = <<e, Look(u)>>
    BY <2>0
  <2>2. e.do \in {"save", "tell"}
    BY DEF Pending, Save, Tell
  <2>3. job # <<>> /\ Head(job) = e
    <3>1. CASE job = <<e>>
      BY <3>1
    <3>2. CASE \E u \in BOOLEAN : job = <<e, Look(u)>>
      <4>1. PICK u \in BOOLEAN : job = <<e, Look(u)>>
        BY <3>2
      <4> DEFINE x == Look(u)
      <4> HIDE DEF x
      <4>2. job = <<e, x>>
        BY <4>1 DEF x
      <4> QED BY <4>2
    <3> QED BY <2>1, <3>1, <3>2
  <2> QED BY <2>2, <2>3 DEF Opened
<1>2. ASSUME NEW u \in BOOLEAN, job = <<Look(u)>>
      PROVE  Opened(job) = IF u THEN ObserveAvailable ELSE ObserveUnavailable
  <2>1. job # <<>> /\ Head(job) = Look(u) /\ Look(u).do = "look" /\ Look(u).up = u
    BY <1>2 DEF Look
  <2>2. CASE u
    <3>1. Head(job).do = "look" /\ Head(job).up
      BY <2>1, <2>2
    <3> QED BY <2>1, <2>2, <3>1 DEF Opened
  <2>3. CASE ~u
    <3>1. Head(job).do = "look" /\ ~Head(job).up
      BY <2>1, <2>3
    <3> QED BY <2>1, <2>3, <3>1 DEF Opened
  <2> QED BY <2>2, <2>3
<1>3. ASSUME NEW l \in Levels, NEW u \in BOOLEAN, job = <<Measure(l), Look(u)>>
      PROVE  Opened(job) = IF ObserveBattery(l) = <<>> THEN IF u THEN ObserveAvailable ELSE ObserveUnavailable
                           ELSE ObserveBattery(l) \o <<Look(u)>>
  <2> DEFINE m == Measure(l)
             k == Look(u)
  <2>1. m.do = "measure" /\ m.level = l /\ k.do = "look" /\ k.up = u
    BY DEF Measure, Look
  <2>2. job # <<>> /\ Head(job) = m /\ Tail(job) = <<k>>
    <3> HIDE DEF m, k
    <3>1. job = <<m, k>>
      BY <1>3 DEF m, k
    <3> QED BY <3>1
  <2> DEFINE d == ObserveBattery(l)
             j == d \o <<k>>
             looked == IF j # <<>> /\ Head(j).do = "look" THEN (IF Head(j).up THEN ObserveAvailable ELSE ObserveUnavailable) ELSE j
  <2>3. Opened(job) = looked
    <3>1. Head(job).do = "measure" /\ Head(job).level = l /\ job # <<>> /\ Tail(job) = <<k>>
      <4> HIDE DEF k
      <4> QED BY <2>1, <2>2
    <3> HIDE DEF m, k
    <3> QED BY <3>1 DEF Opened
  <2>4. CASE d = <<>>
    <3>1. j = <<k>> /\ j # <<>> /\ Head(j) = k
      <4> HIDE DEF k
      <4> QED BY <2>4
    <3> QED BY <3>1, <2>1, <2>3, <2>4
  <2>5. CASE d # <<>>
    <3>1. d \in {<<Save(Battery, v, a)>> : v \in Case(Battery), a \in Case(Battery)} \/ d # <<>>
      BY <2>5
    <3>2. \E f, g : (d = <<f>> \/ d = <<f, g>>) /\ f.do \in {"save", "tell"}
      <4> DEFINE a == active[Battery]
                 c == [a EXCEPT !.state = "critical", !.revision = @ + 1]
                 w == [Absent EXCEPT !.state = "warning"]
      <4>1. \/ d = <<Save(Battery, c, a), Tell(Battery, "open", a.revision + 1)>>
            \/ d = <<Save(Battery, w, Absent)>> \/ d = <<Save(Battery, w, a)>>
            \/ d = <<Tell(Battery, "resolved", a.revision + 1)>> \o Forget(Battery, a)
            \/ d = Forget(Battery, a)
        BY <2>5 DEF ObserveBattery, Battery
      <4>2. <<Tell(Battery, "resolved", a.revision + 1)>> \o Forget(Battery, a)
              = <<Tell(Battery, "resolved", a.revision + 1), Save(Battery, Absent, a)>>
        BY Two DEF Forget
      <4>3. Forget(Battery, a) = <<Save(Battery, Absent, a)>>
        BY DEF Forget
      <4>4. \A i, x, y : Save(i, x, y).do = "save" /\ Tell(i, x, y).do = "tell"
        BY DEF Save, Tell
      <4> HIDE DEF a, c, w, d
      <4> QED BY <4>1, <4>2, <4>3, <4>4
    <3>3. PICK f, g : (d = <<f>> \/ d = <<f, g>>) /\ f.do \in {"save", "tell"}
      BY <3>2
    <3>4. j # <<>> /\ Head(j) = f
      <4> HIDE DEF k, d
      <4>1. CASE d = <<f>>
        <5>1. <<f>> \o <<k>> = <<f, k>>
          BY Two
        <5>2. j = <<f, k>>
          BY <4>1, <5>1
        <5>3. <<f, k>> # <<>> /\ Head(<<f, k>>) = f
          OBVIOUS
        <5> HIDE DEF j
        <5> QED BY <5>2, <5>3
      <4>2. CASE d = <<f, g>>
        <5>1. <<f, g>> \o <<k>> = <<f, g, k>>
          BY Three
        <5>2. j = <<f, g, k>>
          BY <4>2, <5>1
        <5>3. <<f, g, k>> # <<>> /\ Head(<<f, g, k>>) = f
          OBVIOUS
        <5> HIDE DEF j
        <5> QED BY <5>2, <5>3
      <4> QED BY <3>3, <4>1, <4>2
    <3> QED BY <3>3, <3>4, <2>3, <2>5
  <2> QED BY <2>4, <2>5
<1>4. job \in Looks => \E u \in BOOLEAN : job = <<Look(u)>>
  BY DEF Looks
<1>5. job \in Measures => \E l \in Levels, u \in BOOLEAN : job = <<Measure(l), Look(u)>>
  BY DEF Measures
<1> QED BY <1>0, <1>1, <1>2, <1>3, <1>4, <1>5

\* What a plan does first, and what it leaves.
LEMMA PlanSteps ==
  ASSUME NEW i \in Ids, NEW d \in Plans(i)
  PROVE  d = <<>> \/ \E f \in Steps(i) : d = <<f>> \/ \E g \in Pending(i) : d = <<f, g>>
<1>1. d = <<>> \/ d \in {<<Save(i, v, a)>> : v \in Case(i), a \in Case(i)}
      \/ d \in {<<Save(i, v, a), Tell(i, "open", r)>> : v \in Case(i), a \in Case(i), r \in Nat}
      \/ d \in {<<Tell(i, "resolved", r), Save(i, v, a)>> : v \in Ended(i), a \in Case(i), r \in Nat}
  BY DEF Plans
<1>2. CASE d \in {<<Save(i, v, a)>> : v \in Case(i), a \in Case(i)}
  <2>1. PICK v \in Case(i), a \in Case(i) : d = <<Save(i, v, a)>>
    BY <1>2
  <2>2. Save(i, v, a) \in Steps(i)
    BY DEF Steps
  <2> QED BY <2>1, <2>2
<1>3. CASE d \in {<<Save(i, v, a), Tell(i, "open", r)>> : v \in Case(i), a \in Case(i), r \in Nat}
  <2>1. PICK v \in Case(i), a \in Case(i), r \in Nat : d = <<Save(i, v, a), Tell(i, "open", r)>>
    BY <1>3
  <2>2. Save(i, v, a) \in Steps(i) /\ Tell(i, "open", r) \in Pending(i)
    BY DEF Steps, Pending
  <2> QED BY <2>1, <2>2
<1>4. CASE d \in {<<Tell(i, "resolved", r), Save(i, v, a)>> : v \in Ended(i), a \in Case(i), r \in Nat}
  <2>1. PICK v \in Ended(i), a \in Case(i), r \in Nat : d = <<Tell(i, "resolved", r), Save(i, v, a)>>
    BY <1>4
  <2>2. Tell(i, "resolved", r) \in Steps(i) /\ Save(i, v, a) \in Pending(i)
    BY DEF Steps, Pending, Words
  <2> QED BY <2>1, <2>2
<1> QED BY <1>1, <1>2, <1>3, <1>4

LEMMA PendingSteps ==
  ASSUME NEW i \in Ids
  PROVE  Pending(i) \subseteq Steps(i)
BY DEF Pending, Steps, Ended, Words

\* What is left of a plan may wait.
LEMMA PlanRests ==
  ASSUME NEW i \in Ids \ {Battery}, NEW d \in Plans(i)
  PROVE  /\ d = <<>> \/ Head(d) \in Steps(i)
         /\ Rest(d) \in {<<>>} \cup Alone /\ Rest(d) \in {<<>>} \cup Job
<1>1. CASE d = <<>>
  BY <1>1 DEF Rest
<1>2. ASSUME NEW f \in Steps(i), d = <<f>> PROVE Head(d) \in Steps(i) /\ Rest(d) = <<>>
  BY <1>2 DEF Rest
<1>3. ASSUME NEW f \in Steps(i), NEW g \in Pending(i), d = <<f, g>> PROVE Head(d) \in Steps(i) /\ Rest(d) \in Alone
  <2>1. Head(d) = f /\ d # <<>> /\ Tail(d) = <<g>>
    BY <1>3
  <2>2. <<g>> \in Alone
    BY DEF Alone, PendingHere
  <2> QED BY <2>1, <2>2 DEF Rest
<1>4. Alone \subseteq Job
  BY DEF Job
<1> QED BY <1>1, <1>2, <1>3, <1>4, PlanSteps

LEMMA OpenedOK ==
  ASSUME IncidentsOK, NEW job \in Job
  PROVE  /\ Opened(job) = <<>> \/ \E i \in Ids : Head(Opened(job)) \in Steps(i)
         /\ Rest(Opened(job)) \in {<<>>} \cup Job
<1> DEFINE D == "device_offline"
<1>0. D \in Ids /\ D # Battery /\ Battery \in Ids
  BY DEF Ids, Battery
<1>1. CASE job \in Alone \cup AndLook /\ Opened(job) = job
  <2>0. PICK i \in Ids : \E e \in Pending(i) : job = <<e>> \/ \E u \in BOOLEAN : job = <<e, Look(u)>>
    BY <1>1, <1>0 DEF Alone, AndLook, PendingHere
  <2>1. PICK e \in Pending(i) : job = <<e>> \/ \E u \in BOOLEAN : job = <<e, Look(u)>>
    BY <2>0
  <2>2. e \in Steps(i)
    BY PendingSteps
  <2>3. CASE job = <<e>>
    <3>1. job # <<>> /\ Head(job) = e /\ Tail(job) = <<>>
      BY <2>3
    <3> QED BY <3>1, <2>2, <1>1 DEF Rest
  <2>4. ASSUME NEW u \in BOOLEAN, job = <<e, Look(u)>> PROVE Head(job) \in Steps(i) /\ Rest(job) \in Job
    <3> DEFINE x == Look(u)
    <3>1. job # <<>> /\ Head(job) = e /\ Tail(job) = <<x>>
      <4> HIDE DEF x
      <4>1. job = <<e, x>>
        BY <2>4 DEF x
      <4> QED BY <4>1
    <3>2. <<x>> \in Job
      BY DEF Job, Looks
    <3> QED BY <3>1, <3>2, <2>2 DEF Rest
  <2> QED BY <2>1, <2>3, <2>4, <1>1
<1>2. ASSUME NEW d \in Plans(D), Opened(job) = d
      PROVE  (Opened(job) = <<>> \/ \E i \in Ids : Head(Opened(job)) \in Steps(i)) /\ Rest(Opened(job)) \in {<<>>} \cup Job
  BY <1>2, <1>0, PlanRests
<1>3. ObserveAvailable \in Plans(D) /\ ObserveUnavailable \in Plans(D) /\ \A l \in Levels : ObserveBattery(l) \in Plans(Battery)
  <2>1. ASSUME NEW l \in Levels PROVE ObserveAvailable \in Plans(D) /\ ObserveUnavailable \in Plans(D) /\ ObserveBattery(l) \in Plans(Battery)
    BY HandlersPlan
  <2>2. "fine" \in Levels
    BY DEF Levels
  <2> QED BY <2>1, <2>2
<1>4. ASSUME NEW l \in Levels, NEW u \in BOOLEAN, ObserveBattery(l) # <<>>, Opened(job) = ObserveBattery(l) \o <<Look(u)>>
      PROVE  Head(Opened(job)) \in Steps(Battery) /\ Rest(Opened(job)) \in Job
  <2> DEFINE d == ObserveBattery(l)
             k == Look(u)
  <2>1. PICK f \in Steps(Battery) : d = <<f>> \/ \E g \in Pending(Battery) : d = <<f, g>>
    BY <1>0, <1>3, <1>4, PlanSteps
  <2>2. CASE d = <<f>>
    <3>1. Opened(job) = <<f, k>>
      <4> HIDE DEF d, k
      <4> QED BY <1>4, <2>2, Two DEF d, k
    <3>2. Opened(job) # <<>> /\ Head(Opened(job)) = f /\ Tail(Opened(job)) = <<k>>
      <4> HIDE DEF k
      <4> QED BY <3>1
    <3>3. <<k>> \in Job
      BY DEF Job, Looks
    <3> QED BY <3>2, <3>3 DEF Rest
  <2>3. ASSUME NEW g \in Pending(Battery), d = <<f, g>> PROVE Head(Opened(job)) = f /\ Rest(Opened(job)) \in Job
    <3>1. Opened(job) = <<f, g, k>>
      <4> HIDE DEF d, k
      <4> QED BY <1>4, <2>3, Three DEF d, k
    <3>2. Opened(job) # <<>> /\ Head(Opened(job)) = f /\ Tail(Opened(job)) = <<g, k>>
      <4> HIDE DEF k
      <4> QED BY <3>1
    <3>3. <<g, k>> \in Job
      BY DEF Job, AndLook
    <3> QED BY <3>2, <3>3 DEF Rest
  <2> QED BY <2>1, <2>2, <2>3
<1> QED BY <1>0, <1>1, <1>2, <1>3, <1>4, OpenedIs

LEMMA QueuedOK ==
  ASSUME outbox \in Boxes, NEW i \in Ids, NEW w \in Words, NEW r \in Nat
  PROVE  Queued(Tell(i, w, r)) \in Boxes
<1> DEFINE e == [id |-> i, state |-> w, revision |-> r]
           t == Tell(i, w, r)
           box == Append(outbox, e)
<1>1. e \in Envelope
  BY DEF Envelope
<1>2. t.id = i /\ t.state = w /\ t.revision = r
  BY DEF Tell
<1>3. box \in Boxes /\ Len(box) = Len(outbox) + 1 /\ Len(outbox) \in Nat
  <2> HIDE DEF e
  <2> QED BY <1>1, AppendProperties, LenProperties DEF Boxes
<1>4. Tail(box) \in Boxes
  <2>1. box # <<>>
    <3> HIDE DEF box
    <3>1. Len(box) # 0
      BY <1>3
    <3>2. Len(<<>>) = 0
      OBVIOUS
    <3> QED BY <3>1, <3>2
  <2> QED BY <1>3, <2>1, HeadTailProperties DEF Boxes
<1>5. Queued(t) = IF Masked(t) THEN outbox ELSE IF Len(box) > MaxOutbox THEN Tail(box) ELSE box
  <2> HIDE DEF t
  <2> QED BY <1>2 DEF Queued
<1> HIDE DEF box, t
<1> QED BY <1>3, <1>4, <1>5 DEF t

\* What a step leaves of the incidents, the outbox and the slips is of its kind.
Landed ==
  /\ active' \in [Ids -> Incident] /\ \A j \in Ids : active'[j] \in Case(j)
  /\ outbox' \in Boxes /\ recent' \subseteq Ids \X Words /\ slips' \in Slips

LEMMA PerformsOK ==
  ASSUME IncidentsOK, NEW i \in Ids, NEW o, o = <<>> \/ Head(o) \in Steps(i), NEW also \in SUBSET Ids, Performs(o, also)
  PROVE  Landed
<1> USE DEF IncidentsOK, Landed
<1>1. CASE o = <<>>
  <2>1. slips' = [slips EXCEPT !.overtaken = @ \cup also] /\ UNCHANGED <<active, outbox, recent>>
    BY <1>1 DEF Performs
  <2>2. slips' \in Slips
    BY <2>1 DEF Slips
  <2> QED BY <2>1, <2>2
<1>2. ASSUME NEW v \in Case(i), NEW a \in Case(i), o # <<>>, Head(o) = Save(i, v, a) PROVE Landed
  <2> DEFINE e == Save(i, v, a)
  <2>1. e.do = "save" /\ e.id = i /\ e.value = v /\ e.read = a
    BY DEF Save
  <2> HIDE DEF e
  <2>2. Saves(e, also)
    BY <1>2, <2>1 DEF Performs, Tells, e
  <2>3. active' = [active EXCEPT ![i] = v] /\ UNCHANGED <<outbox, recent>>
    BY <2>1, <2>2 DEF Saves
  <2>4. slips' = [slips EXCEPT !.overtaken = @ \cup also, !.stale = @ \cup {j \in {i} : active[j] # e.read}]
    BY <2>1, <2>2 DEF Saves
  <2>5. slips' \in Slips
    BY <2>4 DEF Slips
  <2>6. v \in Incident
    BY DEF Case
  <2> QED BY <2>3, <2>5, <2>6
<1>3. ASSUME NEW w \in Words, NEW r \in Nat, o # <<>>, Head(o) = Tell(i, w, r) PROVE Landed
  <2> DEFINE e == Tell(i, w, r)
  <2>1. e.do = "tell" /\ e.id = i /\ e.state = w /\ e.revision = r
    BY DEF Tell
  <2>2. Queued(e) \in Boxes
    BY QueuedOK
  <2> HIDE DEF e
  <2>3. Tells(e, also)
    BY <1>3, <2>1 DEF Performs, Saves, e
  <2>4. outbox' \in Boxes /\ active' = active /\ recent' = recent \cup {<<i, w>>}
    BY <2>1, <2>2, <2>3 DEF Tells
  <2>5. \E lost \in SUBSET Ids, unheard \in SUBSET Ids :
          slips' = [slips EXCEPT !.overtaken = @ \cup also, !.untold = (@ \ {e.id}) \cup lost \cup unheard]
    <3>1. PICK again \in {FALSE, (<<e.id, e.state>> \in recent)} :
            LET lost == {j \in Ids : Len(outbox) = MaxOutbox /\ outbox' # outbox /\ Head(outbox).id = j}
                unheard == {j \in {e.id} : (again \/ Masked(e)) /\ LastWord(outbox, j, "none") # e.state}
            IN slips' = [slips EXCEPT !.overtaken = @ \cup also, !.untold = (@ \ {e.id}) \cup lost \cup unheard]
      BY <2>3 DEF Tells
    <3> DEFINE lost == {j \in Ids : Len(outbox) = MaxOutbox /\ outbox' # outbox /\ Head(outbox).id = j}
               unheard == {j \in {e.id} : (again \/ Masked(e)) /\ LastWord(outbox, j, "none") # e.state}
    <3>2. lost \in SUBSET Ids /\ unheard \in SUBSET Ids
      BY <2>1
    <3> HIDE DEF lost, unheard
    <3>3. slips' = [slips EXCEPT !.overtaken = @ \cup also, !.untold = (@ \ {e.id}) \cup lost \cup unheard]
      BY <3>1 DEF lost, unheard
    <3> QED BY <3>2, <3>3
  <2>6. slips' \in Slips
    <3>1. PICK lost \in SUBSET Ids, unheard \in SUBSET Ids :
            slips' = [slips EXCEPT !.overtaken = @ \cup also, !.untold = (@ \ {e.id}) \cup lost \cup unheard]
      BY <2>5
    <3> DEFINE untold == (slips.untold \ {e.id}) \cup lost \cup unheard
               overtaken == slips.overtaken \cup also
    <3>2. slips \in Slips /\ untold \in SUBSET Ids /\ overtaken \in SUBSET Ids
      BY DEF IncidentsOK, Slips
    <3>3. slips' = [slips EXCEPT !.overtaken = overtaken, !.untold = untold]
      BY <3>1
    <3> HIDE DEF untold, overtaken
    <3> QED BY <3>2, <3>3 DEF Slips
  <2>7. <<i, w>> \in Ids \X Words
    OBVIOUS
  <2> QED BY <2>4, <2>6, <2>7
<1>4. Head(o) \in Steps(i) => (\E v \in Case(i), a \in Case(i) : Head(o) = Save(i, v, a)) \/ \E w \in Words, r \in Nat : Head(o) = Tell(i, w, r)
  BY DEF Steps
<1> QED BY <1>1, <1>2, <1>3, <1>4

LEMMA JobStepOK ==
  ASSUME IncidentsOK, NEW k \in DOMAIN jobs, JobStep(k)
  PROVE  IncidentsOK' /\ jobs' = After(k, Rest(Opened(jobs[k])))
<1> DEFINE job == Opened(jobs[k])
           also == IF Reads(jobs[k]) /\ \E j \in 1..k-1 : Reads(jobs[j]) THEN {"device_offline", "battery_critical"} ELSE {}
<1>1. jobs[k] \in Job /\ jobs \in Seq(Job)
  BY LenProperties DEF IncidentsOK
<1>2. Performs(job, also) /\ UNCHANGED <<home, sweep, hour>>
      /\ jobs' = SubSeq(jobs, 1, k - 1) \o With(Rest(job)) \o SubSeq(jobs, k + 1, Len(jobs))
  BY DEF JobStep
<1>3. Rest(job) \in Job \cup {<<>>} /\ (job = <<>> \/ \E i \in Ids : Head(job) \in Steps(i))
  BY <1>1, OpenedOK
<1>4. jobs' = After(k, Rest(job)) /\ jobs' \in Seq(Job)
  BY <1>1, <1>2, <1>3, JobsAfter
<1>5. also \in SUBSET Ids
  BY DEF Ids
<1>6. Landed
  <2>1. PICK i \in Ids : job = <<>> \/ Head(job) \in Steps(i)
    BY <1>3 DEF Ids
  <2> HIDE DEF job, also
  <2> QED BY <2>1, <1>2, <1>5, PerformsOK
<1> HIDE DEF job
<1>7. IncidentsOK'
  BY <1>2, <1>4, <1>6 DEF IncidentsOK, Landed
<1> QED BY <1>4, <1>7 DEF job

LEMMA IntegrationCheckedOK ==
  ASSUME IncidentsOK, IntegrationChecked
  PROVE  IncidentsOK'
<1> DEFINE i == "integration_offline"
           job == ObserveIntegration(home.healthy)
<1>1. i \in Ids /\ i # Battery /\ home.healthy \in BOOLEAN
  BY DEF Ids, Battery, IncidentsOK, Home
<1>2. job \in Plans(i)
  <2>1. "fine" \in Levels
    BY DEF Levels
  <2> QED BY <1>1, <2>1, HandlersPlan
<1>3. (job = <<>> \/ Head(job) \in Steps(i)) /\ Rest(job) \in {<<>>} \cup Job
  BY <1>1, <1>2, PlanRests
<1>4. jobs' = jobs \o With(Rest(job)) /\ Performs(job, {}) /\ UNCHANGED <<home, sweep, hour>>
  BY DEF IntegrationChecked
<1>5. With(Rest(job)) \in Seq(Job)
  BY <1>3 DEF With
<1>6. jobs' \in Seq(Job)
  BY <1>4, <1>5, ConcatProperties DEF IncidentsOK
<1>7. Landed
  <2> HIDE DEF job
  <2> QED BY <1>1, <1>3, <1>4, PerformsOK
<1> QED BY <1>4, <1>6, <1>7 DEF IncidentsOK, Landed

LEMMA DeviceChangesOK ==
  ASSUME IncidentsOK, NEW up \in BOOLEAN, NEW level \in Levels, DeviceChanges(up, level)
  PROVE  IncidentsOK'
<1> DEFINE job == (IF level # home.battery THEN <<Measure(level)>> ELSE <<>>) \o <<Look(up)>>
<1>1. job \in Job
  <2> DEFINE m == Measure(level)
             k == Look(up)
  <2>1. CASE level # home.battery
    <3>1. <<m>> \o <<k>> = <<m, k>>
      <4> HIDE DEF m, k
      <4> QED BY Two
    <3> QED BY <2>1, <3>1 DEF Job, Measures
  <2>2. CASE level = home.battery
    <3>1. <<>> \o <<k>> = <<k>>
      <4> HIDE DEF k
      <4> QED OBVIOUS
    <3> QED BY <2>2, <3>1 DEF Job, Looks
  <2> QED BY <2>1, <2>2
<1>2. jobs' = Append(jobs, job) /\ home' = [home EXCEPT !.up = up, !.battery = level] /\ UNCHANGED <<active, outbox, sweep, recent, hour, slips>>
  BY DEF DeviceChanges
<1>3. jobs' \in Seq(Job)
  <2> HIDE DEF job
  <2> QED BY <1>1, <1>2, AppendProperties DEF IncidentsOK
<1>4. home' \in Home
  BY <1>2 DEF IncidentsOK, Home
<1> HIDE DEF job
<1> QED BY <1>2, <1>3, <1>4 DEF IncidentsOK

LEMMA SweepBeginsOK ==
  ASSUME IncidentsOK, SweepBegins
  PROVE  IncidentsOK'
<1> DEFINE todo == {<<i, active[i]>> : i \in {x \in Ids : active[x].state # "none"}}
<1>1. sweep' = [Asleep EXCEPT !.todo = todo, !.now = hour] /\ UNCHANGED <<home, active, outbox, jobs, recent, hour, slips>>
  BY DEF SweepBegins
<1>2. sweep' = [todo |-> todo, doing |-> <<>>, now |-> hour]
  BY <1>1 DEF Asleep
<1>3. todo \in SUBSET (Ids \X Incident) /\ \A t \in todo : t[2] \in Case(t[1])
  BY DEF IncidentsOK
<1> HIDE DEF todo
<1> QED BY <1>1, <1>2, <1>3 DEF IncidentsOK

LEMMA SweepStepOK ==
  ASSUME IncidentsOK, SweepStep
  PROVE  IncidentsOK'
<1> USE DEF IncidentsOK
<1>1. ASSUME NEW todo \in SUBSET sweep.todo, NEW doing \in {<<>>} \cup Alone, sweep' = SweepRests(todo, doing)
      PROVE  /\ sweep' \in [todo : SUBSET (Ids \X Incident), doing : {<<>>} \cup Alone, now : Nat]
             /\ \A t \in sweep'.todo : t[2] \in Case(t[1])
  <2>1. CASE todo = {} /\ doing = <<>>
    BY <1>1, <2>1 DEF SweepRests, Asleep
  <2>2. CASE ~(todo = {} /\ doing = <<>>)
    <3>1. sweep' = [sweep EXCEPT !.todo = todo, !.doing = doing]
      BY <1>1, <2>2 DEF SweepRests
    <3> QED BY <3>1
  <2> QED BY <2>1, <2>2
<1>2. ASSUME sweep.doing # <<>>, sweep' = SweepRests(sweep.todo, Tail(sweep.doing)), Performs(sweep.doing, {}) PROVE IncidentsOK'
  <2>1. PICK i \in Ids : \E e \in Pending(i) : sweep.doing = <<e>>
    BY <1>2 DEF Alone, PendingHere
  <2>2. PICK e \in Pending(i) : sweep.doing = <<e>>
    BY <2>1
  <2>3. Head(sweep.doing) \in Steps(i) /\ Tail(sweep.doing) = <<>>
    BY <2>2, PendingSteps
  <2>4. /\ sweep' \in [todo : SUBSET (Ids \X Incident), doing : {<<>>} \cup Alone, now : Nat]
        /\ \A t \in sweep'.todo : t[2] \in Case(t[1])
    BY <1>1, <1>2, <2>3
  <2>5. Landed
    BY <1>2, <2>3, PerformsOK
  <2>6. UNCHANGED <<home, jobs, hour>>
    BY DEF SweepStep
  <2> QED BY <2>4, <2>5, <2>6 DEF Landed
<1>3. ASSUME NEW t \in sweep.todo, sweep' = SweepRests(sweep.todo \ {t}, Rest(Sweep(t[1], t[2], sweep.now))),
             Performs(Sweep(t[1], t[2], sweep.now), {}) PROVE IncidentsOK'
  <2> DEFINE i == t[1]
             d == Sweep(t[1], t[2], sweep.now)
  <2>1. i \in Ids /\ t[2] \in Case(i) /\ sweep.now \in Nat
    OBVIOUS
  <2>2. d \in Plans(i) /\ (i = Battery => d = <<>>)
    BY <2>1, SweepPlans
  <2>3. (d = <<>> \/ Head(d) \in Steps(i)) /\ Rest(d) \in {<<>>} \cup Alone
    <3>1. CASE i = Battery
      BY <2>2, <3>1 DEF Rest
    <3>2. CASE i # Battery
      <4> HIDE DEF d
      <4> QED BY <2>1, <2>2, <3>2, PlanRests
    <3> QED BY <3>1, <3>2
  <2>4. /\ sweep' \in [todo : SUBSET (Ids \X Incident), doing : {<<>>} \cup Alone, now : Nat]
        /\ \A x \in sweep'.todo : x[2] \in Case(x[1])
    <3>1. sweep.todo \ {t} \in SUBSET sweep.todo
      OBVIOUS
    <3> HIDE DEF d
    <3> QED BY <1>1, <1>3, <2>3, <3>1 DEF d
  <2>5. Landed
    <3> HIDE DEF d
    <3> QED BY <1>3, <2>1, <2>3, PerformsOK DEF d
  <2>6. UNCHANGED <<home, jobs, hour>>
    BY DEF SweepStep
  <2> QED BY <2>4, <2>5, <2>6 DEF Landed
<1> QED BY <1>2, <1>3 DEF SweepStep

Row == [epoch : Nat, lamp : Lamps \cup {Boiler}, seconds : [Values -> Nat]]
Counter == [lamp : Lamps \cup {Boiler}, area : Areas \cup {NoArea}, seconds : [Values -> Nat], was : Values,
            retired : BOOLEAN, dirty : BOOLEAN, epoch : Nat]
Trackers == [live : SUBSET Counter, pending : SUBSET Counter, reset : Nat, ack : Nat]
Links == [paired : BOOLEAN, attempt : Nat, seen : Nat]

Handshakes == {"challenged", "proved", "kept", "acknowledged"}
Uploads == {"sent", "answered", "saving", "saved"}
Phases == {"idle", "pairing", "paired"} \cup Handshakes \cup Uploads
Call == [pc : Phases, attempt : Nat, credential : Nat, seen : Nat, latest : Nat, reset : Nat,
         rows : SUBSET Row, heated : SUBSET Row, ack : Nat, heatAck : Nat, sent : Boxes]
Files == [link : Links, electric : Trackers, heat : Trackers, active : [Ids -> Incident], outbox : Boxes]
Clouds == [credential : Nat, issued : Nat, latest : Nat, published : Nat, reset : Nat,
           rows : [0..MaxEpochs -> [Values -> Nat]], told : [Ids -> Words]]
Pasts == [counted : [0..MaxEpochs -> [Values -> Nat]], unsent : SUBSET Nat, epochs : Nat, raced : BOOLEAN]

PairingOK ==
  /\ link \in Links /\ vault \in Nat /\ syncing \in BOOLEAN /\ backoff \in BOOLEAN
  /\ syncs \in [Syncs -> Call]

TypeOK ==
  /\ IncidentsOK
  /\ PairingOK
  /\ electric \in Trackers /\ heat \in Trackers
  /\ disk \in Files /\ \A i \in Ids : disk.active[i] \in Case(i)
  /\ cloud \in Clouds
  /\ past \in Pasts

(***************************************************************************)
(* Trackers.                                                                *)
(***************************************************************************)
LEMMA AccruedOK ==
  ASSUME NEW e \in Counter, NEW elapsed \in Nat
  PROVE  Accrued(e, elapsed) \in Counter /\ Accrued(e, elapsed).epoch = e.epoch /\ Accrued(e, elapsed).lamp = e.lamp
<1> DEFINE seconds == IF elapsed < MaxInterval THEN elapsed ELSE MaxInterval
           value == IF seconds > UnknownGap THEN "unknown" ELSE e.was
           now == [e.seconds EXCEPT ![value] = @ + seconds]
<1>1. seconds \in Nat /\ MaxInterval \in Nat
  BY UsageAssumption
<1>2. value \in Values
  BY DEF Counter, Values
<1>3. now \in [Values -> Nat]
  <2> HIDE DEF seconds, value
  <2> QED BY <1>1, <1>2 DEF Counter
<1>4. Accrued(e, elapsed) = [e EXCEPT !.seconds = now]
  BY DEF Accrued, Counter
<1> HIDE DEF now
<1> QED BY <1>3, <1>4 DEF Counter

LEMMA EntryOK ==
  ASSUME NEW lamp \in Lamps \cup {Boiler}, NEW area \in Areas \cup {NoArea}, NEW value \in Values, NEW epoch \in Nat
  PROVE  Entry(lamp, area, value, epoch) \in Counter /\ Entry(lamp, area, value, epoch).epoch = epoch
         /\ Entry(lamp, area, value, epoch).dirty /\ Entry(lamp, area, value, epoch).seconds = Zero
<1>1. Zero \in [Values -> Nat]
  BY DEF Zero
<1> QED BY <1>1 DEF Entry, Counter

LEMMA ObservedOK ==
  ASSUME NEW T \in Trackers, NEW lamp \in Lamps, NEW area \in Areas, NEW value \in Values, NEW elapsed \in Nat, NEW epoch \in Nat
  PROVE  Observed(T, lamp, area, value, elapsed, epoch) \in Trackers
<1> DEFINE old == Of(T, lamp)
           moved == {e \in old : e.area # area /\ ~e.retired}
           kept == {[Accrued(e, elapsed) EXCEPT !.area = area, !.was = value, !.retired = FALSE, !.dirty = TRUE] : e \in old \ moved}
           new == IF moved # {} \/ (old = {} /\ Cardinality(T.live) < MaxTracked) THEN {Entry(lamp, area, value, epoch)} ELSE {}
           closed == {[Accrued(e, elapsed) EXCEPT !.retired = TRUE, !.dirty = TRUE] : e \in moved}
<1>1. old \subseteq Counter /\ old \subseteq T.live /\ T.live \subseteq Counter /\ T.pending \subseteq Counter
  BY DEF Of, Trackers
<1>2. kept \subseteq Counter
  <2>1. ASSUME NEW e \in Counter, NEW a \in Counter
        PROVE [a EXCEPT !.area = area, !.was = value, !.retired = FALSE, !.dirty = TRUE] \in Counter
    BY DEF Counter
  <2> QED BY <2>1, <1>1, AccruedOK
<1>3. closed \subseteq Counter
  <2>1. ASSUME NEW e \in Counter, NEW a \in Counter
        PROVE [a EXCEPT !.retired = TRUE, !.dirty = TRUE] \in Counter
    BY DEF Counter
  <2> QED BY <2>1, <1>1, AccruedOK
<1>4. new \subseteq Counter
  BY EntryOK
<1>5. Observed(T, lamp, area, value, elapsed, epoch) = [T EXCEPT !.live = (@ \ old) \cup kept \cup new, !.pending = @ \cup closed]
  BY DEF Observed
<1> HIDE DEF old, kept, new, closed
<1> QED BY <1>1, <1>2, <1>3, <1>4, <1>5 DEF Trackers

LEMMA RetiredOK ==
  ASSUME NEW T \in Trackers, NEW lamp \in Lamps, NEW elapsed \in Nat
  PROVE  Retired(T, lamp, elapsed) \in Trackers
<1> DEFINE gone == {e \in Of(T, lamp) : ~e.retired}
           closed == {[Accrued(e, elapsed) EXCEPT !.retired = TRUE, !.dirty = TRUE] : e \in gone}
<1>1. gone \subseteq Counter /\ T.live \subseteq Counter
  BY DEF Of, Trackers
<1>2. closed \subseteq Counter
  <2>1. ASSUME NEW e \in Counter, NEW a \in Counter
        PROVE [a EXCEPT !.retired = TRUE, !.dirty = TRUE] \in Counter
    BY DEF Counter
  <2> QED BY <2>1, <1>1, AccruedOK
<1>3. Retired(T, lamp, elapsed) = [T EXCEPT !.live = (@ \ gone) \cup closed]
  BY DEF Retired
<1> HIDE DEF gone, closed
<1> QED BY <1>1, <1>2, <1>3 DEF Trackers

LEMMA HeatedOK ==
  ASSUME NEW T \in Trackers, NEW value \in Values, NEW elapsed \in Nat
  PROVE  Heated(T, Boiler, value, elapsed) \in Trackers
<1> DEFINE old == Of(T, Boiler)
           seconds == IF elapsed < MaxInterval THEN elapsed ELSE MaxInterval
           kept == {[e EXCEPT !.seconds[e.was] = @ + seconds, !.was = value, !.dirty = TRUE] : e \in old}
           now == IF old = {} THEN {Entry(Boiler, NoArea, value, 0)} ELSE kept
<1>1. old \subseteq Counter /\ T.live \subseteq Counter /\ seconds \in Nat
  BY UsageAssumption DEF Of, Trackers
<1>2. kept \subseteq Counter
  <2>1. ASSUME NEW e \in Counter
        PROVE  [e EXCEPT !.seconds[e.was] = @ + seconds, !.was = value, !.dirty = TRUE] \in Counter
    <3> HIDE DEF seconds
    <3> DEFINE n == [e.seconds EXCEPT ![e.was] = @ + seconds]
    <3>1. n \in [Values -> Nat]
      BY <1>1 DEF Counter
    <3>2. [e EXCEPT !.seconds[e.was] = @ + seconds, !.was = value, !.dirty = TRUE] = [e EXCEPT !.seconds = n, !.was = value, !.dirty = TRUE]
      BY DEF Counter
    <3> HIDE DEF n
    <3> QED BY <3>1, <3>2 DEF Counter
  <2> HIDE DEF seconds
  <2> QED BY <2>1, <1>1
<1>3. {Entry(Boiler, NoArea, value, 0)} \subseteq Counter
  BY EntryOK
<1>4. Heated(T, Boiler, value, elapsed) = [T EXCEPT !.live = (@ \ old) \cup now]
  BY DEF Heated
<1>5. now \subseteq Counter
  BY <1>2, <1>3
<1> HIDE DEF now
<1> QED BY <1>1, <1>5, <1>4 DEF Trackers

LEMMA PayloadOK ==
  ASSUME NEW T \in Trackers
  PROVE  Payload(T) \in SUBSET Row
BY DEF Payload, Trackers, Row, Counter

LEMMA AcknowledgedOK ==
  ASSUME NEW T \in Trackers, NEW rows, NEW reset \in Nat
  PROVE  /\ Acknowledged(T, rows) \in Trackers
         /\ ResetApplied(T, reset) \in Trackers
         /\ ResetAcknowledged(T, reset) \in Trackers
         /\ Tracker \in Trackers
<1>1. Acknowledged(T, rows) \in Trackers
  <2> DEFINE done == {e \in T.live \cup T.pending : e.dirty /\ InRows(e, rows)}
             clean == {[e EXCEPT !.dirty = FALSE] : e \in {x \in T.live \cap done : ~x.retired}}
  <2>1. T.live \subseteq Counter /\ T.pending \subseteq Counter
    BY DEF Trackers
  <2>2. clean \subseteq Counter
    <3>1. ASSUME NEW e \in Counter PROVE [e EXCEPT !.dirty = FALSE] \in Counter
      BY DEF Counter
    <3> QED BY <3>1, <2>1
  <2>3. Acknowledged(T, rows) = [T EXCEPT !.pending = @ \ done, !.live = (@ \ done) \cup clean]
    BY DEF Acknowledged
  <2> HIDE DEF done, clean
  <2> QED BY <2>1, <2>2, <2>3 DEF Trackers
<1>2. Tracker \in Trackers
  BY DEF Tracker, Trackers
<1>3. ResetApplied(T, reset) \in Trackers
  BY <1>2 DEF ResetApplied, Tracker, Trackers
<1>4. ResetAcknowledged(T, reset) \in Trackers
  BY DEF ResetAcknowledged, Trackers
<1> QED BY <1>1, <1>2, <1>3, <1>4

LEMMA CountedOK ==
  ASSUME past \in Pasts, NEW E \in Trackers, NEW H \in Trackers, Counted(E, H)
  PROVE  past' \in Pasts
<1> DEFINE all == E.live \cup E.pending \cup H.live
           dirty == {e.epoch : e \in {x \in all : x.dirty}}
           counted == [k \in DOMAIN past.counted |-> IF \E e \in all : e.epoch = k
                                                      THEN (CHOOSE e \in all : e.epoch = k).seconds ELSE past.counted[k]]
           epochs == IF \E e \in E.live : e.epoch > past.epochs THEN past.epochs + 1 ELSE past.epochs
<1>1. all \subseteq Counter
  BY DEF Trackers
<1>2. counted \in [0..MaxEpochs -> [Values -> Nat]]
  <2>1. past.counted \in [0..MaxEpochs -> [Values -> Nat]]
    BY DEF Pasts
  <2>2. ASSUME NEW k \in 0..MaxEpochs, \E e \in all : e.epoch = k PROVE (CHOOSE e \in all : e.epoch = k).seconds \in [Values -> Nat]
    <3>1. (CHOOSE e \in all : e.epoch = k) \in all
      BY <2>2
    <3> QED BY <3>1, <1>1 DEF Counter
  <2> HIDE DEF all
  <2> QED BY <2>1, <2>2
<1>3. epochs \in Nat
  BY DEF Pasts
<1>4. past' = [past EXCEPT !.counted = counted, !.unsent = @ \ dirty, !.epochs = epochs]
  BY DEF Counted, Pasts
<1> HIDE DEF counted, dirty, epochs
<1> QED BY <1>2, <1>3, <1>4 DEF Pasts

LEMMA SetCall ==
  ASSUME syncs \in [Syncs -> Call], NEW s \in Syncs, NEW c \in Call, syncs' = [syncs EXCEPT ![s] = c]
  PROVE  syncs' \in [Syncs -> Call]
OBVIOUS

LEMMA QuietOK ==
  Quiet \in Call
BY DEF Quiet, Call, Phases, Boxes

LEMMA TypeInit ==
  ASSUME Init
  PROVE  TypeOK
<1> DEFINE old == budget["updated"] > 0
<1>1. IncidentsInit(old) /\ old \in BOOLEAN
  BY DEF Init
<1> HIDE DEF old
<1>2. /\ link = [paired |-> budget["attempts"] = 0, attempt |-> 0, seen |-> 0]
      /\ vault = 0 /\ syncing = FALSE /\ backoff = FALSE
      /\ syncs = [s \in Syncs |-> Quiet]
      /\ electric = Tracker /\ heat = Tracker
      /\ disk = Stored
      /\ cloud = [credential |-> 0, issued |-> 0, latest |-> 0, published |-> 0, reset |-> 0,
                  rows |-> [k \in 0..MaxEpochs |-> Zero], told |-> [i \in Ids |-> "resolved"]]
      /\ past = [counted |-> [k \in 0..MaxEpochs |-> Zero], unsent |-> {}, epochs |-> 0, raced |-> FALSE]
  BY DEF Init
<1>3. IncidentsOK
  <2>1. home \in Home
    BY <1>1 DEF IncidentsInit, Home, Levels
  <2> DEFINE a == [Absent EXCEPT !.state = "open", !.revision = 1]
  <2>2. a \in Case("device_offline") /\ \A i \in Ids : Absent \in Case(i) /\ Absent \in Incident
    BY DEF Absent, Case, Incident, States, Battery
  <2>3. active = [i \in Ids |-> IF old /\ i = "device_offline" THEN a ELSE Absent]
    BY <1>1 DEF IncidentsInit
  <2>4. active \in [Ids -> Incident] /\ \A i \in Ids : active[i] \in Case(i)
    <3> HIDE DEF a
    <3>1. a \in Incident
      BY <2>2 DEF Case
    <3> QED BY <2>2, <2>3, <3>1
  <2>5. outbox \in Boxes
    <3> DEFINE e == [id |-> "device_offline", state |-> "open", revision |-> 1]
    <3>1. e \in Envelope
      BY DEF Envelope, Ids, Words
    <3>2. outbox = IF old THEN <<e>> ELSE <<>>
      BY <1>1 DEF IncidentsInit
    <3> HIDE DEF e
    <3> QED BY <3>1, <3>2 DEF Boxes
  <2>6. jobs \in Seq(Job) /\ hour \in Nat /\ recent \subseteq Ids \X Words
    BY <1>1 DEF IncidentsInit
  <2>7. /\ sweep \in [todo : SUBSET (Ids \X Incident), doing : {<<>>} \cup Alone, now : Nat]
        /\ \A t \in sweep.todo : t[2] \in Case(t[1])
    BY <1>1 DEF IncidentsInit, Asleep
  <2>8. slips \in Slips
    BY <1>1 DEF IncidentsInit, Slips
  <2> QED BY <2>1, <2>4, <2>5, <2>6, <2>7, <2>8 DEF IncidentsOK
<1>4. Zero \in [Values -> Nat] /\ Tracker \in Trackers
  BY DEF Zero, Tracker, Trackers
<1>5. link \in Links
  BY <1>2 DEF Links
<1>6. PairingOK
  BY <1>2, <1>5, QuietOK DEF PairingOK
<1>7. disk \in Files /\ \A i \in Ids : disk.active[i] \in Case(i)
  BY <1>2, <1>3, <1>4, <1>5 DEF Stored, Files, IncidentsOK
<1>8. cloud \in Clouds
  BY <1>2, <1>4 DEF Clouds, Words
<1>9. past \in Pasts
  BY <1>2, <1>4 DEF Pasts
<1> QED BY <1>2, <1>3, <1>4, <1>6, <1>7, <1>8, <1>9 DEF TypeOK

LEMMA UsageTypes ==
  ASSUME TypeOK, Observations
  PROVE  TypeOK'
<1> USE DEF TypeOK
<1>0. Elapsed \subseteq Nat /\ Seen \subseteq Values /\ past.epochs + 1 \in Nat
  BY PlatformAssumption DEF Pasts
<1>1. ASSUME NEW l \in Lamps, NEW t \in Elapsed, LampRetired(l, t) PROVE TypeOK'
  <2>1. electric' \in Trackers
    BY <1>0, <1>1, RetiredOK DEF LampRetired
  <2>2. past' \in Pasts
    BY <1>1, <2>1, CountedOK DEF LampRetired
  <2>3. UNCHANGED <<incidents, pairingVars, heat, disk, cloud>>
    BY <1>1 DEF LampRetired
  <2> QED BY <2>1, <2>2, <2>3 DEF IncidentsOK, PairingOK, incidents, pairingVars
<1>2. ASSUME NEW l \in Lamps, NEW t \in Elapsed, NEW a \in Areas, NEW v \in Seen, LampObserved(l, a, v, t) PROVE TypeOK'
  <2>1. electric' \in Trackers
    <3>1. v \in Values /\ t \in Nat /\ past.epochs + 1 \in Nat
      BY <1>0
    <3> QED BY <1>2, <3>1, ObservedOK DEF LampObserved
  <2>2. past' \in Pasts
    BY <1>2, <2>1, CountedOK DEF LampObserved
  <2>3. UNCHANGED <<incidents, pairingVars, heat, disk, cloud>>
    BY <1>2 DEF LampObserved
  <2> QED BY <2>1, <2>2, <2>3 DEF IncidentsOK, PairingOK, incidents, pairingVars
<1>3. ASSUME NEW v \in Seen, NEW t \in Elapsed, BoilerObserved(v, t) PROVE TypeOK'
  <2>1. heat' \in Trackers
    <3>1. v \in Values /\ t \in Nat
      BY <1>0
    <3> QED BY <1>3, <3>1, HeatedOK DEF BoilerObserved
  <2>2. past' \in Pasts
    BY <1>3, <2>1, CountedOK DEF BoilerObserved
  <2>3. UNCHANGED <<incidents, pairingVars, electric, disk, cloud>>
    BY <1>3 DEF BoilerObserved
  <2> QED BY <2>1, <2>2, <2>3 DEF IncidentsOK, PairingOK, incidents, pairingVars
<1> QED BY <1>1, <1>2, <1>3 DEF Observations

LEMMA IncidentTypes ==
  ASSUME TypeOK, Jobs \/ Checks \/ Sweeps \/ Hours \/ Changes
  PROVE  TypeOK'
<1>1. Elsewhere
  BY DEF Jobs, Checks, Sweeps, Hours, Changes
<1>2. IncidentsOK
  BY DEF TypeOK
<1>3. IncidentsOK'
  <2>1. CASE Jobs
    BY <2>1, <1>2, JobStepOK DEF Jobs
  <2>2. CASE Checks
    BY <2>2, <1>2, IntegrationCheckedOK DEF Checks
  <2>3. CASE Sweeps
    BY <2>3, <1>2, SweepBeginsOK, SweepStepOK DEF Sweeps
  <2>4. CASE Hours
    BY <2>4, <1>2 DEF Hours, HourPasses, IncidentsOK
  <2>5. CASE Changes
    <3>1. home.up \in BOOLEAN /\ home.battery \in Levels /\ (~home.up) \in BOOLEAN
      BY <1>2 DEF IncidentsOK, Home
    <3>2. ASSUME DeviceChanges(~home.up, home.battery) PROVE IncidentsOK'
      BY <3>1, <3>2, <1>2, DeviceChangesOK
    <3>3. ASSUME NEW l \in Levels, DeviceChanges(home.up, l) PROVE IncidentsOK'
      BY <3>1, <3>3, <1>2, DeviceChangesOK
    <3>4. ASSUME IntegrationChanges PROVE IncidentsOK'
      <4>1. home' \in Home
        BY <3>4, <1>2 DEF IntegrationChanges, IncidentsOK, Home
      <4> QED BY <3>4, <4>1, <1>2 DEF IntegrationChanges, IncidentsOK
    <3> QED BY <2>5, <3>2, <3>3, <3>4 DEF Changes
  <2> QED BY <2>1, <2>2, <2>3, <2>4, <2>5
<1> QED BY <1>1, <1>3 DEF TypeOK, PairingOK, Elsewhere, pairingVars, usage

LEMMA CallTypes ==
  ASSUME TypeOK, NEW s \in Syncs, SyncStep(s) \/ HandshakeFails(s) \/ SyncFails(s), ~Served(s), ~SyncEnds(s)
  PROVE  TypeOK'
<1> USE DEF TypeOK
<1> DEFINE me == syncs[s]
<1>1. me \in Call /\ syncs \in [Syncs -> Call] /\ link \in Links /\ cloud \in Clouds /\ past \in Pasts
  BY DEF PairingOK
<1>2. Sent \in Call
  <2>1. Payload(electric) \in SUBSET Row /\ Payload(heat) \in SUBSET Row
    BY PayloadOK
  <2>2. outbox \in Boxes /\ link.seen \in Nat /\ electric.ack \in Nat /\ heat.ack \in Nat
    BY <1>1 DEF IncidentsOK, Links, Trackers
  <2> QED BY <2>1, <2>2, QuietOK DEF Sent, Quiet, Call, Phases, Uploads
<1>3. CASE SyncCalled(s)
  <2>1. UNCHANGED <<incidents, usage, disk, cloud, budget>> /\ Calls(s)
    BY <1>3 DEF SyncCalled
  <2>2. CASE Begins(s) /\ UNCHANGED past
    BY <2>1, <2>2, <1>1, <1>2, SetCall DEF Begins, PairingOK, incidents, IncidentsOK, usage
  <2>3. CASE ~(Begins(s) /\ UNCHANGED past)
    <3>1. /\ syncs' = [syncs EXCEPT ![s] = [Quiet EXCEPT !.pc = "challenged", !.attempt = link.attempt]]
          /\ past' = [past EXCEPT !.raced = @ \/ \E o \in Syncs : syncs[o].pc # "idle"]
          /\ UNCHANGED <<link, vault, syncing, backoff>>
      BY <2>1, <2>3 DEF Calls
    <3>2. [Quiet EXCEPT !.pc = "challenged", !.attempt = link.attempt] \in Call
      BY <1>1, QuietOK DEF Quiet, Call, Links, Phases, Handshakes
    <3>3. past' \in Pasts
      BY <3>1, <1>1 DEF Pasts
    <3>4. syncs' \in [Syncs -> Call]
      BY <3>1, <3>2, <1>1
    <3> QED BY <2>1, <3>1, <3>3, <3>4 DEF PairingOK, incidents, IncidentsOK, usage
  <2> QED BY <2>2, <2>3
<1>4. CASE Proved(s)
  <2>1. [me EXCEPT !.pc = "proved", !.credential = cloud.issued + 1] \in Call
    <3> DEFINE n == cloud.issued + 1
    <3>1. n \in Nat
      BY <1>1 DEF Clouds
    <3> HIDE DEF n
    <3>2. [me EXCEPT !.pc = "proved", !.credential = n] \in Call
      BY <1>1, <3>1 DEF Call, Phases, Handshakes
    <3> QED BY <3>2 DEF n
  <2>2. syncs' = [syncs EXCEPT ![s] = [me EXCEPT !.pc = "proved", !.credential = cloud.issued + 1]]
    BY <1>4, <1>1 DEF Proved
  <2>3. syncs' \in [Syncs -> Call]
    BY <2>1, <2>2, <1>1
  <2>4. cloud' \in Clouds
    BY <1>4, <1>1 DEF Proved, Clouds
  <2> QED BY <1>4, <2>3, <2>4 DEF Proved, PairingOK, incidents, IncidentsOK, usage
<1>5. ASSUME NEW pc \in Phases, Go(s, pc) PROVE syncs' \in [Syncs -> Call]
  <2>1. [me EXCEPT !.pc = pc] \in Call
    BY <1>1 DEF Call
  <2> QED BY <2>1, <1>1, <1>5 DEF Go
<1>6. CASE CredentialKept(s)
  <2>1. syncs' \in [Syncs -> Call]
    BY <1>5, <1>6 DEF CredentialKept, Phases, Handshakes
  <2>2. vault' \in Nat
    BY <1>6, <1>1 DEF CredentialKept, Call
  <2> QED BY <1>6, <2>1, <2>2 DEF CredentialKept, PairingOK, incidents, IncidentsOK, usage
<1>7. CASE CredentialAcknowledged(s)
  <2>1. syncs' \in [Syncs -> Call]
    BY <1>5, <1>7 DEF CredentialAcknowledged, Phases, Handshakes
  <2>2. cloud' \in Clouds
    BY <1>7, <1>1 DEF CredentialAcknowledged, Call, Clouds
  <2> QED BY <1>7, <2>1, <2>2 DEF CredentialAcknowledged, PairingOK, incidents, IncidentsOK, usage
<1>8. CASE HandshakeCompletes(s)
  <2>1. syncs' \in [Syncs -> Call]
    BY <1>5, <1>8 DEF HandshakeCompletes, Phases
  <2>2. link' \in Links
    BY <1>8, <1>1 DEF HandshakeCompletes, Call, Links
  <2> QED BY <1>8, <2>1, <2>2 DEF HandshakeCompletes, PairingOK, incidents, IncidentsOK, usage
<1>9. CASE SyncAfterHandshake(s)
  <2>1. past' \in Pasts
    BY <1>9, <1>1 DEF SyncAfterHandshake, Pasts, PairingOK
  <2>2. syncs' \in [Syncs -> Call]
    BY <1>9, <1>1, <1>2 DEF SyncAfterHandshake, Begins
  <2> QED BY <1>9, <2>1, <2>2 DEF SyncAfterHandshake, Begins, PairingOK, incidents, IncidentsOK, usage
<1>10. CASE AnswerSaved(s)
  <2>1. syncs' \in [Syncs -> Call]
    BY <1>5, <1>10 DEF AnswerSaved, Phases, Uploads
  <2>2. link' \in Links
    <3> DEFINE n == IF me.latest > me.seen THEN me.latest ELSE me.seen
    <3>1. n \in Nat
      BY <1>1 DEF Call
    <3>2. link' = [link EXCEPT !.paired = TRUE, !.seen = n]
      BY <1>10 DEF AnswerSaved
    <3> HIDE DEF n
    <3> QED BY <3>1, <3>2, <1>1 DEF Links
  <2> QED BY <1>10, <2>1, <2>2 DEF AnswerSaved, PairingOK, incidents, IncidentsOK, usage
<1>11. CASE HandshakeFails(s)
  <2>1. syncs' \in [Syncs -> Call]
    BY <1>11, <1>1, QuietOK DEF HandshakeFails
  <2> QED BY <1>11, <2>1 DEF HandshakeFails, PairingOK, incidents, IncidentsOK, usage
<1>12. CASE SyncFails(s)
  <2>1. syncs' \in [Syncs -> Call]
    BY <1>12, <1>1, QuietOK DEF SyncFails
  <2> QED BY <1>12, <2>1 DEF SyncFails, PairingOK, incidents, IncidentsOK, usage
<1> QED BY <1>3, <1>4, <1>6, <1>7, <1>8, <1>9, <1>10, <1>11, <1>12 DEF SyncStep

LEMMA ServedTypes ==
  ASSUME TypeOK, NEW s \in Syncs, Served(s)
  PROVE  TypeOK'
<1> DEFINE me == syncs[s]
           all == me.rows \cup me.heated
           rows == [k \in DOMAIN cloud.rows |-> IF \E r \in all : r.epoch = k THEN (CHOOSE r \in all : r.epoch = k).seconds ELSE cloud.rows[k]]
           told == [i \in Ids |-> LastWord(me.sent, i, cloud.told[i])]
           published == IF me.seen > cloud.published THEN me.seen ELSE cloud.published
<1>1. me \in Call /\ syncs \in [Syncs -> Call] /\ cloud \in Clouds
  BY DEF TypeOK, PairingOK
<1>2. rows \in [0..MaxEpochs -> [Values -> Nat]]
  <2>1. cloud.rows \in [0..MaxEpochs -> [Values -> Nat]] /\ all \subseteq Row
    BY <1>1 DEF Clouds, Call
  <2>2. ASSUME NEW k \in 0..MaxEpochs, \E r \in all : r.epoch = k PROVE (CHOOSE r \in all : r.epoch = k).seconds \in [Values -> Nat]
    <3>1. (CHOOSE r \in all : r.epoch = k) \in all
      BY <2>2
    <3> QED BY <3>1, <2>1 DEF Row
  <2> HIDE DEF all
  <2> QED BY <2>1, <2>2
<1>3. told \in [Ids -> Words]
  <2>1. ASSUME NEW i \in Ids PROVE LastWord(me.sent, i, cloud.told[i]) \in Words
    <3> DEFINE box == me.sent
               last == {k \in DOMAIN box : box[k].id = i /\ \A j \in DOMAIN box : j > k => box[j].id # i}
    <3>1. \A k \in DOMAIN box : box[k] \in Envelope
      BY <1>1, LenProperties DEF Call, Boxes
    <3>2. last # {} => (CHOOSE k \in last : TRUE) \in last
      OBVIOUS
    <3>3. \A k \in last : box[k].state \in Words
      BY <3>1 DEF Envelope
    <3>4. cloud.told[i] \in Words
      BY <1>1 DEF Clouds
    <3>5. LastWord(box, i, cloud.told[i]) = IF last = {} THEN cloud.told[i] ELSE box[CHOOSE k \in last : TRUE].state
      BY DEF LastWord
    <3> HIDE DEF last, box
    <3> QED BY <3>2, <3>3, <3>4, <3>5 DEF box
  <2> QED BY <2>1
<1>4. published \in Nat
  BY <1>1 DEF Clouds, Call
<1>5. cloud' = [cloud EXCEPT !.rows = rows, !.published = published, !.told = told]
  BY DEF Served
<1>6. cloud' \in Clouds
  <2> HIDE DEF rows, published, told
  <2> QED BY <1>1, <1>2, <1>3, <1>4, <1>5 DEF Clouds
<1>7. syncs' = [syncs EXCEPT ![s] = [me EXCEPT !.pc = "answered", !.latest = cloud.latest, !.reset = cloud.reset]]
  BY <1>1 DEF Served
<1>8. [me EXCEPT !.pc = "answered", !.latest = cloud.latest, !.reset = cloud.reset] \in Call
  BY <1>1 DEF Call, Clouds, Phases, Uploads
<1>9. syncs' \in [Syncs -> Call]
  BY <1>1, <1>7, <1>8
<1> QED BY <1>6, <1>9 DEF TypeOK, Served, PairingOK, incidents, IncidentsOK, usage

LEMMA EndsTypes ==
  ASSUME TypeOK, NEW s \in Syncs, SyncEnds(s)
  PROVE  TypeOK'
<1> DEFINE me == syncs[s]
<1>1. me \in Call /\ syncs \in [Syncs -> Call] /\ outbox \in Boxes /\ me.reset \in Nat /\ me.ack \in Nat /\ me.heatAck \in Nat
  BY DEF TypeOK, PairingOK, IncidentsOK, Call
<1>2. heat' \in Trackers /\ electric' \in Trackers
  <2>1. ASSUME NEW T \in Trackers, NEW rows, NEW ack \in Nat
        PROVE  ResetAcknowledged(Acknowledged(ResetApplied(T, me.reset), rows), ack) \in Trackers
    BY <1>1, AcknowledgedOK
  <2>2. heat' = HeatApplied(heat, me) /\ electric' = Applied(electric, me, me.rows, me.ack) /\ heat \in Trackers /\ electric \in Trackers
    BY DEF SyncEnds, TypeOK
  <2> QED BY <1>1, <2>1, <2>2 DEF HeatApplied, Applied
<1>3. outbox' \in Boxes
  <2>1. PICK place \in Orders(DOMAIN outbox \ Acked(me.sent)) : outbox' = [k \in DOMAIN place |-> outbox[place[k]]]
    BY DEF SyncEnds, Acknowledges
  <2> DEFINE S == DOMAIN outbox \ Acked(me.sent)
             n == Cardinality(S)
  <2>2. place \in [1..n -> S] /\ DOMAIN place = 1..n
    BY <2>1 DEF Orders
  <2>3. DOMAIN outbox = 1..Len(outbox) /\ Len(outbox) \in Nat /\ \A k \in DOMAIN outbox : outbox[k] \in Envelope
    BY <1>1, LenProperties DEF Boxes
  <2>4. n \in Nat
    <3>1. IsFiniteSet(1..Len(outbox))
      BY <2>3, FS_Interval
    <3>2. IsFiniteSet(S)
      BY <3>1, <2>3, FS_Subset
    <3> QED BY <3>2, FS_CardinalityType
  <2>5. outbox' \in [1..n -> Envelope]
    <3> HIDE DEF n
    <3> QED BY <2>1, <2>2, <2>3
  <2>6. \A m \in Nat : \A f \in [1..m -> Envelope] : f \in Seq(Envelope)
    OBVIOUS
  <2> HIDE DEF n
  <2> QED BY <2>4, <2>5, <2>6 DEF Boxes
<1>4. past' \in Pasts
  <2>1. \A T \in Trackers : \A e \in T.live \cup T.pending : e.epoch \in Nat
    BY DEF Trackers, Counter
  <2> DEFINE resets(T) == {e.epoch : e \in T.live \cup T.pending} \ {e.epoch : e \in ResetApplied(T, me.reset).live \cup ResetApplied(T, me.reset).pending}
             more == resets(electric) \cup resets(heat) \cup Cleared(ResetApplied(electric, me.reset), me.rows) \cup Cleared(ResetApplied(heat, me.reset), me.heated)
  <2>2. electric \in Trackers /\ heat \in Trackers /\ ResetApplied(electric, me.reset) \in Trackers /\ ResetApplied(heat, me.reset) \in Trackers
    BY <1>1, AcknowledgedOK DEF TypeOK
  <2>3. \A T \in Trackers : \A rows : Cleared(T, rows) \subseteq Nat
    BY <2>1 DEF Cleared
  <2>4. resets(electric) \subseteq Nat /\ resets(heat) \subseteq Nat
    BY <2>1, <2>2
  <2>5. more \subseteq Nat
    BY <2>2, <2>3, <2>4
  <2>6. past' = [past EXCEPT !.unsent = @ \cup more]
    BY DEF SyncEnds, TypeOK, Pasts
  <2> HIDE DEF more
  <2> QED BY <2>5, <2>6 DEF TypeOK, Pasts
<1>5. slips' \in Slips
  BY DEF SyncEnds, Requeued, TypeOK, IncidentsOK, Slips
<1>6. syncs' \in [Syncs -> Call]
  BY <1>1, QuietOK DEF SyncEnds
<1>7. syncing' = FALSE /\ backoff' = FALSE /\ UNCHANGED <<home, active, jobs, sweep, recent, hour, link, vault, disk, cloud, budget>>
  BY DEF SyncEnds
<1>8. IncidentsOK'
  BY <1>3, <1>5, <1>7 DEF TypeOK, IncidentsOK
<1> QED BY <1>2, <1>4, <1>6, <1>7, <1>8 DEF TypeOK, PairingOK

LEMMA CrashTypes ==
  ASSUME TypeOK, Crash
  PROVE  TypeOK'
<1> USE DEF TypeOK
<1>1. disk.link \in Links /\ disk.electric \in Trackers /\ disk.heat \in Trackers /\ disk.active \in [Ids -> Incident] /\ disk.outbox \in Boxes
  BY DEF Files
<1>2. /\ link' = disk.link /\ electric' = disk.electric /\ heat' = disk.heat
      /\ syncing' = FALSE /\ backoff' = FALSE /\ syncs' = [s \in Syncs |-> Quiet]
      /\ IncidentsLost(disk) /\ UNCHANGED <<vault, disk, cloud>>
  BY DEF Crash
<1>3. past' \in Pasts
  <2> DEFINE more == {k \in DOMAIN past.counted :
          ~\E e \in disk.electric.live \cup disk.electric.pending \cup disk.heat.live :
             /\ e.epoch = k /\ e.seconds = past.counted[k]
             /\ e.dirty \/ ~\E x \in electric.live \cup electric.pending \cup heat.live : x.epoch = k /\ x.dirty}
  <2>1. past' = [past EXCEPT !.unsent = @ \cup more]
    BY DEF Crash
  <2>2. more \subseteq Nat
    BY PlatformAssumption DEF Pasts
  <2> HIDE DEF more
  <2> QED BY <2>1, <2>2 DEF Pasts
<1>4. slips' \in Slips
  <2> DEFINE open == Touched(disk)
  <2>1. slips' = [slips EXCEPT !.untold = @ \cup open, !.stale = @ \cup open \cup (IF jobs = <<>> THEN {} ELSE Ids)]
    BY <1>2 DEF IncidentsLost
  <2>2. \A i \in Ids : \A e \in Pending(i) : e.id = i
    BY DEF Pending, Save, Tell
  <2>3. ASSUME NEW k \in DOMAIN jobs, NEW x \in Range(jobs[k]), x.do \in {"save", "tell"} PROVE x.id \in Ids
    <3>1. jobs[k] \in Job
      BY LenProperties DEF IncidentsOK
    <3>2. \A u, l : Look(u).do = "look" /\ Measure(l).do = "measure"
      BY DEF Look, Measure
    <3>3. \E m \in DOMAIN jobs[k] : x = jobs[k][m]
      BY DEF Range
    <3>4. CASE jobs[k] \in Alone
      <4>1. PICK i \in Ids : \E e \in Pending(i) : jobs[k] = <<e>>
        BY <3>4 DEF Alone, PendingHere
      <4> QED BY <4>1, <3>3, <2>2
    <3>5. CASE jobs[k] \in AndLook
      <4>0. Battery \in Ids
        BY DEF Battery, Ids
      <4>1. PICK e \in Pending(Battery), u \in BOOLEAN : jobs[k] = <<e, Look(u)>>
        BY <3>5 DEF AndLook
      <4>2. x = e \/ x = Look(u)
        BY <4>1, <3>3
      <4> QED BY <4>0, <4>2, <3>2, <2>3, <2>2
    <3>6. CASE jobs[k] \in Looks
      <4>1. PICK u \in BOOLEAN : jobs[k] = <<Look(u)>>
        BY <3>6 DEF Looks
      <4> QED BY <4>1, <3>3, <3>2, <2>3
    <3>7. CASE jobs[k] \in Measures
      <4>1. PICK l \in Levels, u \in BOOLEAN : jobs[k] = <<Measure(l), Look(u)>>
        BY <3>7 DEF Measures
      <4>2. x = Measure(l) \/ x = Look(u)
        BY <4>1, <3>3
      <4> QED BY <4>2, <3>2, <2>3
    <3> QED BY <3>1, <3>4, <3>5, <3>6, <3>7 DEF Job
  <2>4. \A e \in Range(sweep.doing) : e.id \in Ids
    <3>1. CASE sweep.doing = <<>>
      BY <3>1 DEF Range
    <3>2. CASE sweep.doing \in Alone
      <4>1. PICK i \in Ids : \E e \in Pending(i) : sweep.doing = <<e>>
        BY <3>2 DEF Alone, PendingHere
      <4>2. PICK e \in Pending(i) : sweep.doing = <<e>>
        BY <4>1
      <4>3. \A x \in Range(sweep.doing) : x = e
        BY <4>2 DEF Range
      <4> QED BY <4>3, <2>2
    <3> QED BY <3>1, <3>2 DEF IncidentsOK
  <2>5. open \in SUBSET Ids
    <3>1. ASSUME NEW i \in Touched(disk) PROVE i \in Ids
      <4>1. \/ \E k \in DOMAIN jobs : i \in {e.id : e \in {x \in Range(jobs[k]) : x.do \in {"save", "tell"}}}
            \/ i \in {e.id : e \in Range(sweep.doing)} \/ i \in {j \in Ids : disk.active[j] # active[j] \/ disk.outbox # outbox}
        BY DEF Touched
      <4> QED BY <4>1, <2>3, <2>4
    <3> QED BY <3>1
  <2> HIDE DEF open
  <2> QED BY <2>1, <2>5 DEF IncidentsOK, Slips
<1>5. IncidentsOK'
  <2>1. /\ active' = disk.active /\ outbox' = disk.outbox
        /\ jobs' = <<>> /\ sweep' = Asleep /\ recent' = {} /\ UNCHANGED <<home, hour>>
    BY <1>2 DEF IncidentsLost
  <2>2. sweep' \in [todo : SUBSET (Ids \X Incident), doing : {<<>>} \cup Alone, now : Nat] /\ sweep'.todo = {}
    BY <2>1 DEF Asleep
  <2> QED BY <2>1, <2>2, <1>1, <1>4 DEF IncidentsOK
<1>6. PairingOK'
  BY <1>1, <1>2, QuietOK DEF PairingOK
<1> QED BY <1>1, <1>2, <1>3, <1>5, <1>6

LEMMA OtherTypes ==
  ASSUME TypeOK, RetryDue \/ Saved \/ AttemptRegistered \/ VersionAppears \/ UsageReset
  PROVE  TypeOK'
<1> USE DEF TypeOK
<1>1. CASE RetryDue
  BY <1>1 DEF RetryDue, PairingOK, incidents, IncidentsOK, usage
<1>2. CASE Saved
  <2>1. Stored \in Files /\ \A i \in Ids : Stored.active[i] \in Case(i)
    BY DEF Stored, Files, PairingOK, IncidentsOK
  <2>2. disk' = Stored \/ disk' = disk
    BY <1>2 DEF Saved
  <2>3. disk' \in Files /\ \A i \in Ids : disk'.active[i] \in Case(i)
    BY <2>1, <2>2
  <2>4. syncs' = [s \in Syncs |-> [syncs[s] EXCEPT !.pc = CASE @ = "pairing" -> "paired" [] @ = "saving" -> "saved" [] OTHER -> @]]
    BY <1>2 DEF Saved
  <2>5. ASSUME NEW s \in Syncs PROVE [syncs[s] EXCEPT !.pc = CASE @ = "pairing" -> "paired" [] @ = "saving" -> "saved" [] OTHER -> @] \in Call
    <3>1. syncs[s] \in Call
      BY DEF PairingOK
    <3> DEFINE pc == CASE syncs[s].pc = "pairing" -> "paired" [] syncs[s].pc = "saving" -> "saved" [] OTHER -> syncs[s].pc
    <3>2. pc \in Phases
      BY <3>1 DEF Call, Phases, Uploads
    <3>3. [syncs[s] EXCEPT !.pc = pc] \in Call
      <4> HIDE DEF pc
      <4> QED BY <3>1, <3>2 DEF Call
    <3> QED BY <3>3
  <2>6. syncs' \in [Syncs -> Call]
    BY <2>4, <2>5
  <2> QED BY <1>2, <2>3, <2>6 DEF Saved, PairingOK, incidents, IncidentsOK, usage
<1>3. CASE AttemptRegistered
  <2>1. link' \in Links
    BY <1>3 DEF AttemptRegistered, PairingOK, Links
  <2> QED BY <1>3, <2>1 DEF AttemptRegistered, PairingOK, incidents, IncidentsOK, usage
<1>4. CASE VersionAppears
  <2>1. cloud' \in Clouds
    BY <1>4 DEF VersionAppears, Clouds
  <2> QED BY <1>4, <2>1 DEF VersionAppears, pairingVars, PairingOK, incidents, IncidentsOK, usage
<1>5. CASE UsageReset
  <2>1. cloud' \in Clouds
    BY <1>5 DEF UsageReset, Clouds
  <2> QED BY <1>5, <2>1 DEF UsageReset, pairingVars, PairingOK, incidents, IncidentsOK, usage
<1> QED BY <1>1, <1>2, <1>3, <1>4, <1>5

LEMMA TypeStep ==
  ASSUME TypeOK, [Next]_vars
  PROVE  TypeOK'
<1>1. ASSUME NEW s \in Syncs, SyncStep(s) \/ HandshakeFails(s) \/ SyncFails(s) PROVE TypeOK'
  BY <1>1, CallTypes, ServedTypes, EndsTypes
<1>2. CASE UNCHANGED vars
  BY <1>2 DEF vars, incidents, pairingVars, usage, TypeOK, PairingOK, IncidentsOK
<1> QED BY <1>1, <1>2, UsageTypes, IncidentTypes, CrashTypes, OtherTypes DEF Next

\* Every variable keeps its kind: what a handler has left to do is a save that
\* ends an outage or the tale of one that began, and of no incident but its own.
THEOREM TypeAlways == Spec => []TypeOK
<1>1. Init => TypeOK
  BY TypeInit
<1>2. TypeOK /\ [Next]_vars => TypeOK'
  BY TypeStep
<1> QED BY <1>1, <1>2, PTL DEF Spec

(***************************************************************************)
(* The credential.                                                          *)
(***************************************************************************)
\* A call that shakes hands is alone, and the hub unpaired; what it has kept
\* is what the vault holds.
Alike(s) ==
  /\ syncs[s].pc \in Handshakes =>
       /\ ~link.paired
       /\ \A o \in Syncs \ {s} : syncs[o].pc = "idle"
  /\ syncs[s].pc \in {"kept", "acknowledged"} => vault = syncs[s].credential
  /\ syncs[s].pc = "acknowledged" => cloud.credential = syncs[s].credential

Handshaken ==
  /\ disk.link.paired => link.paired
  /\ \A s \in Syncs : syncs[s].pc \in {"pairing", "paired"} \cup Uploads => link.paired
  /\ ~past.raced => /\ \A s \in Syncs : Alike(s)
                    /\ link.paired /\ cloud.issued > 0 => vault = cloud.credential

LEMMA HandshakenInit ==
  ASSUME Init
  PROVE  Handshaken
BY DEF Init, Handshaken, Alike, Stored, Quiet, Handshakes, Uploads

LEMMA HandshakenStep ==
  ASSUME TypeOK, Handshaken, [Next]_vars
  PROVE  Handshaken'
<1> USE DEF Handshakes, Uploads
<1>0. syncs \in [Syncs -> Call] /\ link \in Links /\ cloud \in Clouds /\ past \in Pasts /\ disk.link \in Links
  BY DEF TypeOK, PairingOK, Files
<1> DEFINE same == UNCHANGED <<link, vault, syncs, disk, cloud>> /\ (past'.raced = past.raced)
<1>1. ASSUME same PROVE Handshaken'
  BY <1>1 DEF Handshaken, Alike
\* A step that changes no call, credential or pairing.
<1>2. CASE UNCHANGED vars
  BY <1>1, <1>2 DEF vars, pairingVars
<1>3. CASE Jobs \/ Checks \/ Sweeps \/ Hours \/ Changes
  BY <1>1, <1>3 DEF Jobs, Checks, Sweeps, Hours, Changes, Elsewhere, pairingVars
<1>4. CASE Observations
  BY <1>0, <1>1, <1>4 DEF Observations, LampRetired, LampObserved, BoilerObserved, Counted, pairingVars, Pasts
<1>5. CASE RetryDue
  BY <1>1, <1>5 DEF RetryDue
<1>6. CASE VersionAppears \/ UsageReset
  BY <1>0, <1>6 DEF VersionAppears, UsageReset, Handshaken, Alike, pairingVars, Clouds
<1>7. CASE AttemptRegistered
  <2>1. link'.paired = link.paired
    BY <1>0, <1>7 DEF AttemptRegistered, Links
  <2> QED BY <2>1, <1>7 DEF AttemptRegistered, Handshaken, Alike
<1>8. CASE Crash
  <2>1. /\ link' = disk.link /\ syncs' = [s \in Syncs |-> Quiet] /\ UNCHANGED <<vault, disk, cloud>> /\ past'.raced = past.raced
    BY <1>0, <1>8 DEF Crash, Pasts
  <2>2. \A s \in Syncs : syncs'[s].pc = "idle"
    BY <2>1 DEF Quiet
  <2> QED BY <2>1, <2>2 DEF Handshaken, Alike
<1>9. CASE Saved
  <2>1. disk' = Stored \/ disk' = disk
    BY <1>9 DEF Saved
  <2>2. UNCHANGED <<link, vault, cloud, past>>
    BY <1>9 DEF Saved
  <2>3. ASSUME NEW s \in Syncs
        PROVE  /\ syncs'[s].credential = syncs[s].credential
               /\ \/ syncs'[s].pc = syncs[s].pc
                  \/ syncs[s].pc = "pairing" /\ syncs'[s].pc = "paired"
                  \/ syncs[s].pc = "saving" /\ syncs'[s].pc = "saved"
    <3> DEFINE pc == CASE syncs[s].pc = "pairing" -> "paired" [] syncs[s].pc = "saving" -> "saved" [] OTHER -> syncs[s].pc
    <3>1. syncs'[s] = [syncs[s] EXCEPT !.pc = pc]
      BY <1>9 DEF Saved
    <3>2. \/ pc = syncs[s].pc
          \/ syncs[s].pc = "pairing" /\ pc = "paired"
          \/ syncs[s].pc = "saving" /\ pc = "saved"
      OBVIOUS
    <3>3. syncs[s] \in Call
      BY <1>0
    <3> HIDE DEF pc
    <3> QED BY <3>1, <3>2, <3>3 DEF Call
  <2>4. disk'.link.paired => link'.paired
    BY <2>1, <2>2 DEF Stored, Handshaken
  <2> QED BY <2>2, <2>3, <2>4 DEF Handshaken, Alike
<1>10. ASSUME NEW s \in Syncs, SyncStep(s) \/ HandshakeFails(s) \/ SyncFails(s) PROVE Handshaken'
  <2>0. syncs[s] \in Call /\ \A c : [syncs EXCEPT ![s] = c][s] = c /\ \A o \in Syncs \ {s} : [syncs EXCEPT ![s] = c][o] = syncs[o]
    BY <1>0
  <2>1. CASE SyncCalled(s)
    <3>1. UNCHANGED <<disk, cloud, link, vault>> /\ Calls(s)
      BY <2>1 DEF SyncCalled, Calls, Begins
    <3>2. CASE link.paired
      <4>1. Begins(s) /\ UNCHANGED past
        BY <3>1, <3>2 DEF Calls
      <4>2. syncs'[s].pc = "sent" /\ \A o \in Syncs \ {s} : syncs'[o] = syncs[o]
        BY <4>1, <2>0 DEF Begins, Sent, Quiet
      <4> QED BY <3>1, <3>2, <4>1, <4>2 DEF Handshaken, Alike
    <3>3. CASE ~link.paired
      <4>1. /\ syncs' = [syncs EXCEPT ![s] = [Quiet EXCEPT !.pc = "challenged", !.attempt = link.attempt]]
            /\ past' = [past EXCEPT !.raced = @ \/ \E o \in Syncs : syncs[o].pc # "idle"]
        BY <3>1, <3>3 DEF Calls
      <4>2. syncs'[s].pc = "challenged" /\ \A o \in Syncs \ {s} : syncs'[o] = syncs[o]
        BY <4>1, <2>0 DEF Quiet
      <4>3. ~past'.raced => ~past.raced /\ \A o \in Syncs : syncs[o].pc = "idle"
        BY <4>1, <1>0 DEF Pasts
      <4> QED BY <3>1, <3>3, <4>2, <4>3 DEF Handshaken, Alike
    <3> QED BY <3>2, <3>3
  <2>2. CASE Proved(s)
    <3>1. syncs[s].pc = "challenged" /\ UNCHANGED <<link, vault, disk, past>> /\ cloud'.credential = cloud.credential
      BY <2>2, <1>0 DEF Proved, Clouds
    <3>2. syncs'[s].pc = "proved" /\ \A o \in Syncs \ {s} : syncs'[o] = syncs[o]
      BY <2>2, <1>0, <2>0 DEF Proved, Call
    <3> QED BY <3>1, <3>2 DEF Handshaken, Alike
  <2>3. ASSUME NEW pc \in Phases, Go(s, pc)
        PROVE  /\ syncs'[s].pc = pc /\ syncs'[s].credential = syncs[s].credential
               /\ \A o \in Syncs \ {s} : syncs'[o] = syncs[o]
    BY <1>0, <2>0, <2>3 DEF Go, Call
  <2>4. CASE CredentialKept(s)
    <3>1. syncs[s].pc = "proved" /\ UNCHANGED <<link, disk, past, cloud>> /\ vault' = syncs[s].credential
      BY <2>4 DEF CredentialKept
    <3>2. syncs'[s].pc = "kept" /\ syncs'[s].credential = syncs[s].credential /\ \A o \in Syncs \ {s} : syncs'[o] = syncs[o]
      BY <2>3, <2>4 DEF CredentialKept, Phases
    <3> QED BY <3>1, <3>2 DEF Handshaken, Alike
  <2>5. CASE CredentialAcknowledged(s)
    <3>1. syncs[s].pc = "kept" /\ UNCHANGED <<link, disk, past, vault>> /\ cloud'.credential = syncs[s].credential
      BY <2>5, <1>0 DEF CredentialAcknowledged, Clouds
    <3>2. syncs'[s].pc = "acknowledged" /\ syncs'[s].credential = syncs[s].credential /\ \A o \in Syncs \ {s} : syncs'[o] = syncs[o]
      BY <2>3, <2>5 DEF CredentialAcknowledged, Phases
    <3> QED BY <3>1, <3>2 DEF Handshaken, Alike
  <2>6. CASE HandshakeCompletes(s)
    <3>1. syncs[s].pc = "acknowledged" /\ UNCHANGED <<vault, disk, past, cloud>> /\ link'.paired
      BY <2>6, <1>0 DEF HandshakeCompletes, Links
    <3>2. syncs'[s].pc = "pairing" /\ \A o \in Syncs \ {s} : syncs'[o] = syncs[o]
      BY <2>3, <2>6 DEF HandshakeCompletes, Phases
    <3> QED BY <3>1, <3>2 DEF Handshaken, Alike
  <2>7. CASE SyncAfterHandshake(s)
    <3>1. syncs[s].pc = "paired" /\ UNCHANGED <<vault, disk, link, cloud>> /\ (~past'.raced => ~past.raced)
      BY <2>7, <1>0 DEF SyncAfterHandshake, Begins, Pasts
    <3>2. syncs'[s].pc = "sent" /\ \A o \in Syncs \ {s} : syncs'[o] = syncs[o]
      BY <2>7, <2>0 DEF SyncAfterHandshake, Begins, Sent, Quiet
    <3> QED BY <3>1, <3>2 DEF Handshaken, Alike
  <2>8. CASE Served(s)
    <3>1. syncs[s].pc = "sent" /\ UNCHANGED <<vault, disk, link, past>> /\ cloud'.credential = cloud.credential /\ cloud'.issued = cloud.issued
      BY <2>8, <1>0 DEF Served, Clouds
    <3>2. syncs'[s].pc = "answered" /\ \A o \in Syncs \ {s} : syncs'[o] = syncs[o]
      BY <2>8, <2>0, <1>0 DEF Served, Call
    <3> QED BY <3>1, <3>2 DEF Handshaken, Alike
  <2>9. CASE AnswerSaved(s)
    <3>1. syncs[s].pc = "answered" /\ UNCHANGED <<vault, disk, cloud, past>> /\ link'.paired
      BY <2>9, <1>0 DEF AnswerSaved, Links
    <3>2. syncs'[s].pc = "saving" /\ \A o \in Syncs \ {s} : syncs'[o] = syncs[o]
      BY <2>3, <2>9 DEF AnswerSaved, Phases
    <3> QED BY <3>1, <3>2 DEF Handshaken, Alike
  <2>10. ASSUME syncs' = [syncs EXCEPT ![s] = Quiet], UNCHANGED <<vault, disk, cloud, link>>, past'.raced = past.raced
         PROVE  Handshaken'
    <3>1. syncs'[s].pc = "idle" /\ \A o \in Syncs \ {s} : syncs'[o] = syncs[o]
      BY <2>10, <2>0 DEF Quiet
    <3> QED BY <2>10, <3>1 DEF Handshaken, Alike
  <2>11. CASE SyncEnds(s)
    BY <2>10, <2>11, <1>0 DEF SyncEnds, Pasts
  <2>12. CASE HandshakeFails(s)
    BY <2>10, <2>12 DEF HandshakeFails
  <2>13. CASE SyncFails(s)
    BY <2>10, <2>13 DEF SyncFails
  <2> QED BY <1>10, <2>1, <2>2, <2>4, <2>5, <2>6, <2>7, <2>8, <2>9, <2>11, <2>12, <2>13 DEF SyncStep
<1> QED BY <1>2, <1>3, <1>4, <1>5, <1>6, <1>7, <1>8, <1>9, <1>10 DEF Next

\* Whatever was lost or restarted, a paired hub holds the credential the
\* platform heard acknowledged, unless two handshakes ran at a time.
THEOREM CredentialAgreesAlways == Spec => []CredentialAgrees
<1>1. Init => TypeOK /\ Handshaken
  BY TypeInit, HandshakenInit
<1>2. (TypeOK /\ Handshaken) /\ [Next]_vars => (TypeOK /\ Handshaken)'
  BY TypeStep, HandshakenStep
<1>3. TypeOK /\ Handshaken => CredentialAgrees
  BY DEF Handshaken, CredentialAgrees
<1> QED BY <1>1, <1>2, <1>3, PTL DEF Spec

(***************************************************************************)
(* Usage.                                                                   *)
(***************************************************************************)
Rows(T) == T.live \cup T.pending

\* A tracker has one entry of each epoch, in one of its lists, and no epoch
\* that was not drawn.
Apart(T) == \A e, f \in Rows(T) : e.epoch = f.epoch => e = f
Split(T) == T.live \cap T.pending = {}
Drawn(T, n) == \A e \in Rows(T) : 0 < e.epoch /\ e.epoch <= n
Lone(T) == T.pending = {} /\ (\A e, f \in T.live : e = f) /\ \A e \in T.live : e.epoch = 0 /\ e.lamp = Boiler

\* Nothing is lost between two values of a tracker, and what is new is dirty.
Grows(T, U) ==
  /\ \A e \in Rows(T) : \E f \in Rows(U) : f.epoch = e.epoch /\ (f = e \/ f.dirty)
  /\ \A f \in Rows(U) : f.dirty \/ f \in Rows(T)

LEMMA ObservedGrows ==
  ASSUME NEW T \in Trackers, NEW lamp \in Lamps, NEW area \in Areas, NEW value \in Values, NEW elapsed \in Nat, NEW n \in Nat,
         Apart(T), Split(T), Drawn(T, n)
  PROVE  LET U == Observed(T, lamp, area, value, elapsed, n + 1)
         IN /\ Apart(U) /\ Split(U) /\ Grows(T, U)
            /\ Drawn(U, IF \E e \in U.live : e.epoch > n THEN n + 1 ELSE n)
<1> DEFINE old == Of(T, lamp)
           moved == {e \in old : e.area # area /\ ~e.retired}
           k(e) == [Accrued(e, elapsed) EXCEPT !.area = area, !.was = value, !.retired = FALSE, !.dirty = TRUE]
           c(e) == [Accrued(e, elapsed) EXCEPT !.retired = TRUE, !.dirty = TRUE]
           kept == {k(e) : e \in old \ moved}
           new == IF moved # {} \/ (old = {} /\ Cardinality(T.live) < MaxTracked) THEN {Entry(lamp, area, value, n + 1)} ELSE {}
           closed == {c(e) : e \in moved}
           U == Observed(T, lamp, area, value, elapsed, n + 1)
<1>1. old \subseteq T.live /\ T.live \subseteq Counter /\ T.pending \subseteq Counter /\ moved \subseteq old
  BY DEF Of, Trackers
<1>2. U = [T EXCEPT !.live = (@ \ old) \cup kept \cup new, !.pending = @ \cup closed]
  BY DEF Observed
<1>3. \A e \in Counter : /\ k(e).epoch = e.epoch /\ k(e).dirty
                         /\ c(e).epoch = e.epoch /\ c(e).dirty
  <2>1. ASSUME NEW a \in Counter
        PROVE  LET x == [a EXCEPT !.area = area, !.was = value, !.retired = FALSE, !.dirty = TRUE]
                   y == [a EXCEPT !.retired = TRUE, !.dirty = TRUE]
               IN x.epoch = a.epoch /\ x.dirty /\ y.epoch = a.epoch /\ y.dirty
    BY DEF Counter
  <2> QED BY <2>1, AccruedOK
<1>4. \A e \in new : e.epoch = n + 1 /\ e.dirty /\ new = {e}
  <2>1. n + 1 \in Nat
    OBVIOUS
  <2>2. Entry(lamp, area, value, n + 1).epoch = n + 1 /\ Entry(lamp, area, value, n + 1).dirty
    BY <2>1, EntryOK
  <2> QED BY <2>2
<1> HIDE DEF old, moved, k, c, new
<1> DEFINE L == (T.live \ old) \cup kept \cup new
           P == T.pending \cup closed
<1>5. U.live = L /\ U.pending = P /\ Rows(U) = L \cup P
  <2> HIDE DEF U, kept, closed
  <2> QED BY <1>2 DEF Trackers, Rows
<1> HIDE DEF U
\* Every entry comes from one of its epoch, or is the new one.
<1>6. ASSUME NEW f \in L PROVE \/ f.epoch = n + 1 /\ f.dirty /\ new = {f}
                               \/ \E e \in T.live : f.epoch = e.epoch /\ ((f = e /\ e \notin old) \/ (f = k(e) /\ f.dirty /\ e \in old \ moved))
  <2>1. CASE f \in new
    BY <1>4, <2>1
  <2>2. CASE f \in T.live \ old
    BY <2>2
  <2>3. CASE f \in kept
    <3>1. PICK e \in old \ moved : f = k(e)
      BY <2>3
    <3> QED BY <3>1, <1>1, <1>3
  <2> QED BY <1>6, <2>1, <2>2, <2>3
<1>7. ASSUME NEW f \in P PROVE \/ f \in T.pending
                               \/ \E e \in moved : f = c(e) /\ f.epoch = e.epoch /\ f.dirty
  <2>1. CASE f \in closed
    <3>1. PICK e \in moved : f = c(e)
      BY <2>1
    <3> QED BY <3>1, <1>1, <1>3
  <2> QED BY <1>7, <2>1
<1>8. \A e, f \in Rows(T) : e.epoch = f.epoch => e = f
  BY DEF Apart
<1>9. T.live \subseteq Rows(T) /\ T.pending \subseteq Rows(T) /\ T.live \cap T.pending = {} /\ \A e \in Rows(T) : 0 < e.epoch /\ e.epoch <= n /\ e.epoch \in Nat
  BY <1>1 DEF Rows, Split, Drawn, Counter
<1>10. \A f, g \in L : f.epoch = g.epoch => f = g
  <2> HIDE DEF L
  <2> QED BY <1>6, <1>8, <1>9
<1>11. \A f, g \in P : f.epoch = g.epoch => f = g
  <2> HIDE DEF P
  <2> QED BY <1>1, <1>7, <1>8, <1>9
<1>12. \A f \in L, g \in P : f.epoch # g.epoch
  <2> HIDE DEF L, P
  <2> QED BY <1>1, <1>6, <1>7, <1>8, <1>9
<1>13. Apart(U) /\ Split(U)
  <2> HIDE DEF L, P
  <2> QED BY <1>5, <1>10, <1>11, <1>12 DEF Apart, Split
<1>14. Drawn(U, IF \E e \in U.live : e.epoch > n THEN n + 1 ELSE n)
  <2>1. ASSUME NEW f \in P PROVE 0 < f.epoch /\ f.epoch <= n /\ f.epoch \in Nat
    <3> HIDE DEF P
    <3> QED BY <1>1, <1>7, <1>9
  <2>2. ASSUME NEW f \in L PROVE f.epoch = n + 1 \/ (0 < f.epoch /\ f.epoch <= n /\ f.epoch \in Nat)
    <3> HIDE DEF L
    <3> QED BY <1>6, <1>9
  <2> HIDE DEF L, P
  <2>3. CASE \E e \in U.live : e.epoch > n
    BY <2>1, <2>2, <2>3, <1>5 DEF Drawn
  <2>4. CASE ~\E e \in U.live : e.epoch > n
    <3>1. n + 1 > n
      OBVIOUS
    <3> QED BY <2>1, <2>2, <2>4, <3>1, <1>5 DEF Drawn
  <2> QED BY <2>3, <2>4
<1>15. Grows(T, U)
  <2>1. ASSUME NEW e \in Rows(T) PROVE \E f \in L \cup P : f.epoch = e.epoch /\ (f = e \/ f.dirty)
    <3>1. CASE e \in T.pending
      BY <3>1
    <3>2. CASE e \in T.live \ old
      BY <3>2
    <3>3. CASE e \in old \ moved
      <4>1. k(e) \in L
        BY <3>3
      <4> HIDE DEF L
      <4> QED BY <3>3, <4>1, <1>1, <1>3
    <3>4. CASE e \in moved
      <4>1. c(e) \in P
        BY <3>4
      <4> HIDE DEF P
      <4> QED BY <3>4, <4>1, <1>1, <1>3
    <3> QED BY <3>1, <3>2, <3>3, <3>4, <2>1 DEF Rows
  <2>2. ASSUME NEW f \in L \cup P PROVE f.dirty \/ f \in Rows(T)
    <3> HIDE DEF L, P
    <3> QED BY <2>2, <1>6, <1>7, <1>9
  <2> HIDE DEF L, P
  <2> QED BY <2>1, <2>2, <1>5 DEF Grows
<1> QED BY <1>13, <1>14, <1>15 DEF U

LEMMA RetiredGrows ==
  ASSUME NEW T \in Trackers, NEW lamp \in Lamps, NEW elapsed \in Nat, NEW n \in Nat, Apart(T), Split(T), Drawn(T, n)
  PROVE  LET U == Retired(T, lamp, elapsed)
         IN /\ Apart(U) /\ Split(U) /\ Grows(T, U)
            /\ Drawn(U, IF \E e \in U.live : e.epoch > n THEN n + 1 ELSE n)
<1> DEFINE gone == {e \in Of(T, lamp) : ~e.retired}
           c(e) == [Accrued(e, elapsed) EXCEPT !.retired = TRUE, !.dirty = TRUE]
           closed == {c(e) : e \in gone}
           U == Retired(T, lamp, elapsed)
           L == (T.live \ gone) \cup closed
<1>1. gone \subseteq T.live /\ T.live \subseteq Counter /\ T.pending \subseteq Counter
  BY DEF Of, Trackers
<1>2. \A e \in Counter : c(e).epoch = e.epoch /\ c(e).dirty
  <2>1. ASSUME NEW a \in Counter
        PROVE  LET y == [a EXCEPT !.retired = TRUE, !.dirty = TRUE] IN y.epoch = a.epoch /\ y.dirty
    BY DEF Counter
  <2> QED BY <2>1, AccruedOK
<1>3. U.live = L /\ U.pending = T.pending /\ Rows(U) = L \cup T.pending
  <2>1. U = [T EXCEPT !.live = (@ \ gone) \cup closed]
    BY DEF Retired
  <2> HIDE DEF U, gone, closed
  <2> QED BY <2>1 DEF Trackers, Rows
<1> HIDE DEF U, gone, c
<1>5. ASSUME NEW f \in L PROVE \E e \in T.live : f.epoch = e.epoch /\ (f = e \/ f.dirty) /\ f = IF e \in gone THEN c(e) ELSE e
  <2>1. CASE f \in T.live \ gone
    BY <2>1
  <2>2. CASE f \in closed
    <3>1. PICK e \in gone : f = c(e)
      BY <2>2
    <3> QED BY <3>1, <1>1, <1>2
  <2> QED BY <1>5, <2>1, <2>2
<1>6. T.live \subseteq Rows(T) /\ T.pending \subseteq Rows(T) /\ T.live \cap T.pending = {} /\ \A e \in Rows(T) : 0 < e.epoch /\ e.epoch <= n /\ e.epoch \in Nat
  BY <1>1 DEF Rows, Split, Drawn, Counter
<1>7. \A e, f \in Rows(T) : e.epoch = f.epoch => e = f
  BY DEF Apart
<1>8. Apart(U) /\ Split(U)
  <2>1. \A f, g \in L : f.epoch = g.epoch => f = g
    <3> HIDE DEF L
    <3> QED BY <1>5, <1>6, <1>7
  <2>2. \A f \in L, g \in T.pending : f.epoch # g.epoch
    <3> HIDE DEF L
    <3> QED BY <1>5, <1>6, <1>7
  <2> HIDE DEF L
  <2> QED BY <1>3, <1>6, <1>7, <2>1, <2>2 DEF Apart, Split
<1>9. \A f \in Rows(U) : 0 < f.epoch /\ f.epoch <= n /\ f.epoch \in Nat
  <2> HIDE DEF L
  <2> QED BY <1>3, <1>5, <1>6
<1>10. Drawn(U, IF \E e \in U.live : e.epoch > n THEN n + 1 ELSE n)
  <2>1. CASE \E e \in U.live : e.epoch > n
    BY <1>9, <2>1 DEF Drawn, Rows
  <2>2. CASE ~\E e \in U.live : e.epoch > n
    BY <1>9, <2>2 DEF Drawn
  <2> QED BY <2>1, <2>2
<1>11. Grows(T, U)
  <2>1. ASSUME NEW e \in Rows(T) PROVE \E f \in L \cup T.pending : f.epoch = e.epoch /\ (f = e \/ f.dirty)
    <3>1. CASE e \in T.pending \/ e \in T.live \ gone
      BY <3>1
    <3>2. CASE e \in gone
      <4>1. c(e) \in L
        BY <3>2
      <4> HIDE DEF L
      <4> QED BY <3>2, <4>1, <1>1, <1>2
    <3> QED BY <2>1, <3>1, <3>2 DEF Rows
  <2>2. ASSUME NEW f \in L \cup T.pending PROVE f.dirty \/ f \in Rows(T)
    <3> HIDE DEF L
    <3> QED BY <2>2, <1>5, <1>6
  <2> HIDE DEF L
  <2> QED BY <2>1, <2>2, <1>3 DEF Grows
<1> QED BY <1>8, <1>10, <1>11 DEF U

LEMMA HeatedGrows ==
  ASSUME NEW T \in Trackers, NEW value \in Values, NEW elapsed \in Nat, Lone(T)
  PROVE  LET U == Heated(T, Boiler, value, elapsed) IN Lone(U) /\ Grows(T, U)
<1> DEFINE old == Of(T, Boiler)
           seconds == IF elapsed < MaxInterval THEN elapsed ELSE MaxInterval
           c(e) == [e EXCEPT !.seconds[e.was] = @ + seconds, !.was = value, !.dirty = TRUE]
           now == IF old = {} THEN {Entry(Boiler, NoArea, value, 0)} ELSE {c(e) : e \in old}
           U == Heated(T, Boiler, value, elapsed)
<1>1. old \subseteq T.live /\ T.live \subseteq Counter /\ \A e, f \in T.live : e = f
  BY DEF Of, Trackers, Lone
<1>2. \A e \in Counter : c(e).epoch = e.epoch /\ c(e).dirty
  <2> HIDE DEF seconds
  <2> QED BY DEF Counter
<1>3. U.live = (T.live \ old) \cup now /\ U.pending = T.pending
  <2>1. U = [T EXCEPT !.live = (@ \ old) \cup now]
    BY DEF Heated
  <2> HIDE DEF U, old, now
  <2> QED BY <2>1 DEF Trackers
<1>4. T.pending = {} /\ \A e \in T.live : e.epoch = 0 /\ e.lamp = Boiler
  BY DEF Lone
<1>5. Entry(Boiler, NoArea, value, 0).epoch = 0 /\ Entry(Boiler, NoArea, value, 0).dirty /\ Entry(Boiler, NoArea, value, 0).lamp = Boiler
  BY EntryOK DEF Entry
<1>6. old = T.live
  BY <1>4 DEF Of
<1>7. \A e \in Counter : c(e).lamp = e.lamp
  <2> HIDE DEF seconds
  <2> QED BY DEF Counter
<1> DEFINE first == Entry(Boiler, NoArea, value, 0)
<1> HIDE DEF U, c, old, first
<1>8. CASE T.live = {}
  <2>1. now = {first}
    BY <1>6, <1>8 DEF first
  <2>2. U.live = {first} /\ U.pending = {}
    BY <1>3, <1>4, <1>8, <2>1
  <2>3. first.epoch = 0 /\ first.dirty /\ first.lamp = Boiler
    BY <1>5 DEF first
  <2> QED BY <1>4, <1>8, <2>2, <2>3 DEF Lone, Grows, Rows, U
<1>9. ASSUME NEW e \in T.live PROVE Lone(U) /\ Grows(T, U)
  <2>1. T.live = {e} /\ e \in Counter
    BY <1>1
  <2>2. now = {c(e)}
    BY <1>6, <2>1
  <2>3. U.live = {c(e)} /\ U.pending = {}
    BY <1>3, <1>4, <1>6, <2>2
  <2>4. c(e).epoch = e.epoch /\ c(e).dirty /\ c(e).lamp = Boiler /\ e.epoch = 0
    BY <1>2, <1>4, <1>7, <2>1
  <2> QED BY <1>4, <2>1, <2>3, <2>4 DEF Lone, Grows, Rows
<1> QED BY <1>8, <1>9 DEF U

\* What onSyncResult does to a tracker.
Settled(T, reset, rows, ack) == ResetAcknowledged(Acknowledged(ResetApplied(T, reset), rows), ack)

\* What a reset takes.
Taken(T, reset) == {e.epoch : e \in Rows(T)} \ {e.epoch : e \in Rows(ResetApplied(T, reset))}

LEMMA AcknowledgedRows ==
  ASSUME NEW T \in Trackers, NEW rows
  PROVE  LET U == Acknowledged(T, rows)
         IN /\ \A f \in U.live : \E e \in T.live : f.epoch = e.epoch /\ f.seconds = e.seconds /\ f.lamp = e.lamp
            /\ U.pending \subseteq T.pending
            /\ \A e \in Rows(T) : e.dirty => e \in Rows(U) \/ InRows(e, rows)
<1> DEFINE done == {e \in T.live \cup T.pending : e.dirty /\ InRows(e, rows)}
           clean == {[e EXCEPT !.dirty = FALSE] : e \in {x \in T.live \cap done : ~x.retired}}
           U == Acknowledged(T, rows)
<1>1. T.live \subseteq Counter /\ T.pending \subseteq Counter
  BY DEF Trackers
<1>2. U.live = (T.live \ done) \cup clean /\ U.pending = T.pending \ done
  <2>1. U = [T EXCEPT !.pending = @ \ done, !.live = (@ \ done) \cup clean]
    BY DEF Acknowledged
  <2> HIDE DEF U, done, clean
  <2> QED BY <2>1 DEF Trackers
<1>3. \A e \in clean : \E x \in T.live : e = [x EXCEPT !.dirty = FALSE]
  OBVIOUS
<1>4. \A f \in clean : \E e \in T.live : f.epoch = e.epoch /\ f.seconds = e.seconds /\ f.lamp = e.lamp
  <2>1. ASSUME NEW x \in Counter, NEW f, f = [x EXCEPT !.dirty = FALSE]
        PROVE f.epoch = x.epoch /\ f.seconds = x.seconds /\ f.lamp = x.lamp
    BY <2>1 DEF Counter
  <2> TAKE f \in clean
  <2>2. PICK x \in T.live : f = [x EXCEPT !.dirty = FALSE]
    BY <1>3
  <2>3. x \in Counter
    BY <1>1
  <2> HIDE DEF clean
  <2> QED BY <2>1, <2>2, <2>3
<1>5. \A e \in T.live \cup T.pending : e.dirty => e \notin done \/ InRows(e, rows)
  OBVIOUS
<1> HIDE DEF U, done, clean
<1>6. \A f \in U.live : \E e \in T.live : f.epoch = e.epoch /\ f.seconds = e.seconds /\ f.lamp = e.lamp
  BY <1>2, <1>4
<1>7. \A e \in Rows(T) : e.dirty => e \in Rows(U) \/ InRows(e, rows)
  BY <1>2, <1>5 DEF Rows
<1>8. U.pending \subseteq T.pending
  BY <1>2
<1> QED BY <1>6, <1>7, <1>8 DEF U

LEMMA SettledSeconds ==
  ASSUME NEW T \in Trackers, NEW reset \in Nat, NEW rows, NEW ack \in Nat
  PROVE  LET U == Settled(T, reset, rows, ack)
         IN /\ \A f \in U.live : \E e \in T.live : f.epoch = e.epoch /\ f.seconds = e.seconds
            /\ U.pending \subseteq T.pending
<1> DEFINE V == ResetApplied(T, reset)
           W == Acknowledged(V, rows)
           U == Settled(T, reset, rows, ack)
<1>1. V \in Trackers /\ W \in Trackers
  <2>1. V \in Trackers
    BY AcknowledgedOK
  <2> QED BY <2>1, AcknowledgedOK
<1>2. U.live = W.live /\ U.pending = W.pending
  BY <1>1 DEF Settled, ResetAcknowledged, Trackers
<1>3. (V.live = {} /\ V.pending = {}) \/ V = T
  BY DEF ResetApplied, Tracker
<1>4. /\ \A f \in W.live : \E e \in V.live : f.epoch = e.epoch /\ f.seconds = e.seconds /\ f.lamp = e.lamp
      /\ W.pending \subseteq V.pending
  <2> HIDE DEF V
  <2> QED BY <1>1, AcknowledgedRows
<1> HIDE DEF V, W, U
<1> QED BY <1>2, <1>3, <1>4 DEF U

LEMMA SettledRows ==
  ASSUME NEW T \in Trackers, NEW reset \in Nat, NEW rows, NEW ack \in Nat
  PROVE  LET U == Settled(T, reset, rows, ack)
         IN \A e \in Rows(T) : e.dirty =>
              \/ e \in Rows(U)
              \/ e.epoch \in Taken(T, reset) \cup Cleared(ResetApplied(T, reset), rows)
              \/ \E r \in rows : r.epoch = e.epoch /\ r.seconds = e.seconds
<1> DEFINE V == ResetApplied(T, reset)
           W == Acknowledged(V, rows)
           U == Settled(T, reset, rows, ack)
<1>1. V \in Trackers /\ W \in Trackers
  <2>1. V \in Trackers
    BY AcknowledgedOK
  <2> QED BY <2>1, AcknowledgedOK
<1>2. U.live = W.live /\ U.pending = W.pending
  BY <1>1 DEF Settled, ResetAcknowledged, Trackers
<1>3. (V.live = {} /\ V.pending = {}) \/ V = T
  BY DEF ResetApplied, Tracker
<1>4. \A e \in Rows(V) : e.dirty => e \in Rows(W) \/ InRows(e, rows)
  <2> HIDE DEF V
  <2> QED BY <1>1, AcknowledgedRows
<1>5. ASSUME NEW e \in Rows(V), e.dirty, InRows(e, rows), e.epoch \notin Cleared(V, rows)
      PROVE  \E r \in rows : r.epoch = e.epoch /\ r.seconds = e.seconds
  <2>1. \E r \in rows : Key(r) = Key(e) /\ r.seconds = e.seconds
    <3> HIDE DEF V
    <3>1. ~(e.dirty /\ InRows(e, rows) /\ \A r \in rows : Key(r) = Key(e) => r.seconds # e.seconds)
      BY <1>5 DEF Cleared, Rows
    <3> QED BY <1>5, <3>1
  <2>2. \A r \in rows : Key(r) = Key(e) => r.epoch = e.epoch
    BY DEF Key
  <2> QED BY <2>1, <2>2
<1> HIDE DEF V, W, U
<1>6. CASE V = T
  BY <1>2, <1>4, <1>5, <1>6 DEF Rows, U, V
<1>7. CASE V.live = {} /\ V.pending = {}
  <2>1. \A e \in Rows(T) : e.epoch \in Taken(T, reset)
    BY <1>7 DEF Taken, Rows, V
  <2> QED BY <2>1 DEF U
<1> QED BY <1>3, <1>6, <1>7

(***************************************************************************)
(* The invariant.                                                           *)
(***************************************************************************)
Kept(E, H, n) == Apart(E) /\ Split(E) /\ Drawn(E, n) /\ Lone(H)
All == electric.live \cup electric.pending \cup heat.live

\* What memory holds of an epoch is what was counted, or was lost before.
Held == \A e \in All : e.epoch \in 0..MaxEpochs => e.seconds = past.counted[e.epoch] \/ e.epoch \in past.unsent

\* An upload is alone; its rows are dirty until it ends, and the platform's
\* once it has served them.
Uploading(s) ==
  syncs[s].pc \in Uploads =>
    LET rows == syncs[s].rows \cup syncs[s].heated
    IN /\ syncing /\ \A o \in Syncs \ {s} : syncs[o].pc \notin Uploads
       /\ \A r \in rows : \E e \in All : e.epoch = r.epoch /\ e.dirty
       /\ \A r, q \in rows : r.epoch = q.epoch => r = q
       /\ syncs[s].pc # "sent" => \A r \in rows : r.epoch \in 0..MaxEpochs => cloud.rows[r.epoch] = r.seconds

Counting ==
  /\ Kept(electric, heat, past.epochs) /\ Kept(disk.electric, disk.heat, past.epochs)
  /\ Held
  /\ ~past.raced => UsageAccounted /\ \A s \in Syncs : Uploading(s)

LEMMA CountingInit ==
  ASSUME Init
  PROVE  Counting
<1>1. electric = Tracker /\ heat = Tracker /\ disk.electric = Tracker /\ disk.heat = Tracker /\ Tracker.live = {} /\ Tracker.pending = {}
  BY DEF Init, Stored, Tracker
<1>2. \A n : Kept(Tracker, Tracker, n)
  BY <1>1 DEF Kept, Apart, Split, Drawn, Lone, Rows
<1>3. Held
  BY <1>1 DEF Held, All
<1>4. UsageAccounted
  BY DEF Init, UsageAccounted
<1>5. \A s \in Syncs : Uploading(s)
  BY DEF Init, Uploading, Quiet, Uploads
<1> QED BY <1>1, <1>2, <1>3, <1>4, <1>5 DEF Counting

\* A step that touches no counter, but for a save.
LEMMA CountingSame ==
  ASSUME TypeOK, Counting,
         UNCHANGED <<electric, heat, past>>, cloud'.rows = cloud.rows,
         \/ disk'.electric = disk.electric /\ disk'.heat = disk.heat
         \/ disk'.electric = electric /\ disk'.heat = heat,
         \A s \in Syncs : syncs'[s].pc \in Uploads =>
           /\ syncs[s].pc \in Uploads /\ syncs'[s].rows = syncs[s].rows /\ syncs'[s].heated = syncs[s].heated
           /\ syncs[s].pc = "sent" => syncs'[s].pc = "sent"
           /\ syncing => syncing'
  PROVE  Counting'
<1>1. Kept(electric, heat, past.epochs)' /\ Kept(disk.electric, disk.heat, past.epochs)' /\ Held'
  BY DEF Counting, Held, All
<1>2. ASSUME ~past'.raced PROVE UsageAccounted'
  BY <1>2 DEF Counting, UsageAccounted
<1>3. ASSUME ~past'.raced, NEW s \in Syncs PROVE Uploading(s)'
  <2>1. Uploading(s)
    BY <1>3 DEF Counting
  <2>2. All' = All
    BY DEF All
  <2> QED BY <2>1, <2>2 DEF Uploading
<1> QED BY <1>1, <1>2, <1>3 DEF Counting

\* An observation.
LEMMA CountedKeeps ==
  ASSUME TypeOK, Counting, TypeOK', Grows(electric, electric'), Grows(heat, heat'),
         Kept(electric, heat, past.epochs)', Counted(electric', heat'), UNCHANGED <<syncs, syncing, disk, cloud>>
  PROVE  Counting'
<1> DEFINE M == All
           N == electric'.live \cup electric'.pending \cup heat'.live
<1>0. /\ N = All' /\ N \subseteq Counter /\ M \subseteq Counter
      /\ past.counted \in [0..MaxEpochs -> [Values -> Nat]] /\ past.unsent \subseteq Nat /\ past.epochs \in Nat
  BY DEF TypeOK, Trackers, All, Pasts
<1>1. heat.pending = {} /\ heat'.pending = {}
  BY DEF Counting, Kept, Lone
<1>2. /\ \A e \in M : \E f \in N : f.epoch = e.epoch /\ (f = e \/ f.dirty)
      /\ \A f \in N : f.dirty \/ f \in M
  <2>1. M = Rows(electric) \cup Rows(heat) /\ N = Rows(electric') \cup Rows(heat')
    BY <1>1 DEF All, Rows
  <2> HIDE DEF M, N
  <2> QED BY <2>1 DEF Grows
<1>3. \A e, f \in N : e.epoch = f.epoch => e = f
  <2>1. \A e, f \in Rows(electric') : e.epoch = f.epoch => e = f
    BY DEF Kept, Apart
  <2>2. \A e \in Rows(electric') : 0 < e.epoch
    BY DEF Kept, Drawn
  <2>3. (\A e, f \in heat'.live : e = f) /\ \A e \in heat'.live : e.epoch = 0
    BY DEF Kept, Lone
  <2> QED BY <2>1, <2>2, <2>3 DEF Rows
<1> DEFINE counted == [k \in DOMAIN past.counted |-> IF \E e \in N : e.epoch = k THEN (CHOOSE e \in N : e.epoch = k).seconds ELSE past.counted[k]]
           unsent == past.unsent \ {e.epoch : e \in {x \in N : x.dirty}}
<1>4. past'.counted = counted /\ past'.unsent = unsent /\ past'.raced = past.raced
      /\ past'.epochs = IF \E e \in electric'.live : e.epoch > past.epochs THEN past.epochs + 1 ELSE past.epochs
  BY DEF Counted, TypeOK, Pasts
<1> HIDE DEF M, N
<1>5. \A f \in N : f.epoch \in 0..MaxEpochs => counted[f.epoch] = f.seconds
  <2>1. ASSUME NEW f \in N, f.epoch \in 0..MaxEpochs PROVE counted[f.epoch] = f.seconds
    <3>1. (CHOOSE e \in N : e.epoch = f.epoch) = f
      BY <1>3
    <3> QED BY <3>1, <2>1, <1>0
  <2> QED BY <2>1
<1>6. \A k \in 0..MaxEpochs : (~\E f \in N : f.epoch = k) => counted[k] = past.counted[k]
  BY <1>0
<1>7. DOMAIN counted = 0..MaxEpochs /\ DOMAIN past.counted = 0..MaxEpochs
  BY <1>0
<1>8. \A k : k \in past.unsent => k \in unsent \/ \E f \in N : f.epoch = k /\ f.dirty
  OBVIOUS
<1> HIDE DEF counted, unsent
<1>9. Held'
  BY <1>0, <1>4, <1>5 DEF Held
<1>10. ASSUME ~past.raced PROVE UsageAccounted'
  <2>1. \A k \in 0..MaxEpochs : cloud.rows[k] = past.counted[k] \/ k \in past.unsent \/ \E e \in M : e.epoch = k /\ e.dirty
    BY <1>7, <1>10 DEF Counting, UsageAccounted, All, M
  <2>2. \A e \in M : e.epoch \in 0..MaxEpochs => e.seconds = past.counted[e.epoch] \/ e.epoch \in past.unsent
    BY DEF Counting, Held, M
  <2>3. ASSUME NEW k \in 0..MaxEpochs, k \notin unsent, ~\E f \in N : f.epoch = k /\ f.dirty PROVE cloud.rows[k] = counted[k]
    <3>1. k \notin past.unsent
      BY <1>8, <2>3
    <3>2. ~\E e \in M : e.epoch = k /\ e.dirty
      BY <1>2, <2>3
    <3>3. cloud.rows[k] = past.counted[k]
      BY <2>1, <3>1, <3>2
    <3>4. CASE \E f \in N : f.epoch = k
      <4>1. PICK f \in N : f.epoch = k
        BY <3>4
      <4>2. f \in M
        BY <1>2, <2>3, <4>1
      <4>3. f.seconds = past.counted[k]
        BY <2>2, <3>1, <4>1, <4>2
      <4> QED BY <3>3, <4>1, <4>3, <1>5
    <3> QED BY <3>3, <3>4, <1>6
  <2>4. \A k \in DOMAIN past'.counted : cloud'.rows[k] = past'.counted[k] \/ k \in past'.unsent \/ \E e \in N : e.epoch = k /\ e.dirty
    BY <2>3, <1>4, <1>7
  <2> QED BY <2>4 DEF UsageAccounted, N
<1>11. ASSUME ~past.raced, NEW s \in Syncs PROVE Uploading(s)'
  <2>1. Uploading(s)
    BY <1>11 DEF Counting
  <2>2. \A r : (\E e \in M : e.epoch = r.epoch /\ e.dirty) => \E f \in N : f.epoch = r.epoch /\ f.dirty
    BY <1>2
  <2>3. M = All /\ N = All'
    BY <1>0 DEF M
  <2> QED BY <2>1, <2>2, <2>3 DEF Uploading
<1>12. Kept(disk.electric, disk.heat, past.epochs)'
  <2>1. disk.electric \in Trackers /\ disk.heat \in Trackers /\ past'.epochs >= past.epochs /\ past'.epochs \in Nat
    BY <1>0, <1>4 DEF TypeOK, Files
  <2>2. \A e \in Rows(disk.electric) : e.epoch \in Nat
    BY <2>1 DEF Trackers, Rows, Counter
  <2>3. Drawn(disk.electric, past.epochs) => Drawn(disk.electric, past'.epochs)
    BY <1>0, <2>1, <2>2 DEF Drawn
  <2> QED BY <2>3 DEF Counting, Kept
<1> QED BY <1>4, <1>9, <1>10, <1>11, <1>12 DEF Counting

LEMMA SettledKept ==
  ASSUME NEW T \in Trackers, NEW reset \in Nat, NEW rows, NEW ack \in Nat, NEW n
  PROVE  LET U == Settled(T, reset, rows, ack)
         IN /\ Apart(T) /\ Split(T) => Apart(U) /\ Split(U)
            /\ Drawn(T, n) => Drawn(U, n)
            /\ Lone(T) => Lone(U)
<1> DEFINE V == ResetApplied(T, reset)
           W == Acknowledged(V, rows)
           U == Settled(T, reset, rows, ack)
           done == {e \in V.live \cup V.pending : e.dirty /\ InRows(e, rows)}
           c(e) == [e EXCEPT !.dirty = FALSE]
           clean == {c(e) : e \in {x \in V.live \cap done : ~x.retired}}
<1>1. V \in Trackers /\ W \in Trackers
  <2>1. V \in Trackers
    BY AcknowledgedOK
  <2> QED BY <2>1, AcknowledgedOK
<1>2. U.live = W.live /\ U.pending = W.pending
  BY <1>1 DEF Settled, ResetAcknowledged, Trackers
<1>3. (V.live = {} /\ V.pending = {}) \/ V = T
  BY DEF ResetApplied, Tracker
<1>4. W.live = (V.live \ done) \cup clean /\ W.pending = V.pending \ done
  <2>1. W = [V EXCEPT !.pending = @ \ done, !.live = (@ \ done) \cup clean]
    BY DEF Acknowledged
  <2> HIDE DEF W, V, done, clean
  <2> QED BY <1>1, <2>1 DEF Trackers
<1>5. \A e \in V.live : c(e).epoch = e.epoch /\ c(e).lamp = e.lamp
  <2>1. ASSUME NEW e \in Counter PROVE c(e).epoch = e.epoch /\ c(e).lamp = e.lamp
    BY DEF Counter
  <2>2. V.live \subseteq Counter
    BY <1>1 DEF Trackers
  <2> HIDE DEF V, c
  <2> QED BY <2>1, <2>2
<1> HIDE DEF c
<1>6. ASSUME NEW f \in W.live
      PROVE \E e \in V.live : f.epoch = e.epoch /\ f.lamp = e.lamp /\ f = IF e \in done THEN c(e) ELSE e
  <2>1. CASE f \in V.live \ done
    BY <2>1
  <2>2. CASE f \in clean
    <3>1. PICK e \in V.live \cap done : f = c(e)
      BY <2>2
    <3> HIDE DEF V, done
    <3> QED BY <3>1, <1>5
  <2> HIDE DEF W, V, done, clean
  <2> QED BY <1>4, <1>6, <2>1, <2>2
<1> HIDE DEF V, W, U, done, clean
<1>7. CASE V = T
  <2>1. ASSUME Apart(T), Split(T) PROVE Apart(U) /\ Split(U)
    <3>1. \A f, g \in W.live : f.epoch = g.epoch => f = g
      BY <1>6, <1>7, <2>1 DEF Apart, Rows
    <3>2. \A f \in W.live, g \in W.pending : f.epoch # g.epoch
      BY <1>4, <1>6, <1>7, <2>1 DEF Apart, Split, Rows
    <3> QED BY <1>2, <1>4, <1>7, <2>1, <3>1, <3>2 DEF Apart, Split, Rows
  <2>2. ASSUME Drawn(T, n) PROVE Drawn(U, n)
    BY <1>2, <1>4, <1>6, <1>7, <2>2 DEF Drawn, Rows
  <2>3. ASSUME Lone(T) PROVE Lone(U)
    BY <1>2, <1>4, <1>6, <1>7, <2>3 DEF Lone
  <2> QED BY <2>1, <2>2, <2>3 DEF U
<1>8. CASE V.live = {} /\ V.pending = {}
  <2>1. U.live = {} /\ U.pending = {}
    BY <1>2, <1>4, <1>6, <1>8
  <2> QED BY <2>1 DEF Apart, Split, Drawn, Lone, Rows, U
<1> QED BY <1>3, <1>7, <1>8

LEMMA CountingObserved ==
  ASSUME TypeOK, TypeOK', Counting, Observations
  PROVE  Counting'
<1>0. /\ electric \in Trackers /\ heat \in Trackers /\ past.epochs \in Nat /\ past \in Pasts
      /\ Elapsed \subseteq Nat /\ Seen \subseteq Values
  BY PlatformAssumption DEF TypeOK, Pasts
<1>1. Apart(electric) /\ Split(electric) /\ Drawn(electric, past.epochs) /\ Lone(heat)
  BY DEF Counting, Kept
<1>2. \A T : Grows(T, T)
  BY DEF Grows
<1>3. ASSUME Counted(electric', heat')
      PROVE past'.epochs = IF \E e \in electric'.live : e.epoch > past.epochs THEN past.epochs + 1 ELSE past.epochs
  BY <1>0, <1>3 DEF Counted, Pasts
<1>4. ASSUME UNCHANGED <<heat, incidents, pairingVars, disk, cloud>>, Counted(electric', heat'),
             Apart(electric'), Split(electric'), Grows(electric, electric'),
             Drawn(electric', IF \E e \in electric'.live : e.epoch > past.epochs THEN past.epochs + 1 ELSE past.epochs)
      PROVE  Counting'
  <2>1. Kept(electric, heat, past.epochs)'
    BY <1>1, <1>3, <1>4 DEF Kept
  <2> QED BY <1>2, <1>4, <2>1, CountedKeeps DEF pairingVars
<1>5. ASSUME NEW l \in Lamps, NEW t \in Elapsed, LampRetired(l, t) PROVE Counting'
  <2>1. t \in Nat /\ electric' = Retired(electric, l, t)
    BY <1>0, <1>5 DEF LampRetired
  <2>2. UNCHANGED <<heat, incidents, pairingVars, disk, cloud>> /\ Counted(electric', heat')
    BY <1>5 DEF LampRetired
  <2> QED BY <1>0, <1>1, <1>4, <2>1, <2>2, RetiredGrows
<1>6. ASSUME NEW l \in Lamps, NEW t \in Elapsed, NEW a \in Areas, NEW v \in Seen, LampObserved(l, a, v, t) PROVE Counting'
  <2>1. t \in Nat /\ v \in Values /\ electric' = Observed(electric, l, a, v, t, past.epochs + 1)
    BY <1>0, <1>6 DEF LampObserved
  <2>2. UNCHANGED <<heat, incidents, pairingVars, disk, cloud>> /\ Counted(electric', heat')
    BY <1>6 DEF LampObserved
  <2> QED BY <1>0, <1>1, <1>4, <2>1, <2>2, ObservedGrows
<1>7. ASSUME NEW v \in Seen, NEW t \in Elapsed, BoilerObserved(v, t) PROVE Counting'
  <2>1. t \in Nat /\ v \in Values /\ heat' = Heated(heat, Boiler, v, t)
    BY <1>0, <1>7 DEF BoilerObserved
  <2>2. UNCHANGED <<electric, incidents, pairingVars, disk, cloud>> /\ Counted(electric', heat')
    BY <1>7 DEF BoilerObserved
  <2>3. Lone(heat') /\ Grows(heat, heat')
    BY <1>0, <1>1, <2>1, HeatedGrows
  <2>4. past'.epochs = past.epochs
    <3>1. \A e \in electric.live : ~(e.epoch > past.epochs)
      <4>1. \A e \in electric.live : e.epoch \in Nat /\ e.epoch <= past.epochs
        BY <1>0, <1>1 DEF Drawn, Rows, Trackers, Counter
      <4> QED BY <1>0, <4>1
    <3> QED BY <1>3, <2>2, <3>1
  <2>5. Kept(electric, heat, past.epochs)'
    BY <1>1, <2>2, <2>3, <2>4 DEF Kept
  <2> QED BY <1>2, <2>2, <2>3, <2>5, CountedKeeps DEF pairingVars
<1> QED BY <1>5, <1>6, <1>7 DEF Observations

\* A synchronisation begins, alone or as a race.
LEMMA CountingBegins ==
  ASSUME TypeOK, Counting, NEW s \in Syncs, Begins(s), UNCHANGED <<usage, disk, cloud>>,
         past' = past \/ past' = [past EXCEPT !.raced = @ \/ syncing],
         ~past'.raced => ~syncing
  PROVE  Counting'
<1>0. past \in Pasts /\ syncs \in [Syncs -> Call]
  BY DEF TypeOK, PairingOK
<1>1. past'.counted = past.counted /\ past'.unsent = past.unsent /\ past'.epochs = past.epochs /\ (past.raced => past'.raced)
  BY <1>0 DEF Pasts
<1>2. Kept(electric, heat, past.epochs)' /\ Kept(disk.electric, disk.heat, past.epochs)' /\ Held'
  BY <1>1 DEF Counting, Held, All, usage
<1>3. ASSUME ~past'.raced PROVE UsageAccounted'
  BY <1>1, <1>3 DEF Counting, UsageAccounted, usage
<1>4. ASSUME ~past'.raced, NEW o \in Syncs PROVE Uploading(o)'
  <2>1. ~syncing /\ syncing' /\ \A x \in Syncs : syncs[x].pc \notin Uploads
    BY <1>1, <1>4 DEF Counting, Uploading, Begins
  <2>2. syncs' = [syncs EXCEPT ![s] = Sent]
    BY DEF Begins
  <2>3. Sent.pc = "sent" /\ Sent.rows = Payload(electric) /\ Sent.heated = Payload(heat)
    BY DEF Sent, Quiet
  <2>4. syncs'[s] = Sent /\ \A x \in Syncs \ {s} : syncs'[x].pc \notin Uploads
    <3> HIDE DEF Sent
    <3> QED BY <1>0, <2>1, <2>2
  <2>5. \A r \in Payload(electric) \cup Payload(heat) :
          \E e \in All : e.dirty /\ r = [epoch |-> e.epoch, lamp |-> e.lamp, seconds |-> e.seconds]
    BY DEF Payload, All, Counting, Kept, Lone
  <2>6. \A e, f \in All : e.epoch = f.epoch => e = f
    <3>1. \A e, f \in Rows(electric) : e.epoch = f.epoch => e = f
      BY DEF Counting, Kept, Apart
    <3>2. \A e \in Rows(electric) : 0 < e.epoch
      BY DEF Counting, Kept, Drawn
    <3>3. (\A e, f \in heat.live : e = f) /\ \A e \in heat.live : e.epoch = 0
      BY DEF Counting, Kept, Lone
    <3> QED BY <3>1, <3>2, <3>3 DEF Rows, All
  <2>7. All' = All
    BY DEF All, usage
  <2>8. \A r, q \in Payload(electric) \cup Payload(heat) : r.epoch = q.epoch => r = q
    BY <2>5, <2>6
  <2>9. \A r \in Payload(electric) \cup Payload(heat) : \E e \in All : e.epoch = r.epoch /\ e.dirty
    BY <2>5
  <2> HIDE DEF Sent
  <2>10. CASE o = s
    BY <2>1, <2>3, <2>4, <2>7, <2>8, <2>9, <2>10 DEF Uploading
  <2>11. CASE o # s
    BY <2>4, <2>11 DEF Uploading
  <2> QED BY <2>10, <2>11
<1> QED BY <1>2, <1>3, <1>4 DEF Counting

LEMMA CountingServed ==
  ASSUME TypeOK, Counting, NEW s \in Syncs, Served(s)
  PROVE  Counting'
<1> DEFINE me == syncs[s]
           all == me.rows \cup me.heated
           rows == [k \in DOMAIN cloud.rows |-> IF \E r \in all : r.epoch = k THEN (CHOOSE r \in all : r.epoch = k).seconds ELSE cloud.rows[k]]
<1>0. me \in Call /\ syncs \in [Syncs -> Call] /\ cloud \in Clouds /\ past \in Pasts
  BY DEF TypeOK, PairingOK
<1>1. cloud'.rows = rows
  BY <1>0 DEF Served, Clouds
<1>2. UNCHANGED <<electric, heat, past, disk, syncing>> /\ me.pc = "sent"
  BY DEF Served, usage
<1>3. syncs'[s].pc = "answered" /\ syncs'[s].rows = me.rows /\ syncs'[s].heated = me.heated /\ \A o \in Syncs \ {s} : syncs'[o] = syncs[o]
  BY <1>0 DEF Served, Call
<1>4. Kept(electric, heat, past.epochs)' /\ Kept(disk.electric, disk.heat, past.epochs)' /\ Held'
  BY <1>2 DEF Counting, Held, All
<1>5. ASSUME ~past'.raced PROVE UsageAccounted' /\ \A o \in Syncs : Uploading(o)'
  <2>1. Uploading(s) /\ UsageAccounted /\ ~past.raced
    BY <1>2, <1>5 DEF Counting
  <2>2. /\ syncing /\ \A o \in Syncs \ {s} : syncs[o].pc \notin Uploads
        /\ \A r \in all : \E e \in All : e.epoch = r.epoch /\ e.dirty
        /\ \A r, q \in all : r.epoch = q.epoch => r = q
    BY <1>2, <2>1 DEF Uploading, Uploads
  <2> HIDE DEF all
  <2>3. \A r \in all : r.epoch \in 0..MaxEpochs => rows[r.epoch] = r.seconds
    <3>1. ASSUME NEW r \in all, r.epoch \in 0..MaxEpochs PROVE rows[r.epoch] = r.seconds
      <4>1. (CHOOSE q \in all : q.epoch = r.epoch) = r
        BY <2>2
      <4> QED BY <3>1, <4>1, <1>0 DEF Clouds
    <3> QED BY <3>1
  <2>4. \A k \in 0..MaxEpochs : (~\E r \in all : r.epoch = k) => rows[k] = cloud.rows[k]
    BY <1>0 DEF Clouds
  <2>5. DOMAIN past.counted = 0..MaxEpochs
    BY <1>0 DEF Pasts
  <2> HIDE DEF rows
  <2>6. UsageAccounted'
    BY <1>1, <1>2, <2>1, <2>2, <2>4, <2>5 DEF UsageAccounted, All
  <2>7. All' = All
    BY <1>2 DEF All
  <2>8. ASSUME NEW o \in Syncs PROVE Uploading(o)'
    <3>1. CASE o = s
      BY <1>1, <1>2, <1>3, <2>2, <2>3, <2>7, <3>1 DEF Uploading, all
    <3>2. CASE o # s
      BY <1>3, <2>2, <3>2 DEF Uploading
    <3> QED BY <3>1, <3>2
  <2> QED BY <2>6, <2>8
<1> QED BY <1>4, <1>5 DEF Counting

LEMMA CountingEnds ==
  ASSUME TypeOK, Counting, NEW s \in Syncs, SyncEnds(s)
  PROVE  Counting'
<1> DEFINE me == syncs[s]
           rows == me.rows \cup me.heated
           resets(T) == {e.epoch : e \in T.live \cup T.pending} \ {e.epoch : e \in ResetApplied(T, me.reset).live \cup ResetApplied(T, me.reset).pending}
           lost == Taken(electric, me.reset) \cup Taken(heat, me.reset)
                     \cup Cleared(ResetApplied(electric, me.reset), me.rows) \cup Cleared(ResetApplied(heat, me.reset), me.heated)
<1>0. /\ me \in Call /\ syncs \in [Syncs -> Call] /\ past \in Pasts /\ electric \in Trackers /\ heat \in Trackers
      /\ me.reset \in Nat /\ me.ack \in Nat /\ me.heatAck \in Nat /\ me.rows \in SUBSET Row /\ me.heated \in SUBSET Row
  BY DEF TypeOK, PairingOK, Call
<1>1. electric' = Settled(electric, me.reset, me.rows, me.ack) /\ heat' = Settled(heat, me.reset, me.heated, me.heatAck)
  BY DEF SyncEnds, Applied, HeatApplied, Settled
<1>2. past'.counted = past.counted /\ past'.epochs = past.epochs /\ past'.raced = past.raced /\ past'.unsent = past.unsent \cup lost
  <2>1. past' = [past EXCEPT !.unsent = @ \cup resets(electric) \cup resets(heat)
                   \cup Cleared(ResetApplied(electric, me.reset), me.rows) \cup Cleared(ResetApplied(heat, me.reset), me.heated)]
    BY DEF SyncEnds
  <2>2. \A T : resets(T) = Taken(T, me.reset)
    BY DEF Taken, Rows
  <2> HIDE DEF resets
  <2> QED BY <1>0, <2>1, <2>2 DEF Pasts
<1>3. me.pc = "saved" /\ UNCHANGED <<disk, cloud>> /\ syncs' = [syncs EXCEPT ![s] = Quiet]
  BY DEF SyncEnds
<1>4. syncs'[s].pc = "idle" /\ \A o \in Syncs \ {s} : syncs'[o] = syncs[o]
  BY <1>0, <1>3 DEF Quiet
<1>5. Kept(electric, heat, past.epochs)'
  <2>1. Apart(electric) /\ Split(electric) /\ Drawn(electric, past.epochs) /\ Lone(heat)
    BY DEF Counting, Kept
  <2>2. Apart(electric') /\ Split(electric') /\ Drawn(electric', past.epochs)
    BY <1>0, <1>1, <2>1, SettledKept
  <2>3. Lone(heat')
    BY <1>0, <1>1, <2>1, SettledKept
  <2> QED BY <1>2, <2>2, <2>3 DEF Kept
<1>6. Kept(disk.electric, disk.heat, past.epochs)'
  BY <1>2, <1>3 DEF Counting
<1>7. /\ \A f \in electric'.live : \E e \in electric.live : f.epoch = e.epoch /\ f.seconds = e.seconds
      /\ electric'.pending \subseteq electric.pending
      /\ \A f \in heat'.live : \E e \in heat.live : f.epoch = e.epoch /\ f.seconds = e.seconds
  BY <1>0, <1>1, SettledSeconds
<1>8. \A f \in All' : \E e \in All : f.epoch = e.epoch /\ f.seconds = e.seconds
  BY <1>7 DEF All
<1>9. Held'
  BY <1>2, <1>8 DEF Held, Counting
<1>10. \A e \in Rows(electric) : e.dirty =>
         \/ e \in Rows(electric')
         \/ e.epoch \in lost
         \/ \E r \in rows : r.epoch = e.epoch /\ r.seconds = e.seconds
  BY <1>0, <1>1, SettledRows
<1>11. \A e \in Rows(heat) : e.dirty =>
         \/ e \in Rows(heat')
         \/ e.epoch \in lost
         \/ \E r \in rows : r.epoch = e.epoch /\ r.seconds = e.seconds
  BY <1>0, <1>1, SettledRows
<1>12. heat'.pending = {} /\ heat.pending = {}
  BY <1>5 DEF Kept, Lone, Counting
<1>13. \A e \in All : e.dirty =>
         \/ e \in All'
         \/ e.epoch \in lost
         \/ \E r \in rows : r.epoch = e.epoch /\ r.seconds = e.seconds
  BY <1>10, <1>11, <1>12 DEF All, Rows
<1> HIDE DEF lost, rows
<1>14. ASSUME ~past'.raced PROVE UsageAccounted' /\ \A o \in Syncs : Uploading(o)'
  <2>1. Uploading(s) /\ UsageAccounted /\ ~past.raced /\ Held
    BY <1>2, <1>14 DEF Counting
  <2>2. /\ \A o \in Syncs \ {s} : syncs[o].pc \notin Uploads
        /\ \A r \in rows : r.epoch \in 0..MaxEpochs => cloud.rows[r.epoch] = r.seconds
    BY <1>3, <2>1 DEF Uploading, Uploads, rows
  <2>3. DOMAIN past.counted = 0..MaxEpochs
    BY <1>0 DEF Pasts
  <2>4. ASSUME NEW k \in 0..MaxEpochs
        PROVE cloud'.rows[k] = past'.counted[k] \/ k \in past'.unsent \/ \E e \in All' : e.epoch = k /\ e.dirty
    <3>1. cloud.rows[k] = past.counted[k] \/ k \in past.unsent \/ \E e \in All : e.epoch = k /\ e.dirty
      BY <2>1, <2>3 DEF UsageAccounted, All
    <3>2. ASSUME NEW e \in All, e.epoch = k, e.dirty, ~\E f \in All' : f.epoch = k /\ f.dirty, k \notin past'.unsent
          PROVE  cloud.rows[k] = past.counted[k]
      <4>1. PICK r \in rows : r.epoch = k /\ r.seconds = e.seconds
        BY <1>2, <1>13, <3>2
      <4>2. e.seconds = past.counted[k]
        BY <1>2, <2>1, <3>2 DEF Held
      <4> QED BY <2>2, <4>1, <4>2
    <3> QED BY <1>2, <1>3, <3>1, <3>2
  <2>5. UsageAccounted'
    BY <1>2, <2>3, <2>4 DEF UsageAccounted, All
  <2>6. \A o \in Syncs : syncs'[o].pc \notin Uploads
    BY <1>4, <2>2 DEF Uploads
  <2> QED BY <2>5, <2>6 DEF Uploading
<1> QED BY <1>5, <1>6, <1>9, <1>14 DEF Counting

LEMMA CountingCrash ==
  ASSUME TypeOK, Counting, Crash
  PROVE  Counting'
<1> DEFINE D == disk.electric.live \cup disk.electric.pending \cup disk.heat.live
           lost == {k \in DOMAIN past.counted :
                      ~\E e \in D : /\ e.epoch = k /\ e.seconds = past.counted[k]
                                    /\ e.dirty \/ ~\E x \in All : x.epoch = k /\ x.dirty}
<1>0. past \in Pasts /\ DOMAIN past.counted = 0..MaxEpochs
  BY DEF TypeOK, Pasts
<1>1. electric' = disk.electric /\ heat' = disk.heat /\ UNCHANGED <<disk, cloud>>
  BY DEF Crash
<1>2. past'.counted = past.counted /\ past'.epochs = past.epochs /\ past'.raced = past.raced /\ past'.unsent = past.unsent \cup lost
  BY <1>0 DEF Crash, Pasts, All
<1>3. \A s \in Syncs : syncs'[s].pc \notin Uploads
  BY DEF Crash, Quiet, Uploads
<1>4. Kept(electric, heat, past.epochs)' /\ Kept(disk.electric, disk.heat, past.epochs)'
  BY <1>1, <1>2 DEF Counting
<1>5. All' = D
  BY <1>1 DEF All
<1>6. \A e, f \in D : e.epoch = f.epoch => e = f
  <2>1. \A e, f \in Rows(disk.electric) : e.epoch = f.epoch => e = f
    BY DEF Counting, Kept, Apart
  <2>2. \A e \in Rows(disk.electric) : 0 < e.epoch
    BY DEF Counting, Kept, Drawn
  <2>3. (\A e, f \in disk.heat.live : e = f) /\ \A e \in disk.heat.live : e.epoch = 0
    BY DEF Counting, Kept, Lone
  <2> QED BY <2>1, <2>2, <2>3 DEF Rows
<1> HIDE DEF D
<1>7. Held'
  <2>1. ASSUME NEW f \in D, f.epoch \in 0..MaxEpochs, f.seconds # past.counted[f.epoch] PROVE f.epoch \in lost
    BY <1>0, <1>6, <2>1
  <2> HIDE DEF lost
  <2> QED BY <1>2, <1>5, <2>1 DEF Held
<1>8. ASSUME ~past'.raced PROVE UsageAccounted'
  <2>1. ASSUME NEW k \in 0..MaxEpochs
        PROVE cloud'.rows[k] = past'.counted[k] \/ k \in past'.unsent \/ \E e \in D : e.epoch = k /\ e.dirty
    <3>1. cloud.rows[k] = past.counted[k] \/ k \in past.unsent \/ \E e \in All : e.epoch = k /\ e.dirty
      BY <1>0, <1>2, <1>8 DEF UsageAccounted, All, Counting
    <3>2. (\E e \in All : e.epoch = k /\ e.dirty) => k \in lost \/ \E e \in D : e.epoch = k /\ e.dirty
      BY <1>0
    <3> HIDE DEF lost
    <3> QED BY <1>1, <1>2, <3>1, <3>2
  <2> QED BY <1>0, <1>2, <1>5, <2>1 DEF UsageAccounted, All
<1> QED BY <1>3, <1>4, <1>7, <1>8 DEF Counting, Uploading

LEMMA CountingStep ==
  ASSUME TypeOK, TypeOK', Counting, [Next]_vars
  PROVE  Counting'
<1>0. syncs \in [Syncs -> Call] /\ link \in Links /\ cloud \in Clouds /\ past \in Pasts
  BY DEF TypeOK, PairingOK
<1>1. ASSUME UNCHANGED <<electric, heat, past, disk, syncs, syncing>>, cloud'.rows = cloud.rows PROVE Counting'
  BY <1>1, CountingSame
<1>2. CASE UNCHANGED vars
  BY <1>1, <1>2 DEF vars, pairingVars, usage
<1>3. CASE Jobs \/ Checks \/ Sweeps \/ Hours \/ Changes
  BY <1>1, <1>3 DEF Jobs, Checks, Sweeps, Hours, Changes, Elsewhere, pairingVars, usage
<1>4. CASE RetryDue \/ AttemptRegistered
  BY <1>1, <1>4 DEF RetryDue, AttemptRegistered, usage
<1>5. CASE VersionAppears \/ UsageReset
  BY <1>0, <1>1, <1>5 DEF VersionAppears, UsageReset, pairingVars, usage, Clouds
<1>6. CASE Saved
  <2>1. disk' = Stored \/ disk' = disk
    BY <1>6 DEF Saved
  <2>2. \/ disk'.electric = disk.electric /\ disk'.heat = disk.heat
        \/ disk'.electric = electric /\ disk'.heat = heat
    BY <2>1 DEF Stored
  <2>3. UNCHANGED <<electric, heat, past, cloud, syncing>>
    BY <1>6 DEF Saved, usage
  <2>4. ASSUME NEW s \in Syncs, syncs'[s].pc \in Uploads
        PROVE  /\ syncs[s].pc \in Uploads /\ syncs'[s].rows = syncs[s].rows /\ syncs'[s].heated = syncs[s].heated
               /\ syncs[s].pc = "sent" => syncs'[s].pc = "sent"
    <3> DEFINE pc == CASE syncs[s].pc = "pairing" -> "paired" [] syncs[s].pc = "saving" -> "saved" [] OTHER -> syncs[s].pc
    <3>1. syncs'[s] = [syncs[s] EXCEPT !.pc = pc]
      BY <1>6 DEF Saved
    <3>2. pc \in Uploads => syncs[s].pc \in Uploads /\ (syncs[s].pc = "sent" => pc = "sent")
      BY DEF Uploads
    <3>3. syncs[s] \in Call
      BY <1>0
    <3> HIDE DEF pc
    <3> QED BY <2>4, <3>1, <3>2, <3>3 DEF Call
  <2> QED BY <2>2, <2>3, <2>4, CountingSame
<1>7. ASSUME NEW s \in Syncs, SyncStep(s) \/ HandshakeFails(s) \/ SyncFails(s), ~Served(s), ~SyncEnds(s) PROVE Counting'
  <2>0. syncs[s] \in Call
    BY <1>0
  \* A call that is in no upload, or in the same.
  <2>1. ASSUME NEW c \in Call, syncs' = [syncs EXCEPT ![s] = c], UNCHANGED <<electric, heat, past, disk, syncing>>, cloud'.rows = cloud.rows,
               c.pc \in Uploads => /\ syncs[s].pc \in Uploads /\ c.rows = syncs[s].rows /\ c.heated = syncs[s].heated
                                   /\ syncs[s].pc = "sent" => c.pc = "sent"
        PROVE  Counting'
    <3>1. syncs'[s] = c /\ \A o \in Syncs \ {s} : syncs'[o] = syncs[o]
      BY <1>0, <2>1
    <3> QED BY <2>1, <3>1, CountingSame
  <2>2. ASSUME NEW pc \in Phases, Go(s, pc), UNCHANGED <<electric, heat, past, disk, syncing>>, cloud'.rows = cloud.rows,
               pc \in Uploads => syncs[s].pc \in Uploads \ {"sent"}
        PROVE  Counting'
    <3> DEFINE c == [syncs[s] EXCEPT !.pc = pc]
    <3>1. c \in Call /\ c.pc = pc /\ c.rows = syncs[s].rows /\ c.heated = syncs[s].heated
      BY <2>0 DEF Call
    <3>2. syncs' = [syncs EXCEPT ![s] = c]
      BY <1>0, <2>2 DEF Go
    <3> HIDE DEF c
    <3> QED BY <2>1, <2>2, <3>1, <3>2
  <2>3. CASE SyncCalled(s)
    <3>1. Calls(s) /\ UNCHANGED <<usage, disk, cloud>>
      BY <2>3 DEF SyncCalled
    <3>2. CASE Begins(s) /\ UNCHANGED past
      BY <3>1, <3>2, CountingBegins DEF Calls
    <3>3. CASE ~(Begins(s) /\ UNCHANGED past)
      <4> DEFINE c == [Quiet EXCEPT !.pc = "challenged", !.attempt = link.attempt]
      <4>1. /\ syncs' = [syncs EXCEPT ![s] = c]
            /\ past' = [past EXCEPT !.raced = @ \/ \E o \in Syncs : syncs[o].pc # "idle"]
            /\ UNCHANGED syncing
        BY <3>1, <3>3 DEF Calls
      <4>2. c.pc = "challenged"
        BY DEF Quiet
      <4>3. syncs'[s].pc = "challenged" /\ \A o \in Syncs \ {s} : syncs'[o] = syncs[o]
        <5> HIDE DEF c
        <5> QED BY <1>0, <4>1, <4>2
      <4>4. past'.counted = past.counted /\ past'.unsent = past.unsent /\ past'.epochs = past.epochs /\ (past.raced => past'.raced)
        BY <1>0, <4>1 DEF Pasts
      <4>5. Kept(electric, heat, past.epochs)' /\ Kept(disk.electric, disk.heat, past.epochs)' /\ Held'
        BY <3>1, <4>4 DEF Counting, Held, All, usage
      <4>6. ASSUME ~past'.raced PROVE UsageAccounted'
        BY <3>1, <4>4, <4>6 DEF Counting, UsageAccounted, usage
      <4>7. ASSUME ~past'.raced, NEW o \in Syncs PROVE Uploading(o)'
        <5>1. Uploading(o)
          BY <4>4, <4>7 DEF Counting
        <5>2. All' = All
          BY <3>1 DEF All, usage
        <5>3. o # s \/ syncs'[o].pc \notin Uploads
          BY <4>3 DEF Uploads
        <5>4. "challenged" \notin Uploads
          BY DEF Uploads
        <5> QED BY <3>1, <4>1, <4>3, <5>1, <5>2, <5>3, <5>4 DEF Uploading
      <4> QED BY <4>5, <4>6, <4>7 DEF Counting
    <3> QED BY <3>2, <3>3
  <2>4. CASE SyncAfterHandshake(s)
    <3>1. Begins(s) /\ UNCHANGED <<usage, disk, cloud>> /\ past' = [past EXCEPT !.raced = @ \/ syncing]
      BY <2>4 DEF SyncAfterHandshake
    <3>2. ~past'.raced => ~syncing
      BY <1>0, <3>1 DEF Pasts
    <3> QED BY <3>1, <3>2, CountingBegins
  <2>5. CASE Proved(s)
    <3> DEFINE c == [syncs[s] EXCEPT !.pc = "proved", !.credential = cloud'.issued]
    <3>1. cloud'.rows = cloud.rows /\ cloud'.issued = cloud.issued + 1 /\ cloud'.issued \in Nat
      BY <1>0, <2>5 DEF Proved, Clouds
    <3>2. syncs' = [syncs EXCEPT ![s] = c]
      BY <1>0, <2>5, <3>1 DEF Proved
    <3>3. c \in Call /\ c.pc \notin Uploads
      BY <2>0, <3>1 DEF Call, Phases, Handshakes, Uploads
    <3> HIDE DEF c
    <3> QED BY <2>1, <2>5, <3>1, <3>2, <3>3 DEF Proved, usage
  <2>6. CASE CredentialKept(s)
    BY <2>2, <2>6 DEF CredentialKept, Phases, Handshakes, Uploads, usage
  <2>7. CASE CredentialAcknowledged(s)
    <3>1. cloud'.rows = cloud.rows
      BY <1>0, <2>7 DEF CredentialAcknowledged, Clouds
    <3> QED BY <2>2, <2>7, <3>1 DEF CredentialAcknowledged, Phases, Handshakes, Uploads, usage
  <2>8. CASE HandshakeCompletes(s)
    BY <2>2, <2>8 DEF HandshakeCompletes, Phases, Uploads, usage
  <2>9. CASE AnswerSaved(s)
    BY <2>2, <2>9 DEF AnswerSaved, Phases, Uploads, usage
  <2>10. CASE HandshakeFails(s)
    <3>1. Quiet \in Call /\ Quiet.pc \notin Uploads
      BY QuietOK DEF Quiet, Uploads
    <3> QED BY <2>1, <2>10, <3>1 DEF HandshakeFails, usage
  <2>11. CASE SyncFails(s)
    <3>1. syncs'[s].pc \notin Uploads /\ \A o \in Syncs \ {s} : syncs'[o] = syncs[o]
      BY <1>0, <2>11 DEF SyncFails, Quiet, Uploads
    <3>2. UNCHANGED <<electric, heat, past, disk, cloud>> /\ syncs[s].pc \in Uploads
      BY <2>11 DEF SyncFails, usage, Uploads
    <3>3. Kept(electric, heat, past.epochs)' /\ Kept(disk.electric, disk.heat, past.epochs)' /\ Held'
      BY <3>2 DEF Counting, Held, All
    <3>4. ASSUME ~past'.raced PROVE UsageAccounted'
      BY <3>2, <3>4 DEF Counting, UsageAccounted
    <3>5. ASSUME ~past'.raced, NEW o \in Syncs PROVE Uploading(o)'
      <4>1. Uploading(s)
        BY <3>2, <3>5 DEF Counting
      <4>2. syncs'[o].pc \notin Uploads
        BY <3>1, <3>2, <4>1 DEF Uploading
      <4> QED BY <4>2 DEF Uploading
    <3> QED BY <3>3, <3>4, <3>5 DEF Counting
  <2> QED BY <1>7, <2>3, <2>4, <2>5, <2>6, <2>7, <2>8, <2>9, <2>10, <2>11 DEF SyncStep
<1> QED BY <1>2, <1>3, <1>4, <1>5, <1>6, <1>7, CountingObserved, CountingServed, CountingEnds, CountingCrash DEF Next

\* Every second that was counted is the platform's, or in a row still to be
\* sent, unless an acknowledgement cleared what grew meanwhile, or a restart or
\* a reset took it, or two synchronisations ran at a time.
THEOREM UsageAccountedAlways == Spec => []UsageAccounted
<1>1. Init => TypeOK /\ Counting
  BY TypeInit, CountingInit
<1>2. (TypeOK /\ Counting) /\ [Next]_vars => (TypeOK /\ Counting)'
  BY TypeStep, CountingStep
<1>3. TypeOK /\ Counting => UsageAccounted
  BY DEF Counting, UsageAccounted
<1> QED BY <1>1, <1>2, <1>3, PTL DEF Spec

(***************************************************************************)
(* The outbox and what it says last of an incident.                         *)
(***************************************************************************)
Heard(box, i) == \E k \in DOMAIN box : box[k].id = i
LastAt(box, i, k) == k \in DOMAIN box /\ box[k].id = i /\ \A j \in DOMAIN box : j > k => box[j].id # i

\* A set of places that is not empty has a last one.
LEMMA HighestOf ==
  ASSUME NEW n \in Nat, NEW S \in SUBSET (1..n), S # {}
  PROVE  \E k \in S : \A j \in S : ~(j > k)
<1> DEFINE R == StrictSubsetOrdering(S)
           F == FiniteSubsetsOf(S)
           above(k) == {j \in S : j > k}
           T == {above(k) : k \in S}
<1>1. IsWellFoundedOn(R, F)
  BY FS_StrictSubsetOrderingWellFounded
<1>2. \A Y \in SUBSET S : IsFiniteSet(Y)
  <2> TAKE Y \in SUBSET S
  <2>1. Y \subseteq Nat /\ \A y \in Y : y <= n
    OBVIOUS
  <2> QED BY <2>1, FS_BoundedSetOfNaturals
<1>3. T \subseteq F /\ T # {}
  BY <1>2 DEF FiniteSubsetsOf
<1>4. \E x \in T : \A y \in T : ~(<<y, x>> \in R)
  <2> HIDE DEF R, F, T
  <2> QED BY <1>1, <1>3, WFMin
<1>5. PICK k \in S : \A j \in S : ~(<<above(j), above(k)>> \in R)
  BY <1>4
<1>6. ASSUME NEW j \in S, j > k PROVE FALSE
  <2>1. above(j) \subseteq above(k) /\ j \in above(k) /\ j \notin above(j)
    <3>1. S \subseteq Nat
      OBVIOUS
    <3>2. \A x \in S : x > j => x > k
      BY <1>6, <3>1
    <3>3. ~(j > j)
      BY <3>1
    <3> QED BY <1>6, <3>2, <3>3
  <2>2. above(j) \subseteq S /\ above(k) \subseteq S
    OBVIOUS
  <2> HIDE DEF above
  <2>3. <<above(j), above(k)>> \in R
    BY <2>1, <2>2 DEF StrictSubsetOrdering
  <2> QED BY <2>3, <1>5, <1>6
<1> QED BY <1>6

LEMMA LastHeard ==
  ASSUME NEW box \in Boxes, NEW i, Heard(box, i)
  PROVE  \E k : LastAt(box, i, k)
<1> DEFINE S == {k \in DOMAIN box : box[k].id = i}
<1>1. PICK n \in Nat : DOMAIN box = 1..n
  BY LenProperties DEF Boxes
<1>2. S \in SUBSET (1..n) /\ S # {}
  BY <1>1 DEF Heard
<1>3. PICK k \in S : \A j \in S : ~(j > k)
  <2> HIDE DEF S
  <2> QED BY <1>2, HighestOf
<1> QED BY <1>3 DEF LastAt

LEMMA LastWordIs ==
  ASSUME NEW box \in Boxes, NEW i, NEW w
  PROVE  /\ ~Heard(box, i) => LastWord(box, i, w) = w
         /\ \A k : LastAt(box, i, k) => LastWord(box, i, w) = box[k].state
<1> DEFINE last == {k \in DOMAIN box : box[k].id = i /\ \A j \in DOMAIN box : j > k => box[j].id # i}
<1>1. LastWord(box, i, w) = IF last = {} THEN w ELSE box[CHOOSE k \in last : TRUE].state
  BY DEF LastWord
<1>2. ~Heard(box, i) => last = {}
  BY DEF Heard
<1>3. DOMAIN box \subseteq Nat
  BY LenProperties DEF Boxes
<1>4. ASSUME NEW k, LastAt(box, i, k) PROVE LastWord(box, i, w) = box[k].state
  <2>1. k \in last
    BY <1>4 DEF LastAt
  <2>2. \A j \in last : j = k
    BY <1>3, <2>1
  <2>3. (CHOOSE j \in last : TRUE) = k
    BY <2>1, <2>2
  <2> HIDE DEF last
  <2> QED BY <1>1, <2>1, <2>3
<1> HIDE DEF last
<1> QED BY <1>1, <1>2, <1>4

\* An outbox that gained an envelope at its end, and perhaps lost its first.
Gained(box, new, env, d) ==
  /\ Len(new) = Len(box) + 1 - d /\ Len(new) > 0
  /\ \A k \in 1..Len(new) : new[k] = IF k + d <= Len(box) THEN box[k + d] ELSE env

LEMMA Shifted ==
  ASSUME NEW box \in Boxes, NEW new \in Boxes, NEW env \in Envelope, NEW d \in {0, 1}, Gained(box, new, env, d)
  PROVE  /\ Heard(new, env.id) /\ \A w : LastWord(new, env.id, w) = env.state
         /\ \A j : j # env.id /\ (d = 1 => box[1].id # j) =>
              /\ Heard(box, j) => Heard(new, j)
              /\ \A w : LastWord(new, j, w) = LastWord(box, j, w)
<1>0. PICK n \in Nat, m \in Nat : n = Len(box) /\ m = Len(new) /\ DOMAIN box = 1..n /\ DOMAIN new = 1..m /\ m = n + 1 - d /\ m > 0
  BY LenProperties DEF Boxes, Gained
<1>01. \A k \in 1..m : new[k] = IF k + d <= n THEN box[k + d] ELSE env
  BY <1>0 DEF Gained
<1>1. new[m] = env /\ m \in DOMAIN new
  BY <1>0, <1>01
<1>2. LastAt(new, env.id, m)
  BY <1>0, <1>1 DEF LastAt
<1>3. ASSUME NEW j, j # env.id, d = 1 => box[1].id # j
      PROVE  /\ Heard(box, j) <=> Heard(new, j)
             /\ \A w : LastWord(new, j, w) = LastWord(box, j, w)
  <2>1. ASSUME NEW k \in 1..n, box[k].id = j PROVE k - d \in 1..m /\ new[k - d] = box[k]
    BY <1>0, <1>01, <1>3, <2>1
  <2>2. ASSUME NEW k \in 1..m, new[k].id = j PROVE k + d \in 1..n /\ new[k] = box[k + d]
    BY <1>0, <1>01, <1>3, <2>2
  <2>3. Heard(box, j) <=> Heard(new, j)
    <3>1. (\E k \in 1..n : box[k].id = j) => \E k \in 1..m : new[k].id = j
      BY <2>1
    <3>2. (\E k \in 1..m : new[k].id = j) => \E k \in 1..n : box[k].id = j
      BY <2>2
    <3> QED BY <1>0, <3>1, <3>2 DEF Heard
  <2>4. ASSUME NEW k, LastAt(box, j, k) PROVE LastAt(new, j, k - d) /\ new[k - d] = box[k]
    <3>1. k \in 1..n /\ box[k].id = j
      BY <1>0, <2>4 DEF LastAt
    <3>2. ASSUME NEW q \in 1..m, q > k - d PROVE new[q].id # j
      <4>1. CASE new[q].id = j
        <5>1. q + d \in 1..n /\ new[q] = box[q + d]
          BY <2>2, <4>1
        <5>2. q + d > k
          BY <1>0, <3>1, <3>2
        <5> QED BY <1>0, <2>4, <4>1, <5>1, <5>2 DEF LastAt
      <4> QED BY <4>1
    <3> QED BY <1>0, <2>1, <3>1, <3>2 DEF LastAt
  <2>5. ASSUME NEW w PROVE LastWord(new, j, w) = LastWord(box, j, w)
    <3>1. CASE Heard(box, j)
      <4>1. PICK k : LastAt(box, j, k)
        BY <3>1, LastHeard
      <4>2. LastWord(box, j, w) = box[k].state
        BY <4>1, LastWordIs
      <4>3. LastAt(new, j, k - d) /\ new[k - d] = box[k]
        BY <2>4, <4>1
      <4>4. LastWord(new, j, w) = new[k - d].state
        BY <4>3, LastWordIs
      <4> QED BY <4>2, <4>3, <4>4
    <3>2. CASE ~Heard(box, j)
      <4>1. ~Heard(new, j)
        BY <2>3, <3>2
      <4> QED BY <3>2, <4>1, LastWordIs
    <3> QED BY <3>1, <3>2
  <2> QED BY <2>3, <2>5
<1>4. Heard(new, env.id) /\ \A w : LastWord(new, env.id, w) = env.state
  <2>1. Heard(new, env.id)
    BY <1>1 DEF Heard
  <2>2. ASSUME NEW w PROVE LastWord(new, env.id, w) = env.state
    <3>1. LastWord(new, env.id, w) = new[m].state
      BY <1>2, LastWordIs
    <3> QED BY <3>1, <1>1
  <2> QED BY <2>1, <2>2
<1> QED BY <1>3, <1>4

LEMMA QueuedWords ==
  ASSUME outbox \in Boxes, Len(outbox) <= MaxOutbox, NEW i \in Ids, NEW w \in Words, NEW r \in Nat, ~Masked(Tell(i, w, r))
  PROVE  LET new == Queued(Tell(i, w, r))
         IN /\ new \in Boxes /\ Len(new) <= MaxOutbox /\ new # outbox
            /\ Heard(new, i) /\ \A o : LastWord(new, i, o) = w
            /\ \A j : j # i /\ (Len(outbox) = MaxOutbox => Head(outbox).id # j) =>
                 /\ Heard(outbox, j) => Heard(new, j)
                 /\ \A o : LastWord(new, j, o) = LastWord(outbox, j, o)
<1> DEFINE t == Tell(i, w, r)
           e == [id |-> i, state |-> w, revision |-> r]
           box == Append(outbox, e)
           new == Queued(t)
<1>1. e \in Envelope /\ e.id = i /\ e.state = w /\ e.revision = r
  BY DEF Envelope
<1>2. t.id = i /\ t.state = w /\ t.revision = r
  BY DEF Tell
<1>3. new = IF Len(box) > MaxOutbox THEN Tail(box) ELSE box
  <2> HIDE DEF t
  <2> QED BY <1>2 DEF Queued, t
<1>4. PICK n \in Nat : n = Len(outbox) /\ DOMAIN outbox = 1..n /\ (\A k \in 1..n : outbox[k] \in Envelope)
  BY LenProperties DEF Boxes
<1>5. box \in Boxes /\ Len(box) = n + 1 /\ (\A k \in 1..n : box[k] = outbox[k]) /\ box[n + 1] = e
  <2> HIDE DEF e
  <2> QED BY <1>1, <1>4, AppendProperties DEF Boxes
<1>6. ~\E k \in 1..n : outbox[k].id = i /\ outbox[k].revision = r
  BY <1>2, <1>4 DEF Masked
<1>7. MaxOutbox \in Nat /\ MaxOutbox > 0
  BY IncidentsAssumption
<1> HIDE DEF e, box, t, new
<1>8. CASE n < MaxOutbox
  <2>1. new = box
    BY <1>3, <1>5, <1>7, <1>8
  <2>2. new \in Boxes /\ Len(new) = Len(outbox) + 1 - 0 /\ Len(new) <= MaxOutbox /\ Len(new) > 0 /\ new # outbox
    BY <1>4, <1>5, <1>7, <1>8, <2>1
  <2>3. \A k \in 1..Len(new) : new[k] = IF k + 0 <= Len(outbox) THEN outbox[k + 0] ELSE e
    BY <1>4, <1>5, <2>1
  <2>4. /\ Heard(new, e.id) /\ \A o : LastWord(new, e.id, o) = e.state
        /\ \A j : j # e.id =>
              /\ Heard(outbox, j) => Heard(new, j)
              /\ \A o : LastWord(new, j, o) = LastWord(outbox, j, o)
    <3>1. Gained(outbox, new, e, 0)
      BY <2>2, <2>3 DEF Gained
    <3> QED BY <1>1, <2>2, <3>1, Shifted
  <2> QED BY <1>1, <2>2, <2>4 DEF new, t
<1>9. CASE n = MaxOutbox
  <2>0. box # <<>>
    <3>1. Len(box) # 0
      BY <1>5
    <3>2. Len(<<>>) = 0
      OBVIOUS
    <3> QED BY <3>1, <3>2
  <2>1. new = Tail(box) /\ new \in Boxes /\ Len(new) = n /\ \A k \in 1..n : new[k] = box[k + 1]
    <3>1. new = Tail(box)
      BY <1>3, <1>5, <1>7, <1>9
    <3> QED BY <1>5, <3>1, <2>0, HeadTailProperties DEF Boxes
  <2>2. Len(new) = Len(outbox) + 1 - 1 /\ Len(new) <= MaxOutbox /\ Len(new) > 0
    BY <1>4, <1>7, <1>9, <2>1
  <2>3. \A k \in 1..Len(new) : new[k] = IF k + 1 <= Len(outbox) THEN outbox[k + 1] ELSE e
    BY <1>4, <1>5, <2>1
  <2>4. new # outbox
    <3>1. new[n] = e /\ n \in 1..n
      BY <1>4, <1>7, <1>9, <2>1, <2>3
    <3> QED BY <1>1, <1>6, <3>1
  <2>5. Head(outbox) = outbox[1]
    BY <1>4, <1>7, <1>9, HeadTailProperties DEF Boxes
  <2>6. /\ Heard(new, e.id) /\ \A o : LastWord(new, e.id, o) = e.state
        /\ \A j : j # e.id /\ outbox[1].id # j =>
              /\ Heard(outbox, j) => Heard(new, j)
              /\ \A o : LastWord(new, j, o) = LastWord(outbox, j, o)
    <3>1. Gained(outbox, new, e, 1)
      BY <2>2, <2>3 DEF Gained
    <3> QED BY <1>1, <2>1, <3>1, Shifted
  <2> QED BY <1>1, <1>4, <1>9, <2>1, <2>2, <2>4, <2>5, <2>6 DEF new, t
<1> QED BY <1>4, <1>7, <1>8, <1>9

(***************************************************************************)
(* What waits in the jobs and in the sweep.                                 *)
(***************************************************************************)
Device == "device_offline"
Radio == "integration_offline"
Openish(a) == a.state \in {"open", "recovering", "critical"}
Word(i) == LastWord(outbox, i, cloud.told[i])

HeadIs(j, do, i) == j # <<>> /\ Head(j).do = do /\ Head(j).id = i
JobWaits(do, i) == \E k \in DOMAIN jobs : HeadIs(jobs[k], do, i)
Waits(do, i) == JobWaits(do, i) \/ HeadIs(sweep.doing, do, i)

\* An outage that is open began before this hour, but for one an update brought.
Dated(i, a) ==
  a.state \in {"open", "recovering"} => a.revision > 0 /\ a.first <= hour /\ (a.first < hour \/ (hour = 0 /\ i = Device))

\* The tale of an outage waits while it is open, and no end of it waits then.
Sane(i) == Waits("tell", i) => Openish(active[i]) /\ ~Waits("save", i)

\* What was told and what waits agree with what is active.
Fit(i) ==
  /\ Waits("save", i) => Word(i) # "open"
  /\ ~Waits("save", i) /\ ~Waits("tell", i) => (Word(i) = "open" <=> Openish(active[i]))

\* What a step of i's plan o, or of a waiting element, does to what waits.
SameWaits(i) == (Waits("save", i)' <=> Waits("save", i)) /\ (Waits("tell", i)' <=> Waits("tell", i))
Turn(i, o) ==
  \/ o = <<>> /\ SameWaits(i)
  \/ \E v, a \in Case(i) : o # <<>> /\ Head(o) = Save(i, v, a) /\ (Openish(v) <=> Openish(active[i])) /\ SameWaits(i)
  \/ \E v \in Ended(i), a \in Case(i) : o # <<>> /\ Head(o) = Save(i, v, a) /\ Waits("save", i) /\ (Waits("tell", i)' <=> Waits("tell", i))
  \/ \E r \in Nat : o # <<>> /\ Head(o) = Tell(i, "open", r) /\ Waits("tell", i) /\ (Waits("save", i)' <=> Waits("save", i))
  \/ \E v, a \in Case(i) : o # <<>> /\ Head(o) = Save(i, v, a) /\ Openish(v) /\ ~Waits("save", i) /\ Waits("tell", i)' /\ ~Waits("save", i)'
  \/ \E r \in Nat : o # <<>> /\ Head(o) = Tell(i, "resolved", r) /\ ~Waits("tell", i) /\ ~Waits("tell", i)' /\ Waits("save", i)'

LEMMA PerformsWords ==
  ASSUME IncidentsOK, Len(outbox) <= MaxOutbox, NEW i \in Ids, NEW o, NEW also \in SUBSET Ids, Performs(o, also)
  PROVE  /\ o = <<>> => /\ UNCHANGED <<active, outbox>> /\ slips'.untold = slips.untold
                        /\ slips'.overtaken = slips.overtaken \cup also
         /\ \A v, a : o # <<>> /\ Head(o) = Save(i, v, a) =>
              /\ active' = [active EXCEPT ![i] = v] /\ outbox' = outbox
              /\ slips'.untold = slips.untold /\ slips'.overtaken = slips.overtaken \cup also
         /\ \A w \in Words, r \in Nat : o # <<>> /\ Head(o) = Tell(i, w, r) =>
              /\ active' = active /\ Len(outbox') <= MaxOutbox
              /\ slips'.overtaken = slips.overtaken \cup also
              /\ i \notin slips'.untold => Heard(outbox', i) /\ \A x : LastWord(outbox', i, x) = w
              /\ \A j \in Ids \ {i} : j \notin slips'.untold =>
                   /\ j \notin slips.untold
                   /\ Heard(outbox, j) => Heard(outbox', j)
                   /\ \A x : LastWord(outbox', j, x) = LastWord(outbox, j, x)
<1>0. slips \in Slips /\ outbox \in Boxes
  BY DEF IncidentsOK
<1>1. CASE o = <<>>
  BY <1>0, <1>1 DEF Performs, Slips
<1>2. ASSUME NEW v, NEW a, o # <<>>, Head(o) = Save(i, v, a)
      PROVE  /\ active' = [active EXCEPT ![i] = v] /\ outbox' = outbox
             /\ slips'.untold = slips.untold /\ slips'.overtaken = slips.overtaken \cup also
  <2> DEFINE e == Save(i, v, a)
  <2>1. e.do = "save" /\ e.id = i /\ e.value = v
    BY DEF Save
  <2> HIDE DEF e
  <2>2. Saves(e, also)
    BY <1>2, <2>1 DEF Performs, Tells, e
  <2> QED BY <1>0, <2>1, <2>2 DEF Saves, Slips
<1>3. ASSUME NEW w \in Words, NEW r \in Nat, o # <<>>, Head(o) = Tell(i, w, r)
      PROVE  /\ active' = active /\ Len(outbox') <= MaxOutbox
             /\ slips'.overtaken = slips.overtaken \cup also
             /\ i \notin slips'.untold => Heard(outbox', i) /\ \A x : LastWord(outbox', i, x) = w
             /\ \A j \in Ids \ {i} : j \notin slips'.untold =>
                  /\ j \notin slips.untold
                  /\ Heard(outbox, j) => Heard(outbox', j)
                  /\ \A x : LastWord(outbox', j, x) = LastWord(outbox, j, x)
  <2> DEFINE e == Tell(i, w, r)
  <2>1. e.do = "tell" /\ e.id = i /\ e.state = w
    BY DEF Tell
  <2>2. ~Masked(e) =>
            /\ Queued(e) \in Boxes /\ Len(Queued(e)) <= MaxOutbox /\ Queued(e) # outbox
            /\ Heard(Queued(e), i) /\ \A x : LastWord(Queued(e), i, x) = w
            /\ \A j : j # i /\ (Len(outbox) = MaxOutbox => Head(outbox).id # j) =>
                 /\ Heard(outbox, j) => Heard(Queued(e), j)
                 /\ \A x : LastWord(Queued(e), j, x) = LastWord(outbox, j, x)
    BY <1>0, QueuedWords
  <2> HIDE DEF e
  <2>3. Tells(e, also)
    BY <1>3, <2>1 DEF Performs, Saves, e
  <2>4. PICK again \in {FALSE, (<<e.id, e.state>> \in recent)} :
          LET lost == {j \in Ids : Len(outbox) = MaxOutbox /\ outbox' # outbox /\ Head(outbox).id = j}
              unheard == {j \in {e.id} : (again \/ Masked(e)) /\ LastWord(outbox, j, "none") # e.state}
          IN /\ outbox' = IF again THEN outbox ELSE Queued(e)
             /\ slips' = [slips EXCEPT !.overtaken = @ \cup also, !.untold = (@ \ {e.id}) \cup lost \cup unheard]
    BY <2>3 DEF Tells
  <2> DEFINE lost == {j \in Ids : Len(outbox) = MaxOutbox /\ outbox' # outbox /\ Head(outbox).id = j}
             unheard == {j \in {i} : (again \/ Masked(e)) /\ LastWord(outbox, j, "none") # w}
  <2>5. slips'.overtaken = slips.overtaken \cup also /\ slips'.untold = (slips.untold \ {i}) \cup lost \cup unheard
    <3>1. slips' = [slips EXCEPT !.overtaken = @ \cup also, !.untold = (@ \ {i}) \cup lost \cup unheard]
      BY <2>1, <2>4
    <3> HIDE DEF lost, unheard
    <3> QED BY <1>0, <3>1 DEF Slips
  <2>6. outbox' = IF again THEN outbox ELSE Queued(e)
    BY <2>4
  <2>7. active' = active
    BY <2>3 DEF Tells
  <2>8. CASE again \/ Masked(e)
    <3>1. outbox' = outbox
      BY <2>6, <2>8 DEF Queued
    <3>2. lost = {}
      BY <3>1
    <3>3. ASSUME i \notin slips'.untold PROVE Heard(outbox, i) /\ \A x : LastWord(outbox, i, x) = w
      <4>1. LastWord(outbox, i, "none") = w
        BY <2>5, <2>8, <3>3
      <4>2. w # "none"
        BY DEF Words
      <4>3. Heard(outbox, i)
        BY <1>0, <4>1, <4>2, LastWordIs
      <4>4. PICK k : LastAt(outbox, i, k)
        BY <1>0, <4>3, LastHeard
      <4>5. \A x : LastWord(outbox, i, x) = outbox[k].state
        BY <1>0, <4>4, LastWordIs
      <4> QED BY <4>1, <4>3, <4>5
    <3> HIDE DEF lost, unheard
    <3> QED BY <2>5, <2>7, <3>1, <3>3
  <2>9. CASE ~again /\ ~Masked(e)
    <3>1. outbox' = Queued(e)
      BY <2>6, <2>9
    <3>2. \A j \in Ids : j \notin slips'.untold => (j = i \/ j \notin slips.untold) /\ (Len(outbox) = MaxOutbox => Head(outbox).id # j)
      BY <2>2, <2>5, <2>9, <3>1
    <3> HIDE DEF lost, unheard
    <3> QED BY <2>2, <2>5, <2>7, <2>9, <3>1, <3>2
  <2> QED BY <2>8, <2>9
<1> QED BY <1>1, <1>2, <1>3

\* A turn of i leaves each incident sane and fit that was.
LEMMA TurnFits ==
  ASSUME IncidentsOK, Len(outbox) <= MaxOutbox, NEW i \in Ids, NEW o, NEW also \in SUBSET Ids, Performs(o, also),
         cloud' = cloud, Sane(i), Turn(i, o), \A j \in Ids \ {i} : SameWaits(j)
  PROVE  /\ Sane(i)' /\ \A j \in Ids \ {i} : Sane(j) => Sane(j)'
         /\ \A j \in Ids : j \notin slips'.untold /\ (j \notin slips.untold => Fit(j)) => Fit(j)'
<1>0. active \in [Ids -> Incident]
  BY DEF IncidentsOK
<1>1. CASE o = <<>> /\ SameWaits(i)
  <2>1. UNCHANGED <<active, outbox>> /\ slips'.untold = slips.untold
    BY <1>1, PerformsWords
  <2> QED BY <1>1, <2>1 DEF SameWaits, Sane, Fit, Word
<1>2. ASSUME NEW v \in Case(i), NEW a, o # <<>>, Head(o) = Save(i, v, a), Sane(i)',
             Word(i)' = Word(i) /\ Fit(i) => Fit(i)'
      PROVE  /\ Sane(i)' /\ \A j \in Ids \ {i} : Sane(j) => Sane(j)'
             /\ \A j \in Ids : j \notin slips'.untold /\ (j \notin slips.untold => Fit(j)) => Fit(j)'
  <2>1. active' = [active EXCEPT ![i] = v] /\ outbox' = outbox /\ slips'.untold = slips.untold
    BY <1>2, PerformsWords
  <2>2. \A j \in Ids \ {i} : active'[j] = active[j]
    BY <1>0, <2>1
  <2>3. \A j \in Ids : Word(j)' = Word(j)
    BY <2>1 DEF Word
  <2>4. \A j \in Ids \ {i} : (Sane(j) => Sane(j)') /\ (Fit(j) => Fit(j)')
    BY <2>2, <2>3 DEF SameWaits, Sane, Fit
  <2> QED BY <1>2, <2>1, <2>3, <2>4
<1>3. ASSUME NEW w \in Words, NEW r \in Nat, o # <<>>, Head(o) = Tell(i, w, r), Sane(i)', i \notin slips'.untold /\ Word(i)' = w => Fit(i)'
      PROVE  /\ Sane(i)' /\ \A j \in Ids \ {i} : Sane(j) => Sane(j)'
             /\ \A j \in Ids : j \notin slips'.untold /\ (j \notin slips.untold => Fit(j)) => Fit(j)'
  <2>1. active' = active
    BY <1>3, PerformsWords
  <2>2. i \notin slips'.untold => Word(i)' = w
    <3>1. i \notin slips'.untold => \A x : LastWord(outbox', i, x) = w
      BY <1>3, PerformsWords
    <3> QED BY <3>1 DEF Word
  <2>3. \A j \in Ids \ {i} : j \notin slips'.untold => j \notin slips.untold /\ Word(j)' = Word(j)
    <3>1. \A j \in Ids \ {i} : j \notin slips'.untold => j \notin slips.untold /\ \A x : LastWord(outbox', j, x) = LastWord(outbox, j, x)
      BY <1>3, PerformsWords
    <3> QED BY <3>1 DEF Word
  <2>4. \A j \in Ids \ {i} : (Sane(j) => Sane(j)') /\ (Word(j)' = Word(j) /\ Fit(j) => Fit(j)')
    BY <2>1 DEF SameWaits, Sane, Fit
  <2> QED BY <1>3, <2>2, <2>3, <2>4
<1>4. ASSUME NEW v \in Case(i), NEW a \in Case(i), o # <<>>, Head(o) = Save(i, v, a) PROVE active'[i] = v
  <2>1. active' = [active EXCEPT ![i] = v]
    BY <1>4, PerformsWords
  <2> QED BY <1>0, <2>1
<1>5. ASSUME NEW v \in Case(i), NEW a \in Case(i), o # <<>>, Head(o) = Save(i, v, a), Openish(v) <=> Openish(active[i]), SameWaits(i)
      PROVE  Sane(i)' /\ (Word(i)' = Word(i) /\ Fit(i) => Fit(i)')
  BY <1>4, <1>5 DEF SameWaits, Sane, Fit
<1>6. ASSUME NEW v \in Ended(i), NEW a \in Case(i), o # <<>>, Head(o) = Save(i, v, a), Waits("save", i), Waits("tell", i)' <=> Waits("tell", i)
      PROVE  v \in Case(i) /\ Sane(i)' /\ (Word(i)' = Word(i) /\ Fit(i) => Fit(i)')
  <2>1. v \in Case(i) /\ ~Openish(v)
    BY DEF Ended, Openish
  <2> QED BY <1>4, <1>6, <2>1 DEF Sane, Fit
<1>7. ASSUME NEW v \in Case(i), NEW a \in Case(i), o # <<>>, Head(o) = Save(i, v, a), Openish(v), Waits("tell", i)', ~Waits("save", i)'
      PROVE  Sane(i)' /\ (Word(i)' = Word(i) /\ Fit(i) => Fit(i)')
  BY <1>4, <1>7 DEF Sane, Fit
<1>8. ASSUME NEW r \in Nat, o # <<>>, Head(o) = Tell(i, "open", r), Waits("tell", i), Waits("save", i)' <=> Waits("save", i)
      PROVE  Sane(i)' /\ (Word(i)' = "open" => Fit(i)')
  <2>1. active' = active
    BY <1>8, PerformsWords DEF Words
  <2> QED BY <1>8, <2>1 DEF Sane, Fit
<1>9. ASSUME NEW r \in Nat, o # <<>>, Head(o) = Tell(i, "resolved", r), ~Waits("tell", i)', Waits("save", i)'
      PROVE  Sane(i)' /\ (Word(i)' = "resolved" => Fit(i)')
  BY <1>9 DEF Sane, Fit
<1>10. "open" \in Words /\ "resolved" \in Words
  BY DEF Words
<1> QED BY <1>1, <1>2, <1>3, <1>5, <1>6, <1>7, <1>8, <1>9, <1>10 DEF Turn

(***************************************************************************)
(* How a step changes what waits.                                           *)
(***************************************************************************)
Dos == {"save", "tell"}
NoHead(j) == \A do \in Dos, i \in Ids : ~HeadIs(j, do, i)

\* A place of the jobs or of the sweep had was to do and has left now.
Replaces(was, left) ==
  \A do \in Dos, i \in Ids :
    /\ HeadIs(was, do, i) => Waits(do, i)
    /\ HeadIs(left, do, i) => Waits(do, i)'
    /\ Waits(do, i) => HeadIs(was, do, i) \/ Waits(do, i)'
    /\ Waits(do, i)' => HeadIs(left, do, i) \/ Waits(do, i)

LEMMA JobReplaces ==
  ASSUME jobs \in Seq(Job), NEW k \in DOMAIN jobs, NEW r, jobs' = After(k, r), sweep' = sweep
  PROVE  /\ Replaces(jobs[k], r)
         /\ \A do \in Dos, i \in Ids : JobWaits(do, i)' => HeadIs(r, do, i) \/ JobWaits(do, i)
<1> SUFFICES ASSUME NEW do \in Dos, NEW i \in Ids
             PROVE  /\ JobWaits(do, i)' => HeadIs(r, do, i) \/ JobWaits(do, i)
                    /\ HeadIs(jobs[k], do, i) => Waits(do, i)
                    /\ HeadIs(r, do, i) => Waits(do, i)'
                    /\ Waits(do, i) => HeadIs(jobs[k], do, i) \/ Waits(do, i)'
                    /\ Waits(do, i)' => HeadIs(r, do, i) \/ Waits(do, i)
  BY DEF Replaces
<1>1. PICK n \in Nat : n = Len(jobs) /\ DOMAIN jobs = 1..n
  BY LenProperties
<1>2. HeadIs(sweep.doing, do, i)' <=> HeadIs(sweep.doing, do, i)
  BY DEF HeadIs
<1>3. HeadIs(jobs[k], do, i) => JobWaits(do, i)
  BY DEF JobWaits
<1>4. CASE r = <<>>
  <2>1. jobs' = [m \in 1..n - 1 |-> IF m < k THEN jobs[m] ELSE jobs[m + 1]]
    BY <1>1, <1>4 DEF After
  <2>2. DOMAIN jobs' = 1..n - 1 /\ \A m \in 1..n - 1 : jobs'[m] = IF m < k THEN jobs[m] ELSE jobs[m + 1]
    BY <2>1
  <2>3. ASSUME NEW m \in DOMAIN jobs, HeadIs(jobs[m], do, i), m # k PROVE JobWaits(do, i)'
    <3>1. CASE m < k
      <4>1. m \in DOMAIN jobs' /\ jobs'[m] = jobs[m]
        BY <1>1, <2>2, <3>1
      <4> QED BY <2>3, <4>1 DEF JobWaits, HeadIs
    <3>2. CASE m > k
      <4>1. m - 1 \in DOMAIN jobs' /\ jobs'[m - 1] = jobs[m]
        BY <1>1, <2>2, <3>2
      <4> QED BY <2>3, <4>1 DEF JobWaits, HeadIs
    <3> QED BY <1>1, <2>3, <3>1, <3>2
  <2>4. ASSUME NEW m \in DOMAIN jobs', HeadIs(jobs'[m], do, i) PROVE JobWaits(do, i)
    <3>1. (jobs'[m] = jobs[m] /\ m \in DOMAIN jobs) \/ (jobs'[m] = jobs[m + 1] /\ m + 1 \in DOMAIN jobs)
      BY <1>1, <2>2, <2>4
    <3> QED BY <2>4, <3>1 DEF JobWaits
  <2>5. JobWaits(do, i) => HeadIs(jobs[k], do, i) \/ JobWaits(do, i)'
    BY <2>3 DEF JobWaits
  <2>6. JobWaits(do, i)' => JobWaits(do, i)
    BY <2>4 DEF JobWaits, HeadIs
  <2>7. ~HeadIs(r, do, i)
    BY <1>4 DEF HeadIs
  <2> QED BY <1>2, <1>3, <2>5, <2>6, <2>7 DEF Waits
<1>5. CASE r # <<>>
  <2>1. jobs' = [jobs EXCEPT ![k] = r]
    BY <1>5 DEF After
  <2>2. DOMAIN jobs' = DOMAIN jobs /\ jobs'[k] = r /\ \A m \in DOMAIN jobs : m # k => jobs'[m] = jobs[m]
    BY <2>1
  <2>3. JobWaits(do, i)' <=> \E m \in DOMAIN jobs' : HeadIs(jobs'[m], do, i)
    BY DEF JobWaits, HeadIs
  <2>4. /\ HeadIs(r, do, i) => JobWaits(do, i)'
        /\ JobWaits(do, i) => HeadIs(jobs[k], do, i) \/ JobWaits(do, i)'
        /\ JobWaits(do, i)' => HeadIs(r, do, i) \/ JobWaits(do, i)
    BY <2>2, <2>3 DEF JobWaits
  <2> QED BY <1>2, <1>3, <2>4 DEF Waits
<1> QED BY <1>4, <1>5

LEMMA GrownReplaces ==
  ASSUME jobs \in Seq(Job), NEW r \in Job \cup {<<>>}, jobs' = jobs \o With(r), sweep' = sweep
  PROVE  /\ Replaces(<<>>, r)
         /\ \A do \in Dos, i \in Ids : JobWaits(do, i)' => HeadIs(r, do, i) \/ JobWaits(do, i)
         /\ DOMAIN jobs \subseteq DOMAIN jobs' /\ \A k \in DOMAIN jobs : jobs'[k] = jobs[k]
         /\ \A k \in DOMAIN jobs' \ DOMAIN jobs : jobs'[k] = r
<1>1. PICK n \in Nat : n = Len(jobs) /\ DOMAIN jobs = 1..n
  BY LenProperties
<1>2. CASE r = <<>>
  <2>1. jobs' = jobs
    <3>1. With(r) = <<>>
      BY <1>2 DEF With
    <3> QED BY <3>1, ConcatEmptySeq
  <2>2. \A do, i : ~HeadIs(<<>>, do, i)
    BY DEF HeadIs
  <2>3. \A do, i : JobWaits(do, i)' <=> JobWaits(do, i)
    BY <2>1 DEF JobWaits, HeadIs
  <2>4. \A do, i : HeadIs(sweep.doing, do, i)' <=> HeadIs(sweep.doing, do, i)
    BY DEF HeadIs
  <2>5. Replaces(<<>>, r)
    BY <1>2, <2>2, <2>3, <2>4 DEF Replaces, Waits
  <2> QED BY <2>1, <2>3, <2>5
<1>3. CASE r # <<>>
  <2>1. With(r) = <<r>> /\ r \in Job
    BY <1>3 DEF With
  <2>2. DOMAIN jobs' = 1..n + 1 /\ (\A k \in 1..n : jobs'[k] = jobs[k]) /\ jobs'[n + 1] = r
    <3> DEFINE w == <<r>>
    <3>1. w \in Seq(Job) /\ Len(w) = 1 /\ w[1] = r
      BY <2>1
    <3>2. jobs' = jobs \o w
      BY <2>1
    <3> HIDE DEF w
    <3> DEFINE J == jobs \o w
    <3>3. J \in Seq(Job) /\ Len(J) = Len(jobs) + Len(w)
          /\ \A k \in 1..Len(jobs) + Len(w) : J[k] = IF k <= Len(jobs) THEN jobs[k] ELSE w[k - Len(jobs)]
      BY <3>1, ConcatProperties
    <3>30. jobs' = J
      BY <3>2
    <3> HIDE DEF J
    <3>31. Len(jobs') = n + 1 /\ \A k \in 1..n + 1 : jobs'[k] = IF k <= n THEN jobs[k] ELSE w[k - n]
      BY <1>1, <3>1, <3>3, <3>30
    <3>32. (\A k \in 1..n : jobs'[k] = jobs[k]) /\ jobs'[n + 1] = w[1]
      BY <1>1, <3>31
    <3>4. DOMAIN jobs' = 1..Len(jobs')
      BY <3>3, <3>30, LenProperties
    <3> QED BY <3>1, <3>31, <3>32, <3>4
  <2>3. \A do, i : JobWaits(do, i)' <=> \E m \in DOMAIN jobs' : HeadIs(jobs'[m], do, i)
    BY DEF JobWaits, HeadIs
  <2>4. \A do, i : JobWaits(do, i)' <=> (JobWaits(do, i) \/ HeadIs(r, do, i))
    <3> SUFFICES ASSUME NEW do, NEW i PROVE JobWaits(do, i)' <=> (JobWaits(do, i) \/ HeadIs(r, do, i))
      OBVIOUS
    <3>1. \A m \in DOMAIN jobs' : m \in DOMAIN jobs \/ m = n + 1
      BY <1>1, <2>2
    <3>2. DOMAIN jobs \subseteq DOMAIN jobs' /\ n + 1 \in DOMAIN jobs'
      BY <1>1, <2>2
    <3> QED BY <1>1, <2>2, <2>3, <3>1, <3>2 DEF JobWaits
  <2>5. \A do, i : HeadIs(sweep.doing, do, i)' <=> HeadIs(sweep.doing, do, i)
    BY DEF HeadIs
  <2>6. \A do, i : ~HeadIs(<<>>, do, i)
    BY DEF HeadIs
  <2>7. Replaces(<<>>, r)
    BY <2>4, <2>5, <2>6 DEF Replaces, Waits
  <2> QED BY <1>1, <2>2, <2>4, <2>7
<1> QED BY <1>2, <1>3

LEMMA SweepReplaces ==
  ASSUME NEW r, jobs' = jobs, sweep'.doing = r
  PROVE  Replaces(sweep.doing, r) /\ \A do, i : JobWaits(do, i)' <=> JobWaits(do, i)
<1>1. \A do, i : JobWaits(do, i)' <=> JobWaits(do, i)
  BY DEF JobWaits, HeadIs
<1>2. \A do, i : HeadIs(sweep.doing, do, i)' <=> HeadIs(r, do, i)
  BY DEF HeadIs
<1> QED BY <1>1, <1>2 DEF Replaces, Waits

(***************************************************************************)
(* The turns that steps are.                                                *)
(***************************************************************************)
\* What a handler does first about i and leaves for later.
Begun(i, o) ==
  \/ o = <<>>
  \/ \E v, a \in Case(i) : o # <<>> /\ Head(o) = Save(i, v, a) /\ (Openish(v) <=> Openish(active[i])) /\ NoHead(Rest(o))
  \/ \E v, a \in Case(i) : /\ o # <<>> /\ Head(o) = Save(i, v, a) /\ Openish(v) /\ ~Waits("save", i)
                           /\ HeadIs(Rest(o), "tell", i)
  \/ \E r \in Nat : /\ o # <<>> /\ Head(o) = Tell(i, "resolved", r) /\ ~Waits("tell", i)
                    /\ HeadIs(Rest(o), "save", i)

LEMMA Nothing ==
  \A do, i : ~HeadIs(<<>>, do, i) /\ NoHead(<<>>) /\ Rest(<<>>) = <<>>
BY DEF HeadIs, NoHead, Rest

LEMMA OneHead ==
  \A j, do, i, to, n : HeadIs(j, do, i) /\ HeadIs(j, to, n) => do = to /\ i = n
BY DEF HeadIs

LEMMA OthersWait ==
  ASSUME NEW i \in Ids, NEW was, NEW left, Replaces(was, left),
         \A do \in Dos, j \in Ids \ {i} : ~HeadIs(was, do, j) /\ ~HeadIs(left, do, j)
  PROVE  \A j \in Ids \ {i} : SameWaits(j)
<1>1. "save" \in Dos /\ "tell" \in Dos
  BY DEF Dos
<1> QED BY <1>1 DEF Replaces, SameWaits

LEMMA FreshTurn ==
  ASSUME NEW i \in Ids, NEW o, NEW was, NoHead(was), Replaces(was, Rest(o)), Begun(i, o)
  PROVE  Turn(i, o) /\ \A j \in Ids \ {i} : SameWaits(j)
<1>1. \A do \in Dos, j \in Ids : ~HeadIs(was, do, j)
  BY DEF NoHead
<1>2. \A do \in Dos, j \in Ids :
        /\ HeadIs(Rest(o), do, j) => Waits(do, j)'
        /\ Waits(do, j) => Waits(do, j)'
        /\ Waits(do, j)' => HeadIs(Rest(o), do, j) \/ Waits(do, j)
  BY <1>1 DEF Replaces
<1>3. "save" \in Dos /\ "tell" \in Dos /\ "save" # "tell"
  BY DEF Dos
<1>4. \A j \in Ids : ~HeadIs(Rest(o), "save", j) /\ ~HeadIs(Rest(o), "tell", j) => SameWaits(j)
  BY <1>2, <1>3 DEF SameWaits
<1>5. CASE o = <<>>
  BY <1>4, <1>5, Nothing DEF Turn
<1>6. ASSUME NEW v \in Case(i), NEW a \in Case(i), o # <<>>, Head(o) = Save(i, v, a), Openish(v) <=> Openish(active[i]), NoHead(Rest(o))
      PROVE  Turn(i, o) /\ \A j \in Ids \ {i} : SameWaits(j)
  <2>1. \A j \in Ids : SameWaits(j)
    BY <1>3, <1>4, <1>6 DEF NoHead
  <2> QED BY <1>6, <2>1 DEF Turn
<1>7. ASSUME NEW v \in Case(i), NEW a \in Case(i), o # <<>>, Head(o) = Save(i, v, a), Openish(v), ~Waits("save", i), HeadIs(Rest(o), "tell", i)
      PROVE  Turn(i, o) /\ \A j \in Ids \ {i} : SameWaits(j)
  <2>1. \A do, j : HeadIs(Rest(o), do, j) => do = "tell" /\ j = i
    BY <1>7, OneHead
  <2>2. \A j \in Ids \ {i} : SameWaits(j)
    BY <1>4, <2>1
  <2>3. Waits("tell", i)' /\ ~Waits("save", i)'
    BY <1>2, <1>3, <1>7, <2>1
  <2> QED BY <1>7, <2>2, <2>3 DEF Turn
<1>8. ASSUME NEW r \in Nat, o # <<>>, Head(o) = Tell(i, "resolved", r), ~Waits("tell", i), HeadIs(Rest(o), "save", i)
      PROVE  Turn(i, o) /\ \A j \in Ids \ {i} : SameWaits(j)
  <2>1. \A do, j : HeadIs(Rest(o), do, j) => do = "save" /\ j = i
    BY <1>8, OneHead
  <2>2. \A j \in Ids \ {i} : SameWaits(j)
    BY <1>4, <2>1
  <2>3. Waits("save", i)' /\ ~Waits("tell", i)'
    BY <1>2, <1>3, <1>8, <2>1
  <2> QED BY <1>8, <2>2, <2>3 DEF Turn
<1> QED BY <1>5, <1>6, <1>7, <1>8 DEF Begun

LEMMA PendingTurn ==
  ASSUME NEW i \in Ids, NEW o, o # <<>>, Head(o) \in Pending(i), NoHead(Rest(o)), Replaces(o, Rest(o))
  PROVE  Turn(i, o) /\ \A j \in Ids \ {i} : SameWaits(j)
<1>1. \A do \in Dos, j \in Ids : ~HeadIs(Rest(o), do, j)
  BY DEF NoHead
<1>2. \A do \in Dos, j \in Ids :
        /\ HeadIs(o, do, j) => Waits(do, j)
        /\ Waits(do, j) => HeadIs(o, do, j) \/ Waits(do, j)'
        /\ Waits(do, j)' => Waits(do, j)
  BY <1>1 DEF Replaces
<1>3. "save" \in Dos /\ "tell" \in Dos /\ "save" # "tell"
  BY DEF Dos
<1>4. ASSUME NEW v \in Ended(i), NEW a \in Case(i), Head(o) = Save(i, v, a)
      PROVE  Turn(i, o) /\ \A j \in Ids \ {i} : SameWaits(j)
  <2>1. HeadIs(o, "save", i)
    BY <1>4 DEF HeadIs, Save
  <2>2. \A do, j : HeadIs(o, do, j) => do = "save" /\ j = i
    BY <2>1, OneHead
  <2>3. Waits("save", i) /\ (Waits("tell", i)' <=> Waits("tell", i)) /\ \A j \in Ids \ {i} : SameWaits(j)
    BY <1>2, <1>3, <2>1, <2>2 DEF SameWaits
  <2> QED BY <1>4, <2>3 DEF Turn
<1>5. ASSUME NEW r \in Nat, Head(o) = Tell(i, "open", r)
      PROVE  Turn(i, o) /\ \A j \in Ids \ {i} : SameWaits(j)
  <2>1. HeadIs(o, "tell", i)
    BY <1>5 DEF HeadIs, Tell
  <2>2. \A do, j : HeadIs(o, do, j) => do = "tell" /\ j = i
    BY <2>1, OneHead
  <2>3. Waits("tell", i) /\ (Waits("save", i)' <=> Waits("save", i)) /\ \A j \in Ids \ {i} : SameWaits(j)
    BY <1>2, <1>3, <2>1, <2>2 DEF SameWaits
  <2> QED BY <1>5, <2>3 DEF Turn
<1> QED BY <1>4, <1>5 DEF Pending

(***************************************************************************)
(* The invariant.                                                           *)
(***************************************************************************)
Dates == \A i \in Ids : Dated(i, active[i]) /\ Dated(i, disk.active[i])
Short == Len(outbox) <= MaxOutbox /\ Len(disk.outbox) <= MaxOutbox

\* The sweep ends in the hour it began in; it has one copy of an incident.
Sweeping ==
  /\ sweep # Asleep => sweep.now = hour
  /\ \A t \in sweep.todo :
       /\ Dated(t[1], t[2])
       /\ sweep.doing # <<>> => t[1] # Head(sweep.doing).id
       /\ \A u \in sweep.todo : t[1] = u[1] => t = u

\* In the first hour an outage of the device is at most reclassified, by a
\* notification or the sweep; later it is for the sweep alone to go on with it.
DeviceWaits ==
  IF hour = 0 THEN ~Waits("tell", Device) ELSE ~JobWaits("tell", Device) /\ ~JobWaits("save", Device)

\* Only the sweep ends an outage of the integration: one that has been
\* recovering since an earlier hour, which no check of the integration touches.
RadioWaits ==
  /\ ~JobWaits("save", Radio)
  /\ Waits("tell", Radio) =>
       active[Radio].state = "open" \/ (active[Radio].state = "recovering" /\ active[Radio].recovered = hour)
  /\ HeadIs(sweep.doing, "save", Radio) => active[Radio].state = "recovering" /\ active[Radio].recovered < hour
  /\ \A t \in sweep.todo :
       t[1] = Radio /\ t[2].state = "recovering" /\ t[2].recovered < hour => active[Radio] = t[2]

\* What waits about the battery is of a notification that no earlier one that
\* has still to look can follow.
BatteryWaits ==
  Battery \notin slips.overtaken =>
    \A do \in Dos, k \in DOMAIN jobs : HeadIs(jobs[k], do, Battery) => \A j \in 1..k-1 : ~Reads(jobs[j])

Sanes == \A i \in Ids : (i = Battery => Battery \notin slips.overtaken) => Sane(i)

\* What an upload carries is in the outbox until it is served; then it is what
\* the platform was told.
Carried(s) ==
  /\ syncs[s].pc = "sent" => \A i \in Ids \ slips.untold : Heard(syncs[s].sent, i) => Heard(outbox, i)
  /\ syncs[s].pc \in Uploads \ {"sent"} =>
       \A i \in Ids : Heard(syncs[s].sent, i) => cloud.told[i] = LastWord(syncs[s].sent, i, "none")

Agreed ==
  ~past.raced => /\ \A i \in Ids \ (slips.untold \cup slips.overtaken) : Fit(i)
                 /\ \A s \in Syncs : Carried(s)

Told == Dates /\ Short /\ Sweeping /\ DeviceWaits /\ RadioWaits /\ BatteryWaits /\ Sanes /\ Agreed

(***************************************************************************)
(* What the handlers decide.                                                *)
(***************************************************************************)
SavesDated(i, o) == \A v, a : o # <<>> /\ Head(o) = Save(i, v, a) => Dated(i, v)

LEMMA SaveIs ==
  \A i, v, a, n, w, b : Save(i, v, a) = Save(n, w, b) => i = n /\ v = w /\ a = b
<1> SUFFICES ASSUME NEW i, NEW v, NEW a, NEW n, NEW w, NEW b, Save(i, v, a) = Save(n, w, b) PROVE i = n /\ v = w /\ a = b
  OBVIOUS
<1>1. Save(i, v, a).id = i /\ Save(i, v, a).value = v /\ Save(i, v, a).read = a
  BY DEF Save
<1>2. Save(n, w, b).id = n /\ Save(n, w, b).value = w /\ Save(n, w, b).read = b
  BY DEF Save
<1> QED BY <1>1, <1>2

LEMMA SaveOrTell ==
  \A i, v, a, n, w, r : Save(i, v, a) # Tell(n, w, r)
<1> SUFFICES ASSUME NEW i, NEW v, NEW a, NEW n, NEW w, NEW r PROVE Save(i, v, a).do # Tell(n, w, r).do
  OBVIOUS
<1> QED BY DEF Save, Tell

LEMMA Single ==
  ASSUME NEW i \in Ids, NEW v \in Case(i), NEW a \in Case(i), NEW o, o = <<Save(i, v, a)>>,
         Openish(v) <=> Openish(active[i]), Dated(i, v)
  PROVE  Begun(i, o) /\ SavesDated(i, o) /\ Rest(o) = <<>> /\ o # <<>> /\ Head(o) = Save(i, v, a)
<1> DEFINE e == Save(i, v, a)
<1> HIDE DEF e
<1>1. o # <<>> /\ Head(o) = e /\ Rest(o) = <<>>
  <2>1. o = <<e>>
    BY DEF e
  <2> QED BY <2>1 DEF Rest
<1>2. \A w, b : Head(o) = Save(i, w, b) => w = v
  BY <1>1, SaveIs DEF e
<1> QED BY <1>1, <1>2, Nothing DEF Begun, SavesDated, e

LEMMA Opening ==
  ASSUME NEW i \in Ids, NEW v \in Case(i), NEW a \in Case(i), NEW r \in Nat, NEW o, o = <<Save(i, v, a), Tell(i, "open", r)>>,
         Openish(v), Dated(i, v), ~Waits("save", i)
  PROVE  Begun(i, o) /\ SavesDated(i, o) /\ Rest(o) = <<Tell(i, "open", r)>> /\ o # <<>> /\ Head(o) = Save(i, v, a)
         /\ HeadIs(Rest(o), "tell", i)
<1> DEFINE e == Save(i, v, a)
           f == Tell(i, "open", r)
<1>0. f.do = "tell" /\ f.id = i
  BY DEF Tell
<1> HIDE DEF e, f
<1>1. o # <<>> /\ Head(o) = e /\ Rest(o) = <<f>>
  <2>1. o = <<e, f>>
    BY DEF e, f
  <2> QED BY <2>1 DEF Rest
<1>2. \A w, b : Head(o) = Save(i, w, b) => w = v
  BY <1>1, SaveIs DEF e
<1>3. HeadIs(Rest(o), "tell", i)
  BY <1>0, <1>1 DEF HeadIs
<1> QED BY <1>1, <1>2, <1>3 DEF Begun, SavesDated, e, f

LEMMA Closing ==
  ASSUME NEW i \in Ids, NEW v \in Ended(i), NEW a \in Case(i), NEW r \in Nat, NEW o,
         o = <<Tell(i, "resolved", r), Save(i, v, a)>>, ~Waits("tell", i)
  PROVE  Begun(i, o) /\ SavesDated(i, o) /\ Rest(o) = <<Save(i, v, a)>> /\ o # <<>> /\ Head(o) = Tell(i, "resolved", r)
         /\ HeadIs(Rest(o), "save", i)
<1> DEFINE e == Tell(i, "resolved", r)
           f == Save(i, v, a)
<1>0. f.do = "save" /\ f.id = i
  BY DEF Save
<1> HIDE DEF e, f
<1>1. o # <<>> /\ Head(o) = e /\ Rest(o) = <<f>>
  <2>1. o = <<e, f>>
    BY DEF e, f
  <2> QED BY <2>1 DEF Rest
<1>2. \A w, b : Head(o) # Save(i, w, b)
  BY <1>1, SaveOrTell DEF e
<1>3. HeadIs(Rest(o), "save", i)
  BY <1>0, <1>1 DEF HeadIs
<1> QED BY <1>1, <1>2, <1>3 DEF Begun, SavesDated, e, f

LEMMA EmptyPlan ==
  ASSUME NEW i
  PROVE  Begun(i, <<>>) /\ SavesDated(i, <<>>) /\ NoHead(Rest(<<>>))
BY Nothing DEF Begun, SavesDated

LEMMA ReclassifyIs ==
  ASSUME NEW i \in Ids \ {Battery}, NEW a \in Case(i), a.revision > 0
  PROVE  \E w \in Ended(i) : Reclassify(i, a) = <<Tell(i, "resolved", a.revision + 1), Save(i, w, a)>>
<1> DEFINE w == [a EXCEPT !.state = "watching", !.revision = 0, !.recovered = 0]
           t == Tell(i, "resolved", a.revision + 1)
           x == Save(i, w, a)
<1>1. w \in Ended(i)
  BY DEF Ended, Case, Incident, States
<1>2. Reclassify(i, a) = <<t>> \o <<x>>
  BY DEF Reclassify
<1>3. Reclassify(i, a) = <<t, x>>
  <2> HIDE DEF t, x
  <2> QED BY <1>2, Two
<1> QED BY <1>1, <1>3

LEMMA EscalateIs ==
  ASSUME NEW i \in Ids \ {Battery}, NEW a \in Case(i)
  PROVE  \E v \in Case(i) : /\ v.state = "open" /\ v.revision = a.revision + 1 /\ v.first = a.first
                            /\ Escalate(i, a) = <<Save(i, v, a), Tell(i, "open", a.revision + 1)>>
<1> DEFINE r == a.revision + 1
           v == [a EXCEPT !.state = "open", !.revision = r]
<1>1. r \in Nat
  BY DEF Case, Incident
<1>2. v \in Case(i) /\ v.state = "open" /\ v.revision = r /\ v.first = a.first
  <2> HIDE DEF r
  <2> QED BY <1>1 DEF Case, Incident, States
<1>3. Escalate(i, a) = <<Save(i, v, a), Tell(i, "open", r)>>
  BY DEF Escalate, Case, Incident
<1> QED BY <1>2, <1>3

LEMMA RecoverIs ==
  ASSUME hour \in Nat, NEW i \in Ids \ {Battery}, NEW a \in Case(i)
  PROVE  \E v \in Case(i) : /\ v.state = "recovering" /\ v.revision = a.revision /\ v.first = a.first /\ v.recovered = hour
                            /\ Recover(i, a) = <<Save(i, v, a)>>
<1> DEFINE v == [a EXCEPT !.state = "recovering", !.recovered = hour]
<1>1. v \in Case(i) /\ v.state = "recovering" /\ v.revision = a.revision /\ v.first = a.first /\ v.recovered = hour
  BY DEF Case, Incident, States
<1>2. Recover(i, a) = <<Save(i, v, a)>>
  BY DEF Recover
<1> QED BY <1>1, <1>2

LEMMA ForgetIs ==
  ASSUME NEW i \in Ids, NEW a \in Case(i)
  PROVE  /\ Absent \in Ended(i) /\ Absent \in Case(i)
         /\ Forget(i, a) = <<Save(i, Absent, a)>>
         /\ <<Tell(i, "resolved", a.revision + 1)>> \o Forget(i, a) = <<Tell(i, "resolved", a.revision + 1), Save(i, Absent, a)>>
<1> DEFINE t == Tell(i, "resolved", a.revision + 1)
           y == Save(i, Absent, a)
<1>1. Absent \in Ended(i) /\ Absent \in Case(i)
  BY DEF Absent, Ended, Case, Incident, States
<1>2. Forget(i, a) = <<y>>
  BY DEF Forget
<1>3. <<t>> \o Forget(i, a) = <<t, y>>
  <2> HIDE DEF t, y
  <2>1. <<t>> \o Forget(i, a) = <<t>> \o <<y>>
    BY <1>2
  <2> QED BY <2>1, Two
<1> QED BY <1>1, <1>2, <1>3

LEMMA WatchingIs ==
  ASSUME hour \in Nat, NEW i \in Ids \ {Battery}
  PROVE  \E v \in Ended(i) : v \in Case(i) /\ v.state = "watching" /\ Watching(i) = <<Save(i, v, Absent)>>
<1> DEFINE v == [Absent EXCEPT !.state = "watching", !.first = hour]
<1>1. v \in Ended(i) /\ v \in Case(i) /\ v.state = "watching"
  BY DEF Absent, Ended, Case, Incident, States
<1>2. Watching(i) = <<Save(i, v, Absent)>>
  BY DEF Watching
<1> QED BY <1>1, <1>2

LEMMA Places ==
  /\ Device \in Ids \ {Battery} /\ Radio \in Ids \ {Battery} /\ Battery \in Ids /\ Device # Radio
  /\ \A i \in Ids : i = Device \/ i = Radio \/ i = Battery
BY DEF Ids, Device, Radio, Battery

LEMMA DevicePlans ==
  ASSUME IncidentsOK, Dated(Device, active[Device]), DeviceWaits, NEW o \in {ObserveUnavailable, ObserveAvailable}
  PROVE  /\ Begun(Device, o) /\ SavesDated(Device, o)
         /\ \A do, j : HeadIs(Rest(o), do, j) => do = "save" /\ j = Device /\ hour = 0
<1> DEFINE a == active[Device]
<1>0. a \in Case(Device) /\ hour \in Nat /\ Device \in Ids \ {Battery} /\ Absent \in Case(Device)
  BY Places, ForgetIs DEF IncidentsOK
<1>1. Dated(Device, a)
  OBVIOUS
<1>2. o = ObserveUnavailable \/ o = ObserveAvailable
  OBVIOUS
<1>3. a.state \in {"none", "watching", "open", "recovering"} /\ a.revision \in Nat /\ a.first \in Nat
  BY <1>0 DEF Case, Incident
<1>4. \/ o = <<>>
      \/ a.state \in {"none", "watching"} /\ \E v \in Ended(Device), b \in Case(Device) : o = <<Save(Device, v, b)>>
      \/ Premature(a, hour) /\ o = Reclassify(Device, a)
      \/ a.state = "open" /\ o = Recover(Device, a)
      \/ a.state # "none" /\ o = <<Save(Device, [a EXCEPT !.state = IF @ = "recovering" THEN "open" ELSE @, !.recovered = 0], a)>>
  <2>1. CASE o = ObserveUnavailable
    <3>1. \/ a.state = "none" /\ o = Watching(Device)
          \/ Premature(a, hour) /\ o = Reclassify(Device, a)
          \/ a.state # "none" /\ o = <<Save(Device, [a EXCEPT !.state = IF @ = "recovering" THEN "open" ELSE @, !.recovered = 0], a)>>
      BY <2>1 DEF ObserveUnavailable, Device
    <3>2. \E v \in Ended(Device) : Watching(Device) = <<Save(Device, v, Absent)>>
      BY <1>0, WatchingIs
    <3> HIDE DEF a
    <3> QED BY <1>0, <3>1, <3>2
  <2>2. CASE o = ObserveAvailable
    <3>1. \/ o = <<>>
          \/ a.state = "open" /\ o = Recover(Device, a)
          \/ a.state = "watching" /\ o = Forget(Device, a)
      BY <2>2 DEF ObserveAvailable, Device
    <3>2. Absent \in Ended(Device) /\ Forget(Device, a) = <<Save(Device, Absent, a)>>
      BY <1>0, ForgetIs
    <3> HIDE DEF a
    <3> QED BY <1>0, <3>1, <3>2
  <2> QED BY <1>2, <2>1, <2>2
<1>5. CASE o = <<>>
  BY <1>5, EmptyPlan, Nothing
<1>6. ASSUME NEW v \in Case(Device), NEW b \in Case(Device), o = <<Save(Device, v, b)>>, Openish(v) <=> Openish(a), Dated(Device, v)
      PROVE  /\ Begun(Device, o) /\ SavesDated(Device, o)
             /\ \A do, j : HeadIs(Rest(o), do, j) => do = "save" /\ j = Device /\ hour = 0
  BY <1>0, <1>6, Single, Nothing
<1>7. ASSUME NEW v \in Ended(Device) PROVE v \in Case(Device) /\ ~Openish(v) /\ Dated(Device, v)
  BY DEF Ended, Openish, Dated
<1>8. CASE a.state \in {"none", "watching"} /\ \E v \in Ended(Device), b \in Case(Device) : o = <<Save(Device, v, b)>>
  <2>1. ~Openish(a)
    BY <1>8 DEF Openish
  <2> QED BY <1>6, <1>7, <1>8, <2>1
<1>9. CASE Premature(a, hour) /\ o = Reclassify(Device, a)
  <2>1. a.state = "open" /\ hour <= a.first
    BY <1>9 DEF Premature
  <2>2. hour = 0 /\ a.revision > 0
    BY <1>0, <1>1, <1>3, <2>1 DEF Dated
  <2>3. PICK w \in Ended(Device) : o = <<Tell(Device, "resolved", a.revision + 1), Save(Device, w, a)>>
    BY <1>0, <1>9, <2>2, ReclassifyIs
  <2>4. ~Waits("tell", Device)
    BY <2>2 DEF DeviceWaits
  <2>5. a.revision + 1 \in Nat
    BY <1>3
  <2> HIDE DEF a
  <2>6. Begun(Device, o) /\ SavesDated(Device, o) /\ HeadIs(Rest(o), "save", Device)
    BY <1>0, <2>3, <2>4, <2>5, Closing
  <2>7. \A do, j : HeadIs(Rest(o), do, j) => do = "save" /\ j = Device
    BY <2>6, OneHead
  <2> QED BY <2>2, <2>6, <2>7
<1>10. CASE a.state = "open" /\ o = Recover(Device, a)
  <2>1. PICK v \in Case(Device) : /\ v.state = "recovering" /\ v.revision = a.revision /\ v.first = a.first
                                  /\ o = <<Save(Device, v, a)>>
    BY <1>0, <1>10, RecoverIs
  <2>2. Openish(v) /\ Openish(a) /\ Dated(Device, v)
    BY <1>1, <1>10, <2>1 DEF Openish, Dated
  <2> QED BY <1>0, <1>6, <2>1, <2>2
<1>11. CASE a.state # "none" /\ o = <<Save(Device, [a EXCEPT !.state = IF @ = "recovering" THEN "open" ELSE @, !.recovered = 0], a)>>
  <2> DEFINE v == [a EXCEPT !.state = IF @ = "recovering" THEN "open" ELSE @, !.recovered = 0]
  <2>1. /\ v \in Case(Device) /\ v.revision = a.revision /\ v.first = a.first
        /\ v.state = IF a.state = "recovering" THEN "open" ELSE a.state
    <3> HIDE DEF a
    <3> QED BY <1>0 DEF Case, Incident, States, Battery, Device
  <2>2. o = <<Save(Device, v, a)>>
    BY <1>11
  <2> HIDE DEF v
  <2>3. (Openish(v) <=> Openish(a)) /\ Dated(Device, v)
    BY <1>1, <2>1 DEF Openish, Dated
  <2> QED BY <1>0, <1>6, <2>1, <2>2, <2>3
<1> QED BY <1>4, <1>5, <1>8, <1>9, <1>10, <1>11

LEMMA RadioPlans ==
  ASSUME IncidentsOK, Dated(Radio, active[Radio]), RadioWaits, NEW healthy \in BOOLEAN, NEW o, o = ObserveIntegration(healthy), o # <<>>
  PROVE  /\ Begun(Radio, o) /\ SavesDated(Radio, o)
         /\ active[Radio].state # "recovering"
         /\ \A do, j : HeadIs(Rest(o), do, j) => do = "tell" /\ j = Radio
         /\ \E v, b \in Case(Radio) :
              /\ Head(o) = Save(Radio, v, b)
              /\ \/ v.state = "open" \/ (v.state = "recovering" /\ v.recovered = hour)
                 \/ active[Radio].state \in {"none", "watching"} /\ \A do, j : ~HeadIs(Rest(o), do, j)
<1> DEFINE a == active[Radio]
<1>0. a \in Case(Radio) /\ hour \in Nat /\ Radio \in Ids \ {Battery} /\ Absent \in Case(Radio)
  BY Places, ForgetIs DEF IncidentsOK
<1>1. Dated(Radio, a)
  OBVIOUS
<1>3. a.state \in {"none", "watching", "open", "recovering"} /\ a.revision \in Nat /\ a.first \in Nat
  BY <1>0 DEF Case, Incident
<1>4. ~Premature(a, hour)
  <2>1. Device # Radio
    BY Places
  <2> QED BY <1>0, <1>1, <1>3, <2>1 DEF Premature, Dated
<1>5. \/ a.state = "open" /\ o = Recover(Radio, a)
      \/ a.state = "watching" /\ o = Forget(Radio, a)
      \/ a.state = "none" /\ o = Watching(Radio)
      \/ a.state = "watching" /\ hour > a.first /\ o = Escalate(Radio, a)
  <2> DEFINE q == a
  <2>1. \/ a.state = "open" /\ o = Recover(Radio, a)
        \/ a.state = "watching" /\ o = Forget(Radio, a)
        \/ a.state = "none" /\ o = Watching(Radio)
        \/ Premature(a, hour) /\ o = Reclassify(Radio, a)
        \/ a.state = "watching" /\ hour > a.first /\ o = Escalate(Radio, a)
        \/ o = <<>>
    BY DEF ObserveIntegration, Radio
  <2> QED BY <1>4, <2>1
<1> HIDE DEF a
<1>6. CASE a.state = "open" /\ o = Recover(Radio, a)
  <2>1. PICK v \in Case(Radio) : /\ v.state = "recovering" /\ v.revision = a.revision /\ v.first = a.first /\ v.recovered = hour
                                 /\ o = <<Save(Radio, v, a)>>
    BY <1>0, <1>6, RecoverIs
  <2>2. Openish(v) /\ Openish(a) /\ Dated(Radio, v)
    BY <1>1, <1>6, <2>1 DEF Openish, Dated
  <2>3. Begun(Radio, o) /\ SavesDated(Radio, o) /\ Rest(o) = <<>> /\ Head(o) = Save(Radio, v, a)
    BY <1>0, <2>1, <2>2, Single DEF a
  <2> QED BY <1>0, <1>6, <2>1, <2>3, Nothing DEF a
<1>7. ASSUME a.state \in {"none", "watching"}, NEW v \in Ended(Radio), NEW b \in Case(Radio), o = <<Save(Radio, v, b)>>
      PROVE  /\ Begun(Radio, o) /\ SavesDated(Radio, o) /\ Rest(o) = <<>> /\ Head(o) = Save(Radio, v, b) /\ v \in Case(Radio)
  <2>1. v \in Case(Radio) /\ ~Openish(v) /\ Dated(Radio, v) /\ ~Openish(a)
    BY <1>7 DEF Ended, Openish, Dated
  <2> QED BY <1>0, <1>7, <2>1, Single DEF a
<1>8. CASE a.state = "watching" /\ o = Forget(Radio, a)
  <2>1. Absent \in Ended(Radio) /\ o = <<Save(Radio, Absent, a)>>
    BY <1>0, <1>8, ForgetIs
  <2>2. Begun(Radio, o) /\ SavesDated(Radio, o) /\ Rest(o) = <<>> /\ Head(o) = Save(Radio, Absent, a)
    BY <1>0, <1>7, <1>8, <2>1
  <2> QED BY <1>0, <1>8, <2>2, Nothing DEF a
<1>9. CASE a.state = "none" /\ o = Watching(Radio)
  <2>1. PICK v \in Ended(Radio) : o = <<Save(Radio, v, Absent)>>
    BY <1>0, <1>9, WatchingIs
  <2>2. Begun(Radio, o) /\ SavesDated(Radio, o) /\ Rest(o) = <<>> /\ Head(o) = Save(Radio, v, Absent) /\ v \in Case(Radio)
    BY <1>0, <1>7, <1>9, <2>1
  <2> QED BY <1>0, <1>9, <2>2, Nothing DEF a
<1>10. CASE a.state = "watching" /\ hour > a.first /\ o = Escalate(Radio, a)
  <2>1. PICK v \in Case(Radio) : /\ v.state = "open" /\ v.revision = a.revision + 1 /\ v.first = a.first
                                 /\ o = <<Save(Radio, v, a), Tell(Radio, "open", a.revision + 1)>>
    BY <1>0, <1>10, EscalateIs
  <2>2. Openish(v) /\ Dated(Radio, v)
    BY <1>0, <1>3, <1>10, <2>1 DEF Openish, Dated
  <2>3. ~Waits("save", Radio)
    BY <1>10 DEF Waits, RadioWaits, a
  <2>4. a.revision + 1 \in Nat
    BY <1>3
  <2>5. Begun(Radio, o) /\ SavesDated(Radio, o) /\ Head(o) = Save(Radio, v, a) /\ HeadIs(Rest(o), "tell", Radio)
    BY <1>0, <2>1, <2>2, <2>3, <2>4, Opening
  <2>6. \A do, j : HeadIs(Rest(o), do, j) => do = "tell" /\ j = Radio
    BY <2>5, OneHead
  <2> QED BY <1>0, <1>10, <2>1, <2>5, <2>6 DEF a
<1> QED BY <1>5, <1>6, <1>8, <1>9, <1>10

LEMMA RestOfTwo ==
  ASSUME NEW x, NEW y
  PROVE  <<x, y>> # <<>> /\ Head(<<x, y>>) = x /\ Rest(<<x, y>>) = <<y>>
BY DEF Rest

LEMMA RestOfThree ==
  ASSUME NEW x, NEW y, NEW z
  PROVE  <<x, y, z>> # <<>> /\ Head(<<x, y, z>>) = x /\ Rest(<<x, y, z>>) = <<y, z>>
BY DEF Rest

\* A plan that a look follows begins and leaves what it does without.
LEMMA LookAfter ==
  ASSUME NEW i \in Ids, NEW d \in Plans(i), d # <<>>, NEW u \in BOOLEAN, NEW o, o = d \o <<Look(u)>>
  PROVE  /\ o # <<>> /\ Head(o) = Head(d)
         /\ \A do \in Dos : \A j : HeadIs(Rest(o), do, j) <=> HeadIs(Rest(d), do, j)
<1> DEFINE z == Look(u)
<1>0. \A do \in Dos : \A j : ~HeadIs(<<z>>, do, j)
  BY DEF HeadIs, Dos, Look
<1>1. PICK f \in Steps(i) : d = <<f>> \/ \E g \in Pending(i) : d = <<f, g>>
  BY PlanSteps
<1> HIDE DEF z
<1>2. CASE d = <<f>>
  <2>1. o = <<f, z>>
    BY <1>2, Two DEF z
  <2>20. <<f, z>> # <<>> /\ Head(<<f, z>>) = f /\ Rest(<<f, z>>) = <<z>>
    BY RestOfTwo, Zenon
  <2>2. o # <<>> /\ Head(o) = f /\ Rest(o) = <<z>>
    BY <2>1, <2>20, Zenon
  <2>3. Head(d) = f /\ Rest(d) = <<>>
    BY <1>2 DEF Rest
  <2> QED BY <1>0, <2>2, <2>3, Nothing
<1>3. ASSUME NEW g \in Pending(i), d = <<f, g>>
      PROVE  /\ o # <<>> /\ Head(o) = Head(d)
             /\ \A do \in Dos : \A j : HeadIs(Rest(o), do, j) <=> HeadIs(Rest(d), do, j)
  <2>1. o = <<f, g, z>>
    BY <1>3, Three DEF z
  <2>20. <<f, g, z>> # <<>> /\ Head(<<f, g, z>>) = f /\ Rest(<<f, g, z>>) = <<g, z>>
    BY RestOfThree, Zenon
  <2>2. o # <<>> /\ Head(o) = f /\ Rest(o) = <<g, z>>
    BY <2>1, <2>20, Zenon
  <2>4. Head(d) = f /\ Rest(d) = <<g>>
    BY <1>3 DEF Rest
  <2>3. \A do, j : HeadIs(<<g, z>>, do, j) <=> HeadIs(<<g>>, do, j)
    BY DEF HeadIs
  <2> QED BY <2>2, <2>3, <2>4
<1> QED BY <1>1, <1>2, <1>3

LEMMA BatteryPlans ==
  ASSUME IncidentsOK, ~Waits("tell", Battery), ~Waits("save", Battery), NEW l \in Levels, NEW u \in BOOLEAN, NEW o,
         ObserveBattery(l) # <<>>, o = ObserveBattery(l) \o <<Look(u)>>
  PROVE  Begun(Battery, o)
<1> DEFINE a == active[Battery]
           d == ObserveBattery(l)
<1>0. Battery \in Ids /\ a \in Case(Battery) /\ a.revision \in Nat
  BY Places DEF IncidentsOK, Case, Incident
<1>1. d \in Plans(Battery)
  BY HandlersPlan
<1>2. o # <<>> /\ Head(o) = Head(d) /\ \A do \in Dos : \A j : HeadIs(Rest(o), do, j) <=> HeadIs(Rest(d), do, j)
  BY <1>0, <1>1, LookAfter
<1>3. ASSUME Begun(Battery, d) PROVE Begun(Battery, o)
  <2>1. "save" \in Dos /\ "tell" \in Dos
    BY DEF Dos
  <2>2. NoHead(Rest(d)) => NoHead(Rest(o))
    BY <1>2 DEF NoHead
  <2> HIDE DEF d
  <2> QED BY <1>2, <1>3, <2>1, <2>2 DEF Begun, d
<1>4. \/ d = <<Save(Battery, [a EXCEPT !.state = "critical", !.revision = @ + 1], a), Tell(Battery, "open", a.revision + 1)>>
      \/ a.state = "none" /\ d = <<Save(Battery, [Absent EXCEPT !.state = "warning"], a)>>
      \/ a.state = "critical" /\ d = <<Tell(Battery, "resolved", a.revision + 1)>> \o Forget(Battery, a)
      \/ a.state = "warning" /\ d = Forget(Battery, a)
  BY DEF ObserveBattery, Battery
<1> HIDE DEF a, d
<1>5. \A v \in Case(Battery) : Dated(Battery, v)
  BY DEF Case, Dated
<1>6. CASE d = <<Save(Battery, [a EXCEPT !.state = "critical", !.revision = @ + 1], a), Tell(Battery, "open", a.revision + 1)>>
  <2> DEFINE r == a.revision + 1
             v == [a EXCEPT !.state = "critical", !.revision = r]
  <2>1. r \in Nat
    BY <1>0
  <2>2. v \in Case(Battery) /\ Openish(v)
    <3> HIDE DEF r
    <3> QED BY <1>0, <2>1 DEF Case, Incident, States, Openish
  <2>3. d = <<Save(Battery, v, a), Tell(Battery, "open", r)>>
    BY <1>0, <1>6 DEF Case, Incident
  <2> HIDE DEF v, r
  <2>4. Begun(Battery, d)
    BY <1>0, <1>5, <2>1, <2>2, <2>3, Opening
  <2> QED BY <1>3, <2>4
<1>7. CASE a.state = "none" /\ d = <<Save(Battery, [Absent EXCEPT !.state = "warning"], a)>>
  <2> DEFINE v == [Absent EXCEPT !.state = "warning"]
  <2>1. v \in Case(Battery) /\ ~Openish(v) /\ ~Openish(a)
    BY <1>7 DEF Absent, Case, Incident, States, Openish
  <2> HIDE DEF v
  <2>2. d = <<Save(Battery, v, a)>>
    BY <1>7 DEF v
  <2>3. Begun(Battery, d)
    BY <1>0, <1>5, <2>1, <2>2, Single DEF a
  <2> QED BY <1>3, <2>3
<1>8. CASE a.state = "critical" /\ d = <<Tell(Battery, "resolved", a.revision + 1)>> \o Forget(Battery, a)
  <2>1. Absent \in Ended(Battery) /\ d = <<Tell(Battery, "resolved", a.revision + 1), Save(Battery, Absent, a)>>
    BY <1>0, <1>8, ForgetIs
  <2>2. a.revision + 1 \in Nat
    BY <1>0
  <2>3. Begun(Battery, d)
    BY <1>0, <2>1, <2>2, Closing
  <2> QED BY <1>3, <2>3
<1>9. CASE a.state = "warning" /\ d = Forget(Battery, a)
  <2>1. Absent \in Case(Battery) /\ d = <<Save(Battery, Absent, a)>>
    BY <1>0, <1>9, ForgetIs
  <2>2. ~Openish(Absent) /\ ~Openish(a)
    BY <1>9 DEF Absent, Openish
  <2>3. Begun(Battery, d)
    BY <1>0, <1>5, <2>1, <2>2, Single DEF a
  <2> QED BY <1>3, <2>3
<1> QED BY <1>4, <1>6, <1>7, <1>8, <1>9

LEMMA SweepsPlans ==
  ASSUME hour \in Nat, DeviceWaits, RadioWaits, sweep.doing = <<>>,
         NEW i \in Ids, NEW a \in Case(i), Dated(i, a), <<i, a>> \in sweep.todo, NEW o, o = Sweep(i, a, hour)
  PROVE  /\ Begun(i, o) /\ SavesDated(i, o)
         /\ \A do, j : HeadIs(Rest(o), do, j) => j = i /\ i # Battery /\ (do = "tell" => hour > 0)
         /\ \/ o = <<>>
            \/ \E v, b \in Case(i) : v.state = "open" /\ Head(o) = Save(i, v, b) /\ (\A j : ~HeadIs(Rest(o), "save", j))
            \/ \E r \in Nat : /\ Head(o) = Tell(i, "resolved", r) /\ (\A j : ~HeadIs(Rest(o), "tell", j))
                              /\ i = Radio => active[i].state = "recovering" /\ active[i].recovered < hour
<1>1. o = <<>> \/ i # Battery
  <2>1. Sweep(Battery, a, hour) = <<>> \/ i # Battery
    BY SweepPlans
  <2> QED BY <2>1
<1>2. CASE o = <<>>
  BY <1>2, EmptyPlan, Nothing
<1>3. CASE i # Battery /\ o # <<>>
  <2>0. i \in Ids \ {Battery} /\ a.revision \in Nat /\ a.first \in Nat /\ a.recovered \in Nat /\ a.revision + 1 \in Nat
    BY <1>3 DEF Case, Incident
  <2>00. Absent \in Ended(i)
    BY ForgetIs
  <2>1. \/ Premature(a, hour) /\ o = Reclassify(i, a)
        \/ a.state = "recovering" /\ hour > a.recovered /\ o = <<Tell(i, "resolved", a.revision + 1)>> \o Forget(i, a)
        \/ a.state = "watching" /\ hour > a.first /\ o = Escalate(i, a)
    BY <1>3 DEF Sweep
  <2>2. ASSUME NEW w \in Ended(i), o = <<Tell(i, "resolved", a.revision + 1), Save(i, w, a)>>, ~Waits("tell", i),
               i = Radio => active[i].state = "recovering" /\ active[i].recovered < hour
        PROVE  /\ Begun(i, o) /\ SavesDated(i, o)
               /\ \A do, j : HeadIs(Rest(o), do, j) => j = i /\ i # Battery /\ (do = "tell" => hour > 0)
               /\ \E r \in Nat : /\ Head(o) = Tell(i, "resolved", r) /\ (\A j : ~HeadIs(Rest(o), "tell", j))
                                 /\ i = Radio => active[i].state = "recovering" /\ active[i].recovered < hour
    <3>1. Begun(i, o) /\ SavesDated(i, o) /\ Head(o) = Tell(i, "resolved", a.revision + 1) /\ HeadIs(Rest(o), "save", i)
      BY <2>0, <2>2, Closing
    <3>2. \A do, j : HeadIs(Rest(o), do, j) => do = "save" /\ j = i
      BY <3>1, OneHead
    <3> QED BY <1>3, <2>0, <2>2, <3>1, <3>2
  <2>3. CASE Premature(a, hour) /\ o = Reclassify(i, a)
    <3>1. a.state = "open" /\ hour <= a.first
      BY <2>3 DEF Premature
    <3>2. hour = 0 /\ i = Device /\ a.revision > 0
      BY <2>0, <3>1 DEF Dated
    <3>3. PICK w \in Ended(i) : o = <<Tell(i, "resolved", a.revision + 1), Save(i, w, a)>>
      BY <2>0, <2>3, <3>2, ReclassifyIs
    <3>4. ~Waits("tell", i) /\ i # Radio
      BY <3>2, Places DEF DeviceWaits
    <3>5. i # Radio
      BY <3>4
    <3> QED BY <2>2, <3>3, <3>4, <3>5
  <2>4. CASE a.state = "recovering" /\ hour > a.recovered /\ o = <<Tell(i, "resolved", a.revision + 1)>> \o Forget(i, a)
    <3>1. o = <<Tell(i, "resolved", a.revision + 1), Save(i, Absent, a)>>
      BY <2>0, <2>4, ForgetIs
    <3>2. ~HeadIs(sweep.doing, "tell", i)
      BY Nothing
    <3>3. i = Device => ~Waits("tell", i)
      BY <2>0, <2>4, <3>2 DEF DeviceWaits, Waits
    <3>4. i = Radio => active[i] = a /\ a.recovered < hour
      <4>1. i = Radio => active[Radio] = <<i, a>>[2]
        BY <2>0, <2>4 DEF RadioWaits
      <4> QED BY <2>0, <2>4, <4>1
    <3>5. i = Radio => ~Waits("tell", i)
      BY <2>0, <2>4, <3>4 DEF RadioWaits
    <3>6. ~Waits("tell", i)
      BY <2>0, <3>3, <3>5, Places
    <3>7. i = Radio => active[i].state = "recovering" /\ active[i].recovered < hour
      BY <2>4, <3>4
    <3> QED BY <2>00, <2>2, <3>1, <3>6, <3>7
  <2>5. CASE a.state = "watching" /\ hour > a.first /\ o = Escalate(i, a)
    <3>1. PICK v \in Case(i) : /\ v.state = "open" /\ v.revision = a.revision + 1 /\ v.first = a.first
                               /\ o = <<Save(i, v, a), Tell(i, "open", a.revision + 1)>>
      BY <2>0, <2>5, EscalateIs
    <3>2. Openish(v) /\ Dated(i, v) /\ hour > 0
      BY <2>0, <2>5, <3>1 DEF Openish, Dated
    <3>3. ~HeadIs(sweep.doing, "save", i)
      BY Nothing
    <3>4. ~JobWaits("save", i)
      BY <1>3, <3>2, Places DEF DeviceWaits, RadioWaits
    <3>5. ~Waits("save", i)
      BY <3>3, <3>4 DEF Waits
    <3>6. Begun(i, o) /\ SavesDated(i, o) /\ Head(o) = Save(i, v, a) /\ HeadIs(Rest(o), "tell", i)
      BY <2>0, <3>1, <3>2, <3>5, Opening
    <3>7. \A do, j : HeadIs(Rest(o), do, j) => do = "tell" /\ j = i
      BY <3>6, OneHead
    <3> QED BY <1>3, <3>1, <3>2, <3>6, <3>7
  <2> QED BY <2>1, <2>3, <2>4, <2>5
<1> QED BY <1>1, <1>2, <1>3

(***************************************************************************)
(* Jobs.                                                                    *)
(***************************************************************************)
LEMMA JobKinds ==
  ASSUME NEW job \in Job
  PROVE  /\ job \in Alone => /\ \E i \in Ids \ {Battery} : Head(job) \in Pending(i)
                             /\ Rest(job) = <<>> /\ \A do \in Dos : ~HeadIs(job, do, Battery)
         /\ job \in AndLook => Head(job) \in Pending(Battery) /\ (\E u \in BOOLEAN : Rest(job) = <<Look(u)>>) /\ Reads(job)
         /\ job \in Looks \cup Measures => NoHead(job) /\ Reads(job)
         /\ job # <<>>
<1>0. \A u : Look(u).do = "look" /\ \A l : Measure(l).do = "measure"
  BY DEF Look, Measure
<1>1. ASSUME NEW i \in Ids, NEW e \in Pending(i) PROVE e.id = i
  BY DEF Pending, Save, Tell
<1>2. CASE job \in Alone
  <2>1. PICK e \in PendingHere : job = <<e>>
    BY <1>2 DEF Alone
  <2>2. PICK i \in Ids \ {Battery} : e \in Pending(i)
    BY DEF PendingHere
  <2>3. Head(job) = e /\ Rest(job) = <<>> /\ e.id # Battery /\ job # <<>>
    BY <1>1, <2>1, <2>2 DEF Rest
  <2>4. \A do \in Dos : ~HeadIs(job, do, Battery)
    BY <2>3 DEF HeadIs
  <2>5. job \notin AndLook /\ job \notin Looks \cup Measures
    <3>1. Len(job) = 1 /\ e.do \in {"save", "tell"}
      BY <2>1, <2>2 DEF Pending, Save, Tell
    <3> QED BY <1>0, <2>3, <3>1 DEF AndLook, Looks, Measures
  <2> QED BY <2>2, <2>3, <2>4, <2>5
<1>3. CASE job \in AndLook
  <2>1. PICK e \in Pending(Battery), u \in BOOLEAN : job = <<e, Look(u)>>
    BY <1>3 DEF AndLook
  <2> DEFINE z == Look(u)
  <2>2. job = <<e, z>> /\ z.do = "look"
    BY <1>0, <2>1
  <2> HIDE DEF z
  <2>3. Head(job) = e /\ Rest(job) = <<z>> /\ job # <<>> /\ Len(job) = 2 /\ job[2] = z /\ DOMAIN job = 1..2
    BY <2>2 DEF Rest
  <2>4. Reads(job)
    <3>1. z \in Range(job)
      BY <2>3 DEF Range
    <3> QED BY <2>2, <3>1 DEF Reads
  <2>5. e.do \in {"save", "tell"}
    BY DEF Pending, Save, Tell
  <2>6. job \notin Alone /\ job \notin Looks \cup Measures
    BY <1>0, <2>3, <2>5 DEF Alone, Looks, Measures
  <2> QED BY <2>3, <2>4, <2>6 DEF z
<1>4. CASE job \in Looks \cup Measures
  <2>1. job # <<>> /\ Head(job).do \in {"look", "measure"} /\ Head(job) \in Range(job)
    <3>1. ASSUME NEW u, job = <<Look(u)>> PROVE job # <<>> /\ Head(job) = Look(u) /\ Head(job) = job[1] /\ 1 \in DOMAIN job
      BY <3>1
    <3>2. ASSUME NEW l, NEW u, job = <<Measure(l), Look(u)>> PROVE job # <<>> /\ Head(job) = Measure(l) /\ Head(job) = job[1] /\ 1 \in DOMAIN job
      BY <3>2
    <3>3. (\E u : job = <<Look(u)>>) \/ \E l, u : job = <<Measure(l), Look(u)>>
      BY <1>4 DEF Looks, Measures
    <3>4. job # <<>> /\ Head(job) = job[1] /\ 1 \in DOMAIN job /\ Head(job).do \in {"look", "measure"}
      BY <1>0, <3>1, <3>2, <3>3
    <3> QED BY <3>4 DEF Range
  <2>2. NoHead(job) /\ Reads(job)
    BY <2>1 DEF NoHead, HeadIs, Reads, Dos
  <2>3. job \notin Alone
    <3>1. ASSUME NEW e \in PendingHere, job = <<e>> PROVE FALSE
      <4>1. Head(job) = e /\ e.do \in {"save", "tell"}
        BY <3>1 DEF PendingHere, Pending, Save, Tell
      <4> QED BY <2>1, <4>1
    <3> QED BY <3>1 DEF Alone
  <2>4. job \notin AndLook
    <3>1. ASSUME NEW e \in Pending(Battery), NEW u \in BOOLEAN, job = <<e, Look(u)>> PROVE FALSE
      <4>1. Head(job) = e /\ e.do \in {"save", "tell"}
        BY <3>1 DEF Pending, Save, Tell
      <4> QED BY <2>1, <4>1
    <3> QED BY <3>1 DEF AndLook
  <2> QED BY <2>1, <2>2, <2>3, <2>4
<1> QED BY <1>2, <1>3, <1>4 DEF Job

(***************************************************************************)
(* What a step about i leaves of the others, and of what was told.          *)
(***************************************************************************)
LEMMA PerformsLeaves ==
  ASSUME IncidentsOK, Len(outbox) <= MaxOutbox, NEW i \in Ids, NEW o, o = <<>> \/ Head(o) \in Steps(i),
         NEW also \in SUBSET Ids, Performs(o, also)
  PROVE  /\ \A j \in Ids \ {i} : active'[j] = active[j]
         /\ (\A v, a : ~(o # <<>> /\ Head(o) = Save(i, v, a))) => active' = active
         /\ \A v, a : o # <<>> /\ Head(o) = Save(i, v, a) => active'[i] = v
         /\ slips'.overtaken = slips.overtaken \cup also
         /\ Len(outbox') <= MaxOutbox
         /\ \A j \in Ids : j \notin slips'.untold => Heard(outbox', j) \/ (j \notin slips.untold /\ (Heard(outbox, j) => Heard(outbox', j)))
         /\ \A j \in Ids \ {i} : j \notin slips'.untold => j \notin slips.untold /\ \A x : LastWord(outbox', j, x) = LastWord(outbox, j, x)
<1>0. active \in [Ids -> Incident]
  BY DEF IncidentsOK
<1>1. CASE o = <<>>
  <2>1. UNCHANGED <<active, outbox>> /\ slips'.untold = slips.untold /\ slips'.overtaken = slips.overtaken \cup also
    BY <1>1, PerformsWords
  <2> QED BY <1>1, <2>1
<1>2. ASSUME NEW v, NEW a, o # <<>>, Head(o) = Save(i, v, a)
      PROVE  /\ active' = [active EXCEPT ![i] = v] /\ outbox' = outbox
             /\ slips'.untold = slips.untold /\ slips'.overtaken = slips.overtaken \cup also
  BY <1>2, PerformsWords
<1>3. CASE \E v, a : o # <<>> /\ Head(o) = Save(i, v, a)
  <2>1. PICK v, a : o # <<>> /\ Head(o) = Save(i, v, a)
    BY <1>3
  <2>2. /\ active' = [active EXCEPT ![i] = v] /\ outbox' = outbox
        /\ slips'.untold = slips.untold /\ slips'.overtaken = slips.overtaken \cup also
    BY <1>2, <2>1
  <2>3. active'[i] = v /\ \A j \in Ids \ {i} : active'[j] = active[j]
    BY <1>0, <2>2
  <2>4. \A w, b : Head(o) = Save(i, w, b) => w = v
    BY <2>1, SaveIs
  <2> QED BY <2>1, <2>2, <2>3, <2>4
<1>4. ASSUME NEW w \in Words, NEW r \in Nat, o # <<>>, Head(o) = Tell(i, w, r)
      PROVE  /\ active' = active /\ Len(outbox') <= MaxOutbox
             /\ slips'.overtaken = slips.overtaken \cup also
             /\ i \notin slips'.untold => Heard(outbox', i)
             /\ \A j \in Ids \ {i} : j \notin slips'.untold =>
                  /\ j \notin slips.untold
                  /\ Heard(outbox, j) => Heard(outbox', j)
                  /\ \A x : LastWord(outbox', j, x) = LastWord(outbox, j, x)
             /\ \A v, a : Head(o) # Save(i, v, a)
  <2>1. \A v, a : Head(o) # Save(i, v, a)
    BY <1>4, SaveOrTell
  <2>2. /\ active' = active /\ Len(outbox') <= MaxOutbox
        /\ slips'.overtaken = slips.overtaken \cup also
        /\ i \notin slips'.untold => Heard(outbox', i)
        /\ \A j \in Ids \ {i} : j \notin slips'.untold =>
                  /\ j \notin slips.untold
                  /\ Heard(outbox, j) => Heard(outbox', j)
                  /\ \A x : LastWord(outbox', j, x) = LastWord(outbox, j, x)
    BY <1>4, PerformsWords
  <2> QED BY <2>1, <2>2
<1>5. CASE \E w \in Words, r \in Nat : o # <<>> /\ Head(o) = Tell(i, w, r)
  BY <1>4, <1>5
<1>6. o = <<>> \/ (\E v, a : o # <<>> /\ Head(o) = Save(i, v, a)) \/ (\E w \in Words, r \in Nat : o # <<>> /\ Head(o) = Tell(i, w, r))
  BY DEF Steps
<1> QED BY <1>1, <1>3, <1>5, <1>6

LEMMA OthersFit ==
  ASSUME IncidentsOK, Len(outbox) <= MaxOutbox, NEW i \in Ids, NEW o, o = <<>> \/ Head(o) \in Steps(i),
         NEW also \in SUBSET Ids, Performs(o, also), cloud' = cloud, \A j \in Ids \ {i} : SameWaits(j)
  PROVE  \A j \in Ids \ {i} : /\ Sane(j) => Sane(j)'
                              /\ j \notin slips'.untold /\ (j \notin slips.untold => Fit(j)) => Fit(j)'
<1> SUFFICES ASSUME NEW j \in Ids \ {i}
             PROVE  /\ Sane(j) => Sane(j)'
                    /\ j \notin slips'.untold /\ (j \notin slips.untold => Fit(j)) => Fit(j)'
  OBVIOUS
<1>1. active'[j] = active[j]
  BY PerformsLeaves
<1>2. Sane(j) => Sane(j)'
  BY <1>1 DEF Sane, SameWaits
<1>3. j \notin slips'.untold => j \notin slips.untold /\ Word(j)' = Word(j)
  <2>1. j \notin slips'.untold => j \notin slips.untold /\ \A x : LastWord(outbox', j, x) = LastWord(outbox, j, x)
    BY PerformsLeaves
  <2> QED BY <2>1 DEF Word
<1>4. Word(j)' = Word(j) /\ Fit(j) => Fit(j)'
  BY <1>1 DEF Fit, SameWaits
<1> QED BY <1>2, <1>3, <1>4

LEMMA StepKeeps ==
  ASSUME TypeOK, Dates, Short, Sanes, Agreed, Elsewhere, hour' = hour,
         NEW i \in Ids, NEW o, o = <<>> \/ Head(o) \in Steps(i), NEW also \in SUBSET Ids, Performs(o, also), SavesDated(i, o),
         (i = Battery => Battery \notin slips'.overtaken) => Turn(i, o),
         \A j \in Ids \ {i} : SameWaits(j)
  PROVE  Dates' /\ Short' /\ Sanes' /\ Agreed'
<1>0. IncidentsOK /\ Len(outbox) <= MaxOutbox /\ cloud' = cloud /\ disk' = disk /\ past' = past /\ syncs' = syncs
  BY DEF TypeOK, Short, Elsewhere, pairingVars
<1>1. /\ \A j \in Ids \ {i} : active'[j] = active[j]
      /\ (\A v, a : ~(o # <<>> /\ Head(o) = Save(i, v, a))) => active' = active
      /\ \A v, a : o # <<>> /\ Head(o) = Save(i, v, a) => active'[i] = v
      /\ slips'.overtaken = slips.overtaken \cup also
      /\ Len(outbox') <= MaxOutbox
      /\ \A j \in Ids : j \notin slips'.untold => Heard(outbox', j) \/ (j \notin slips.untold /\ (Heard(outbox, j) => Heard(outbox', j)))
  BY <1>0, PerformsLeaves
<1>2. Dates'
  <2>1. \A j \in Ids : \A v : Dated(j, v)' <=> Dated(j, v)
    BY DEF Dated
  <2>2. Dated(i, active'[i])
    <3>1. CASE \E v, a : o # <<>> /\ Head(o) = Save(i, v, a)
      BY <1>1, <3>1 DEF SavesDated
    <3>2. CASE \A v, a : ~(o # <<>> /\ Head(o) = Save(i, v, a))
      BY <1>1, <3>2 DEF Dates
    <3> QED BY <3>1, <3>2
  <2>3. \A j \in Ids : Dated(j, active'[j]) /\ Dated(j, disk.active[j])
    BY <1>1, <2>2 DEF Dates
  <2> QED BY <1>0, <2>3 DEF Dates, Dated
<1>3. Short'
  BY <1>0, <1>1 DEF Short
<1>4. \A j \in Ids \ {i} : /\ Sane(j) => Sane(j)'
                           /\ j \notin slips'.untold /\ (j \notin slips.untold => Fit(j)) => Fit(j)'
  BY <1>0, OthersFit
<1>5. ASSUME i = Battery => Battery \notin slips'.overtaken
      PROVE  /\ Sane(i)'
             /\ i \notin slips'.untold /\ (i \notin slips.untold => Fit(i)) => Fit(i)'
  <2>1. Sane(i)
    BY <1>1, <1>5 DEF Sanes
  <2> QED BY <1>0, <1>5, <2>1, TurnFits
<1>6. Sanes'
  <2> SUFFICES ASSUME NEW j \in Ids, j = Battery => Battery \notin slips'.overtaken PROVE Sane(j)'
    BY DEF Sanes
  <2>1. Sane(j)
    BY <1>1 DEF Sanes
  <2> QED BY <1>4, <1>5, <2>1
<1>7. Agreed'
  <2> SUFFICES ASSUME ~past.raced
               PROVE  (\A j \in Ids \ (slips'.untold \cup slips'.overtaken) : Fit(j)') /\ \A s \in Syncs : Carried(s)'
    BY <1>0 DEF Agreed
  <2>1. ASSUME NEW j \in Ids, j \notin slips'.untold, j \notin slips'.overtaken PROVE Fit(j)'
    <3>1. j \notin slips.untold => Fit(j)
      BY <1>1, <2>1 DEF Agreed
    <3> QED BY <1>4, <1>5, <2>1, <3>1
  <2>2. ASSUME NEW s \in Syncs PROVE Carried(s)'
    <3>1. Carried(s)
      BY DEF Agreed
    <3>2. syncs[s].pc = "sent" => \A j \in Ids : j \notin slips'.untold /\ Heard(syncs[s].sent, j) => Heard(outbox', j)
      BY <1>1, <3>1 DEF Carried
    <3> QED BY <1>0, <3>1, <3>2 DEF Carried, Heard
  <2> QED BY <2>1, <2>2
<1> QED BY <1>2, <1>3, <1>6, <1>7

(***************************************************************************)
(* A job goes on.                                                           *)
(***************************************************************************)
\* The first step of job k does o and leaves what it may leave.
Goes(k, i, o) ==
  /\ o = <<>> \/ Head(o) \in Steps(i)
  /\ SavesDated(i, o)
  /\ (i = Battery => Battery \notin slips'.overtaken) => Turn(i, o)
  /\ \A j \in Ids \ {i} : SameWaits(j)
  /\ \A do \in Dos, j \in Ids : HeadIs(Rest(o), do, j) => j # Radio /\ (j = Device => do = "save" /\ hour = 0) /\ (j = Battery => Reads(jobs[k]))
  /\ i = Radio => \A v, a : ~(o # <<>> /\ Head(o) = Save(i, v, a))
  /\ Reads(Rest(o)) => Reads(jobs[k])

\* Was the notification k overtaken, its step says so of the battery.
Overtaken(k) == Reads(jobs[k]) /\ \E j \in 1..k-1 : Reads(jobs[j])

LEMMA PendingIs ==
  ASSUME NEW i \in Ids, NEW e \in Pending(i)
  PROVE  /\ e.id = i /\ e.do \in Dos
         /\ (\E v \in Ended(i), a \in Case(i) : e = Save(i, v, a)) \/ \E r \in Nat : e = Tell(i, "open", r)
         /\ \A v, a : e = Save(i, v, a) => v \in Ended(i) /\ Dated(i, v)
<1>1. \A v, a : e = Save(i, v, a) => v \in Ended(i)
  <2> SUFFICES ASSUME NEW v, NEW a, e = Save(i, v, a) PROVE v \in Ended(i)
    OBVIOUS
  <2>1. \A r : e # Tell(i, "open", r)
    BY SaveOrTell
  <2>2. PICK w \in Ended(i), b \in Case(i) : e = Save(i, w, b)
    BY <2>1 DEF Pending
  <2>3. Save(i, v, a) = Save(i, w, b)
    BY <2>2
  <2>4. v = w
    BY <2>3, SaveIs
  <2> QED BY <2>2, <2>4
<1>2. \A v \in Ended(i) : Dated(i, v)
  BY DEF Ended, Dated
<1>3. (\E v \in Ended(i), a \in Case(i) : e = Save(i, v, a)) \/ \E r \in Nat : e = Tell(i, "open", r)
  BY DEF Pending
<1>4. e.id = i /\ e.do \in Dos
  BY <1>3 DEF Save, Tell, Dos
<1> QED BY <1>1, <1>2, <1>3, <1>4

LEMMA PendingGoes ==
  ASSUME IncidentsOK, RadioWaits, NEW k \in DOMAIN jobs, jobs[k] \in Alone \cup AndLook,
         NEW o, o = jobs[k], Replaces(jobs[k], Rest(o))
  PROVE  \E i \in Ids : Goes(k, i, o)
<1>0. jobs[k] \in Job /\ Battery \in Ids
  BY Places DEF IncidentsOK, Job
<1>1. PICK i \in Ids : /\ Head(o) \in Pending(i) /\ NoHead(Rest(o)) /\ o # <<>>
                       /\ Reads(Rest(o)) => Reads(jobs[k])
  <2>1. CASE jobs[k] \in Alone
    <3>1. ~Reads(<<>>)
      BY DEF Reads, Range
    <3> QED BY <1>0, <2>1, <3>1, JobKinds, Nothing
  <2>2. CASE jobs[k] \in AndLook
    <3>1. \A u : NoHead(<<Look(u)>>)
      BY DEF NoHead, HeadIs, Dos, Look
    <3>2. Head(jobs[k]) \in Pending(Battery) /\ (\E u \in BOOLEAN : Rest(jobs[k]) = <<Look(u)>>) /\ Reads(jobs[k]) /\ jobs[k] # <<>>
      BY <1>0, <2>2, JobKinds
    <3> QED BY <1>0, <3>1, <3>2
  <2> QED BY <2>1, <2>2
<1>2. Turn(i, o) /\ \A j \in Ids \ {i} : SameWaits(j)
  BY <1>1, PendingTurn
<1>3. Head(o) \in Steps(i)
  BY <1>1, PendingSteps
<1>4. SavesDated(i, o)
  BY <1>1, PendingIs DEF SavesDated
<1>5. ASSUME i = Radio, NEW v, NEW a, Head(o) = Save(i, v, a) PROVE FALSE
  <2>1. HeadIs(jobs[k], "save", Radio)
    BY <1>1, <1>5 DEF HeadIs, Save
  <2> QED BY <2>1 DEF RadioWaits, JobWaits
<1> QED BY <1>1, <1>2, <1>3, <1>4, <1>5 DEF Goes, NoHead

LEMMA DeviceGoes ==
  ASSUME IncidentsOK, Dates, DeviceWaits, NEW k \in DOMAIN jobs, jobs[k] \in Looks \cup Measures,
         NEW o \in {ObserveUnavailable, ObserveAvailable}, Replaces(jobs[k], Rest(o))
  PROVE  Goes(k, Device, o)
<1>0. jobs[k] \in Job /\ Device \in Ids \ {Battery} /\ Device # Radio
  BY Places DEF Job
<1>1. NoHead(jobs[k]) /\ Reads(jobs[k])
  BY <1>0, JobKinds
<1>2. Dated(Device, active[Device])
  BY <1>0 DEF Dates
<1>3. /\ Begun(Device, o) /\ SavesDated(Device, o)
      /\ \A do, j : HeadIs(Rest(o), do, j) => do = "save" /\ j = Device /\ hour = 0
  BY <1>2, DevicePlans
<1>4. Turn(Device, o) /\ \A j \in Ids \ {Device} : SameWaits(j)
  BY <1>0, <1>1, <1>3, FreshTurn
<1>5. o = <<>> \/ Head(o) \in Steps(Device)
  <2>1. o \in Plans(Device)
    <3>1. "fine" \in Levels /\ TRUE \in BOOLEAN
      BY DEF Levels
    <3> QED BY <3>1, HandlersPlan DEF Device
  <2> QED BY <1>0, <2>1, PlanRests
<1> QED BY <1>0, <1>1, <1>3, <1>4, <1>5 DEF Goes

LEMMA BatteryGoes ==
  ASSUME IncidentsOK, BatteryWaits, NEW k \in DOMAIN jobs, NEW l \in Levels, NEW u \in BOOLEAN, jobs[k] = <<Measure(l), Look(u)>>,
         NEW o, ObserveBattery(l) # <<>>, o = ObserveBattery(l) \o <<Look(u)>>, Replaces(jobs[k], Rest(o)),
         slips.overtaken \subseteq slips'.overtaken, Overtaken(k) => Battery \in slips'.overtaken
  PROVE  Goes(k, Battery, o)
<1>0. jobs[k] \in Measures /\ jobs[k] \in Job /\ Battery \in Ids /\ jobs \in Seq(Job) /\ Battery # Radio /\ Battery # Device
  BY Places DEF Job, Measures, IncidentsOK
<1>1. NoHead(jobs[k]) /\ Reads(jobs[k])
  BY <1>0, JobKinds
<1>2. ObserveBattery(l) \in Plans(Battery)
  <2>1. TRUE \in BOOLEAN
    OBVIOUS
  <2> QED BY <2>1, HandlersPlan
<1>3. o # <<>> /\ Head(o) = Head(ObserveBattery(l))
      /\ \A do \in Dos : \A j : HeadIs(Rest(o), do, j) <=> HeadIs(Rest(ObserveBattery(l)), do, j)
  BY <1>0, <1>2, LookAfter
<1>4. PICK f \in Steps(Battery) : ObserveBattery(l) = <<f>> \/ \E g \in Pending(Battery) : ObserveBattery(l) = <<f, g>>
  BY <1>0, <1>2, PlanSteps
<1>5. \A do \in Dos, j \in Ids : HeadIs(Rest(ObserveBattery(l)), do, j) => j = Battery
  <2>1. CASE ObserveBattery(l) = <<f>>
    <3>1. Rest(ObserveBattery(l)) = <<>>
      BY <2>1 DEF Rest
    <3> QED BY <3>1, Nothing
  <2>2. ASSUME NEW g \in Pending(Battery), ObserveBattery(l) = <<f, g>> PROVE \A do \in Dos, j \in Ids : HeadIs(Rest(ObserveBattery(l)), do, j) => j = Battery
    <3>1. Rest(ObserveBattery(l)) = <<g>>
      BY <2>2, RestOfTwo, Zenon
    <3>2. g.id = Battery
      BY <1>0, PendingIs
    <3> QED BY <3>1, <3>2 DEF HeadIs
  <2> QED BY <1>4, <2>1, <2>2
<1>6. Head(o) \in Steps(Battery)
  <2>1. ASSUME NEW g \in Pending(Battery), ObserveBattery(l) = <<f, g>> PROVE Head(ObserveBattery(l)) = f
    BY <2>1
  <2>2. Head(ObserveBattery(l)) = f
    BY <1>4, <2>1
  <2> QED BY <1>3, <2>2
<1>7. SavesDated(Battery, o)
  <2> SUFFICES ASSUME NEW v, NEW a, Head(o) = Save(Battery, v, a) PROVE Dated(Battery, v)
    BY DEF SavesDated
  <2>1. \A w, r : Head(o) # Tell(Battery, w, r)
    BY SaveOrTell
  <2>2. PICK w \in Case(Battery), b \in Case(Battery) : Head(o) = Save(Battery, w, b)
    BY <1>6, <2>1 DEF Steps
  <2>3. v \in Case(Battery)
    BY <2>2, SaveIs
  <2> QED BY <2>3 DEF Case, Dated
<1>8. \A j \in Ids \ {Battery} : SameWaits(j)
  <2>1. \A do \in Dos, j \in Ids \ {Battery} : ~HeadIs(jobs[k], do, j) /\ ~HeadIs(Rest(o), do, j)
    BY <1>1, <1>3, <1>5 DEF NoHead
  <2> QED BY <1>0, <2>1, OthersWait
<1>9. ASSUME Battery \notin slips'.overtaken PROVE Turn(Battery, o)
  <2>1. ASSUME NEW do \in Dos PROVE ~Waits(do, Battery)
    <3>1. ~HeadIs(sweep.doing, do, Battery)
      <4>1. sweep.doing = <<>> \/ sweep.doing \in Alone
        BY DEF IncidentsOK
      <4>2. sweep.doing \in Alone => sweep.doing \in Job
        BY DEF Job
      <4> QED BY <4>1, <4>2, JobKinds, Nothing
    <3>2. ASSUME NEW n \in DOMAIN jobs, HeadIs(jobs[n], do, Battery) PROVE FALSE
      <4>1. jobs[n] \in Job
        BY <1>0
      <4>2. Reads(jobs[n])
        BY <1>0, <3>2, <4>1, JobKinds DEF Job, NoHead
      <4>3. n # k
        BY <1>0, <1>1, <3>2 DEF NoHead
      <4>4. n \in Nat /\ k \in Nat /\ n > 0 /\ k > 0
        BY <1>0, LenProperties
      <4>5. CASE n < k
        <5>1. n \in 1..k-1
          BY <4>4, <4>5
        <5> QED BY <1>1, <1>9, <4>2, <5>1 DEF Overtaken
      <4>6. CASE k < n
        <5>1. k \in 1..n-1
          BY <4>4, <4>6
        <5>2. Battery \notin slips.overtaken
          BY <1>9
        <5> QED BY <1>1, <3>2, <5>1, <5>2 DEF BatteryWaits
      <4> QED BY <4>3, <4>4, <4>5, <4>6
    <3> QED BY <3>1, <3>2 DEF Waits, JobWaits
  <2>2. Begun(Battery, o)
    BY <2>1, BatteryPlans DEF Dos
  <2> QED BY <1>0, <1>1, <2>2, FreshTurn
<1> QED BY <1>0, <1>1, <1>3, <1>5, <1>6, <1>7, <1>8, <1>9 DEF Goes

LEMMA BatteryKept ==
  ASSUME jobs \in Seq(Job), BatteryWaits, NEW k \in DOMAIN jobs, NEW r, jobs' = After(k, r),
         Reads(r) => Reads(jobs[k]), \A do \in Dos : HeadIs(r, do, Battery) => Reads(jobs[k]),
         slips.overtaken \subseteq slips'.overtaken, Overtaken(k) => Battery \in slips'.overtaken
  PROVE  BatteryWaits'
<1> SUFFICES ASSUME Battery \notin slips'.overtaken, NEW do \in Dos, NEW m \in DOMAIN jobs', HeadIs(jobs'[m], do, Battery),
                    NEW j \in 1..m-1
             PROVE  ~Reads(jobs'[j])
  BY DEF BatteryWaits, HeadIs, Reads
<1>1. PICK n \in Nat : n = Len(jobs) /\ DOMAIN jobs = 1..n
  BY LenProperties
<1>2. \A p \in 1..n, q \in 1..n : HeadIs(jobs[p], do, Battery) /\ q < p => ~Reads(jobs[q])
  BY <1>1 DEF BatteryWaits
<1>3. CASE r = <<>>
  <2>1. jobs' = [p \in 1..n - 1 |-> IF p < k THEN jobs[p] ELSE jobs[p + 1]]
    BY <1>1, <1>3 DEF After
  <2>2. DOMAIN jobs' = 1..n - 1 /\ \A p \in 1..n - 1 : jobs'[p] = IF p < k THEN jobs[p] ELSE jobs[p + 1]
    BY <2>1
  <2>3. m \in 1..n - 1 /\ j \in 1..n - 1 /\ j < m
    BY <1>1, <2>2
  <2> DEFINE p == IF m < k THEN m ELSE m + 1
             q == IF j < k THEN j ELSE j + 1
  <2>4. p \in 1..n /\ q \in 1..n /\ q < p /\ jobs'[m] = jobs[p] /\ jobs'[j] = jobs[q]
    BY <1>1, <2>2, <2>3
  <2> HIDE DEF p, q
  <2> QED BY <1>2, <2>4
<1>4. CASE r # <<>>
  <2>1. jobs' = [jobs EXCEPT ![k] = r]
    BY <1>4 DEF After
  <2>2. DOMAIN jobs' = DOMAIN jobs /\ jobs'[k] = r /\ \A p \in DOMAIN jobs : p # k => jobs'[p] = jobs[p]
    BY <2>1
  <2>3. m \in 1..n /\ j \in 1..n /\ j < m
    BY <1>1, <2>2
  <2>4. CASE m # k /\ j # k
    BY <1>1, <1>2, <2>2, <2>3, <2>4
  <2>5. CASE j = k
    <3>1. jobs'[m] = jobs[m] /\ jobs'[j] = r
      BY <1>1, <2>2, <2>3, <2>5
    <3> QED BY <1>1, <1>2, <2>3, <2>5, <3>1
  <2>6. CASE m = k
    <3>1. jobs'[m] = r /\ jobs'[j] = jobs[j]
      BY <1>1, <2>2, <2>3, <2>6
    <3>2. Reads(jobs[k]) /\ j \in 1..k-1
      BY <2>6, <3>1
    <3> QED BY <3>1, <3>2 DEF Overtaken
  <2> QED BY <2>4, <2>5, <2>6
<1> QED BY <1>3, <1>4

LEMMA ToldJob ==
  ASSUME TypeOK, Told, Elsewhere, NEW k \in DOMAIN jobs, JobStep(k)
  PROVE  Told'
<1> DEFINE o == Opened(jobs[k])
           also == IF Overtaken(k) THEN {"device_offline", "battery_critical"} ELSE {}
<1>0. IncidentsOK /\ Dates /\ Short /\ Sweeping /\ DeviceWaits /\ RadioWaits /\ BatteryWaits /\ Sanes /\ Agreed
  BY DEF TypeOK, Told
<1>1. jobs \in Seq(Job) /\ jobs[k] \in Job
  BY <1>0 DEF IncidentsOK
<1>2. jobs' = After(k, Rest(o)) /\ Performs(o, also) /\ sweep' = sweep /\ hour' = hour
  BY <1>0, JobStepOK DEF JobStep, Overtaken
<1>3. also \in SUBSET Ids /\ (Overtaken(k) => Battery \in also)
  BY DEF Ids, Battery
<1>4. \A i \in Ids : o = <<>> \/ Head(o) \in Steps(i) => slips'.overtaken = slips.overtaken \cup also
  <2> HIDE DEF o, also
  <2> QED BY <1>0, <1>2, <1>3, PerformsLeaves DEF Short
<1>5. slips'.overtaken = slips.overtaken \cup also
  <2>1. o = <<>> \/ \E i \in Ids : Head(o) \in Steps(i)
    BY <1>0, <1>1, OpenedOK
  <2> HIDE DEF o, also
  <2> QED BY <1>4, <2>1, Places
<1> HIDE DEF also
<1>6. Replaces(jobs[k], Rest(o)) /\ \A do \in Dos, i \in Ids : JobWaits(do, i)' => HeadIs(Rest(o), do, i) \/ JobWaits(do, i)
  <2> HIDE DEF o
  <2> QED BY <1>1, <1>2, JobReplaces
<1>7. PICK i \in Ids : Goes(k, i, o)
  <2>1. CASE jobs[k] \in Alone \cup AndLook /\ o = jobs[k]
    <3> HIDE DEF o
    <3> QED BY <1>0, <1>6, <2>1, PendingGoes
  <2>2. CASE jobs[k] \in Looks \cup Measures /\ o \in {ObserveUnavailable, ObserveAvailable}
    <3> HIDE DEF o
    <3> QED BY <1>0, <1>6, <2>2, DeviceGoes, Places
  <2>3. ASSUME NEW l \in Levels, NEW u \in BOOLEAN, jobs[k] = <<Measure(l), Look(u)>>, ObserveBattery(l) # <<>>, o = ObserveBattery(l) \o <<Look(u)>>
        PROVE  \E i \in Ids : Goes(k, i, o)
    <3> HIDE DEF o
    <3>1. slips.overtaken \subseteq slips'.overtaken /\ (Overtaken(k) => Battery \in slips'.overtaken)
      BY <1>3, <1>5
    <3> QED BY <1>0, <1>6, <2>3, <3>1, BatteryGoes, Places
  <2>4. \/ jobs[k] \in Alone \cup AndLook /\ o = jobs[k]
        \/ jobs[k] \in Looks \cup Measures /\ o \in {ObserveUnavailable, ObserveAvailable}
        \/ \E l \in Levels, u \in BOOLEAN : jobs[k] = <<Measure(l), Look(u)>> /\ ObserveBattery(l) # <<>> /\ o = ObserveBattery(l) \o <<Look(u)>>
    <3>1. CASE jobs[k] \in Alone \cup AndLook /\ o = jobs[k]
      BY <3>1
    <3>2. ASSUME NEW u \in BOOLEAN, jobs[k] = <<Look(u)>>, o = IF u THEN ObserveAvailable ELSE ObserveUnavailable
          PROVE  jobs[k] \in Looks \cup Measures /\ o \in {ObserveUnavailable, ObserveAvailable}
      <4> HIDE DEF o
      <4> QED BY <3>2 DEF Looks
    <3>3. ASSUME NEW l \in Levels, NEW u \in BOOLEAN, jobs[k] = <<Measure(l), Look(u)>>,
                 o = IF ObserveBattery(l) = <<>> THEN IF u THEN ObserveAvailable ELSE ObserveUnavailable ELSE ObserveBattery(l) \o <<Look(u)>>
          PROVE  \/ jobs[k] \in Looks \cup Measures /\ o \in {ObserveUnavailable, ObserveAvailable}
                 \/ ObserveBattery(l) # <<>> /\ o = ObserveBattery(l) \o <<Look(u)>>
      <4> HIDE DEF o
      <4> QED BY <3>3 DEF Measures
    <3>4. \/ jobs[k] \in Alone \cup AndLook /\ o = jobs[k]
          \/ \E u \in BOOLEAN : jobs[k] = <<Look(u)>> /\ o = IF u THEN ObserveAvailable ELSE ObserveUnavailable
          \/ \E l \in Levels, u \in BOOLEAN :
               /\ jobs[k] = <<Measure(l), Look(u)>>
               /\ o = IF ObserveBattery(l) = <<>> THEN IF u THEN ObserveAvailable ELSE ObserveUnavailable
                      ELSE ObserveBattery(l) \o <<Look(u)>>
      BY <1>1, OpenedIs
    <3> HIDE DEF o
    <3> QED BY <3>1, <3>2, <3>3, <3>4
  <2> QED BY <2>1, <2>2, <2>3, <2>4
<1> HIDE DEF o
<1>8. Dates' /\ Short' /\ Sanes' /\ Agreed'
  BY <1>0, <1>2, <1>3, <1>7, StepKeeps DEF Goes
<1>9. Sweeping'
  BY <1>0, <1>2 DEF Sweeping, Dated
<1>10. DeviceWaits'
  <2>1. hour = 0 => ~Waits("tell", Device)'
    <3>1. ~HeadIs(Rest(o), "tell", Device)
      BY <1>7, Places DEF Goes, Dos
    <3> QED BY <1>0, <1>6, <3>1, Places DEF Replaces, DeviceWaits, Dos
  <2>2. hour # 0 => ~JobWaits("tell", Device)' /\ ~JobWaits("save", Device)'
    <3>1. hour # 0 => ~HeadIs(Rest(o), "tell", Device) /\ ~HeadIs(Rest(o), "save", Device)
      BY <1>7, Places DEF Goes, Dos
    <3> QED BY <1>0, <1>6, <3>1, Places DEF DeviceWaits, Dos
  <2> QED BY <1>2, <2>1, <2>2 DEF DeviceWaits
<1>11. RadioWaits'
  <2>1. active'[Radio] = active[Radio]
    <3>1. CASE i = Radio
      <4>1. active' = active
        BY <1>0, <1>2, <1>3, <1>7, <3>1, PerformsLeaves DEF Goes, Short
      <4> QED BY <4>1
    <3>2. CASE i # Radio
      BY <1>0, <1>2, <1>3, <1>7, <3>2, PerformsLeaves, Places DEF Goes, Short
    <3> QED BY <3>1, <3>2
  <2>2. ~HeadIs(Rest(o), "save", Radio) /\ ~HeadIs(Rest(o), "tell", Radio)
    BY <1>7, Places DEF Goes, Dos
  <2>3. ~JobWaits("save", Radio)'
    BY <1>0, <1>6, <2>2, Places DEF RadioWaits, Dos
  <2>4. Waits("tell", Radio)' => Waits("tell", Radio)
    BY <1>6, <2>2, Places DEF Replaces, Dos
  <2> QED BY <1>0, <1>2, <2>1, <2>3, <2>4 DEF RadioWaits, HeadIs
<1>12. BatteryWaits'
  <2>1. Reads(Rest(o)) => Reads(jobs[k])
    BY <1>7 DEF Goes
  <2>2. \A do \in Dos : HeadIs(Rest(o), do, Battery) => Reads(jobs[k])
    BY <1>7, Places DEF Goes
  <2>3. slips.overtaken \subseteq slips'.overtaken /\ (Overtaken(k) => Battery \in slips'.overtaken)
    BY <1>3, <1>5
  <2> QED BY <1>0, <1>1, <1>2, <2>1, <2>2, <2>3, BatteryKept
<1> QED BY <1>8, <1>9, <1>10, <1>11, <1>12 DEF Told

LEMMA QuietLeaves ==
  ASSUME IncidentsOK, Short, NEW i \in Ids, NEW o, o = <<>> \/ Head(o) \in Steps(i), Performs(o, {})
  PROVE  /\ \A j \in Ids \ {i} : active'[j] = active[j]
         /\ (\A v, a : ~(o # <<>> /\ Head(o) = Save(i, v, a))) => active' = active
         /\ \A v, a : o # <<>> /\ Head(o) = Save(i, v, a) => active'[i] = v
         /\ slips'.overtaken = slips.overtaken
<1>1. Len(outbox) <= MaxOutbox
  BY DEF Short
<1>2. {} \in SUBSET Ids
  OBVIOUS
<1>3. /\ \A j \in Ids \ {i} : active'[j] = active[j]
      /\ (\A v, a : ~(o # <<>> /\ Head(o) = Save(i, v, a))) => active' = active
      /\ \A v, a : o # <<>> /\ Head(o) = Save(i, v, a) => active'[i] = v
      /\ slips'.overtaken = slips.overtaken \cup {}
  BY <1>1, <1>2, PerformsLeaves
<1>4. slips.overtaken \cup {} = slips.overtaken
  OBVIOUS
<1> QED BY <1>3, <1>4

LEMMA ToldCheck ==
  ASSUME TypeOK, Told, Elsewhere, IntegrationChecked
  PROVE  Told'
<1> DEFINE o == ObserveIntegration(home.healthy)
<1>0. /\ IncidentsOK /\ Dates /\ Short /\ Sweeping /\ DeviceWaits /\ RadioWaits /\ BatteryWaits /\ Sanes /\ Agreed
      /\ home.healthy \in BOOLEAN /\ jobs \in Seq(Job)
  BY DEF TypeOK, Told, IncidentsOK, Home
<1>1. o # <<>> /\ jobs' = jobs \o With(Rest(o)) /\ Performs(o, {}) /\ sweep' = sweep /\ hour' = hour
  BY DEF IntegrationChecked
<1>2. Dated(Radio, active[Radio]) /\ Radio \in Ids \ {Battery} /\ Radio # Device /\ Device \in Ids
  BY <1>0, Places DEF Dates
<1>3. o \in Plans(Radio)
  <2>1. "fine" \in Levels
    BY DEF Levels
  <2> QED BY <1>0, <2>1, HandlersPlan DEF Radio
<1> HIDE DEF o
<1>4. /\ Begun(Radio, o) /\ SavesDated(Radio, o)
      /\ active[Radio].state # "recovering"
      /\ \A do, j : HeadIs(Rest(o), do, j) => do = "tell" /\ j = Radio
      /\ \E v, b \in Case(Radio) :
           /\ Head(o) = Save(Radio, v, b)
           /\ \/ v.state = "open" \/ (v.state = "recovering" /\ v.recovered = hour)
              \/ active[Radio].state \in {"none", "watching"} /\ \A do, j : ~HeadIs(Rest(o), do, j)
  BY <1>0, <1>1, <1>2, RadioPlans DEF o
<1>5. Head(o) \in Steps(Radio) /\ Rest(o) \in {<<>>} \cup Job
  BY <1>1, <1>2, <1>3, PlanRests
<1>6. /\ Replaces(<<>>, Rest(o))
      /\ \A do \in Dos, i \in Ids : JobWaits(do, i)' => HeadIs(Rest(o), do, i) \/ JobWaits(do, i)
      /\ DOMAIN jobs \subseteq DOMAIN jobs' /\ \A k \in DOMAIN jobs : jobs'[k] = jobs[k]
      /\ \A k \in DOMAIN jobs' \ DOMAIN jobs : jobs'[k] = Rest(o)
  BY <1>0, <1>1, <1>5, GrownReplaces
<1>7. Turn(Radio, o) /\ \A j \in Ids \ {Radio} : SameWaits(j)
  BY <1>2, <1>4, <1>6, Nothing, FreshTurn
<1>8. Dates' /\ Short' /\ Sanes' /\ Agreed'
  <2>1. {} \in SUBSET Ids
    OBVIOUS
  <2> QED BY <1>0, <1>1, <1>2, <1>4, <1>5, <1>7, <2>1, StepKeeps
<1>9. slips'.overtaken = slips.overtaken /\ \A v, a : Head(o) = Save(Radio, v, a) => active'[Radio] = v
  BY <1>0, <1>1, <1>2, <1>5, QuietLeaves
<1>10. Sweeping'
  BY <1>0, <1>1 DEF Sweeping, Dated
<1>11. DeviceWaits'
  <2>1. ~HeadIs(Rest(o), "tell", Device) /\ ~HeadIs(Rest(o), "save", Device)
    BY <1>2, <1>4
  <2>2. hour = 0 => ~Waits("tell", Device)'
    BY <1>0, <1>2, <1>6, <2>1 DEF Replaces, DeviceWaits, Dos
  <2>3. hour # 0 => ~JobWaits("tell", Device)' /\ ~JobWaits("save", Device)'
    BY <1>0, <1>2, <1>6, <2>1 DEF DeviceWaits, Dos
  <2> QED BY <1>1, <2>2, <2>3 DEF DeviceWaits
<1>12. RadioWaits'
  <2>1. ~JobWaits("save", Radio)'
    BY <1>0, <1>2, <1>4, <1>6 DEF RadioWaits, Dos
  <2>2. Waits("tell", Radio)' => active'[Radio].state = "open" \/ (active'[Radio].state = "recovering" /\ active'[Radio].recovered = hour)
    <3>1. PICK v \in Case(Radio), b \in Case(Radio) :
           /\ Head(o) = Save(Radio, v, b)
           /\ \/ v.state = "open" \/ (v.state = "recovering" /\ v.recovered = hour)
              \/ active[Radio].state \in {"none", "watching"} /\ \A do, j : ~HeadIs(Rest(o), do, j)
      BY <1>4
    <3>2. active'[Radio] = v
      BY <1>9, <3>1
    <3>3. CASE active[Radio].state \in {"none", "watching"} /\ \A do, j : ~HeadIs(Rest(o), do, j)
      <4>1. ~Waits("tell", Radio)
        BY <1>0, <3>3 DEF RadioWaits
      <4> QED BY <1>2, <1>6, <3>3, <4>1 DEF Replaces, Dos
    <3> QED BY <3>1, <3>2, <3>3
  <2>3. ~HeadIs(sweep.doing, "save", Radio)
    BY <1>0, <1>4 DEF RadioWaits
  <2>4. \A t \in sweep.todo : ~(t[1] = Radio /\ t[2].state = "recovering" /\ t[2].recovered < hour)
    BY <1>0, <1>4 DEF RadioWaits
  <2> QED BY <1>1, <2>1, <2>2, <2>3, <2>4 DEF RadioWaits, HeadIs
<1>13. BatteryWaits'
  <2> SUFFICES ASSUME Battery \notin slips.overtaken, NEW do \in Dos, NEW m \in DOMAIN jobs', HeadIs(jobs'[m], do, Battery),
                      NEW j \in 1..m-1
               PROVE  ~Reads(jobs'[j])
    BY <1>9 DEF BatteryWaits, HeadIs, Reads
  <2>1. m \in DOMAIN jobs
    BY <1>2, <1>4, <1>6
  <2>2. jobs'[m] = jobs[m]
    BY <1>6, <2>1
  <2>3. PICK n \in Nat : DOMAIN jobs = 1..n
    BY <1>0, LenProperties
  <2>4. j \in DOMAIN jobs
    BY <2>1, <2>3
  <2>5. jobs'[j] = jobs[j]
    BY <1>6, <2>4
  <2> QED BY <1>0, <2>1, <2>2, <2>5 DEF BatteryWaits
<1> QED BY <1>8, <1>10, <1>11, <1>12, <1>13 DEF Told

(***************************************************************************)
(* The sweep.                                                               *)
(***************************************************************************)
LEMMA SweepRestsIs ==
  ASSUME NEW todo, NEW doing, sweep' = SweepRests(todo, doing), IncidentsOK
  PROVE  sweep'.todo = todo /\ sweep'.doing = doing /\ (sweep' # Asleep => sweep'.now = sweep.now)
BY DEF SweepRests, Asleep, IncidentsOK

LEMMA ToldDoing ==
  ASSUME TypeOK, Told, Elsewhere, UNCHANGED <<home, jobs, hour>>,
         sweep.doing # <<>>, sweep' = SweepRests(sweep.todo, Tail(sweep.doing)), Performs(sweep.doing, {})
  PROVE  Told'
<1> DEFINE o == sweep.doing
<1>0. /\ IncidentsOK /\ Dates /\ Short /\ Sweeping /\ DeviceWaits /\ RadioWaits /\ BatteryWaits /\ Sanes /\ Agreed
      /\ o \in Alone /\ o \in Job
  BY DEF TypeOK, Told, IncidentsOK, Job
<1>1. sweep'.todo = sweep.todo /\ sweep'.doing = Rest(o) /\ (sweep' # Asleep => sweep'.now = sweep.now)
  BY <1>0, SweepRestsIs DEF Rest
<1>2. PICK i \in Ids \ {Battery} : Head(o) \in Pending(i)
  BY <1>0, JobKinds
<1>3. Rest(o) = <<>> /\ NoHead(Rest(o))
  BY <1>0, JobKinds, Nothing
<1>4. Replaces(o, Rest(o)) /\ \A do, j : JobWaits(do, j)' <=> JobWaits(do, j)
  BY <1>1, SweepReplaces
<1>5. Turn(i, o) /\ \A j \in Ids \ {i} : SameWaits(j)
  BY <1>2, <1>3, <1>4, PendingTurn
<1>6. Head(o) \in Steps(i) /\ SavesDated(i, o)
  BY <1>2, PendingIs, PendingSteps DEF SavesDated
<1>7. Dates' /\ Short' /\ Sanes' /\ Agreed'
  <2>1. {} \in SUBSET Ids
    OBVIOUS
  <2> HIDE DEF o
  <2> QED BY <1>0, <1>2, <1>5, <1>6, <2>1, StepKeeps DEF o
<1>8. /\ \A j \in Ids \ {i} : active'[j] = active[j]
      /\ (\A v, a : ~(o # <<>> /\ Head(o) = Save(i, v, a))) => active' = active
      /\ slips'.overtaken = slips.overtaken
  <2>1. Performs(o, {}) /\ i \in Ids
    BY <1>2
  <2> HIDE DEF o
  <2> QED BY <1>0, <1>6, <2>1, QuietLeaves
<1>9. Sweeping'
  <2>1. sweep' # Asleep => sweep'.now = hour
    <3>1. sweep # Asleep
      BY DEF Asleep
    <3> QED BY <1>0, <1>1, <3>1 DEF Sweeping
  <2> QED BY <1>0, <1>1, <1>3, <2>1 DEF Sweeping, Dated
<1>10. DeviceWaits'
  <2>1. hour = 0 => ~Waits("tell", Device)'
    BY <1>0, <1>3, <1>4, Places DEF Replaces, DeviceWaits, Dos, NoHead
  <2> QED BY <1>0, <1>4, <2>1 DEF DeviceWaits
<1>11. RadioWaits'
  <2>1. ~JobWaits("save", Radio)' /\ ~HeadIs(sweep.doing, "save", Radio)'
    BY <1>0, <1>1, <1>3, <1>4 DEF RadioWaits, HeadIs
  <2>2. Waits("tell", Radio)' => Waits("tell", Radio)
    BY <1>3, <1>4, Places DEF Replaces, Dos, NoHead
  <2>3. CASE active'[Radio] = active[Radio]
    BY <1>0, <1>1, <2>1, <2>2, <2>3 DEF RadioWaits
  <2>4. CASE i = Radio
    <3>1. \A t \in sweep.todo : t[1] # Radio
      <4>1. Head(o).id = Radio
        BY <1>2, <2>4, PendingIs
      <4> QED BY <1>0, <4>1 DEF Sweeping
    <3>2. CASE \A v, a : ~(o # <<>> /\ Head(o) = Save(i, v, a))
      BY <1>8, <2>3, <3>2
    <3>3. ASSUME NEW v, NEW a, Head(o) = Save(i, v, a) PROVE ~Waits("tell", Radio)
      <4>1. HeadIs(sweep.doing, "save", Radio)
        BY <2>4, <3>3 DEF HeadIs, Save
      <4>2. active[Radio].state = "recovering" /\ active[Radio].recovered < hour
        BY <1>0, <4>1 DEF RadioWaits
      <4>3. active[Radio].recovered \in Nat /\ hour \in Nat
        BY <1>0, Places DEF IncidentsOK, Case, Incident
      <4> QED BY <1>0, <4>2, <4>3 DEF RadioWaits
    <3>4. (\E v, a : Head(o) = Save(i, v, a)) => ~Waits("tell", Radio)'
      BY <2>2, <3>3
    <3>5. CASE \E v, a : Head(o) = Save(i, v, a)
      BY <1>1, <2>1, <3>1, <3>4, <3>5 DEF RadioWaits
    <3> QED BY <3>2, <3>5
  <2> QED BY <1>8, <2>3, <2>4, Places
<1>12. BatteryWaits'
  BY <1>0, <1>8 DEF BatteryWaits, HeadIs, Reads
<1> QED BY <1>7, <1>9, <1>10, <1>11, <1>12 DEF Told

LEMMA ToldNext ==
  ASSUME TypeOK, Told, Elsewhere, UNCHANGED <<home, jobs, hour>>, sweep.doing = <<>>, NEW t \in sweep.todo,
         NEW o, o = Sweep(t[1], t[2], sweep.now), sweep' = SweepRests(sweep.todo \ {t}, Rest(o)), Performs(o, {})
  PROVE  Told'
<1> DEFINE i == t[1]
           a == t[2]
<1>0. /\ IncidentsOK /\ Dates /\ Short /\ Sweeping /\ DeviceWaits /\ RadioWaits /\ BatteryWaits /\ Sanes /\ Agreed
      /\ hour \in Nat
  BY DEF TypeOK, Told, IncidentsOK
<1>1. sweep'.todo = sweep.todo \ {t} /\ sweep'.doing = Rest(o) /\ (sweep' # Asleep => sweep'.now = sweep.now)
  BY <1>0, SweepRestsIs
<1>2. i \in Ids /\ a \in Case(i) /\ t = <<i, a>> /\ Dated(i, a)
  BY <1>0 DEF IncidentsOK, Sweeping
<1>3. sweep # Asleep /\ sweep.now = hour
  BY <1>0 DEF Sweeping, Asleep
<1> HIDE DEF i, a
<1>4. o = Sweep(i, a, hour)
  BY <1>3 DEF i, a
<1>5. /\ Begun(i, o) /\ SavesDated(i, o)
      /\ \A do, j : HeadIs(Rest(o), do, j) => j = i /\ i # Battery /\ (do = "tell" => hour > 0)
      /\ \/ o = <<>>
         \/ \E v, b \in Case(i) : v.state = "open" /\ Head(o) = Save(i, v, b) /\ (\A j : ~HeadIs(Rest(o), "save", j))
         \/ \E r \in Nat : /\ Head(o) = Tell(i, "resolved", r) /\ (\A j : ~HeadIs(Rest(o), "tell", j))
                           /\ i = Radio => active[i].state = "recovering" /\ active[i].recovered < hour
  BY <1>0, <1>2, <1>4, SweepsPlans
<1>6. (o = <<>> \/ Head(o) \in Steps(i)) /\ Rest(o) \in {<<>>} \cup Alone
  <2>1. o \in Plans(i) /\ (i = Battery => o = <<>>)
    BY <1>0, <1>2, <1>4, SweepPlans
  <2>2. i # Battery => (o = <<>> \/ Head(o) \in Steps(i)) /\ Rest(o) \in {<<>>} \cup Alone
    BY <1>2, <2>1, PlanRests
  <2> QED BY <2>1, <2>2, Nothing
<1>7. Replaces(<<>>, Rest(o)) /\ \A do, j : JobWaits(do, j)' <=> JobWaits(do, j)
  BY <1>1, SweepReplaces
<1>8. Turn(i, o) /\ \A j \in Ids \ {i} : SameWaits(j)
  BY <1>2, <1>5, <1>7, Nothing, FreshTurn
<1>9. Dates' /\ Short' /\ Sanes' /\ Agreed'
  <2>1. {} \in SUBSET Ids
    OBVIOUS
  <2> QED BY <1>0, <1>2, <1>5, <1>6, <1>8, <2>1, StepKeeps
<1>10. /\ \A j \in Ids \ {i} : active'[j] = active[j]
       /\ (\A v, b : ~(o # <<>> /\ Head(o) = Save(i, v, b))) => active' = active
       /\ \A v, b : o # <<>> /\ Head(o) = Save(i, v, b) => active'[i] = v
       /\ slips'.overtaken = slips.overtaken
  BY <1>0, <1>2, <1>6, QuietLeaves
<1>11. Sweeping'
  <2>1. Rest(o) # <<>> => Head(Rest(o)).id = i
    <3>1. ASSUME Rest(o) # <<>> PROVE Head(Rest(o)).id = i
      <4>1. Rest(o) \in Job /\ Rest(o) \in Alone
        BY <1>6, <3>1 DEF Job
      <4>2. PICK n \in Ids : Head(Rest(o)) \in Pending(n)
        BY <4>1, JobKinds
      <4>3. HeadIs(Rest(o), Head(Rest(o)).do, n) /\ Head(Rest(o)).id = n
        BY <3>1, <4>2, PendingIs DEF HeadIs
      <4> QED BY <1>5, <4>3
    <3> QED BY <3>1
  <2>2. \A u \in sweep.todo \ {t} : u[1] # i
    BY <1>0 DEF Sweeping, i
  <2>3. \A u \in sweep'.todo : /\ Dated(u[1], u[2])
                               /\ sweep'.doing # <<>> => u[1] # Head(sweep'.doing).id
                               /\ \A q \in sweep'.todo : u[1] = q[1] => u = q
    BY <1>0, <1>1, <2>1, <2>2 DEF Sweeping
  <2> QED BY <1>1, <1>3, <2>3 DEF Sweeping, Dated
<1>12. DeviceWaits'
  <2>1. hour = 0 => ~HeadIs(Rest(o), "tell", Device)
    BY <1>0, <1>5
  <2>2. hour = 0 => ~Waits("tell", Device)'
    BY <1>0, <1>7, <2>1, Places DEF Replaces, DeviceWaits, Dos
  <2> QED BY <1>0, <1>7, <2>2 DEF DeviceWaits
<1>13. RadioWaits'
  <2>1. ~JobWaits("save", Radio)'
    BY <1>0, <1>7 DEF RadioWaits
  <2>2. \A do \in Dos : Waits(do, Radio)' => HeadIs(Rest(o), do, Radio) \/ Waits(do, Radio)
    BY <1>7, Places DEF Replaces
  <2>3. HeadIs(sweep.doing, "save", Radio)' <=> HeadIs(Rest(o), "save", Radio)
    BY <1>1 DEF HeadIs
  <2>4. CASE i # Radio
    <3>1. active'[Radio] = active[Radio]
      BY <1>10, <2>4, Places
    <3>2. \A do : ~HeadIs(Rest(o), do, Radio)
      BY <1>5, <2>4
    <3>3. Waits("tell", Radio)' => Waits("tell", Radio)
      BY <2>2, <3>2 DEF Dos
    <3> QED BY <1>0, <1>1, <2>1, <2>3, <3>1, <3>2, <3>3 DEF RadioWaits
  <2>5. CASE i = Radio
    <3>1. \A u \in sweep'.todo : u[1] # Radio
      BY <1>0, <1>1, <2>5 DEF Sweeping, i
    <3>2. CASE o = <<>>
      <4>1. active' = active
        BY <1>10, <3>2
      <4>2. \A do : ~HeadIs(Rest(o), do, Radio)
        BY <3>2, Nothing
      <4>3. Waits("tell", Radio)' => Waits("tell", Radio)
        BY <2>2, <4>2 DEF Dos
      <4> QED BY <1>0, <2>1, <2>3, <3>1, <4>1, <4>2, <4>3 DEF RadioWaits
    <3>3. ASSUME o # <<>>, NEW v \in Case(i), NEW b \in Case(i), v.state = "open", Head(o) = Save(i, v, b), \A j : ~HeadIs(Rest(o), "save", j)
          PROVE  RadioWaits'
      <4>1. active'[Radio] = v
        BY <1>10, <2>5, <3>3
      <4> QED BY <2>1, <2>3, <3>1, <3>3, <4>1 DEF RadioWaits
    <3>4. ASSUME o # <<>>, NEW r \in Nat, Head(o) = Tell(i, "resolved", r), \A j : ~HeadIs(Rest(o), "tell", j),
                 active[i].state = "recovering" /\ active[i].recovered < hour
          PROVE  RadioWaits'
      <4>1. active' = active
        BY <1>10, <3>4, SaveOrTell
      <4>2. Waits("tell", Radio)' => Waits("tell", Radio)
        BY <2>2, <3>4 DEF Dos
      <4> QED BY <1>0, <2>1, <2>5, <3>1, <3>4, <4>1, <4>2 DEF RadioWaits
    <3> QED BY <1>5, <2>5, <3>2, <3>3, <3>4
  <2> QED BY <2>4, <2>5
<1>14. BatteryWaits'
  BY <1>0, <1>10 DEF BatteryWaits, HeadIs, Reads
<1> QED BY <1>9, <1>11, <1>12, <1>13, <1>14 DEF Told

LEMMA ToldSweeps ==
  ASSUME TypeOK, Told, Elsewhere, SweepStep
  PROVE  Told'
<1>1. UNCHANGED <<home, jobs, hour>>
  BY DEF SweepStep
<1>2. CASE sweep.doing # <<>> /\ sweep' = SweepRests(sweep.todo, Tail(sweep.doing)) /\ Performs(sweep.doing, {})
  BY <1>1, <1>2, ToldDoing
<1>3. CASE sweep.doing = <<>> /\ \E t \in sweep.todo :
             LET job == Sweep(t[1], t[2], sweep.now)
             IN /\ sweep' = SweepRests(sweep.todo \ {t}, Rest(job))
                /\ Performs(job, {})
  BY <1>1, <1>3, ToldNext
<1> QED BY <1>2, <1>3 DEF SweepStep

(***************************************************************************)
(* The sweep begins, the home changes, an hour passes.                      *)
(***************************************************************************)
LEMMA ToldBegins ==
  ASSUME TypeOK, Told, Elsewhere, SweepBegins
  PROVE  Told'
<1> DEFINE todo == {<<i, active[i]>> : i \in {x \in Ids : active[x].state # "none"}}
<1>0. /\ Dates /\ Short /\ Sweeping /\ DeviceWaits /\ RadioWaits /\ BatteryWaits /\ Sanes /\ Agreed
      /\ UNCHANGED <<active, outbox, jobs, hour, slips, disk, cloud, past, syncs>>
  BY DEF Told, SweepBegins, Elsewhere, pairingVars
<1>1. sweep = Asleep /\ sweep.doing = <<>> /\ sweep'.todo = todo /\ sweep'.doing = <<>> /\ sweep'.now = hour
  BY DEF SweepBegins, Asleep
<1>2. \A t \in todo : t[1] \in Ids /\ t[2] = active[t[1]] /\ t = <<t[1], t[2]>>
  OBVIOUS
<1> HIDE DEF todo
<1>3. \A do, i : JobWaits(do, i)' <=> JobWaits(do, i)
  BY <1>0 DEF JobWaits, HeadIs
<1>4. \A do, i : HeadIs(sweep.doing, do, i)' <=> HeadIs(sweep.doing, do, i)
  BY <1>1 DEF HeadIs
<1>5. \A do, i : Waits(do, i)' <=> Waits(do, i)
  BY <1>3, <1>4 DEF Waits
<1>6. Dates' /\ Short' /\ DeviceWaits'
  BY <1>0, <1>3, <1>5 DEF Dates, Short, DeviceWaits, Dated
<1>7. Sweeping'
  <2>1. \A t \in todo : Dated(t[1], t[2])
    BY <1>0, <1>2 DEF Dates
  <2>2. \A t \in todo, u \in todo : t[1] = u[1] => t = u
    BY <1>2
  <2> QED BY <1>0, <1>1, <2>1, <2>2 DEF Sweeping, Dated
<1>8. RadioWaits'
  <2>1. \A t \in todo : t[1] = Radio => active[Radio] = t[2]
    BY <1>2
  <2>2. ~HeadIs(sweep.doing, "save", Radio)'
    BY <1>1 DEF HeadIs
  <2> QED BY <1>0, <1>1, <1>3, <1>5, <2>1, <2>2 DEF RadioWaits
<1>9. BatteryWaits'
  BY <1>0 DEF BatteryWaits, HeadIs, Reads
<1>10. Sanes'
  BY <1>0, <1>5 DEF Sanes, Sane
<1>11. Agreed'
  <2>1. \A i : Fit(i)' <=> Fit(i)
    BY <1>0, <1>5 DEF Fit, Word
  <2>2. \A s \in Syncs : Carried(s)' <=> Carried(s)
    BY <1>0 DEF Carried, Heard
  <2> QED BY <1>0, <2>1, <2>2 DEF Agreed
<1> QED BY <1>6, <1>7, <1>8, <1>9, <1>10, <1>11 DEF Told

\* More jobs that begin by looking, and nothing else that is told or waits.
LEMMA ToldGrown ==
  ASSUME TypeOK, Told, Elsewhere, UNCHANGED <<active, outbox, sweep, hour, slips>>,
         NEW r \in Looks \cup Measures \cup {<<>>}, jobs' = jobs \o With(r)
  PROVE  Told'
<1>0. /\ Dates /\ Short /\ Sweeping /\ DeviceWaits /\ RadioWaits /\ BatteryWaits /\ Sanes /\ Agreed
      /\ jobs \in Seq(Job) /\ UNCHANGED <<disk, cloud, past, syncs>>
  BY DEF Told, TypeOK, IncidentsOK, Elsewhere, pairingVars
<1>1. \A do \in Dos : \A i : ~HeadIs(r, do, i)
  <2>1. \A do \in Dos : \A i : ~HeadIs(<<>>, do, i)
    BY DEF HeadIs
  <2>2. \A u \in BOOLEAN : Look(u).do = "look"
    BY DEF Look
  <2>3. \A l \in Levels : Measure(l).do = "measure"
    BY DEF Measure
  <2>4. CASE r \in Looks
    <3>1. PICK u \in BOOLEAN : r = <<Look(u)>>
      BY <2>4 DEF Looks
    <3> QED BY <2>2, <3>1 DEF HeadIs, Dos
  <2>5. CASE r \in Measures
    <3>1. PICK l \in Levels, u \in BOOLEAN : r = <<Measure(l), Look(u)>>
      BY <2>5 DEF Measures
    <3> QED BY <2>3, <3>1 DEF HeadIs, Dos
  <2> QED BY <2>1, <2>4, <2>5
<1>2. r \in Job \cup {<<>>}
  BY DEF Job
<1>3. /\ Replaces(<<>>, r)
      /\ \A do \in Dos, i \in Ids : JobWaits(do, i)' => HeadIs(r, do, i) \/ JobWaits(do, i)
      /\ DOMAIN jobs \subseteq DOMAIN jobs' /\ \A k \in DOMAIN jobs : jobs'[k] = jobs[k]
      /\ \A k \in DOMAIN jobs' \ DOMAIN jobs : jobs'[k] = r
  BY <1>0, <1>2, GrownReplaces
<1>4. \A do \in Dos, i \in Ids : (Waits(do, i)' <=> Waits(do, i)) /\ (JobWaits(do, i)' => JobWaits(do, i))
  BY <1>1, <1>3, Nothing DEF Replaces
<1>5. "save" \in Dos /\ "tell" \in Dos
  BY DEF Dos
<1>6. Dates' /\ Short' /\ Sweeping'
  BY <1>0 DEF Dates, Short, Sweeping, Dated
<1>7. DeviceWaits'
  BY <1>0, <1>4, <1>5, Places DEF DeviceWaits
<1>8. RadioWaits'
  BY <1>0, <1>4, <1>5, Places DEF RadioWaits, HeadIs
<1>9. BatteryWaits'
  <2> SUFFICES ASSUME Battery \notin slips.overtaken, NEW do \in Dos, NEW m \in DOMAIN jobs', HeadIs(jobs'[m], do, Battery),
                      NEW j \in 1..m-1
               PROVE  ~Reads(jobs'[j])
    BY <1>0 DEF BatteryWaits, HeadIs, Reads
  <2>1. m \in DOMAIN jobs
    BY <1>1, <1>3
  <2>2. jobs'[m] = jobs[m]
    BY <1>3, <2>1
  <2>3. PICK n \in Nat : DOMAIN jobs = 1..n
    BY <1>0, LenProperties
  <2>4. j \in DOMAIN jobs
    BY <2>1, <2>3
  <2>5. jobs'[j] = jobs[j]
    BY <1>3, <2>4
  <2> QED BY <1>0, <2>1, <2>2, <2>5 DEF BatteryWaits
<1>10. Sanes'
  BY <1>0, <1>4, <1>5 DEF Sanes, Sane
<1>11. Agreed'
  <2>1. \A i \in Ids : Fit(i)' <=> Fit(i)
    BY <1>0, <1>4, <1>5 DEF Fit, Word
  <2>2. \A s \in Syncs : Carried(s)' <=> Carried(s)
    BY <1>0 DEF Carried, Heard
  <2> QED BY <1>0, <2>1, <2>2 DEF Agreed
<1> QED BY <1>6, <1>7, <1>8, <1>9, <1>10, <1>11 DEF Told

LEMMA ToldChanges ==
  ASSUME TypeOK, Told, Changes
  PROVE  Told'
<1>0. jobs \in Seq(Job) /\ home \in Home
  BY DEF TypeOK, IncidentsOK
<1>1. ASSUME Elsewhere, NEW up \in BOOLEAN, NEW level \in Levels, DeviceChanges(up, level) PROVE Told'
  <2> DEFINE l == Look(up)
             m == Measure(level)
             r == IF level # home.battery THEN <<m, l>> ELSE <<l>>
  <2>1. jobs' = Append(jobs, (IF level # home.battery THEN <<m>> ELSE <<>>) \o <<l>>)
    BY <1>1 DEF DeviceChanges
  <2>2. (IF level # home.battery THEN <<m>> ELSE <<>>) \o <<l>> = r
    <3> HIDE DEF l, m
    <3>1. <<m>> \o <<l>> = <<m, l>>
      BY Two
    <3>2. <<>> \o <<l>> = <<l>>
      OBVIOUS
    <3> QED BY <3>1, <3>2
  <2>3. r \in Looks \cup Measures
    BY <1>1 DEF Looks, Measures
  <2>4. r # <<>>
    OBVIOUS
  <2>5. jobs' = Append(jobs, r)
    BY <2>1, <2>2
  <2> HIDE DEF r
  <2>6. r \in Job
    BY <2>3 DEF Job
  <2>7. jobs' = jobs \o With(r)
    <3>1. Append(jobs, r) = jobs \o <<r>>
      BY <1>0, <2>6, AppendIsConcat
    <3> QED BY <2>4, <2>5, <3>1 DEF With
  <2> QED BY <1>1, <2>3, <2>7, ToldGrown DEF DeviceChanges
<1>2. ASSUME Elsewhere, IntegrationChanges PROVE Told'
  <2>1. jobs' = jobs \o With(<<>>)
    <3>1. jobs \o <<>> = jobs
      BY <1>0, ConcatEmptySeq
    <3> QED BY <1>2, <3>1 DEF IntegrationChanges, With
  <2> QED BY <1>2, <2>1, ToldGrown DEF IntegrationChanges
<1>3. home.up \in BOOLEAN /\ (~home.up) \in BOOLEAN /\ home.battery \in Levels
  BY <1>0 DEF Home
<1> QED BY <1>1, <1>2, <1>3 DEF Changes

\* When nothing is under way, nothing waits.
LEMMA NothingWaits ==
  ASSUME jobs = <<>>, sweep = Asleep
  PROVE  (\A do, i : ~JobWaits(do, i) /\ ~Waits(do, i)) /\ sweep.todo = {} /\ sweep.doing = <<>>
<1>1. DOMAIN jobs = {} /\ sweep.doing = <<>> /\ sweep.todo = {}
  BY DEF Asleep
<1> QED BY <1>1 DEF JobWaits, Waits, HeadIs

LEMMA NothingWaitsThen ==
  ASSUME jobs' = <<>>, sweep' = Asleep
  PROVE  (\A do, i : ~JobWaits(do, i)' /\ ~Waits(do, i)')
         /\ Sweeping' /\ DeviceWaits' /\ RadioWaits' /\ BatteryWaits' /\ Sanes'
<1>1. DOMAIN jobs' = {} /\ sweep'.doing = <<>> /\ sweep'.todo = {}
  BY DEF Asleep
<1>2. \A do, i : ~HeadIs(sweep.doing, do, i)'
  BY <1>1 DEF HeadIs
<1>3. \A do, i : ~JobWaits(do, i)' /\ ~Waits(do, i)'
  BY <1>1, <1>2 DEF JobWaits, Waits
<1>4. Sweeping'
  BY <1>1 DEF Sweeping
<1>5. DeviceWaits'
  BY <1>3 DEF DeviceWaits
<1>6. RadioWaits'
  BY <1>1, <1>2, <1>3 DEF RadioWaits
<1>7. BatteryWaits'
  BY <1>1 DEF BatteryWaits
<1>8. Sanes'
  BY <1>3 DEF Sanes, Sane
<1> QED BY <1>3, <1>4, <1>5, <1>6, <1>7, <1>8

LEMMA ToldHours ==
  ASSUME TypeOK, Told, Elsewhere, HourPasses
  PROVE  Told'
<1>0. /\ hour \in Nat /\ hour' = hour + 1 /\ jobs = <<>> /\ sweep = Asleep /\ jobs' = <<>> /\ sweep' = Asleep
      /\ UNCHANGED <<active, outbox, slips, disk, cloud, past, syncs>>
      /\ Dates /\ Short /\ Agreed
      /\ \A i \in Ids : active[i] \in Case(i) /\ disk.active[i] \in Case(i)
  BY DEF TypeOK, IncidentsOK, HourPasses, Elsewhere, pairingVars, Told
<1>1. Sweeping' /\ DeviceWaits' /\ RadioWaits' /\ BatteryWaits' /\ Sanes' /\ \A do, i : ~Waits(do, i)'
  BY <1>0, NothingWaitsThen
<1>2. \A do, i : ~Waits(do, i)
  BY <1>0, NothingWaits
<1>3. \A i \in Ids : \A v \in Case(i) : Dated(i, v) => Dated(i, v)'
  <2> SUFFICES ASSUME NEW i \in Ids, NEW v \in Case(i), Dated(i, v) PROVE Dated(i, v)'
    OBVIOUS
  <2>1. v.first \in Nat
    BY DEF Case, Incident
  <2>2. v.first <= hour => v.first <= hour + 1 /\ v.first < hour + 1
    BY <1>0, <2>1
  <2> QED BY <1>0, <2>2 DEF Dated
<1>4. Dates'
  <2>1. \A i \in Ids : Dated(i, active[i]) /\ Dated(i, disk.active[i])
    BY <1>0 DEF Dates
  <2>2. \A i \in Ids : active'[i] = active[i] /\ disk'.active[i] = disk.active[i]
    BY <1>0
  <2> QED BY <1>0, <1>3, <2>1, <2>2 DEF Dates, Dated
<1>5. Agreed'
  <2>1. \A i \in Ids : Fit(i)' <=> Fit(i)
    BY <1>0, <1>1, <1>2 DEF Fit, Word
  <2>2. \A s \in Syncs : Carried(s)' <=> Carried(s)
    BY <1>0 DEF Carried, Heard
  <2> QED BY <1>0, <2>1, <2>2 DEF Agreed
<1> QED BY <1>0, <1>1, <1>4, <1>5 DEF Told, Short

LEMMA ToldCrash ==
  ASSUME TypeOK, Told, Crash
  PROVE  Told'
<1>0. /\ jobs' = <<>> /\ sweep' = Asleep /\ active' = disk.active /\ outbox' = disk.outbox
      /\ UNCHANGED <<hour, disk, cloud>> /\ past'.raced = past.raced
      /\ slips'.untold = slips.untold \cup Touched(disk) /\ slips'.overtaken = slips.overtaken
      /\ Dates /\ Short /\ Agreed
  BY DEF TypeOK, IncidentsOK, Slips, Pasts, Crash, IncidentsLost, Told
<1>1. Sweeping' /\ DeviceWaits' /\ RadioWaits' /\ BatteryWaits' /\ Sanes' /\ \A do, i : ~Waits(do, i)'
  BY <1>0, NothingWaitsThen
<1>2. Dates' /\ Short'
  BY <1>0 DEF Dates, Short, Dated
<1>3. ASSUME NEW i \in Ids, i \notin Touched(disk)
      PROVE  (\A do \in Dos : ~Waits(do, i)) /\ active'[i] = active[i] /\ outbox' = outbox
  <2>1. disk.active[i] = active[i] /\ disk.outbox = outbox
    BY <1>3 DEF Touched
  <2>2. jobs \in Seq(Job) /\ sweep.doing \in {<<>>} \cup Alone
    BY DEF TypeOK, IncidentsOK
  <2>3. \A do \in Dos, j \in Job : HeadIs(j, do, i) => Head(j) \in Range(j)
    <3> SUFFICES ASSUME NEW j \in Job, j # <<>> PROVE Head(j) \in Range(j)
      BY DEF HeadIs
    <3>1. 1 \in DOMAIN j /\ Head(j) = j[1]
      BY DEF Job, Alone, AndLook, Looks, Measures
    <3> QED BY <3>1 DEF Range
  <2>4. \A do \in Dos : ~JobWaits(do, i)
    <3> SUFFICES ASSUME NEW do \in Dos, NEW k \in DOMAIN jobs, HeadIs(jobs[k], do, i) PROVE FALSE
      BY DEF JobWaits
    <3>1. jobs[k] \in Job
      BY <2>2
    <3>2. Head(jobs[k]) \in Range(jobs[k]) /\ Head(jobs[k]).do \in {"save", "tell"} /\ Head(jobs[k]).id = i
      BY <2>3, <3>1 DEF HeadIs, Dos
    <3>3. i \in {e.id : e \in {x \in Range(jobs[k]) : x.do \in {"save", "tell"}}}
      BY <3>2
    <3> QED BY <1>3, <3>3 DEF Touched
  <2>5. \A do \in Dos : ~HeadIs(sweep.doing, do, i)
    <3> SUFFICES ASSUME NEW do \in Dos, HeadIs(sweep.doing, do, i) PROVE FALSE
      OBVIOUS
    <3>1. sweep.doing \in Job
      BY <2>2 DEF HeadIs, Job
    <3>2. Head(sweep.doing) \in Range(sweep.doing) /\ Head(sweep.doing).id = i
      BY <2>3, <3>1 DEF HeadIs
    <3>3. i \in {e.id : e \in Range(sweep.doing)}
      BY <3>2
    <3> QED BY <1>3, <3>3 DEF Touched
  <2> QED BY <1>0, <2>1, <2>4, <2>5 DEF Waits
<1>4. Agreed'
  <2> SUFFICES ASSUME ~past.raced PROVE (\A i \in Ids \ (slips'.untold \cup slips'.overtaken) : Fit(i)') /\ \A s \in Syncs : Carried(s)'
    BY <1>0 DEF Agreed
  <2>1. ASSUME NEW i \in Ids, i \notin slips'.untold, i \notin slips'.overtaken PROVE Fit(i)'
    <3>1. Fit(i) /\ i \notin Touched(disk)
      BY <1>0, <2>1 DEF Agreed
    <3>2. Word(i)' = Word(i) /\ active'[i] = active[i] /\ ~Waits("save", i) /\ ~Waits("tell", i)
      BY <1>0, <1>3, <3>1 DEF Word, Dos
    <3> QED BY <1>1, <3>1, <3>2 DEF Fit
  <2>2. ASSUME NEW s \in Syncs PROVE Carried(s)'
    <3>1. syncs'[s].pc = "idle"
      BY DEF Crash, Quiet
    <3> QED BY <3>1 DEF Carried, Uploads
  <2> QED BY <2>1, <2>2
<1> QED BY <1>1, <1>2, <1>4 DEF Told

(***************************************************************************)
(* The synchronisation.                                                     *)
(***************************************************************************)
\* A step that tells and saves nothing leaves all but what uploads carry.
LEMMA ToldSame ==
  ASSUME TypeOK, Told, UNCHANGED <<active, outbox, jobs, sweep, hour, slips>>,
         cloud'.told = cloud.told, past.raced => past'.raced,
         disk'.active = disk.active \/ disk'.active = active, disk'.outbox = disk.outbox \/ disk'.outbox = outbox,
         ~past'.raced => \A s \in Syncs : Carried(s) => Carried(s)'
  PROVE  Told'
<1>0. /\ Dates /\ Short /\ Sweeping /\ DeviceWaits /\ RadioWaits /\ BatteryWaits /\ Sanes /\ Agreed
  BY DEF Told
<1>1. \A do, i : JobWaits(do, i)' <=> JobWaits(do, i)
  BY DEF JobWaits, HeadIs
<1>2. \A do, i : Waits(do, i)' <=> Waits(do, i)
  BY <1>1 DEF Waits, HeadIs
<1>3. Dates'
  BY <1>0 DEF Dates, Dated
<1>4. Short'
  BY <1>0 DEF Short
<1>5. Sweeping'
  BY <1>0 DEF Sweeping, Dated
<1>6. DeviceWaits'
  BY <1>0, <1>1, <1>2 DEF DeviceWaits
<1>7. RadioWaits'
  BY <1>0, <1>1, <1>2 DEF RadioWaits, HeadIs
<1>8. BatteryWaits'
  BY <1>0 DEF BatteryWaits, HeadIs, Reads
<1>9. Sanes'
  BY <1>0, <1>2 DEF Sanes, Sane
<1>10. Agreed'
  <2>1. \A i \in Ids : Fit(i)' <=> Fit(i)
    BY <1>2 DEF Fit, Word
  <2> QED BY <1>0, <2>1 DEF Agreed
<1> QED BY <1>3, <1>4, <1>5, <1>6, <1>7, <1>8, <1>9, <1>10 DEF Told

LEMMA CarriedBegins ==
  ASSUME NEW s \in Syncs, syncs'[s].pc = "sent", syncs'[s].sent = outbox, outbox' = outbox
  PROVE  Carried(s)'
BY DEF Carried, Heard, Uploads

LEMMA CarriedGoes ==
  ASSUME NEW s \in Syncs, UNCHANGED <<outbox, slips>>, cloud'.told = cloud.told,
         syncs'[s].pc \in Uploads =>
           /\ syncs'[s].sent = syncs[s].sent /\ syncs[s].pc \in Uploads
           /\ syncs[s].pc = "sent" <=> syncs'[s].pc = "sent",
         Carried(s)
  PROVE  Carried(s)'
BY DEF Carried, Heard, Uploads

LEMMA ToldCall ==
  ASSUME TypeOK, Told, NEW s \in Syncs, NEW c \in Call, syncs' = [syncs EXCEPT ![s] = c],
         UNCHANGED <<active, outbox, jobs, sweep, hour, slips, disk>>,
         cloud'.told = cloud.told, past.raced => past'.raced,
         c.pc \in Uploads =>
           \/ c.pc = "sent" /\ c.sent = outbox
           \/ c.sent = syncs[s].sent /\ {c.pc, syncs[s].pc} \subseteq Uploads \ {"sent"}
  PROVE  Told'
<1>0. syncs \in [Syncs -> Call]
  BY DEF TypeOK, PairingOK
<1>1. syncs'[s] = c /\ \A o \in Syncs \ {s} : syncs'[o] = syncs[o]
  BY <1>0
<1>2. ASSUME NEW o \in Syncs, Carried(o) PROVE Carried(o)'
  <2>1. CASE o # s
    BY <1>1, <1>2, <2>1, CarriedGoes
  <2>2. CASE o = s /\ c.pc = "sent" /\ c.sent = outbox
    BY <1>1, <2>2, CarriedBegins
  <2>3. CASE o = s /\ (c.pc \in Uploads => c.sent = syncs[s].sent /\ {c.pc, syncs[s].pc} \subseteq Uploads \ {"sent"})
    BY <1>1, <1>2, <2>3, CarriedGoes
  <2> QED BY <2>1, <2>2, <2>3
<1> QED BY <1>2, ToldSame

\* A call goes on to pc.
LEMMA ToldGo ==
  ASSUME TypeOK, Told, NEW s \in Syncs, NEW pc \in Phases, Go(s, pc),
         UNCHANGED <<active, outbox, jobs, sweep, hour, slips, disk>>,
         cloud'.told = cloud.told, past.raced => past'.raced,
         pc \in Uploads => {pc, syncs[s].pc} \subseteq Uploads \ {"sent"}
  PROVE  Told'
<1> DEFINE c == [syncs[s] EXCEPT !.pc = pc]
<1>0. syncs \in [Syncs -> Call]
  BY DEF TypeOK, PairingOK
<1>1. c \in Call /\ c.pc = pc /\ c.sent = syncs[s].sent
  <2>1. syncs[s] \in Call
    BY <1>0
  <2> QED BY <2>1 DEF Call
<1>2. syncs' = [syncs EXCEPT ![s] = c]
  BY <1>0 DEF Go
<1> HIDE DEF c
<1> QED BY <1>1, <1>2, ToldCall

\* The platform hears of an upload what the outbox says last, or what it says
\* last is no news.
LEMMA ToldServed ==
  ASSUME TypeOK, Counting, Told, NEW s \in Syncs, Served(s)
  PROVE  Told'
<1> DEFINE sent == syncs[s].sent
<1>0. /\ syncs \in [Syncs -> Call] /\ cloud \in Clouds /\ syncs[s] \in Call /\ sent \in Boxes /\ outbox \in Boxes
      /\ Dates /\ Short /\ Sweeping /\ DeviceWaits /\ RadioWaits /\ BatteryWaits /\ Sanes /\ Agreed
  BY DEF TypeOK, PairingOK, IncidentsOK, Call, Told
<1>1. /\ syncs[s].pc = "sent" /\ UNCHANGED <<active, outbox, jobs, sweep, hour, slips, disk, past>>
      /\ cloud'.told = [i \in Ids |-> LastWord(sent, i, cloud.told[i])]
  BY <1>0 DEF Served, incidents, Clouds
<1>2. syncs'[s].pc = "answered" /\ syncs'[s].sent = sent /\ \A o \in Syncs \ {s} : syncs'[o] = syncs[o]
  BY <1>0 DEF Served, Call
<1>3. \A do, i : JobWaits(do, i)' <=> JobWaits(do, i)
  BY <1>1 DEF JobWaits, HeadIs
<1>4. \A do, i : Waits(do, i)' <=> Waits(do, i)
  BY <1>1, <1>3 DEF Waits, HeadIs
<1>5. Dates' /\ Short' /\ Sweeping'
  BY <1>0, <1>1 DEF Dates, Short, Sweeping, Dated
<1>6. DeviceWaits'
  BY <1>0, <1>1, <1>3, <1>4 DEF DeviceWaits
<1>7. RadioWaits'
  BY <1>0, <1>1, <1>3, <1>4 DEF RadioWaits, HeadIs
<1>8. BatteryWaits'
  BY <1>0, <1>1 DEF BatteryWaits, HeadIs, Reads
<1>9. Sanes'
  BY <1>0, <1>1, <1>4 DEF Sanes, Sane
<1>10. ASSUME ~past.raced
       PROVE  (\A i \in Ids \ (slips.untold \cup slips.overtaken) : Fit(i)') /\ \A o \in Syncs : Carried(o)'
  <2>1. Carried(s) /\ \A o \in Syncs \ {s} : syncs[o].pc \notin Uploads
    <3>1. Uploading(s)
      BY <1>10 DEF Counting
    <3> QED BY <1>0, <1>1, <1>10, <3>1 DEF Agreed, Uploading, Uploads
  <2>2. ASSUME NEW i \in Ids, i \notin slips.untold PROVE Word(i)' = Word(i)
    <3>1. CASE Heard(outbox, i)
      <4>1. PICK k : LastAt(outbox, i, k)
        BY <1>0, <3>1, LastHeard
      <4>2. \A w : LastWord(outbox, i, w) = outbox[k].state
        BY <1>0, <4>1, LastWordIs
      <4> QED BY <1>1, <4>2 DEF Word
    <3>2. CASE ~Heard(outbox, i)
      <4>1. ~Heard(sent, i)
        BY <1>1, <2>1, <2>2, <3>2 DEF Carried
      <4>2. LastWord(sent, i, cloud.told[i]) = cloud.told[i]
        BY <1>0, <4>1, LastWordIs
      <4>3. cloud'.told[i] = cloud.told[i]
        BY <1>1, <4>2
      <4> QED BY <1>1, <4>3 DEF Word
    <3> QED BY <3>1, <3>2
  <2>3. \A i \in Ids \ (slips.untold \cup slips.overtaken) : Fit(i)'
    <3>1. \A i \in Ids \ (slips.untold \cup slips.overtaken) : Fit(i)
      BY <1>0, <1>10 DEF Agreed
    <3> QED BY <1>1, <1>4, <2>2, <3>1 DEF Fit
  <2>4. Carried(s)'
    <3>1. ASSUME NEW i \in Ids, Heard(sent, i) PROVE cloud'.told[i] = LastWord(sent, i, "none")
      <4>1. PICK k : LastAt(sent, i, k)
        BY <1>0, <3>1, LastHeard
      <4>2. \A w : LastWord(sent, i, w) = sent[k].state
        BY <1>0, <4>1, LastWordIs
      <4> QED BY <1>1, <4>2
    <3> HIDE DEF sent
    <3> QED BY <1>2, <3>1 DEF Carried, Heard
  <2>5. \A o \in Syncs \ {s} : Carried(o)'
    BY <1>2, <2>1 DEF Carried, Uploads
  <2> QED BY <2>3, <2>4, <2>5
<1>11. Agreed'
  BY <1>1, <1>10 DEF Agreed
<1> QED BY <1>5, <1>6, <1>7, <1>8, <1>9, <1>11 DEF Told

(***************************************************************************)
(* The end of a synchronisation.                                            *)
(***************************************************************************)
\* An outbox of which the places S are left, in their order.
Sifts(box, S, place, n, new) ==
  /\ place \in [1..n -> S] /\ (\A k \in S : \E j \in 1..n : place[j] = k)
  /\ \A j, k \in 1..n : j < k => place[j] < place[k]
  /\ new = [k \in 1..n |-> box[place[k]]]

LEMMA SiftedWords ==
  ASSUME NEW box \in Boxes, NEW new \in Boxes, NEW S \in SUBSET DOMAIN box, NEW n \in Nat, NEW place, Sifts(box, S, place, n, new), NEW i
  PROVE  /\ \A k \in S : LastAt(box, i, k) => \A w : LastWord(new, i, w) = box[k].state
         /\ (\A k \in S : box[k].id # i) => \A w : LastWord(new, i, w) = w
<1>0. /\ place \in [1..n -> S] /\ (\A k \in S : \E j \in 1..n : place[j] = k)
      /\ \A j, k \in 1..n : j < k => place[j] < place[k]
      /\ DOMAIN new = 1..n /\ \A k \in 1..n : new[k] = box[place[k]]
  BY DEF Sifts
<1>1. S \subseteq Nat
  <2>1. DOMAIN box \subseteq Nat
    BY LenProperties DEF Boxes
  <2> QED BY <2>1
<1>2. ASSUME NEW k \in S, LastAt(box, i, k), NEW w PROVE LastWord(new, i, w) = box[k].state
  <2>1. PICK j \in 1..n : place[j] = k
    BY <1>0
  <2>2. new[j].id = i /\ new[j].state = box[k].state
    BY <1>0, <1>2, <2>1 DEF LastAt
  <2>3. ASSUME NEW q \in 1..n, q > j PROVE new[q].id # i
    <3>1. place[q] \in S /\ place[q] > k
      BY <1>0, <1>1, <2>1, <2>3
    <3> QED BY <1>0, <1>2, <2>3, <3>1 DEF LastAt
  <2>4. LastAt(new, i, j)
    BY <1>0, <2>2, <2>3 DEF LastAt
  <2> QED BY <2>2, <2>4, LastWordIs
<1>3. ASSUME \A k \in S : box[k].id # i, NEW w PROVE LastWord(new, i, w) = w
  <2>1. ~Heard(new, i)
    BY <1>0, <1>3 DEF Heard
  <2> QED BY <2>1, LastWordIs
<1> QED BY <1>2, <1>3

\* What an upload that is acknowledged said last of an incident, or what is
\* left in the outbox says, is what the outbox said.
LEMMA AcknowledgedWord ==
  ASSUME outbox \in Boxes, NEW new \in Boxes, NEW sent \in Boxes, NEW n \in Nat, NEW place,
         Sifts(outbox, DOMAIN outbox \ Acked(sent), place, n, new), NEW i \in Ids, i \notin Requeued(sent), NEW w,
         Heard(sent, i) => w = LastWord(sent, i, "none")
  PROVE  LastWord(new, i, w) = LastWord(outbox, i, w)
<1> DEFINE S == DOMAIN outbox \ Acked(sent)
<1>1. /\ \A k \in S : LastAt(outbox, i, k) => LastWord(new, i, w) = outbox[k].state
      /\ (\A k \in S : outbox[k].id # i) => LastWord(new, i, w) = w
  BY SiftedWords
<1>2. CASE ~Heard(outbox, i)
  <2>1. LastWord(outbox, i, w) = w
    BY <1>2, LastWordIs
  <2>2. \A k \in S : outbox[k].id # i
    BY <1>2 DEF Heard
  <2> QED BY <1>1, <2>1, <2>2
<1>3. ASSUME NEW k, LastAt(outbox, i, k) PROVE LastWord(new, i, w) = LastWord(outbox, i, w)
  <2>1. LastWord(outbox, i, w) = outbox[k].state /\ k \in DOMAIN outbox
    BY <1>3, LastWordIs DEF LastAt
  <2>2. CASE k \in S
    BY <1>1, <1>3, <2>1, <2>2
  <2>3. CASE k \in Acked(sent)
    <3>1. PICK l \in Nat, m \in Nat : l = Len(sent) /\ DOMAIN sent = 1..l /\ m = Len(outbox) /\ DOMAIN outbox = 1..m
      BY LenProperties DEF Boxes
    <3>2. PICK q \in 0..l : /\ q <= m /\ \A j \in 1..q : outbox[j] = sent[l - q + j]
                            /\ \A j \in Acked(sent) : outbox[j].id = i => j <= q
      BY <3>1 DEF Requeued
    <3>3. outbox[k].id = i /\ k \in 1..q /\ \A j \in 1..m : j > k => outbox[j].id # i
      BY <1>3, <2>3, <3>1, <3>2 DEF LastAt
    <3>4. sent[l - q + k] = outbox[k] /\ l - q + k \in 1..l
      BY <3>2, <3>3
    <3>5. ASSUME NEW j \in 1..l, j > l - q + k PROVE sent[j].id # i
      <4>1. j - (l - q) \in 1..q /\ j - (l - q) > k /\ j - (l - q) \in 1..m /\ l - q + (j - (l - q)) = j
        BY <3>1, <3>2, <3>3, <3>5
      <4>2. outbox[j - (l - q)] = sent[j]
        <5> DEFINE x == j - (l - q)
        <5>1. x \in 1..q /\ l - q + x = j
          BY <4>1
        <5> HIDE DEF x
        <5>2. outbox[x] = sent[l - q + x]
          BY <3>2, <5>1
        <5> QED BY <5>1, <5>2 DEF x
      <4> QED BY <3>3, <4>1, <4>2
    <3>6. LastAt(sent, i, l - q + k)
      BY <3>1, <3>3, <3>4, <3>5 DEF LastAt
    <3>7. LastWord(sent, i, "none") = outbox[k].state /\ Heard(sent, i)
      <4>1. Heard(sent, i)
        BY <3>6 DEF Heard, LastAt
      <4> QED BY <3>4, <3>6, <4>1, LastWordIs
    <3>8. ASSUME NEW j \in S PROVE outbox[j].id # i
      <4>1. CASE outbox[j].id = i
        <5>1. j \in 1..m /\ ~(j > k)
          BY <3>1, <3>3, <4>1
        <5>2. j \in 1..q
          BY <3>3, <5>1
        <5>3. outbox[j] = sent[l - q + j] /\ l - q + j \in DOMAIN sent
          BY <3>1, <3>2, <5>2
        <5>4. j \in Acked(sent)
          BY <3>1, <5>1, <5>3 DEF Acked
        <5> QED BY <5>4
      <4> QED BY <4>1
    <3> QED BY <1>1, <2>1, <3>7, <3>8
  <2> QED BY <2>1, <2>2, <2>3
<1> QED BY <1>2, <1>3, LastHeard

LEMMA PlacesOf ==
  ASSUME NEW m \in Nat, NEW S \in SUBSET (1..m)
  PROVE  Cardinality(S) \in Nat /\ Cardinality(S) <= m
<1>1. IsFiniteSet(1..m) /\ Cardinality(1..m) = IF 1 > m THEN 0 ELSE m - 1 + 1
  BY FS_Interval
<1>2. Cardinality(1..m) = m
  BY <1>1
<1>3. IsFiniteSet(S) /\ Cardinality(S) <= Cardinality(1..m)
  BY <1>1, FS_Subset
<1> QED BY <1>2, <1>3, FS_CardinalityType

LEMMA ToldEnds ==
  ASSUME TypeOK, TypeOK', Counting, Told, NEW s \in Syncs, SyncEnds(s)
  PROVE  Told'
<1> DEFINE sent == syncs[s].sent
           S == DOMAIN outbox \ Acked(sent)
<1>0. /\ syncs \in [Syncs -> Call] /\ sent \in Boxes /\ outbox \in Boxes /\ outbox' \in Boxes /\ slips \in Slips /\ past \in Pasts
      /\ Dates /\ Short /\ Sweeping /\ DeviceWaits /\ RadioWaits /\ BatteryWaits /\ Sanes /\ Agreed
  BY DEF TypeOK, PairingOK, IncidentsOK, Call, Told
<1>1. /\ syncs[s].pc = "saved" /\ UNCHANGED <<active, jobs, sweep, hour, disk, cloud>> /\ past'.raced = past.raced
      /\ slips'.untold = slips.untold \cup Requeued(sent) /\ slips'.overtaken = slips.overtaken
      /\ syncs' = [syncs EXCEPT ![s] = Quiet]
  BY <1>0 DEF SyncEnds, Slips, Pasts
<1>2. syncs'[s].pc = "idle" /\ \A o \in Syncs \ {s} : syncs'[o] = syncs[o]
  BY <1>0, <1>1 DEF Quiet
<1>3. PICK place \in Orders(S) : outbox' = [k \in DOMAIN place |-> outbox[place[k]]]
  BY DEF SyncEnds, Acknowledges
<1>4. PICK m \in Nat : m = Len(outbox) /\ DOMAIN outbox = 1..m
  BY <1>0, LenProperties DEF Boxes
<1>5. Cardinality(S) \in Nat /\ Cardinality(S) <= m
  <2>1. S \in SUBSET (1..m)
    BY <1>4
  <2> HIDE DEF S
  <2> QED BY <2>1, PlacesOf
<1>6. PICK n \in Nat : n = Cardinality(S) /\ Sifts(outbox, S, place, n, outbox') /\ n <= m
  <2>1. /\ place \in [1..Cardinality(S) -> S] /\ DOMAIN place = 1..Cardinality(S)
        /\ (\A k \in S : \E j \in DOMAIN place : place[j] = k)
        /\ \A j, k \in DOMAIN place : j < k => place[j] < place[k]
    BY <1>3 DEF Orders
  <2> HIDE DEF S
  <2> QED BY <1>3, <1>5, <2>1 DEF Sifts
<1>7. Len(outbox') <= MaxOutbox
  <2>1. DOMAIN outbox' = 1..n
    BY <1>6 DEF Sifts
  <2>2. Len(outbox') = n
    BY <1>0, <1>6, <2>1, LenProperties DEF Boxes
  <2>3. MaxOutbox \in Nat /\ m <= MaxOutbox
    BY <1>0, <1>4, IncidentsAssumption DEF Short
  <2> QED BY <1>6, <2>2, <2>3
<1> HIDE DEF S
<1>8. \A do, i : JobWaits(do, i)' <=> JobWaits(do, i)
  BY <1>1 DEF JobWaits, HeadIs
<1>9. \A do, i : Waits(do, i)' <=> Waits(do, i)
  BY <1>1, <1>8 DEF Waits, HeadIs
<1>10. Dates' /\ Short' /\ Sweeping'
  BY <1>0, <1>1, <1>7 DEF Dates, Short, Sweeping, Dated
<1>11. DeviceWaits'
  BY <1>0, <1>1, <1>8, <1>9 DEF DeviceWaits
<1>12. RadioWaits'
  BY <1>0, <1>1, <1>8, <1>9 DEF RadioWaits, HeadIs
<1>13. BatteryWaits'
  BY <1>0, <1>1 DEF BatteryWaits, HeadIs, Reads
<1>14. Sanes'
  BY <1>0, <1>1, <1>9 DEF Sanes, Sane
<1>15. ASSUME ~past.raced
       PROVE  (\A i \in Ids \ (slips'.untold \cup slips'.overtaken) : Fit(i)') /\ \A o \in Syncs : Carried(o)'
  <2>1. Carried(s) /\ \A o \in Syncs \ {s} : syncs[o].pc \notin Uploads
    <3>1. Uploading(s)
      BY <1>15 DEF Counting
    <3> QED BY <1>0, <1>1, <1>15, <3>1 DEF Agreed, Uploading, Uploads
  <2>2. ASSUME NEW i \in Ids, i \notin slips'.untold PROVE Word(i)' = Word(i)
    <3>1. i \notin Requeued(sent)
      BY <1>1, <2>2
    <3>2. Heard(sent, i) => cloud.told[i] = LastWord(sent, i, "none")
      BY <1>1, <2>1 DEF Carried, Uploads
    <3> HIDE DEF sent
    <3>3. LastWord(outbox', i, cloud.told[i]) = LastWord(outbox, i, cloud.told[i])
      BY <1>0, <1>6, <3>1, <3>2, AcknowledgedWord DEF S
    <3> QED BY <1>1, <3>3 DEF Word
  <2>3. \A i \in Ids \ (slips'.untold \cup slips'.overtaken) : Fit(i)'
    <3>1. \A i \in Ids \ (slips.untold \cup slips.overtaken) : Fit(i)
      BY <1>0, <1>15 DEF Agreed
    <3>2. \A i \in Ids \ (slips'.untold \cup slips'.overtaken) : Fit(i) /\ Word(i)' = Word(i)
      BY <1>1, <2>2, <3>1
    <3> QED BY <1>1, <1>9, <3>2 DEF Fit
  <2>4. \A o \in Syncs : syncs'[o].pc \notin Uploads
    BY <1>2, <2>1 DEF Uploads
  <2>5. \A o \in Syncs : Carried(o)'
    BY <2>4 DEF Carried, Uploads
  <2> QED BY <2>3, <2>5
<1>16. Agreed'
  BY <1>1, <1>15 DEF Agreed
<1> QED BY <1>10, <1>11, <1>12, <1>13, <1>14, <1>16 DEF Told

LEMMA ToldCalls ==
  ASSUME TypeOK, Told, NEW s \in Syncs, SyncStep(s) \/ HandshakeFails(s) \/ SyncFails(s), ~Served(s), ~SyncEnds(s)
  PROVE  Told'
<1>0. syncs[s] \in Call /\ link \in Links /\ cloud \in Clouds /\ past \in Pasts /\ Quiet \in Call /\ Quiet.pc \notin Uploads /\ outbox \in Boxes
  BY QuietOK DEF TypeOK, PairingOK, IncidentsOK, Quiet, Uploads
<1>1. ASSUME Begins(s) PROVE \E c \in Call : syncs' = [syncs EXCEPT ![s] = c] /\ c.pc = "sent" /\ c.sent = outbox
  <2>1. Sent.pc = "sent" /\ Sent.sent = outbox
    BY DEF Sent, Quiet
  <2>2. Payload(electric) \in SUBSET Row /\ Payload(heat) \in SUBSET Row /\ electric.ack \in Nat /\ heat.ack \in Nat
    BY PayloadOK DEF TypeOK, Trackers
  <2>3. Sent \in Call
    BY <1>0, <2>2 DEF Sent, Call, Links, Phases, Uploads
  <2> HIDE DEF Sent
  <2> QED BY <1>1, <2>1, <2>3 DEF Begins
<1>2. CASE SyncCalled(s)
  <2>1. Calls(s) /\ UNCHANGED <<active, outbox, jobs, sweep, hour, slips, disk>> /\ cloud'.told = cloud.told
    BY <1>2 DEF SyncCalled, incidents
  <2>2. CASE Begins(s) /\ UNCHANGED past
    <3>1. PICK c \in Call : syncs' = [syncs EXCEPT ![s] = c] /\ c.pc = "sent" /\ c.sent = outbox
      BY <1>1, <2>2
    <3> QED BY <2>1, <2>2, <3>1, ToldCall
  <2>3. CASE ~(Begins(s) /\ UNCHANGED past)
    <3> DEFINE c == [Quiet EXCEPT !.pc = "challenged", !.attempt = link.attempt]
    <3>1. syncs' = [syncs EXCEPT ![s] = c] /\ past' = [past EXCEPT !.raced = @ \/ \E o \in Syncs : syncs[o].pc # "idle"]
      BY <2>1, <2>3 DEF Calls
    <3>2. c \in Call /\ c.pc \notin Uploads
      BY <1>0 DEF Call, Links, Phases, Handshakes, Uploads
    <3>3. past.raced => past'.raced
      BY <1>0, <3>1 DEF Pasts
    <3> HIDE DEF c
    <3> QED BY <2>1, <3>1, <3>2, <3>3, ToldCall
  <2> QED BY <2>2, <2>3
<1>3. CASE SyncAfterHandshake(s)
  <2>1. /\ Begins(s) /\ UNCHANGED <<active, outbox, jobs, sweep, hour, slips, disk>> /\ cloud'.told = cloud.told
        /\ past.raced => past'.raced
    BY <1>0, <1>3 DEF SyncAfterHandshake, incidents, Pasts
  <2>2. PICK c \in Call : syncs' = [syncs EXCEPT ![s] = c] /\ c.pc = "sent" /\ c.sent = outbox
    BY <1>1, <2>1
  <2> QED BY <2>1, <2>2, ToldCall
<1>4. CASE Proved(s)
  <2> DEFINE c == [syncs[s] EXCEPT !.pc = "proved", !.credential = cloud'.issued]
  <2>1. cloud'.told = cloud.told /\ cloud'.issued = cloud.issued + 1 /\ cloud'.issued \in Nat
    BY <1>0, <1>4 DEF Proved, Clouds
  <2>2. syncs' = [syncs EXCEPT ![s] = c]
    BY <1>4, <2>1 DEF Proved, TypeOK, PairingOK
  <2>3. c \in Call /\ c.pc \notin Uploads
    BY <1>0, <2>1 DEF Call, Phases, Handshakes, Uploads
  <2> HIDE DEF c
  <2> QED BY <1>4, <2>1, <2>2, <2>3, ToldCall DEF Proved, incidents
<1>5. CASE CredentialKept(s)
  BY <1>5, ToldGo DEF CredentialKept, Phases, Handshakes, Uploads, incidents
<1>6. CASE CredentialAcknowledged(s)
  <2>1. cloud'.told = cloud.told
    BY <1>0, <1>6 DEF CredentialAcknowledged, Clouds
  <2> QED BY <1>6, <2>1, ToldGo DEF CredentialAcknowledged, Phases, Handshakes, Uploads, incidents
<1>7. CASE HandshakeCompletes(s)
  BY <1>7, ToldGo DEF HandshakeCompletes, Phases, Uploads, incidents
<1>8. CASE AnswerSaved(s)
  <2>1. syncs[s].pc = "answered" /\ {"saving", "answered"} \subseteq Uploads \ {"sent"} /\ "saving" \in Phases
    BY <1>8 DEF AnswerSaved, Phases, Uploads
  <2> QED BY <1>8, <2>1, ToldGo DEF AnswerSaved, incidents
<1>9. CASE HandshakeFails(s)
  BY <1>0, <1>9, ToldCall DEF HandshakeFails, incidents
<1>10. CASE SyncFails(s)
  BY <1>0, <1>10, ToldCall DEF SyncFails, incidents
<1> QED BY <1>2, <1>3, <1>4, <1>5, <1>6, <1>7, <1>8, <1>9, <1>10 DEF SyncStep

LEMMA ToldSaved ==
  ASSUME TypeOK, Told, Saved
  PROVE  Told'
<1>1. UNCHANGED <<active, outbox, jobs, sweep, hour, slips, cloud, past>>
  BY DEF Saved, incidents
<1>2. disk' = Stored \/ disk' = disk
  BY DEF Saved
<1>3. (disk'.active = disk.active \/ disk'.active = active) /\ (disk'.outbox = disk.outbox \/ disk'.outbox = outbox)
  BY <1>2 DEF Stored
<1>4. ASSUME NEW s \in Syncs, Carried(s) PROVE Carried(s)'
  <2> DEFINE pc == CASE syncs[s].pc = "pairing" -> "paired" [] syncs[s].pc = "saving" -> "saved" [] OTHER -> syncs[s].pc
  <2>1. syncs'[s] = [syncs[s] EXCEPT !.pc = pc]
    BY DEF Saved
  <2>2. pc \in Uploads => syncs[s].pc \in Uploads /\ (syncs[s].pc = "sent" <=> pc = "sent")
    BY DEF Uploads
  <2>3. syncs[s] \in Call
    BY DEF TypeOK, PairingOK
  <2> HIDE DEF pc
  <2>4. syncs'[s].pc = pc /\ syncs'[s].sent = syncs[s].sent
    BY <2>1, <2>3 DEF Call
  <2> QED BY <1>1, <1>4, <2>2, <2>4, CarriedGoes
<1> QED BY <1>1, <1>3, <1>4, ToldSame

LEMMA ToldOthers ==
  ASSUME TypeOK, Told, Observations \/ RetryDue \/ AttemptRegistered \/ VersionAppears \/ UsageReset \/ UNCHANGED vars
  PROVE  Told'
<1>0. cloud \in Clouds /\ past \in Pasts
  BY DEF TypeOK
<1>1. /\ UNCHANGED <<active, outbox, jobs, sweep, hour, slips, disk, syncs>> /\ cloud'.told = cloud.told
      /\ past'.raced = past.raced
  <2>1. CASE Observations
    BY <1>0, <2>1 DEF Observations, LampObserved, LampRetired, BoilerObserved, Counted, incidents, pairingVars, Pasts
  <2>2. CASE RetryDue \/ AttemptRegistered \/ VersionAppears \/ UsageReset \/ UNCHANGED vars
    BY <1>0, <2>2 DEF RetryDue, AttemptRegistered, VersionAppears, UsageReset, vars, incidents, pairingVars, Clouds
  <2> QED BY <2>1, <2>2
<1>2. \A s \in Syncs : Carried(s) => Carried(s)'
  BY <1>1, CarriedGoes
<1> QED BY <1>1, <1>2, ToldSame

LEMMA ToldInit ==
  ASSUME Init
  PROVE  Told
<1> DEFINE old == budget["updated"] > 0
           was == [Absent EXCEPT !.state = "open", !.revision = 1]
           env == [id |-> Device, state |-> "open", revision |-> 1]
<1>1. /\ active = [i \in Ids |-> IF old /\ i = Device THEN was ELSE Absent]
      /\ outbox = IF old THEN <<env>> ELSE <<>>
      /\ jobs = <<>> /\ sweep = Asleep /\ hour = 0
      /\ disk.active = active /\ disk.outbox = outbox
      /\ cloud.told = [i \in Ids |-> "resolved"]
      /\ \A s \in Syncs : syncs[s].pc = "idle"
  BY DEF Init, IncidentsInit, Device, Stored, Quiet
<1>2. \A i \in Ids : active[i] = IF old /\ i = Device THEN was ELSE Absent
  BY <1>1
<1>3. was.state = "open" /\ was.revision = 1 /\ was.first = 0 /\ Absent.state = "none"
  BY DEF Absent
<1>4. (\A do, i : ~JobWaits(do, i) /\ ~Waits(do, i)) /\ sweep.todo = {} /\ sweep.doing = <<>> /\ DOMAIN jobs = {}
  BY <1>1, NothingWaits
<1>5. MaxOutbox \in Nat /\ MaxOutbox > 0
  BY IncidentsAssumption
<1> HIDE DEF old
<1>6. Dates
  BY <1>1, <1>2, <1>3 DEF Dates, Dated
<1>7. Short
  <2>1. Len(<<env>>) = 1 /\ Len(<<>>) = 0
    OBVIOUS
  <2> QED BY <1>1, <1>5, <2>1 DEF Short
<1>8. Sweeping /\ DeviceWaits /\ RadioWaits /\ BatteryWaits /\ Sanes
  BY <1>1, <1>4 DEF Sweeping, DeviceWaits, RadioWaits, BatteryWaits, Sanes, Sane, HeadIs
<1>9. ASSUME NEW i \in Ids PROVE Fit(i)
  <2>1. cloud.told[i] = "resolved"
    BY <1>1
  <2>2. CASE old /\ i = Device
    <3>1. outbox = <<env>> /\ env \in Envelope /\ env.id = i /\ env.state = "open"
      BY <1>1, <2>2 DEF Envelope, Words
    <3> HIDE DEF env
    <3>2. outbox \in Boxes /\ DOMAIN outbox = {1} /\ outbox[1] = env
      BY <3>1 DEF Boxes
    <3>3. LastAt(outbox, i, 1)
      BY <3>1, <3>2 DEF LastAt
    <3>4. Word(i) = "open"
      BY <3>1, <3>2, <3>3, LastWordIs DEF Word
    <3>5. Openish(active[i])
      BY <1>2, <1>3, <2>2 DEF Openish
    <3> QED BY <1>4, <3>4, <3>5 DEF Fit
  <2>3. CASE ~(old /\ i = Device)
    <3>1. ~Heard(outbox, i) /\ outbox \in Boxes
      <4>1. CASE old
        <5>1. outbox = <<env>> /\ env \in Envelope /\ env.id # i
          BY <1>1, <2>3, <4>1, Places DEF Envelope, Words
        <5> HIDE DEF env
        <5>2. outbox \in Boxes /\ DOMAIN outbox = {1} /\ outbox[1] = env
          BY <5>1 DEF Boxes
        <5> QED BY <5>1, <5>2 DEF Heard
      <4>2. CASE ~old
        <5>1. outbox = <<>> /\ DOMAIN outbox = {}
          BY <1>1, <4>2
        <5> QED BY <5>1 DEF Heard, Boxes
      <4> QED BY <4>1, <4>2
    <3>2. Word(i) = "resolved"
      BY <2>1, <3>1, LastWordIs DEF Word
    <3>3. ~Openish(active[i])
      BY <1>2, <1>3, <2>3 DEF Openish
    <3> QED BY <1>4, <3>2, <3>3 DEF Fit
  <2> QED BY <2>2, <2>3
<1>10. \A s \in Syncs : Carried(s)
  BY <1>1 DEF Carried, Uploads
<1> QED BY <1>6, <1>7, <1>8, <1>9, <1>10 DEF Told, Agreed

LEMMA ToldStep ==
  ASSUME TypeOK, TypeOK', Counting, Told, [Next]_vars
  PROVE  Told'
<1>1. CASE UNCHANGED vars
  BY <1>1, ToldOthers
<1>2. ASSUME NEW s \in Syncs, SyncStep(s) \/ HandshakeFails(s) \/ SyncFails(s) PROVE Told'
  BY <1>2, ToldCalls, ToldServed, ToldEnds
<1>3. CASE Jobs
  BY <1>3, ToldJob DEF Jobs
<1>4. CASE Checks
  BY <1>4, ToldCheck DEF Checks
<1>5. CASE Sweeps
  BY <1>5, ToldBegins, ToldSweeps DEF Sweeps
<1>6. CASE Hours
  BY <1>6, ToldHours DEF Hours
<1> QED BY <1>1, <1>2, <1>3, <1>4, <1>5, <1>6, ToldSaved, ToldCrash, ToldChanges, ToldOthers DEF Next

\* When the hub has nothing left to do or to tell, the platform takes for open
\* what the hub does, whatever synchronisation is under way, unless an envelope slipped, the handlers of two changes ran out of order, or
\* two synchronisations ran at a time.
THEOREM ToldAgreesAlways == Spec => []ToldAgrees
<1>1. Init => TypeOK /\ Counting /\ Told
  BY TypeInit, CountingInit, ToldInit
<1>2. (TypeOK /\ Counting /\ Told) /\ [Next]_vars => (TypeOK /\ Counting /\ Told)'
  BY TypeStep, CountingStep, ToldStep
<1>3. TypeOK /\ Told => ToldAgrees
  <2> SUFFICES ASSUME TypeOK, Told, ~past.raced, jobs = <<>>, sweep = Asleep, outbox = <<>>,
                      NEW i \in Ids \ (slips.untold \cup slips.overtaken)
               PROVE  cloud.told[i] = "open" <=> active[i].state \in {"open", "recovering", "critical"}
    BY DEF ToldAgrees
  <2>1. Fit(i) /\ ~Waits("save", i) /\ ~Waits("tell", i)
    BY NothingWaits DEF Told, Agreed
  <2>2. outbox \in Boxes /\ ~Heard(outbox, i)
    BY DEF TypeOK, IncidentsOK, Heard
  <2>3. Word(i) = cloud.told[i]
    BY <2>2, LastWordIs DEF Word
  <2> QED BY <2>1, <2>3 DEF Fit, Openish
<1> QED BY <1>1, <1>2, <1>3, PTL DEF Spec
=============================================================================
