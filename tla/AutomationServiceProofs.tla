------------------------ MODULE AutomationServiceProofs ------------------------
(***************************************************************************)
(* However many automations, keys and requests there are, and whatever      *)
(* fails: a key is answered with one automation, of the edits of one        *)
(* revision one is answered, and what was answered stays.  The inductive     *)
(* invariant follows each request, pending or answered, through the copies   *)
(* of the content that may still become the memory or the file.              *)
(***************************************************************************)
EXTENDS AutomationService, SequenceTheorems, FiniteSetTheorems, TLAPS

(***************************************************************************)
(* Contents of the store, and what holds in them of a request.              *)
(***************************************************************************)
Entry == [key : Key, wish : Wish, id : Automation]
Record == [revision : Nat, enabled : BOOLEAN, made : Nat]

\* A key has one entry, and an old file has none.
Content(c) ==
  /\ c = [autos |-> c.autos, triggers |-> c.triggers, actions |-> c.actions, keys |-> c.keys, rules |-> c.rules, old |-> c.old]
  /\ c.autos \in [Automation -> Record]
  /\ c.keys \in Seq(Entry)
  /\ c.old \in BOOLEAN
  /\ c.old => c.keys = <<>>
  /\ \A e, f \in Range(c.keys) : e.key = f.key => e = f

Rev(c, a) == c.autos[a].revision
KeyHolds(c, k, id) == \E e \in Range(c.keys) : e.key = k /\ e.id = id
EditHolds(t, c, a, n) == n < Rev(c, a) \/ (Rev(c, a) = 0 /\ a \in t.leaving)

\* What a request has done is in a content, or undone by what is excused.
Holds(t, c, q) ==
  /\ q.key # "none" /\ q.key \notin t.unsure => KeyHolds(c, q.key, q.id)
  /\ q.what = "edit" /\ q.id \notin t.replaced => EditHolds(t, c, q.id, q.expected)
  /\ q.what = "remove" /\ q.id \notin t.replaced => Rev(c, q.id) = 0

Created(k, id) == [what |-> "create", id |-> id, key |-> k, expected |-> 0]
Edited(a, n) == [what |-> "edit", id |-> a, key |-> "none", expected |-> n]
Gone(a) == [what |-> "remove", id |-> a, key |-> "none", expected |-> 0]

(***************************************************************************)
(* Types.                                                                   *)
(***************************************************************************)
Questions == [what : {"none", "create", "edit", "remove"}, id : Automation \cup {0}, key : Key \cup {"none"}, expected : Nat]

StoreTypes ==
  /\ Content(state) /\ Content(file) /\ Content(image)
  /\ before = [o \in Owner |-> before[o]] /\ \A o \in Owner : Content(before[o])
  /\ queue \in Seq(Owner) /\ writing \in BOOLEAN /\ phase \in [Owner -> Phases]
  /\ QueueWellFormed

TrailTypes ==
  /\ trail = [made |-> trail.made, names |-> trail.names, told |-> trail.told, unsure |-> trail.unsure, edits |-> trail.edits,
              leaving |-> trail.leaving, gone |-> trail.gone, replaced |-> trail.replaced]
  /\ trail.made \in Nat
  /\ trail.told \in [Key -> SUBSET Automation]
  /\ trail.edits \in [Automation -> Seq(Nat)]
  /\ trail.gone \subseteq Automation \cap trail.leaving

AskedTypes ==
  /\ asked \in [Request -> Questions]
  /\ \A r \in Request :
       /\ asked[r].what # "none" => Pending(r) /\ asked[r].id \in Automation
       /\ asked[r].key # "none" => asked[r].what = "create"
       /\ asked[r].what = "remove" => asked[r].id \in trail.leaving

Typed == StoreTypes /\ TrailTypes /\ AskedTypes

(***************************************************************************)
(* Old data files, and the names of automations.                            *)
(***************************************************************************)
\* The file is an old one only until something is saved.
Aged ==
  /\ ~state.old /\ (writing => ~image.old)
  /\ \A o \in Owner : Pending(o) => ~before[o].old
  /\ file.old => \A a \in Automation : trail.edits[a] = <<>> /\ a \notin trail.gone

\* A name is drawn once.
Known(c) == \A a \in Automation : Live(Load(c), a) => a \in trail.names
Named ==
  /\ Known(state) /\ Known(file) /\ Known(image) /\ \A o \in Owner : Known(before[o])
  /\ \A r \in Request : asked[r].what \in {"edit", "remove"} => asked[r].id \in trail.names
  /\ \A a \in Automation : trail.edits[a] # <<>> \/ a \in trail.gone => a \in trail.names

(***************************************************************************)
(* Where requests hold.                                                     *)
(***************************************************************************)
\* The mutation whose snapshot the next roll back may put back.
Latest(o) == Pending(o) /\ o \notin stale

\* Memory, the disk, what is on the way there, and what a roll back puts back.
Copies == {state, file} \cup (IF writing THEN {image} ELSE {}) \cup {before[o] : o \in {o \in Owner : Latest(o)}}

\* Those that have a request that is pending.
Carriers(r) ==
  {state} \cup (IF writing /\ queue[1] = r THEN {image} ELSE {}) \cup {before[o] : o \in {o \in Owner : Latest(o) /\ o # r}}

Kept(q) == \A c \in Copies : Holds(trail, c, q)
Awaiting(r) == \A c \in Carriers(r) : Holds(trail, c, asked[r])

OneLatest == \A o, p \in Owner : Latest(o) /\ Latest(p) => o = p

PendingHold == \A r \in Request : asked[r].what # "none" => Awaiting(r)

AnswersHold ==
  /\ \A k \in Key : \A id \in trail.told[k] : Kept(Created(k, id))
  /\ \A a \in Automation : \A n \in Range(trail.edits[a]) : Kept(Edited(a, n))
  /\ \A a \in trail.gone : Kept(Gone(a))

\* What may be answered from memory is kept, or its request is pending.
EntriesHold ==
  \A e \in Range(state.keys) : e.key \notin trail.unsure =>
     (\E r \in Request : asked[r].key = e.key) \/ Kept(Created(e.key, e.id))

\* A roll back leaves older entries, and takes the one of the request that failed.
RollsBack ==
  \A o \in Owner : Latest(o) =>
    \A e \in Range(before[o].keys) : e.key \notin trail.unsure =>
       /\ e \in Range(state.keys)
       /\ o \in Request => asked[o].key # e.key

\* Of one revision one edit is pending or answered.
EditsDiffer ==
  \A a \in Automation \ trail.replaced :
    /\ \A r, s \in Request : asked[r].what = "edit" /\ asked[s].what = "edit" /\ asked[r].id = a /\ asked[s].id = a
                             /\ asked[r].expected = asked[s].expected => r = s
    /\ \A r \in Request : asked[r].what = "edit" /\ asked[r].id = a => asked[r].expected \notin Range(trail.edits[a])
    /\ IsInjective(trail.edits[a])

Lasting == OneLatest /\ PendingHold /\ AnswersHold /\ EntriesHold /\ RollsBack /\ EditsDiffer

IInv == Typed /\ Aged /\ Named /\ (~overlapped => Lasting)

(***************************************************************************)
(* What the operations make of a content.                                   *)
(***************************************************************************)
LEMMA PartsReplaced ==
  ASSUME NEW c, c = [autos |-> c.autos, triggers |-> c.triggers, actions |-> c.actions, keys |-> c.keys, rules |-> c.rules, old |-> c.old],
         NEW T, NEW X
  PROVE  [c EXCEPT !.triggers = T, !.actions = X]
           = [autos |-> c.autos, triggers |-> T, actions |-> X, keys |-> c.keys, rules |-> c.rules, old |-> c.old]
<1>. DEFINE e == [c EXCEPT !.triggers = T]
<1>1. e = [autos |-> c.autos, triggers |-> T, actions |-> c.actions, keys |-> c.keys, rules |-> c.rules, old |-> c.old]
  OBVIOUS
<1>2. [c EXCEPT !.triggers = T, !.actions = X] = [e EXCEPT !.actions = X]
  OBVIOUS
<1>. HIDE DEF e
<1>3. [e EXCEPT !.actions = X] = [autos |-> c.autos, triggers |-> T, actions |-> X, keys |-> c.keys, rules |-> c.rules, old |-> c.old]
  BY <1>1
<1>. QED  BY <1>2, <1>3

LEMMA AllReplaced ==
  ASSUME NEW c, c = [autos |-> c.autos, triggers |-> c.triggers, actions |-> c.actions, keys |-> c.keys, rules |-> c.rules, old |-> c.old],
         NEW a, NEW v, NEW T, NEW X
  PROVE  [c EXCEPT !.autos[a] = v, !.triggers = T, !.actions = X]
           = [autos |-> [c.autos EXCEPT ![a] = v], triggers |-> T, actions |-> X, keys |-> c.keys, rules |-> c.rules, old |-> c.old]
<1>. DEFINE f == [c.autos EXCEPT ![a] = v]
            e == [c EXCEPT !.autos = f]
<1>1. [c EXCEPT !.autos[a] = v, !.triggers = T, !.actions = X] = [e EXCEPT !.triggers = T, !.actions = X]
  OBVIOUS
<1>. HIDE DEF f
<1>2. e = [autos |-> f, triggers |-> c.triggers, actions |-> c.actions, keys |-> c.keys, rules |-> c.rules, old |-> c.old]
  OBVIOUS
<1>. HIDE DEF e
<1>. DEFINE g == [e EXCEPT !.triggers = T]
<1>3. g = [autos |-> f, triggers |-> T, actions |-> c.actions, keys |-> c.keys, rules |-> c.rules, old |-> c.old]
  BY <1>2
<1>4. [e EXCEPT !.triggers = T, !.actions = X] = [g EXCEPT !.actions = X]
  OBVIOUS
<1>. HIDE DEF g
<1>5. [g EXCEPT !.actions = X] = [autos |-> f, triggers |-> T, actions |-> X, keys |-> c.keys, rules |-> c.rules, old |-> c.old]
  BY <1>3
<1>. QED  BY <1>1, <1>4, <1>5 DEF f

LEMMA DefinitionIs ==
  ASSUME NEW c, Content(c), NEW a \in Automation, NEW n \in Nat, NEW on \in BOOLEAN, NEW t, NEW x, trail.made \in Nat
  PROVE  LET d == Definition(c, a, n, on, t, x)
         IN /\ Content(d)
            /\ d.keys = c.keys /\ d.old = c.old
            /\ \A b \in Automation : Rev(d, b) = IF b = a THEN n ELSE Rev(c, b)
<1>. DEFINE autos == [c.autos EXCEPT ![a] = [revision |-> n, enabled |-> on, made |-> NewMade]]
            triggers == Put(c.triggers, {[id |-> t, of |-> a, made |-> NewMade]})
            actions == Put(c.actions, x)
            d == Definition(c, a, n, on, t, x)
<1>1. NewMade \in Nat
  BY DEF NewMade
<1>2. /\ autos \in [Automation -> Record]
      /\ \A b \in Automation : autos[b].revision = IF b = a THEN n ELSE c.autos[b].revision
  BY <1>1 DEF Content, Record
<1>3. d = [autos |-> autos, triggers |-> triggers, actions |-> actions, keys |-> c.keys, rules |-> c.rules, old |-> c.old]
  <2>1. c = [autos |-> c.autos, triggers |-> c.triggers, actions |-> c.actions, keys |-> c.keys, rules |-> c.rules, old |-> c.old]
    BY DEF Content
  <2>2. d = [c EXCEPT !.autos[a] = [revision |-> n, enabled |-> on, made |-> NewMade], !.triggers = triggers, !.actions = actions]
    BY DEF Definition
  <2>. HIDE DEF d, triggers, actions
  <2>. QED  BY <2>1, <2>2, AllReplaced
<1>. HIDE DEF autos, triggers, actions, d
<1>4. Content(d)
  BY <1>2, <1>3 DEF Content
<1>5. \A b \in Automation : Rev(d, b) = IF b = a THEN n ELSE Rev(c, b)
  BY <1>2, <1>3 DEF Rev
<1>6. d.keys = c.keys /\ d.old = c.old
  BY <1>3
<1>. QED  BY <1>4, <1>5, <1>6 DEF d

LEMMA WithoutPartsIs ==
  ASSUME NEW c, Content(c), NEW a \in Automation
  PROVE  LET d == WithoutParts(c, a)
         IN Content(d) /\ d.keys = c.keys /\ d.old = c.old /\ d.autos = c.autos
<1>. DEFINE d == WithoutParts(c, a)
            triggers == c.triggers \ TriggersOf(c, a)
            actions == c.actions \ ActionsOf(c, a)
<1>1. d = [autos |-> c.autos, triggers |-> triggers, actions |-> actions, keys |-> c.keys, rules |-> c.rules, old |-> c.old]
  <2>1. c = [autos |-> c.autos, triggers |-> c.triggers, actions |-> c.actions, keys |-> c.keys, rules |-> c.rules, old |-> c.old]
    BY DEF Content
  <2>2. d = [c EXCEPT !.triggers = triggers, !.actions = actions]
    BY DEF WithoutParts
  <2>. HIDE DEF d, triggers, actions
  <2>. QED  BY <2>1, <2>2, PartsReplaced
<1>. HIDE DEF d, triggers, actions
<1>2. Content(d) /\ d.keys = c.keys /\ d.old = c.old /\ d.autos = c.autos
  BY <1>1 DEF Content
<1>. QED  BY <1>2 DEF d

LEMMA GoneIs ==
  ASSUME NEW c, Content(c), NEW a \in Automation
  PROVE  LET d == [c EXCEPT !.autos[a] = NoAutomation]
         IN /\ Content(d) /\ d.keys = c.keys /\ d.old = c.old
            /\ \A b \in Automation : Rev(d, b) = IF b = a THEN 0 ELSE Rev(c, b)
<1>. DEFINE d == [c EXCEPT !.autos[a] = NoAutomation]
            autos == [c.autos EXCEPT ![a] = NoAutomation]
<1>1. /\ autos \in [Automation -> Record]
      /\ \A b \in Automation : autos[b].revision = IF b = a THEN 0 ELSE c.autos[b].revision
  BY DEF Content, Record, NoAutomation
<1>2. d = [autos |-> autos, triggers |-> c.triggers, actions |-> c.actions, keys |-> c.keys, rules |-> c.rules, old |-> c.old]
  BY DEF Content
<1>. HIDE DEF d, autos
<1>3. Content(d) /\ d.keys = c.keys /\ d.old = c.old
  BY <1>1, <1>2 DEF Content
<1>4. \A b \in Automation : Rev(d, b) = IF b = a THEN 0 ELSE Rev(c, b)
  BY <1>1, <1>2 DEF Rev
<1>. QED  BY <1>3, <1>4 DEF d

(* The newest entries are some of them, with the last one. *)
LEMMA NewestIs ==
  ASSUME NEW s \in Seq(Entry), NEW e \in Entry
  PROVE  LET n == Newest(Append(s, e))
         IN n \in Seq(Entry) /\ Range(n) \subseteq Range(s) \cup {e} /\ e \in Range(n)
<1>. DEFINE w == Append(s, e)
            n == Newest(w)
<1>1. /\ w \in Seq(Entry) /\ Len(w) = Len(s) + 1 /\ w[Len(s) + 1] = e
      /\ \A i \in 1..Len(s) : w[i] = s[i]
  BY AppendProperties
<1>2. Len(s) \in Nat /\ DOMAIN s = 1..Len(s) /\ DOMAIN w = 1..Len(w)
  BY <1>1, LenProperties
<1>. HIDE DEF w
<1>3. Range(w) = Range(s) \cup {e} /\ e \in Range(w)
  <2>1. \A i \in DOMAIN w : w[i] \in Range(s) \cup {e}
    BY <1>1, <1>2 DEF Range
  <2>2. e \in Range(w)
    BY <1>1, <1>2 DEF Range
  <2>3. \A i \in DOMAIN s : s[i] \in Range(w)
    BY <1>1, <1>2 DEF Range
  <2>. QED  BY <2>1, <2>2, <2>3 DEF Range
<1>4. CASE Len(w) <= MaxKeys
  BY <1>1, <1>3, <1>4 DEF Newest, w
<1>5. CASE ~(Len(w) <= MaxKeys)
  <2>. DEFINE m == Len(w) - MaxKeys + 1
  <2>1. MaxKeys \in Nat \ {0}
    BY KeysAssumption
  <2>2. m \in Nat /\ m >= 2 /\ m <= Len(w) /\ Len(w) \in Nat
    BY <1>1, <1>2, <1>5, <2>1
  <2>3. n = SubSeq(w, m, Len(w))
    BY <1>5 DEF Newest
  <2>. HIDE DEF m, n
  <2>4. m \in 1..(Len(w) + 1) /\ Len(w) \in (m - 1)..Len(w)
    BY <2>2
  <2>5. /\ n \in Seq(Entry) /\ Len(n) = Len(w) - m + 1
        /\ \A i \in 1..(Len(w) - m + 1) : n[i] = w[m + i - 1]
    BY <1>1, <2>2, <2>3, <2>4, SubSeqProperties
  <2>6. Len(n) \in Nat /\ DOMAIN n = 1..Len(n)
    BY <2>5, LenProperties
  <2>7. \A i \in DOMAIN n : n[i] \in Range(w)
    <3>1. \A i \in DOMAIN n : m + i - 1 \in DOMAIN w /\ n[i] = w[m + i - 1]
      BY <1>2, <2>2, <2>5, <2>6
    <3>. QED  BY <3>1 DEF Range
  <2>8. e \in Range(n)
    <3>1. Len(n) \in DOMAIN n /\ Len(n) \in 1..(Len(w) - m + 1) /\ m + Len(n) - 1 = Len(s) + 1
      BY <1>1, <1>2, <2>2, <2>5, <2>6
    <3>2. n[Len(n)] = e
      BY <1>1, <2>5, <3>1
    <3>. QED  BY <3>1, <3>2 DEF Range
  <2>9. Range(n) \subseteq Range(w)
    BY <2>7 DEF Range
  <2>. QED  BY <1>3, <2>5, <2>8, <2>9 DEF n, w
<1>. QED  BY <1>4, <1>5

(***************************************************************************)
(* What the history keeps.                                                  *)
(***************************************************************************)
TrailGrows ==
  /\ trail.unsure \subseteq trail'.unsure /\ trail.replaced \subseteq trail'.replaced
  /\ trail.leaving \subseteq trail'.leaving /\ trail.names \subseteq trail'.names
SameAnswers == trail'.told = trail.told /\ trail'.edits = trail.edits /\ trail'.gone = trail.gone

\* The history with four of its parts replaced.
History(made, names, leaving, replaced, unsure) ==
  [made |-> made, names |-> names, told |-> trail.told, unsure |-> unsure, edits |-> trail.edits,
   leaving |-> leaving, gone |-> trail.gone, replaced |-> replaced]

LEMMA HistoryIs ==
  ASSUME TrailTypes, NEW m \in Nat, NEW N, NEW L, NEW R, NEW U, trail' = History(m, N, L, R, U),
         trail.names \subseteq N, trail.leaving \subseteq L, trail.replaced \subseteq R, trail.unsure \subseteq U
  PROVE  /\ TrailTypes' /\ TrailGrows /\ SameAnswers
         /\ trail'.names = N /\ trail'.leaving = L /\ trail'.replaced = R /\ trail'.unsure = U
<1>1. /\ trail'.made = m /\ trail'.names = N /\ trail'.leaving = L /\ trail'.replaced = R /\ trail'.unsure = U
      /\ trail'.told = trail.told /\ trail'.edits = trail.edits /\ trail'.gone = trail.gone
  BY DEF History
<1>2. trail' = [made |-> trail'.made, names |-> trail'.names, told |-> trail'.told, unsure |-> trail'.unsure, edits |-> trail'.edits,
              leaving |-> trail'.leaving, gone |-> trail'.gone, replaced |-> trail'.replaced]
  BY <1>1 DEF History
<1>3. TrailTypes'
  BY <1>1, <1>2 DEF TrailTypes
<1>. QED  BY <1>1, <1>3 DEF TrailGrows, SameAnswers

LEMMA MadeTrail ==
  ASSUME TrailTypes
  PROVE  /\ NewMade \in Nat
         /\ [trail EXCEPT !.made = NewMade] = History(NewMade, trail.names, trail.leaving, trail.replaced, trail.unsure)
<1>1. NewMade \in Nat
  BY DEF NewMade, TrailTypes
<1>. HIDE DEF NewMade
<1>2. [trail EXCEPT !.made = NewMade] = History(NewMade, trail.names, trail.leaving, trail.replaced, trail.unsure)
  BY DEF TrailTypes, History
<1>. QED  BY <1>1, <1>2

LEMMA LeavingTrail ==
  ASSUME TrailTypes, NEW L
  PROVE  [trail EXCEPT !.leaving = L] = History(trail.made, trail.names, L, trail.replaced, trail.unsure)
BY DEF TrailTypes, History

LEMMA NamesTrail ==
  ASSUME TrailTypes, NEW N
  PROVE  [trail EXCEPT !.made = NewMade, !.names = N] = History(NewMade, N, trail.leaving, trail.replaced, trail.unsure)
<1>. DEFINE t == [trail EXCEPT !.made = NewMade]
<1>1. t = History(NewMade, trail.names, trail.leaving, trail.replaced, trail.unsure)
  BY MadeTrail
<1>2. [trail EXCEPT !.made = NewMade, !.names = N] = [t EXCEPT !.names = N]
  OBVIOUS
<1>. HIDE DEF t, NewMade
<1>3. [t EXCEPT !.names = N] = History(NewMade, N, trail.leaving, trail.replaced, trail.unsure)
  BY <1>1 DEF History
<1>. QED  BY <1>2, <1>3

LEMMA CreationTrail ==
  ASSUME TrailTypes, NEW N, NEW R, NEW U
  PROVE  [trail EXCEPT !.made = NewMade, !.names = N, !.replaced = R, !.unsure = U] = History(NewMade, N, trail.leaving, R, U)
<1>. DEFINE t == [trail EXCEPT !.made = NewMade, !.names = N]
            u == [t EXCEPT !.replaced = R]
<1>1. t = History(NewMade, N, trail.leaving, trail.replaced, trail.unsure)
  BY NamesTrail
<1>2. [trail EXCEPT !.made = NewMade, !.names = N, !.replaced = R, !.unsure = U] = [u EXCEPT !.unsure = U]
  OBVIOUS
<1>. HIDE DEF t, NewMade
<1>3. u = History(NewMade, N, trail.leaving, R, trail.unsure)
  BY <1>1 DEF History
<1>. HIDE DEF u
<1>4. [u EXCEPT !.unsure = U] = History(NewMade, N, trail.leaving, R, U)
  BY <1>3 DEF History
<1>. QED  BY <1>2, <1>4

(***************************************************************************)
(* Requests: what they ask, and what they make of the content.              *)
(***************************************************************************)
\* Entries stay, unless they are pruned; one is added where none had the key.
KeysGrow(content, q) ==
  /\ \A e \in Range(state.keys) : e.key \notin trail'.unsure => e \in Range(content.keys) /\ e.key # q.key
  /\ \A e \in Range(content.keys) : e \in Range(state.keys) \/ (e.key = q.key /\ e.id = q.id)
  /\ q.key # "none" => KeyHolds(content, q.key, q.id)

Revises(content, q, a) == q.what = "edit" /\ q.expected = Rev(state, a) /\ Rev(state, a) > 0 /\ Rev(content, a) = Rev(state, a) + 1
Deletes(content, q, a) == q.what = "remove" /\ Rev(content, a) = 0

\* An automation is edited, removed, made under a new name, replaced, or stays.
Revisions(content, q) ==
  \A a \in Automation \ trail'.replaced :
    IF q.what \in {"edit", "remove"} /\ q.id = a THEN Revises(content, q, a) \/ Deletes(content, q, a)
    ELSE Rev(content, a) = Rev(state, a) \/ a \notin trail.names

Question(q) ==
  /\ q \in Questions /\ q.what # "none" /\ q.id \in Automation
  /\ q.key # "none" => q.what = "create"
  /\ q.what = "remove" => q.id \in trail'.leaving
  /\ q.what \in {"edit", "remove"} => q.id \in trail.names

Demands(r, content, q) ==
  /\ Commit(r, content) /\ asked' = [asked EXCEPT ![r] = q]
  /\ TrailTypes' /\ TrailGrows /\ SameAnswers
  /\ Question(q)
  /\ Content(content) /\ ~content.old /\ \A a \in Automation : Live(content, a) => a \in trail'.names
  /\ KeysGrow(content, q) /\ Revisions(content, q)

Requests == \E r \in Request : \E content, q : Demands(r, content, q)

LEMMA LiveNamed ==
  ASSUME Named, Aged, NEW a \in Automation, Live(state, a)
  PROVE  a \in trail.names
BY DEF Named, Aged, Known, Load

LEMMA CreatesDemands ==
  ASSUME Typed, Aged, Named, NEW r \in Request, NEW a \in Automation, NEW wish \in Wish, NEW k \in Key, Creates(r, a, wish, k)
  PROVE  Requests
<1>. DEFINE t == <<NewMade>>
            x == NewActions(a, wish, {})
            on == TRUE
            d == Definition(state, a, 1, on, t, x)
            content == WithKey(d, k, wish, a)
            q == [what |-> "create", id |-> a, key |-> k, expected |-> 0]
            N == trail.names \cup {a}
            R == IF a \in trail.names THEN trail.replaced \cup {a} ELSE trail.replaced
            U == trail.unsure \cup ({e.key : e \in Range(state.keys)} \ {e.key : e \in Range(content.keys)})
            e0 == [key |-> k, wish |-> wish, id |-> a]
<1>1. /\ Commit(r, content) /\ asked' = [asked EXCEPT ![r] = q]
      /\ trail' = [trail EXCEPT !.made = NewMade, !.names = N, !.replaced = R, !.unsure = U]
      /\ a \in Fresh \cup trail.names
      /\ Entries(k) = {}
  BY DEF Creates, Asks
<1>2. Content(state) /\ TrailTypes /\ trail.made \in Nat /\ ~state.old /\ state.keys \in Seq(Entry)
  BY DEF Typed, StoreTypes, TrailTypes, Aged, Content
<1>0. on \in BOOLEAN
  OBVIOUS
<1>. HIDE DEF t, x, on
<1>3. /\ Content(d) /\ d.keys = state.keys /\ d.old = state.old
      /\ \A b \in Automation : Rev(d, b) = IF b = a THEN 1 ELSE Rev(state, b)
  <2>1. 1 \in Nat
    OBVIOUS
  <2>. QED  BY <1>0, <1>2, <2>1, DefinitionIs
<1>4. e0 \in Entry /\ e0.key = k /\ e0.id = a
  BY DEF Entry
<1>. DEFINE keys == Newest(Append(state.keys, e0))
<1>5. keys \in Seq(Entry) /\ Range(keys) \subseteq Range(state.keys) \cup {e0} /\ e0 \in Range(keys)
  BY <1>2, <1>4, NewestIs
<1>. HIDE DEF d, e0
<1>6. content = [d EXCEPT !.keys = keys]
  BY <1>3 DEF WithKey, e0
<1>. HIDE DEF keys
<1>7. content = [autos |-> d.autos, triggers |-> d.triggers, actions |-> d.actions, keys |-> keys, rules |-> d.rules, old |-> d.old]
  BY <1>3, <1>6 DEF Content
<1>. HIDE DEF content, N, R, U, q
<1>8. content.keys = keys /\ content.old = FALSE /\ content.autos = d.autos
  BY <1>2, <1>3, <1>7 DEF Content
<1>9. \A e \in Range(state.keys) : e.key # k
  BY <1>1 DEF Entries
<1>10. \A e, f \in Range(keys) : e.key = f.key => e = f
  <2>1. \A e, f \in Range(state.keys) : e.key = f.key => e = f
    BY <1>2 DEF Content
  <2>. QED  BY <1>4, <1>5, <1>9, <2>1
<1>11. Content(content)
  BY <1>3, <1>5, <1>7, <1>8, <1>10 DEF Content
<1>12. /\ TrailTypes' /\ TrailGrows /\ SameAnswers
       /\ trail'.names = N /\ trail'.leaving = trail.leaving /\ trail'.replaced = R /\ trail'.unsure = U
  <2>0. NewMade \in Nat
    BY <1>2, MadeTrail
  <2>1. trail' = History(NewMade, N, trail.leaving, R, U)
    BY <1>1, <1>2, CreationTrail
  <2>2. trail.names \subseteq N /\ trail.replaced \subseteq R /\ trail.unsure \subseteq U
    BY DEF N, R, U
  <2>. QED  BY <1>2, <2>0, <2>1, <2>2, HistoryIs
<1>13. \A b \in Automation : Rev(content, b) = IF b = a THEN 1 ELSE Rev(state, b)
  BY <1>3, <1>8 DEF Rev
<1>14. q.what = "create" /\ q.id = a /\ q.key = k /\ q.expected = 0 /\ q \in Questions
  BY DEF q, Questions
<1>15. Question(q)
  BY <1>14 DEF Question
<1>16. \A b \in Automation : Live(content, b) => b \in trail'.names
  <2>1. ASSUME NEW b \in Automation, Live(content, b) PROVE b \in N
    <3>1. CASE b = a
      BY <3>1 DEF N
    <3>2. CASE b # a
      <4>1. Live(state, b)
        BY <1>13, <2>1, <3>2 DEF Live, Rev
      <4>. QED  BY <4>1, LiveNamed DEF N
    <3>. QED  BY <3>1, <3>2
  <2>. QED  BY <1>12, <2>1
<1>17. KeysGrow(content, q)
  <2>1. ASSUME NEW e \in Range(state.keys), e.key \notin trail'.unsure PROVE e \in Range(content.keys)
    <3>1. e.key \in {f.key : f \in Range(content.keys)}
      BY <1>12, <2>1 DEF U
    <3>2. PICK f \in Range(content.keys) : f.key = e.key
      BY <3>1
    <3>3. f \in Range(state.keys)
      BY <1>4, <1>5, <1>8, <1>9, <3>2
    <3>. QED  BY <1>2, <3>2, <3>3 DEF Content
  <2>. QED  BY <1>4, <1>5, <1>8, <1>9, <1>14, <2>1 DEF KeysGrow, KeyHolds
<1>18. Revisions(content, q)
  <2>1. ASSUME NEW b \in Automation \ R PROVE Rev(content, b) = Rev(state, b) \/ b \notin trail.names
    <3>1. CASE b # a
      BY <1>13, <2>1, <3>1
    <3>2. CASE b = a
      BY <1>1, <2>1, <3>2 DEF R, Fresh
    <3>. QED  BY <3>1, <3>2
  <2>. QED  BY <1>12, <1>14, <2>1 DEF Revisions
<1>19. Demands(r, content, q)
  BY <1>1, <1>8, <1>11, <1>12, <1>15, <1>16, <1>17, <1>18 DEF Demands, content, q, d, t, x, on
<1>. QED  BY <1>19 DEF Requests

LEMMA DuplicatesDemands ==
  ASSUME Typed, Aged, Named, NEW r \in Request, NEW a \in Automation, NEW copy \in Automation, Duplicates(r, a, copy)
  PROVE  Requests
<1>. DEFINE t == <<NewMade>>
            x == NewActions(copy, WishOf(state, a), {})
            on == FALSE
            content == Definition(state, copy, 1, on, t, x)
            q == [what |-> "create", id |-> copy, key |-> "none", expected |-> 0]
            N == trail.names \cup {copy}
<1>0. on \in BOOLEAN
  OBVIOUS
<1>1. /\ Commit(r, content) /\ asked' = [asked EXCEPT ![r] = q]
      /\ trail' = [trail EXCEPT !.made = NewMade, !.names = N]
      /\ copy \in Fresh
  BY DEF Duplicates, Asks
<1>2. Content(state) /\ TrailTypes /\ trail.made \in Nat /\ ~state.old
  BY DEF Typed, StoreTypes, TrailTypes, Aged
<1>. HIDE DEF t, x, on
<1>3. /\ Content(content) /\ content.keys = state.keys /\ content.old = state.old
      /\ \A b \in Automation : Rev(content, b) = IF b = copy THEN 1 ELSE Rev(state, b)
  <2>1. 1 \in Nat
    OBVIOUS
  <2>. QED  BY <1>0, <1>2, <2>1, DefinitionIs
<1>. HIDE DEF content, q
<1>4. q.what = "create" /\ q.id = copy /\ q.key = "none" /\ q.expected = 0 /\ q \in Questions
  BY DEF q, Questions
<1>5. Question(q)
  BY <1>4 DEF Question
<1>6. /\ TrailTypes' /\ TrailGrows /\ SameAnswers
      /\ trail'.names = N /\ trail'.leaving = trail.leaving /\ trail'.replaced = trail.replaced /\ trail'.unsure = trail.unsure
  <2>1. NewMade \in Nat
    BY <1>2, MadeTrail
  <2>2. trail' = History(NewMade, N, trail.leaving, trail.replaced, trail.unsure)
    BY <1>1, <1>2, NamesTrail
  <2>3. trail.names \subseteq N
    OBVIOUS
  <2>. QED  BY <1>2, <2>1, <2>2, <2>3, HistoryIs
<1>7. \A b \in Automation : Live(content, b) => b \in trail'.names
  <2>1. ASSUME NEW b \in Automation, Live(content, b) PROVE b \in N
    <3>1. b = copy \/ Live(state, b)
      BY <1>3, <2>1 DEF Live, Rev
    <3>. QED  BY <3>1, LiveNamed
  <2>. QED  BY <1>6, <2>1
<1>8. KeysGrow(content, q)
  <2>1. \A e \in Range(state.keys) : e.key # "none"
    <3>1. \A e \in Range(state.keys) : e \in Entry
      BY <1>2 DEF Content, Range
    <3>. QED  BY <3>1, KeysAssumption DEF Entry
  <2>. QED  BY <1>3, <1>4, <2>1 DEF KeysGrow
<1>9. Revisions(content, q)
  <2>1. copy \notin trail.names
    BY <1>1 DEF Fresh
  <2>. QED  BY <1>3, <1>4, <2>1 DEF Revisions
<1>10. Demands(r, content, q)
  BY <1>1, <1>2, <1>3, <1>5, <1>6, <1>7, <1>8, <1>9 DEF Demands, content, q
<1>. QED  BY <1>10 DEF Requests

LEMMA UpdatesDemands ==
  ASSUME Typed, Aged, Named, NEW r \in Request, NEW a \in Automation, NEW wish, NEW enabled \in BOOLEAN, NEW newTrigger, NEW expected,
         Updates(r, a, wish, enabled, newTrigger, expected)
  PROVE  Requests
<1>. DEFINE t == IF newTrigger THEN <<NewMade>> ELSE (CHOOSE t \in TriggersOf(state, a) : TRUE).id
            x == NewActions(a, wish, ActionsOf(state, a))
            d == WithoutParts(state, a)
            n == state.autos[a].revision + 1
            content == Definition(d, a, n, enabled, t, x)
            q == [what |-> "edit", id |-> a, key |-> "none", expected |-> expected]
<1>1. /\ Commit(r, content) /\ asked' = [asked EXCEPT ![r] = q]
      /\ trail' = [trail EXCEPT !.made = NewMade]
      /\ Live(state, a) /\ expected = state.autos[a].revision
  BY DEF Updates, Asks, Expected
<1>2. Content(state) /\ TrailTypes /\ trail.made \in Nat /\ ~state.old
  BY DEF Typed, StoreTypes, TrailTypes, Aged
<1>3. Content(d) /\ d.keys = state.keys /\ d.old = state.old /\ d.autos = state.autos
  BY <1>2, WithoutPartsIs
<1>4. expected \in Nat /\ n = expected + 1 /\ n \in Nat /\ expected > 0 /\ Rev(state, a) = expected
  BY <1>1, <1>2 DEF Content, Record, Live, Rev
<1>. HIDE DEF t, x, d, n
<1>5. /\ Content(content) /\ content.keys = state.keys /\ content.old = state.old
      /\ \A b \in Automation : Rev(content, b) = IF b = a THEN n ELSE Rev(state, b)
  <2>1. /\ Content(content) /\ content.keys = d.keys /\ content.old = d.old
        /\ \A b \in Automation : Rev(content, b) = IF b = a THEN n ELSE Rev(d, b)
    BY <1>2, <1>3, <1>4, DefinitionIs
  <2>2. \A b \in Automation : Rev(d, b) = Rev(state, b)
    BY <1>3 DEF Rev
  <2>. QED  BY <1>3, <2>1, <2>2
<1>. HIDE DEF content, q
<1>6. q.what = "edit" /\ q.id = a /\ q.key = "none" /\ q.expected = expected /\ q \in Questions
  BY <1>4 DEF q, Questions
<1>7. a \in trail.names
  BY <1>1, LiveNamed
<1>8. Question(q)
  BY <1>6, <1>7 DEF Question
<1>9. /\ TrailTypes' /\ TrailGrows /\ SameAnswers
      /\ trail'.names = trail.names /\ trail'.leaving = trail.leaving /\ trail'.replaced = trail.replaced /\ trail'.unsure = trail.unsure
  BY <1>1, <1>2, MadeTrail, HistoryIs
<1>10. \A b \in Automation : Live(content, b) => b \in trail'.names
  <2>1. ASSUME NEW b \in Automation, Live(content, b) PROVE b \in trail.names
    <3>1. b = a \/ Live(state, b)
      BY <1>5, <2>1 DEF Live, Rev
    <3>. QED  BY <1>7, <3>1, LiveNamed
  <2>. QED  BY <1>9, <2>1
<1>11. KeysGrow(content, q)
  <2>1. \A e \in Range(state.keys) : e.key # "none"
    <3>1. \A e \in Range(state.keys) : e \in Entry
      BY <1>2 DEF Content, Range
    <3>. QED  BY <3>1, KeysAssumption DEF Entry
  <2>. QED  BY <1>5, <1>6, <2>1 DEF KeysGrow
<1>12. Revisions(content, q)
  BY <1>4, <1>5, <1>6 DEF Revisions, Revises
<1>13. Demands(r, content, q)
  BY <1>1, <1>2, <1>5, <1>8, <1>9, <1>10, <1>11, <1>12 DEF Demands, content, q, n, t, x, d
<1>. QED  BY <1>13 DEF Requests

LEMMA RemovesDemands ==
  ASSUME Typed, Aged, Named, NEW r \in Request, NEW a \in Automation, NEW expected \in Nat, Removes(r, a, expected)
  PROVE  Requests
<1>. DEFINE d == WithoutParts(state, a)
            content == [d EXCEPT !.autos[a] = NoAutomation]
            q == [what |-> "remove", id |-> a, key |-> "none", expected |-> expected]
            L == trail.leaving \cup {a}
<1>1. /\ Commit(r, content) /\ asked' = [asked EXCEPT ![r] = q]
      /\ trail' = [trail EXCEPT !.leaving = L]
      /\ Live(state, a)
  BY DEF Removes, Asks
<1>2. Content(state) /\ TrailTypes /\ trail.made \in Nat /\ ~state.old
  BY DEF Typed, StoreTypes, TrailTypes, Aged
<1>3. Content(d) /\ d.keys = state.keys /\ d.old = state.old /\ d.autos = state.autos
  BY <1>2, WithoutPartsIs
<1>. HIDE DEF d
<1>4. /\ Content(content) /\ content.keys = state.keys /\ content.old = state.old
      /\ \A b \in Automation : Rev(content, b) = IF b = a THEN 0 ELSE Rev(state, b)
  <2>1. /\ Content(content) /\ content.keys = d.keys /\ content.old = d.old
        /\ \A b \in Automation : Rev(content, b) = IF b = a THEN 0 ELSE Rev(d, b)
    BY <1>3, GoneIs
  <2>2. \A b \in Automation : Rev(d, b) = Rev(state, b)
    BY <1>3 DEF Rev
  <2>. QED  BY <1>3, <2>1, <2>2
<1>. HIDE DEF content, q
<1>5. q.what = "remove" /\ q.id = a /\ q.key = "none" /\ q.expected = expected /\ q \in Questions
  BY DEF q, Questions
<1>6. a \in trail.names
  BY <1>1, LiveNamed
<1>7. /\ TrailTypes' /\ TrailGrows /\ SameAnswers
      /\ trail'.names = trail.names /\ trail'.leaving = L /\ trail'.replaced = trail.replaced /\ trail'.unsure = trail.unsure
  <2>1. trail' = History(trail.made, trail.names, L, trail.replaced, trail.unsure)
    BY <1>1, <1>2, LeavingTrail
  <2>2. trail.leaving \subseteq L
    OBVIOUS
  <2>. HIDE DEF L
  <2>. QED  BY <1>2, <2>1, <2>2, HistoryIs
<1>8. Question(q)
  BY <1>5, <1>6, <1>7 DEF Question
<1>9. \A b \in Automation : Live(content, b) => b \in trail'.names
  <2>1. ASSUME NEW b \in Automation, Live(content, b) PROVE b \in trail.names
    <3>1. Live(state, b)
      BY <1>4, <2>1 DEF Live, Rev
    <3>. QED  BY <3>1, LiveNamed
  <2>. QED  BY <1>7, <2>1
<1>10. KeysGrow(content, q)
  <2>1. \A e \in Range(state.keys) : e.key # "none"
    <3>1. \A e \in Range(state.keys) : e \in Entry
      BY <1>2 DEF Content, Range
    <3>. QED  BY <3>1, KeysAssumption DEF Entry
  <2>. QED  BY <1>4, <1>5, <2>1 DEF KeysGrow
<1>11. Revisions(content, q)
  BY <1>4, <1>5 DEF Revisions, Deletes
<1>12. Demands(r, content, q)
  BY <1>1, <1>2, <1>4, <1>7, <1>8, <1>9, <1>10, <1>11 DEF Demands, content, q, d
<1>. QED  BY <1>12 DEF Requests

(***************************************************************************)
(* The kinds of steps.                                                      *)
(***************************************************************************)
Same == asked' = asked /\ trail' = trail
Retold == \E k \in Key, wish \in Wish : CreatedBefore(k, wish)
Touched == \E o \in Owner : Commit(o, state) /\ o = Other /\ Same
Chained == \E o \in Owner : ChainWrite(o) /\ Same
Begun == Serialise /\ Same
Quiet == UNCHANGED storeVars /\ Same

LEMMA StepKinds ==
  ASSUME Typed, Aged, Named, [Next]_vars
  PROVE  Requests \/ Retold \/ Touched \/ Chained \/ Begun \/ WriteEnds \/ WriteErrs \/ Restarts \/ Quiet
<1>1. CASE UNCHANGED vars
  BY <1>1 DEF vars, Quiet, Same
<1>2. ASSUME NEW r \in Request, NEW a \in Automation, NEW wish \in Wish, NEW k \in Key, Creates(r, a, wish, k) PROVE Requests
  BY <1>2, CreatesDemands
<1>3. ASSUME NEW r \in Request, NEW a \in Automation, NEW copy \in Automation, Duplicates(r, a, copy) PROVE Requests
  BY <1>3, DuplicatesDemands
<1>4. ASSUME NEW r \in Request, NEW a \in Automation, NEW expected \in Seen(a), NEW wish \in Wish \cup {WishOf(state, a)},
             NEW enabled \in BOOLEAN, NEW newTrigger \in BOOLEAN, Updates(r, a, wish, enabled, newTrigger, expected)
      PROVE  Requests
  BY <1>4, UpdatesDemands
<1>5. ASSUME NEW r \in Request, NEW a \in Automation, NEW expected \in Seen(a), Removes(r, a, expected) PROVE Requests
  <2>1. expected \in Nat
    BY DEF Seen
  <2>. QED  BY <1>5, <2>1, RemovesDemands
<1>6. ASSUME NEW o \in Owner, Persist(o) PROVE Chained
  BY <1>6 DEF Persist, Chained, Same
<1>7. OtherSaves => Touched
  BY IdsAssumption DEF OtherSaves, Touched, Same
<1>8. WriteStarts => Begun
  BY DEF WriteStarts, Begun, Same
<1>9. DeviceChanges \/ Calls \/ CallContinues \/ CallBreaks => Quiet
  BY DEF DeviceChanges, Calls, CallContinues, CallBreaks, ApiVars, Quiet, Same
<1>10. Ticks \/ (\E x \in due : Executes(x)) => Quiet
  BY DEF Ticks, Executes, Quiet, Same
<1>11. Next => Requests \/ Retold \/ Touched \/ Chained \/ Begun \/ WriteEnds \/ WriteErrs \/ Restarts \/ Quiet
  BY <1>2, <1>3, <1>4, <1>5, <1>6, <1>7, <1>8, <1>9, <1>10 DEF Next, Retold
<1>. QED  BY <1>1, <1>11

(***************************************************************************)
(* What the steps of the store do to its copies.                            *)
(***************************************************************************)
LEMMA QueueTail ==
  ASSUME NEW s \in Seq(Owner), s # <<>>
  PROVE  /\ Head(s) = s[1] /\ s[1] \in Owner /\ Tail(s) \in Seq(Owner)
         /\ Len(s) \in Nat \ {0} /\ Len(Tail(s)) = Len(s) - 1
         /\ \A i \in 1..Len(Tail(s)) : Tail(s)[i] = s[i + 1] /\ i + 1 \in 1..Len(s)
         /\ Tail(s) # <<>> <=> Len(s) > 1
<1>1. /\ Head(s) = s[1] /\ Tail(s) \in Seq(Owner) /\ Len(Tail(s)) = Len(s) - 1
      /\ \A i \in 1..Len(Tail(s)) : Tail(s)[i] = s[i + 1]
  BY HeadTailProperties
<1>2. Len(s) \in Nat \ {0} /\ Len(Tail(s)) \in Nat
  BY <1>1, EmptySeq, LenProperties
<1>3. s[1] \in Owner
  BY <1>2, ElementOfSeq
<1>4. \A i \in 1..Len(Tail(s)) : i + 1 \in 1..Len(s)
  BY <1>1, <1>2
<1>5. Tail(s) # <<>> <=> Len(Tail(s)) # 0
  BY <1>1, EmptySeq
<1>. QED  BY <1>1, <1>2, <1>3, <1>4, <1>5

(* An owner that was not in the queue joins it. *)
LEMMA QueueJoined ==
  ASSUME StoreTypes, NEW o \in Owner, phase[o] # "queued",
         queue' = Append(queue, o), phase' = [phase EXCEPT ![o] = "queued"], writing' = writing
  PROVE  QueueWellFormed' /\ queue' \in Seq(Owner) /\ (writing => queue'[1] = queue[1])
<1>1. queue \in Seq(Owner) /\ phase \in [Owner -> Phases] /\ QueueWellFormed
  BY DEF StoreTypes
<1>2. /\ queue' \in Seq(Owner) /\ queue' # <<>> /\ Len(queue') = Len(queue) + 1
      /\ \A i \in 1..Len(queue) : queue'[i] = queue[i]
      /\ queue'[Len(queue) + 1] = o
  BY <1>1, AppendProperties, EmptySeq
<1>3. Len(queue) \in Nat /\ \A i \in 1..Len(queue) : queue[i] \in Owner
  BY <1>1
<1>4. \A i \in 1..Len(queue) : queue[i] # o
  BY <1>1 DEF QueueWellFormed
<1>5. \A i \in 1..Len(queue') : phase'[queue'[i]] = "queued"
  BY <1>1, <1>2, <1>3, <1>4 DEF QueueWellFormed
<1>6. ASSUME NEW p \in Owner, phase'[p] = "queued" PROVE \E i \in 1..Len(queue') : queue'[i] = p
  <2>1. CASE p = o
    <3>1. Len(queue) + 1 \in 1..Len(queue')
      BY <1>2, <1>3
    <3>. QED  BY <1>2, <2>1, <3>1
  <2>2. CASE p # o
    <3>1. PICK i \in 1..Len(queue) : queue[i] = p
      BY <1>1, <1>6, <2>2 DEF QueueWellFormed
    <3>. QED  BY <1>2, <1>3, <3>1
  <2>. QED  BY <2>1, <2>2
<1>7. \A i, j \in 1..Len(queue') : queue'[i] = queue'[j] => i = j
  BY <1>1, <1>2, <1>3, <1>4 DEF QueueWellFormed
<1>8. writing => queue'[1] = queue[1]
  <2>1. writing => queue # <<>>
    BY <1>1 DEF QueueWellFormed
  <2>2. queue # <<>> => 1 \in 1..Len(queue)
    BY <1>1, QueueTail
  <2>. QED  BY <1>2, <2>1, <2>2
<1>. QED  BY <1>2, <1>5, <1>6, <1>7, <1>8 DEF QueueWellFormed

LEMMA CommitStore ==
  ASSUME StoreTypes, NEW o \in Owner, NEW content, Content(content), Commit(o, content)
  PROVE  /\ StoreTypes' /\ ~Pending(o)
         /\ \A p \in Owner : Pending(p)' <=> (Pending(p) \/ p = o)
         /\ \A p \in Owner : Latest(p)' <=> p = o
         /\ state' = content /\ before'[o] = state /\ \A p \in Owner \ {o} : before'[p] = before[p]
         /\ file' = file /\ writing' = writing /\ image' = image /\ overlapped' = overlapped
         /\ Copies' \subseteq Copies \cup {content}
         /\ \A r \in Owner \ {o} : Carriers(r)' \subseteq Carriers(r) \cup {content}
         /\ Carriers(o)' \subseteq {content} \cup (IF writing /\ queue[1] = o THEN {image} ELSE {})
<1>1. /\ ~Pending(o) /\ before' = [before EXCEPT ![o] = state] /\ state' = content
      /\ stale' = (stale \cup {p \in Owner : Pending(p)}) \ {o}
      /\ file' = file /\ writing' = writing /\ image' = image /\ overlapped' = overlapped
      /\ \/ queue' = queue /\ phase' = [phase EXCEPT ![o] = "edited"]
         \/ queue' = Append(queue, o) /\ phase' = [phase EXCEPT ![o] = "queued"]
  BY DEF Commit
<1>2. /\ Content(state) /\ before = [p \in Owner |-> before[p]] /\ \A p \in Owner : Content(before[p])
      /\ phase \in [Owner -> Phases] /\ queue \in Seq(Owner) /\ QueueWellFormed
  BY DEF StoreTypes
<1>3. phase[o] \notin {"edited", "queued"}
  BY <1>1 DEF Pending
<1>4. /\ QueueWellFormed' /\ queue' \in Seq(Owner) /\ (writing => queue'[1] = queue[1])
  <2>1. CASE queue' = queue /\ phase' = [phase EXCEPT ![o] = "edited"]
    BY <1>1, <1>2, <1>3, <2>1 DEF QueueWellFormed
  <2>2. CASE queue' = Append(queue, o) /\ phase' = [phase EXCEPT ![o] = "queued"]
    BY <1>1, <1>3, <2>2, QueueJoined
  <2>. QED  BY <1>1, <2>1, <2>2
<1>5. phase' \in [Owner -> Phases] /\ \A p \in Owner : Pending(p)' <=> (Pending(p) \/ p = o)
  BY <1>1, <1>2 DEF Phases, Pending
<1>6. /\ before'[o] = state /\ \A p \in Owner \ {o} : before'[p] = before[p]
      /\ before' = [p \in Owner |-> before'[p]]
  BY <1>1, <1>2
<1>7. \A p \in Owner : Content(before[p])'
  <2>1. ASSUME NEW p \in Owner PROVE Content(before'[p])
    BY <1>2, <1>6
  <2>. QED  BY <2>1 DEF Content
<1>8. Content(state)' /\ Content(file)' /\ Content(image)'
  <2>1. Content(file) /\ Content(image)
    BY DEF StoreTypes
  <2>. QED  BY <1>1, <2>1 DEF Content
<1>9. StoreTypes'
  <2>1. writing' \in BOOLEAN
    BY <1>1 DEF StoreTypes
  <2>. QED  BY <1>4, <1>5, <1>6, <1>7, <1>8, <2>1 DEF StoreTypes
<1>10. \A p \in Owner : Latest(p)' <=> p = o
  BY <1>1, <1>5 DEF Latest
<1>11. Copies' \subseteq Copies \cup {content}
  BY <1>1, <1>6, <1>10 DEF Copies
<1>12. \A r \in Owner \ {o} : Carriers(r)' \subseteq Carriers(r) \cup {content}
  BY <1>1, <1>4, <1>6, <1>10 DEF Carriers
<1>13. Carriers(o)' \subseteq {content} \cup (IF writing /\ queue[1] = o THEN {image} ELSE {})
  BY <1>1, <1>4, <1>10 DEF Carriers
<1>. QED  BY <1>1, <1>5, <1>6, <1>9, <1>10, <1>11, <1>12, <1>13

LEMMA ChainStore ==
  ASSUME StoreTypes, NEW o \in Owner, ChainWrite(o)
  PROVE  /\ StoreTypes'
         /\ \A p \in Owner : (Pending(p)' <=> Pending(p)) /\ (Latest(p)' <=> Latest(p))
         /\ state' = state /\ file' = file /\ image' = image /\ before' = before /\ writing' = writing /\ overlapped' = overlapped
         /\ Copies' = Copies /\ \A r \in Owner : Carriers(r)' = Carriers(r)
<1>1. /\ phase[o] = "edited" /\ phase' = [phase EXCEPT ![o] = "queued"] /\ queue' = Append(queue, o)
      /\ state' = state /\ file' = file /\ image' = image /\ before' = before /\ writing' = writing
      /\ stale' = stale /\ overlapped' = overlapped
  BY DEF ChainWrite
<1>2. phase \in [Owner -> Phases] /\ queue \in Seq(Owner) /\ QueueWellFormed
  BY DEF StoreTypes
<1>3. QueueWellFormed' /\ queue' \in Seq(Owner) /\ (writing => queue'[1] = queue[1])
  BY <1>1, QueueJoined
<1>4. phase' \in [Owner -> Phases] /\ \A p \in Owner : Pending(p)' <=> Pending(p)
  BY <1>1, <1>2 DEF Phases, Pending
<1>5. \A p \in Owner : Latest(p)' <=> Latest(p)
  BY <1>1, <1>4 DEF Latest
<1>6. StoreTypes'
  BY <1>1, <1>3, <1>4 DEF StoreTypes, Content
<1>7. Copies' = Copies
  BY <1>1, <1>5 DEF Copies
<1>8. \A r \in Owner : Carriers(r)' = Carriers(r)
  BY <1>1, <1>3, <1>5 DEF Carriers
<1>. QED  BY <1>1, <1>4, <1>5, <1>6, <1>7, <1>8

LEMMA SerialiseStore ==
  ASSUME StoreTypes, Serialise
  PROVE  /\ StoreTypes'
         /\ \A p \in Owner : (Pending(p)' <=> Pending(p)) /\ (Latest(p)' <=> Latest(p))
         /\ state' = state /\ file' = file /\ before' = before /\ image' = state /\ overlapped' = overlapped
         /\ Copies' \subseteq Copies /\ \A r \in Owner : Carriers(r)' \subseteq Carriers(r)
<1>1. /\ queue # <<>> /\ writing' = TRUE /\ image' = state
      /\ state' = state /\ file' = file /\ queue' = queue /\ before' = before /\ phase' = phase /\ stale' = stale /\ overlapped' = overlapped
  BY DEF Serialise
<1>2. \A p \in Owner : (Pending(p)' <=> Pending(p)) /\ (Latest(p)' <=> Latest(p))
  BY <1>1 DEF Pending, Latest
<1>3. QueueWellFormed'
  BY <1>1 DEF StoreTypes, QueueWellFormed
<1>4. StoreTypes'
  BY <1>1, <1>3 DEF StoreTypes, Content
<1>5. Copies' \subseteq Copies
  BY <1>1, <1>2 DEF Copies
<1>6. \A r \in Owner : Carriers(r)' \subseteq Carriers(r)
  BY <1>1, <1>2 DEF Carriers
<1>. QED  BY <1>1, <1>2, <1>4, <1>5, <1>6

LEMMA ReloadStore ==
  ASSUME StoreTypes, NEW content, Content(content), Reload(content)
  PROVE  /\ StoreTypes' /\ \A p \in Owner : ~Pending(p)' /\ ~Latest(p)'
         /\ state' = content /\ file' = file /\ image' = image /\ before' = before /\ overlapped' = overlapped /\ writing' = FALSE
         /\ Copies' = {content, file}
<1>1. /\ state' = content /\ queue' = <<>> /\ writing' = FALSE /\ stale' = {}
      /\ phase' = [o \in Owner |-> IF Pending(o) THEN "lost" ELSE phase[o]]
      /\ file' = file /\ image' = image /\ before' = before /\ overlapped' = overlapped
  BY DEF Reload
<1>2. phase' \in [Owner -> Phases] /\ \A p \in Owner : ~Pending(p)' /\ ~Latest(p)' /\ phase'[p] # "queued"
  BY <1>1 DEF StoreTypes, Phases, Pending, Latest
<1>3. Len(queue') = 0 /\ queue' \in Seq(Owner)
  BY <1>1, EmptySeq
<1>4. QueueWellFormed'
  BY <1>1, <1>2, <1>3 DEF QueueWellFormed
<1>5. StoreTypes'
  BY <1>1, <1>2, <1>3, <1>4 DEF StoreTypes, Content
<1>6. Copies' = {content, file}
  BY <1>1, <1>2 DEF Copies
<1>. QED  BY <1>1, <1>2, <1>5, <1>6

(* The end of the write of the head of the queue. *)
LEMMA SettleStore ==
  ASSUME StoreTypes, NEW ok \in BOOLEAN, Settle(ok, image)
  PROVE  /\ writing /\ queue # <<>> /\ queue[1] \in Owner /\ Head(queue) = queue[1] /\ Pending(queue[1])
         /\ StoreTypes'
         /\ \A p \in Owner : Pending(p)' <=> (Pending(p) /\ p # queue[1])
         /\ \A p \in Owner : Latest(p)' <=> (Latest(p) /\ p # queue[1])
         /\ before' = before
         /\ file' = IF ok THEN image ELSE file
         /\ state' = IF ~ok /\ queue[1] \in Guarded THEN before[queue[1]] ELSE state
         /\ overlapped' <=> (overlapped \/ (~ok /\ queue[1] \in Guarded /\ queue[1] \in stale))
         /\ writing' => image' = state /\ queue'[1] \in Owner /\ queue'[1] # queue[1]
<1>1. queue \in Seq(Owner) /\ phase \in [Owner -> Phases] /\ QueueWellFormed
  BY DEF StoreTypes
<1>2. writing /\ queue # <<>>
  BY <1>1 DEF QueueWellFormed, Settle
<1>3. /\ Head(queue) = queue[1] /\ queue[1] \in Owner /\ Tail(queue) \in Seq(Owner)
      /\ Len(queue) \in Nat \ {0} /\ Len(Tail(queue)) = Len(queue) - 1
      /\ \A i \in 1..Len(Tail(queue)) : Tail(queue)[i] = queue[i + 1] /\ i + 1 \in 1..Len(queue)
      /\ Tail(queue) # <<>> <=> Len(queue) > 1
  BY <1>1, <1>2, QueueTail
<1>. DEFINE h == queue[1]
<1>4. /\ file' = (IF ok THEN image ELSE file)
      /\ queue' = Tail(queue)
      /\ writing' = (Tail(queue) # <<>>)
      /\ image' = (IF Tail(queue) # <<>> THEN state ELSE image)
      /\ state' = (IF ~ok /\ h \in Guarded THEN before[h] ELSE state)
      /\ phase' = [phase EXCEPT ![h] = IF ok THEN "saved" ELSE "failed"]
      /\ stale' = stale \ {h}
      /\ overlapped' = (overlapped \/ (~ok /\ h \in Guarded /\ h \in stale))
      /\ before' = before
  BY <1>3, Zenon DEF Settle
<1>5. 1 \in 1..Len(queue) /\ phase[h] = "queued" /\ Pending(h)
  BY <1>1, <1>3 DEF QueueWellFormed, Pending
<1>. HIDE DEF h
<1>6. \A i \in 1..Len(queue') : queue'[i] = queue[i + 1] /\ i + 1 \in 1..Len(queue) /\ queue'[i] \in Owner /\ queue'[i] # h
  <2>1. \A i \in 1..Len(queue') : queue'[i] = queue[i + 1] /\ i + 1 \in 1..Len(queue) /\ i + 1 # 1
    BY <1>3, <1>4
  <2>2. \A i \in 1..Len(queue) : queue[i] \in Owner /\ (queue[i] = h => i = 1)
    BY <1>1, <1>5, ElementOfSeq DEF QueueWellFormed, h
  <2>. QED  BY <2>1, <2>2
<1>7. \A p \in Owner : phase'[p] = IF p = h THEN (IF ok THEN "saved" ELSE "failed") ELSE phase[p]
  BY <1>1, <1>4
<1>8. \A p \in Owner : Pending(p)' <=> (Pending(p) /\ p # h)
  BY <1>7 DEF Pending
<1>9. \A p \in Owner : Latest(p)' <=> (Latest(p) /\ p # h)
  BY <1>4, <1>8 DEF Latest
<1>10. QueueWellFormed'
  <2>1. \A i \in 1..Len(queue') : phase'[queue'[i]] = "queued"
    BY <1>1, <1>6, <1>7 DEF QueueWellFormed
  <2>2. ASSUME NEW p \in Owner, phase'[p] = "queued" PROVE \E i \in 1..Len(queue') : queue'[i] = p
    <3>1. p # h /\ phase[p] = "queued"
      BY <1>7, <2>2
    <3>2. PICK k \in 1..Len(queue) : queue[k] = p
      BY <1>1, <3>1 DEF QueueWellFormed
    <3>3. k # 1
      BY <3>1, <3>2 DEF h
    <3>4. k - 1 \in 1..Len(queue') /\ (k - 1) + 1 = k
      BY <1>3, <1>4, <3>2, <3>3
    <3>. QED  BY <1>6, <3>2, <3>4
  <2>3. \A i, j \in 1..Len(queue') : queue'[i] = queue'[j] => i = j
    <3>1. ASSUME NEW i \in 1..Len(queue'), NEW j \in 1..Len(queue'), queue'[i] = queue'[j] PROVE i + 1 = j + 1
      BY <1>1, <1>6, <3>1 DEF QueueWellFormed
    <3>2. \A i, j \in 1..Len(queue') : i + 1 = j + 1 => i = j
      OBVIOUS
    <3>. QED  BY <3>1, <3>2
  <2>4. writing' => queue' # <<>>
    BY <1>4
  <2>. QED  BY <2>1, <2>2, <2>3, <2>4 DEF QueueWellFormed
<1>11. StoreTypes'
  <2>1. phase' \in [Owner -> Phases]
    BY <1>1, <1>4 DEF Phases
  <2>2. queue' \in Seq(Owner) /\ writing' \in BOOLEAN
    BY <1>3, <1>4
  <2>3. state' \in {state, before[h]} /\ file' \in {file, image} /\ image' \in {state, image}
    BY <1>4
  <2>4. h \in Owner
    BY <1>3 DEF h
  <2>5. Content(state)' /\ Content(file)' /\ Content(image)'
    <3>1. Content(state) /\ Content(file) /\ Content(image) /\ Content(before[h])
      BY <2>4 DEF StoreTypes
    <3>2. Content(state') /\ Content(file') /\ Content(image')
      BY <2>3, <3>1
    <3>. QED  BY <3>2 DEF Content
  <2>6. before' = [o \in Owner |-> before'[o]] /\ \A o \in Owner : Content(before[o])'
    BY <1>4 DEF StoreTypes, Content
  <2>. QED  BY <1>10, <2>1, <2>2, <2>5, <2>6 DEF StoreTypes
<1>12. writing' => image' = state /\ queue'[1] \in Owner /\ queue'[1] # h
  <2>0. (writing' => Tail(queue) # <<>>) /\ queue' = Tail(queue)
    BY <1>4
  <2>1. writing' => Len(queue') \in Nat \ {0}
    BY <1>3, <2>0
  <2>2. writing' => 1 \in 1..Len(queue')
    BY <2>1
  <2>. QED  BY <1>4, <1>6, <2>2
<1>. QED  BY <1>2, <1>3, <1>4, <1>5, <1>8, <1>9, <1>11, <1>12 DEF h

LEMMA DoneStore ==
  ASSUME StoreTypes, WriteDone
  PROVE  /\ Copies' \subseteq Copies /\ Copies' \subseteq Carriers(queue[1])
         /\ \A r \in Owner \ {queue[1]} : Carriers(r)' \subseteq Carriers(r)
         /\ state' = state /\ file' = image /\ (overlapped' <=> overlapped)
<1>1. TRUE \in BOOLEAN /\ Settle(TRUE, image)
  BY DEF WriteDone
<1>2. /\ writing /\ state' = state /\ file' = image /\ before' = before /\ (overlapped' <=> overlapped)
      /\ \A p \in Owner : Latest(p)' <=> (Latest(p) /\ p # queue[1])
      /\ writing' => image' = state
  BY <1>1, SettleStore
<1>3. Copies' \subseteq Copies
  BY <1>2 DEF Copies
<1>4. Copies' \subseteq Carriers(queue[1])
  BY <1>2 DEF Copies, Carriers
<1>5. \A r \in Owner \ {queue[1]} : Carriers(r)' \subseteq Carriers(r)
  BY <1>2 DEF Carriers
<1>. QED  BY <1>2, <1>3, <1>4, <1>5

LEMMA FailedStore ==
  ASSUME StoreTypes, WriteFailed
  PROVE  /\ file' = file /\ (~overlapped' => ~overlapped)
         /\ queue[1] \notin Guarded => state' = state
         /\ queue[1] \in Guarded => state' = before[queue[1]]
         /\ ~overlapped' /\ queue[1] \in Guarded => Latest(queue[1])
         /\ ~overlapped' => Copies' \subseteq Copies /\ \A r \in Owner \ {queue[1]} : Carriers(r)' \subseteq Carriers(r)
<1>1. FALSE \in BOOLEAN /\ Settle(FALSE, image)
  BY DEF WriteFailed
<1>2. /\ queue[1] \in Owner /\ Pending(queue[1])
      /\ state' = (IF queue[1] \in Guarded THEN before[queue[1]] ELSE state) /\ file' = file /\ before' = before
      /\ overlapped' <=> (overlapped \/ (queue[1] \in Guarded /\ queue[1] \in stale))
      /\ \A p \in Owner : Latest(p)' <=> (Latest(p) /\ p # queue[1])
      /\ writing' => image' = state
  BY <1>1, SettleStore
<1>3. ~overlapped' /\ queue[1] \in Guarded => Latest(queue[1])
  BY <1>2 DEF Latest
<1>4. ~overlapped' => Copies' \subseteq Copies
  BY <1>2, <1>3 DEF Copies
<1>5. ~overlapped' => \A r \in Owner \ {queue[1]} : Carriers(r)' \subseteq Carriers(r)
  BY <1>2, <1>3 DEF Carriers
<1>. QED  BY <1>2, <1>3, <1>4, <1>5

(***************************************************************************)
(* Answers.                                                                 *)
(***************************************************************************)
\* What the end of the write of the head answers.
AnsweredBy == IF queue[1] = Other THEN Nothing ELSE asked[queue[1]]

Told(k, q) == IF q.key = k THEN trail.told[k] \cup {q.id} ELSE trail.told[k]
EditsOf(a, q) == IF q.what = "edit" /\ q.id = a THEN Append(trail.edits[a], q.expected) ELSE trail.edits[a]
GoneWith(q) == IF q.what = "remove" THEN trail.gone \cup {q.id} ELSE trail.gone

SameHistory == trail'.unsure = trail.unsure /\ trail'.replaced = trail.replaced /\ trail'.leaving = trail.leaving /\ trail'.names = trail.names

LEMMA NothingIs == Nothing \in Questions /\ Nothing.what = "none" /\ Nothing.key = "none"
BY DEF Nothing, Questions

LEMMA AnsweredIs ==
  ASSUME Typed, queue[1] \in Owner
  PROVE  /\ AnsweredBy \in Questions
         /\ AnsweredBy.what # "none" => queue[1] \in Request /\ AnsweredBy = asked[queue[1]] /\ AnsweredBy.id \in Automation
         /\ AnsweredBy.key # "none" => AnsweredBy.what = "create"
         /\ AnsweredBy.what = "remove" => AnsweredBy.id \in trail.leaving
<1>1. CASE queue[1] = Other
  BY <1>1, NothingIs DEF AnsweredBy
<1>2. CASE queue[1] # Other
  <2>1. queue[1] \in Request
    BY <1>2 DEF Request
  <2>2. AnsweredBy = asked[queue[1]]
    BY <1>2 DEF AnsweredBy
  <2>. QED  BY <2>1, <2>2 DEF Typed, AskedTypes
<1>. QED  BY <1>1, <1>2

LEMMA EndsTrail ==
  ASSUME Typed, WriteEnds
  PROVE  /\ TrailTypes' /\ SameHistory
         /\ \A k \in Key : trail'.told[k] = Told(k, AnsweredBy)
         /\ \A a \in Automation : trail'.edits[a] = EditsOf(a, AnsweredBy)
         /\ trail'.gone = GoneWith(AnsweredBy)
<1>. DEFINE q == AnsweredBy
<1>1. StoreTypes /\ TRUE \in BOOLEAN /\ Settle(TRUE, image)
  BY DEF WriteEnds, WriteDone, Typed
<1>2. queue[1] \in Owner /\ Head(queue) = queue[1]
  BY <1>1, SettleStore
<1>3. trail' = CASE q.key # "none" -> [trail EXCEPT !.told[q.key] = @ \cup {q.id}]
                 [] q.what = "edit" -> [trail EXCEPT !.edits[q.id] = Append(@, q.expected)]
                 [] q.what = "remove" -> [trail EXCEPT !.gone = @ \cup {q.id}]
                 [] OTHER -> trail
  BY <1>2 DEF WriteEnds, AnsweredBy
<1>4. /\ q \in Questions /\ (q.what # "none" => q.id \in Automation)
      /\ (q.key # "none" => q.what = "create") /\ (q.what = "remove" => q.id \in trail.leaving)
  BY <1>2, AnsweredIs
<1>. HIDE DEF q
<1>5. q.expected \in Nat /\ q.key \in Key \cup {"none"}
  BY <1>4 DEF Questions
<1>6. /\ trail = [made |-> trail.made, names |-> trail.names, told |-> trail.told, unsure |-> trail.unsure, edits |-> trail.edits,
                  leaving |-> trail.leaving, gone |-> trail.gone, replaced |-> trail.replaced]
      /\ trail.told \in [Key -> SUBSET Automation] /\ trail.edits \in [Automation -> Seq(Nat)] /\ trail.gone \subseteq Automation \cap trail.leaving
      /\ trail.made \in Nat
  BY DEF Typed, TrailTypes
<1>7. CASE q.key # "none"
  <2>. DEFINE told == [trail.told EXCEPT ![q.key] = @ \cup {q.id}]
  <2>1. told \in [Key -> SUBSET Automation] /\ \A k \in Key : told[k] = Told(k, q)
    BY <1>4, <1>5, <1>6, <1>7 DEF Told
  <2>0. trail' = [trail EXCEPT !.told[q.key] = @ \cup {q.id}]
    BY <1>3, <1>4, <1>7
  <2>2. trail' = [trail EXCEPT !.told = told]
    BY <2>0
  <2>. HIDE DEF told
  <2>3. trail' = [made |-> trail.made, names |-> trail.names, told |-> told, unsure |-> trail.unsure, edits |-> trail.edits,
                  leaving |-> trail.leaving, gone |-> trail.gone, replaced |-> trail.replaced]
    BY <1>6, <2>2
  <2>4. TrailTypes' /\ SameHistory
    BY <1>6, <2>1, <2>3 DEF TrailTypes, SameHistory
  <2>5. \A a \in Automation : trail'.edits[a] = EditsOf(a, q)
    BY <1>4, <1>7, <2>3 DEF EditsOf
  <2>6. trail'.gone = GoneWith(q)
    BY <1>4, <1>7, <2>3 DEF GoneWith
  <2>. QED  BY <2>1, <2>3, <2>4, <2>5, <2>6 DEF q
<1>8. CASE q.key = "none" /\ q.what = "edit"
  <2>. DEFINE edits == [trail.edits EXCEPT ![q.id] = Append(@, q.expected)]
  <2>1. edits \in [Automation -> Seq(Nat)] /\ \A a \in Automation : edits[a] = EditsOf(a, q)
    BY <1>4, <1>5, <1>6, <1>8 DEF EditsOf
  <2>2. trail' = [trail EXCEPT !.edits = edits]
    BY <1>3, <1>8
  <2>. HIDE DEF edits
  <2>3. trail' = [made |-> trail.made, names |-> trail.names, told |-> trail.told, unsure |-> trail.unsure, edits |-> edits,
                  leaving |-> trail.leaving, gone |-> trail.gone, replaced |-> trail.replaced]
    BY <1>6, <2>2
  <2>4. TrailTypes' /\ SameHistory
    BY <1>6, <2>1, <2>3 DEF TrailTypes, SameHistory
  <2>5. \A k \in Key : trail'.told[k] = Told(k, q)
    BY <1>8, <2>3, KeysAssumption DEF Told
  <2>6. trail'.gone = GoneWith(q)
    BY <1>8, <2>3 DEF GoneWith
  <2>. QED  BY <2>1, <2>3, <2>4, <2>5, <2>6 DEF q
<1>9. CASE q.key = "none" /\ q.what = "remove"
  <2>1. trail' = [trail EXCEPT !.gone = @ \cup {q.id}]
    BY <1>3, <1>9
  <2>2. trail' = [made |-> trail.made, names |-> trail.names, told |-> trail.told, unsure |-> trail.unsure, edits |-> trail.edits,
                  leaving |-> trail.leaving, gone |-> trail.gone \cup {q.id}, replaced |-> trail.replaced]
    BY <1>6, <2>1
  <2>3. TrailTypes' /\ SameHistory
    BY <1>4, <1>6, <1>9, <2>2 DEF TrailTypes, SameHistory
  <2>4. \A k \in Key : trail'.told[k] = Told(k, q)
    BY <1>9, <2>2, KeysAssumption DEF Told
  <2>5. \A a \in Automation : trail'.edits[a] = EditsOf(a, q)
    BY <1>9, <2>2 DEF EditsOf
  <2>6. trail'.gone = GoneWith(q)
    BY <1>9, <2>2 DEF GoneWith
  <2>. QED  BY <2>3, <2>4, <2>5, <2>6 DEF q
<1>10. CASE q.key = "none" /\ q.what \notin {"edit", "remove"}
  <2>1. trail' = trail
    BY <1>3, <1>10
  <2>2. TrailTypes' /\ SameHistory
    BY <2>1 DEF Typed, TrailTypes, SameHistory
  <2>3. \A k \in Key : trail'.told[k] = Told(k, q)
    BY <1>10, <2>1, KeysAssumption DEF Told
  <2>4. \A a \in Automation : trail'.edits[a] = EditsOf(a, q)
    BY <1>10, <2>1 DEF EditsOf
  <2>5. trail'.gone = GoneWith(q)
    BY <1>10, <2>1 DEF GoneWith
  <2>. QED  BY <2>2, <2>3, <2>4, <2>5 DEF q
<1>. QED  BY <1>7, <1>8, <1>9, <1>10

LEMMA RetoldTrail ==
  ASSUME Typed, NEW k \in Key, NEW wish, CreatedBefore(k, wish)
  PROVE  \E e \in Range(state.keys) :
           /\ e.key = k /\ e.id \in Automation
           /\ TrailTypes' /\ TrailGrows
           /\ trail'.replaced = trail.replaced /\ trail'.leaving = trail.leaving /\ trail'.names = trail.names
           /\ trail'.edits = trail.edits /\ trail'.gone = trail.gone
           /\ \A j \in Key : trail'.told[j] = IF j = k THEN trail.told[k] \cup {e.id} ELSE trail.told[j]
           /\ (\E r \in Request : asked[r].key = k) => k \in trail'.unsure
           /\ UNCHANGED storeVars /\ asked' = asked
<1>. DEFINE U == IF \E r \in Request : asked[r].key = k THEN trail.unsure \cup {k} ELSE trail.unsure
<1>1. PICK e \in Entries(k) : trail' = [trail EXCEPT !.told[k] = @ \cup {e.id}, !.unsure = U]
  BY DEF CreatedBefore
<1>2. e \in Range(state.keys) /\ e.key = k
  BY DEF Entries
<1>3. e.id \in Automation
  <2>1. state.keys \in Seq(Entry)
    BY DEF Typed, StoreTypes, Content
  <2>2. e \in Entry
    BY <1>2, <2>1 DEF Range
  <2>. QED  BY <2>2 DEF Entry
<1>4. /\ trail = [made |-> trail.made, names |-> trail.names, told |-> trail.told, unsure |-> trail.unsure, edits |-> trail.edits,
                  leaving |-> trail.leaving, gone |-> trail.gone, replaced |-> trail.replaced]
      /\ trail.told \in [Key -> SUBSET Automation] /\ trail.edits \in [Automation -> Seq(Nat)] /\ trail.gone \subseteq Automation \cap trail.leaving
      /\ trail.made \in Nat
  BY DEF Typed, TrailTypes
<1>. DEFINE told == [trail.told EXCEPT ![k] = @ \cup {e.id}]
            t == [trail EXCEPT !.told = told]
<1>5. told \in [Key -> SUBSET Automation] /\ \A j \in Key : told[j] = IF j = k THEN trail.told[k] \cup {e.id} ELSE trail.told[j]
  BY <1>3, <1>4
<1>6. trail.unsure \subseteq U /\ ((\E r \in Request : asked[r].key = k) => k \in U)
  OBVIOUS
<1>. HIDE DEF U
<1>7. trail' = [t EXCEPT !.unsure = U]
  BY <1>1
<1>. HIDE DEF told
<1>8. t = [made |-> trail.made, names |-> trail.names, told |-> told, unsure |-> trail.unsure, edits |-> trail.edits,
           leaving |-> trail.leaving, gone |-> trail.gone, replaced |-> trail.replaced]
  BY <1>4
<1>. HIDE DEF t
<1>9. trail' = [made |-> trail.made, names |-> trail.names, told |-> told, unsure |-> U, edits |-> trail.edits,
                leaving |-> trail.leaving, gone |-> trail.gone, replaced |-> trail.replaced]
  BY <1>7, <1>8
<1>10. TrailTypes' /\ TrailGrows
  BY <1>4, <1>5, <1>6, <1>9 DEF TrailTypes, TrailGrows
<1>11. UNCHANGED storeVars /\ asked' = asked
  BY DEF CreatedBefore
<1>. QED  BY <1>2, <1>3, <1>5, <1>6, <1>9, <1>10, <1>11

(***************************************************************************)
(* Types, names and old files.                                              *)
(***************************************************************************)
LEMMA BlankIs == Blank = [autos |-> [a \in Automation |-> NoAutomation], triggers |-> {}, actions |-> {}, keys |-> <<>>, rules |-> {}, old |-> FALSE]
BY DEF Blank

LEMMA FourReplaced ==
  ASSUME NEW c, c = [autos |-> c.autos, triggers |-> c.triggers, actions |-> c.actions, keys |-> c.keys, rules |-> c.rules, old |-> c.old],
         NEW A, NEW T, NEW X, NEW R
  PROVE  [c EXCEPT !.autos = A, !.triggers = T, !.actions = X, !.rules = R]
           = [autos |-> A, triggers |-> T, actions |-> X, keys |-> c.keys, rules |-> R, old |-> c.old]
<1>. DEFINE b1 == [c EXCEPT !.autos = A]
            b2 == [b1 EXCEPT !.triggers = T]
            b3 == [b2 EXCEPT !.actions = X]
<1>1. [c EXCEPT !.autos = A, !.triggers = T, !.actions = X, !.rules = R] = [b3 EXCEPT !.rules = R]
  OBVIOUS
<1>2. b1 = [autos |-> A, triggers |-> c.triggers, actions |-> c.actions, keys |-> c.keys, rules |-> c.rules, old |-> c.old]
  OBVIOUS
<1>. HIDE DEF b1
<1>3. b2 = [autos |-> A, triggers |-> T, actions |-> c.actions, keys |-> c.keys, rules |-> c.rules, old |-> c.old]
  BY <1>2
<1>. HIDE DEF b2
<1>4. b3 = [autos |-> A, triggers |-> T, actions |-> X, keys |-> c.keys, rules |-> c.rules, old |-> c.old]
  BY <1>3
<1>. HIDE DEF b3
<1>5. [b3 EXCEPT !.rules = R] = [autos |-> A, triggers |-> T, actions |-> X, keys |-> c.keys, rules |-> R, old |-> c.old]
  BY <1>4
<1>. QED  BY <1>1, <1>5

LEMMA LoadIs ==
  ASSUME NEW c, Content(c)
  PROVE  /\ Content(Load(c)) /\ ~Load(c).old /\ Load(Load(c)) = Load(c)
         /\ ~c.old => Load(c) = c
         /\ c.old => Load(c).keys = <<>>
<1>1. CASE ~c.old
  BY <1>1 DEF Load
<1>2. CASE c.old
  <2>. DEFINE moved == c.rules \cap Native
              wish == CHOOSE w \in Wish : TRUE
              A == [a \in Automation |-> IF a \in moved THEN [revision |-> 1, enabled |-> TRUE, made |-> 0] ELSE NoAutomation]
              T == {[id |-> <<0, a>>, of |-> a, made |-> 0] : a \in moved}
              X == UNION {{[id |-> <<0, a, id>>, of |-> a, control |-> id, value |-> wish[id], made |-> 0] : id \in DOMAIN wish} : a \in moved}
              R == c.rules \ Native
  <2>1. Load(c) = [Blank EXCEPT !.autos = A, !.triggers = T, !.actions = X, !.rules = R]
    BY <1>2 DEF Load, Migrated
  <2>2. A \in [Automation -> Record]
    BY DEF Record, NoAutomation
  <2>. HIDE DEF A, T, X, R
  <2>3. Blank = [autos |-> Blank.autos, triggers |-> Blank.triggers, actions |-> Blank.actions, keys |-> Blank.keys, rules |-> Blank.rules, old |-> Blank.old]
        /\ Blank.keys = <<>> /\ Blank.old = FALSE
    BY BlankIs
  <2>. DEFINE l == Load(c)
  <2>4. l = [Blank EXCEPT !.autos = A, !.triggers = T, !.actions = X, !.rules = R]
    BY <2>1
  <2>. HIDE DEF l
  <2>5. l = [autos |-> A, triggers |-> T, actions |-> X, keys |-> Blank.keys, rules |-> R, old |-> Blank.old]
    BY <2>3, <2>4, FourReplaced
  <2>8. l = [autos |-> A, triggers |-> T, actions |-> X, keys |-> <<>>, rules |-> R, old |-> FALSE]
    BY <2>3, <2>5
  <2>9. l.autos = A /\ l.keys = <<>> /\ l.old = FALSE
        /\ l = [autos |-> l.autos, triggers |-> l.triggers, actions |-> l.actions, keys |-> l.keys, rules |-> l.rules, old |-> l.old]
    BY <2>8
  <2>10. <<>> \in Seq(Entry) /\ Range(<<>>) = {}
    BY EmptySeq DEF Range
  <2>11. Content(l)
    BY <2>2, <2>9, <2>10 DEF Content
  <2>12. Load(l) = l
    BY <2>9 DEF Load
  <2>. QED  BY <1>2, <2>9, <2>11, <2>12 DEF l
<1>3. c.old \in BOOLEAN
  BY DEF Content
<1>. QED  BY <1>1, <1>2, <1>3

(* The store of a step, and what is asked after it. *)
LEMMA EndsAsked ==
  ASSUME Typed, NEW ok \in BOOLEAN, Settle(ok, image), Answer(Head(queue))
  PROVE  /\ queue[1] \in Owner
         /\ \A r \in Request : asked'[r] = IF r = queue[1] THEN Nothing ELSE asked[r]
         /\ trail'.leaving = trail.leaving => AskedTypes'
<1>1. /\ StoreTypes /\ AskedTypes
  BY DEF Typed
<1>2. /\ queue[1] \in Owner /\ Head(queue) = queue[1]
      /\ \A p \in Owner : Pending(p)' <=> (Pending(p) /\ p # queue[1])
  BY <1>1, SettleStore
<1>3. asked' = [r \in Request |-> IF r = queue[1] THEN Nothing ELSE asked[r]]
  BY <1>2 DEF Answer
<1>4. \A r \in Request : r \in Owner
  BY DEF Request
<1>5. ASSUME trail'.leaving = trail.leaving PROVE AskedTypes'
  <2>1. asked' \in [Request -> Questions]
    BY <1>1, <1>3, NothingIs DEF AskedTypes
  <2>2. ASSUME NEW r \in Request
        PROVE  /\ asked'[r].what # "none" => Pending(r)' /\ asked'[r].id \in Automation
               /\ asked'[r].key # "none" => asked'[r].what = "create"
               /\ asked'[r].what = "remove" => asked'[r].id \in trail'.leaving
    <3>1. CASE r = queue[1]
      BY <1>3, <3>1, NothingIs
    <3>2. CASE r # queue[1]
      BY <1>1, <1>2, <1>3, <1>4, <1>5, <3>2 DEF AskedTypes
    <3>. QED  BY <3>1, <3>2
  <2>. QED  BY <2>1, <2>2 DEF AskedTypes
<1>. QED  BY <1>2, <1>3, <1>5

LEMMA TypedStays ==
  ASSUME Typed, Aged, Named, [Next]_vars
  PROVE  Typed'
<1>0. StoreTypes /\ TrailTypes /\ AskedTypes /\ \A r \in Request : r \in Owner
  BY DEF Typed, Request
<1>1. ASSUME NEW r \in Request, NEW content, NEW q, Demands(r, content, q) PROVE Typed'
  <2>1. /\ Content(content) /\ Commit(r, content) /\ TrailTypes' /\ TrailGrows /\ Question(q)
        /\ asked' = [asked EXCEPT ![r] = q]
    BY <1>1 DEF Demands
  <2>2. StoreTypes' /\ \A p \in Owner : Pending(p)' <=> (Pending(p) \/ p = r)
    BY <1>0, <2>1, CommitStore
  <2>3. AskedTypes'
    <3>1. asked' \in [Request -> Questions]
      BY <1>0, <2>1 DEF AskedTypes, Question
    <3>2. ASSUME NEW s \in Request
          PROVE  /\ asked'[s].what # "none" => Pending(s)' /\ asked'[s].id \in Automation
                 /\ asked'[s].key # "none" => asked'[s].what = "create"
                 /\ asked'[s].what = "remove" => asked'[s].id \in trail'.leaving
      <4>1. CASE s = r
        BY <1>0, <2>1, <2>2, <4>1 DEF AskedTypes, Question
      <4>2. CASE s # r
        BY <1>0, <2>1, <2>2, <4>2 DEF AskedTypes, TrailGrows
      <4>. QED  BY <4>1, <4>2
    <3>. QED  BY <3>1, <3>2 DEF AskedTypes
  <2>. QED  BY <2>1, <2>2, <2>3 DEF Typed
<1>2. ASSUME NEW k \in Key, NEW wish \in Wish, CreatedBefore(k, wish) PROVE Typed'
  <2>1. TrailTypes' /\ trail'.leaving = trail.leaving /\ UNCHANGED storeVars /\ asked' = asked
    BY <1>2, RetoldTrail
  <2>. QED  BY <1>0, <2>1 DEF Typed, storeVars, StoreTypes, Content, QueueWellFormed, AskedTypes, Pending
<1>3. ASSUME NEW o \in Owner, Commit(o, state), Same PROVE Typed'
  <2>1. StoreTypes' /\ \A p \in Owner : Pending(p)' <=> (Pending(p) \/ p = o)
    <3>1. Content(state)
      BY <1>0 DEF StoreTypes
    <3>. QED  BY <1>0, <1>3, <3>1, CommitStore
  <2>. QED  BY <1>0, <1>3, <2>1 DEF Same, Typed, AskedTypes, TrailTypes
<1>4. ASSUME NEW o \in Owner, ChainWrite(o), Same PROVE Typed'
  <2>1. StoreTypes' /\ \A p \in Owner : Pending(p)' <=> Pending(p)
    BY <1>0, <1>4, ChainStore
  <2>. QED  BY <1>0, <1>4, <2>1 DEF Same, Typed, AskedTypes, TrailTypes
<1>5. ASSUME Begun PROVE Typed'
  <2>1. StoreTypes' /\ \A p \in Owner : Pending(p)' <=> Pending(p)
    BY <1>0, <1>5, SerialiseStore DEF Begun
  <2>. QED  BY <1>0, <1>5, <2>1 DEF Begun, Same, Typed, AskedTypes, TrailTypes
<1>6. ASSUME WriteEnds PROVE Typed'
  <2>1. TRUE \in BOOLEAN /\ Settle(TRUE, image) /\ Answer(Head(queue))
    BY <1>6 DEF WriteEnds, WriteDone
  <2>2. TrailTypes' /\ trail'.leaving = trail.leaving
    BY <1>6, EndsTrail DEF SameHistory
  <2>3. StoreTypes'
    BY <1>0, <2>1, SettleStore
  <2>4. AskedTypes'
    BY <2>1, <2>2, EndsAsked
  <2>. QED  BY <2>2, <2>3, <2>4 DEF Typed
<1>7. ASSUME WriteErrs PROVE Typed'
  <2>1. FALSE \in BOOLEAN /\ Settle(FALSE, image) /\ Answer(Head(queue)) /\ trail' = trail
    BY <1>7 DEF WriteErrs, WriteFailed
  <2>3. StoreTypes'
    BY <1>0, <2>1, SettleStore
  <2>4. AskedTypes'
    BY <2>1, EndsAsked
  <2>. QED  BY <1>0, <2>1, <2>3, <2>4 DEF Typed, TrailTypes
<1>8. ASSUME Restarts PROVE Typed'
  <2>1. Reload(Load(file)) /\ asked' = [r \in Request |-> Nothing] /\ trail' = trail
    BY <1>8 DEF Restarts
  <2>2. Content(Load(file))
    BY <1>0, LoadIs DEF StoreTypes
  <2>3. StoreTypes'
    BY <1>0, <2>1, <2>2, ReloadStore
  <2>4. AskedTypes'
    BY <2>1, NothingIs DEF AskedTypes
  <2>. QED  BY <1>0, <2>1, <2>3, <2>4 DEF Typed, TrailTypes
<1>9. ASSUME Quiet PROVE Typed'
  BY <1>0, <1>9 DEF Quiet, Same, storeVars, Typed, StoreTypes, Content, QueueWellFormed, AskedTypes, TrailTypes, Pending
<1>. QED  BY <1>1, <1>2, <1>3, <1>4, <1>5, <1>6, <1>7, <1>8, <1>9, StepKinds DEF Requests, Retold, Touched, Chained

LEMMA AgedStays ==
  ASSUME Typed, Aged, Named, [Next]_vars
  PROVE  Aged'
<1>0. StoreTypes /\ TrailTypes /\ (\A r \in Request : r \in Owner) /\ Content(state) /\ Content(file)
  BY DEF Typed, StoreTypes, Request
<1>1. ASSUME NEW r \in Request, NEW content, NEW q, Demands(r, content, q) PROVE Aged'
  <2>1. Content(content) /\ ~content.old /\ Commit(r, content) /\ SameAnswers
    BY <1>1 DEF Demands
  <2>2. /\ \A p \in Owner : Pending(p)' <=> (Pending(p) \/ p = r)
        /\ state' = content /\ before'[r] = state /\ \A p \in Owner \ {r} : before'[p] = before[p]
        /\ file' = file /\ writing' = writing /\ image' = image
    BY <1>0, <2>1, CommitStore
  <2>3. \A p \in Owner : Pending(p)' => ~before'[p].old
    <3>1. ASSUME NEW p \in Owner, Pending(p)' PROVE ~before'[p].old
      <4>1. CASE p = r
        BY <2>2, <4>1 DEF Aged
      <4>2. CASE p # r
        BY <2>2, <3>1, <4>2 DEF Aged
      <4>. QED  BY <4>1, <4>2
    <3>. QED  BY <3>1
  <2>. QED  BY <2>1, <2>2, <2>3 DEF Aged, SameAnswers
<1>2. ASSUME NEW k \in Key, NEW wish \in Wish, CreatedBefore(k, wish) PROVE Aged'
  <2>1. trail'.edits = trail.edits /\ trail'.gone = trail.gone /\ UNCHANGED storeVars
    BY <1>2, RetoldTrail
  <2>. QED  BY <2>1 DEF Aged, storeVars, Pending
<1>3. ASSUME NEW o \in Owner, Commit(o, state), Same PROVE Aged'
  <2>1. /\ \A p \in Owner : Pending(p)' <=> (Pending(p) \/ p = o)
        /\ state' = state /\ before'[o] = state /\ \A p \in Owner \ {o} : before'[p] = before[p]
        /\ file' = file /\ writing' = writing /\ image' = image
    BY <1>0, <1>3, CommitStore
  <2>2. \A p \in Owner : Pending(p)' => ~before'[p].old
    <3>1. ASSUME NEW p \in Owner, Pending(p)' PROVE ~before'[p].old
      <4>1. CASE p = o
        BY <2>1, <4>1 DEF Aged
      <4>2. CASE p # o
        BY <2>1, <3>1, <4>2 DEF Aged
      <4>. QED  BY <4>1, <4>2
    <3>. QED  BY <3>1
  <2>. QED  BY <1>3, <2>1, <2>2 DEF Aged, Same
<1>4. ASSUME NEW o \in Owner, ChainWrite(o), Same PROVE Aged'
  <2>1. /\ \A p \in Owner : Pending(p)' <=> Pending(p)
        /\ state' = state /\ file' = file /\ image' = image /\ before' = before /\ writing' = writing
    BY <1>0, <1>4, ChainStore
  <2>. QED  BY <1>4, <2>1 DEF Aged, Same
<1>5. ASSUME Begun PROVE Aged'
  <2>1. /\ \A p \in Owner : Pending(p)' <=> Pending(p)
        /\ state' = state /\ file' = file /\ image' = state /\ before' = before
    BY <1>0, <1>5, SerialiseStore DEF Begun
  <2>. QED  BY <1>5, <2>1 DEF Begun, Aged, Same
<1>6. ASSUME WriteEnds PROVE Aged'
  <2>1. TRUE \in BOOLEAN /\ Settle(TRUE, image)
    BY <1>6 DEF WriteEnds, WriteDone
  <2>2. /\ \A p \in Owner : Pending(p)' <=> (Pending(p) /\ p # queue[1])
        /\ writing /\ state' = state /\ file' = image /\ before' = before /\ (writing' => image' = state)
    BY <1>0, <2>1, SettleStore
  <2>. QED  BY <2>2 DEF Aged
<1>7. ASSUME WriteErrs PROVE Aged'
  <2>1. FALSE \in BOOLEAN /\ Settle(FALSE, image) /\ trail' = trail
    BY <1>7 DEF WriteErrs, WriteFailed
  <2>2. /\ queue[1] \in Owner /\ Pending(queue[1])
        /\ \A p \in Owner : Pending(p)' <=> (Pending(p) /\ p # queue[1])
        /\ state' \in {state, before[queue[1]]} /\ file' = file /\ before' = before /\ (writing' => image' = state)
    BY <1>0, <2>1, SettleStore
  <2>. QED  BY <2>1, <2>2 DEF Aged
<1>8. ASSUME Restarts PROVE Aged'
  <2>1. Reload(Load(file)) /\ trail' = trail
    BY <1>8 DEF Restarts
  <2>2. Content(Load(file)) /\ ~Load(file).old
    BY <1>0, LoadIs
  <2>3. (\A p \in Owner : ~Pending(p)') /\ state' = Load(file) /\ file' = file /\ writing' = FALSE
    BY <1>0, <2>1, <2>2, ReloadStore
  <2>. QED  BY <2>1, <2>2, <2>3 DEF Aged
<1>9. ASSUME Quiet PROVE Aged'
  BY <1>9 DEF Quiet, Same, storeVars, Aged, Pending
<1>. QED  BY <1>1, <1>2, <1>3, <1>4, <1>5, <1>6, <1>7, <1>8, <1>9, StepKinds DEF Requests, Retold, Touched, Chained

(* Contents that were known stay known, and no others are there. *)
LEMMA KnownStays ==
  ASSUME Named, trail.names \subseteq trail'.names,
         Known(state)', Known(file)', Known(image)',
         \A o \in Owner : before'[o] \in {state, before[o]},
         \A r \in Request : asked'[r].what \in {"edit", "remove"} => asked'[r].id \in trail'.names,
         \A a \in Automation : trail'.edits[a] # <<>> \/ a \in trail'.gone => a \in trail'.names
  PROVE  Named'
<1>1. ASSUME NEW o \in Owner PROVE Known(before[o])'
  <2>1. \A a \in Automation : Live(Load(before'[o]), a) => a \in trail.names
    BY DEF Named, Known
  <2>. QED  BY <2>1 DEF Known, Load, Live, Migrated, Blank
<1>. QED  BY <1>1 DEF Named

LEMMA NamedStays ==
  ASSUME Typed, Aged, Named, [Next]_vars
  PROVE  Named'
<1>0. StoreTypes /\ TrailTypes /\ AskedTypes /\ (\A r \in Request : r \in Owner) /\ Content(state) /\ Content(file)
  BY DEF Typed, StoreTypes, Request
<1>1. ASSUME NEW r \in Request, NEW content, NEW q, Demands(r, content, q) PROVE Named'
  <2>1. /\ Content(content) /\ ~content.old /\ Commit(r, content) /\ SameAnswers /\ Question(q) /\ trail.names \subseteq trail'.names
        /\ \A a \in Automation : Live(content, a) => a \in trail'.names
        /\ asked' = [asked EXCEPT ![r] = q]
    BY <1>1 DEF Demands, TrailGrows
  <2>2. /\ state' = content /\ before'[r] = state /\ \A p \in Owner \ {r} : before'[p] = before[p]
        /\ file' = file /\ image' = image
    BY <1>0, <2>1, CommitStore
  <2>3. Load(content) = content
    BY <2>1 DEF Load
  <2>4. Known(state)' /\ Known(file)' /\ Known(image)'
    BY <2>1, <2>2, <2>3 DEF Known, Named, Load, Live, Migrated, Blank
  <2>5. \A s \in Request : asked'[s].what \in {"edit", "remove"} => asked'[s].id \in trail'.names
    BY <1>0, <2>1 DEF Named, AskedTypes, Question
  <2>. QED  BY <2>1, <2>2, <2>4, <2>5, KnownStays DEF SameAnswers, Named
<1>2. ASSUME NEW k \in Key, NEW wish \in Wish, CreatedBefore(k, wish) PROVE Named'
  <2>1. trail'.edits = trail.edits /\ trail'.gone = trail.gone /\ trail'.names = trail.names /\ UNCHANGED storeVars /\ asked' = asked
    BY <1>2, RetoldTrail
  <2>. QED  BY <2>1 DEF Named, storeVars, Known, Load, Live, Migrated, Blank
<1>3. ASSUME NEW o \in Owner, Commit(o, state), Same PROVE Named'
  <2>1. /\ state' = state /\ before'[o] = state /\ \A p \in Owner \ {o} : before'[p] = before[p]
        /\ file' = file /\ image' = image
    BY <1>0, <1>3, CommitStore
  <2>2. Known(state)' /\ Known(file)' /\ Known(image)'
    BY <1>3, <2>1 DEF Same, Known, Named, Load, Live, Migrated, Blank
  <2>3. /\ trail' = trail /\ asked' = asked
        /\ \A p \in Owner : before'[p] \in {state, before[p]}
    BY <1>3, <2>1 DEF Same
  <2>. QED  BY <2>2, <2>3, KnownStays DEF Named
<1>4. ASSUME NEW o \in Owner, ChainWrite(o), Same PROVE Named'
  <2>1. state' = state /\ file' = file /\ image' = image /\ before' = before
    BY <1>0, <1>4, ChainStore
  <2>. QED  BY <1>4, <2>1 DEF Named, Same, Known, Load, Live, Migrated, Blank
<1>5. ASSUME Begun PROVE Named'
  <2>1. state' = state /\ file' = file /\ image' = state /\ before' = before
    BY <1>0, <1>5, SerialiseStore DEF Begun
  <2>. QED  BY <1>5, <2>1 DEF Begun, Named, Same, Known, Load, Live, Migrated, Blank
<1>6. ASSUME WriteEnds PROVE Named'
  <2>1. TRUE \in BOOLEAN /\ Settle(TRUE, image) /\ Answer(Head(queue))
    BY <1>6 DEF WriteEnds, WriteDone
  <2>2. /\ queue[1] \in Owner /\ state' = state /\ file' = image /\ before' = before
    BY <1>0, <2>1, SettleStore
  <2>3. image' \in {state, image}
    BY <2>1 DEF Settle
  <2>4. /\ SameHistory /\ (\A a \in Automation : trail'.edits[a] = EditsOf(a, AnsweredBy)) /\ trail'.gone = GoneWith(AnsweredBy)
    BY <1>6, EndsTrail
  <2>5. AnsweredBy.what \in {"edit", "remove"} => AnsweredBy.id \in trail.names
    BY <2>2, AnsweredIs DEF Named
  <2>6. Known(state)' /\ Known(file)' /\ Known(image)'
    BY <2>2, <2>3, <2>4 DEF SameHistory, Known, Named, Load, Live, Migrated, Blank
  <2>7. \A r \in Request : asked'[r] \in {Nothing, asked[r]}
    BY <2>1, EndsAsked
  <2>8. \A r \in Request : asked'[r].what \in {"edit", "remove"} => asked'[r].id \in trail'.names
    BY <2>4, <2>7, NothingIs DEF SameHistory, Named
  <2>9. \A a \in Automation : trail'.edits[a] # <<>> \/ a \in trail'.gone => a \in trail'.names
    <3>1. ASSUME NEW a \in Automation, trail'.edits[a] # <<>> PROVE a \in trail.names
      BY <2>4, <2>5, <3>1 DEF EditsOf, Named
    <3>2. ASSUME NEW a \in Automation, a \in trail'.gone PROVE a \in trail.names
      BY <2>4, <2>5, <3>2 DEF GoneWith, Named
    <3>. QED  BY <2>4, <3>1, <3>2 DEF SameHistory
  <2>10. \A o \in Owner : before'[o] \in {state, before[o]}
    BY <2>2
  <2>11. trail.names \subseteq trail'.names
    BY <2>4 DEF SameHistory
  <2>. QED  BY <2>6, <2>8, <2>9, <2>10, <2>11, KnownStays
<1>7. ASSUME WriteErrs PROVE Named'
  <2>1. FALSE \in BOOLEAN /\ Settle(FALSE, image) /\ Answer(Head(queue)) /\ trail' = trail
    BY <1>7 DEF WriteErrs, WriteFailed
  <2>2. queue[1] \in Owner /\ state' \in {state, before[queue[1]]} /\ file' = file /\ before' = before
    BY <1>0, <2>1, SettleStore
  <2>3. image' \in {state, image}
    BY <2>1 DEF Settle
  <2>4. Known(state)' /\ Known(file)' /\ Known(image)'
    BY <2>1, <2>2, <2>3 DEF Known, Named, Load, Live, Migrated, Blank
  <2>5. \A r \in Request : asked'[r] \in {Nothing, asked[r]}
    BY <2>1, EndsAsked
  <2>6. \A r \in Request : asked'[r].what \in {"edit", "remove"} => asked'[r].id \in trail'.names
    BY <2>1, <2>5, NothingIs DEF Named
  <2>7. /\ trail.names \subseteq trail'.names /\ \A o \in Owner : before'[o] \in {state, before[o]}
        /\ \A a \in Automation : trail'.edits[a] # <<>> \/ a \in trail'.gone => a \in trail'.names
    BY <2>1, <2>2 DEF Named
  <2>. QED  BY <2>4, <2>6, <2>7, KnownStays
<1>8. ASSUME Restarts PROVE Named'
  <2>1. Reload(Load(file)) /\ trail' = trail /\ asked' = [r \in Request |-> Nothing]
    BY <1>8 DEF Restarts
  <2>2. Content(Load(file)) /\ Load(Load(file)) = Load(file)
    BY <1>0, LoadIs
  <2>3. state' = Load(file) /\ file' = file /\ image' = image /\ before' = before
    BY <1>0, <2>1, <2>2, ReloadStore
  <2>. DEFINE l == Load(file)
  <2>4. Load(l) = l /\ state' = l /\ \A a \in Automation : Live(l, a) => a \in trail.names
    BY <2>2, <2>3 DEF Named, Known
  <2>. HIDE DEF l
  <2>5. Known(state)'
    BY <2>1, <2>4 DEF Known, Load, Live, Migrated, Blank
  <2>6. Known(file)' /\ Known(image)'
    BY <2>1, <2>3 DEF Known, Named, Load, Live, Migrated, Blank
  <2>7. \A r \in Request : asked'[r].what \in {"edit", "remove"} => asked'[r].id \in trail'.names
    BY <2>1, NothingIs
  <2>8. /\ trail.names \subseteq trail'.names /\ \A o \in Owner : before'[o] \in {state, before[o]}
        /\ \A a \in Automation : trail'.edits[a] # <<>> \/ a \in trail'.gone => a \in trail'.names
    BY <2>1, <2>3 DEF Named
  <2>. QED  BY <2>5, <2>6, <2>7, <2>8, KnownStays
<1>9. ASSUME Quiet PROVE Named'
  BY <1>9 DEF Quiet, Same, storeVars, Named, Known, Load, Live, Migrated, Blank
<1>. QED  BY <1>1, <1>2, <1>3, <1>4, <1>5, <1>6, <1>7, <1>8, <1>9, StepKinds DEF Requests, Retold, Touched, Chained

(***************************************************************************)
(* What a request has done stays in the contents.                           *)
(***************************************************************************)
LEMMA HoldsGrow ==
  ASSUME TrailGrows, NEW c, NEW q, Holds(trail, c, q)
  PROVE  Holds(trail', c, q)
BY DEF TrailGrows, Holds, EditHolds

LEMMA KeptStays ==
  ASSUME TrailGrows, NEW q, Kept(q), Copies' \subseteq Copies
  PROVE  Kept(q)'
BY HoldsGrow DEF Kept

LEMMA AwaitingStays ==
  ASSUME TrailGrows, NEW r, Awaiting(r), Carriers(r)' \subseteq Carriers(r), asked'[r] = asked[r]
  PROVE  Awaiting(r)'
<1>1. ASSUME NEW c \in Carriers(r)' PROVE Holds(trail', c, asked'[r])
  BY HoldsGrow DEF Awaiting
<1>. QED  BY <1>1 DEF Awaiting

LEMMA SeenAnywhere ==
  /\ state \in Copies /\ file \in Copies
  /\ \A r : state \in Carriers(r)
BY DEF Copies, Carriers

LEMMA AnswerIs ==
  /\ \A k, id : Created(k, id).what = "create" /\ Created(k, id).id = id /\ Created(k, id).key = k
  /\ \A a, n : Edited(a, n).what = "edit" /\ Edited(a, n).id = a /\ Edited(a, n).key = "none" /\ Edited(a, n).expected = n
  /\ \A a : Gone(a).what = "remove" /\ Gone(a).id = a /\ Gone(a).key = "none"
BY DEF Created, Edited, Gone

LEMMA AnsweredNamed ==
  ASSUME Typed, Named
  PROVE  /\ \A a \in Automation : \A n \in Range(trail.edits[a]) : n \in Nat /\ a \in trail.names
         /\ \A a \in trail.gone : a \in Automation => a \in trail.names /\ a \in trail.leaving
<1>1. \A a \in Automation : trail.edits[a] \in Seq(Nat)
  BY DEF Typed, TrailTypes
<1>2. ASSUME NEW a \in Automation, NEW n \in Range(trail.edits[a]) PROVE n \in Nat /\ trail.edits[a] # <<>>
  <2>1. PICK i \in DOMAIN trail.edits[a] : n = trail.edits[a][i]
    BY DEF Range
  <2>2. trail.edits[a] # <<>>
    BY <1>1, <2>1, EmptySeq
  <2>. QED  BY <1>1, <2>1, <2>2
<1>. QED  BY <1>2 DEF Named, Typed, TrailTypes

(* The new content has what was done before, and what the request does. *)
LEMMA ContentHolds ==
  ASSUME Typed, Named, NEW r, NEW content, NEW q, Demands(r, content, q)
  PROVE  /\ Holds(trail', content, q)
         /\ \A p : /\ Holds(trail, state, p)
                   /\ p.what \in {"edit", "remove"} => p.id \in Automation /\ p.id \in trail.names
                   /\ p.what = "edit" => p.expected \in Nat
                   => Holds(trail', content, p)
<1>1. /\ TrailGrows /\ Question(q) /\ Content(content) /\ KeysGrow(content, q) /\ Revisions(content, q)
  BY DEF Demands
<1>2. \A a \in Automation : Rev(state, a) \in Nat /\ Rev(content, a) \in Nat
  BY <1>1 DEF Typed, StoreTypes, Content, Record, Rev
<1>3. Holds(trail', content, q)
  <2>1. q.what \in {"edit", "remove"} /\ q.id \notin trail'.replaced => Revises(content, q, q.id) \/ Deletes(content, q, q.id)
    BY <1>1 DEF Question, Revisions
  <2>2. q.what = "edit" /\ q.id \notin trail'.replaced => q.expected < Rev(content, q.id)
    BY <1>1, <1>2, <2>1 DEF Question, Revises, Deletes
  <2>3. q.what = "remove" /\ q.id \notin trail'.replaced => Rev(content, q.id) = 0
    BY <2>1 DEF Revises, Deletes
  <2>. QED  BY <1>1, <2>2, <2>3 DEF Holds, EditHolds, KeysGrow
<1>4. ASSUME NEW p, Holds(trail, state, p), p.what \in {"edit", "remove"} => p.id \in Automation /\ p.id \in trail.names,
             p.what = "edit" => p.expected \in Nat
      PROVE  Holds(trail', content, p)
  <2>1. ASSUME p.key # "none", p.key \notin trail'.unsure PROVE KeyHolds(content, p.key, p.id)
    BY <1>1, <1>4, <2>1 DEF TrailGrows, Holds, KeyHolds, KeysGrow
  <2>2. ASSUME p.what = "edit", p.id \notin trail'.replaced PROVE EditHolds(trail', content, p.id, p.expected)
    <3>1. EditHolds(trail, state, p.id, p.expected)
      BY <1>1, <1>4, <2>2 DEF TrailGrows, Holds
    <3>2. \/ Revises(content, q, p.id)
          \/ Deletes(content, q, p.id) /\ p.id \in trail'.leaving
          \/ Rev(content, p.id) = Rev(state, p.id)
      BY <1>1, <1>4, <2>2 DEF Revisions, Question, Deletes
    <3>. QED  BY <1>1, <1>2, <1>4, <2>2, <3>1, <3>2 DEF TrailGrows, EditHolds, Revises, Deletes
  <2>3. ASSUME p.what = "remove", p.id \notin trail'.replaced PROVE Rev(content, p.id) = 0
    <3>1. Rev(state, p.id) = 0
      BY <1>1, <1>4, <2>3 DEF TrailGrows, Holds
    <3>2. \/ Revises(content, q, p.id) \/ Deletes(content, q, p.id)
          \/ Rev(content, p.id) = Rev(state, p.id)
      BY <1>1, <1>4, <2>3 DEF Revisions
    <3>. QED  BY <3>1, <3>2 DEF Revises, Deletes
  <2>. QED  BY <2>1, <2>2, <2>3 DEF Holds
<1>. QED  BY <1>3, <1>4

(***************************************************************************)
(* Each kind of step.                                                       *)
(***************************************************************************)
(* Steps that change nothing of what is asked and answered, or in memory. *)
LEMMA LessLasting ==
  ASSUME Lasting, Same, state' = state, before' = before, Copies' \subseteq Copies,
         \A r \in Owner : Carriers(r)' \subseteq Carriers(r), \A o \in Owner : Latest(o)' => Latest(o)
  PROVE  Lasting'
<1>0. trail' = trail /\ asked' = asked /\ TrailGrows /\ \A r \in Request : r \in Owner
  BY DEF Same, TrailGrows, Request
<1>1. OneLatest'
  BY DEF Lasting, OneLatest
<1>2. \A q : Kept(q) => Kept(q)'
  BY <1>0, KeptStays
<1>3. PendingHold'
  BY <1>0, AwaitingStays DEF Lasting, PendingHold
<1>4. AnswersHold'
  BY <1>0, <1>2 DEF Lasting, AnswersHold
<1>5. EntriesHold'
  BY <1>0, <1>2 DEF Lasting, EntriesHold
<1>6. RollsBack'
  BY <1>0 DEF Lasting, RollsBack
<1>7. EditsDiffer'
  BY <1>0 DEF Lasting, EditsDiffer
<1>. QED  BY <1>1, <1>3, <1>4, <1>5, <1>6, <1>7 DEF Lasting

LEMMA RequestsLasting ==
  ASSUME Typed, Named, Lasting, NEW r \in Request, NEW content, NEW q, Demands(r, content, q)
  PROVE  Lasting'
<1>1. /\ Content(content) /\ Commit(r, content) /\ asked' = [asked EXCEPT ![r] = q]
      /\ TrailGrows /\ SameAnswers /\ Question(q) /\ KeysGrow(content, q) /\ Revisions(content, q)
  BY DEF Demands
<1>2. /\ StoreTypes /\ (\A s \in Request : s \in Owner /\ asked[s] \in Questions) /\ asked \in [Request -> Questions]
      /\ \A s \in Request : (asked[s].what # "none" => Pending(s)) /\ (asked[s].key # "none" => asked[s].what = "create")
  BY DEF Typed, AskedTypes, Request
<1>3. /\ ~Pending(r)
      /\ \A p \in Owner : Latest(p)' <=> p = r
      /\ state' = content /\ before'[r] = state
      /\ Copies' \subseteq Copies \cup {content}
      /\ \A s \in Owner \ {r} : Carriers(s)' \subseteq Carriers(s) \cup {content}
      /\ Carriers(r)' \subseteq {content} \cup (IF writing /\ queue[1] = r THEN {image} ELSE {})
  BY <1>1, <1>2, CommitStore
<1>4. ~(writing /\ queue[1] = r)
  <2>1. writing => queue # <<>> /\ queue \in Seq(Owner)
    BY <1>2 DEF StoreTypes, QueueWellFormed
  <2>2. writing => 1 \in 1..Len(queue)
    BY <2>1, QueueTail
  <2>3. writing => Pending(queue[1])
    BY <1>2, <2>2 DEF StoreTypes, QueueWellFormed, Pending
  <2>. QED  BY <1>3, <2>3
<1>5. asked'[r] = q /\ \A s \in Request \ {r} : asked'[s] = asked[s]
  BY <1>1, <1>2
<1>6. asked[r].what = "none" /\ asked[r].key = "none"
  BY <1>2, <1>3
<1>7. ASSUME NEW p, Kept(p), p.what \in {"edit", "remove"} => p.id \in Automation /\ p.id \in trail.names, p.what = "edit" => p.expected \in Nat
      PROVE  Kept(p)'
  <2>1. Holds(trail', content, p)
    BY <1>7, ContentHolds, SeenAnywhere DEF Kept
  <2>2. \A c \in Copies : Holds(trail', c, p)
    BY <1>1, <1>7, HoldsGrow DEF Kept
  <2>. QED  BY <1>3, <2>1, <2>2 DEF Kept
<1>8. PendingHold'
  <2>1. ASSUME NEW s \in Request, asked'[s].what # "none", NEW c \in Carriers(s)' PROVE Holds(trail', c, asked'[s])
    <3>1. CASE s = r
      BY <1>3, <1>4, <1>5, <2>1, <3>1, ContentHolds
    <3>2. CASE s # r
      <4>1. asked'[s] = asked[s] /\ s \in Owner /\ \A d \in Carriers(s) : Holds(trail, d, asked[s])
        BY <1>2, <1>5, <2>1, <3>2 DEF Lasting, PendingHold, Awaiting
      <4>2. /\ asked[s].what \in {"edit", "remove"} => asked[s].id \in Automation /\ asked[s].id \in trail.names
            /\ asked[s].expected \in Nat
        BY <1>2, <2>1, <4>1 DEF Named, Typed, AskedTypes, Questions
      <4>3. Holds(trail', content, asked[s])
        BY <4>1, <4>2, ContentHolds, SeenAnywhere
      <4>4. c = content \/ c \in Carriers(s)
        BY <1>3, <2>1, <3>2, <4>1
      <4>. QED  BY <1>1, <4>1, <4>3, <4>4, HoldsGrow
    <3>. QED  BY <3>1, <3>2
  <2>. QED  BY <2>1 DEF PendingHold, Awaiting
<1>9. AnswersHold'
  <2>1. \A k \in Key : \A id \in trail.told[k] : Kept(Created(k, id))'
    BY <1>7, AnswerIs DEF Lasting, AnswersHold
  <2>2. \A a \in Automation : \A n \in Range(trail.edits[a]) : Kept(Edited(a, n))'
    BY <1>7, AnswerIs, AnsweredNamed DEF Lasting, AnswersHold
  <2>3. \A a \in trail.gone : Kept(Gone(a))'
    <3>1. ASSUME NEW a \in trail.gone, a \in Automation PROVE Kept(Gone(a))'
      BY <1>7, <3>1, AnswerIs, AnsweredNamed DEF Lasting, AnswersHold
    <3>2. \A a \in trail.gone : a \in Automation
      BY DEF Typed, TrailTypes
    <3>. QED  BY <3>1, <3>2
  <2>. QED  BY <1>1, <2>1, <2>2, <2>3 DEF AnswersHold, SameAnswers
<1>10. \A e \in Range(state.keys) : e \in Entry
  BY <1>2 DEF StoreTypes, Content, Range
<1>11. EntriesHold'
  <2>1. ASSUME NEW e \in Range(content.keys), e.key \notin trail'.unsure
        PROVE  (\E s \in Request : asked'[s].key = e.key) \/ Kept(Created(e.key, e.id))'
    <3>1. CASE e.key = q.key
      BY <1>5, <3>1
    <3>2. CASE e.key # q.key
      <4>1. e \in Range(state.keys) /\ e.key \notin trail.unsure /\ e.key # "none"
        BY <1>1, <1>10, <2>1, <3>2, KeysAssumption DEF KeysGrow, TrailGrows, Entry
      <4>2. CASE \E s \in Request : asked[s].key = e.key
        BY <1>5, <1>6, <4>1, <4>2
      <4>3. CASE Kept(Created(e.key, e.id))
        BY <1>7, <4>3, AnswerIs
      <4>. QED  BY <4>1, <4>2, <4>3 DEF Lasting, EntriesHold
    <3>. QED  BY <3>1, <3>2
  <2>. QED  BY <1>3, <2>1 DEF EntriesHold
<1>12. RollsBack'
  BY <1>1, <1>3, <1>5 DEF KeysGrow, RollsBack
<1>13. EditsDiffer'
  <2>1. \A a \in Automation \ trail'.replaced : a \in Automation \ trail.replaced
    BY <1>1 DEF TrailGrows
  <2>2. ASSUME NEW a \in Automation \ trail'.replaced, q.what = "edit", q.id = a
        PROVE  q.expected = Rev(state, a) /\ Rev(state, a) > 0 /\ Rev(state, a) \in Nat
    BY <1>1, <1>2, <2>2 DEF Revisions, Revises, Deletes, StoreTypes, Content, Record, Rev
  <2>3. ASSUME NEW a \in Automation \ trail'.replaced, q.what = "edit", q.id = a,
               NEW s \in Request \ {r}, asked[s].what = "edit", asked[s].id = a
        PROVE  asked[s].expected # q.expected
    <3>1. Holds(trail, state, asked[s])
      BY <2>3, SeenAnywhere DEF Lasting, PendingHold, Awaiting
    <3>2. EditHolds(trail, state, a, asked[s].expected)
      BY <2>1, <2>3, <3>1 DEF Holds
    <3>3. asked[s].expected \in Nat
      BY <1>2 DEF Questions
    <3>. QED  BY <2>2, <2>3, <3>2, <3>3 DEF EditHolds
  <2>4. ASSUME NEW a \in Automation \ trail'.replaced, q.what = "edit", q.id = a, NEW n \in Range(trail.edits[a])
        PROVE  n # q.expected
    <3>1. Holds(trail, state, Edited(a, n)) /\ n \in Nat
      BY SeenAnywhere, AnsweredNamed DEF Lasting, AnswersHold, Kept
    <3>2. EditHolds(trail, state, a, n)
      BY <2>1, <3>1, AnswerIs DEF Holds
    <3>. QED  BY <2>2, <2>4, <3>1, <3>2 DEF EditHolds
  <2>5. ASSUME NEW a \in Automation \ trail'.replaced, NEW s \in Request, NEW t \in Request, asked'[s].what = "edit", asked'[t].what = "edit",
               asked'[s].id = a, asked'[t].id = a, asked'[s].expected = asked'[t].expected
        PROVE  s = t
    <3>1. CASE s = r /\ t # r
      BY <1>5, <2>3, <2>5, <3>1
    <3>2. CASE s # r /\ t = r
      BY <1>5, <2>3, <2>5, <3>2
    <3>3. CASE s # r /\ t # r
      BY <1>5, <2>1, <2>5, <3>3 DEF Lasting, EditsDiffer
    <3>. QED  BY <3>1, <3>2, <3>3
  <2>6. ASSUME NEW a \in Automation \ trail'.replaced, NEW s \in Request, asked'[s].what = "edit", asked'[s].id = a
        PROVE  asked'[s].expected \notin Range(trail.edits[a])
    <3>1. CASE s = r
      BY <1>5, <2>4, <2>6, <3>1
    <3>2. CASE s # r
      BY <1>5, <2>1, <2>6, <3>2 DEF Lasting, EditsDiffer
    <3>. QED  BY <3>1, <3>2
  <2>7. \A a \in Automation \ trail'.replaced : IsInjective(trail.edits[a])
    BY <2>1 DEF Lasting, EditsDiffer
  <2>. QED  BY <1>1, <2>5, <2>6, <2>7 DEF EditsDiffer, SameAnswers
<1>14. OneLatest'
  BY <1>3 DEF OneLatest
<1>. QED  BY <1>8, <1>9, <1>11, <1>12, <1>13, <1>14 DEF Lasting

LEMMA RetoldLasting ==
  ASSUME Typed, Named, Lasting, NEW k \in Key, NEW wish, CreatedBefore(k, wish)
  PROVE  Lasting'
<1>1. PICK e \in Range(state.keys) :
        /\ e.key = k /\ e.id \in Automation
        /\ TrailTypes' /\ TrailGrows
        /\ trail'.replaced = trail.replaced /\ trail'.leaving = trail.leaving /\ trail'.names = trail.names
        /\ trail'.edits = trail.edits /\ trail'.gone = trail.gone
        /\ \A j \in Key : trail'.told[j] = IF j = k THEN trail.told[k] \cup {e.id} ELSE trail.told[j]
        /\ (\E r \in Request : asked[r].key = k) => k \in trail'.unsure
        /\ UNCHANGED storeVars /\ asked' = asked
  BY RetoldTrail
<1>2. /\ Copies' = Copies /\ (\A r : Carriers(r)' = Carriers(r)) /\ \A o : Latest(o)' <=> Latest(o)
  BY <1>1 DEF storeVars, Copies, Carriers, Latest, Pending
<1>3. \A q : Kept(q) => Kept(q)'
  BY <1>1, <1>2, KeptStays
<1>4. PendingHold'
  BY <1>1, <1>2, AwaitingStays DEF Lasting, PendingHold
<1>5. Kept(Created(k, e.id))'
  <2>1. CASE k \in trail'.unsure
    BY <2>1, AnswerIs DEF Kept, Holds
  <2>2. CASE k \notin trail'.unsure
    <3>1. k \notin trail.unsure
      BY <1>1, <2>2 DEF TrailGrows
    <3>2. Kept(Created(e.key, e.id))
      BY <1>1, <2>2, <3>1 DEF Lasting, EntriesHold
    <3>. QED  BY <1>1, <1>3, <3>2
  <2>. QED  BY <2>1, <2>2
<1>6. AnswersHold'
  <2>1. \A j \in Key : \A id \in trail'.told[j] : Kept(Created(j, id))'
    BY <1>1, <1>3, <1>5 DEF Lasting, AnswersHold
  <2>. QED  BY <1>1, <1>3, <2>1 DEF Lasting, AnswersHold
<1>7. EntriesHold' /\ RollsBack'
  BY <1>1, <1>2, <1>3 DEF Lasting, EntriesHold, RollsBack, TrailGrows, storeVars
<1>8. EditsDiffer' /\ OneLatest'
  BY <1>1, <1>2 DEF Lasting, EditsDiffer, OneLatest
<1>. QED  BY <1>4, <1>6, <1>7, <1>8 DEF Lasting

LEMMA TouchedLasting ==
  ASSUME Typed, Lasting, Commit(Other, state), Same
  PROVE  Lasting'
<1>0. Other \in Owner /\ Content(state) /\ StoreTypes /\ trail' = trail /\ asked' = asked /\ TrailGrows
  BY IdsAssumption DEF Typed, StoreTypes, Same, TrailGrows
<1>1. /\ \A p \in Owner : Latest(p)' <=> p = Other
      /\ state' = state /\ before'[Other] = state
      /\ Copies' \subseteq Copies \cup {state}
      /\ \A s \in Owner \ {Other} : Carriers(s)' \subseteq Carriers(s) \cup {state}
  BY <1>0, CommitStore
<1>2. Copies' \subseteq Copies /\ \A r \in Request : Carriers(r)' \subseteq Carriers(r)
  BY <1>1, SeenAnywhere DEF Request
<1>3. \A q : Kept(q) => Kept(q)'
  BY <1>0, <1>2, KeptStays
<1>4. PendingHold'
  BY <1>0, <1>2, AwaitingStays DEF Lasting, PendingHold
<1>5. AnswersHold' /\ EntriesHold' /\ EditsDiffer'
  BY <1>0, <1>1, <1>3 DEF Lasting, AnswersHold, EntriesHold, EditsDiffer
<1>6. RollsBack' /\ OneLatest'
  BY <1>1 DEF RollsBack, OneLatest, Request
<1>. QED  BY <1>4, <1>5, <1>6 DEF Lasting

LEMMA AppendedRange ==
  ASSUME NEW s \in Seq(Nat), NEW n \in Nat
  PROVE  /\ Range(Append(s, n)) = Range(s) \cup {n}
         /\ IsInjective(s) /\ n \notin Range(s) => IsInjective(Append(s, n))
<1>. DEFINE w == Append(s, n)
<1>1. /\ w \in Seq(Nat) /\ Len(w) = Len(s) + 1 /\ w[Len(s) + 1] = n
      /\ \A i \in 1..Len(s) : w[i] = s[i]
  BY AppendProperties
<1>2. Len(s) \in Nat /\ DOMAIN s = 1..Len(s) /\ DOMAIN w = 1..Len(w)
  BY <1>1, LenProperties
<1>. HIDE DEF w
<1>3. \A i \in DOMAIN w : (i \in DOMAIN s /\ w[i] = s[i]) \/ (i = Len(s) + 1 /\ w[i] = n)
  BY <1>1, <1>2
<1>4. DOMAIN s \subseteq DOMAIN w /\ Len(s) + 1 \in DOMAIN w
  BY <1>1, <1>2
<1>5. Range(w) = Range(s) \cup {n}
  <2>1. \A i \in DOMAIN w : w[i] \in Range(s) \cup {n}
    BY <1>3 DEF Range
  <2>2. \A i \in DOMAIN s : s[i] \in Range(w)
    BY <1>1, <1>2, <1>4 DEF Range
  <2>3. n \in Range(w)
    BY <1>1, <1>4 DEF Range
  <2>. QED  BY <2>1, <2>2, <2>3 DEF Range
<1>6. ASSUME IsInjective(s), n \notin Range(s) PROVE IsInjective(w)
  <2>1. \A i \in DOMAIN s : s[i] # n
    BY <1>6 DEF Range
  <2>. QED  BY <1>3, <1>6, <2>1 DEF IsInjective
<1>. QED  BY <1>5, <1>6 DEF w

LEMMA EndsLasting ==
  ASSUME Typed, Named, Lasting, WriteEnds
  PROVE  Lasting'
<1>. DEFINE h == queue[1]
            q == AnsweredBy
<1>1. /\ StoreTypes /\ WriteDone /\ TRUE \in BOOLEAN /\ Settle(TRUE, image) /\ Answer(Head(queue))
      /\ \A r \in Request : r \in Owner /\ asked[r] \in Questions
  BY DEF WriteEnds, WriteDone, Typed, AskedTypes, Request
<1>2. /\ h \in Owner /\ before' = before /\ state' = state
      /\ \A p \in Owner : Latest(p)' <=> (Latest(p) /\ p # h)
  BY <1>1, SettleStore
<1>3. /\ Copies' \subseteq Copies /\ Copies' \subseteq Carriers(h)
      /\ \A r \in Owner \ {h} : Carriers(r)' \subseteq Carriers(r)
  BY <1>1, DoneStore
<1>4. \A r \in Request : asked'[r] = IF r = h THEN Nothing ELSE asked[r]
  BY <1>1, EndsAsked
<1>5. /\ SameHistory
      /\ \A k \in Key : trail'.told[k] = Told(k, q)
      /\ \A a \in Automation : trail'.edits[a] = EditsOf(a, q)
      /\ trail'.gone = GoneWith(q)
  BY EndsTrail
<1>6. /\ q \in Questions
      /\ q.what # "none" => h \in Request /\ q = asked[h] /\ q.id \in Automation
      /\ q.key # "none" => q.what = "create"
  BY <1>2, AnsweredIs
<1>7. h \in Request => q = asked[h]
  BY DEF AnsweredBy, Request
<1>. HIDE DEF q, h
<1>8. TrailGrows
  BY <1>5 DEF SameHistory, TrailGrows
<1>9. \A p : Kept(p) => Kept(p)'
  BY <1>3, <1>8, KeptStays
<1>10. q.what # "none" => \A c \in Copies' : Holds(trail', c, q)
  BY <1>3, <1>6, <1>8, HoldsGrow DEF Lasting, PendingHold, Awaiting
<1>11. ASSUME NEW k, NEW id, k # "none", q.key = k, q.id = id PROVE Kept(Created(k, id))'
  BY <1>6, <1>10, <1>11, AnswerIs DEF Kept, Holds
<1>12. ASSUME NEW a, NEW n, q.what = "edit", q.id = a, q.expected = n PROVE Kept(Edited(a, n))'
  BY <1>6, <1>10, <1>12, AnswerIs DEF Kept, Holds
<1>13. ASSUME NEW a, q.what = "remove", q.id = a PROVE Kept(Gone(a))'
  BY <1>6, <1>10, <1>13, AnswerIs DEF Kept, Holds
<1>14. \A a \in Automation : trail.edits[a] \in Seq(Nat)
  BY DEF Typed, TrailTypes
<1>15. ASSUME NEW a \in Automation, q.what = "edit", q.id = a
       PROVE  /\ Range(trail'.edits[a]) = Range(trail.edits[a]) \cup {q.expected}
              /\ IsInjective(trail.edits[a]) /\ q.expected \notin Range(trail.edits[a]) => IsInjective(trail'.edits[a])
  <2>. DEFINE s == trail.edits[a]
  <2>1. trail'.edits[a] = Append(s, q.expected) /\ s \in Seq(Nat) /\ q.expected \in Nat
    BY <1>5, <1>6, <1>14, <1>15 DEF EditsOf, Questions
  <2>. HIDE DEF s
  <2>. QED  BY <2>1, AppendedRange DEF s
<1>16. PendingHold'
  <2>1. ASSUME NEW r \in Request, asked'[r].what # "none" PROVE Awaiting(r)'
    <3>1. r # h /\ asked'[r] = asked[r] /\ asked[r].what # "none"
      BY <1>4, <2>1, NothingIs
    <3>. QED  BY <1>1, <1>3, <1>8, <3>1, AwaitingStays DEF Lasting, PendingHold
  <2>. QED  BY <2>1 DEF PendingHold
<1>17. AnswersHold'
  <2>1. ASSUME NEW k \in Key, NEW id \in trail'.told[k] PROVE Kept(Created(k, id))'
    <3>1. CASE id \in trail.told[k]
      BY <1>9, <3>1 DEF Lasting, AnswersHold
    <3>2. CASE id \notin trail.told[k]
      <4>1. q.key = k /\ id = q.id /\ q.key # "none"
        BY <1>5, <2>1, <3>2, KeysAssumption DEF Told
      <4>. QED  BY <1>11, <4>1
    <3>. QED  BY <3>1, <3>2
  <2>2. ASSUME NEW a \in Automation, NEW n \in Range(trail'.edits[a]) PROVE Kept(Edited(a, n))'
    <3>1. CASE n \in Range(trail.edits[a])
      BY <1>9, <3>1 DEF Lasting, AnswersHold
    <3>2. CASE n \notin Range(trail.edits[a])
      <4>1. q.what = "edit" /\ q.id = a
        BY <1>5, <2>2, <3>2 DEF EditsOf
      <4>2. n = q.expected
        BY <1>15, <2>2, <3>2, <4>1
      <4>. QED  BY <1>12, <4>1, <4>2
    <3>. QED  BY <3>1, <3>2
  <2>3. ASSUME NEW a \in trail'.gone PROVE Kept(Gone(a))'
    <3>1. CASE a \in trail.gone
      BY <1>9, <3>1 DEF Lasting, AnswersHold
    <3>2. CASE a \notin trail.gone
      <4>1. q.what = "remove" /\ q.id = a
        BY <1>5, <2>3, <3>2 DEF GoneWith
      <4>. QED  BY <1>13, <4>1
    <3>. QED  BY <3>1, <3>2
  <2>. QED  BY <2>1, <2>2, <2>3 DEF AnswersHold
<1>18. EntriesHold'
  <2>1. ASSUME NEW e \in Range(state.keys), e.key \notin trail.unsure
        PROVE  (\E r \in Request : asked'[r].key = e.key) \/ Kept(Created(e.key, e.id))'
    <3>1. CASE Kept(Created(e.key, e.id))
      BY <1>9, <3>1
    <3>2. ASSUME NEW r \in Request, asked[r].key = e.key, r # h
          PROVE  \E s \in Request : asked'[s].key = e.key
      BY <1>4, <3>2
    <3>3. ASSUME h \in Request, asked[h].key = e.key PROVE Kept(Created(e.key, e.id))'
      <4>1. e \in Entry /\ e.key # "none" /\ \A f \in Range(state.keys) : f.key = e.key => f = e
        <5>1. Content(state)
          BY <1>1 DEF StoreTypes
        <5>2. e \in Entry
          BY <2>1, <5>1 DEF Content, Range
        <5>. QED  BY <2>1, <5>1, <5>2, KeysAssumption DEF Content, Entry
      <4>2. q.key = e.key /\ q.key # "none" /\ q.what # "none"
        BY <1>6, <1>7, <3>3, <4>1
      <4>3. Holds(trail, state, q)
        BY <1>6, <4>2, SeenAnywhere DEF Lasting, PendingHold, Awaiting
      <4>4. e.id = q.id
        BY <2>1, <4>1, <4>2, <4>3 DEF Holds, KeyHolds
      <4>. QED  BY <1>11, <4>2, <4>4
    <3>. QED  BY <2>1, <3>1, <3>2, <3>3 DEF Lasting, EntriesHold
  <2>. QED  BY <1>2, <1>5, <2>1 DEF EntriesHold, SameHistory
<1>19. RollsBack'
  <2>1. ASSUME NEW o \in Owner, Latest(o)', NEW e \in Range(before[o].keys), e.key \notin trail.unsure
        PROVE  e \in Range(state.keys) /\ (o \in Request => asked'[o].key # e.key)
    <3>1. Latest(o) /\ o # h
      BY <1>2, <2>1
    <3>. QED  BY <1>4, <2>1, <3>1 DEF Lasting, RollsBack
  <2>. QED  BY <1>2, <1>5, <2>1 DEF RollsBack, SameHistory
<1>20. EditsDiffer'
  <2>1. \A r \in Request : asked'[r].what = "edit" => r # h /\ asked'[r] = asked[r]
    BY <1>4, NothingIs
  <2>2. trail'.replaced = trail.replaced
    BY <1>5 DEF SameHistory
  <2>3. ASSUME NEW a \in Automation \ trail.replaced
        PROVE  /\ \A r \in Request : asked'[r].what = "edit" /\ asked'[r].id = a => asked'[r].expected \notin Range(trail'.edits[a])
               /\ IsInjective(trail'.edits[a])
    <3>1. CASE q.what = "edit" /\ q.id = a
      <4>1. q = asked[h] /\ h \in Request /\ asked[h].what = "edit" /\ asked[h].id = a
        BY <1>6, <3>1
      <4>2. q.expected \notin Range(trail.edits[a]) /\ IsInjective(trail.edits[a])
        BY <4>1 DEF Lasting, EditsDiffer
      <4>3. IsInjective(trail'.edits[a]) /\ Range(trail'.edits[a]) = Range(trail.edits[a]) \cup {q.expected}
        BY <1>15, <3>1, <4>2
      <4>4. \A r \in Request : asked'[r].what = "edit" /\ asked'[r].id = a
              => asked'[r].expected # q.expected /\ asked'[r].expected \notin Range(trail.edits[a])
        BY <2>1, <4>1 DEF Lasting, EditsDiffer
      <4>. QED  BY <4>3, <4>4
    <3>2. CASE ~(q.what = "edit" /\ q.id = a)
      <4>1. trail'.edits[a] = trail.edits[a]
        BY <1>5, <3>2 DEF EditsOf
      <4>. QED  BY <2>1, <4>1 DEF Lasting, EditsDiffer
    <3>. QED  BY <3>1, <3>2
  <2>4. \A a \in Automation \ trail.replaced : \A r, s \in Request :
          asked'[r].what = "edit" /\ asked'[s].what = "edit" /\ asked'[r].id = a /\ asked'[s].id = a /\ asked'[r].expected = asked'[s].expected => r = s
    BY <2>1 DEF Lasting, EditsDiffer
  <2>. QED  BY <2>2, <2>3, <2>4 DEF EditsDiffer
<1>21. OneLatest'
  BY <1>2 DEF Lasting, OneLatest
<1>. QED  BY <1>16, <1>17, <1>18, <1>19, <1>20, <1>21 DEF Lasting

(* A write that fails: the request is forgotten, and what it did undone. *)
LEMMA ErrsLasting ==
  ASSUME Typed, Named, ~overlapped', Lasting, WriteErrs
  PROVE  Lasting'
<1>. DEFINE h == queue[1]
<1>1. /\ StoreTypes /\ WriteFailed /\ FALSE \in BOOLEAN /\ Settle(FALSE, image) /\ Answer(Head(queue)) /\ trail' = trail
      /\ \A r \in Request : r \in Owner /\ r \in Guarded
  BY RequestsAssumption, GuardedAssumption DEF WriteErrs, WriteFailed, Typed, Request
<1>2. /\ h \in Owner /\ before' = before
      /\ \A p \in Owner : Latest(p)' <=> (Latest(p) /\ p # h)
  BY <1>1, SettleStore
<1>3. /\ h \notin Guarded => state' = state
      /\ h \in Guarded => state' = before[h] /\ Latest(h)
      /\ Copies' \subseteq Copies
      /\ \A r \in Owner \ {h} : Carriers(r)' \subseteq Carriers(r)
  BY <1>1, FailedStore
<1>4. \A r \in Request : asked'[r] = IF r = h THEN Nothing ELSE asked[r]
  BY <1>1, EndsAsked
<1>. HIDE DEF h
<1>5. TrailGrows
  BY <1>1 DEF TrailGrows
<1>6. \A p : Kept(p) => Kept(p)'
  BY <1>3, <1>5, KeptStays
<1>7. \A r \in Request : asked'[r].what # "none" \/ asked'[r].key # "none" => r # h /\ asked'[r] = asked[r]
  BY <1>4, NothingIs
<1>8. PendingHold'
  <2>1. ASSUME NEW r \in Request, asked'[r].what # "none" PROVE Awaiting(r)'
    <3>1. r # h /\ asked'[r] = asked[r] /\ asked[r].what # "none"
      BY <1>7, <2>1
    <3>. QED  BY <1>1, <1>3, <1>5, <3>1, AwaitingStays DEF Lasting, PendingHold
  <2>. QED  BY <2>1 DEF PendingHold
<1>9. AnswersHold'
  BY <1>1, <1>6 DEF Lasting, AnswersHold
<1>10. EntriesHold'
  <2>1. ASSUME NEW e \in Range(state'.keys), e.key \notin trail.unsure
        PROVE  (\E r \in Request : asked'[r].key = e.key) \/ Kept(Created(e.key, e.id))'
    <3>1. e \in Range(state.keys) /\ (h \in Request => asked[h].key # e.key)
      <4>1. CASE h \in Guarded
        BY <1>2, <1>3, <2>1, <4>1 DEF Lasting, RollsBack
      <4>2. CASE h \notin Guarded
        BY <1>1, <1>3, <2>1, <4>2
      <4>. QED  BY <4>1, <4>2
    <3>2. CASE Kept(Created(e.key, e.id))
      BY <1>6, <3>2
    <3>3. ASSUME NEW r \in Request, asked[r].key = e.key PROVE \E s \in Request : asked'[s].key = e.key
      BY <1>4, <3>1, <3>3
    <3>. QED  BY <2>1, <3>1, <3>2, <3>3 DEF Lasting, EntriesHold
  <2>. QED  BY <1>1, <2>1 DEF EntriesHold
<1>11. RollsBack'
  <2>1. ASSUME NEW o \in Owner, Latest(o)', NEW e \in Range(before[o].keys), e.key \notin trail.unsure
        PROVE  e \in Range(state'.keys) /\ (o \in Request => asked'[o].key # e.key)
    <3>1. Latest(o) /\ o # h
      BY <1>2, <2>1
    <3>2. h \notin Guarded
      BY <1>2, <1>3, <3>1 DEF Lasting, OneLatest
    <3>. QED  BY <1>3, <1>4, <2>1, <3>1, <3>2 DEF Lasting, RollsBack
  <2>. QED  BY <1>1, <1>2, <2>1 DEF RollsBack
<1>12. EditsDiffer'
  BY <1>1, <1>7 DEF Lasting, EditsDiffer
<1>13. OneLatest'
  BY <1>2 DEF Lasting, OneLatest
<1>. QED  BY <1>8, <1>9, <1>10, <1>11, <1>12, <1>13 DEF Lasting

(* A restart: what was answered is in the file. *)
LEMMA RestartsLasting ==
  ASSUME Typed, Aged, Lasting, Restarts
  PROVE  Lasting'
<1>1. /\ Reload(Load(file)) /\ trail' = trail /\ (\A r \in Request : asked'[r] = Nothing)
      /\ Content(file) /\ StoreTypes
  BY DEF Restarts, Typed, StoreTypes
<1>2. /\ Content(Load(file)) /\ (~file.old => Load(file) = file) /\ (file.old => Load(file).keys = <<>> /\ file.keys = <<>>)
  BY <1>1, LoadIs DEF Content
<1>3. /\ \A p \in Owner : ~Latest(p)'
      /\ state' = Load(file) /\ Copies' = {Load(file), file}
  BY <1>1, <1>2, ReloadStore
<1>4. Range(<<>>) = {}
  BY EmptySeq DEF Range
<1>5. ASSUME NEW q, Holds(trail, file, q), file.old => q.key = "none" \/ q.key \in trail.unsure, file.old => q.what \notin {"edit", "remove"}
      PROVE  Kept(q)'
  <2>1. Holds(trail, Load(file), q)
    BY <1>2, <1>5 DEF Holds
  <2>. QED  BY <1>1, <1>3, <1>5, <2>1 DEF Kept
<1>6. AnswersHold'
  <2>1. ASSUME NEW k \in Key, NEW id \in trail.told[k] PROVE Kept(Created(k, id))'
    <3>1. Holds(trail, file, Created(k, id))
      BY SeenAnywhere DEF Lasting, AnswersHold, Kept
    <3>2. file.old => k \in trail.unsure
      BY <1>2, <1>4, <3>1, AnswerIs, KeysAssumption DEF Holds, KeyHolds
    <3>. QED  BY <1>5, <3>1, <3>2, AnswerIs
  <2>2. ASSUME NEW a \in Automation, NEW n \in Range(trail.edits[a]) PROVE Kept(Edited(a, n))'
    <3>1. Holds(trail, file, Edited(a, n))
      BY SeenAnywhere DEF Lasting, AnswersHold, Kept
    <3>2. ~file.old
      BY <1>4, <2>2 DEF Aged
    <3>. QED  BY <1>5, <3>1, <3>2
  <2>3. ASSUME NEW a \in trail.gone PROVE Kept(Gone(a))'
    <3>1. Holds(trail, file, Gone(a))
      BY SeenAnywhere DEF Lasting, AnswersHold, Kept
    <3>2. a \in Automation
      BY DEF Typed, TrailTypes
    <3>3. ~file.old
      BY <2>3, <3>2 DEF Aged
    <3>. QED  BY <1>5, <3>1, <3>3
  <2>. QED  BY <1>1, <2>1, <2>2, <2>3 DEF AnswersHold
<1>7. EntriesHold'
  <2>1. ASSUME NEW e \in Range(state'.keys) PROVE Kept(Created(e.key, e.id))'
    <3>1. ~file.old
      BY <1>2, <1>3, <1>4, <2>1
    <3>2. Holds(trail, file, Created(e.key, e.id))
      BY <1>2, <1>3, <2>1, <3>1, AnswerIs DEF Holds, KeyHolds
    <3>. QED  BY <1>5, <3>1, <3>2
  <2>. QED  BY <2>1 DEF EntriesHold
<1>8. PendingHold' /\ EditsDiffer'
  BY <1>1, NothingIs DEF PendingHold, Lasting, EditsDiffer
<1>9. RollsBack' /\ OneLatest'
  BY <1>3 DEF RollsBack, OneLatest
<1>. QED  BY <1>6, <1>7, <1>8, <1>9 DEF Lasting

LEMMA MigratedLive ==
  ASSUME NEW c, NEW a \in Automation, Live(Migrated(c), a)
  PROVE  a \in c.rules \cap Native
<1>. DEFINE moved == c.rules \cap Native
            wish == CHOOSE w \in Wish : TRUE
            A == [b \in Automation |-> IF b \in moved THEN [revision |-> 1, enabled |-> TRUE, made |-> 0] ELSE NoAutomation]
            T == {[id |-> <<0, b>>, of |-> b, made |-> 0] : b \in moved}
            X == UNION {{[id |-> <<0, b, id>>, of |-> b, control |-> id, value |-> wish[id], made |-> 0] : id \in DOMAIN wish} : b \in moved}
            R == c.rules \ Native
            l == Migrated(c)
<1>1. l = [Blank EXCEPT !.autos = A, !.triggers = T, !.actions = X, !.rules = R]
  BY DEF Migrated
<1>2. a \notin moved => A[a].revision = 0
  BY DEF NoAutomation
<1>. HIDE DEF A, T, X, R, l, moved
<1>3. Blank = [autos |-> Blank.autos, triggers |-> Blank.triggers, actions |-> Blank.actions, keys |-> Blank.keys, rules |-> Blank.rules, old |-> Blank.old]
  BY BlankIs
<1>4. l = [autos |-> A, triggers |-> T, actions |-> X, keys |-> Blank.keys, rules |-> R, old |-> Blank.old]
  BY <1>1, <1>3, FourReplaced
<1>5. l.autos = A
  BY <1>4
<1>6. l.autos[a].revision > 0
  BY DEF l, Live
<1>. QED  BY <1>2, <1>5, <1>6 DEF moved

(***************************************************************************)
(* The invariant, and what it says.                                         *)
(***************************************************************************)
LEMMA InitIInv == Init => IInv
<1>. SUFFICES ASSUME Init PROVE IInv
  OBVIOUS
<1>1. PICK rules \in {{}, Legacy} :
        LET content == IF rules = {} THEN Blank ELSE [Blank EXCEPT !.rules = rules, !.old = TRUE]
        IN /\ state = Load(content) /\ file = content /\ image = content
           /\ queue = <<>> /\ writing = FALSE /\ before = [o \in Owner |-> content]
           /\ phase = [o \in Owner |-> "idle"] /\ stale = {} /\ overlapped = FALSE
           /\ trail = [made |-> 0, names |-> rules \cap Native, told |-> [k \in Key |-> {}], unsure |-> {},
                       edits |-> [a \in Automation |-> <<>>], leaving |-> {}, gone |-> {}, replaced |-> {}]
  BY DEF Init
<1>. DEFINE on == TRUE
            c == IF rules = {} THEN Blank ELSE [Blank EXCEPT !.rules = rules, !.old = on]
<1>2. /\ state = Load(c) /\ file = c /\ image = c
      /\ queue = <<>> /\ writing = FALSE /\ before = [o \in Owner |-> c]
      /\ phase = [o \in Owner |-> "idle"] /\ stale = {}
      /\ trail = [made |-> 0, names |-> rules \cap Native, told |-> [k \in Key |-> {}], unsure |-> {},
                  edits |-> [a \in Automation |-> <<>>], leaving |-> {}, gone |-> {}, replaced |-> {}]
  BY <1>1
<1>3. asked = [r \in Request |-> Nothing]
  BY DEF Init
<1>4. /\ Content(c) /\ (\A a \in Automation : ~Live(c, a)) /\ (c.old => c.rules = rules) /\ c.old \in BOOLEAN
  <2>. DEFINE b == Blank
  <2>1. b = [autos |-> b.autos, triggers |-> b.triggers, actions |-> b.actions, keys |-> b.keys, rules |-> b.rules, old |-> b.old]
        /\ b.keys = <<>> /\ b.old = FALSE /\ b.autos = [a \in Automation |-> NoAutomation]
    BY BlankIs
  <2>2. <<>> \in Seq(Entry) /\ Range(<<>>) = {}
    BY EmptySeq DEF Range
  <2>3. b.autos \in [Automation -> Record] /\ \A a \in Automation : b.autos[a].revision = 0
    BY <2>1 DEF Record, NoAutomation
  <2>4. CASE rules = {}
    <3>1. c = b
      BY <2>4
    <3>2. \A a \in Automation : ~Live(b, a)
      BY <2>3 DEF Live
    <3>3. b.old \in BOOLEAN /\ ~b.old
      BY <2>1
    <3>. HIDE DEF b
    <3>4. b = [autos |-> b.autos, triggers |-> b.triggers, actions |-> b.actions, keys |-> b.keys, rules |-> b.rules, old |-> b.old]
          /\ b.keys \in Seq(Entry) /\ Range(b.keys) = {}
      BY <2>1, <2>2
    <3>5. Content(b)
      BY <2>3, <3>3, <3>4 DEF Content
    <3>. QED  BY <3>1, <3>2, <3>3, <3>5
  <2>5. CASE rules # {}
    <3>. DEFINE d == [b EXCEPT !.rules = rules]
    <3>1. c = [d EXCEPT !.old = on]
      BY <2>5
    <3>0. on \in BOOLEAN
      OBVIOUS
    <3>. HIDE DEF on, b, c
    <3>2. d = [autos |-> b.autos, triggers |-> b.triggers, actions |-> b.actions, keys |-> b.keys, rules |-> rules, old |-> b.old]
      BY <2>1
    <3>. HIDE DEF d
    <3>3. c = [autos |-> b.autos, triggers |-> b.triggers, actions |-> b.actions, keys |-> b.keys, rules |-> rules, old |-> on]
      BY <3>1, <3>2
    <3>4. c.autos = b.autos /\ c.keys = <<>> /\ c.old = on /\ c.rules = rules
      BY <2>1, <3>3
    <3>5. Content(c)
      BY <2>2, <2>3, <3>0, <3>3, <3>4 DEF Content
    <3>. QED  BY <2>3, <3>0, <3>4, <3>5 DEF Live
  <2>. QED  BY <2>4, <2>5
<1>. HIDE DEF c
<1>5. Content(Load(c)) /\ ~Load(c).old /\ Load(Load(c)) = Load(c)
      /\ (~c.old => Load(c) = c)
  BY <1>4, LoadIs
<1>6. \A a \in Automation : Live(Load(c), a) => a \in rules \cap Native
  <2>1. CASE ~c.old
    BY <1>4, <1>5, <2>1
  <2>2. CASE c.old
    BY <1>4, <2>2, MigratedLive DEF Load
  <2>. QED  BY <2>1, <2>2
<1>7. Range(<<>>) = {} /\ Len(<<>>) = 0 /\ <<>> \in Seq(Owner) /\ <<>> \in Seq(Nat)
  BY EmptySeq DEF Range
<1>8. \A o \in Owner : before[o] = c /\ ~Pending(o)
  BY <1>2 DEF Pending
<1>9. StoreTypes
  <2>1. QueueWellFormed
    BY <1>2, <1>7 DEF QueueWellFormed
  <2>. QED  BY <1>2, <1>4, <1>5, <1>7, <1>8, <2>1 DEF StoreTypes, Phases
<1>10. TrailTypes
  BY <1>2, <1>7 DEF TrailTypes
<1>11. AskedTypes
  BY <1>3, NothingIs DEF AskedTypes
<1>12. Aged
  BY <1>2, <1>5, <1>8 DEF Aged
<1>13. Named
  <2>1. trail.names = rules \cap Native /\ (\A a \in Automation : trail.edits[a] = <<>>) /\ trail.gone = {}
    BY <1>2
  <2>2. \A r \in Request : asked[r].what = "none"
    BY <1>3, NothingIs
  <2>3. Known(state) /\ Known(file) /\ Known(image) /\ \A o \in Owner : Known(before[o])
    BY <1>2, <1>5, <1>6, <1>8, <2>1 DEF Known
  <2>. QED  BY <2>1, <2>2, <2>3 DEF Named
<1>14. Lasting
  <2>1. trail.told = [k \in Key |-> {}] /\ trail.edits = [a \in Automation |-> <<>>] /\ trail.gone = {}
    BY <1>2
  <2>2. Range(state.keys) = {}
    <3>1. c.keys = <<>>
      BY <1>4, BlankIs DEF c
    <3>2. state.keys = <<>>
      BY <1>2, <1>4, <1>5, <3>1, LoadIs
    <3>. QED  BY <1>7, <3>2
  <2>3. \A o \in Owner : ~Latest(o)
    BY <1>8 DEF Latest
  <2>4. OneLatest /\ RollsBack
    BY <2>3 DEF OneLatest, RollsBack
  <2>5. \A r \in Request : asked[r].what = "none"
    BY <1>3, NothingIs
  <2>6. PendingHold
    BY <2>5 DEF PendingHold
  <2>7. AnswersHold
    BY <1>7, <2>1 DEF AnswersHold
  <2>8. EntriesHold
    BY <2>2 DEF EntriesHold
  <2>9. EditsDiffer
    <3>1. IsInjective(<<>>)
      BY EmptySeq DEF IsInjective
    <3>. QED  BY <1>7, <2>1, <2>5, <3>1 DEF EditsDiffer
  <2>. QED  BY <2>4, <2>6, <2>7, <2>8, <2>9 DEF Lasting
<1>. QED  BY <1>9, <1>10, <1>11, <1>12, <1>13, <1>14 DEF IInv, Typed

LEMMA NextIInv == IInv /\ [Next]_vars => IInv'
<1>. SUFFICES ASSUME IInv, [Next]_vars PROVE IInv'
  OBVIOUS
<1>0. Typed /\ Aged /\ Named /\ StoreTypes /\ (\A r \in Request : r \in Owner) /\ (~overlapped => Lasting)
  BY DEF IInv, Typed, Request
<1>1. Typed' /\ Aged' /\ Named'
  BY <1>0, TypedStays, AgedStays, NamedStays
<1>2. ASSUME ~overlapped' PROVE Lasting'
  <2>1. ASSUME NEW r \in Request, NEW content, NEW q, Demands(r, content, q) PROVE Lasting'
    <3>1. Content(content) /\ Commit(r, content)
      BY <2>1 DEF Demands
    <3>2. ~overlapped
      BY <1>0, <1>2, <3>1, CommitStore
    <3>. QED  BY <1>0, <2>1, <3>2, RequestsLasting
  <2>2. ASSUME NEW k \in Key, NEW wish \in Wish, CreatedBefore(k, wish) PROVE Lasting'
    <3>1. ~overlapped
      BY <1>2, <2>2 DEF CreatedBefore, storeVars
    <3>. QED  BY <1>0, <2>2, <3>1, RetoldLasting
  <2>3. ASSUME NEW o \in Owner, Commit(o, state), o = Other, Same PROVE Lasting'
    <3>1. ~overlapped
      BY <1>2, <2>3 DEF Commit
    <3>. QED  BY <1>0, <2>3, <3>1, TouchedLasting
  <2>4. ASSUME NEW o \in Owner, ChainWrite(o), Same PROVE Lasting'
    <3>1. /\ state' = state /\ before' = before /\ overlapped' = overlapped
          /\ Copies' \subseteq Copies /\ (\A r \in Owner : Carriers(r)' \subseteq Carriers(r)) /\ \A p \in Owner : Latest(p)' => Latest(p)
      BY <1>0, <2>4, ChainStore
    <3>. QED  BY <1>0, <1>2, <2>4, <3>1, LessLasting
  <2>5. ASSUME Begun PROVE Lasting'
    <3>1. /\ state' = state /\ before' = before /\ overlapped' = overlapped
          /\ Copies' \subseteq Copies /\ (\A r \in Owner : Carriers(r)' \subseteq Carriers(r)) /\ \A p \in Owner : Latest(p)' => Latest(p)
      BY <1>0, <2>5, SerialiseStore DEF Begun
    <3>. QED  BY <1>0, <1>2, <2>5, <3>1, LessLasting DEF Begun
  <2>6. ASSUME WriteEnds PROVE Lasting'
    <3>1. ~overlapped
      BY <1>0, <1>2, <2>6, DoneStore DEF WriteEnds
    <3>. QED  BY <1>0, <2>6, <3>1, EndsLasting
  <2>7. ASSUME WriteErrs PROVE Lasting'
    <3>1. ~overlapped
      BY <1>0, <1>2, <2>7, FailedStore DEF WriteErrs
    <3>. QED  BY <1>0, <1>2, <2>7, <3>1, ErrsLasting
  <2>8. ASSUME Restarts PROVE Lasting'
    <3>1. ~overlapped
      BY <1>2, <2>8 DEF Restarts, Reload
    <3>. QED  BY <1>0, <2>8, <3>1, RestartsLasting
  <2>9. ASSUME Quiet PROVE Lasting'
    <3>1. /\ state' = state /\ before' = before /\ overlapped' = overlapped /\ Same
          /\ Copies' \subseteq Copies /\ (\A r \in Owner : Carriers(r)' \subseteq Carriers(r)) /\ \A p \in Owner : Latest(p)' => Latest(p)
      BY <2>9 DEF Quiet, storeVars, Copies, Carriers, Latest, Pending
    <3>. QED  BY <1>0, <1>2, <3>1, LessLasting
  <2>. QED  BY <1>0, <2>1, <2>2, <2>3, <2>4, <2>5, <2>6, <2>7, <2>8, <2>9, StepKinds DEF Requests, Retold, Touched, Chained
<1>. QED  BY <1>1, <1>2 DEF IInv

(* The inductive invariant holds in all reachable states: everything that *)
(* was answered is in the memory, the file and whatever may become them.    *)
THEOREM IInvAlways == Spec => []IInv
BY InitIInv, NextIInv, PTL DEF Spec

LEMMA OnceAnswered == IInv => CreatedOnce
<1>. SUFFICES ASSUME IInv, ~overlapped, NEW k \in Key \ trail.unsure PROVE Cardinality(trail.told[k]) <= 1
  BY DEF CreatedOnce
<1>1. /\ k # "none" /\ AnswersHold /\ Content(state)
  BY KeysAssumption DEF IInv, Lasting, Typed, StoreTypes
<1>2. ASSUME NEW x \in trail.told[k], NEW y \in trail.told[k] PROVE x = y
  <2>1. Holds(trail, state, Created(k, x)) /\ Holds(trail, state, Created(k, y))
    BY <1>1, SeenAnywhere DEF AnswersHold, Kept
  <2>2. KeyHolds(state, k, x) /\ KeyHolds(state, k, y)
    BY <1>1, <2>1, AnswerIs DEF Holds
  <2>. QED  BY <1>1, <2>2 DEF KeyHolds, Content
<1>3. CASE trail.told[k] = {}
  BY <1>3, FS_EmptySet
<1>4. CASE trail.told[k] # {}
  <2>1. PICK x \in trail.told[k] : TRUE
    BY <1>4
  <2>2. trail.told[k] = {x}
    BY <1>2, <2>1
  <2>3. Cardinality({x}) = 1
    BY FS_Singleton
  <2>. QED  BY <2>2, <2>3
<1>. QED  BY <1>3, <1>4

LEMMA AnswersKept == IInv => EditsKept
<1>. SUFFICES ASSUME IInv, ~overlapped, NEW a \in Automation \ trail.replaced
              PROVE  /\ IsInjective(trail.edits[a])
                     /\ a \notin trail.leaving => \A n \in Range(trail.edits[a]) : n < file.autos[a].revision
                     /\ a \in trail.gone => ~Live(file, a)
  BY DEF EditsKept
<1>1. Lasting /\ Content(file)
  BY DEF IInv, Typed, StoreTypes
<1>2. IsInjective(trail.edits[a])
  BY <1>1 DEF Lasting, EditsDiffer
<1>3. ASSUME a \notin trail.leaving, NEW n \in Range(trail.edits[a]) PROVE n < file.autos[a].revision
  <2>1. Holds(trail, file, Edited(a, n))
    BY <1>1, SeenAnywhere DEF Lasting, AnswersHold, Kept
  <2>2. EditHolds(trail, file, a, n)
    BY <2>1, AnswerIs DEF Holds
  <2>. QED  BY <1>3, <2>2 DEF EditHolds, Rev
<1>4. ASSUME a \in trail.gone PROVE ~Live(file, a)
  <2>1. Holds(trail, file, Gone(a))
    BY <1>1, <1>4, SeenAnywhere DEF Lasting, AnswersHold, Kept
  <2>2. Rev(file, a) = 0
    BY <2>1, AnswerIs DEF Holds
  <2>. QED  BY <2>2 DEF Live, Rev
<1>. QED  BY <1>2, <1>3, <1>4

(* service.js:85-120: a key is answered with one automation, for any number *)
(* of requests, automations and keys, also when writes fail, the answer     *)
(* comes from memory, or the hub restarts in between.                       *)
THEOREM CreatedOnceAlways == Spec => []CreatedOnce
BY IInvAlways, OnceAnswered, PTL

(* service.js:122-187: of the edits made from one revision one is answered, *)
(* what was answered is in the file, and what was removed stays so.         *)
THEOREM EditsKeptAlways == Spec => []EditsKept
BY IInvAlways, AnswersKept, PTL
=============================================================================
