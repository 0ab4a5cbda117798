------------------------- MODULE DeviceChangesProofs -------------------------
(***************************************************************************)
(* Whatever rules, devices, directives and scenarios there are: a directive *)
(* is executed once, a rule of the clock runs once for a minute, and the    *)
(* last state a directive reports is on its way to the platform.            *)
(***************************************************************************)
EXTENDS DeviceChanges, FiniteSetTheorems, SequenceTheorems, TLAPS

(***************************************************************************)
(* The types.                                                               *)
(***************************************************************************)
Reports == UNION {[S -> {0, 1}] : S \in SUBSET Endpoint}
Catalogues == UNION {[S -> [value : {0, 1}, available : BOOLEAN]] : S \in SUBSET Endpoint}
Trails == [done : [Message -> Nat], excused : SUBSET Message, last : Reports, stale : SUBSET Endpoint]

AlexaTypes ==
  /\ devices \in [Endpoint -> [value : {0, 1}, available : BOOLEAN, placed : BOOLEAN]]
  /\ catalogue \in Catalogues
  /\ calls \in [Message -> [pc : {"idle", "executing", "saving"}, state : {0, 1}, before : SUBSET Message]]
  /\ receipts \in [memory : SUBSET Message, disk : SUBSET Message]
  /\ queued \in Reports
  /\ flushes \in Seq(Reports)
  /\ cloud = [catalogue |-> cloud.catalogue, state |-> cloud.state] /\ cloud.state \in Reports
  /\ trail \in Trails

LEMMA ReportsOverlap ==
  ASSUME NEW f \in Reports, NEW g \in Reports
  PROVE  Over(f, g) \in Reports
<1>1. PICK S \in SUBSET Endpoint : f \in [S -> {0, 1}]
  BY DEF Reports
<1>2. PICK T \in SUBSET Endpoint : g \in [T -> {0, 1}]
  BY DEF Reports
<1>3. Over(f, g) \in [S \cup T -> {0, 1}]
  BY <1>1, <1>2 DEF Over
<1>. QED  BY <1>3 DEF Reports

LEMMA ReportOfOne ==
  ASSUME NEW e \in Endpoint, NEW v \in {0, 1}
  PROVE  Just(e, v) \in Reports /\ Nothing \in Reports
<1>1. Just(e, v) \in [{e} -> {0, 1}] /\ {e} \in SUBSET Endpoint
  BY DEF Just
<1>2. Nothing \in [{} -> {0, 1}] /\ {} \in SUBSET Endpoint
  BY DEF Nothing
<1>. QED  BY <1>1, <1>2 DEF Reports

LEMMA NothingReported == Nothing \in Reports
<1>1. Nothing \in [{} -> {0, 1}] /\ {} \in SUBSET Endpoint
  BY DEF Nothing
<1>. QED  BY <1>1 DEF Reports

LEMMA BuiltCatalogue ==
  ASSUME NEW d \in [Endpoint -> [value : {0, 1}, available : BOOLEAN, placed : BOOLEAN]]
  PROVE  Built(d) \in Catalogues
<1>1. Built(d) \in [{e \in Endpoint : d[e].placed} -> [value : {0, 1}, available : BOOLEAN]]
  BY DEF Built
<1>. QED  BY <1>1 DEF Catalogues

LEMMA InCatalogue ==
  ASSUME NEW c \in Catalogues, NEW e \in DOMAIN c
  PROVE  c[e].value \in {0, 1}
BY DEF Catalogues

(* A report that leaves the ones on their way leaves the others in their order. *)
LEMMA RemovedAt ==
  ASSUME NEW S, NEW s \in Seq(S), NEW i \in 1..Len(s)
  PROVE  /\ RemoveAt(s, i) \in Seq(S)
         /\ Len(RemoveAt(s, i)) = Len(s) - 1
         /\ \A k \in 1..(Len(s) - 1) : RemoveAt(s, i)[k] = IF k < i THEN s[k] ELSE s[k + 1]
<1>. DEFINE u == SubSeq(s, 1, i - 1)
            v == SubSeq(s, i + 1, Len(s))
<1>1. Len(s) \in Nat /\ \A k \in 1..Len(s) : s[k] \in S
  BY LenProperties, ElementOfSeq
<1>2. /\ u \in Seq(S) /\ Len(u) = i - 1
      /\ \A k \in 1..(i - 1) : u[k] = s[k]
  BY <1>1, SubSeqProperties
<1>3. /\ v \in Seq(S) /\ Len(v) = Len(s) - i
      /\ \A k \in 1..(Len(s) - i) : v[k] = s[i + k]
  BY <1>1, SubSeqProperties
<1>4. RemoveAt(s, i) = u \o v
  BY DEF RemoveAt
<1>. HIDE DEF u, v
<1>5. /\ u \o v \in Seq(S)
      /\ Len(u \o v) = Len(u) + Len(v)
      /\ \A k \in 1..(Len(u) + Len(v)) : (u \o v)[k] = IF k <= Len(u) THEN u[k] ELSE v[k - Len(u)]
  BY <1>2, <1>3, ConcatProperties
<1>. QED  BY <1>1, <1>2, <1>3, <1>4, <1>5

LEMMA InitTypes == Init => AlexaTypes
<1>. SUFFICES ASSUME Init PROVE AlexaTypes
  OBVIOUS
<1>1. devices \in [Endpoint -> [value : {0, 1}, available : BOOLEAN, placed : BOOLEAN]]
  BY DEF Init, AlexaInit
<1>2. catalogue \in Catalogues
  BY <1>1, BuiltCatalogue DEF Init, AlexaInit
<1>3. /\ queued = Nothing /\ flushes = <<>>
      /\ cloud = [catalogue |-> NoCatalogue, state |-> Nothing]
      /\ trail = [done |-> [m \in Message |-> 0], excused |-> {}, last |-> Nothing, stale |-> {}]
      /\ calls = [m \in Message |-> [pc |-> "idle", state |-> 0, before |-> {}]]
      /\ receipts = [memory |-> {}, disk |-> {}]
  BY DEF Init, AlexaInit, Nowhere
<1>4. cloud.state = Nothing /\ cloud = [catalogue |-> cloud.catalogue, state |-> cloud.state]
  BY <1>3
<1>5. trail \in Trails
  BY <1>3, NothingReported DEF Trails
<1>. QED  BY <1>1, <1>2, <1>3, <1>4, <1>5, NothingReported, EmptySeq DEF AlexaTypes

(* What the Alexa part does; the rest of a change or a directive leaves it. *)
Alexa == UNCHANGED <<calls, receipts, queued, flushes, cloud, trail>>

LEMMA StepAlexa ==
  ASSUME [Next]_vars
  PROVE  \/ Alexa /\ catalogue' = catalogue /\ UNCHANGED devices
         \/ Alexa /\ catalogue' = catalogue /\ \E e \in Endpoint :
              \/ devices' = [devices EXCEPT ![e].value = 1 - @]
              \/ devices' = [devices EXCEPT ![e].available = ~@]
              \/ devices' = [devices EXCEPT ![e].placed = ~@]
         \/ \E m \in Message :
              \/ Directive(m) \/ Executed(m) \/ ExecutionFails(m) \/ ReceiptSaved(m) \/ ReceiptFails(m)
         \/ Flushes
         \/ \E i \in DOMAIN flushes : Reported(i) \/ ReportFails(i)
         \/ Pushed
         \/ AlexaRestarts /\ UNCHANGED devices
<1>1. CASE UNCHANGED vars
  BY <1>1 DEF vars, alexaVars, Alexa
<1>2. ASSUME NEW r \in Runner, Ticks(r) \/ Passes(r) \/ Runs(r) \/ RunEnds(r) \/ RunAborts(r) \/ TickEnds(r) \/ Notified(r)
      PROVE  Alexa /\ catalogue' = catalogue /\ UNCHANGED devices
  BY <1>2 DEF Ticks, Passes, Runs, RunEnds, RunAborts, TickEnds, Notified, alexaVars, Alexa
<1>3. ASSUME NEW r \in Runner, NEW e \in Endpoint, Changes(e, r)
      PROVE  /\ Alexa /\ catalogue' = catalogue
             /\ \/ devices' = [devices EXCEPT ![e].value = 1 - @]
                \/ devices' = [devices EXCEPT ![e].available = ~@]
                \/ devices' = [devices EXCEPT ![e].placed = ~@]
  BY <1>3, Zenon DEF Changes, alexaVars, Alexa
<1>4. ASSUME NEW r \in Rule, Cools(r)
      PROVE  Alexa /\ catalogue' = catalogue /\ UNCHANGED devices
  BY <1>4 DEF Cools, alexaVars, Alexa
<1>5. ASSUME NEW e \in Endpoint, Delivers(e) \/ Delivered(e) \/ DeliveryFails(e) \/ SecondPasses(e)
      PROVE  Alexa /\ catalogue' = catalogue /\ UNCHANGED devices
  BY <1>5 DEF Delivers, Delivered, DeliveryFails, SecondPasses, alexaVars, Alexa
<1>6. ASSUME MinutePasses \/ Pairs \/ Pushes \/ PushFails
      PROVE  Alexa /\ catalogue' = catalogue /\ UNCHANGED devices
  BY <1>6 DEF MinutePasses, Pairs, Pushes, PushFails, alexaVars, Alexa
<1>7. Restarts => AlexaRestarts /\ UNCHANGED devices
  BY DEF Restarts
<1>. QED  BY <1>1, <1>2, <1>3, <1>4, <1>5, <1>6, <1>7, Zenon DEF Next, AlexaSteps, AlexaFails

LEMMA NextTypes == AlexaTypes /\ [Next]_vars => AlexaTypes'
<1>. SUFFICES ASSUME AlexaTypes, [Next]_vars PROVE AlexaTypes'
  OBVIOUS
<1>1. CASE Alexa /\ catalogue' = catalogue /\ UNCHANGED devices
  BY <1>1 DEF AlexaTypes, Alexa
<1>2. ASSUME NEW e \in Endpoint, Alexa, catalogue' = catalogue,
             \/ devices' = [devices EXCEPT ![e].value = 1 - @]
             \/ devices' = [devices EXCEPT ![e].available = ~@]
             \/ devices' = [devices EXCEPT ![e].placed = ~@]
      PROVE  AlexaTypes'
  <2>1. devices' \in [Endpoint -> [value : {0, 1}, available : BOOLEAN, placed : BOOLEAN]]
    <3>1. devices[e] \in [value : {0, 1}, available : BOOLEAN, placed : BOOLEAN]
      BY DEF AlexaTypes
    <3>2. CASE devices' = [devices EXCEPT ![e].value = 1 - @]
      <4>1. [devices[e] EXCEPT !.value = 1 - devices[e].value] \in [value : {0, 1}, available : BOOLEAN, placed : BOOLEAN]
        BY <3>1
      <4>. QED  BY <3>2, <4>1 DEF AlexaTypes
    <3>3. CASE devices' = [devices EXCEPT ![e].available = ~@]
      <4>1. [devices[e] EXCEPT !.available = ~(devices[e].available)] \in [value : {0, 1}, available : BOOLEAN, placed : BOOLEAN]
        BY <3>1
      <4>. QED  BY <3>3, <4>1 DEF AlexaTypes
    <3>4. CASE devices' = [devices EXCEPT ![e].placed = ~@]
      <4>1. [devices[e] EXCEPT !.placed = ~(devices[e].placed)] \in [value : {0, 1}, available : BOOLEAN, placed : BOOLEAN]
        BY <3>1
      <4>. QED  BY <3>4, <4>1 DEF AlexaTypes
    <3>. QED  BY <1>2, <3>2, <3>3, <3>4
  <2>. QED  BY <1>2, <2>1 DEF AlexaTypes, Alexa
<1>3. ASSUME NEW m \in Message, Directive(m) PROVE AlexaTypes'
  <2>1. UNCHANGED <<devices, catalogue, receipts, queued, flushes, cloud, trail>>
    BY <1>3 DEF Directive
  <2>2. CASE New(m) /\ Reachable(Asked[m].endpoint)
    <3>1. calls' = [calls EXCEPT ![m] = [pc |-> "executing", state |-> catalogue[Asked[m].endpoint].value, before |-> {}]]
      BY <1>3, <2>2 DEF Directive, Arrives, Nowhere
    <3>2. catalogue[Asked[m].endpoint].value \in {0, 1}
      BY <2>2, InCatalogue DEF Reachable, AlexaTypes
    <3>. QED  BY <2>1, <3>1, <3>2 DEF AlexaTypes
  <2>3. CASE ~(New(m) /\ Reachable(Asked[m].endpoint))
    BY <1>3, <2>1, <2>3 DEF Directive, Arrives, AlexaTypes
  <2>. QED  BY <2>2, <2>3
<1>4. ASSUME NEW m \in Message, Executed(m) PROVE AlexaTypes'
  <2>1. Asked[m].endpoint \in Endpoint /\ Asked[m].value \in {0, 1}
    BY AskedAssumption
  <2>2. devices' \in [Endpoint -> [value : {0, 1}, available : BOOLEAN, placed : BOOLEAN]]
    <3>1. [devices[Asked[m].endpoint] EXCEPT !.value = Asked[m].value] \in [value : {0, 1}, available : BOOLEAN, placed : BOOLEAN]
      BY <2>1 DEF AlexaTypes
    <3>. QED  BY <1>4, <2>1, <3>1 DEF Executed, AlexaTypes
  <2>3. catalogue' \in Catalogues
    BY <1>4, <2>2, BuiltCatalogue DEF Executed
  <2>4. Answered(m) \in {0, 1}
    <3>1. calls[m].state \in {0, 1}
      BY DEF AlexaTypes
    <3>2. \A e \in DOMAIN catalogue' : catalogue'[e].value \in {0, 1}
      BY <2>3 DEF Catalogues
    <3>. QED  BY <3>1, <3>2 DEF Answered
  <2>5. /\ trail' = [trail EXCEPT !.done[m] = @ + 1]
        /\ receipts' = [receipts EXCEPT !.memory = receipts.memory \cup {m}]
        /\ calls' = [calls EXCEPT ![m] = [pc |-> "saving", state |-> Answered(m), before |-> receipts.memory]]
        /\ UNCHANGED <<queued, flushes, cloud>>
    BY <1>4 DEF Executed, Kept
  <2>6. trail' \in Trails
    <3>1. trail' = [done |-> [trail.done EXCEPT ![m] = @ + 1], excused |-> trail.excused, last |-> trail.last, stale |-> trail.stale]
      BY <2>5 DEF AlexaTypes, Trails
    <3>. QED  BY <3>1 DEF AlexaTypes, Trails
  <2>. QED  BY <2>2, <2>3, <2>4, <2>5, <2>6 DEF AlexaTypes
<1>5. ASSUME NEW m \in Message, ExecutionFails(m) PROVE AlexaTypes'
  <2>1. /\ calls' = [calls EXCEPT ![m] = [pc |-> "idle", state |-> 0, before |-> {}]]
        /\ UNCHANGED <<devices, catalogue, receipts, queued, flushes, cloud>>
    BY <1>5 DEF ExecutionFails, Nowhere
  <2>2. trail' = [done |-> [trail.done EXCEPT ![m] = @ + 1], excused |-> trail.excused \cup {m}, last |-> trail.last, stale |-> trail.stale]
    BY <1>5 DEF ExecutionFails, Excuse, AlexaTypes, Trails
  <2>3. trail' \in Trails
    BY <2>2 DEF AlexaTypes, Trails
  <2>. QED  BY <2>1, <2>3 DEF AlexaTypes
<1>6. ASSUME NEW m \in Message, ReceiptSaved(m) PROVE AlexaTypes'
  <2>. DEFINE one == Just(Asked[m].endpoint, calls[m].state)
  <2>1. one \in Reports
    BY ReportOfOne, AskedAssumption DEF AlexaTypes
  <2>2. /\ queued' = Over(one, queued)
        /\ trail' = [trail EXCEPT !.last = Over(one, trail.last)]
        /\ receipts' = [receipts EXCEPT !.disk = receipts.memory]
        /\ calls' = [calls EXCEPT ![m] = [pc |-> "idle", state |-> 0, before |-> {}]]
        /\ UNCHANGED <<devices, catalogue, flushes, cloud>>
    BY <1>6 DEF ReceiptSaved, Queued, Nowhere
  <2>. HIDE DEF one
  <2>3. queued' \in Reports
    BY <2>1, <2>2, ReportsOverlap DEF AlexaTypes
  <2>4. Over(one, trail.last) \in Reports
    BY <2>1, ReportsOverlap DEF AlexaTypes, Trails
  <2>5. trail' \in Trails
    BY <2>2, <2>4 DEF AlexaTypes, Trails
  <2>. QED  BY <2>2, <2>3, <2>5 DEF AlexaTypes
<1>7. ASSUME NEW m \in Message, ReceiptFails(m) PROVE AlexaTypes'
  <2>1. /\ calls' = [calls EXCEPT ![m] = [pc |-> "idle", state |-> 0, before |-> {}]]
        /\ receipts' = [receipts EXCEPT !.memory = calls[m].before]
        /\ UNCHANGED <<devices, catalogue, queued, flushes, cloud>>
        /\ trail' = [trail EXCEPT !.excused = @ \cup (receipts.memory \ calls[m].before)]
    BY <1>7 DEF ReceiptFails, Nowhere, Excuse
  <2>2. trail' \in Trails
    BY <2>1 DEF AlexaTypes, Trails
  <2>. QED  BY <2>1, <2>2 DEF AlexaTypes
<1>8. CASE Flushes
  <2>1. UNCHANGED <<devices, catalogue, calls, receipts, cloud>>
    BY <1>8 DEF Flushes
  <2>2. CASE UNCHANGED <<queued, flushes, trail>>
    BY <2>1, <2>2 DEF AlexaTypes
  <2>3. CASE ~UNCHANGED <<queued, flushes, trail>>
    <3>1. /\ flushes' = Append(flushes, queued)
          /\ queued' = Nothing
          /\ trail' = [trail EXCEPT !.stale = @ \cup {e \in DOMAIN queued : \E f \in Range(flushes) : e \in DOMAIN f}]
      BY <1>8, <2>3 DEF Flushes
    <3>2. DOMAIN queued \subseteq Endpoint
      BY DEF AlexaTypes, Reports
    <3>3. trail' \in Trails
      BY <3>1, <3>2 DEF AlexaTypes, Trails
    <3>4. flushes' \in Seq(Reports)
      BY <3>1, AppendProperties DEF AlexaTypes
    <3>. QED  BY <2>1, <3>1, <3>3, <3>4, NothingReported DEF AlexaTypes
  <2>. QED  BY <2>2, <2>3
<1>9. ASSUME NEW i \in DOMAIN flushes, Reported(i) \/ ReportFails(i) PROVE AlexaTypes'
  <2>1. i \in 1..Len(flushes) /\ flushes[i] \in Reports /\ DOMAIN flushes[i] \subseteq Endpoint
    BY DEF AlexaTypes, Reports
  <2>2. flushes' \in Seq(Reports)
    BY <1>9, <2>1, RemovedAt DEF Reported, ReportFails, AlexaTypes
  <2>3. /\ cloud' \in {cloud, [cloud EXCEPT !.state = Over(flushes[i], cloud.state)]}
        /\ UNCHANGED <<devices, catalogue, calls, receipts>>
    BY <1>9 DEF Reported, ReportFails
  <2>4. Over(flushes[i], cloud.state) \in Reports /\ Over(flushes[i], queued) \in Reports
    BY <2>1, ReportsOverlap DEF AlexaTypes
  <2>5. cloud' = [catalogue |-> cloud'.catalogue, state |-> cloud'.state] /\ cloud'.state \in Reports
    BY <2>3, <2>4 DEF AlexaTypes
  <2>6. queued' \in Reports
    BY <1>9, <2>4 DEF Reported, ReportFails, PutBack, AlexaTypes
  <2>7. trail' \in Trails
    <3>1. CASE Reported(i)
      BY <3>1 DEF Reported, AlexaTypes
    <3>2. CASE ReportFails(i)
      <4>1. trail' = [trail EXCEPT !.stale = @ \cup (DOMAIN flushes[i] \cap DOMAIN queued)]
        BY <3>2 DEF ReportFails
      <4>. QED  BY <2>1, <4>1 DEF AlexaTypes, Trails
    <3>. QED  BY <1>9, <3>1, <3>2
  <2>. QED  BY <2>2, <2>3, <2>5, <2>6, <2>7 DEF AlexaTypes
<1>10. CASE Pushed
  BY <1>10 DEF Pushed, AlexaTypes
<1>11. CASE AlexaRestarts /\ UNCHANGED devices
  <2>1. catalogue' \in Catalogues
    BY <1>11, BuiltCatalogue DEF AlexaRestarts, AlexaTypes
  <2>2. /\ calls' = [m \in Message |-> [pc |-> "idle", state |-> 0, before |-> {}]]
        /\ receipts' = [receipts EXCEPT !.memory = receipts.disk]
        /\ queued' = Nothing /\ flushes' = <<>>
        /\ trail' = [done |-> trail.done, excused |-> trail.excused \cup (Message \ receipts.disk), last |-> Nothing, stale |-> trail.stale]
        /\ UNCHANGED cloud
    BY <1>11 DEF AlexaRestarts, Nowhere, Excuse, AlexaTypes, Trails
  <2>3. trail' \in Trails
    BY <2>2, NothingReported DEF AlexaTypes, Trails
  <2>. QED  BY <1>11, <2>1, <2>2, <2>3, NothingReported, EmptySeq DEF AlexaTypes
<1>. QED  BY StepAlexa, <1>1, <1>2, <1>3, <1>4, <1>5, <1>6, <1>7, <1>8, <1>9, <1>10, <1>11

(***************************************************************************)
(* Directives.                                                              *)
(***************************************************************************)
(* Of a directive that is not excused: no control has run before it is      *)
(* executed; the control has run when its receipt is in the memory, and     *)
(* only then; and then the receipt is on the disk too, or its save is still *)
(* awaited.  What a roll back would put back knows of earlier controls.     *)
Receipts ==
  \A m \in Message \ trail.excused :
    /\ trail.done[m] <= 1
    /\ calls[m].pc = "executing" => trail.done[m] = 0
    /\ trail.done[m] = 1 <=> m \in receipts.memory
    /\ trail.done[m] = 1 => m \in receipts.disk \/ calls[m].pc = "saving"
    /\ m \in receipts.disk => trail.done[m] = 1
    /\ \A n \in Message : calls[n].pc = "saving" /\ m \in calls[n].before => trail.done[m] = 1 /\ m # n

LEMMA InitReceipts == Init => Receipts
BY DEF Init, AlexaInit, Receipts, Nowhere

LEMMA NextReceipts ==
  ASSUME AlexaTypes, Receipts, [Next]_vars
  PROVE  Receipts'
<1>1. ASSUME UNCHANGED <<calls, receipts>>, trail'.done = trail.done, trail'.excused = trail.excused
      PROVE  Receipts'
  BY <1>1 DEF Receipts
<1>2. CASE Alexa
  BY <1>1, <1>2 DEF Alexa
\* The first delivery finds no receipt, so no control has run for it.
<1>3. ASSUME NEW m \in Message, Directive(m) PROVE Receipts'
  <2>1. UNCHANGED <<trail, receipts>>
    BY <1>3 DEF Directive
  <2>2. CASE New(m) /\ Reachable(Asked[m].endpoint)
    <3>1. calls' = [calls EXCEPT ![m] = [pc |-> "executing", state |-> catalogue[Asked[m].endpoint].value, before |-> {}]]
      BY <1>3, <2>2 DEF Directive, Arrives, Nowhere
    <3>2. m \notin receipts.memory /\ trail.done[m] \in Nat
      BY <2>2 DEF New, AlexaTypes, Trails
    <3>. QED  BY <2>1, <3>1, <3>2 DEF AlexaTypes, Receipts
  <2>. QED  BY <1>1, <1>3, <2>1, <2>2 DEF Directive, Arrives
<1>4. ASSUME NEW m \in Message, Executed(m) PROVE Receipts'
  <2>1. /\ trail' = [done |-> [trail.done EXCEPT ![m] = @ + 1], excused |-> trail.excused, last |-> trail.last, stale |-> trail.stale]
        /\ receipts' = [memory |-> receipts.memory \cup {m}, disk |-> receipts.disk]
        /\ calls' = [calls EXCEPT ![m] = [pc |-> "saving", state |-> Answered(m), before |-> receipts.memory]]
        /\ calls[m].pc = "executing"
    BY <1>4 DEF Executed, Kept, AlexaTypes, Trails
  <2>. QED  BY <2>1 DEF AlexaTypes, Trails, Receipts
<1>5. ASSUME NEW m \in Message, ExecutionFails(m) PROVE Receipts'
  <2>1. /\ trail' = [done |-> [trail.done EXCEPT ![m] = @ + 1], excused |-> trail.excused \cup {m}, last |-> trail.last, stale |-> trail.stale]
        /\ calls' = [calls EXCEPT ![m] = Nowhere]
        /\ UNCHANGED receipts
    BY <1>5 DEF ExecutionFails, Excuse, AlexaTypes, Trails
  <2>2. /\ calls'[m].pc = "idle" /\ \A n \in Message \ {m} : calls'[n] = calls[n]
        /\ \A n \in Message \ {m} : trail'.done[n] = trail.done[n]
    BY <2>1 DEF AlexaTypes, Trails, Nowhere
  <2>. QED  BY <2>1, <2>2 DEF Receipts
<1>6. ASSUME NEW m \in Message, ReceiptSaved(m) PROVE Receipts'
  <2>1. /\ receipts' = [memory |-> receipts.memory, disk |-> receipts.memory]
        /\ calls' = [calls EXCEPT ![m] = Nowhere]
        /\ trail'.done = trail.done /\ trail'.excused = trail.excused
    BY <1>6 DEF ReceiptSaved, AlexaTypes, Trails
  <2>2. calls'[m].pc = "idle" /\ \A n \in Message \ {m} : calls'[n] = calls[n]
    BY <2>1 DEF AlexaTypes, Nowhere
  <2>. QED  BY <2>1, <2>2 DEF Receipts
\* What the roll back takes from the memory is excused.
<1>7. ASSUME NEW m \in Message, ReceiptFails(m) PROVE Receipts'
  <2>1. /\ trail' = [done |-> trail.done, excused |-> trail.excused \cup (receipts.memory \ calls[m].before), last |-> trail.last, stale |-> trail.stale]
        /\ receipts' = [memory |-> calls[m].before, disk |-> receipts.disk]
        /\ calls' = [calls EXCEPT ![m] = Nowhere]
        /\ calls[m].pc = "saving"
    BY <1>7 DEF ReceiptFails, Excuse, AlexaTypes, Trails
  <2>2. calls'[m].pc = "idle" /\ \A n \in Message \ {m} : calls'[n] = calls[n]
    BY <2>1 DEF AlexaTypes, Nowhere
  <2>. QED  BY <2>1, <2>2 DEF Receipts
<1>8. CASE Flushes
  BY <1>1, <1>8 DEF Flushes, AlexaTypes, Trails
<1>9. ASSUME NEW i \in DOMAIN flushes, Reported(i) \/ ReportFails(i) PROVE Receipts'
  BY <1>1, <1>9 DEF Reported, ReportFails, AlexaTypes, Trails
<1>10. CASE Pushed
  BY <1>1, <1>10 DEF Pushed
<1>11. CASE AlexaRestarts
  <2>1. /\ calls' = [m \in Message |-> Nowhere]
        /\ receipts' = [memory |-> receipts.disk, disk |-> receipts.disk]
        /\ trail' = [done |-> trail.done, excused |-> trail.excused \cup (Message \ receipts.disk), last |-> Nothing, stale |-> trail.stale]
    BY <1>11 DEF AlexaRestarts, Excuse, AlexaTypes, Trails
  <2>. QED  BY <2>1 DEF Receipts, Nowhere
<1>. QED  BY StepAlexa, <1>2, <1>3, <1>4, <1>5, <1>6, <1>7, <1>8, <1>9, <1>10, <1>11

(* However often a directive is delivered, at once or later, its control is *)
(* executed once, unless the control failed or its receipt was lost with a  *)
(* failed save or with the process (integration.js, handleDirective).       *)
THEOREM ExecutedOnceAlways == Spec => []ExecutedOnce
<1>1. AlexaTypes /\ Receipts /\ [Next]_vars => AlexaTypes' /\ Receipts'
  BY NextTypes, NextReceipts
<1>2. Receipts => ExecutedOnce
  BY DEF Receipts, ExecutedOnce
<1>. QED  BY <1>1, <1>2, InitTypes, InitReceipts, PTL DEF Spec

(***************************************************************************)
(* Reports.                                                                 *)
(***************************************************************************)
(* Of an endpoint that is not excused, one report at most is on its way,    *)
(* and the newest copy is the last state: what is queued, else what is on   *)
(* its way, else what the platform has.  Without a last state there is none. *)
OnItsWay(e) == {i \in 1..Len(flushes) : e \in DOMAIN flushes[i]}

Newest(e) ==
  /\ \A i, j \in OnItsWay(e) : i = j
  /\ e \notin DOMAIN trail.last => e \notin DOMAIN queued /\ OnItsWay(e) = {}
  /\ e \in DOMAIN queued => queued[e] = trail.last[e]
  /\ e \notin DOMAIN queued => \A i \in OnItsWay(e) : flushes[i][e] = trail.last[e]
  /\ e \in DOMAIN trail.last \ DOMAIN queued /\ OnItsWay(e) = {}
       => e \in DOMAIN cloud.state /\ cloud.state[e] = trail.last[e]

LastReported == \A e \in Endpoint \ trail.stale : Newest(e)

LEMMA InitReported == Init => LastReported
BY DEF Init, AlexaInit, LastReported, Newest, OnItsWay, Nothing

LEMMA NextReported ==
  ASSUME AlexaTypes, LastReported, [Next]_vars
  PROVE  LastReported'
<1>1. Len(flushes) \in Nat /\ flushes \in Seq(Reports)
  BY LenProperties DEF AlexaTypes
<1>2. ASSUME UNCHANGED <<queued, flushes, cloud>>, trail'.last = trail.last, trail'.stale = trail.stale
      PROVE  LastReported'
  BY <1>2 DEF LastReported, Newest, OnItsWay
<1>3. CASE Alexa
  BY <1>2, <1>3 DEF Alexa
<1>4. ASSUME NEW m \in Message, Directive(m) \/ Executed(m) \/ ExecutionFails(m) \/ ReceiptFails(m)
      PROVE  LastReported'
  <2>1. UNCHANGED <<queued, flushes, cloud>>
    BY <1>4 DEF Directive, Executed, ExecutionFails, ReceiptFails
  <2>2. trail'.last = trail.last /\ trail'.stale = trail.stale
    BY <1>4 DEF Directive, Executed, ExecutionFails, ReceiptFails, Excuse, AlexaTypes, Trails
  <2>. QED  BY <1>2, <2>1, <2>2
\* The state is queued before all others.
<1>5. ASSUME NEW m \in Message, ReceiptSaved(m) PROVE LastReported'
  <2>1. /\ queued' = Over(Just(Asked[m].endpoint, calls[m].state), queued)
        /\ trail'.last = Over(Just(Asked[m].endpoint, calls[m].state), trail.last) /\ trail'.stale = trail.stale
        /\ UNCHANGED <<flushes, cloud>>
    BY <1>5 DEF ReceiptSaved, Queued, AlexaTypes, Trails
  <2>2. ASSUME NEW e \in Endpoint \ trail'.stale PROVE Newest(e)'
    <3>1. Newest(e) /\ OnItsWay(e)' = OnItsWay(e)
      BY <2>1, <2>2 DEF LastReported, OnItsWay
    <3>2. CASE e = Asked[m].endpoint
      <4>1. e \in DOMAIN queued' /\ e \in DOMAIN trail'.last /\ queued'[e] = trail'.last[e]
        BY <2>1, <3>2 DEF Over, Just
      <4>. QED  BY <2>1, <3>1, <4>1 DEF Newest
    <3>3. CASE e # Asked[m].endpoint
      <4>1. /\ e \in DOMAIN trail'.last <=> e \in DOMAIN trail.last
            /\ e \in DOMAIN trail.last => trail'.last[e] = trail.last[e]
            /\ e \in DOMAIN queued' <=> e \in DOMAIN queued
            /\ e \in DOMAIN queued => queued'[e] = queued[e]
        BY <2>1, <3>3 DEF Over, Just
      <4>. QED  BY <2>1, <3>1, <4>1 DEF Newest, OnItsWay
    <3>. QED  BY <3>2, <3>3
  <2>. QED  BY <2>2 DEF LastReported
\* What is queued is on its way; if an older report still is, it is excused.
<1>6. CASE Flushes
  <2>1. CASE UNCHANGED <<queued, flushes, trail>>
    BY <1>2, <1>6, <2>1 DEF Flushes
  <2>2. CASE ~UNCHANGED <<queued, flushes, trail>>
    <3>1. /\ flushes' = Append(flushes, queued) /\ queued' = Nothing /\ cloud' = cloud
          /\ trail' = [trail EXCEPT !.stale = @ \cup {e \in DOMAIN queued : \E f \in Range(flushes) : e \in DOMAIN f}]
      BY <1>6, <2>2 DEF Flushes
    <3>2. /\ Len(flushes') = Len(flushes) + 1 /\ flushes'[Len(flushes) + 1] = queued
          /\ \A i \in 1..Len(flushes) : flushes'[i] = flushes[i]
      BY <1>1, <3>1, AppendProperties DEF AlexaTypes
    <3>3. /\ trail'.last = trail.last
          /\ trail'.stale = trail.stale \cup {e \in DOMAIN queued : \E f \in Range(flushes) : e \in DOMAIN f}
      BY <3>1 DEF AlexaTypes, Trails
    <3>4. ASSUME NEW e \in Endpoint \ trail'.stale PROVE Newest(e)'
      <4>1. Newest(e) /\ e \notin DOMAIN queued'
        BY <3>1, <3>3, <3>4 DEF LastReported, Nothing
      <4>2. CASE e \in DOMAIN queued
        <5>1. OnItsWay(e) = {}
          BY <1>1, <3>3, <3>4, <4>2 DEF OnItsWay, Range
        <5>2. OnItsWay(e)' = {Len(flushes) + 1}
          BY <1>1, <3>2, <4>2, <5>1 DEF OnItsWay
        <5>. QED  BY <3>2, <3>3, <4>1, <4>2, <5>2 DEF Newest
      <4>3. CASE e \notin DOMAIN queued
        <5>1. OnItsWay(e)' = OnItsWay(e)
          BY <1>1, <3>2, <4>3 DEF OnItsWay
        <5>2. \A i \in OnItsWay(e) : flushes'[i] = flushes[i]
          BY <3>2 DEF OnItsWay
        <5>. QED  BY <3>1, <3>3, <4>1, <4>3, <5>1, <5>2 DEF Newest
      <4>. QED  BY <4>2, <4>3
    <3>. QED  BY <3>4 DEF LastReported
  <2>. QED  BY <2>1, <2>2
\* The report reaches the platform, or is queued again; or both.
<1>7. ASSUME NEW i \in DOMAIN flushes, Reported(i) \/ ReportFails(i) PROVE LastReported'
  <2>1. i \in 1..Len(flushes) /\ flushes' = RemoveAt(flushes, i)
    BY <1>1, <1>7 DEF Reported, ReportFails
  <2>2. /\ Len(flushes') = Len(flushes) - 1
        /\ \A k \in 1..(Len(flushes) - 1) : flushes'[k] = IF k < i THEN flushes[k] ELSE flushes[k + 1]
    BY <1>1, <2>1, RemovedAt
  <2>3. /\ trail'.last = trail.last /\ trail.stale \subseteq trail'.stale
        /\ ReportFails(i) => DOMAIN flushes[i] \cap DOMAIN queued \subseteq trail'.stale
    BY <1>7 DEF Reported, ReportFails, AlexaTypes, Trails
  <2>4. /\ Reported(i) => cloud'.state = Over(flushes[i], cloud.state) /\ queued' = queued
        /\ ReportFails(i) => cloud'.state \in {cloud.state, Over(flushes[i], cloud.state)} /\ queued' = Over(flushes[i], queued)
    BY <1>7 DEF Reported, ReportFails, PutBack, AlexaTypes
  <2>5. ASSUME NEW e \in Endpoint \ trail'.stale PROVE Newest(e)'
    <3>1. Newest(e)
      BY <2>3, <2>5 DEF LastReported
    <3>2. CASE e \in DOMAIN flushes[i]
      <4>1. OnItsWay(e) = {i}
        BY <2>1, <3>1, <3>2 DEF Newest, OnItsWay
      <4>2. OnItsWay(e)' = {}
        <5>1. SUFFICES ASSUME NEW k \in 1..Len(flushes'), e \in DOMAIN flushes'[k] PROVE FALSE
          BY DEF OnItsWay
        <5>2. (IF k < i THEN k ELSE k + 1) \in OnItsWay(e)
          BY <1>1, <2>2, <5>1 DEF OnItsWay
        <5>. QED  BY <1>1, <2>1, <2>2, <4>1, <5>1, <5>2
      <4>3. e \in DOMAIN trail.last
        BY <3>1, <4>1 DEF Newest
      <4>4. CASE Reported(i)
        BY <2>3, <2>4, <3>1, <3>2, <4>1, <4>2, <4>3, <4>4 DEF Newest, Over
      <4>5. CASE ReportFails(i)
        BY <2>3, <2>4, <2>5, <3>1, <3>2, <4>1, <4>2, <4>3, <4>5 DEF Newest, Over
      <4>. QED  BY <1>7, <4>4, <4>5
    <3>3. CASE e \notin DOMAIN flushes[i]
      <4>1. \A k \in OnItsWay(e)' : \E j \in OnItsWay(e) : flushes'[k] = flushes[j] /\ j = IF k < i THEN k ELSE k + 1
        BY <1>1, <2>1, <2>2 DEF OnItsWay
      <4>2. OnItsWay(e)' = {} => OnItsWay(e) = {}
        <5>1. ASSUME NEW j \in OnItsWay(e) PROVE (IF j < i THEN j ELSE j - 1) \in OnItsWay(e)'
          BY <1>1, <2>1, <2>2, <3>3 DEF OnItsWay
        <5>. QED  BY <5>1
      <4>3. \A k, l \in OnItsWay(e)' : k = l
        BY <1>1, <2>1, <2>2, <3>1, <4>1 DEF Newest, OnItsWay
      <4>4. /\ e \in DOMAIN queued' <=> e \in DOMAIN queued
            /\ e \in DOMAIN queued => queued'[e] = queued[e]
            /\ e \in DOMAIN cloud.state => e \in DOMAIN cloud'.state /\ cloud'.state[e] = cloud.state[e]
        BY <1>7, <2>4, <3>3 DEF Over
      <4>. QED  BY <2>3, <3>1, <4>1, <4>2, <4>3, <4>4 DEF Newest
    <3>. QED  BY <3>2, <3>3
  <2>. QED  BY <2>5 DEF LastReported
<1>8. CASE Pushed
  <2>1. cloud'.state = cloud.state /\ UNCHANGED <<queued, flushes, trail>>
    BY <1>8 DEF Pushed, AlexaTypes
  <2>. QED  BY <2>1 DEF LastReported, Newest, OnItsWay
<1>9. CASE AlexaRestarts
  <2>1. queued' = Nothing /\ flushes' = <<>> /\ trail'.last = Nothing
    BY <1>9 DEF AlexaRestarts, Excuse, AlexaTypes, Trails
  <2>. QED  BY <2>1 DEF LastReported, Newest, OnItsWay, Nothing
<1>. QED  BY StepAlexa, <1>3, <1>4, <1>5, <1>6, <1>7, <1>8, <1>9

(* The last state that a directive reports is queued, on its way, or what   *)
(* the platform has, but for endpoints whose older report failed or arrived *)
(* late (platformSync.js, queueState and flushState).                       *)
THEOREM NoReportLostAlways == Spec => []NoReportLost
<1>1. AlexaTypes /\ LastReported /\ [Next]_vars => AlexaTypes' /\ LastReported'
  BY NextTypes, NextReported
<1>2. AlexaTypes /\ LastReported => NoReportLost
  <2>. SUFFICES ASSUME AlexaTypes, LastReported, NEW e \in DOMAIN trail.last \ trail.stale
                PROVE  \E f \in {queued, cloud.state} \cup Range(flushes) : e \in DOMAIN f /\ f[e] = trail.last[e]
    BY DEF NoReportLost
  <2>1. Newest(e) /\ DOMAIN flushes = 1..Len(flushes)
    BY DEF LastReported, AlexaTypes, Trails, Reports
  <2>. QED  BY <2>1 DEF Newest, OnItsWay, Range
<1>. QED  BY <1>1, <1>2, InitTypes, InitReported, PTL DEF Spec

(***************************************************************************)
(* Rules of the clock.                                                      *)
(***************************************************************************)
(* The key of a rule that no tick of an earlier minute reached late is not  *)
(* before any minute for which the rule ran.                                *)
KeyTypes ==
  /\ minute \in Nat
  /\ runners \in [Runner -> [on : {"idle", "change", "tick"}, endpoint : Endpoint \cup {Clock}, minute : Nat,
                             todo : Seq(Rule), busy : BOOLEAN]]
  /\ rules \in [Rule -> [cooling : BOOLEAN, key : Nat]]
  /\ ran \in [count : [Rule -> [1..MaxMinute -> Nat]], late : SUBSET Rule]

KeyNotBefore ==
  \A r \in Rule \ ran.late, m \in 1..MaxMinute :
    ran.count[r][m] <= 1 /\ (ran.count[r][m] = 1 => rules[r].key >= m)

Keys == KeyTypes /\ KeyNotBefore

(* The order in which the rules are gone through does not matter. *)
LEMMA RulesInOrder == SetToSeq(Rule) \in Seq(Rule)
<1>1. Cardinality(Rule) \in Nat /\ ExistsBijection(1..Cardinality(Rule), Rule)
  BY RuleAssumption, FS_CardinalityType
<1>2. \E f \in [1..Cardinality(Rule) -> Rule] : IsInjective(f)
  BY <1>1 DEF ExistsBijection, Bijection, Injection
<1>3. SetToSeq(Rule) \in [1..Cardinality(Rule) -> Rule]
  BY <1>2 DEF SetToSeq
<1>. QED  BY <1>1, <1>3, SeqDef

LEMMA OneMore ==
  ASSUME NEW c \in [1..MaxMinute -> Nat], NEW m
  PROVE  /\ [c EXCEPT ![m] = @ + 1] \in [1..MaxMinute -> Nat]
         /\ \A n \in 1..MaxMinute : [c EXCEPT ![m] = @ + 1][n] = IF n = m THEN c[n] + 1 ELSE c[n]
<1>1. CASE m \in 1..MaxMinute
  BY <1>1
<1>2. CASE m \notin 1..MaxMinute
  <2>1. [c EXCEPT ![m] = @ + 1] = c
    BY <1>2
  <2>. QED  BY <1>2, <2>1
<1>. QED  BY <1>1, <1>2

LEMMA InitKeys == Init => Keys
BY DEF Init, Keys, KeyTypes, KeyNotBefore, Idle

LEMMA NextKeys ==
  ASSUME Keys, [Next]_vars
  PROVE  Keys'
<1>. USE DEF Keys
<1>1. ASSUME UNCHANGED <<runners, rules, minute, ran>> PROVE Keys'
  BY <1>1 DEF KeyTypes, KeyNotBefore
<1>2. ASSUME UNCHANGED <<rules, ran>>, KeyTypes' PROVE Keys'
  BY <1>2 DEF KeyNotBefore
<1>3. CASE UNCHANGED vars
  BY <1>1, <1>3 DEF vars, ruleVars
<1>4. ASSUME NEW r \in Runner, NEW e \in Endpoint, Changes(e, r) PROVE Keys'
  <2>1. runners' = [runners EXCEPT ![r] = [on |-> "change", endpoint |-> e, minute |-> 0, todo |-> SetToSeq(Rule), busy |-> FALSE]]
        /\ UNCHANGED <<rules, minute, ran>>
    BY <1>4 DEF Changes, Starting, Begun
  <2>. QED  BY <1>2, <2>1, RulesInOrder DEF KeyTypes
<1>5. ASSUME NEW r \in Runner, Ticks(r) PROVE Keys'
  <2>1. runners' = [runners EXCEPT ![r] = [on |-> "tick", endpoint |-> Clock, minute |-> minute, todo |-> SetToSeq(Rule), busy |-> FALSE]]
        /\ UNCHANGED <<rules, minute, ran>>
    BY <1>5 DEF Ticks, Starting, Begun
  <2>. QED  BY <1>2, <2>1, RulesInOrder DEF KeyTypes
<1>6. ASSUME NEW r \in Runner, runners[r].todo # <<>>
      PROVE  Next1(r) \in Rule /\ Tail(runners[r].todo) \in Seq(Rule) /\ KeyOf(r) \in Nat
  <2>1. runners[r] \in [on : {"idle", "change", "tick"}, endpoint : Endpoint \cup {Clock}, minute : Nat, todo : Seq(Rule), busy : BOOLEAN]
    BY DEF KeyTypes
  <2>2. Next1(r) \in Rule /\ Tail(runners[r].todo) \in Seq(Rule)
    BY <1>6, <2>1, HeadTailProperties DEF Next1
  <2>. QED  BY <2>1, <2>2 DEF KeyOf, KeyTypes
\* A key grows, or the rule is late.
<1>7. ASSUME NEW r \in Runner, Passes(r) PROVE Keys'
  <2>1. Next1(r) \in Rule /\ Tail(runners[r].todo) \in Seq(Rule) /\ KeyOf(r) \in Nat
    BY <1>6, <1>7 DEF Passes
  <2>2. runners' = [runners EXCEPT ![r].todo = Tail(@)] /\ minute' = minute
    BY <1>7 DEF Passes
  <2>3. runners' \in [Runner -> [on : {"idle", "change", "tick"}, endpoint : Endpoint \cup {Clock}, minute : Nat, todo : Seq(Rule), busy : BOOLEAN]]
    BY <2>1, <2>2 DEF KeyTypes
  <2>4. CASE UNCHANGED <<rules, ran>>
    BY <1>2, <2>2, <2>3, <2>4 DEF KeyTypes
  <2>5. CASE rules' = [rules EXCEPT ![Next1(r)].key = KeyOf(r)] /\ ran' = [ran EXCEPT !.late = Late(r)]
    <3>1. Late(r) \in SUBSET Rule
      BY <2>1 DEF Late, KeyTypes
    <3>2. KeyTypes'
      BY <2>1, <2>2, <2>3, <2>5, <3>1 DEF KeyTypes
    <3>3. ran'.count = ran.count /\ ran'.late = Late(r)
      BY <2>5 DEF KeyTypes
    <3>4. rules'[Next1(r)].key = KeyOf(r) /\ \A q \in Rule \ {Next1(r)} : rules'[q] = rules[q]
      BY <2>1, <2>5 DEF KeyTypes
    <3>5. KeyNotBefore'
      BY <2>1, <3>2, <3>3, <3>4 DEF KeyTypes, KeyNotBefore, Late
    <3>. QED  BY <3>2, <3>5
  <2>. QED  BY <1>7, <2>4, <2>5 DEF Passes
\* A run is the first for its minute: the key was another, and a later one makes the rule late.
<1>8. ASSUME NEW r \in Runner, Runs(r) PROVE Keys'
  <2>1. Next1(r) \in Rule /\ KeyOf(r) \in Nat
    BY <1>6, <1>8 DEF Runs
  <2>2. runners' = [runners EXCEPT ![r].busy = TRUE] /\ minute' = minute
        /\ rules' = [rules EXCEPT ![Next1(r)] = [cooling |-> TRUE, key |-> KeyOf(r)]]
    BY <1>8 DEF Runs
  <2>3. Late(r) \in SUBSET Rule
    BY <2>1 DEF Late, KeyTypes
  <2>4. rules'[Next1(r)].key = KeyOf(r) /\ \A q \in Rule \ {Next1(r)} : rules'[q] = rules[q]
    BY <2>1, <2>2 DEF KeyTypes
  <2>5. CASE runners[r].on = "tick"
    <3>. DEFINE m == runners[r].minute
    <3>1. KeyOf(r) = m /\ rules[Next1(r)].key # m
      BY <1>8, <2>5 DEF Runs, Matches, KeyOf
    <3>2. ran' = [count |-> [ran.count EXCEPT ![Next1(r)][m] = @ + 1], late |-> Late(r)]
      BY <1>8, <2>5 DEF Runs
    <3>. HIDE DEF m
    <3>3. /\ ran'.count \in [Rule -> [1..MaxMinute -> Nat]] /\ ran'.late = Late(r)
          /\ \A q \in Rule \ {Next1(r)} : ran'.count[q] = ran.count[q]
          /\ \A n \in 1..MaxMinute : ran'.count[Next1(r)][n] = IF n = m THEN ran.count[Next1(r)][n] + 1 ELSE ran.count[Next1(r)][n]
      <4>. DEFINE c == ran.count[Next1(r)]
      <4>1. ran.count \in [Rule -> [1..MaxMinute -> Nat]] /\ c \in [1..MaxMinute -> Nat]
        BY <2>1 DEF KeyTypes
      <4>2. ran'.count = [ran.count EXCEPT ![Next1(r)] = [c EXCEPT ![m] = @ + 1]] /\ ran'.late = Late(r)
        BY <3>2
      <4>. HIDE DEF c
      <4>3. /\ [c EXCEPT ![m] = @ + 1] \in [1..MaxMinute -> Nat]
            /\ \A n \in 1..MaxMinute : [c EXCEPT ![m] = @ + 1][n] = IF n = m THEN c[n] + 1 ELSE c[n]
        BY <4>1, OneMore
      <4>. QED  BY <2>1, <4>1, <4>2, <4>3 DEF c
    <3>4. KeyTypes'
      <4>1. ran' \in [count : [Rule -> [1..MaxMinute -> Nat]], late : SUBSET Rule]
        BY <2>3, <3>2, <3>3
      <4>. QED  BY <2>1, <2>2, <4>1 DEF KeyTypes
    <3>5. KeyNotBefore'
      <4>1. ASSUME NEW q \in Rule \ ran'.late, NEW n \in 1..MaxMinute
            PROVE  ran'.count[q][n] <= 1 /\ (ran'.count[q][n] = 1 => rules'[q].key >= n)
        <5>1. CASE q # Next1(r)
          BY <2>4, <3>3, <4>1, <5>1 DEF KeyNotBefore, Late
        <5>2. CASE q = Next1(r)
          <6>1. KeyOf(r) >= rules[q].key /\ q \in Rule \ ran.late
            BY <2>1, <3>3, <4>1, <5>2 DEF Late, KeyTypes
          <6>2. /\ ran.count[q][n] <= 1 /\ (ran.count[q][n] = 1 => rules[q].key >= n)
                /\ ran.count[q][n] \in Nat /\ rules[q].key \in Nat
            <7>1. ran.count \in [Rule -> [1..MaxMinute -> Nat]] /\ rules \in [Rule -> [cooling : BOOLEAN, key : Nat]]
              BY DEF KeyTypes
            <7>. QED  BY <4>1, <6>1, <7>1 DEF KeyNotBefore
          <6>. QED  BY <2>1, <2>4, <3>1, <3>3, <5>2, <6>1, <6>2
        <5>. QED  BY <5>1, <5>2
      <4>. QED  BY <4>1 DEF KeyNotBefore
    <3>. QED  BY <3>4, <3>5
  <2>6. CASE runners[r].on # "tick"
    <3>1. KeyOf(r) = rules[Next1(r)].key /\ ran' = ran
      BY <1>8, <2>6 DEF Runs, KeyOf
    <3>2. KeyTypes'
      BY <2>1, <2>2, <3>1 DEF KeyTypes
    <3>. QED  BY <2>4, <3>1, <3>2 DEF KeyNotBefore
  <2>. QED  BY <2>5, <2>6
<1>9. ASSUME NEW r \in Runner, RunEnds(r) PROVE Keys'
  <2>1. UNCHANGED <<rules, minute, ran>> /\ runners' = [runners EXCEPT ![r].todo = Tail(@), ![r].busy = FALSE]
    BY <1>9 DEF RunEnds
  <2>2. runners[r] \in [on : {"idle", "change", "tick"}, endpoint : Endpoint \cup {Clock}, minute : Nat, todo : Seq(Rule), busy : BOOLEAN]
    BY DEF KeyTypes
  <2>3. KeyTypes'
    <3>1. CASE runners[r].todo # <<>>
      BY <1>6, <2>1, <2>2, <3>1 DEF KeyTypes
    <3>2. CASE runners[r].todo = <<>>
      <4>1. Tail(runners[r].todo) \in Seq(Rule)
        BY <3>2
      <4>. QED  BY <2>1, <2>2, <4>1 DEF KeyTypes
    <3>. QED  BY <3>1, <3>2
  <2>. QED  BY <1>2, <2>1, <2>3
<1>10. ASSUME NEW r \in Runner, RunAborts(r) \/ TickEnds(r) \/ Notified(r) PROVE Keys'
  <2>1. UNCHANGED <<rules, minute, ran>> /\ runners' = [runners EXCEPT ![r] = Idle]
    BY <1>10 DEF RunAborts, TickEnds, Notified, Starting
  <2>2. Idle \in [on : {"idle", "change", "tick"}, endpoint : Endpoint \cup {Clock}, minute : Nat, todo : Seq(Rule), busy : BOOLEAN]
    BY EmptySeq DEF Idle
  <2>. QED  BY <1>2, <2>1, <2>2 DEF KeyTypes
<1>11. ASSUME NEW r \in Rule, Cools(r) PROVE Keys'
  <2>1. UNCHANGED <<runners, minute, ran>> /\ rules' = [rules EXCEPT ![r].cooling = FALSE]
    BY <1>11 DEF Cools
  <2>2. KeyTypes' /\ \A q \in Rule : rules'[q].key = rules[q].key
    BY <2>1 DEF KeyTypes
  <2>. QED  BY <2>1, <2>2 DEF KeyNotBefore
<1>12. CASE MinutePasses
  <2>1. UNCHANGED <<runners, rules, ran>> /\ minute' = minute + 1
    BY <1>12 DEF MinutePasses
  <2>. QED  BY <1>2, <2>1 DEF KeyTypes
\* A restart forgets the keys: every rule is late from then on.
<1>13. CASE Restarts
  <2>1. /\ runners' = [r \in Runner |-> Idle] /\ rules' = [r \in Rule |-> [cooling |-> FALSE, key |-> 0]]
        /\ minute' = minute /\ ran' = [ran EXCEPT !.late = Rule]
    BY <1>13 DEF Restarts
  <2>2. Idle \in [on : {"idle", "change", "tick"}, endpoint : Endpoint \cup {Clock}, minute : Nat, todo : Seq(Rule), busy : BOOLEAN]
    BY EmptySeq DEF Idle
  <2>3. KeyTypes' /\ ran'.late = Rule
    BY <2>1, <2>2 DEF KeyTypes
  <2>. QED  BY <2>3 DEF KeyNotBefore
<1>14. ASSUME NEW e \in Endpoint, Delivers(e) \/ Delivered(e) \/ DeliveryFails(e) \/ SecondPasses(e) PROVE Keys'
  BY <1>1, <1>14 DEF Delivers, Delivered, DeliveryFails, SecondPasses, ruleVars
<1>15. CASE Pairs \/ AlexaSteps \/ AlexaFails
  BY <1>1, <1>15 DEF Pairs, AlexaSteps, AlexaFails, ruleVars
<1>16. ASSUME NEW m \in Message, Directive(m) PROVE Keys'
  BY <1>1, <1>16 DEF Directive, ruleVars
<1>. QED  BY <1>3, <1>4, <1>5, <1>7, <1>8, <1>9, <1>10, <1>11, <1>12, <1>13, <1>14, <1>15, <1>16 DEF Next

(* The ticks run a rule of the clock once for a minute, though one may begin *)
(* while another still waits for a rule's actions, and changes of devices run *)
(* the rule as well; but for rules that a tick of an earlier minute reached  *)
(* late, and restarts (automation.js, tick).                                 *)
THEOREM OncePerMinuteAlways == Spec => []OncePerMinute
<1>1. Keys => OncePerMinute
  BY DEF Keys, KeyNotBefore, OncePerMinute
<1>. QED  BY <1>1, InitKeys, NextKeys, PTL DEF Spec
=============================================================================
