------------------------------------ MODULE AlexaReports ------------------------------------
(***************************************************************************)
(* The Alexa projection (src/src/integrations/alexa): directives with their *)
(* receipts, state reports, and the catalogue that is pushed.               *)
(*                                                                          *)
(* The catalogue is kept from its last building: only the start and a       *)
(* directive build it.  A save of the receipts changes the memory at once;  *)
(* one that fails puts back the state of before it (StateStore).            *)
(***************************************************************************)
EXTENDS Naturals, FiniteSets, SequencesExt, Functions, TLC

CONSTANTS
  Endpoint,
  Message,     \* the directives' message ids
  Asked,       \* the endpoint and the value each directive asks for
  MaxFlushes   \* bound: state reports on their way at a time

ASSUME AskedAssumption == Asked \in [Message -> [endpoint : Endpoint, value : {0, 1}]]

VARIABLES
  devices,    \* each endpoint's device: its state, availability, and whether it is set up in an area
  paired,     \* with the platform
  catalogue,  \* AlexaIntegration: catalogue
  calls,      \* AlexaIntegration: directiveInFlight
  receipts,   \* store: integrations.alexa.directiveReceipts, and those on disk
  sync,       \* AlexaPlatformSync: the timers, catalogInFlight, and the refresh's timer
  queued,     \* AlexaPlatformSync: pendingState
  flushes,    \* state reports on their way
  cloud,      \* what the platform has: a catalogue, and reported states
  trail       \* history
alexaVars == <<catalogue, calls, receipts, sync, queued, flushes, cloud, trail>>

Nowhere == [pc |-> "idle", state |-> 0, before |-> {}]
Nothing == [e \in {} |-> 0]
Just(e, state) == [x \in {e} |-> state]
Over(new, old) == [e \in DOMAIN new \cup DOMAIN old |-> IF e \in DOMAIN new THEN new[e] ELSE old[e]]

\* A device that is set up and has an area is in the catalogue.
Built(d) == [e \in {e \in Endpoint : d[e].placed} |-> [value |-> d[e].value, available |-> d[e].available]]

NoCatalogue == [e \in Endpoint |-> [value |-> 2, available |-> FALSE]]

AlexaInit ==
  /\ devices \in [Endpoint -> [value : {0}, available : BOOLEAN, placed : {TRUE}]]
  /\ paired \in BOOLEAN
  /\ catalogue = Built(devices)
  /\ calls = [m \in Message |-> Nowhere]
  /\ receipts = [memory |-> {}, disk |-> {}]
  /\ sync = [catalog |-> paired, state |-> FALSE, pushing |-> FALSE, sent |-> NoCatalogue, status |-> paired]
  /\ queued = Nothing /\ flushes = <<>>
  /\ cloud = [catalogue |-> NoCatalogue, state |-> Nothing]
  /\ trail = [done |-> [m \in Message |-> 0], excused |-> {}, last |-> Nothing, stale |-> {}]

(***************************************************************************)
(* Directives.                                                              *)
(***************************************************************************)
\* Faulty variant: only the operation in flight is joined.
NewAgain(m) == calls[m].pc = "idle"

\* The receipt answers a repeated directive, the operation in flight joins it.
New(m) == m \notin receipts.memory /\ calls[m].pc = "idle"

\* The endpoint is looked up in the catalogue of the last building.
Reachable(e) == e \in DOMAIN catalogue /\ catalogue[e].available

Arrives(m) ==
  IF New(m) /\ Reachable(Asked[m].endpoint)
  THEN calls' = [calls EXCEPT ![m] = [Nowhere EXCEPT !.pc = "executing", !.state = catalogue[Asked[m].endpoint].value]]
  ELSE UNCHANGED calls

\* The state in the new catalogue; if the endpoint has left it, that of the arrival.
Answered(m) == LET e == Asked[m].endpoint IN IF e \in DOMAIN catalogue' THEN catalogue'[e].value ELSE calls[m].state

\* saveAlexa: the receipt joins the others in the memory.  The code forgets receipts that
\* expire and all but the hundred latest: here there are never so many.
Kept(m) == receipts.memory \cup {m}

Excuse(M) == [trail EXCEPT !.excused = @ \cup M]

\* The control is done; what the device shows of it is in the new catalogue, or not
\* yet.  The receipt is saved.
Executed(m) ==
  /\ calls[m].pc = "executing"
  /\ \E shown \in BOOLEAN : devices' = IF shown THEN [devices EXCEPT ![Asked[m].endpoint].value = Asked[m].value] ELSE devices
  /\ catalogue' = Built(devices')
  /\ receipts' = [receipts EXCEPT !.memory = Kept(m)]
  /\ calls' = [calls EXCEPT ![m] = [pc |-> "saving", state |-> Answered(m), before |-> receipts.memory]]
  /\ trail' = [trail EXCEPT !.done[m] = @ + 1]
  /\ UNCHANGED <<paired, sync, queued, flushes, cloud>>

\* The control fails, perhaps after the device has obeyed: nothing is kept.
ExecutionFails(m) ==
  /\ calls[m].pc = "executing"
  /\ calls' = [calls EXCEPT ![m] = Nowhere]
  /\ trail' = [Excuse({m}) EXCEPT !.done[m] = @ + 1]
  /\ UNCHANGED <<devices, paired, catalogue, receipts, sync, queued, flushes, cloud>>

\* queueState: the state is sent within a second, with what is queued till then.
Queued(e, state) == Over(Just(e, state), queued)

\* The state is queued, and a push of the catalogue.
ReceiptSaved(m) ==
  /\ calls[m].pc = "saving"
  /\ receipts' = [receipts EXCEPT !.disk = receipts.memory]
  /\ LET e == Asked[m].endpoint
     IN /\ queued' = Queued(e, calls[m].state)
        /\ trail' = [trail EXCEPT !.last = Over(Just(e, calls[m].state), @)]
  /\ sync' = [sync EXCEPT !.state = TRUE, !.catalog = TRUE]
  /\ calls' = [calls EXCEPT ![m] = Nowhere]
  /\ UNCHANGED <<devices, paired, catalogue, flushes, cloud>>

\* saveAlexa rolls back: later receipts go with the one that could not be saved.
ReceiptFails(m) ==
  /\ calls[m].pc = "saving"
  /\ receipts' = [receipts EXCEPT !.memory = calls[m].before]
  /\ calls' = [calls EXCEPT ![m] = Nowhere]
  /\ trail' = Excuse(receipts.memory \ calls[m].before)
  /\ UNCHANGED <<devices, paired, catalogue, sync, queued, flushes, cloud>>

(***************************************************************************)
(* State reports.                                                           *)
(***************************************************************************)
\* flushState takes what is queued.
Flushes ==
  /\ sync.state
  /\ sync' = [sync EXCEPT !.state = FALSE]
  /\ IF DOMAIN queued = {} \/ ~paired THEN UNCHANGED <<queued, flushes, trail>>
     ELSE /\ Len(flushes) < MaxFlushes
          /\ flushes' = Append(flushes, queued)
          /\ queued' = Nothing
          /\ trail' = [trail EXCEPT !.stale = @ \cup {e \in DOMAIN queued : \E f \in Range(flushes) : e \in DOMAIN f}]
  /\ UNCHANGED <<devices, paired, catalogue, calls, receipts, cloud>>

Reported(i) ==
  /\ cloud' = [cloud EXCEPT !.state = Over(flushes[i], @)]
  /\ flushes' = RemoveAt(flushes, i)
  /\ UNCHANGED <<devices, paired, catalogue, calls, receipts, sync, queued, trail>>

\* Faulty variant: what could not be reported is forgotten.
PutBackNothing(i) == queued

\* What could not be reported is queued again, over newer states.
PutBack(i) == Over(flushes[i], queued)

\* The platform may have the report all the same.
ReportFails(i) ==
  /\ \E arrived \in BOOLEAN : cloud' = IF arrived THEN [cloud EXCEPT !.state = Over(flushes[i], @)] ELSE cloud
  /\ queued' = PutBack(i)
  /\ flushes' = RemoveAt(flushes, i)
  /\ trail' = [trail EXCEPT !.stale = @ \cup (DOMAIN flushes[i] \cap DOMAIN queued)]
  /\ UNCHANGED <<devices, paired, catalogue, calls, receipts, sync>>

(***************************************************************************)
(* The catalogue.                                                           *)
(***************************************************************************)
\* pushCatalog: a push while one is on its way is dropped.
Push(s) == IF s.pushing \/ ~paired THEN s ELSE [s EXCEPT !.pushing = TRUE, !.sent = catalogue]

CatalogTimer == sync.catalog /\ sync' = Push([sync EXCEPT !.catalog = FALSE])

\* The refresh every thirty seconds, of a hub that was paired when it started.
StatusTimer == sync.status /\ sync' = Push(sync)

Pushes == (CatalogTimer \/ StatusTimer) /\ UNCHANGED <<devices, paired, catalogue, calls, receipts, queued, flushes, cloud, trail>>

Pushed ==
  /\ sync.pushing /\ sync.sent # NoCatalogue
  /\ cloud' = [cloud EXCEPT !.catalogue = sync.sent]
  /\ sync' = [sync EXCEPT !.pushing = FALSE, !.sent = NoCatalogue]
  /\ UNCHANGED <<devices, paired, catalogue, calls, receipts, queued, flushes, trail>>

\* Faulty variant: a push that fails remains the push on its way.
PushStuck == [sync EXCEPT !.sent = NoCatalogue]

PushEnded == [sync EXCEPT !.pushing = FALSE, !.sent = NoCatalogue]

PushFails ==
  /\ sync.pushing /\ sync.sent # NoCatalogue
  /\ sync' = PushEnded
  /\ UNCHANGED <<devices, paired, catalogue, calls, receipts, queued, flushes, cloud, trail>>

\* The process ends and starts again: start builds and schedules the catalogue.
AlexaRestarts ==
  /\ catalogue' = Built(devices)
  /\ calls' = [m \in Message |-> Nowhere]
  /\ receipts' = [receipts EXCEPT !.memory = receipts.disk]
  /\ sync' = [catalog |-> paired, state |-> FALSE, pushing |-> FALSE, sent |-> NoCatalogue, status |-> paired]
  /\ queued' = Nothing /\ flushes' = <<>>
  /\ trail' = [Excuse(Message \ receipts.disk) EXCEPT !.last = Nothing]
  /\ UNCHANGED cloud

(***************************************************************************)
(* Properties.                                                              *)
(***************************************************************************)
\* integration.js:98-123: however often a directive is delivered, its control is
\* executed once.  Excused are controls that failed, and receipts lost with a failed
\* save or with the process; a hundred directives on, the code knows it no more (Kept).
ExecutedOnce == \A m \in Message : trail.done[m] <= 1 \/ m \in trail.excused

\* platformSync.js:27-66: the last state that a directive reports is on its way to the
\* platform until it arrives.  Excused are endpoints whose older report failed after a
\* newer one was queued, or was still on its way when the newer one was sent.
NoReportLost ==
  \A e \in DOMAIN trail.last :
    \/ e \in trail.stale
    \/ \E f \in {queued, cloud.state} \cup Range(flushes) : e \in DOMAIN f /\ f[e] = trail.last[e]
=============================================================================
