----------------------------------- MODULE DeviceChanges -----------------------------------
(***************************************************************************)
(* What a change of a device sets off (notifyDeviceChanged of               *)
(* src/src/server.js): first the legacy rules, whose actions are awaited one *)
(* by one (automation.js), then the Alexa catalogue (AlexaReports), then the *)
(* notification of the platform (stateChangeNotifier.js).  The rules' clock  *)
(* ticks every ten seconds beside them.  A trigger that names a time names no *)
(* device, so that every change of any device matches it: such a rule runs   *)
(* by ticks and by changes.  Conditions of rules are not modelled.          *)
(***************************************************************************)
EXTENDS AlexaReports

CONSTANTS
  Rule,        \* the legacy rules, all enabled
  Trigger,     \* the endpoint whose change triggers each rule, or Clock: a time
  MaxMinute,   \* bound: minutes that pass
  Runner,      \* bound: changes and ticks under way at a time
  Scenarios    \* bounds: how often each kind of event happens

ASSUME RuleAssumption == IsFiniteSet(Rule)

Clock == "clock"
Kinds == {"changes", "directives", "crashes", "faults", "pairs", "minutes", "ticks"}

VARIABLES
  runners,   \* notifyDeviceChanged and tick: the rules still to be looked at
  rules,     \* AutomationEngine: whose cooldown lasts (lastRun), and lastTimeKey
  minute,
  notices,   \* StateChangeNotifier: pending, by endpoint
  recent,    \* StateChangeNotifier: told less than a second ago (lastSent)
  budget,    \* the events that are left of the scenario
  ran        \* history: how often ticks ran each rule for each minute, and the rules
             \* for which a tick came after one of a later minute
ruleVars == <<runners, rules, minute, ran>>
noticeVars == <<notices, recent>>
vars == <<devices, paired, alexaVars, ruleVars, noticeVars, budget>>

Spend(kind) == budget[kind] > 0 /\ budget' = [budget EXCEPT ![kind] = @ - 1]
Idle == [on |-> "idle", endpoint |-> Clock, minute |-> 0, todo |-> <<>>, busy |-> FALSE]
NoNotice == [pending |-> FALSE, attempts |-> 0, sending |-> FALSE]

Init ==
  /\ AlexaInit
  /\ budget \in Scenarios
  /\ runners = [r \in Runner |-> Idle]
  /\ rules = [r \in Rule |-> [cooling |-> FALSE, key |-> 0]]
  /\ minute = 1
  /\ notices = [e \in Endpoint |-> NoNotice] /\ recent = {}
  /\ ran = [count |-> [r \in Rule |-> [m \in 1..MaxMinute |-> 0]], late |-> {}]

(***************************************************************************)
(* The rules.                                                               *)
(***************************************************************************)
Begun(on, e, m) == [on |-> on, endpoint |-> e, minute |-> m, todo |-> SetToSeq(Rule), busy |-> FALSE]
Free(r) == runners[r].on = "idle"
Starting(r, runner) == runners' = [runners EXCEPT ![r] = runner]

\* A device reports a change, or is set up or moved: the rules are gone through.
Changes(e, r) ==
  /\ Spend("changes") /\ Free(r)
  /\ \/ devices' = [devices EXCEPT ![e].value = 1 - @]
     \/ devices' = [devices EXCEPT ![e].available = ~@]
     \/ devices' = [devices EXCEPT ![e].placed = ~@]
  /\ Starting(r, Begun("change", e, 0))
  /\ UNCHANGED <<paired, alexaVars, rules, minute, ran, noticeVars>>

\* tick: the minute is read once.
Ticks(r) ==
  /\ Spend("ticks") /\ Free(r)
  /\ Starting(r, Begun("tick", Clock, minute))
  /\ UNCHANGED <<devices, paired, alexaVars, rules, minute, ran, noticeVars>>

Next1(r) == Head(runners[r].todo)
\* triggerMatches finds nothing to refuse in the trigger of a rule of the clock.
Matches(r) ==
  LET x == runners[r]
  IN  IF x.on = "tick" THEN Trigger[Next1(r)] = Clock /\ rules[Next1(r)].key # x.minute
      ELSE Trigger[Next1(r)] \in {Clock, x.endpoint}

\* Faulty variant: the minute is noted when the actions have been done.
KeyAfter(r) == rules[Next1(r)].key
KeyOf(r) == IF runners[r].on = "tick" THEN runners[r].minute ELSE rules[Next1(r)].key

Late(r) == IF KeyOf(r) < rules[Next1(r)].key THEN ran.late \cup {Next1(r)} ELSE ran.late

\* The rule is not asked for, or still cools: a tick notes its minute even so.
Passes(r) ==
  /\ runners[r].todo # <<>> /\ ~runners[r].busy /\ ~(Matches(r) /\ ~rules[Next1(r)].cooling)
  /\ runners' = [runners EXCEPT ![r].todo = Tail(@)]
  /\ IF Matches(r) THEN rules' = [rules EXCEPT ![Next1(r)].key = KeyOf(r)] /\ ran' = [ran EXCEPT !.late = Late(r)]
                   ELSE UNCHANGED <<rules, ran>>
  /\ UNCHANGED <<devices, paired, alexaVars, minute, noticeVars, budget>>

\* runAutomation: the cooldown begins, and its actions.
Runs(r) ==
  /\ runners[r].todo # <<>> /\ ~runners[r].busy /\ Matches(r) /\ ~rules[Next1(r)].cooling
  /\ rules' = [rules EXCEPT ![Next1(r)] = [cooling |-> TRUE, key |-> KeyOf(r)]]
  /\ runners' = [runners EXCEPT ![r].busy = TRUE]
  /\ ran' = IF runners[r].on = "tick"
            THEN [count |-> [ran.count EXCEPT ![Next1(r)][runners[r].minute] = @ + 1], late |-> Late(r)]
            ELSE ran
  /\ UNCHANGED <<devices, paired, alexaVars, minute, noticeVars, budget>>

\* The actions are done, or have failed: neither stops the rule.
RunEnds(r) ==
  /\ runners[r].busy
  /\ runners' = [runners EXCEPT ![r].todo = Tail(@), ![r].busy = FALSE]
  /\ UNCHANGED <<devices, paired, alexaVars, rules, minute, ran, noticeVars, budget>>

\* The event of the rule cannot be saved, or the usage that a change counts after the
\* rules: the rest of the change or tick is left.
RunAborts(r) ==
  /\ Spend("faults") /\ (runners[r].busy \/ (runners[r].on = "change" /\ runners[r].todo = <<>>))
  /\ Starting(r, Idle)
  /\ UNCHANGED <<devices, paired, alexaVars, rules, minute, ran, noticeVars>>

TickEnds(r) ==
  /\ runners[r].on = "tick" /\ runners[r].todo = <<>>
  /\ Starting(r, Idle)
  /\ UNCHANGED <<devices, paired, alexaVars, rules, minute, ran, noticeVars, budget>>

Cools(r) ==
  /\ rules[r].cooling
  /\ rules' = [rules EXCEPT ![r].cooling = FALSE]
  /\ UNCHANGED <<devices, paired, alexaVars, runners, minute, ran, noticeVars, budget>>

MinutePasses ==
  /\ Spend("minutes") /\ minute < MaxMinute
  /\ minute' = minute + 1
  /\ UNCHANGED <<devices, paired, alexaVars, runners, rules, ran, noticeVars>>

(***************************************************************************)
(* The notification.                                                        *)
(***************************************************************************)
\* enqueue: not within a second of the last, nor beside one that is pending.
Enqueued(e) ==
  IF e \in recent \/ notices[e].pending THEN notices
  ELSE [notices EXCEPT ![e] = [NoNotice EXCEPT !.pending = TRUE]]

\* The rules are through: Alexa's catalogue is scheduled, the platform notified.
Notified(r) ==
  /\ runners[r].on = "change" /\ runners[r].todo = <<>>
  /\ Starting(r, Idle)
  /\ sync' = [sync EXCEPT !.catalog = TRUE]
  /\ notices' = Enqueued(runners[r].endpoint)
  /\ UNCHANGED <<devices, paired, catalogue, calls, receipts, queued, flushes, cloud, trail, rules, minute, ran, recent, budget>>

Delivers(e) ==
  /\ notices[e].pending /\ ~notices[e].sending
  /\ notices' = [notices EXCEPT ![e].sending = TRUE]
  /\ UNCHANGED <<devices, paired, alexaVars, ruleVars, recent, budget>>

Delivered(e) ==
  /\ notices[e].sending
  /\ notices' = [notices EXCEPT ![e] = NoNotice]
  /\ recent' = recent \cup {e}
  /\ UNCHANGED <<devices, paired, alexaVars, ruleVars, budget>>

GivenUp(e) == IF notices[e].attempts = 2 THEN NoNotice ELSE [notices[e] EXCEPT !.attempts = @ + 1, !.sending = FALSE]

\* Three failures end it, earlier ones are tried again.
DeliveryFails(e) ==
  /\ Spend("faults") /\ notices[e].sending
  /\ notices' = [notices EXCEPT ![e] = GivenUp(e)]
  /\ UNCHANGED <<devices, paired, alexaVars, ruleVars, recent>>

SecondPasses(e) ==
  /\ e \in recent
  /\ recent' = recent \ {e}
  /\ UNCHANGED <<devices, paired, alexaVars, ruleVars, notices, budget>>

(***************************************************************************)
(* Directives, pairing, restarts.                                           *)
(***************************************************************************)
Directive(m) ==
  /\ Spend("directives") /\ Arrives(m)
  /\ UNCHANGED <<devices, paired, catalogue, receipts, sync, queued, flushes, cloud, trail, ruleVars, noticeVars>>

Pairs ==
  /\ Spend("pairs") /\ ~paired /\ paired' = TRUE
  /\ UNCHANGED <<devices, alexaVars, ruleVars, noticeVars>>

Restarts ==
  /\ Spend("crashes")
  /\ AlexaRestarts
  /\ runners' = [r \in Runner |-> Idle]
  /\ rules' = [r \in Rule |-> [cooling |-> FALSE, key |-> 0]]
  /\ ran' = [ran EXCEPT !.late = Rule]
  /\ notices' = [e \in Endpoint |-> NoNotice] /\ recent' = {}
  /\ UNCHANGED <<devices, paired, minute>>

AlexaSteps ==
  /\ \/ \E m \in Message : Executed(m) \/ ReceiptSaved(m)
     \/ Flushes \/ (\E i \in DOMAIN flushes : Reported(i))
     \/ Pushes \/ Pushed
  /\ UNCHANGED <<ruleVars, noticeVars, budget>>
AlexaFails ==
  /\ Spend("faults")
  /\ (\E m \in Message : ExecutionFails(m) \/ ReceiptFails(m)) \/ (\E i \in DOMAIN flushes : ReportFails(i)) \/ PushFails
  /\ UNCHANGED <<ruleVars, noticeVars>>

Next ==
  \/ \E r \in Runner : Ticks(r) \/ Passes(r) \/ Runs(r) \/ RunEnds(r) \/ RunAborts(r) \/ TickEnds(r) \/ Notified(r) \/ \E e \in Endpoint : Changes(e, r)
  \/ \E r \in Rule : Cools(r)
  \/ \E e \in Endpoint : Delivers(e) \/ Delivered(e) \/ DeliveryFails(e) \/ SecondPasses(e)
  \/ \E m \in Message : Directive(m)
  \/ MinutePasses \/ Pairs \/ Restarts \/ AlexaSteps \/ AlexaFails

Spec == Init /\ [][Next]_vars

\* Requests answer or fail, timers fire.
Fairness ==
  /\ WF_vars(Pushes /\ UNCHANGED <<ruleVars, noticeVars, budget>>)
  /\ WF_vars(Pushed /\ UNCHANGED <<ruleVars, noticeVars, budget>>)
  /\ \A e \in Endpoint : WF_vars(Delivers(e)) /\ WF_vars(Delivered(e) \/ DeliveryFails(e))
FairSpec == Spec /\ Fairness

\* automation.js:144-155: the ticks run a rule once for a minute, though one may begin
\* while another still waits for a rule's actions, and though changes of devices run the
\* rules of the clock as well and start their cooldown.  Those runs are not counted: the
\* code sets no bound to them but the cooldown.  Exempt are rules that a tick of an
\* earlier minute reached after a tick of a later one, and restarts.
OncePerMinute == \A r \in Rule \ ran.late, m \in 1..MaxMinute : ran.count[r][m] <= 1

\* platformSync.js:11-51, stateChangeNotifier.js:20-63: on a hub that was paired when it
\* started, the platform ends up with the catalogue of the last building, whatever was
\* dropped or failed; and every notice is delivered or given up.
Arrival ==
  /\ <>[](sync.status /\ cloud.catalogue = catalogue) \/ <>[](~sync.status)
  /\ \A e \in Endpoint : notices[e].pending ~> ~notices[e].pending
=============================================================================
