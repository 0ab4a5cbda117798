------------------------------- MODULE HeatingDemand -------------------------------
(***************************************************************************)
(* The heating demand controller (src/src/heatingDemandController.js): it   *)
(* turns one boiler on while a radiator calls for heat and off otherwise.   *)
(* An evaluation is one asynchronous function with awaits at which timers,  *)
(* device reports, API calls and other evaluations interleave; at most one  *)
(* evaluation is in flight, and a caller that finds one joins it.           *)
(*                                                                          *)
(* Time is counted in ticks and kept as ages and remaining waits, so the    *)
(* behaviours go on for ever while the states are finitely many.            *)
(***************************************************************************)
EXTENDS Integers, FiniteSets, Sequences

CONSTANTS
  Radiator,    \* the devices that may be labelled Radiator
  Boiler,      \* the one device labelled Boiler
  Fresh,       \* config.stateFreshnessSeconds, in ticks
  Grace,       \* config.unknownGraceSeconds, in ticks
  Cooldown,    \* config.commandCooldownSeconds, in ticks
  BaseDelay,   \* the 15 s of the first retry, in ticks
  MaxDelay,    \* the 300 s no retry delay exceeds, in ticks
  AsksTemperature,  \* config.requestTemperatureEnabled
  MaxElapsed,  \* bound: ticks that pass during one evaluation
  MaxEvents,   \* bound: changes, failing commands and runtime saves, API calls, restarts together
  Homes        \* bound: the radiators of a home, and how many of the events it goes without

ASSUME HeatingAssumption ==
  /\ Boiler \notin Radiator
  /\ Radiator # {}
  /\ {Fresh, Cooldown, BaseDelay, MaxElapsed, MaxEvents} \subseteq Nat
  /\ Grace \in Nat \ {0}
  /\ MaxDelay \in Nat /\ MaxDelay >= BaseDelay
  /\ AsksTemperature \in BOOLEAN
  /\ Homes \subseteq [radiators : SUBSET Radiator \ {{}}, without : 0..MaxEvents]

VARIABLES
  config,     \* the stored configuration in memory
  eligible,   \* the devices that are set up, labelled and have a climate surface
  reading,    \* what each radiator of the home last reported and how many ticks ago
  boiler,     \* the boiler as it is (real) and as it was last reported (shown)
  runtime,    \* the controller's runtime that is saved with the state
  signature,  \* lastCommandSignature, in memory only
  eval,       \* the evaluation in flight
  conf,       \* the configure call being served
  resync,     \* the mapping check of a device change, beside the evaluations
  saved,      \* the configuration and runtime a restart reads
  quiet,      \* history: a call that disables the control was answered, none enabled it since
  events      \* the bounded changes so far
vars == <<config, eligible, reading, boiler, runtime, signature, eval, conf, resync, saved, quiet, events>>

None == "none"
Modes == {"heat", "off"}
Device == DOMAIN reading \cup {Boiler}
Least(a, b) == IF a < b THEN a ELSE b
Most(a, b) == IF a > b THEN a ELSE b

(***************************************************************************)
(* Configuration and mapping.                                               *)
(***************************************************************************)
\* Without a chosen device the only boiler and every eligible radiator are taken.
Normalized(c) ==
  [c EXCEPT !.mapped =
    (IF c.mapped \cap Radiator # {} THEN c.mapped \cap Radiator ELSE eligible \cap Radiator)
      \cup ((c.mapped \cup eligible) \cap {Boiler})]

\* normalizeHeatingDemandConfig throws for anything else.
Valid(c) ==
  /\ c.mapped \subseteq eligible
  /\ c.enabled => Boiler \in c.mapped /\ c.mapped \cap Radiator # {}

LostMapping == ~(config.mapped \subseteq eligible)
Unmapped == [enabled |-> FALSE, mapped |-> config.mapped \cap eligible]

(***************************************************************************)
(* Demand.                                                                  *)
(***************************************************************************)
\* Faulty: a stale reading is believed.
StaleBelieved(r, ago) == reading[r].demand
\* A stale reading counts as unknown; age is taken at the start of the evaluation.
RadiatorDemand(r, ago) ==
  IF Most(0, reading[r].age - ago) > Fresh THEN "unknown" ELSE reading[r].demand

DemandOf(radiators, ago) ==
  LET demands == {RadiatorDemand(r, ago) : r \in radiators}
  IN  CASE "calling" \in demands -> "calling"
        [] "calling" \notin demands /\ demands # {"unknown"} -> "satisfied"
        [] OTHER -> "unknown"

\* Faulty: the end of the grace period changes nothing.
NeverFailsOff(demand, unknownFor) ==
  CASE demand = "calling" -> "heat"
    [] demand = "satisfied" -> "off"
    [] OTHER -> None
\* desiredBoilerMode; unknownFor is -1 when the demand was known before.
Desired(demand, unknownFor) ==
  CASE demand = "calling" -> "heat"
    [] demand = "satisfied" -> "off"
    [] demand = "unknown" /\ unknownFor >= Grace -> "off"
    [] OTHER -> None

Delay(failures) ==
  Least(MaxDelay, Most(BaseDelay, BaseDelay * 2^Least(failures - 1, 4)))

(***************************************************************************)
(* Values.                                                                  *)
(***************************************************************************)
Boilers == [mode : Modes, warm : BOOLEAN]
NoSignature == <<None, FALSE>>
Signatures == {NoSignature} \cup (Modes \X BOOLEAN)
Idle == [phase |-> "idle", execute |-> FALSE, config |-> [enabled |-> FALSE, mapped |-> {}],
         demand |-> None, boiler |-> [mode |-> "off", warm |-> FALSE], elapsed |-> 0,
         healthy |-> TRUE, desired |-> None, actions |-> <<>>]
NoCall == [phase |-> "idle", before |-> [enabled |-> FALSE, mapped |-> {}],
           next |-> [enabled |-> FALSE, mapped |-> {}], behind |-> FALSE]
FreshRuntime == [pending |-> None, failures |-> 0, retryIn |-> 0, since |-> 0,
                 result |-> None, unknownFor |-> -1]

Init ==
  /\ \E h \in Homes : /\ reading \in [h.radiators -> [demand : {"calling", "satisfied"}, age : {0}]]
                      /\ events = h.without
  /\ config \in {[enabled |-> FALSE, mapped |-> {}], [enabled |-> TRUE, mapped |-> Device]}
  /\ eligible = Device
  /\ \E m \in Modes : boiler = [real |-> [mode |-> m, warm |-> FALSE], shown |-> [mode |-> m, warm |-> FALSE]]
  /\ runtime = FreshRuntime
  /\ signature = NoSignature
  /\ eval = Idle
  /\ conf = NoCall
  /\ resync = FALSE
  /\ saved = [config |-> config, runtime |-> runtime]
  /\ quiet = FALSE

Bounded == events < MaxEvents /\ events' = events + 1

(***************************************************************************)
(* An evaluation.                                                           *)
(***************************************************************************)
Cleared(r) == [r EXCEPT !.pending = None]
\* What a restart makes of a saved runtime: the last command no longer matters to
\* it, since lastCommandSignature is forgotten.
Kept(r) == [r EXCEPT !.pending = None, !.result = None, !.since = 0]
Failed(r) == [r EXCEPT !.failures = Least(@ + 1, MaxEvents)]

\* The caller of configure that waits for the evaluation goes on when it ends.
Woken == CASE conf.phase = "wait1" -> [conf EXCEPT !.phase = IF conf.next.enabled THEN "eval2" ELSE "done"]
           [] conf.phase = "wait2" -> [conf EXCEPT !.phase = "done"]
           [] OTHER -> conf
\* It is told of an evaluation that throws.
Rejected == IF conf.phase \in {"wait1", "wait2"} THEN NoCall ELSE conf

\* evaluate: begins an evaluation; its syncMappings saves at once when a mapping is lost.
Begin(execute) ==
  /\ eval.phase = "idle"
  /\ IF LostMapping
     THEN /\ config' = Unmapped
          /\ eval' = [Idle EXCEPT !.phase = "sync", !.execute = execute, !.config = config]
     ELSE /\ config' = config
          /\ eval' = [Idle EXCEPT !.phase = "capture", !.execute = execute]

StartEval(execute) ==
  /\ Begin(execute)
  /\ execute \/ Bounded
  /\ execute => events' = events
  /\ UNCHANGED <<eligible, reading, boiler, runtime, signature, conf, resync, saved, quiet>>

SyncSaved ==
  /\ eval.phase = "sync"
  /\ runtime' = Cleared(runtime)
  /\ saved' = [config |-> config, runtime |-> Kept(runtime')]
  /\ eval' = [eval EXCEPT !.phase = "capture"]
  /\ UNCHANGED <<config, eligible, reading, boiler, signature, conf, resync, quiet, events>>

\* No configuration save overlaps one that fails: what the store's rollback then
\* does to the others is the subject of StateStore.  The store writes one save
\* after the other: that of configure waits for an evaluation's that came before.
Alone == conf.phase # "saving" /\ ~resync

\* The save of the mapping throws: the configuration is rolled back, the evaluation ends.
SyncFails ==
  /\ eval.phase = "sync" /\ Alone
  /\ config' = eval.config
  /\ runtime' = Failed(runtime)
  /\ eval' = Idle
  /\ conf' = Woken
  /\ UNCHANGED <<eligible, reading, boiler, signature, resync, saved, quiet, events>>

\* The devices and the configuration are read; then the integrations are awaited.
Capture ==
  /\ eval.phase = "capture"
  /\ LET c == Normalized(config)
     IN  IF Valid(c)
         THEN /\ eval' = [eval EXCEPT !.phase = "read", !.config = c,
                            !.demand = DemandOf(c.mapped \cap Radiator, eval.elapsed),
                            !.boiler = boiler.shown]
              /\ UNCHANGED <<runtime, saved, conf>>
         ELSE /\ runtime' = Failed(runtime)
              /\ saved' = [config |-> config, runtime |-> Kept(runtime')]
              /\ eval' = Idle
              /\ conf' = Woken
  /\ UNCHANGED <<config, eligible, reading, boiler, signature, resync, quiet, events>>

\* The integrations are known: the demand is judged and recorded.
Judge(healthy) ==
  /\ eval.phase = "read"
  /\ healthy \/ Bounded
  /\ healthy => events' = events
  /\ LET unknownFor == IF eval.demand # "unknown" THEN -1
                       ELSE IF runtime.unknownFor >= 0 THEN runtime.unknownFor ELSE eval.elapsed
     IN  /\ runtime' = [runtime EXCEPT !.unknownFor = unknownFor]
         /\ eval' = [eval EXCEPT !.phase = "judged", !.healthy = healthy, !.demand = None,
                       !.desired = Desired(eval.demand, unknownFor - eval.elapsed)]
  /\ UNCHANGED <<config, eligible, reading, boiler, signature, conf, resync, saved, quiet>>

NeedsMode == eval.boiler.mode # eval.desired
NeedsTemperature == eval.desired = "heat" /\ AsksTemperature /\ ~eval.boiler.warm
NewSignature == <<eval.desired, NeedsTemperature>>

Acts == /\ eval.execute /\ eval.config.enabled /\ Boiler \in eval.config.mapped
        /\ eval.desired # None /\ eval.healthy
\* Faulty: the same command is never sent again.
CoolsForEver == /\ runtime.result \in {"accepted", "observed"}
                /\ signature = NewSignature
Cooling == /\ runtime.result \in {"accepted", "observed"}
           /\ signature = NewSignature
           /\ runtime.since < Cooldown

Calm == [runtime EXCEPT !.failures = 0, !.retryIn = 0]
Observed == [runtime EXCEPT !.pending = None, !.result = "observed"]

\* The runtime after applyDesiredState when it sends nothing.
Settled ==
  IF ~Acts \/ runtime.retryIn > 0 \/ (runtime.pending = None /\ Cooling) THEN runtime
  ELSE IF runtime.pending # None
       THEN IF ~NeedsMode /\ ~NeedsTemperature /\ eval.boiler.mode = runtime.pending THEN Observed ELSE runtime
       ELSE Calm

Sends == Acts /\ runtime.retryIn = 0 /\ runtime.pending = None /\ ~Cooling /\ (NeedsMode \/ NeedsTemperature)

\* applyDesiredState up to the call of executeAction, or to the save that ends it.
Apply ==
  /\ eval.phase = "judged"
  /\ IF Sends
     THEN /\ eval' = [eval EXCEPT !.phase = "command",
                !.actions = (IF NeedsMode THEN <<"mode">> ELSE <<>>) \o (IF NeedsTemperature THEN <<"warm">> ELSE <<>>)]
          /\ UNCHANGED runtime
     ELSE /\ eval' = [eval EXCEPT !.phase = "finish"]
          /\ runtime' = Settled
  /\ UNCHANGED <<config, eligible, reading, boiler, signature, conf, resync, saved, quiet, events>>

Effect == IF Head(eval.actions) = "mode" THEN [boiler.real EXCEPT !.mode = eval.desired]
                                         ELSE [boiler.real EXCEPT !.warm = TRUE]

\* executeAction returns; the boiler may yet have lost the command.
Accepted(lost) ==
  /\ eval.phase = "command"
  /\ lost => Bounded
  /\ ~lost => events' = events
  /\ boiler' = IF lost THEN boiler ELSE [boiler EXCEPT !.real = Effect]
  /\ signature' = NewSignature
  /\ runtime' = [runtime EXCEPT !.pending = eval.desired, !.result = "accepted", !.since = 0,
                   !.failures = 0, !.retryIn = 0]
  /\ eval' = [eval EXCEPT !.phase = "between", !.actions = Tail(@)]
  /\ UNCHANGED <<config, eligible, reading, conf, resync, saved, quiet>>

\* The runtime a failed command leaves.
AfterFailure(r) ==
  LET f == Failed(r) IN
  [f EXCEPT !.pending = None, !.result = "failed", !.since = 0, !.retryIn = Delay(f.failures)]

\* executeAction throws, with or without the boiler having taken the command; the rest is dropped.
CommandFails(taken) ==
  /\ eval.phase = "command"
  /\ Bounded
  /\ boiler' = IF taken THEN [boiler EXCEPT !.real = Effect] ELSE boiler
  /\ runtime' = AfterFailure(runtime)
  /\ eval' = [eval EXCEPT !.phase = "between", !.actions = <<>>]
  /\ UNCHANGED <<config, eligible, reading, signature, conf, resync, saved, quiet>>

NextCommand ==
  /\ eval.phase = "between" /\ eval.actions # <<>>
  /\ eval' = [eval EXCEPT !.phase = "command"]
  /\ UNCHANGED <<config, eligible, reading, boiler, runtime, signature, conf, resync, saved, quiet, events>>

CommandsSaved ==
  /\ eval.phase = "between" /\ eval.actions = <<>>
  /\ saved' = [config |-> config, runtime |-> Kept(runtime)]
  /\ eval' = [eval EXCEPT !.phase = "finish"]
  /\ UNCHANGED <<config, eligible, reading, boiler, runtime, signature, conf, resync, quiet, events>>

Finish ==
  /\ eval.phase = "finish"
  /\ saved' = [config |-> config, runtime |-> Kept(runtime)]
  /\ eval' = Idle
  /\ conf' = Woken
  /\ UNCHANGED <<config, eligible, reading, boiler, runtime, signature, resync, quiet, events>>

\* A save of the runtime throws and so does the evaluation.
SaveFails ==
  /\ eval.phase = "finish" \/ (eval.phase = "between" /\ eval.actions = <<>>)
  /\ Alone /\ Bounded
  /\ eval' = Idle
  /\ conf' = Rejected
  /\ UNCHANGED <<config, eligible, reading, boiler, runtime, signature, resync, saved, quiet>>

(***************************************************************************)
(* reconcileDeviceChange: its own mapping check, beside any evaluation; the *)
(* evaluation it then asks for is StartEval(TRUE) or is joined.             *)
(***************************************************************************)
Resync ==
  /\ ~resync /\ LostMapping
  /\ config' = Unmapped
  /\ resync' = TRUE
  /\ UNCHANGED <<eligible, reading, boiler, runtime, signature, eval, conf, saved, quiet, events>>

ResyncSaved ==
  /\ resync
  /\ runtime' = Cleared(runtime)
  /\ saved' = [config |-> config, runtime |-> Kept(runtime')]
  /\ resync' = FALSE
  /\ UNCHANGED <<config, eligible, reading, boiler, signature, eval, conf, quiet, events>>

(***************************************************************************)
(* configure, as the API calls it.                                          *)
(***************************************************************************)
Configure ==
  /\ conf.phase = "idle"
  /\ Bounded
  /\ \E on \in BOOLEAN, m \in {config.mapped, Device} :
       LET c == Normalized([enabled |-> on, mapped |-> m]) IN
       /\ Valid(c)
       /\ conf' = [phase |-> "saving", before |-> config, next |-> c, behind |-> eval.phase = "sync"]
       /\ config' = c
       /\ quiet' = (quiet /\ ~on)
  /\ UNCHANGED <<eligible, reading, boiler, runtime, signature, eval, resync, saved>>

ConfigSaved ==
  /\ conf.phase = "saving" /\ (conf.behind => eval.phase # "sync")
  /\ IF conf.before # conf.next
     THEN runtime' = [runtime EXCEPT !.pending = None, !.retryIn = 0]
     ELSE UNCHANGED runtime
  /\ saved' = [saved EXCEPT !.config = config]
  /\ conf' = [conf EXCEPT !.phase = "eval1"]
  /\ UNCHANGED <<config, eligible, reading, boiler, signature, eval, resync, quiet, events>>

ConfigFails ==
  /\ conf.phase = "saving" /\ eval.phase # "sync" /\ ~resync
  /\ config' = conf.before
  /\ conf' = NoCall
  /\ UNCHANGED <<eligible, reading, boiler, runtime, signature, eval, resync, saved, quiet, events>>

\* Faulty: the caller does not wait for an evaluation it finds in flight.
NotWaiting(phase) ==
  IF eval.phase = "idle" THEN [conf EXCEPT !.phase = phase]
  ELSE [conf EXCEPT !.phase = IF phase = "wait1" /\ conf.next.enabled THEN "eval2" ELSE "done"]
Waiting(phase) == [conf EXCEPT !.phase = phase]

\* evaluate: begins an evaluation or joins the one in flight, whatever it executes.
BeginOrJoin(execute) ==
  \/ Begin(execute)
  \/ eval.phase # "idle" /\ UNCHANGED <<eval, config>>

\* The save of the runtime and the record of configure precede its evaluations.
ConfigEvaluates ==
  /\ \/ conf.phase = "eval1" /\ BeginOrJoin(FALSE) /\ conf' = Waiting("wait1")
        /\ saved' = IF conf.before # conf.next THEN [saved EXCEPT !.runtime = Kept(runtime)] ELSE saved
     \/ conf.phase = "eval2" /\ BeginOrJoin(TRUE) /\ conf' = Waiting("wait2") /\ UNCHANGED saved
  /\ UNCHANGED <<eligible, reading, boiler, runtime, signature, resync, quiet, events>>

ConfigAnswers ==
  /\ conf.phase = "done"
  /\ quiet' = ~conf.next.enabled
  /\ conf' = NoCall
  /\ UNCHANGED <<config, eligible, reading, boiler, runtime, signature, eval, resync, saved, events>>

(***************************************************************************)
(* The home, the clock and restarts.                                        *)
(***************************************************************************)
Refresh(r) ==
  /\ reading' = [reading EXCEPT ![r].age = 0]
  /\ reading # reading'
  /\ UNCHANGED <<config, eligible, boiler, runtime, signature, eval, conf, resync, saved, quiet, events>>

DemandChanges(r) ==
  /\ Bounded
  /\ \E d \in {"calling", "satisfied", "unknown"} \ {reading[r].demand} :
       reading' = [reading EXCEPT ![r] = [demand |-> d, age |-> 0]]
  /\ UNCHANGED <<config, eligible, boiler, runtime, signature, eval, conf, resync, saved, quiet>>

BoilerReports ==
  /\ boiler.shown # boiler.real
  /\ boiler' = [boiler EXCEPT !.shown = boiler.real]
  /\ UNCHANGED <<config, eligible, reading, runtime, signature, eval, conf, resync, saved, quiet, events>>

BoilerTurned ==
  /\ Bounded
  /\ \E b \in Boilers : boiler' = [boiler EXCEPT !.real = b]
  /\ UNCHANGED <<config, eligible, reading, runtime, signature, eval, conf, resync, saved, quiet>>

EligibilityChanges(d) ==
  /\ Bounded
  /\ eligible' = IF d \in eligible THEN eligible \ {d} ELSE eligible \cup {d}
  /\ UNCHANGED <<config, reading, boiler, runtime, signature, eval, conf, resync, saved, quiet>>

\* One tick: every age grows to where it no longer matters, every wait shrinks.
Later(r) == [r EXCEPT !.retryIn = Most(0, @ - 1), !.since = IF r.result \in {None, "failed"} THEN @ ELSE Least(@ + 1, Cooldown),
                      !.unknownFor = IF @ < 0 THEN @ ELSE Least(@ + 1, Grace + MaxElapsed)]
Tick ==
  /\ eval.phase # "idle" => eval.elapsed < MaxElapsed
  /\ reading' = [r \in DOMAIN reading |-> [reading[r] EXCEPT !.age = Least(@ + 1, Fresh + MaxElapsed + 1)]]
  /\ runtime' = Later(runtime)
  /\ saved' = [saved EXCEPT !.runtime = Later(@)]
  /\ eval' = IF eval.phase = "idle" THEN eval ELSE [eval EXCEPT !.elapsed = @ + 1]
  /\ UNCHANGED <<config, eligible, boiler, signature, conf, resync, quiet, events>>

\* The process ends and starts again; a command may have reached the boiler.
Restart ==
  /\ Bounded
  /\ \/ UNCHANGED boiler
     \/ eval.phase = "command" /\ boiler' = [boiler EXCEPT !.real = Effect]
  /\ config' = saved.config
  /\ runtime' = saved.runtime
  /\ UNCHANGED saved
  /\ signature' = NoSignature
  /\ eval' = Idle
  /\ conf' = NoCall
  /\ resync' = FALSE
  /\ UNCHANGED <<eligible, reading, quiet>>

EvalStep ==
  \/ SyncSaved \/ Capture \/ Judge(TRUE) \/ Apply \/ Accepted(FALSE)
  \/ NextCommand \/ CommandsSaved \/ Finish
ConfStep == ConfigSaved \/ ConfigEvaluates \/ ConfigAnswers
Trouble ==
  \/ SyncFails \/ Judge(FALSE) \/ Accepted(TRUE) \/ SaveFails \/ ConfigFails
  \/ \E taken \in BOOLEAN : CommandFails(taken)
Home ==
  \/ BoilerReports \/ BoilerTurned
  \/ \E r \in DOMAIN reading : Refresh(r) \/ DemandChanges(r)
  \/ \E d \in Device : EligibilityChanges(d)

Next ==
  \/ \E execute \in BOOLEAN : StartEval(execute)
  \/ EvalStep \/ ConfStep \/ Configure \/ Resync \/ ResyncSaved
  \/ Trouble \/ Home \/ Tick \/ Restart

Spec == Init /\ [][Next]_vars

\* The interval timer keeps firing, awaited calls answer, the clock moves and
\* the boiler reports its state.
Fairness ==
  /\ WF_vars(StartEval(TRUE)) /\ WF_vars(EvalStep) /\ WF_vars(ConfStep)
  /\ WF_vars(ResyncSaved) /\ WF_vars(BoilerReports) /\ WF_vars(Tick)
FairSpec == Spec /\ Fairness

(***************************************************************************)
(* Properties.                                                              *)
(***************************************************************************)
Configs == [enabled : BOOLEAN, mapped : SUBSET Device]
Phases == {"idle", "sync", "capture", "read", "judged", "command", "between", "finish"}
Runtimes == [pending : Modes \cup {None}, failures : 0..MaxEvents, retryIn : 0..MaxDelay,
             since : 0..Cooldown, result : {None, "accepted", "observed", "failed"},
             unknownFor : -1..(Grace + MaxElapsed)]

\* The types of the variables.
TypeOK ==
  /\ config \in Configs
  /\ eligible \subseteq Device
  /\ reading \in [Device \ {Boiler} -> [demand : {"calling", "satisfied", "unknown"}, age : 0..(Fresh + MaxElapsed + 1)]]
  /\ boiler \in [real : Boilers, shown : Boilers]
  /\ runtime \in Runtimes
  /\ signature \in Signatures
  /\ eval \in [phase : Phases, execute : BOOLEAN, config : Configs,
               demand : {None, "calling", "satisfied", "unknown"}, boiler : Boilers,
               elapsed : 0..MaxElapsed, healthy : BOOLEAN, desired : Modes \cup {None},
               actions : {<<>>, <<"mode">>, <<"warm">>, <<"mode", "warm">>}]
  /\ eval.phase = "command" => eval.actions # <<>>
  /\ conf \in [phase : {"idle", "saving", "eval1", "wait1", "eval2", "wait2", "done"},
              before : Configs, next : Configs, behind : BOOLEAN]
  /\ conf.phase \in {"wait1", "wait2"} => eval.phase # "idle"
  /\ resync \in BOOLEAN
  /\ saved \in [config : Configs, runtime : Runtimes]
  /\ quiet \in BOOLEAN
  /\ events \in 0..MaxEvents

Sending == eval.phase # "command" /\ eval'.phase = "command"

(* Once configure has answered that control is disabled, no command goes to  *)
(* the boiler until a call enables it: an evaluation that was in flight with *)
(* the old configuration has ended by then.                                  *)
DisabledSendsNothing == [][Sending => ~quiet]_vars

(* A heat command is not sent unless a mapped radiator was freshly calling   *)
(* when the evaluation began, an off command never while one was: a reading  *)
(* no older than the evaluation (age at most elapsed) may have come since.   *)
CallingBefore(r) == reading[r].demand = "calling" /\ reading[r].age > eval.elapsed
CommandsMatchDemand ==
  [][Sending =>
      LET radiators == eval.config.mapped \cap Radiator IN
      /\ eval.desired = "heat" =>
           \E r \in radiators : \/ reading[r].age <= eval.elapsed
                                \/ CallingBefore(r) /\ reading[r].age - eval.elapsed <= Fresh
      /\ eval.desired = "off" =>
           ~\E r \in radiators : CallingBefore(r) /\ reading[r].age <= Fresh]_vars

Demand == DemandOf(config.mapped \cap Radiator, 0)
Controls == config.enabled /\ config.mapped \subseteq eligible /\ ~resync
Wanted(m) == Controls /\ Demand = (IF m = "heat" THEN "calling" ELSE "satisfied")
Ready == eval.phase = "idle" /\ runtime.pending = None

(* As long as the demand stays and no command is pending, the boiler follows *)
(* it in the end, over failed commands, retries and someone turning it.      *)
BoilerFollowsDemand ==
  \A m \in Modes : (Ready /\ Wanted(m)) ~> (boiler.real.mode = m \/ ~Wanted(m) \/ runtime.pending # None)

(* As long as every radiator stays unknown and no command is pending, the    *)
(* boiler is turned off in the end: the grace period runs out.               *)
UnknownFailsOff ==
  (Ready /\ Controls /\ Demand = "unknown") ~>
    (boiler.real.mode = "off" \/ ~Controls \/ Demand # "unknown" \/ runtime.pending # None)

(* Violated by the code. The marker of a pending command is "transient", so  *)
(* it goes away in the end; but it is only cleared by an evaluation that     *)
(* wants the mode the command asked for. When the demand turns before the    *)
(* boiler's report is seen, every later evaluation returns at the marker.    *)
PendingIsTransient ==
  \A m \in Modes : (runtime.pending = m /\ Controls) ~> (runtime.pending # m \/ ~Controls)
=============================================================================
