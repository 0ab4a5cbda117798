-------------------------- MODULE ThermostatProofs --------------------------
(***************************************************************************)
(* Proofs about thermostats.                                               *)
(*                                                                         *)
(* Of HeatingDemand, for every home, every setting of the controller and   *)
(* any number of events: the types and what may be sent to the boiler.     *)
(*                                                                         *)
(* Of NestHome, for any number of thermostats, grants and events: that     *)
(* records, setups and commands stay with their thermostat.                *)
(***************************************************************************)
EXTENDS HeatingDemand, NestHome, FiniteSetTheorems, SequenceTheorems, WellFoundedInduction, TLAPS

(***************************************************************************)
(* HeatingDemand: types.                                                   *)
(***************************************************************************)
Results == {None, "accepted", "observed", "failed"}
Demands == {None, "calling", "satisfied", "unknown"}
Readings == [demand : {"calling", "satisfied", "unknown"}, age : 0..(Fresh + MaxElapsed + 1)]
Actions == {<<>>, <<"mode">>, <<"warm">>, <<"mode", "warm">>}
Evaluations ==
  [phase : Phases, execute : BOOLEAN, config : Configs, demand : Demands, boiler : Boilers,
   elapsed : 0..MaxElapsed, healthy : BOOLEAN, desired : Modes \cup {None}, actions : Actions]
Calls ==
  [phase : {"idle", "saving", "eval1", "wait1", "eval2", "wait2", "done"},
   before : Configs, next : Configs, behind : BOOLEAN]

(* TypeOK, and: the boiler is no radiator, and what is sent to it is a mode. *)
HomeTypes ==
  /\ eligible \subseteq Device
  /\ reading \in [DOMAIN reading -> Readings]
  /\ DOMAIN reading \subseteq Radiator
  /\ boiler \in [real : Boilers, shown : Boilers]
  /\ resync \in BOOLEAN
  /\ quiet \in BOOLEAN
  /\ events \in 0..MaxEvents

ControllerTypes ==
  /\ config \in Configs
  /\ runtime \in Runtimes
  /\ signature \in Signatures
  /\ saved \in [config : Configs, runtime : Runtimes]
  /\ eval \in Evaluations
  /\ eval.phase = "command" => eval.actions # <<>>
  /\ eval.phase \in {"command", "between"} => eval.desired \in Modes
  /\ conf \in Calls
  /\ conf.phase \in {"wait1", "wait2"} => eval.phase # "idle"

Types == HomeTypes /\ ControllerTypes

LEMMA TypesImply == Types => TypeOK
<1>1. DOMAIN reading \subseteq Radiator => Device \ {Boiler} = DOMAIN reading
  BY HeatingAssumption DEF Device
<1>. QED  BY <1>1 DEF Types, HomeTypes, ControllerTypes, TypeOK, Readings, Evaluations, Calls, Demands, Actions

(* What HeatingAssumption says of the numbers. *)
LEMMA Numbers ==
  /\ Fresh \in Nat /\ Cooldown \in Nat /\ BaseDelay \in Nat
  /\ MaxElapsed \in Nat /\ MaxEvents \in Nat
  /\ Grace \in Nat \ {0}
  /\ MaxDelay \in Nat /\ MaxDelay >= BaseDelay
BY HeatingAssumption

LEMMA DelayType == ASSUME NEW f \in Nat PROVE Delay(f) \in 0..MaxDelay
BY Numbers DEF Delay, Least, Most

LEMMA NormalizedType ==
  ASSUME Types, NEW c \in Configs
  PROVE  /\ Normalized(c) \in Configs
         /\ Normalized(c).enabled = c.enabled
BY DEF Types, HomeTypes, ControllerTypes, Configs, Normalized, Device

LEMMA UnmappedType ==
  ASSUME Types
  PROVE  Unmapped \in Configs /\ ~Unmapped.enabled
BY DEF Types, HomeTypes, ControllerTypes, Configs, Unmapped

(* A runtime stays one when a field takes another of its values. *)
LEMMA RuntimeFields ==
  ASSUME NEW r \in Runtimes
  PROVE  /\ r.failures \in 0..MaxEvents
         /\ r.retryIn \in 0..MaxDelay
         /\ r.since \in 0..Cooldown
         /\ r.unknownFor \in -1..(Grace + MaxElapsed)
BY DEF Runtimes

LEMMA RuntimeWith ==
  ASSUME NEW r \in Runtimes
  PROVE  /\ \A p \in Modes \cup {None} : [r EXCEPT !.pending = p] \in Runtimes
         /\ \A f \in 0..MaxEvents : [r EXCEPT !.failures = f] \in Runtimes
         /\ \A d \in 0..MaxDelay : [r EXCEPT !.retryIn = d] \in Runtimes
         /\ \A t \in 0..Cooldown : [r EXCEPT !.since = t] \in Runtimes
         /\ \A x \in Results : [r EXCEPT !.result = x] \in Runtimes
         /\ \A u \in -1..(Grace + MaxElapsed) : [r EXCEPT !.unknownFor = u] \in Runtimes
BY DEF Runtimes, Results

LEMMA ClearedType == ASSUME NEW r \in Runtimes PROVE Cleared(r) \in Runtimes
BY RuntimeWith DEF Cleared

LEMMA KeptType == ASSUME NEW r \in Runtimes PROVE Kept(r) \in Runtimes
<1>. DEFINE a == [r EXCEPT !.pending = None]
            b == [a EXCEPT !.result = None]
<1>1. a \in Runtimes
  BY RuntimeWith
<1>2. b \in Runtimes
  BY <1>1, RuntimeWith DEF Results
<1>3. Kept(r) = [b EXCEPT !.since = 0]
  BY DEF Kept
<1>4. 0 \in 0..Cooldown
  BY Numbers
<1>. HIDE DEF b
<1>. QED  BY <1>2, <1>3, <1>4, RuntimeWith

LEMMA FailedType == ASSUME NEW r \in Runtimes PROVE Failed(r) \in Runtimes
<1>1. Least(r.failures + 1, MaxEvents) \in 0..MaxEvents
  BY Numbers, RuntimeFields DEF Least
<1>. QED  BY <1>1 DEF Runtimes, Failed

LEMMA AfterFailureType == ASSUME NEW r \in Runtimes PROVE AfterFailure(r) \in Runtimes
<1>. DEFINE f == Failed(r)
            a == [f EXCEPT !.pending = None]
            b == [a EXCEPT !.result = "failed"]
            c == [b EXCEPT !.since = 0]
<1>1. f \in Runtimes
  BY FailedType
<1>. HIDE DEF f
<1>2. a \in Runtimes
  BY <1>1, RuntimeWith
<1>. HIDE DEF a
<1>3. b \in Runtimes
  BY <1>2, RuntimeWith DEF Results
<1>. HIDE DEF b
<1>4. c \in Runtimes
  BY <1>3, RuntimeWith, Numbers
<1>5. Delay(f.failures) \in 0..MaxDelay
  BY <1>1, DelayType, RuntimeFields
<1>6. AfterFailure(r) = [c EXCEPT !.retryIn = Delay(f.failures)]
  BY DEF AfterFailure, f, a, b
<1>. HIDE DEF c
<1>. QED  BY <1>4, <1>5, <1>6, RuntimeWith

LEMMA LaterType == ASSUME NEW r \in Runtimes PROVE Later(r) \in Runtimes
<1>. DEFINE since == IF r.result \in {None, "failed"} THEN r.since ELSE Least(r.since + 1, Cooldown)
            unknown == IF r.unknownFor < 0 THEN r.unknownFor ELSE Least(r.unknownFor + 1, Grace + MaxElapsed)
            a == [r EXCEPT !.retryIn = Most(0, r.retryIn - 1)]
            b == [a EXCEPT !.since = since]
<1>1. /\ Most(0, r.retryIn - 1) \in 0..MaxDelay
      /\ since \in 0..Cooldown
      /\ unknown \in -1..(Grace + MaxElapsed)
  BY Numbers, RuntimeFields DEF Most, Least
<1>2. Later(r) = [b EXCEPT !.unknownFor = unknown]
  BY DEF Later, Runtimes
<1>3. a \in Runtimes
  BY <1>1, RuntimeWith
<1>4. b \in Runtimes
  BY <1>1, <1>3, RuntimeWith
<1>. HIDE DEF b, unknown
<1>. QED  BY <1>1, <1>2, <1>4, RuntimeWith

(* The same for an evaluation. *)
LEMMA EvaluationWith ==
  ASSUME NEW e \in Evaluations
  PROVE  /\ \A p \in Phases : [e EXCEPT !.phase = p] \in Evaluations
         /\ \A x \in BOOLEAN : [e EXCEPT !.execute = x] \in Evaluations
         /\ \A c \in Configs : [e EXCEPT !.config = c] \in Evaluations
         /\ \A d \in Demands : [e EXCEPT !.demand = d] \in Evaluations
         /\ \A b \in Boilers : [e EXCEPT !.boiler = b] \in Evaluations
         /\ \A t \in 0..MaxElapsed : [e EXCEPT !.elapsed = t] \in Evaluations
         /\ \A h \in BOOLEAN : [e EXCEPT !.healthy = h] \in Evaluations
         /\ \A m \in Modes \cup {None} : [e EXCEPT !.desired = m] \in Evaluations
         /\ \A a \in Actions : [e EXCEPT !.actions = a] \in Evaluations
BY DEF Evaluations

LEMMA IdleType == Idle \in Evaluations /\ Idle.phase = "idle"
BY Numbers DEF Idle, Evaluations, Phases, Configs, Boilers, Modes, Demands, Actions

LEMMA NoCallType == NoCall \in Calls
BY DEF NoCall, Calls, Configs

LEMMA InitTypes == Init => Types
<1>. SUFFICES ASSUME Init PROVE Types
  OBVIOUS
<1>1. PICK h \in Homes : /\ reading \in [h.radiators -> [demand : {"calling", "satisfied"}, age : {0}]]
                         /\ events = h.without
  BY DEF Init
<1>2. h.radiators \subseteq Radiator /\ h.without \in 0..MaxEvents
  BY HeatingAssumption
<1>3. DOMAIN reading \subseteq Radiator /\ reading \in [DOMAIN reading -> Readings]
  BY <1>1, <1>2, Numbers DEF Readings
<1>4. FreshRuntime \in Runtimes
  BY Numbers DEF FreshRuntime, Runtimes
<1>5. config \in Configs /\ saved \in [config : Configs, runtime : Runtimes]
  <2>1. [enabled |-> FALSE, mapped |-> {}] \in Configs /\ [enabled |-> TRUE, mapped |-> Device] \in Configs
    BY DEF Configs
  <2>2. config \in Configs
    BY <2>1 DEF Init
  <2>. QED  BY <1>4, <2>2 DEF Init
<1>6. eval = Idle /\ Idle.phase = "idle" /\ conf = NoCall /\ NoCall.phase = "idle"
  BY DEF Init, Idle, NoCall
<1>7. boiler \in [real : Boilers, shown : Boilers]
  BY DEF Init, Boilers
<1>8. runtime \in Runtimes /\ signature \in Signatures /\ resync \in BOOLEAN /\ quiet \in BOOLEAN /\ eligible \subseteq Device
  BY <1>4 DEF Init, Signatures
<1>. QED
  BY <1>1, <1>2, <1>3, <1>5, <1>6, <1>7, <1>8, IdleType, NoCallType DEF Types, HomeTypes, ControllerTypes

-----------------------------------------------------------------------------
(* Begin and what waits for the end of an evaluation. *)
LEMMA DeviceSame ==
  ASSUME DOMAIN reading' = DOMAIN reading
  PROVE  Device' = Device /\ Configs' = Configs /\ Evaluations' = Evaluations /\ Calls' = Calls
BY DEF Device, Configs, Evaluations, Calls

LEMMA ReadingSame == UNCHANGED reading => DOMAIN reading' = DOMAIN reading
OBVIOUS

LEMMA HomeSame ==
  /\ Types /\ UNCHANGED <<eligible, reading, boiler, resync, quiet>> /\ events' \in 0..MaxEvents => HomeTypes'
  /\ Types /\ UNCHANGED <<eligible, reading, boiler, resync, quiet, events>> => HomeTypes'
BY ReadingSame, DeviceSame DEF Types, HomeTypes

LEMMA BeginTypes ==
  ASSUME Types, NEW execute \in BOOLEAN, Begin(execute)
  PROVE  /\ config' \in Configs
         /\ eval' \in Evaluations
         /\ eval'.phase \in {"sync", "capture"}
<1>. DEFINE a == [Idle EXCEPT !.phase = "sync"]
            b == [a EXCEPT !.execute = execute]
            c == [Idle EXCEPT !.phase = "capture"]
<1>1. a \in Evaluations /\ c \in Evaluations
  BY IdleType, EvaluationWith DEF Phases
<1>. HIDE DEF a, c
<1>2. b \in Evaluations /\ [c EXCEPT !.execute = execute] \in Evaluations
  BY <1>1, EvaluationWith
<1>. HIDE DEF b
<1>3. [b EXCEPT !.config = config] \in Evaluations
  BY <1>2, EvaluationWith DEF Types, HomeTypes, ControllerTypes
<1>4. eval' \in {[b EXCEPT !.config = config], [c EXCEPT !.execute = execute]}
  BY DEF Begin, a, b, c
<1>5. eval'.phase \in {"sync", "capture"}
  BY DEF Begin, Idle
<1>6. config' \in Configs
  BY UnmappedType DEF Begin, Types, HomeTypes, ControllerTypes
<1>. QED  BY <1>2, <1>3, <1>4, <1>5, <1>6

LEMMA WokenType ==
  ASSUME Types
  PROVE  /\ Woken \in Calls /\ Woken.phase \notin {"wait1", "wait2"}
         /\ Rejected \in Calls /\ Rejected.phase \notin {"wait1", "wait2"}
<1>1. conf \in Calls
  BY DEF Types, HomeTypes, ControllerTypes
<1>2. \A p \in {"eval2", "done"} : [conf EXCEPT !.phase = p] \in Calls /\ [conf EXCEPT !.phase = p].phase = p
  BY <1>1 DEF Calls
<1>. QED  BY <1>1, <1>2, NoCallType DEF Woken, Rejected, NoCall

(* One lemma per action. *)
LEMMA SyncSavedTypes == Types /\ SyncSaved => Types'
<1>. SUFFICES ASSUME Types, SyncSaved PROVE Types'
  OBVIOUS
<1>1. runtime' \in Runtimes /\ saved' \in [config : Configs, runtime : Runtimes]
  BY ClearedType, KeptType DEF SyncSaved, Types, HomeTypes, ControllerTypes
<1>2. eval' \in Evaluations
  BY EvaluationWith DEF SyncSaved, Types, HomeTypes, ControllerTypes, Phases
<1>3. eval'.phase = "capture"
  BY DEF SyncSaved, Types, HomeTypes, ControllerTypes, Evaluations
<1>. QED  BY <1>1, <1>2, <1>3, HomeSame, ReadingSame, DeviceSame DEF SyncSaved, Types, HomeTypes, ControllerTypes

LEMMA CaptureTypes == Types /\ Capture => Types'
<1>. SUFFICES ASSUME Types, Capture PROVE Types'
  OBVIOUS
<1>. DEFINE c == Normalized(config)
<1>1. CASE Valid(c)
  <2>. DEFINE d == DemandOf(c.mapped \cap Radiator, eval.elapsed)
              e == [eval EXCEPT !.phase = "read"]
              f == [e EXCEPT !.config = c]
              g == [f EXCEPT !.demand = d]
  <2>1. c \in Configs /\ d \in Demands
    BY NormalizedType DEF Types, HomeTypes, ControllerTypes, DemandOf, Demands
  <2>2. e \in Evaluations
    BY EvaluationWith DEF Types, HomeTypes, ControllerTypes, Phases
  <2>. HIDE DEF c, d, e
  <2>3. f \in Evaluations
    BY <2>1, <2>2, EvaluationWith
  <2>. HIDE DEF f
  <2>4. g \in Evaluations
    BY <2>1, <2>3, EvaluationWith
  <2>. HIDE DEF g
  <2>5. eval' = [g EXCEPT !.boiler = boiler.shown]
    BY <1>1 DEF Capture, c, d, e, f, g
  <2>6. eval' \in Evaluations
    BY <2>4, <2>5, EvaluationWith DEF Types, HomeTypes, ControllerTypes
  <2>7. eval'.phase = "read"
    BY <1>1 DEF Capture, Types, HomeTypes, ControllerTypes, Evaluations, c
  <2>. QED  BY <1>1, <2>6, <2>7, HomeSame, ReadingSame, DeviceSame DEF Capture, Types, HomeTypes, ControllerTypes, c
<1>2. CASE ~Valid(c)
  <2>1. runtime' \in Runtimes /\ saved' \in [config : Configs, runtime : Runtimes]
    BY <1>2, FailedType, KeptType DEF Capture, Types, HomeTypes, ControllerTypes
  <2>. QED  BY <1>2, <2>1, IdleType, WokenType, HomeSame, ReadingSame, DeviceSame DEF Capture, Types, HomeTypes, ControllerTypes
<1>. QED  BY <1>1, <1>2

LEMMA JudgeTypes ==
  ASSUME Types, NEW healthy \in BOOLEAN, Judge(healthy)
  PROVE  Types'
<1>. DEFINE u == IF eval.demand # "unknown" THEN -1
                 ELSE IF runtime.unknownFor >= 0 THEN runtime.unknownFor ELSE eval.elapsed
            e == [eval EXCEPT !.phase = "judged"]
            f == [e EXCEPT !.healthy = healthy]
            g == [f EXCEPT !.demand = None]
<1>1. u \in -1..(Grace + MaxElapsed)
  BY Numbers, RuntimeFields DEF Types, HomeTypes, ControllerTypes, Evaluations
<1>2. e \in Evaluations
  BY EvaluationWith DEF Types, HomeTypes, ControllerTypes, Phases
<1>. HIDE DEF u, e
<1>3. f \in Evaluations
  BY <1>2, EvaluationWith
<1>. HIDE DEF f
<1>4. g \in Evaluations
  BY <1>3, EvaluationWith DEF Demands
<1>. HIDE DEF g
<1>5. eval' = [g EXCEPT !.desired = Desired(eval.demand, u - eval.elapsed)]
  BY DEF Judge, u, e, f, g
<1>6. Desired(eval.demand, u - eval.elapsed) \in Modes \cup {None}
  BY DEF Desired, Modes
<1>7. eval' \in Evaluations
  BY <1>4, <1>5, <1>6, EvaluationWith
<1>8. eval'.phase = "judged"
  BY DEF Judge, Types, HomeTypes, ControllerTypes, Evaluations
<1>9. runtime' \in Runtimes
  <2>1. runtime' = [runtime EXCEPT !.unknownFor = u]
    BY DEF Judge, u
  <2>. QED  BY <1>1, <2>1, RuntimeWith DEF Types, HomeTypes, ControllerTypes
<1>10. events' \in 0..MaxEvents
  BY Numbers DEF Judge, Bounded, Types, HomeTypes, ControllerTypes
<1>. QED  BY <1>7, <1>8, <1>9, <1>10, HomeSame, ReadingSame, DeviceSame DEF Judge, Types, HomeTypes, ControllerTypes

LEMMA EndTypes ==
  ASSUME Types, eval' = Idle, conf' \in {Woken, Rejected, NoCall}, config' \in Configs, runtime' \in Runtimes,
         saved' \in [config : Configs, runtime : Runtimes], signature' \in Signatures, DOMAIN reading' = DOMAIN reading
  PROVE  ControllerTypes'
<1>1. eval' \in Evaluations' /\ eval'.phase = "idle"
  BY IdleType, DeviceSame
<1>2. conf' \in Calls' /\ conf'.phase \notin {"wait1", "wait2"}
  <2>1. NoCall.phase = "idle"
    BY DEF NoCall
  <2>. QED  BY <2>1, WokenType, NoCallType, DeviceSame
<1>. QED  BY <1>1, <1>2, DeviceSame DEF ControllerTypes

LEMMA SyncFailsTypes == Types /\ SyncFails => Types'
<1>. SUFFICES ASSUME Types, SyncFails PROVE Types'
  OBVIOUS
<1>1. config' \in Configs /\ runtime' \in Runtimes
  BY FailedType DEF SyncFails, Evaluations, Types, HomeTypes, ControllerTypes
<1>. QED  BY <1>1, EndTypes, HomeSame, ReadingSame, DeviceSame DEF SyncFails, Types, HomeTypes, ControllerTypes

LEMMA FinishTypes == Types /\ (Finish \/ SaveFails) => Types'
<1>. SUFFICES ASSUME Types, Finish \/ SaveFails PROVE Types'
  OBVIOUS
<1>1. saved' \in [config : Configs, runtime : Runtimes] /\ events' \in 0..MaxEvents
  BY KeptType, Numbers DEF Finish, SaveFails, Bounded, Types, HomeTypes, ControllerTypes
<1>. QED  BY <1>1, EndTypes, HomeSame, ReadingSame, DeviceSame DEF Finish, SaveFails, Types, HomeTypes, ControllerTypes

(* applyDesiredState. *)
LEMMA ActionLists ==
  /\ <<"mode">> \o <<"warm">> = <<"mode", "warm">>
  /\ <<"mode">> \o <<>> = <<"mode">>
  /\ <<>> \o <<"warm">> = <<"warm">>
<1>. DEFINE S == {"mode", "warm"}
<1>1. <<"mode">> \in Seq(S) /\ <<"warm">> \in Seq(S) /\ <<"mode", "warm">> \in Seq(S)
  OBVIOUS
<1>2. /\ Len(<<"mode">>) = 1 /\ Len(<<"warm">>) = 1 /\ Len(<<"mode", "warm">>) = 2
      /\ <<"mode", "warm">>[1] = "mode" /\ <<"mode", "warm">>[2] = "warm"
      /\ <<"mode">>[1] = "mode" /\ <<"warm">>[1] = "warm"
  OBVIOUS
<1>. HIDE DEF S
<1>3. /\ <<"mode">> \o <<"warm">> \in Seq(S)
      /\ Len(<<"mode">> \o <<"warm">>) = 2
      /\ \A i \in 1..2 : (<<"mode">> \o <<"warm">>)[i] = IF i <= 1 THEN <<"mode">>[i] ELSE <<"warm">>[i - 1]
  BY <1>1, <1>2, ConcatProperties, SMT
<1>4. \A i \in 1..2 : (<<"mode">> \o <<"warm">>)[i] = <<"mode", "warm">>[i]
  BY <1>2, <1>3
<1>5. <<"mode">> \o <<"warm">> = <<"mode", "warm">>
  BY <1>1, <1>2, <1>3, <1>4, SeqEqual
<1>. QED  BY <1>1, <1>5, ConcatEmptySeq

LEMMA ApplyTypes == Types /\ Apply => Types'
<1>. SUFFICES ASSUME Types, Apply PROVE Types'
  OBVIOUS
<1>. DEFINE a == (IF NeedsMode THEN <<"mode">> ELSE <<>>) \o (IF NeedsTemperature THEN <<"warm">> ELSE <<>>)
            e == [eval EXCEPT !.phase = "command"]
<1>1. CASE Sends
  <2>1. a \in Actions /\ a # <<>>
    <3>1. <<"mode">> # <<>> /\ <<"warm">> # <<>> /\ <<"mode", "warm">> # <<>>
      OBVIOUS
    <3>2. CASE NeedsMode /\ NeedsTemperature
      <4>1. a = <<"mode", "warm">>
        BY <3>2, ActionLists
      <4>. QED  BY <3>1, <4>1 DEF Actions
    <3>3. CASE NeedsMode /\ ~NeedsTemperature
      <4>1. a = <<"mode">>
        BY <3>3, ActionLists
      <4>. QED  BY <3>1, <4>1 DEF Actions
    <3>4. CASE ~NeedsMode /\ NeedsTemperature
      <4>1. a = <<"warm">>
        BY <3>4, ActionLists
      <4>. QED  BY <3>1, <4>1 DEF Actions
    <3>. QED  BY <1>1, <3>2, <3>3, <3>4 DEF Sends
  <2>2. e \in Evaluations
    BY EvaluationWith DEF Phases, Types, HomeTypes, ControllerTypes
  <2>3. eval' = [e EXCEPT !.actions = a]
    BY <1>1 DEF Apply
  <2>. HIDE DEF a, e
  <2>4. eval' \in Evaluations
    BY <2>1, <2>2, <2>3, EvaluationWith
  <2>5. eval'.phase = "command" /\ eval'.actions = a /\ eval'.desired = eval.desired
    BY <2>2, <2>3 DEF Evaluations, e
  <2>6. eval.desired \in Modes
    BY <1>1 DEF Sends, Acts, Evaluations, Types, HomeTypes, ControllerTypes
  <2>. QED  BY <1>1, <2>1, <2>4, <2>5, <2>6, HomeSame, ReadingSame, DeviceSame DEF Apply, Types, HomeTypes, ControllerTypes
<1>2. CASE ~Sends
  <2>1. Observed \in Runtimes
    <3>1. [runtime EXCEPT !.pending = None] \in Runtimes
      BY RuntimeWith DEF Types, HomeTypes, ControllerTypes
    <3>. QED  BY <3>1, RuntimeWith DEF Observed, Results
  <2>2. Calm \in Runtimes
    <3>1. [runtime EXCEPT !.failures = 0] \in Runtimes
      BY RuntimeWith, Numbers DEF Types, HomeTypes, ControllerTypes
    <3>2. 0 \in 0..MaxDelay
      BY Numbers
    <3>. QED  BY <3>1, <3>2, RuntimeWith DEF Calm
  <2>3. runtime' \in Runtimes
    BY <1>2, <2>1, <2>2 DEF Apply, Settled, Types, HomeTypes, ControllerTypes
  <2>4. eval' \in Evaluations
    BY <1>2, EvaluationWith DEF Apply, Phases, Types, HomeTypes, ControllerTypes
  <2>5. eval'.phase = "finish"
    BY <1>2 DEF Apply, Evaluations, Types, HomeTypes, ControllerTypes
  <2>. QED  BY <1>2, <2>3, <2>4, <2>5, HomeSame, ReadingSame, DeviceSame DEF Apply, Types, HomeTypes, ControllerTypes
<1>. QED  BY <1>1, <1>2

LEMMA NextCommandTypes == Types /\ NextCommand => Types'
<1>. SUFFICES ASSUME Types, NextCommand PROVE Types'
  OBVIOUS
<1>1. eval' \in Evaluations
  BY EvaluationWith DEF NextCommand, Phases, Types, HomeTypes, ControllerTypes
<1>2. eval'.phase = "command" /\ eval'.actions = eval.actions /\ eval'.desired = eval.desired
  BY DEF NextCommand, Evaluations, Types, HomeTypes, ControllerTypes
<1>. QED  BY <1>1, <1>2, HomeSame, ReadingSame, DeviceSame DEF NextCommand, Types, HomeTypes, ControllerTypes

LEMMA CommandsSavedTypes == Types /\ CommandsSaved => Types'
<1>. SUFFICES ASSUME Types, CommandsSaved PROVE Types'
  OBVIOUS
<1>1. eval' \in Evaluations
  BY EvaluationWith DEF CommandsSaved, Phases, Types, HomeTypes, ControllerTypes
<1>2. eval'.phase = "finish"
  BY DEF CommandsSaved, Evaluations, Types, HomeTypes, ControllerTypes
<1>3. saved' \in [config : Configs, runtime : Runtimes]
  BY KeptType DEF CommandsSaved, Types, HomeTypes, ControllerTypes
<1>. QED  BY <1>1, <1>2, <1>3, HomeSame, ReadingSame, DeviceSame DEF CommandsSaved, Types, HomeTypes, ControllerTypes

LEMMA EffectType ==
  ASSUME Types, eval.phase = "command"
  PROVE  /\ [boiler EXCEPT !.real = Effect] \in [real : Boilers, shown : Boilers]
         /\ Tail(eval.actions) \in Actions
<1>1. Effect \in Boilers
  BY DEF Effect, Boilers, Types, HomeTypes, ControllerTypes
<1>2. Tail(<<"mode">>) = <<>> /\ Tail(<<"warm">>) = <<>> /\ Tail(<<"mode", "warm">>) = <<"warm">>
  OBVIOUS
<1>3. eval.actions \in {<<"mode">>, <<"warm">>, <<"mode", "warm">>}
  BY DEF Evaluations, Actions, Types, HomeTypes, ControllerTypes
<1>4. Tail(eval.actions) \in Actions
  BY <1>2, <1>3 DEF Actions
<1>. QED  BY <1>1, <1>4 DEF Types, HomeTypes, ControllerTypes

LEMMA AcceptedTypes ==
  ASSUME Types, NEW lost \in BOOLEAN, Accepted(lost)
  PROVE  Types'
<1>. DEFINE a == [runtime EXCEPT !.pending = eval.desired]
            b == [a EXCEPT !.result = "accepted"]
            c == [b EXCEPT !.since = 0]
            d == [c EXCEPT !.failures = 0]
            e == [eval EXCEPT !.phase = "between"]
<1>1. eval.phase = "command" /\ eval.desired \in Modes
  BY DEF Accepted, Types, HomeTypes, ControllerTypes
<1>2. a \in Runtimes
  BY <1>1, RuntimeWith DEF Types, HomeTypes, ControllerTypes
<1>. HIDE DEF a
<1>3. b \in Runtimes
  BY <1>2, RuntimeWith DEF Results
<1>. HIDE DEF b
<1>4. c \in Runtimes
  BY <1>3, RuntimeWith, Numbers
<1>. HIDE DEF c
<1>5. d \in Runtimes
  BY <1>4, RuntimeWith, Numbers
<1>. HIDE DEF d
<1>6. runtime' = [d EXCEPT !.retryIn = 0]
  BY DEF Accepted, a, b, c, d
<1>7. runtime' \in Runtimes
  BY <1>5, <1>6, RuntimeWith, Numbers
<1>8. e \in Evaluations
  BY EvaluationWith DEF Phases, Types, HomeTypes, ControllerTypes
<1>9. eval' = [e EXCEPT !.actions = Tail(eval.actions)]
  BY DEF Accepted
<1>10. eval' \in Evaluations
  BY <1>1, <1>8, <1>9, EvaluationWith, EffectType
<1>11. eval'.phase = "between" /\ eval'.desired = eval.desired
  BY DEF Accepted, Evaluations, Types, HomeTypes, ControllerTypes
<1>12. signature' \in Signatures
  BY <1>1 DEF Accepted, NewSignature, NeedsTemperature, Signatures
<1>13. boiler' \in [real : Boilers, shown : Boilers] /\ events' \in 0..MaxEvents
  BY <1>1, EffectType, Numbers DEF Accepted, Bounded, Types, HomeTypes, ControllerTypes
<1>14. UNCHANGED <<config, eligible, reading, conf, resync, saved, quiet>>
  BY DEF Accepted
<1>. QED
  BY <1>1, <1>7, <1>10, <1>11, <1>12, <1>13, <1>14, ReadingSame, DeviceSame DEF Types, HomeTypes, ControllerTypes

LEMMA CommandFailsTypes ==
  ASSUME Types, NEW taken \in BOOLEAN, CommandFails(taken)
  PROVE  Types'
<1>. DEFINE e == [eval EXCEPT !.phase = "between"]
<1>1. eval.phase = "command" /\ eval.desired \in Modes
  BY DEF CommandFails, Types, HomeTypes, ControllerTypes
<1>2. runtime' \in Runtimes
  BY AfterFailureType DEF CommandFails, Types, HomeTypes, ControllerTypes
<1>3. e \in Evaluations
  BY EvaluationWith DEF Phases, Types, HomeTypes, ControllerTypes
<1>4. eval' \in Evaluations
  BY <1>3, EvaluationWith DEF CommandFails, Actions
<1>5. eval'.phase = "between" /\ eval'.desired = eval.desired
  BY DEF CommandFails, Evaluations, Types, HomeTypes, ControllerTypes
<1>6. boiler' \in [real : Boilers, shown : Boilers] /\ events' \in 0..MaxEvents
  BY <1>1, EffectType, Numbers DEF CommandFails, Bounded, Types, HomeTypes, ControllerTypes
<1>7. UNCHANGED <<config, eligible, reading, signature, conf, resync, saved, quiet>>
  BY DEF CommandFails
<1>. QED
  BY <1>1, <1>2, <1>4, <1>5, <1>6, <1>7, ReadingSame, DeviceSame DEF Types, HomeTypes, ControllerTypes

LEMMA StartEvalTypes ==
  ASSUME Types, NEW execute \in BOOLEAN, StartEval(execute)
  PROVE  Types'
<1>1. events' \in 0..MaxEvents
  BY Numbers DEF StartEval, Bounded, Types, HomeTypes, ControllerTypes
<1>2. config' \in Configs /\ eval' \in Evaluations /\ eval'.phase \in {"sync", "capture"}
  BY BeginTypes DEF StartEval
<1>3. UNCHANGED <<eligible, reading, boiler, runtime, signature, conf, resync, saved, quiet>>
  BY DEF StartEval
<1>. QED  BY <1>1, <1>2, <1>3, HomeSame, ReadingSame, DeviceSame DEF Types, HomeTypes, ControllerTypes

(* reconcileDeviceChange and configure. *)
LEMMA ResyncTypes == Types /\ (Resync \/ ResyncSaved) => Types'
<1>. SUFFICES ASSUME Types, Resync \/ ResyncSaved PROVE Types'
  OBVIOUS
<1>1. config' \in Configs /\ runtime' \in Runtimes /\ saved' \in [config : Configs, runtime : Runtimes]
  BY UnmappedType, ClearedType, KeptType DEF Resync, ResyncSaved, Types, HomeTypes, ControllerTypes
<1>2. resync' \in BOOLEAN /\ UNCHANGED <<eligible, reading, boiler, signature, eval, conf, quiet, events>>
  BY DEF Resync, ResyncSaved
<1>. QED  BY <1>1, <1>2, ReadingSame, DeviceSame DEF Types, HomeTypes, ControllerTypes

LEMMA CallWith ==
  ASSUME NEW c \in Calls, NEW p \in {"eval1", "wait1", "eval2", "wait2", "done"}
  PROVE  [c EXCEPT !.phase = p] \in Calls /\ [c EXCEPT !.phase = p].phase = p
BY DEF Calls

LEMMA ConfigureTypes == Types /\ Configure => Types'
<1>. SUFFICES ASSUME Types, Configure PROVE Types'
  OBVIOUS
<1>1. PICK on \in BOOLEAN, m \in {config.mapped, Device} :
        LET c == Normalized([enabled |-> on, mapped |-> m]) IN
        /\ conf' = [phase |-> "saving", before |-> config, next |-> c, behind |-> eval.phase = "sync"]
        /\ config' = c
        /\ quiet' = (quiet /\ ~on)
  BY DEF Configure
<1>2. [enabled |-> on, mapped |-> m] \in Configs
  BY DEF Configs, Types, HomeTypes, ControllerTypes
<1>3. config' \in Configs
  BY <1>1, <1>2, NormalizedType
<1>4. conf' = [phase |-> "saving", before |-> config, next |-> config', behind |-> eval.phase = "sync"]
  BY <1>1
<1>5. conf' \in Calls /\ conf'.phase = "saving"
  BY <1>3, <1>4 DEF Calls, Types, HomeTypes, ControllerTypes
<1>6. quiet' \in BOOLEAN /\ events' \in 0..MaxEvents
  BY <1>1, Numbers DEF Configure, Bounded, Types, HomeTypes, ControllerTypes
<1>7. UNCHANGED <<eligible, reading, boiler, runtime, signature, eval, resync, saved>>
  BY DEF Configure
<1>. QED  BY <1>3, <1>5, <1>6, <1>7, ReadingSame, DeviceSame DEF Types, HomeTypes, ControllerTypes

LEMMA ConfigSavedTypes == Types /\ ConfigSaved => Types'
<1>. SUFFICES ASSUME Types, ConfigSaved PROVE Types'
  OBVIOUS
<1>1. runtime' \in Runtimes
  <2>1. [runtime EXCEPT !.pending = None] \in Runtimes
    BY RuntimeWith DEF Types, HomeTypes, ControllerTypes
  <2>2. 0 \in 0..MaxDelay
    BY Numbers
  <2>. DEFINE a == [runtime EXCEPT !.pending = None]
  <2>3. runtime' \in {runtime, [a EXCEPT !.retryIn = 0]}
    BY DEF ConfigSaved
  <2>. HIDE DEF a
  <2>4. a \in Runtimes
    BY <2>1 DEF a
  <2>. QED  BY <2>2, <2>3, <2>4, RuntimeWith DEF Types, HomeTypes, ControllerTypes
<1>2. conf' \in Calls /\ conf'.phase = "eval1"
  BY CallWith DEF ConfigSaved, Types, HomeTypes, ControllerTypes
<1>3. saved' \in [config : Configs, runtime : Runtimes]
  BY DEF ConfigSaved, Types, HomeTypes, ControllerTypes
<1>. QED  BY <1>1, <1>2, <1>3, HomeSame, ReadingSame, DeviceSame DEF ConfigSaved, Types, HomeTypes, ControllerTypes

LEMMA ConfigFailsTypes == Types /\ ConfigFails => Types'
<1>. SUFFICES ASSUME Types, ConfigFails PROVE Types'
  OBVIOUS
<1>1. config' \in Configs
  BY DEF ConfigFails, Calls, Types, HomeTypes, ControllerTypes
<1>2. NoCall.phase = "idle"
  BY DEF NoCall
<1>. QED  BY <1>1, <1>2, NoCallType, HomeSame, ReadingSame, DeviceSame DEF ConfigFails, Types, HomeTypes, ControllerTypes

LEMMA ConfigEvaluatesTypes == Types /\ ConfigEvaluates => Types'
<1>. SUFFICES ASSUME Types, ConfigEvaluates PROVE Types'
  OBVIOUS
<1>1. PICK execute \in BOOLEAN : BeginOrJoin(execute)
  BY DEF ConfigEvaluates
<1>2. /\ config' \in Configs
      /\ eval' \in Evaluations
      /\ eval'.phase # "idle"
      /\ eval'.phase = "command" => eval'.actions # <<>>
      /\ eval'.phase \in {"command", "between"} => eval'.desired \in Modes
  BY <1>1, BeginTypes DEF BeginOrJoin, Types, HomeTypes, ControllerTypes
<1>3. conf' \in Calls
  BY CallWith DEF ConfigEvaluates, Waiting, Types, HomeTypes, ControllerTypes
<1>4. saved' \in [config : Configs, runtime : Runtimes]
  BY KeptType DEF ConfigEvaluates, Types, HomeTypes, ControllerTypes
<1>5. UNCHANGED <<eligible, reading, boiler, runtime, signature, resync, quiet, events>>
  BY DEF ConfigEvaluates
<1>. QED  BY <1>2, <1>3, <1>4, <1>5, HomeSame, ReadingSame, DeviceSame DEF Types, HomeTypes, ControllerTypes

LEMMA ConfigAnswersTypes == Types /\ ConfigAnswers => Types'
<1>. SUFFICES ASSUME Types, ConfigAnswers PROVE Types'
  OBVIOUS
<1>1. quiet' \in BOOLEAN /\ conf' = NoCall /\ NoCall.phase = "idle"
  BY DEF ConfigAnswers, NoCall
<1>. QED  BY <1>1, NoCallType, ReadingSame, DeviceSame DEF ConfigAnswers, Types, HomeTypes, ControllerTypes

(* The home, the clock and restarts. *)
LEMMA HomeStepTypes == Types /\ Home => Types'
<1>. SUFFICES ASSUME Types, Home PROVE Types'
  OBVIOUS
<1>1. CASE BoilerReports
  <2>1. boiler' \in [real : Boilers, shown : Boilers]
    BY <1>1 DEF BoilerReports, Types, HomeTypes, ControllerTypes
  <2>. QED  BY <1>1, <2>1, ReadingSame, DeviceSame DEF BoilerReports, Types, HomeTypes, ControllerTypes
<1>2. CASE BoilerTurned
  <2>1. boiler' \in [real : Boilers, shown : Boilers] /\ events' \in 0..MaxEvents
    BY <1>2, Numbers DEF BoilerTurned, Bounded, Types, HomeTypes, ControllerTypes
  <2>. QED  BY <1>2, <2>1, ReadingSame, DeviceSame DEF BoilerTurned, Types, HomeTypes, ControllerTypes
<1>3. ASSUME NEW r \in DOMAIN reading, Refresh(r) \/ DemandChanges(r) PROVE Types'
  <2>1. reading' \in [DOMAIN reading -> Readings] /\ DOMAIN reading' = DOMAIN reading
    <3>1. reading[r] \in Readings /\ 0 \in 0..(Fresh + MaxElapsed + 1)
      BY Numbers DEF Types, HomeTypes
    <3>2. /\ [reading[r] EXCEPT !.age = 0] \in Readings
          /\ \A d \in {"calling", "satisfied", "unknown"} : [demand |-> d, age |-> 0] \in Readings
      BY <3>1 DEF Readings
    <3>3. \/ reading' = [reading EXCEPT ![r] = [reading[r] EXCEPT !.age = 0]]
          \/ \E d \in {"calling", "satisfied", "unknown"} : reading' = [reading EXCEPT ![r] = [demand |-> d, age |-> 0]]
      BY <1>3 DEF Refresh, DemandChanges
    <3>. QED  BY <3>2, <3>3 DEF Types, HomeTypes
  <2>2. events' \in 0..MaxEvents
    BY <1>3, Numbers DEF Refresh, DemandChanges, Bounded, Types, HomeTypes, ControllerTypes
  <2>3. UNCHANGED <<config, eligible, boiler, runtime, signature, eval, conf, resync, saved, quiet>>
    BY <1>3 DEF Refresh, DemandChanges
  <2>. QED  BY <2>1, <2>2, <2>3, DeviceSame DEF Types, HomeTypes, ControllerTypes
<1>4. ASSUME NEW d \in Device, EligibilityChanges(d) PROVE Types'
  <2>1. eligible' \subseteq Device /\ events' \in 0..MaxEvents
    BY <1>4, Numbers DEF EligibilityChanges, Bounded, Types, HomeTypes, ControllerTypes
  <2>. QED  BY <1>4, <2>1, ReadingSame, DeviceSame DEF EligibilityChanges, Types, HomeTypes, ControllerTypes
<1>. QED  BY <1>1, <1>2, <1>3, <1>4 DEF Home

LEMMA TickTypes == Types /\ Tick => Types'
<1>. SUFFICES ASSUME Types, Tick PROVE Types'
  OBVIOUS
<1>1. reading' \in [DOMAIN reading -> Readings] /\ DOMAIN reading' = DOMAIN reading
  <2>1. ASSUME NEW r \in DOMAIN reading
        PROVE  [reading[r] EXCEPT !.age = Least(reading[r].age + 1, Fresh + MaxElapsed + 1)] \in Readings
    <3>1. reading[r] \in Readings
      BY DEF Types, HomeTypes
    <3>2. Least(reading[r].age + 1, Fresh + MaxElapsed + 1) \in 0..(Fresh + MaxElapsed + 1)
      BY <3>1, Numbers DEF Least, Readings
    <3>. QED  BY <3>1, <3>2 DEF Readings
  <2>2. reading' = [r \in DOMAIN reading |-> [reading[r] EXCEPT !.age = Least(reading[r].age + 1, Fresh + MaxElapsed + 1)]]
    BY DEF Tick
  <2>. QED  BY <2>1, <2>2
<1>2. runtime' \in Runtimes /\ saved' \in [config : Configs, runtime : Runtimes]
  BY LaterType DEF Tick, Types, HomeTypes, ControllerTypes
<1>3. /\ eval' \in Evaluations
      /\ eval'.phase = eval.phase /\ eval'.actions = eval.actions /\ eval'.desired = eval.desired
  <2>1. eval.phase # "idle" => eval.elapsed + 1 \in 0..MaxElapsed
    BY Numbers DEF Tick, Evaluations, Types, HomeTypes, ControllerTypes
  <2>2. eval' \in Evaluations
    BY <2>1, EvaluationWith DEF Tick, Types, HomeTypes, ControllerTypes
  <2>. QED  BY <2>2 DEF Tick, Evaluations, Types, HomeTypes, ControllerTypes
<1>4. UNCHANGED <<config, eligible, boiler, signature, conf, resync, quiet, events>>
  BY DEF Tick
<1>. QED  BY <1>1, <1>2, <1>3, <1>4, DeviceSame DEF Types, HomeTypes, ControllerTypes

LEMMA RestartTypes == Types /\ Restart => Types'
<1>. SUFFICES ASSUME Types, Restart PROVE Types'
  OBVIOUS
<1>1. boiler' \in [real : Boilers, shown : Boilers] /\ events' \in 0..MaxEvents
  BY EffectType, Numbers DEF Restart, Bounded, Types, HomeTypes, ControllerTypes
<1>2. config' \in Configs /\ runtime' \in Runtimes /\ saved' \in [config : Configs, runtime : Runtimes] /\ signature' \in Signatures
  BY DEF Restart, Signatures, Types, HomeTypes, ControllerTypes
<1>3. ControllerTypes'
  BY <1>2, EndTypes, ReadingSame DEF Restart
<1>. QED  BY <1>1, <1>3, ReadingSame, DeviceSame DEF Restart, Types, HomeTypes

LEMMA NextTypes == Types /\ [Next]_vars => Types'
<1>. SUFFICES ASSUME Types, [Next]_vars PROVE Types'
  OBVIOUS
<1>1. CASE UNCHANGED vars
  BY <1>1, ReadingSame, DeviceSame DEF vars, Types, HomeTypes, ControllerTypes
<1>2. CASE EvalStep
  BY <1>2, SyncSavedTypes, CaptureTypes, JudgeTypes, ApplyTypes, AcceptedTypes, NextCommandTypes,
     CommandsSavedTypes, FinishTypes DEF EvalStep
<1>3. CASE ConfStep \/ Configure
  BY <1>3, ConfigSavedTypes, ConfigEvaluatesTypes, ConfigAnswersTypes, ConfigureTypes DEF ConfStep
<1>4. CASE Trouble
  BY <1>4, SyncFailsTypes, JudgeTypes, AcceptedTypes, FinishTypes, ConfigFailsTypes, CommandFailsTypes DEF Trouble
<1>. QED
  BY <1>1, <1>2, <1>3, <1>4, StartEvalTypes, ResyncTypes, HomeStepTypes, TickTypes, RestartTypes DEF Next

-----------------------------------------------------------------------------
(* The controller's variables keep their types, over failed commands and   *)
(* saves, restarts and changes of the home.                                *)
THEOREM TypeCorrect == Spec => []TypeOK
BY InitTypes, NextTypes, TypesImply, PTL DEF Spec

-----------------------------------------------------------------------------
(***************************************************************************)
(* A disabled control sends nothing.                                       *)
(***************************************************************************)
(* No evaluation is under way that captured an enabled configuration, or   *)
(* would return to one if its save of the mapping failed.                  *)
Harmless ==
  /\ eval.phase \notin {"command", "between"}
  /\ eval.phase \in {"sync", "read", "judged"} => ~eval.config.enabled

Disabled == ~config.enabled /\ ~saved.config.enabled

(* What disabling has reached while its call is served: the configuration  *)
(* in memory; once written, the stored one and every rollback; and when    *)
(* the call is answered, the evaluations.                                  *)
Disabling ==
  ~conf.next.enabled =>
    /\ conf.phase = "saving" => /\ ~config.enabled
                                /\ eval.phase = "sync" /\ ~conf.behind => ~eval.config.enabled
    /\ conf.phase \in {"eval1", "wait1"} => Disabled /\ (eval.phase = "sync" => ~eval.config.enabled)
    /\ conf.phase \notin {"eval2", "wait2"}
    /\ conf.phase = "done" => Disabled /\ Harmless

StaysOff ==
  quiet => /\ Disabled /\ Harmless
           /\ conf.phase # "idle" => ~conf.next.enabled
           /\ conf.phase = "saving" => ~conf.before.enabled

OffInv == Disabling /\ StaysOff

(***************************************************************************)
(* The command that is sent suits the demand at the start of the evaluation. *)
(***************************************************************************)
Chosen == eval.config.mapped \cap Radiator
CalledFresh(r) == CallingBefore(r) /\ reading[r].age - eval.elapsed <= Fresh
\* A chosen radiator called, unless it has reported since.
Called == \E r \in Chosen : reading[r].age <= eval.elapsed \/ CalledFresh(r)
NoneCalled == \A r \in Chosen : ~CalledFresh(r)

DemandInv ==
  /\ eval.phase \in {"read", "judged", "command", "between"} => Chosen \subseteq DOMAIN reading
  /\ eval.phase = "read" => /\ eval.demand = "calling" => Called
                            /\ eval.demand # "calling" => NoneCalled
  /\ eval.phase \in {"judged", "command", "between"} => /\ eval.desired = "heat" => Called
                                                        /\ eval.desired = "off" => NoneCalled

-----------------------------------------------------------------------------
(* Disabled control stays disabled, action by action. *)
LEMMA OffFrame ==
  ASSUME OffInv, config' = config, saved'.config = saved.config, conf' = conf, quiet' = quiet,
         eval'.phase = eval.phase, eval'.config = eval.config
  PROVE  OffInv'
BY DEF OffInv, Disabling, StaysOff, Harmless, Disabled

LEMMA InitOff == Init => OffInv
<1>. SUFFICES ASSUME Init PROVE OffInv
  OBVIOUS
<1>1. conf.phase = "idle" /\ ~quiet
  BY DEF Init, NoCall
<1>. QED  BY <1>1 DEF OffInv, Disabling, StaysOff

(* The fields of an evaluation and of a call that a step replaces. *)
LEMMA EvalFields ==
  ASSUME Types
  PROVE  /\ \A p \in Phases : [eval EXCEPT !.phase = p].phase = p /\ [eval EXCEPT !.phase = p].config = eval.config
         /\ \A p \in {"eval1", "wait1", "eval2", "wait2", "done"} :
              LET c == [conf EXCEPT !.phase = p] IN
              c.phase = p /\ c.next = conf.next /\ c.before = conf.before /\ c.behind = conf.behind
BY DEF Types, HomeTypes, ControllerTypes, Evaluations, Calls

(* A save of what is in memory, with the evaluation going on. *)
LEMMA SavedOff ==
  ASSUME Types, OffInv, config' = config, saved'.config \in {config, saved.config}, conf' = conf, quiet' = quiet,
         eval'.config = eval.config,
         eval'.phase \in {"capture", "finish"} \/ eval'.phase = eval.phase
  PROVE  OffInv'
BY DEF OffInv, Disabling, StaysOff, Harmless, Disabled

LEMMA BeginOff ==
  ASSUME Types, OffInv, NEW execute \in BOOLEAN, Begin(execute)
  PROVE  /\ eval'.phase \in {"sync", "capture"}
         /\ config'.enabled => config.enabled
         /\ eval'.phase = "sync" => eval'.config = config
<1>1. \/ /\ config' = Unmapped
         /\ eval'.phase = "sync" /\ eval'.config = config
      \/ /\ config' = config
         /\ eval'.phase = "capture"
  BY DEF Begin, Idle
<1>. QED  BY <1>1 DEF Unmapped

LEMMA StartEvalOff ==
  ASSUME Types, OffInv, NEW execute \in BOOLEAN, StartEval(execute)
  PROVE  OffInv'
<1>1. /\ eval'.phase \in {"sync", "capture"}
      /\ config'.enabled => config.enabled
      /\ eval'.phase = "sync" => eval'.config = config
  BY BeginOff DEF StartEval
<1>2. saved' = saved /\ conf' = conf /\ quiet' = quiet
  BY DEF StartEval
<1>. QED  BY <1>1, <1>2 DEF OffInv, Disabling, StaysOff, Harmless, Disabled

(* What the end of an evaluation makes of the call that waits for it. *)
LEMMA WokenFields ==
  ASSUME Types
  PROVE  \/ Woken = conf /\ conf.phase \notin {"wait1", "wait2"}
         \/ /\ Woken.next = conf.next /\ Woken.before = conf.before /\ Woken.behind = conf.behind
            /\ \/ conf.phase = "wait1" /\ conf.next.enabled /\ Woken.phase = "eval2"
               \/ conf.phase = "wait1" /\ ~conf.next.enabled /\ Woken.phase = "done"
               \/ conf.phase = "wait2" /\ Woken.phase = "done"
<1>1. CASE conf.phase = "wait1" /\ conf.next.enabled
  <2>1. Woken = [conf EXCEPT !.phase = "eval2"]
    BY <1>1 DEF Woken
  <2>. QED  BY <1>1, <2>1, EvalFields
<1>2. CASE conf.phase = "wait1" /\ ~conf.next.enabled
  <2>1. Woken = [conf EXCEPT !.phase = "done"]
    BY <1>2 DEF Woken
  <2>. QED  BY <1>2, <2>1, EvalFields
<1>3. CASE conf.phase = "wait2"
  <2>1. Woken = [conf EXCEPT !.phase = "done"]
    BY <1>3 DEF Woken
  <2>. QED  BY <1>3, <2>1, EvalFields
<1>4. CASE conf.phase \notin {"wait1", "wait2"}
  BY <1>4 DEF Woken
<1>. QED  BY <1>1, <1>2, <1>3, <1>4

LEMMA EndOff ==
  ASSUME Types, OffInv, eval' = Idle, conf' \in {Woken, Rejected}, quiet' = quiet,
         saved'.config \in {config, saved.config},
         config' = config \/ (config' = eval.config /\ eval.phase = "sync" /\ conf.phase # "saving")
  PROVE  OffInv'
<1>1. eval'.phase = "idle"
  BY DEF Idle
<1>2. \/ conf' = conf /\ conf.phase \notin {"wait1", "wait2"}
      \/ conf'.phase = "idle"
      \/ /\ conf'.next = conf.next /\ conf'.before = conf.before /\ conf'.behind = conf.behind
         /\ \/ conf.phase = "wait1" /\ conf.next.enabled /\ conf'.phase = "eval2"
            \/ conf.phase = "wait1" /\ ~conf.next.enabled /\ conf'.phase = "done"
            \/ conf.phase = "wait2" /\ conf'.phase = "done"
  BY WokenFields DEF Rejected, NoCall
<1>3. StaysOff'
  BY <1>1, <1>2 DEF OffInv, Disabling, StaysOff, Harmless, Disabled
<1>4. Disabling'
  BY <1>1, <1>2 DEF OffInv, Disabling, StaysOff, Harmless, Disabled
<1>. QED  BY <1>3, <1>4 DEF OffInv

LEMMA CaptureOff == Types /\ OffInv /\ Capture => OffInv'
<1>. SUFFICES ASSUME Types, OffInv, Capture PROVE OffInv'
  OBVIOUS
<1>1. config' = config /\ quiet' = quiet /\ eval.phase = "capture"
  BY DEF Capture
<1>2. CASE Valid(Normalized(config))
  <2>1. eval'.phase = "read" /\ eval'.config = Normalized(config)
    BY <1>2 DEF Capture, Types, ControllerTypes, Evaluations
  <2>2. eval'.config.enabled = config.enabled
    BY <2>1, NormalizedType DEF Types, ControllerTypes
  <2>3. saved' = saved /\ conf' = conf
    BY <1>2 DEF Capture
  <2>. QED  BY <1>1, <2>1, <2>2, <2>3 DEF OffInv, Disabling, StaysOff, Harmless, Disabled
<1>3. CASE ~Valid(Normalized(config))
  <2>1. eval' = Idle /\ conf' = Woken /\ saved'.config = config
    BY <1>3 DEF Capture
  <2>. QED  BY <1>1, <2>1, EndOff
<1>. QED  BY <1>2, <1>3

LEMMA JudgeOff ==
  ASSUME Types, OffInv, NEW healthy \in BOOLEAN, Judge(healthy)
  PROVE  OffInv'
<1>1. eval.phase = "read" /\ eval'.phase = "judged" /\ eval'.config = eval.config
  BY DEF Judge, Types, ControllerTypes, Evaluations
<1>2. config' = config /\ saved' = saved /\ conf' = conf /\ quiet' = quiet
  BY DEF Judge
<1>. QED  BY <1>1, <1>2 DEF OffInv, Disabling, StaysOff, Harmless, Disabled

(* Only an evaluation of an enabled configuration sends. *)
LEMMA ApplyOff == Types /\ OffInv /\ Apply => OffInv' /\ (eval'.phase = "command" => ~quiet)
<1>. SUFFICES ASSUME Types, OffInv, Apply PROVE OffInv' /\ (eval'.phase = "command" => ~quiet)
  OBVIOUS
<1>1. /\ eval.phase = "judged" /\ eval'.config = eval.config
      /\ \/ eval'.phase = "command" /\ eval.config.enabled
         \/ eval'.phase = "finish"
  BY DEF Apply, Sends, Acts, Types, ControllerTypes, Evaluations
<1>2. config' = config /\ saved' = saved /\ conf' = conf /\ quiet' = quiet
  BY DEF Apply
<1>. QED  BY <1>1, <1>2 DEF OffInv, Disabling, StaysOff, Harmless, Disabled

(* While commands are sent, nothing was disabled before. *)
LEMMA CommandingOff ==
  ASSUME Types, OffInv, eval.phase \in {"command", "between"}, eval'.phase \in {"command", "between"},
         UNCHANGED <<config, saved, conf, quiet>>
  PROVE  OffInv' /\ ~quiet
BY DEF OffInv, Disabling, StaysOff, Harmless, Disabled

LEMMA ConfigureOff == Types /\ OffInv /\ Configure => OffInv'
<1>. SUFFICES ASSUME Types, OffInv, Configure PROVE OffInv'
  OBVIOUS
<1>1. PICK on \in BOOLEAN, m \in {config.mapped, Device} :
        LET c == Normalized([enabled |-> on, mapped |-> m]) IN
        /\ conf' = [phase |-> "saving", before |-> config, next |-> c, behind |-> eval.phase = "sync"]
        /\ config' = c
        /\ quiet' = (quiet /\ ~on)
  BY DEF Configure
<1>2. config'.enabled = on
  <2>1. [enabled |-> on, mapped |-> m] \in Configs
    BY DEF Configs, Types, ControllerTypes
  <2>. QED  BY <1>1, <2>1, NormalizedType
<1>3. /\ conf'.phase = "saving" /\ conf'.before = config /\ conf'.next = config'
      /\ conf'.behind = (eval.phase = "sync")
  BY <1>1
<1>4. eval' = eval /\ saved' = saved
  BY DEF Configure
<1>5. quiet' = (quiet /\ ~on)
  BY <1>1
<1>. QED  BY <1>2, <1>3, <1>4, <1>5 DEF OffInv, Disabling, StaysOff, Harmless, Disabled

LEMMA ConfigSavedOff == Types /\ OffInv /\ ConfigSaved => OffInv'
<1>. SUFFICES ASSUME Types, OffInv, ConfigSaved PROVE OffInv'
  OBVIOUS
<1>1. /\ conf.phase = "saving" /\ (conf.behind => eval.phase # "sync")
      /\ conf'.phase = "eval1" /\ conf'.next = conf.next
  BY EvalFields DEF ConfigSaved
<1>2. config' = config /\ eval' = eval /\ quiet' = quiet /\ saved'.config = config
  BY DEF ConfigSaved, Types, ControllerTypes
<1>. QED  BY <1>1, <1>2 DEF OffInv, Disabling, StaysOff, Harmless, Disabled

LEMMA ConfigFailsOff == Types /\ OffInv /\ ConfigFails => OffInv'
<1>. SUFFICES ASSUME Types, OffInv, ConfigFails PROVE OffInv'
  OBVIOUS
<1>1. /\ conf.phase = "saving" /\ config' = conf.before
      /\ conf'.phase = "idle"
      /\ eval' = eval /\ quiet' = quiet /\ saved' = saved
  BY DEF ConfigFails, NoCall
<1>. QED  BY <1>1 DEF OffInv, Disabling, StaysOff, Harmless, Disabled

LEMMA ConfigEvaluatesOff == Types /\ OffInv /\ ConfigEvaluates => OffInv' /\ (eval'.phase = "command" => eval' = eval)
<1>. SUFFICES ASSUME Types, OffInv, ConfigEvaluates PROVE OffInv' /\ (eval'.phase = "command" => eval' = eval)
  OBVIOUS
<1>1. \/ /\ eval'.phase \in {"sync", "capture"}
         /\ config'.enabled => config.enabled
         /\ eval'.phase = "sync" => eval'.config = config
      \/ eval' = eval /\ config' = config
  BY BeginOff DEF ConfigEvaluates, BeginOrJoin
<1>2. /\ quiet' = quiet /\ saved'.config = saved.config
      /\ conf'.next = conf.next
      /\ \/ conf.phase = "eval1" /\ conf'.phase = "wait1"
         \/ conf.phase = "eval2" /\ conf'.phase = "wait2"
  BY EvalFields DEF ConfigEvaluates, Waiting, Types, ControllerTypes
<1>3. OffInv'
  BY <1>1, <1>2 DEF OffInv, Disabling, StaysOff, Harmless, Disabled
<1>. QED  BY <1>1, <1>3

LEMMA ConfigAnswersOff == Types /\ OffInv /\ ConfigAnswers => OffInv'
<1>. SUFFICES ASSUME Types, OffInv, ConfigAnswers PROVE OffInv'
  OBVIOUS
<1>1. /\ conf.phase = "done" /\ conf'.phase = "idle" /\ quiet' = ~conf.next.enabled
      /\ config' = config /\ eval' = eval /\ saved' = saved
  BY DEF ConfigAnswers, NoCall
<1>. QED  BY <1>1 DEF OffInv, Disabling, StaysOff, Harmless, Disabled

LEMMA ResyncOff == Types /\ OffInv /\ (Resync \/ ResyncSaved) => OffInv'
<1>. SUFFICES ASSUME Types, OffInv, Resync \/ ResyncSaved PROVE OffInv'
  OBVIOUS
<1>1. /\ config' = config \/ ~config'.enabled
      /\ saved'.config \in {config, saved.config}
      /\ eval' = eval /\ conf' = conf /\ quiet' = quiet
  BY DEF Resync, ResyncSaved, Unmapped
<1>. QED  BY <1>1 DEF OffInv, Disabling, StaysOff, Harmless, Disabled

LEMMA RestartOff == Types /\ OffInv /\ Restart => OffInv'
<1>. SUFFICES ASSUME Types, OffInv, Restart PROVE OffInv'
  OBVIOUS
<1>1. config' = saved.config /\ saved' = saved /\ eval'.phase = "idle" /\ conf'.phase = "idle" /\ quiet' = quiet
  BY DEF Restart, Idle, NoCall
<1>. QED  BY <1>1 DEF OffInv, Disabling, StaysOff, Harmless, Disabled

LEMMA NextOff == Types /\ OffInv /\ [Next]_vars => OffInv' /\ (Sending => ~quiet)
<1>. SUFFICES ASSUME Types, OffInv, [Next]_vars PROVE OffInv' /\ (Sending => ~quiet)
  OBVIOUS
<1>. USE DEF Sending
<1>1. CASE UNCHANGED vars
  BY <1>1, OffFrame DEF vars
<1>2. CASE \E execute \in BOOLEAN : StartEval(execute)
  BY <1>2, StartEvalOff, BeginOff DEF StartEval
<1>3. CASE EvalStep
  <2>1. CASE SyncSaved
    <3>1. eval'.phase = "capture" /\ eval'.config = eval.config
      BY <2>1, EvalFields DEF SyncSaved, Phases
    <3>. QED  BY <2>1, <3>1, SavedOff DEF SyncSaved
  <2>2. CASE Capture
    <3>1. eval' = Idle \/ eval'.phase = "read"
      BY <2>2 DEF Capture, Types, ControllerTypes, Evaluations
    <3>2. eval'.phase # "command"
      BY <3>1 DEF Idle
    <3>. QED  BY <2>2, <3>2, CaptureOff
  <2>3. CASE Judge(TRUE)
    <3>1. eval'.phase # "command"
      BY <2>3 DEF Judge, Types, ControllerTypes, Evaluations
    <3>. QED  BY <2>3, <3>1, JudgeOff
  <2>4. CASE Apply
    BY <2>4, ApplyOff
  <2>5. CASE Accepted(FALSE)
    <3>1. eval.phase = "command" /\ eval'.phase = "between"
      BY <2>5 DEF Accepted, Types, ControllerTypes, Evaluations
    <3>. QED  BY <2>5, <3>1, CommandingOff DEF Accepted
  <2>6. CASE NextCommand
    <3>1. eval.phase = "between" /\ eval'.phase = "command"
      BY <2>6, EvalFields DEF NextCommand, Phases
    <3>. QED  BY <2>6, <3>1, CommandingOff DEF NextCommand
  <2>7. CASE CommandsSaved
    <3>1. eval'.phase = "finish" /\ eval'.config = eval.config
      BY <2>7, EvalFields DEF CommandsSaved, Phases
    <3>. QED  BY <2>7, <3>1, SavedOff DEF CommandsSaved
  <2>8. CASE Finish
    BY <2>8, EndOff DEF Finish, Idle
  <2>. QED  BY <1>3, <2>1, <2>2, <2>3, <2>4, <2>5, <2>6, <2>7, <2>8 DEF EvalStep
<1>4. CASE ConfStep \/ Configure
  <2>1. CASE ConfigSaved
    BY <2>1, ConfigSavedOff DEF ConfigSaved
  <2>2. CASE ConfigAnswers
    BY <2>2, ConfigAnswersOff DEF ConfigAnswers
  <2>3. CASE Configure
    BY <2>3, ConfigureOff DEF Configure
  <2>. QED  BY <1>4, <2>1, <2>2, <2>3, ConfigEvaluatesOff DEF ConfStep
<1>5. CASE Trouble
  <2>1. CASE SyncFails
    BY <2>1, EndOff DEF SyncFails, Alone, Idle
  <2>2. CASE Judge(FALSE)
    <3>1. eval'.phase # "command"
      BY <2>2 DEF Judge, Types, ControllerTypes, Evaluations
    <3>. QED  BY <2>2, <3>1, JudgeOff
  <2>3. CASE Accepted(TRUE)
    <3>1. eval.phase = "command" /\ eval'.phase = "between"
      BY <2>3 DEF Accepted, Types, ControllerTypes, Evaluations
    <3>. QED  BY <2>3, <3>1, CommandingOff DEF Accepted
  <2>4. CASE SaveFails
    BY <2>4, EndOff DEF SaveFails, Idle
  <2>5. CASE ConfigFails
    BY <2>5, ConfigFailsOff DEF ConfigFails
  <2>6. ASSUME NEW taken \in BOOLEAN, CommandFails(taken) PROVE OffInv' /\ (Sending => ~quiet)
    <3>1. eval.phase = "command" /\ eval'.phase = "between"
      BY <2>6 DEF CommandFails, Types, ControllerTypes, Evaluations
    <3>. QED  BY <2>6, <3>1, CommandingOff DEF CommandFails
  <2>. QED  BY <1>5, <2>1, <2>2, <2>3, <2>4, <2>5, <2>6 DEF Trouble
<1>6. CASE Home
  <2>1. UNCHANGED <<config, eval, conf, saved, quiet>>
    BY <1>6 DEF Home, BoilerReports, BoilerTurned, Refresh, DemandChanges, EligibilityChanges
  <2>. QED  BY <2>1, OffFrame
<1>7. CASE Tick
  <2>1. /\ eval'.phase = eval.phase /\ eval'.config = eval.config
        /\ saved'.config = saved.config
        /\ UNCHANGED <<config, conf, quiet>>
    BY <1>7 DEF Tick, Types, ControllerTypes, Evaluations
  <2>. QED  BY <2>1, OffFrame
<1>8. CASE Resync \/ ResyncSaved
  BY <1>8, ResyncOff DEF Resync, ResyncSaved
<1>9. CASE Restart
  BY <1>9, RestartOff DEF Restart, Idle
<1>. QED  BY <1>1, <1>2, <1>3, <1>4, <1>5, <1>6, <1>7, <1>8, <1>9 DEF Next

(* Once configure has answered that control is disabled, no command goes to *)
(* the boiler until a call enables it: the call waits for the evaluation it *)
(* found, and no save that fails, no lost mapping and no restart brings the *)
(* enabled configuration back.                                              *)
THEOREM DisabledSendsNothingAlways == Spec => DisabledSendsNothing
<1>1. Init => Types /\ OffInv
  BY InitTypes, InitOff
<1>2. Types /\ OffInv /\ [Next]_vars => Types' /\ OffInv'
  BY NextTypes, NextOff
<1>3. Types /\ OffInv /\ [Next]_vars => [Sending => ~quiet]_vars
  BY NextOff
<1>. QED  BY <1>1, <1>2, <1>3, PTL DEF Spec, DisabledSendsNothing

-----------------------------------------------------------------------------
(* The demand an evaluation acts on, action by action. *)
LEMMA Ages ==
  ASSUME Types
  PROVE  /\ \A r \in DOMAIN reading : reading[r].age \in 0..(Fresh + MaxElapsed + 1)
         /\ eval.elapsed \in 0..MaxElapsed
         /\ Fresh \in Nat /\ MaxElapsed \in Nat
BY Numbers DEF Types, HomeTypes, ControllerTypes, Readings, Evaluations

(* The demand is calling exactly if the reading of a radiator, no older     *)
(* than Fresh when the evaluation began, is.                                *)
LEMMA DemandMeans ==
  ASSUME Types, NEW S \in SUBSET DOMAIN reading, NEW ago \in 0..MaxElapsed
  PROVE  DemandOf(S, ago) = "calling" <=>
           \E r \in S : reading[r].demand = "calling" /\ (reading[r].age <= ago \/ reading[r].age - ago <= Fresh)
<1>1. DemandOf(S, ago) = "calling" <=> \E r \in S : RadiatorDemand(r, ago) = "calling"
  BY DEF DemandOf
<1>2. ASSUME NEW r \in S
      PROVE  RadiatorDemand(r, ago) = "calling" <=>
               reading[r].demand = "calling" /\ (reading[r].age <= ago \/ reading[r].age - ago <= Fresh)
  <2>1. reading[r].age \in Nat /\ ago \in Nat /\ Fresh \in Nat
    BY Ages
  <2>. QED  BY <2>1 DEF RadiatorDemand, Most
<1>. QED  BY <1>1, <1>2

LEMMA NotJudging ==
  ASSUME eval'.phase \notin {"read", "judged", "command", "between"}
  PROVE  DemandInv'
BY DEF DemandInv

(* A step that leaves the readings, and of the evaluation all but its phase. *)
LEMMA JudgingOn ==
  ASSUME DemandInv, reading' = reading, eval'.config = eval.config, eval'.elapsed = eval.elapsed,
         eval'.desired = eval.desired, eval'.demand = eval.demand,
         \/ eval'.phase = eval.phase
         \/ eval.phase \in {"judged", "command", "between"} /\ eval'.phase \in {"command", "between"}
  PROVE  DemandInv'
<1>1. /\ Chosen' = Chosen /\ Called' = Called /\ NoneCalled' = NoneCalled
      /\ DOMAIN reading' = DOMAIN reading
  BY DEF Chosen, Called, NoneCalled, CalledFresh, CallingBefore
<1>. QED  BY <1>1 DEF DemandInv

(* A step of the readings that keeps what the evaluation relies on. *)
LEMMA ReadingsMove ==
  ASSUME DemandInv, DOMAIN reading' = DOMAIN reading, eval'.config = eval.config, eval'.phase = eval.phase,
         eval'.desired = eval.desired, eval'.demand = eval.demand,
         \A r \in DOMAIN reading :
           /\ reading[r].age <= eval.elapsed => reading[r].age' <= eval'.elapsed
           /\ CalledFresh(r)' => CalledFresh(r)
           /\ CalledFresh(r) => CalledFresh(r)' \/ reading[r].age' <= eval'.elapsed
  PROVE  DemandInv'
<1>1. Chosen' = Chosen
  BY DEF Chosen
<1>2. Chosen \subseteq DOMAIN reading => (Called => Called') /\ (NoneCalled => NoneCalled')
  BY <1>1 DEF Called, NoneCalled
<1>. QED  BY <1>1, <1>2 DEF DemandInv

LEMMA CaptureDemand == Types /\ DemandInv /\ Capture => DemandInv'
<1>. SUFFICES ASSUME Types, DemandInv, Capture PROVE DemandInv'
  OBVIOUS
<1>. DEFINE c == Normalized(config)
            S == c.mapped \cap Radiator
<1>1. CASE ~Valid(c)
  BY <1>1, NotJudging DEF Capture, Idle
<1>2. CASE Valid(c)
  <2>1. /\ eval'.phase = "read" /\ eval'.config = c /\ eval'.elapsed = eval.elapsed
        /\ eval'.demand = DemandOf(S, eval.elapsed)
        /\ reading' = reading
    BY <1>2 DEF Capture, Types, ControllerTypes, Evaluations
  <2>2. S \subseteq DOMAIN reading
    BY <1>2, HeatingAssumption DEF Valid, Types, HomeTypes, Device
  <2>3. Chosen' = S
    BY <2>1 DEF Chosen
  <2>4. eval'.demand = "calling" <=>
          \E r \in S : reading[r].demand = "calling" /\ (reading[r].age <= eval.elapsed \/ reading[r].age - eval.elapsed <= Fresh)
    BY <2>1, <2>2, Ages, DemandMeans
  <2>5. \A r \in S : reading[r].age \in Nat /\ eval.elapsed \in Nat
    BY <2>2, Ages
  <2>6. \A r \in S : CalledFresh(r)' <=>
          reading[r].demand = "calling" /\ reading[r].age > eval.elapsed /\ reading[r].age - eval.elapsed <= Fresh
    BY <2>1 DEF CalledFresh, CallingBefore
  <2>. HIDE DEF S
  <2>7. eval'.demand = "calling" => Called'
    BY <2>1, <2>3, <2>4, <2>5, <2>6 DEF Called
  <2>8. eval'.demand # "calling" => NoneCalled'
    BY <2>3, <2>4, <2>6 DEF NoneCalled
  <2>. QED  BY <2>1, <2>2, <2>3, <2>7, <2>8 DEF DemandInv
<1>. QED  BY <1>1, <1>2

LEMMA JudgeDemand ==
  ASSUME Types, DemandInv, NEW healthy \in BOOLEAN, Judge(healthy)
  PROVE  DemandInv'
<1>1. PICK u : eval' = [eval EXCEPT !.phase = "judged", !.healthy = healthy, !.demand = None,
                          !.desired = Desired(eval.demand, u)]
  BY DEF Judge
<1>2. /\ eval.phase = "read" /\ eval'.phase = "judged" /\ eval'.config = eval.config
      /\ eval'.elapsed = eval.elapsed /\ eval'.desired = Desired(eval.demand, u)
      /\ reading' = reading
  BY <1>1 DEF Judge, Types, ControllerTypes, Evaluations
<1>3. /\ eval'.desired = "heat" => eval.demand = "calling"
      /\ eval'.desired = "off" => eval.demand # "calling"
  BY <1>2 DEF Desired, None
<1>4. /\ Chosen' = Chosen /\ Called' = Called /\ NoneCalled' = NoneCalled
      /\ DOMAIN reading' = DOMAIN reading
  BY <1>2 DEF Chosen, Called, NoneCalled, CalledFresh, CallingBefore
<1>. QED  BY <1>2, <1>3, <1>4 DEF DemandInv

LEMMA ReportDemand ==
  ASSUME Types, DemandInv, NEW r \in DOMAIN reading, Refresh(r) \/ DemandChanges(r)
  PROVE  DemandInv'
<1>1. /\ eval' = eval
      /\ DOMAIN reading' = DOMAIN reading
      /\ reading'[r].age = 0
      /\ \A s \in DOMAIN reading \ {r} : reading'[s] = reading[s]
  <2>1. reading[r] \in Readings
    BY DEF Types, HomeTypes
  <2>. QED  BY <2>1 DEF Refresh, DemandChanges, Readings
<1>2. 0 <= eval.elapsed
  BY Ages
<1>3. \A s \in DOMAIN reading \ {r} : reading[s].age' = reading[s].age /\ CalledFresh(s)' = CalledFresh(s)
  BY <1>1 DEF CalledFresh, CallingBefore
<1>4. reading[r].age' <= eval'.elapsed /\ ~CalledFresh(r)'
  BY <1>1, <1>2, Ages DEF CalledFresh, CallingBefore
<1>. QED  BY <1>1, <1>3, <1>4, ReadingsMove

LEMMA TickDemand == Types /\ DemandInv /\ Tick => DemandInv'
<1>. SUFFICES ASSUME Types, DemandInv, Tick PROVE DemandInv'
  OBVIOUS
<1>1. CASE eval.phase = "idle"
  BY <1>1, NotJudging DEF Tick
<1>2. CASE eval.phase # "idle"
  <2>1. /\ eval'.config = eval.config /\ eval'.phase = eval.phase
        /\ eval'.desired = eval.desired /\ eval'.demand = eval.demand
        /\ eval'.elapsed = eval.elapsed + 1
        /\ eval.elapsed < MaxElapsed
    BY <1>2 DEF Tick, Types, ControllerTypes, Evaluations
  <2>2. DOMAIN reading' = DOMAIN reading
    BY DEF Tick
  <2>3. ASSUME NEW r \in DOMAIN reading
        PROVE  /\ reading[r].age <= eval.elapsed => reading[r].age' <= eval'.elapsed
               /\ CalledFresh(r)' => CalledFresh(r)
               /\ CalledFresh(r) => CalledFresh(r)'
    <3>1. reading[r] \in Readings
      BY DEF Types, HomeTypes
    <3>2. /\ reading[r].age' = Least(reading[r].age + 1, Fresh + MaxElapsed + 1)
          /\ reading[r].demand' = reading[r].demand
      BY <3>1 DEF Tick, Readings
    <3>3. reading[r].age \in Nat /\ eval.elapsed \in Nat /\ Fresh \in Nat /\ MaxElapsed \in Nat
      BY Ages
    <3>. QED  BY <2>1, <3>2, <3>3 DEF Least, CalledFresh, CallingBefore
  <2>. QED  BY <2>1, <2>2, <2>3, ReadingsMove
<1>. QED  BY <1>1, <1>2

LEMMA NextDemand == Types /\ DemandInv /\ [Next]_vars => DemandInv'
<1>. SUFFICES ASSUME Types, DemandInv, [Next]_vars PROVE DemandInv'
  OBVIOUS
<1>1. CASE UNCHANGED <<reading, eval>>
  BY <1>1, JudgingOn
<1>2. CASE eval'.phase \in {"idle", "sync", "capture", "finish"}
  BY <1>2, NotJudging
<1>3. CASE Capture \/ \E healthy \in BOOLEAN : Judge(healthy)
  BY <1>3, CaptureDemand, JudgeDemand
<1>4. CASE Apply \/ NextCommand \/ \E b \in BOOLEAN : Accepted(b) \/ CommandFails(b)
  <2>1. /\ reading' = reading /\ eval'.config = eval.config /\ eval'.elapsed = eval.elapsed
        /\ eval'.desired = eval.desired /\ eval'.demand = eval.demand
        /\ eval.phase \in {"judged", "command", "between"}
        /\ eval'.phase \in {"command", "between", "finish"}
    BY <1>4 DEF Apply, NextCommand, Accepted, CommandFails, Types, ControllerTypes, Evaluations
  <2>. QED  BY <2>1, NotJudging, JudgingOn
<1>5. ASSUME NEW execute \in BOOLEAN, Begin(execute) PROVE eval'.phase \in {"sync", "capture"}
  BY <1>5 DEF Begin, Idle
<1>6. CASE SyncSaved \/ CommandsSaved \/ Finish \/ SyncFails \/ SaveFails \/ Restart
  <2>1. eval' = Idle \/ eval'.phase \in {"capture", "finish"}
    BY <1>6, EvalFields DEF SyncSaved, CommandsSaved, Finish, SyncFails, SaveFails, Restart, Phases
  <2>. QED  BY <1>2, <2>1 DEF Idle
<1>7. CASE ConfStep \/ Configure \/ ConfigFails \/ Resync \/ ResyncSaved
  <2>1. UNCHANGED <<reading, eval>> \/ \E execute \in BOOLEAN : Begin(execute)
    <3>1. CASE ConfigEvaluates
      <4>1. reading' = reading
        BY <3>1 DEF ConfigEvaluates
      <4>2. \E execute \in BOOLEAN : BeginOrJoin(execute)
        BY <3>1 DEF ConfigEvaluates
      <4>. QED  BY <4>1, <4>2 DEF BeginOrJoin
    <3>. QED  BY <1>7, <3>1 DEF ConfStep, ConfigSaved, ConfigAnswers, Configure, ConfigFails, Resync, ResyncSaved
  <2>. QED  BY <1>1, <1>2, <1>5, <2>1
<1>8. CASE \E execute \in BOOLEAN : StartEval(execute)
  BY <1>2, <1>5, <1>8 DEF StartEval
<1>9. CASE Home
  <2>1. UNCHANGED <<reading, eval>> \/ \E r \in DOMAIN reading : Refresh(r) \/ DemandChanges(r)
    BY <1>9 DEF Home, BoilerReports, BoilerTurned, EligibilityChanges
  <2>. QED  BY <1>1, <2>1, ReportDemand
<1>10. UNCHANGED vars => UNCHANGED <<reading, eval>>
  BY DEF vars
<1>. QED  BY <1>1, <1>3, <1>4, <1>6, <1>7, <1>8, <1>9, <1>10, TickDemand DEF Next, EvalStep, Trouble

(* A command is sent on an evaluation that has judged the demand. *)
LEMMA SendingJudged == Types /\ [Next]_vars /\ Sending => eval.phase \in {"judged", "between"}
<1>. SUFFICES ASSUME Types, [Next]_vars, eval.phase # "command", eval'.phase = "command" PROVE eval.phase \in {"judged", "between"}
  BY DEF Sending
<1>1. eval' # eval /\ eval' # Idle
  BY DEF Idle
<1>2. ASSUME NEW execute \in BOOLEAN, Begin(execute) PROVE FALSE
  BY <1>2 DEF Begin, Idle
<1>3. CASE EvalStep
  <2>1. eval'.phase = "command" => ~SyncSaved /\ ~Capture /\ ~Judge(TRUE) /\ ~Accepted(FALSE) /\ ~CommandsSaved /\ ~Finish
    BY <1>1 DEF SyncSaved, Capture, Judge, Accepted, CommandsSaved, Finish, Types, ControllerTypes, Evaluations
  <2>. QED  BY <1>3, <2>1 DEF EvalStep, Apply, NextCommand
<1>4. CASE Trouble
  <2>1. ~Judge(FALSE)
    BY DEF Judge, Types, ControllerTypes, Evaluations
  <2>. QED
    BY <1>1, <1>4, <2>1 DEF Trouble, SyncFails, Accepted, SaveFails, ConfigFails, CommandFails
<1>5. CASE ConfStep \/ Configure \/ Resync \/ ResyncSaved
  <2>1. ~ConfigEvaluates
    BY <1>1, <1>2 DEF ConfigEvaluates, BeginOrJoin
  <2>. QED  BY <1>1, <1>5, <2>1 DEF ConfStep, ConfigSaved, ConfigAnswers, Configure, Resync, ResyncSaved
<1>6. CASE Home \/ Restart \/ UNCHANGED vars
  BY <1>1, <1>6 DEF Home, BoilerReports, BoilerTurned, Refresh, DemandChanges, EligibilityChanges, Restart, vars
<1>7. CASE Tick
  BY <1>7 DEF Tick, Types, ControllerTypes, Evaluations
<1>8. CASE \E execute \in BOOLEAN : StartEval(execute)
  BY <1>2, <1>8 DEF StartEval
<1>. QED  BY <1>3, <1>4, <1>5, <1>6, <1>7, <1>8 DEF Next

(* No heat command without a radiator that freshly called when the          *)
(* evaluation began, and no off command while one did, however long the     *)
(* integrations and the commands before it were awaited, and whatever       *)
(* reports, failures and restarts came meanwhile.                           *)
THEOREM CommandsMatchDemandAlways == Spec => CommandsMatchDemand
<1>1. Init => DemandInv
  BY DEF Init, Idle, DemandInv
<1>. DEFINE Match ==
       LET radiators == eval.config.mapped \cap Radiator IN
       /\ eval.desired = "heat" =>
            \E r \in radiators : \/ reading[r].age <= eval.elapsed
                                 \/ CallingBefore(r) /\ reading[r].age - eval.elapsed <= Fresh
       /\ eval.desired = "off" =>
            ~\E r \in radiators : CallingBefore(r) /\ reading[r].age <= Fresh
<1>2. Types /\ DemandInv /\ [Next]_vars => (Sending => Match)
  <2>. SUFFICES ASSUME Types, DemandInv, [Next]_vars, Sending PROVE Match
    OBVIOUS
  <2>1. /\ Chosen \subseteq DOMAIN reading
        /\ eval.desired = "heat" => Called
        /\ eval.desired = "off" => NoneCalled
    BY SendingJudged DEF DemandInv
  <2>2. \A r \in Chosen : reading[r].age <= Fresh => reading[r].age - eval.elapsed <= Fresh
    <3>1. \A r \in Chosen : reading[r].age \in Nat
      BY <2>1, Ages
    <3>. QED  BY <3>1, Ages
  <2>. QED  BY <2>1, <2>2 DEF Chosen, Called, NoneCalled, CalledFresh
<1>3. Types /\ DemandInv /\ [Next]_vars => [Sending => Match]_vars
  BY <1>2
<1>. QED  BY <1>1, <1>3, InitTypes, NextTypes, NextDemand, PTL DEF Spec, CommandsMatchDemand

(***************************************************************************)
(* NestHome: types.                                                        *)
(***************************************************************************)
Devices ==
  [area : Thermostat \cup {NoThermostat}, available : BOOLEAN, verified : BOOLEAN, grant : Nat,
   legacy : SUBSET Resource, shows : Thermostat]
IsBook(h) == DOMAIN h \subseteq Resource /\ h \in [DOMAIN h -> Devices]
AreAliases(al) == DOMAIN al \subseteq Resource /\ al \in [DOMAIN al -> Resource]
Books == UNION {[S -> Devices] : S \in SUBSET Resource}
Ingests ==
  [on : BOOLEAN, incoming : Seq(Resource), todo : Seq(Resource), used : SUBSET Resource, listed : Books,
   sweeping : BOOLEAN, allow : BOOLEAN, grant : Nat]
Names == Resource \cup {NoName}
Statuses ==
  {"connected", "disconnected", "degraded", "reauth_required", "authorization_pending", "exchanging_code", "discovering"}
Grants == [configured : BOOLEAN, status : Statuses, ignored : SUBSET Resource, grant : Nat]
Networks == [in : SUBSET Thermostat, gen : [Thermostat -> {0, 1}], hints : BOOLEAN]
Polls == [phase : {"idle", "asking", "listing", "storing"}, try : Nat, migrates : BOOLEAN]
Commands ==
  [phase : {"idle", "sending", "recovering", "confirming", "storing"}, id : Names, resource : Names,
   wanted : Thermostat \cup {NoThermostat}, try : Nat]
UserCalls ==
  [session : BOOLEAN, consent : {"none", "exchanging", "discovering", "degraded", "reauth_required"},
   leaving : {"idle", "asked", "clearing"}, removing : Names, restoring : BOOLEAN, starting : BOOLEAN]
Pasts ==
  [grants : Nat, strange : BOOLEAN, back : BOOLEAN, outlived : BOOLEAN, cut : BOOLEAN,
   sent : {<<>>} \cup ((Thermostat \cup {NoThermostat}) \X Resource)]

(* The kinds of the data. *)
NestTypes ==
  /\ IsBook(home) /\ AreAliases(aliases)
  /\ nest \in Grants /\ account \in Nat /\ google \in Networks
  /\ poll \in Polls /\ ing \in [Jobs -> Ingests] /\ timer \in [on : BOOLEAN, busy : BOOLEAN]
  /\ cmd \in Commands /\ (cmd.phase # "idle" => cmd.id \in Resource /\ cmd.resource \in Resource)
  /\ calls \in UserCalls /\ hist \in Pasts /\ budget \in [Kinds -> Nat]

LEMMA InBooks == \A h : h \in Books <=> IsBook(h)
<1>1. ASSUME NEW h, IsBook(h) PROVE h \in Books
  BY <1>1 DEF Books, IsBook
<1>2. ASSUME NEW h, h \in Books PROVE IsBook(h)
  <2>1. PICK S \in SUBSET Resource : h \in [S -> Devices]
    BY <1>2 DEF Books
  <2>. QED  BY <2>1 DEF IsBook
<1>. QED  BY <1>1, <1>2

LEMMA NameTypes ==
  /\ NoName \notin Resource
  /\ \A r \in Resource : Owner(r) \in Thermostat /\ r[2] \in {0, 1} /\ r = <<Owner(r), r[2]>>
  /\ \A t \in Thermostat : <<t, 0>> \in Resource /\ <<t, 1>> \in Resource /\ t # NoThermostat
BY NestAssumption DEF NoName, NoThermostat, Resource, Owner

LEMMA DeviceFields ==
  ASSUME NEW d \in Devices
  PROVE  /\ d.area \in Thermostat \cup {NoThermostat} /\ d.available \in BOOLEAN /\ d.verified \in BOOLEAN
         /\ d.grant \in Nat /\ d.legacy \subseteq Resource /\ d.shows \in Thermostat
BY DEF Devices

LEMMA IngestFields ==
  ASSUME NEW g \in Ingests
  PROVE  /\ g.on \in BOOLEAN /\ g.incoming \in Seq(Resource) /\ g.todo \in Seq(Resource) /\ g.used \subseteq Resource
         /\ g.listed \in Books /\ g.sweeping \in BOOLEAN /\ g.allow \in BOOLEAN /\ g.grant \in Nat
BY DEF Ingests

LEMMA EmptyBook == Empty \in Books /\ IsBook(Empty) /\ AreAliases(Empty) /\ DOMAIN Empty = {}
<1>1. DOMAIN Empty = {}  BY DEF Empty
<1>2. IsBook(Empty) /\ AreAliases(Empty)
  BY <1>1 DEF IsBook, AreAliases, Empty
<1>. QED  BY <1>1, <1>2, InBooks

LEMMA Starts ==
  /\ NoIngest \in Ingests /\ NoPoll \in Polls /\ NoCommand \in Commands /\ NoCalls \in UserCalls /\ Gone \in Grants
<1>1. <<>> \in Seq(Resource)  OBVIOUS
<1>2. NoIngest \in Ingests  BY <1>1, EmptyBook DEF NoIngest, Ingests
<1>3. NoPoll \in Polls  BY DEF NoPoll, Polls
<1>4. NoCommand \in Commands  BY DEF NoCommand, Commands, Names
<1>5. NoCalls \in UserCalls  BY DEF NoCalls, UserCalls, Names
<1>6. Gone \in Grants  BY DEF Gone, Grants, Statuses
<1>. QED  BY <1>2, <1>3, <1>4, <1>5, <1>6

LEMMA PutType ==
  ASSUME NEW h, IsBook(h), NEW r \in Resource, NEW d \in Devices
  PROVE  IsBook(Put(h, r, d)) /\ DOMAIN Put(h, r, d) = DOMAIN h \cup {r}
BY DEF IsBook, Put

LEMMA DropType ==
  ASSUME NEW h, IsBook(h), NEW S
  PROVE  /\ IsBook(Drop(h, S)) /\ DOMAIN Drop(h, S) = DOMAIN h \ S
         /\ \A k \in DOMAIN h \ S : Drop(h, S)[k] = h[k]
BY DEF IsBook, Drop, Restrict

(* The aliases after an upsert. *)
Led(al, r, d) == [l \in d.legacy \cup DOMAIN al |-> IF l \in d.legacy THEN r ELSE al[l]]

LEMMA UpsertIs ==
  ASSUME NEW r, NEW d
  PROVE  Upsert(r, d) <=> home' = Put(home, r, d) /\ aliases' = Led(aliases, r, d)
BY DEF Upsert, Led

LEMMA LedType ==
  ASSUME NEW al, AreAliases(al), NEW r \in Resource, NEW d \in Devices
  PROVE  AreAliases(Led(al, r, d))
<1>1. d.legacy \subseteq Resource  BY DeviceFields
<1>. QED  BY <1>1 DEF AreAliases, Led

LEMMA PutAliasType ==
  ASSUME NEW al, AreAliases(al), NEW a \in Resource, NEW r \in Resource
  PROVE  AreAliases(Put(al, a, r)) /\ DOMAIN Put(al, a, r) = DOMAIN al \cup {a}
BY DEF AreAliases, Put

(* What migrateDeviceIdentity finds. *)
Source(from) == IF from \in DOMAIN aliases THEN aliases[from] ELSE from
Moved(from, d) == [d EXCEPT !.legacy = @ \cup home[from].legacy \cup {from}, !.verified = home[from].verified]

LEMMA MigrateIs ==
  ASSUME NEW from, NEW r, NEW d, Migrate(from, r, d)
  PROVE  \/ (Source(from) = r \/ Source(from) \notin DOMAIN home) /\ Upsert(r, d)
         \/ /\ Source(from) # r /\ Source(from) \in DOMAIN home
            /\ home' = Put(Drop(home, {Source(from)}), r, Moved(Source(from), d))
            /\ aliases' = Put(aliases, Source(from), r)
BY DEF Migrate, Source, Moved

LEMMA UpsertType ==
  ASSUME IsBook(home), AreAliases(aliases), NEW r \in Resource, NEW d \in Devices, Upsert(r, d)
  PROVE  IsBook(home') /\ AreAliases(aliases')
<1>1. home' = Put(home, r, d) /\ aliases' = Led(aliases, r, d)  BY UpsertIs
<1>2. IsBook(Put(home, r, d))  BY PutType
<1>3. AreAliases(Led(aliases, r, d))  BY LedType
<1>. QED  BY <1>1, <1>2, <1>3

LEMMA MigrateType ==
  ASSUME IsBook(home), AreAliases(aliases), NEW from \in Resource, NEW r \in Resource, NEW d \in Devices, Migrate(from, r, d)
  PROVE  IsBook(home') /\ AreAliases(aliases')
<1>1. CASE Upsert(r, d)  BY <1>1, UpsertType
<1>2. CASE /\ Source(from) # r /\ Source(from) \in DOMAIN home
           /\ home' = Put(Drop(home, {Source(from)}), r, Moved(Source(from), d))
           /\ aliases' = Put(aliases, Source(from), r)
  <2>. DEFINE s == Source(from)
  <2>1. s \in Resource /\ home[s] \in Devices  BY <1>2 DEF IsBook
  <2>2. Moved(s, d) \in Devices  BY <2>1 DEF Moved, Devices
  <2>. HIDE DEF s
  <2>3. IsBook(Drop(home, {s}))  BY DropType
  <2>. QED  BY <1>2, <2>1, <2>2, <2>3, PutType, PutAliasType DEF s
<1>. QED  BY <1>1, <1>2, MigrateIs

(***************************************************************************)
(* Removing.                                                               *)
(***************************************************************************)
(* What holds of 0, and of a number up to n with the one before it, holds up to n. *)
LEMMA UpTo ==
  ASSUME NEW n \in Nat, NEW T, 0 \in T, \A i \in 1..n : i - 1 \in T => i \in T
  PROVE  \A i \in 0..n : i \in T
<1>. DEFINE U == {i \in 0..n : i \notin T}
            R == OpToRel(<, Nat)
<1>1. SUFFICES ASSUME U # {} PROVE FALSE  OBVIOUS
<1>2. IsWellFoundedOn(R, Nat)  BY NatLessThanWellFounded
<1>3. \A x, y \in Nat : <<y, x>> \in R <=> y < x  BY DEF OpToRel
<1>4. U \in SUBSET Nat  OBVIOUS
<1>. HIDE DEF R, U
<1>5. PICK x \in U : \A y \in U : ~(<<y, x>> \in R)  BY <1>1, <1>2, <1>4, WFMin
<1>6. x \in 0..n /\ x \notin T /\ x # 0  BY <1>5 DEF U
<1>7. x - 1 \in 0..n /\ x - 1 < x /\ x \in 1..n  BY <1>6
<1>8. x - 1 \in U  BY <1>6, <1>7 DEF U
<1>9. <<x - 1, x>> \in R  BY <1>3, <1>7
<1>. QED  BY <1>5, <1>8, <1>9

(* A sequence of the elements of a set, each once. *)
LEMMA Ordered ==
  ASSUME NEW S, IsFiniteSet(S), NEW q \in SetToSeqs(S)
  PROVE  /\ q \in Seq(S) /\ Len(q) \in Nat
         /\ \A i, j \in 1..Len(q) : q[i] = q[j] => i = j
         /\ \A x \in S : \E i \in 1..Len(q) : q[i] = x
<1>. DEFINE n == Cardinality(S)
<1>1. n \in Nat  BY FS_CardinalityType
<1>2. q \in [1..n -> S] /\ \A i, j \in 1..n : i # j => q[i] # q[j]
  BY DEF SetToSeqs
<1>3. q \in Seq(S) /\ Len(q) = n
  BY <1>1, <1>2
<1>4. q \in Injection(1..n, S)
  BY <1>2 DEF Injection, IsInjective
<1>5. IsFiniteSet(1..n) /\ Cardinality(1..n) = n
  BY <1>1, FS_Interval
<1>6. q \in Surjection(1..n, S)
  BY <1>4, <1>5, FS_Injection
<1>7. \A x \in S : \E i \in 1..n : q[i] = x
  BY <1>6 DEF Surjection
<1>. QED  BY <1>1, <1>2, <1>3, <1>7

LEMMA ResourceFinite == IsFiniteSet(Resource)
<1>1. IsFiniteSet(0..1)
  <2>1. 0 \in Int /\ 1 \in Int  OBVIOUS
  <2>. QED  BY <2>1, FS_Interval
<1>2. {0, 1} = 0..1  OBVIOUS
<1>. QED  BY <1>1, <1>2, NestAssumption, FS_Product DEF Resource

(* A registry from which the records of a list have been removed, one by one. *)
Steps(f, start, order, n) ==
  f = [i \in 0..n |-> IF i = 0 THEN start ELSE Removed(f[i - 1], order[i])]

LEMMA StepsExist ==
  ASSUME NEW start, NEW order, NEW n \in Nat
  PROVE  \E f : Steps(f, start, order, n)
<1>. DEFINE T == {m \in 0..n : \E f : Steps(f, start, order, m)}
<1>1. 0 \in T
  <2>1. Steps([i \in 0..0 |-> start], start, order, 0)
    BY DEF Steps
  <2>. QED  BY <2>1
<1>2. ASSUME NEW i \in 1..n, i - 1 \in T PROVE i \in T
  <2>1. PICK f : Steps(f, start, order, i - 1)  BY <1>2
  <2>. DEFINE g == [m \in 0..i |-> IF m = i THEN Removed(f[i - 1], order[i]) ELSE f[m]]
  <2>2. f = [m \in 0..(i - 1) |-> IF m = 0 THEN start ELSE Removed(f[m - 1], order[m])]
    BY <2>1 DEF Steps
  <2>3. \A m \in 0..(i - 1) : f[m] = IF m = 0 THEN start ELSE Removed(f[m - 1], order[m])
    <3>. HIDE DEF g
    <3>. QED  BY <2>2
  <2>4. ASSUME NEW m \in 0..i PROVE g[m] = IF m = 0 THEN start ELSE Removed(g[m - 1], order[m])
    <3>1. CASE m = 0
      <4>1. 0 \in 0..(i - 1) /\ m # i  BY <3>1
      <4>. QED  BY <2>3, <3>1, <4>1
    <3>2. CASE m # 0 /\ m # i
      <4>1. m \in 0..(i - 1) /\ m - 1 \in 0..i /\ m - 1 # i  BY <3>2
      <4>. QED  BY <2>3, <3>2, <4>1
    <3>3. CASE m # 0 /\ m = i
      <4>1. m - 1 \in 0..i /\ m - 1 # i  BY <3>3
      <4>. QED  BY <3>3, <4>1
    <3>. QED  BY <3>1, <3>2, <3>3
  <2>5. g = [m \in 0..i |-> IF m = 0 THEN start ELSE Removed(g[m - 1], order[m])]
    <3>1. g = [m \in 0..i |-> g[m]]  OBVIOUS
    <3>. HIDE DEF g
    <3>. QED  BY <2>4, <3>1
  <2>6. Steps(g, start, order, i)
    <3>. HIDE DEF g
    <3>. QED  BY <2>5 DEF Steps
  <2>7. \E h : Steps(h, start, order, i)
    <3>. HIDE DEF g
    <3>. QED  BY <2>6
  <2>. QED  BY <2>7
<1>3. n \in T
  <2>. HIDE DEF T
  <2>1. \A i \in 0..n : i \in T  BY <1>1, <1>2, UpTo
  <2>. QED  BY <2>1
<1>. QED  BY <1>3

(* clearGoogleNest removes the records in some order. *)
LEMMA ClearedIs ==
  ASSUME IsBook(home), HomeCleared
  PROVE  \E order \in SetToSeqs(DOMAIN home) : \E f :
           /\ Steps(f, Now, order, Len(order))
           /\ home' = f[Len(order)].home /\ aliases' = f[Len(order)].aliases
<1>. DEFINE F(order) == CHOOSE f : f = [n \in 0..Len(order) |-> IF n = 0 THEN Now ELSE Removed(f[n - 1], order[n])]
<1>1. PICK order \in SetToSeqs(DOMAIN home) : home' = F(order)[Len(order)].home /\ aliases' = F(order)[Len(order)].aliases
  BY DEF HomeCleared
<1>2. \E f : Steps(f, Now, order, Len(order))
  <2>1. Len(order) \in Nat  BY ResourceFinite, FS_Subset, Ordered DEF IsBook
  <2>. QED  BY <2>1, StepsExist
<1>3. F(order) = [n \in 0..Len(order) |-> IF n = 0 THEN Now ELSE Removed(F(order)[n - 1], order[n])]
  BY <1>2 DEF Steps
<1>4. Steps(F(order), Now, order, Len(order))
  BY <1>3 DEF Steps
<1>. QED  BY <1>1, <1>4

GoneFrom(reg, r) == {IF r \in DOMAIN reg.aliases THEN reg.aliases[r] ELSE r} \cap DOMAIN reg.home
NamesGone(reg, r) == {r} \cup GoneFrom(reg, r) \cup UNION {reg.home[k].legacy : k \in GoneFrom(reg, r)}

LEMMA RemovedIs ==
  ASSUME NEW reg, NEW r
  PROVE  /\ GoneFrom(reg, r) = {} => Removed(reg, r) = reg
         /\ GoneFrom(reg, r) # {} =>
              /\ Removed(reg, r).home = Drop(reg.home, GoneFrom(reg, r))
              /\ Removed(reg, r).aliases =
                   Restrict(reg.aliases, {a \in DOMAIN reg.aliases :
                     a \notin NamesGone(reg, r) /\ reg.aliases[a] \notin NamesGone(reg, r)})
BY DEF Removed, GoneFrom, NamesGone

LEMMA RemovedType ==
  ASSUME NEW reg, IsBook(reg.home), AreAliases(reg.aliases), NEW r
  PROVE  IsBook(Removed(reg, r).home) /\ AreAliases(Removed(reg, r).aliases)
<1>1. CASE GoneFrom(reg, r) = {}  BY <1>1, RemovedIs
<1>2. CASE GoneFrom(reg, r) # {}
  <2>1. IsBook(Drop(reg.home, GoneFrom(reg, r)))  BY DropType
  <2>2. ASSUME NEW A, A \subseteq DOMAIN reg.aliases PROVE AreAliases(Restrict(reg.aliases, A))
    BY <2>2 DEF AreAliases, Restrict
  <2>. QED  BY <1>2, <2>1, <2>2, RemovedIs
<1>. QED  BY <1>1, <1>2

LEMMA DeleteType ==
  ASSUME IsBook(home), AreAliases(aliases), NEW r, Delete(r)
  PROVE  IsBook(home') /\ AreAliases(aliases')
<1>1. Now.home = home /\ Now.aliases = aliases  BY DEF Now
<1>. QED  BY <1>1, RemovedType DEF Delete

LEMMA HomeClearedType ==
  ASSUME IsBook(home), AreAliases(aliases), HomeCleared
  PROVE  IsBook(home') /\ AreAliases(aliases')
<1>1. PICK order \in SetToSeqs(DOMAIN home) : \E f :
           /\ Steps(f, Now, order, Len(order))
           /\ home' = f[Len(order)].home /\ aliases' = f[Len(order)].aliases
  BY ClearedIs
<1>2. PICK f : /\ Steps(f, Now, order, Len(order))
               /\ home' = f[Len(order)].home /\ aliases' = f[Len(order)].aliases
  BY <1>1
<1>. DEFINE n == Len(order)
            T == {i \in 0..n : IsBook(f[i].home) /\ AreAliases(f[i].aliases)}
<1>3. n \in Nat  BY ResourceFinite, FS_Subset, Ordered DEF IsBook
<1>4. \A i \in 0..n : f[i] = IF i = 0 THEN Now ELSE Removed(f[i - 1], order[i])
  <2>. HIDE DEF n
  <2>. QED  BY <1>2 DEF Steps, n
<1>. HIDE DEF n
<1>5. 0 \in T
  <2>1. Now.home = home /\ Now.aliases = aliases  BY DEF Now
  <2>. QED  BY <1>3, <1>4, <2>1
<1>6. ASSUME NEW i \in 1..n, i - 1 \in T PROVE i \in T
  <2>1. i \in 0..n /\ i # 0  BY <1>3
  <2>. QED  BY <1>4, <1>6, <2>1, RemovedType
<1>7. n \in T
  <2>. HIDE DEF T
  <2>1. \A i \in 0..n : i \in T  BY <1>3, <1>5, <1>6, UpTo
  <2>. QED  BY <1>3, <2>1
<1>. QED  BY <1>2, <1>7 DEF n

(***************************************************************************)
(* Every step keeps the kinds of the data.                                 *)
(***************************************************************************)
LEMMA FoundIn == \A r : Found(r) \subseteq DOMAIN home
BY DEF Found

LEMMA LegacyIn == \A r, g : Legacy(r, g) \subseteq DOMAIN g.listed \ g.used
BY DEF Legacy

LEMMA AskForPollType ==
  ASSUME poll \in Polls, NEW b \in BOOLEAN, AskForPoll(b)
  PROVE  poll' \in Polls /\ (poll.phase # "idle" => poll' = poll) /\ poll'.phase \in {poll.phase, "asking"}
BY DEF AskForPoll, Polls, NoPoll

LEMMA BegunType ==
  ASSUME NEW q \in Seq(Resource), NEW b \in BOOLEAN, account \in Nat, nest \in Grants
  PROVE  /\ Begun(q, b) \in Ingests /\ Begun(q, b).on /\ Begun(q, b).todo = q /\ Begun(q, b).incoming = q
         /\ Begun(q, b).used = {} /\ Begun(q, b).listed = Empty /\ ~Begun(q, b).sweeping
<1>1. (IF account # 0 THEN account ELSE nest.grant) \in Nat  BY DEF Grants
<1>. QED  BY <1>1, EmptyBook DEF Begun, NoIngest, Ingests

LEMMA NewDeviceType ==
  ASSUME NEW t \in Thermostat, NEW n \in Nat
  PROVE  NewDevice(t, n) \in Devices
BY DEF NewDevice, Devices

LEMMA LookedType ==
  ASSUME IsBook(home), ing \in [Jobs -> Ingests], NEW j \in Jobs
  PROVE  /\ Looked(j) \in Ingests
         /\ \A f \in {"on", "incoming", "todo", "used", "sweeping", "allow", "grant"} : Looked(j)[f] = ing[j][f]
         /\ Looked(j).listed \in {home, ing[j].listed}
<1>1. ing[j] \in Ingests /\ home \in Books  BY InBooks
<1>. QED  BY <1>1 DEF Looked, Ingests

(* An entry is a record, found now or listed before, or a new one. *)
LEMMA EntriesAre ==
  ASSUME NEW r, NEW g, NEW e \in Entries(r, g)
  PROVE  \/ e[1] \in Found(r) /\ e[2] = home[e[1]]
         \/ Found(r) = {} /\ e[1] \in Legacy(r, g) /\ e[2] = g.listed[e[1]]
         \/ Found(r) = {} /\ Legacy(r, g) = {} /\ e[1] = NoName /\ e[2] = NewDevice(Owner(r), g.grant)
<1>. DEFINE now   == {<<k, home[k]>> : k \in Found(r)}
            older == {<<k, g.listed[k]>> : k \in Legacy(r, g)}
<1>1. now = {} <=> Found(r) = {}  OBVIOUS
<1>2. older = {} <=> Legacy(r, g) = {}  OBVIOUS
<1>3. CASE Found(r) # {}
  <2>1. e \in now  BY <1>1, <1>3 DEF Entries
  <2>. QED  BY <2>1
<1>4. CASE Found(r) = {} /\ Legacy(r, g) # {}
  <2>1. e \in older  BY <1>1, <1>2, <1>4 DEF Entries
  <2>. QED  BY <2>1, <1>4
<1>5. CASE Found(r) = {} /\ Legacy(r, g) = {}
  <2>1. e = <<NoName, NewDevice(Owner(r), g.grant)>>
    BY <1>1, <1>2, <1>5 DEF Entries
  <2>. QED  BY <2>1, <1>5
<1>. QED  BY <1>3, <1>4, <1>5

LEMMA EntryType ==
  ASSUME IsBook(home), NEW r \in Resource, NEW g \in Ingests, NEW e \in Entries(r, g)
  PROVE  e[1] \in Names /\ e[2] \in Devices
<1>1. IsBook(g.listed)  BY IngestFields, InBooks
<1>2. g.grant \in Nat /\ Owner(r) \in Thermostat  BY IngestFields, NameTypes
<1>3. CASE e[1] \in Found(r) /\ e[2] = home[e[1]]
  BY <1>3, FoundIn DEF IsBook, Names
<1>4. CASE Found(r) = {} /\ e[1] \in Legacy(r, g) /\ e[2] = g.listed[e[1]]
  BY <1>1, <1>4, LegacyIn DEF IsBook, Names
<1>5. CASE e[1] = NoName /\ e[2] = NewDevice(Owner(r), g.grant)
  BY <1>2, <1>5, NewDeviceType DEF Names
<1>. QED  BY <1>3, <1>4, <1>5, EntriesAre

(* What an ingest stores: as it sees the device, or with its grant. *)
Seen(d, r) == [d EXCEPT !.shows = Owner(r), !.available = TRUE]
Freshened(d, r, g) == [Seen(d, r) EXCEPT !.grant = g.grant]

LEMMA StoresIs ==
  ASSUME NEW k, NEW d, NEW r, NEW g, Stores(k, d, r, g)
  PROVE  \/ k \in {NoName, r} /\ Upsert(r, Freshened(d, r, g))
         \/ k \notin {NoName, r} /\ d.verified /\ ~g.allow /\ Upsert(k, Seen(d, r))
         \/ k \notin {NoName, r} /\ Migrate(k, r, Freshened(d, r, g))
BY DEF Stores, Freshened, Seen

LEMMA SeenType ==
  ASSUME NEW d \in Devices, NEW r \in Resource, NEW g \in Ingests
  PROVE  /\ Seen(d, r) \in Devices /\ Freshened(d, r, g) \in Devices
         /\ Seen(d, r).shows = Owner(r) /\ Freshened(d, r, g).shows = Owner(r)
         /\ Seen(d, r).area = d.area /\ Freshened(d, r, g).area = d.area
         /\ Seen(d, r).legacy = d.legacy /\ Freshened(d, r, g).legacy = d.legacy
<1>1. g.grant \in Nat /\ Owner(r) \in Thermostat  BY IngestFields, NameTypes
<1>. QED  BY <1>1 DEF Devices, Seen, Freshened

LEMMA StoresType ==
  ASSUME IsBook(home), AreAliases(aliases), NEW r \in Resource, NEW g \in Ingests,
         NEW k \in Names, NEW d \in Devices, Stores(k, d, r, g)
  PROVE  IsBook(home') /\ AreAliases(aliases')
<1>1. Seen(d, r) \in Devices /\ Freshened(d, r, g) \in Devices  BY SeenType
<1>2. k # NoName => k \in Resource  BY DEF Names
<1>3. CASE Upsert(r, Freshened(d, r, g))  BY <1>1, <1>3, UpsertType
<1>4. CASE k # NoName /\ Upsert(k, Seen(d, r))  BY <1>1, <1>2, <1>4, UpsertType
<1>5. CASE k # NoName /\ Migrate(k, r, Freshened(d, r, g))  BY <1>1, <1>2, <1>5, MigrateType
<1>. QED  BY <1>3, <1>4, <1>5, StoresIs

LEMMA SpendType ==
  ASSUME budget \in [Kinds -> Nat], NEW kind \in Kinds, Spend(kind)
  PROVE  budget' \in [Kinds -> Nat]
BY DEF Spend

LEMMA AwaitedType ==
  ASSUME calls \in UserCalls, NEW outcome \in {"none", "degraded", "reauth_required"}, Awaited(outcome)
  PROVE  calls' \in UserCalls
BY DEF Awaited, UserCalls

LEMMA IngestNextTypes ==
  ASSUME NestTypes, NEW j \in Jobs, IngestNext(j)
  PROVE  NestTypes'
<1>. DEFINE g == Looked(j)
            r == Head(g.todo)
<1>1. /\ IsBook(home) /\ AreAliases(aliases) /\ ing \in [Jobs -> Ingests] /\ hist \in Pasts
      /\ UNCHANGED <<nest, account, google, poll, timer, cmd, calls, budget>>
  BY DEF NestTypes, IngestNext
<1>2. g \in Ingests  BY <1>1, LookedType
<1>3. g.todo # <<>>  BY DEF IngestNext
<1>4. PICK e \in Entries(r, g) :
        /\ Stores(e[1], e[2], r, g)
        /\ ing' = [ing EXCEPT ![j] = [g EXCEPT !.todo = Tail(@), !.used = @ \cup ({e[1]} \ {NoName})]]
        /\ hist' = [hist EXCEPT !.strange = @ \/ Strange(e[1], r, g), !.back = @ \/ Back(e[1], e[2], r)]
  BY DEF IngestNext
<1>. HIDE DEF g
<1>5. r \in Resource /\ Tail(g.todo) \in Seq(Resource)  BY <1>2, <1>3, IngestFields
<1>. HIDE DEF r
<1>6. e[1] \in Names /\ e[2] \in Devices  BY <1>1, <1>2, <1>5, EntryType
<1>7. IsBook(home') /\ AreAliases(aliases')  BY <1>1, <1>2, <1>4, <1>5, <1>6, StoresType
<1>8. ing' \in [Jobs -> Ingests]
  <2>1. [g EXCEPT !.todo = Tail(@), !.used = @ \cup ({e[1]} \ {NoName})] \in Ingests
    <3>1. {e[1]} \ {NoName} \subseteq Resource  BY <1>6 DEF Names
    <3>. QED  BY <1>2, <1>5, <3>1 DEF Ingests
  <2>. QED  BY <1>1, <1>4, <2>1
<1>9. hist' \in Pasts
  <2>1. (hist.strange \/ Strange(e[1], r, g)) \in BOOLEAN /\ (hist.back \/ Back(e[1], e[2], r)) \in BOOLEAN  OBVIOUS
  <2>. QED  BY <1>1, <1>4, <2>1 DEF Pasts
<1>. QED  BY <1>1, <1>7, <1>8, <1>9 DEF NestTypes

LEMMA UnsweptType ==
  ASSUME IsBook(home), ing \in [Jobs -> Ingests], NEW j \in Jobs
  PROVE  IsBook(Unswept(j))
<1>1. IsBook(ing[j].listed)  BY IngestFields, InBooks
<1>2. IsBook(Restrict(home, Absent(j)))
  BY DEF IsBook, Restrict, Absent
<1>. QED  BY <1>1, <1>2 DEF Unswept

LEMMA IngestSweepsTypes ==
  ASSUME NestTypes, NEW j \in Jobs, NEW k \in Resource, IngestSweeps(j, k)
  PROVE  NestTypes'
<1>1. /\ IsBook(home) /\ AreAliases(aliases) /\ ing \in [Jobs -> Ingests] /\ hist \in Pasts
      /\ UNCHANGED <<nest, account, google, poll, timer, cmd, calls, budget>>
  BY DEF NestTypes, IngestSweeps
<1>2. IsBook(Unswept(j)) /\ k \in DOMAIN Unswept(j)  BY <1>1, UnsweptType DEF IngestSweeps
<1>3. [Unswept(j)[k] EXCEPT !.available = FALSE] \in Devices
  <2>1. Unswept(j)[k] \in Devices  BY <1>2 DEF IsBook
  <2>. QED  BY <2>1 DEF Devices
<1>4. IsBook(home') /\ AreAliases(aliases')  BY <1>1, <1>3, UpsertType DEF IngestSweeps
<1>5. ing' \in [Jobs -> Ingests]
  <2>1. Drop(Unswept(j), {k}) \in Books  BY <1>2, DropType, InBooks
  <2>2. ing' = [ing EXCEPT ![j] = [ing[j] EXCEPT !.sweeping = TRUE, !.listed = Drop(Unswept(j), {k})]]
    BY <1>1 DEF IngestSweeps
  <2>3. [ing[j] EXCEPT !.sweeping = TRUE, !.listed = Drop(Unswept(j), {k})] \in Ingests
    BY <1>1, <2>1 DEF Ingests
  <2>. QED  BY <1>1, <2>2, <2>3
<1>6. hist' \in Pasts
  <2>. DEFINE b == hist.back \/ k \notin DOMAIN home \/ home[k] # Unswept(j)[k]
  <2>1. hist' = [hist EXCEPT !.back = b]  BY DEF IngestSweeps
  <2>2. b \in BOOLEAN  OBVIOUS
  <2>. HIDE DEF b
  <2>. QED  BY <1>1, <2>1, <2>2 DEF Pasts
<1>. QED  BY <1>1, <1>4, <1>5, <1>6 DEF NestTypes

(* The listings of a poll, in any order: each thermostat once. *)
LEMMA ListingType ==
  ASSUME google \in Networks, NEW s \in Listings
  PROVE  /\ s \subseteq Resource /\ IsFiniteSet(s)
         /\ \A a, b \in s : Owner(a) = Owner(b) => a = b
<1>1. google.in \subseteq Thermostat  BY DEF Networks
<1>2. PICK n \in [google.in -> {0, 1}] : s = {<<t, n[t]>> : t \in google.in}
  BY DEF Listings
<1>3. s \subseteq Resource  BY <1>1, <1>2 DEF Resource
<1>4. IsFiniteSet(s)  BY <1>3, ResourceFinite, FS_Subset
<1>. QED  BY <1>2, <1>3, <1>4 DEF Owner

LEMMA PollListedBegins ==
  ASSUME NestTypes, NEW s \in Listings, PollListed(s)
  PROVE  \/ ing' = ing
         \/ \E shown \in Seq(Resource) :
              /\ ing' = [ing EXCEPT !["poll"] = Begun(shown, poll.migrates)]
              /\ \A a, b \in 1..Len(shown) : Owner(shown[a]) = Owner(shown[b]) => a = b
<1>1. CASE Dead(s) # {} /\ poll.try < 2  BY <1>1 DEF PollListed
<1>2. CASE ~(Dead(s) # {} /\ poll.try < 2)
  <2>1. PICK refused : \E shown \in SetToSeqs((s \ refused) \ nest.ignored) :
           ing' = [ing EXCEPT !["poll"] = Begun(shown, poll.migrates)]
    BY <1>2 DEF PollListed
  <2>. DEFINE S == (s \ refused) \ nest.ignored
  <2>2. PICK shown \in SetToSeqs(S) : ing' = [ing EXCEPT !["poll"] = Begun(shown, poll.migrates)]
    BY <2>1
  <2>3. S \subseteq s /\ s \subseteq Resource /\ IsFiniteSet(S) /\ \A a, b \in S : Owner(a) = Owner(b) => a = b
    BY ListingType, FS_Subset DEF NestTypes
  <2>. HIDE DEF S
  <2>4. shown \in Seq(S) /\ \A a, b \in 1..Len(shown) : shown[a] = shown[b] => a = b
    BY <2>2, <2>3, Ordered
  <2>5. shown \in Seq(Resource) /\ \A a \in 1..Len(shown) : shown[a] \in S
    BY <2>3, <2>4
  <2>. QED  BY <2>2, <2>3, <2>4, <2>5
<1>. QED  BY <1>1, <1>2

LEMMA PollTypes ==
  ASSUME NestTypes, PollStep \/ TimerFires \/ RefreshRequested \/ Start
  PROVE  NestTypes'
<1>. USE DEF NestTypes
<1>1. CASE PollSigns  BY <1>1 DEF PollSigns, registry, Polls
<1>2. CASE PollStored
  <2>1. nest' \in Grants
    <3>1. ing["poll"].grant \in Nat  BY IngestFields DEF Jobs
    <3>. QED  BY <1>2, <3>1 DEF PollStored, Grants, Statuses
  <2>2. ing' \in [Jobs -> Ingests]  BY <1>2, Starts DEF PollStored
  <2>3. calls' \in UserCalls  BY <1>2, AwaitedType DEF PollStored
  <2>. QED  BY <1>2, <2>1, <2>2, <2>3, Starts DEF PollStored, registry
<1>3. ASSUME NEW s \in Listings, PollListed(s) PROVE NestTypes'
  <2>1. ing' \in [Jobs -> Ingests]
    <3>1. poll.migrates \in BOOLEAN  BY DEF Polls
    <3>. QED  BY <1>3, <3>1, PollListedBegins, BegunType
  <2>2. poll' \in Polls
    <3>1. poll' = [poll EXCEPT !.phase = "asking", !.try = @ + 1] \/ poll' = [poll EXCEPT !.phase = "storing"]
      BY <1>3 DEF PollListed
    <3>2. CASE poll' = [poll EXCEPT !.phase = "asking", !.try = @ + 1]
      <4>1. poll.try + 1 \in Nat  BY DEF Polls
      <4>. QED  BY <3>2, <4>1 DEF Polls
    <3>3. CASE poll' = [poll EXCEPT !.phase = "storing"]  BY <3>3 DEF Polls
    <3>. QED  BY <3>1, <3>2, <3>3
  <2>3. budget' \in [Kinds -> Nat]
    <3>1. "stale" \in Kinds  BY DEF Kinds
    <3>. QED  BY <1>3, <3>1, SpendType DEF PollListed
  <2>. QED  BY <1>3, <2>1, <2>2, <2>3 DEF PollListed, registry
<1>4. ASSUME NEW status \in Failures, NEW retryAfter \in BOOLEAN, PollFails(status, retryAfter) PROVE NestTypes'
  <2>1. nest' \in Grants  BY <1>4 DEF PollFails, Grants, Failures, Statuses
  <2>2. calls' \in UserCalls  BY <1>4, AwaitedType DEF PollFails, Failures
  <2>3. budget' \in [Kinds -> Nat]
    <3>1. "faults" \in Kinds  BY DEF Kinds
    <3>. QED  BY <1>4, <3>1, SpendType DEF PollFails
  <2>4. timer' \in [on : BOOLEAN, busy : BOOLEAN]  BY <1>4 DEF PollFails
  <2>. QED  BY <1>4, <2>1, <2>2, <2>3, <2>4, Starts DEF PollFails, registry
<1>5. CASE TimerFires
  BY <1>5, AskForPollType DEF TimerFires, registry
<1>6. CASE RefreshRequested
  <2>1. "manual" \in Kinds  BY DEF Kinds
  <2>. QED  BY <1>6, <2>1, AskForPollType, SpendType DEF RefreshRequested, registry
<1>7. CASE Start
  <2>1. calls' \in UserCalls  BY <1>7 DEF Start, UserCalls
  <2>2. nest' \in Grants /\ poll' \in Polls  BY <1>7, AskForPollType DEF Start, Grants, Statuses
  <2>. QED  BY <1>7, <2>1, <2>2 DEF Start, registry
<1>. QED  BY <1>1, <1>2, <1>3, <1>4, <1>5, <1>6, <1>7 DEF PollStep

LEMMA CommandTypes ==
  ASSUME NestTypes,
         \/ \E r \in Resource : Command(r)
         \/ CommandSent \/ CommandRecovers \/ CommandRead \/ CommandConfirmed \/ RequestFails
  PROVE  NestTypes'
<1>. USE DEF NestTypes
<1>1. ASSUME NEW r \in Resource, Command(r) PROVE NestTypes'
  <2>1. "commands" \in Kinds  BY DEF Kinds
  <2>2. budget' \in [Kinds -> Nat]  BY <1>1, <2>1, SpendType DEF Command
  <2>3. PICK k \in DOMAIN home :
          cmd' = [phase |-> "sending", id |-> k, resource |-> k, try |-> 0,
                  wanted |-> IF home[k].area # NoThermostat THEN home[k].area ELSE home[k].shows]
    BY <1>1, FoundIn DEF Command
  <2>4. k \in Resource /\ home[k] \in Devices  BY DEF IsBook
  <2>5. (IF home[k].area # NoThermostat THEN home[k].area ELSE home[k].shows) \in Thermostat \cup {NoThermostat}
    BY <2>4, DeviceFields
  <2>6. cmd' \in Commands /\ cmd'.id \in Resource /\ cmd'.resource \in Resource
    BY <2>3, <2>4, <2>5 DEF Commands, Names
  <2>. QED  BY <1>1, <2>2, <2>6 DEF Command, registry
<1>2. CASE CommandSent
  <2>1. CASE Former(cmd.resource)
    BY <1>2, <2>1, AskForPollType DEF CommandSent, registry, Commands
  <2>2. CASE ~Former(cmd.resource)
    <3>1. hist' \in Pasts
      <4>1. <<cmd.wanted, cmd.resource>> \in (Thermostat \cup {NoThermostat}) \X Resource
        BY <1>2 DEF CommandSent, Commands
      <4>. QED  BY <1>2, <2>2, <4>1 DEF CommandSent, Pasts
    <3>. QED  BY <1>2, <2>2, <3>1 DEF CommandSent, registry, Commands
  <2>. QED  BY <2>1, <2>2
<1>3. CASE CommandRecovers
  <2>1. \A k \in Recovered : k \in Resource  BY FoundIn DEF Recovered, IsBook
  <2>2. cmd.id \in Resource /\ cmd.resource \in Resource  BY <1>3 DEF CommandRecovers
  <2>3. CASE \E k \in Recovered : cmd' = [cmd EXCEPT !.phase = "sending", !.resource = k] /\ UNCHANGED poll
    <3>1. cmd' \in Commands /\ cmd'.id \in Resource /\ cmd'.resource \in Resource
      BY <2>1, <2>2, <2>3 DEF Commands, Names
    <3>. QED  BY <1>3, <2>3, <3>1 DEF CommandRecovers, registry
  <2>4. CASE cmd' = [cmd EXCEPT !.try = @ + 1] /\ AskForPoll(TRUE)
    <3>1. cmd' \in Commands /\ cmd'.id \in Resource /\ cmd'.resource \in Resource
      BY <2>2, <2>4 DEF Commands
    <3>. QED  BY <1>3, <2>4, <3>1, AskForPollType DEF CommandRecovers, registry
  <2>5. CASE cmd' = NoCommand /\ UNCHANGED poll
    BY <1>3, <2>5, Starts DEF CommandRecovers, registry, NoCommand
  <2>. QED  BY <1>3, <2>3, <2>4, <2>5 DEF CommandRecovers
<1>4. CASE CommandRead
  <2>1. <<cmd.resource>> \in Seq(Resource)  BY <1>4 DEF CommandRead
  <2>2. ing' \in [Jobs -> Ingests]  BY <1>4, <2>1, BegunType DEF CommandRead
  <2>. QED  BY <1>4, <2>2 DEF CommandRead, registry, Commands
<1>5. CASE CommandConfirmed
  <2>1. IsBook(home') /\ AreAliases(aliases')
    <3>1. CASE UNCHANGED registry  BY <3>1 DEF registry
    <3>2. ASSUME NEW k \in Found(cmd.id), Upsert(k, [home[k] EXCEPT !.verified = TRUE]) PROVE IsBook(home') /\ AreAliases(aliases')
      <4>1. k \in Resource /\ home[k] \in Devices  BY FoundIn DEF IsBook
      <4>2. [home[k] EXCEPT !.verified = TRUE] \in Devices  BY <4>1 DEF Devices
      <4>. QED  BY <3>2, <4>1, <4>2, UpsertType
    <3>. QED  BY <1>5, <3>1, <3>2 DEF CommandConfirmed
  <2>2. ing' \in [Jobs -> Ingests]  BY <1>5, Starts DEF CommandConfirmed
  <2>. QED  BY <1>5, <2>1, <2>2, Starts DEF CommandConfirmed, NoCommand
<1>6. CASE RequestFails
  <2>1. "faults" \in Kinds  BY DEF Kinds
  <2>2. budget' \in [Kinds -> Nat]  BY <1>6, <2>1, SpendType DEF RequestFails
  <2>3. nest' \in Grants /\ timer' \in [on : BOOLEAN, busy : BOOLEAN]  BY <1>6 DEF RequestFails, Grants, Statuses
  <2>. QED  BY <1>6, <2>2, <2>3, Starts DEF RequestFails, registry, NoCommand
<1>. QED  BY <1>1, <1>2, <1>3, <1>4, <1>5, <1>6

LEMMA AccountTypes ==
  ASSUME NestTypes,
         \/ AuthorisationBegins \/ SessionEnds \/ ConsentGiven \/ Exchanged \/ ConnectFails
         \/ LeaveStarts \/ LeaveFails \/ LeaveForgets \/ LeaveClears
  PROVE  NestTypes'
<1>. USE DEF NestTypes
<1>. {"authorised", "left", "faults"} \subseteq Kinds  BY DEF Kinds
<1>1. CASE AuthorisationBegins
  BY <1>1, SpendType DEF AuthorisationBegins, registry, UserCalls, Grants, Statuses
<1>2. CASE SessionEnds
  <2>1. nest' \in Grants  BY <1>2 DEF SessionEnds, Grants, Refused, Statuses
  <2>2. timer' \in [on : BOOLEAN, busy : BOOLEAN]  BY <1>2 DEF SessionEnds, Grants
  <2>. QED  BY <1>2, <2>1, <2>2 DEF SessionEnds, registry, UserCalls
<1>3. CASE ConsentGiven
  BY <1>3 DEF ConsentGiven, registry, UserCalls, Grants, Statuses
<1>4. CASE Exchanged
  <2>1. hist' \in Pasts /\ account' \in Nat  BY <1>4 DEF Exchanged, NewGrant, Pasts
  <2>. QED  BY <1>4, <2>1, AskForPollType DEF Exchanged, registry, UserCalls, Grants, Statuses
<1>5. CASE ConnectFails
  <2>1. budget' \in [Kinds -> Nat]  BY <1>5, SpendType DEF ConnectFails
  <2>2. nest' \in Grants /\ timer' \in [on : BOOLEAN, busy : BOOLEAN]  BY <1>5 DEF ConnectFails, Grants, Statuses
  <2>. QED  BY <1>5, <2>1, <2>2 DEF ConnectFails, registry, UserCalls
<1>6. CASE LeaveStarts
  BY <1>6, SpendType DEF LeaveStarts, registry, UserCalls
<1>7. CASE LeaveFails
  BY <1>7, SpendType DEF LeaveFails, registry, UserCalls
<1>8. CASE LeaveForgets
  BY <1>8 DEF LeaveForgets, registry, UserCalls
<1>9. CASE LeaveClears
  <2>1. IsBook(home') /\ AreAliases(aliases')  BY <1>9, HomeClearedType DEF LeaveClears
  <2>2. nest' \in Grants  BY <1>9, Starts DEF LeaveClears, HomeCleared
  <2>3. hist' \in Pasts
    <3>1. (hist.cut \/ Storing) \in BOOLEAN  OBVIOUS
    <3>. QED  BY <1>9, <3>1 DEF LeaveClears, Pasts
  <2>. QED  BY <1>9, <2>1, <2>2, <2>3 DEF LeaveClears, UserCalls
<1>. QED  BY <1>1, <1>2, <1>3, <1>4, <1>5, <1>6, <1>7, <1>8, <1>9

LEMMA HomeTypesKept ==
  ASSUME NestTypes,
         \/ \E r \in Resource : Assign(r) \/ RemoveHides(r) \/ Restore(r)
         \/ RemoveDeletes \/ RestoreRefreshes \/ HubRestarts
         \/ \E t \in Thermostat : Renamed(t) \/ JoinsOrLeaves(t)
  PROVE  NestTypes'
<1>. USE DEF NestTypes
<1>. {"assigned", "removed", "restored", "renamed", "joins", "restarts"} \subseteq Kinds  BY DEF Kinds
<1>0. (hist.cut \/ Storing) \in BOOLEAN  OBVIOUS
<1>1. ASSUME NEW k \in Resource, Assign(k) PROVE NestTypes'
  <2>1. home[k] \in Devices  BY <1>1 DEF Assign, IsBook
  <2>2. [home[k] EXCEPT !.area = home[k].shows] \in Devices  BY <2>1 DEF Devices
  <2>3. IsBook(home') /\ AreAliases(aliases')  BY <1>1, <2>2, UpsertType DEF Assign
  <2>4. hist' \in Pasts  BY <1>0, <1>1 DEF Assign, Pasts
  <2>. QED  BY <1>1, <2>3, <2>4, SpendType DEF Assign
<1>2. ASSUME NEW k \in Resource, RemoveHides(k) PROVE NestTypes'
  BY <1>2, SpendType DEF RemoveHides, registry, UserCalls, Grants, Names
<1>3. ASSUME NEW r \in Resource, Restore(r) PROVE NestTypes'
  BY <1>3, SpendType DEF Restore, registry, UserCalls, Grants
<1>4. CASE RemoveDeletes
  <2>1. IsBook(home') /\ AreAliases(aliases')  BY <1>4, DeleteType DEF RemoveDeletes
  <2>2. hist' \in Pasts  BY <1>0, <1>4 DEF RemoveDeletes, Pasts
  <2>. QED  BY <1>4, <2>1, <2>2 DEF RemoveDeletes, UserCalls, Names
<1>5. CASE RestoreRefreshes
  BY <1>5, AskForPollType DEF RestoreRefreshes, registry, UserCalls
<1>6. CASE HubRestarts
  <2>1. [NoCalls EXCEPT !.starting = TRUE] \in UserCalls  BY Starts DEF UserCalls
  <2>. QED  BY <1>6, <2>1, Starts, SpendType DEF HubRestarts, registry, NoCommand
<1>7. ASSUME NEW t \in Thermostat, Renamed(t) PROVE NestTypes'
  BY <1>7, SpendType DEF Renamed, registry, Networks
<1>8. ASSUME NEW t \in Thermostat, JoinsOrLeaves(t) PROVE NestTypes'
  BY <1>8, SpendType DEF JoinsOrLeaves, registry, Networks
<1>. QED  BY <1>1, <1>2, <1>3, <1>4, <1>5, <1>6, <1>7, <1>8

LEMMA NestTypesKept ==
  ASSUME NestTypes, [NestNext]_nestVars
  PROVE  NestTypes'
<1>1. CASE UNCHANGED nestVars
  BY <1>1 DEF nestVars, registry, NestTypes
<1>2. CASE NestNext
  BY <1>2, IngestNextTypes, IngestSweepsTypes, PollTypes, CommandTypes, AccountTypes, HomeTypesKept
  DEF NestNext, IngestStep
<1>. QED  BY <1>1, <1>2

LEMMA NestTypesBegin == ASSUME NestInit PROVE NestTypes
<1>1. IsBook(home) /\ nest \in Grants /\ account \in Nat /\ calls \in UserCalls
  <2>1. CASE nest = Gone /\ account = 0 /\ home = Empty /\ calls = NoCalls
    BY <2>1, EmptyBook, Starts
  <2>2. ASSUME nest = [configured |-> TRUE, status |-> "connected", ignored |-> {}, grant |-> 1], account = 1,
               NEW verified \in BOOLEAN,
               home = [r \in Thermostat \X {0} |-> [NewDevice(Owner(r), 1) EXCEPT !.area = Owner(r), !.verified = verified]],
               calls = [NoCalls EXCEPT !.starting = TRUE]
        PROVE IsBook(home) /\ nest \in Grants /\ account \in Nat /\ calls \in UserCalls
    <3>1. \A r \in Thermostat \X {0} : r \in Resource /\ Owner(r) \in Thermostat  BY DEF Resource, Owner
    <3>2. \A r \in Thermostat \X {0} : [NewDevice(Owner(r), 1) EXCEPT !.area = Owner(r), !.verified = verified] \in Devices
      <4>1. ASSUME NEW t \in Thermostat PROVE [NewDevice(t, 1) EXCEPT !.area = t, !.verified = verified] \in Devices
        BY DEF NewDevice, Devices
      <4>. QED  BY <3>1, <4>1
    <3>3. IsBook(home)  BY <2>2, <3>1, <3>2 DEF IsBook
    <3>4. calls \in UserCalls  BY <2>2, Starts DEF UserCalls
    <3>. QED  BY <2>2, <3>3, <3>4 DEF Grants, Statuses
  <2>. QED  BY <2>1, <2>2 DEF NestInit
<1>2. google \in Networks  BY DEF NestInit, Networks
<1>3. ing \in [Jobs -> Ingests]  BY Starts DEF NestInit
<1>4. hist \in Pasts  BY <1>1 DEF NestInit, Pasts
<1>5. budget \in [Kinds -> Nat]  BY NestAssumption DEF NestInit
<1>. QED  BY <1>1, <1>2, <1>3, <1>4, <1>5, EmptyBook, Starts DEF NestInit, NestTypes, NoCommand

(***************************************************************************)
(* Which jobs there are, and that a snapshot has each thermostat once.     *)
(***************************************************************************)
EachOnce(q) == \A a, b \in 1..Len(q) : Owner(q[a]) = Owner(q[b]) => a = b
JobIsWell(g) == (~g.on => g = NoIngest) /\ EachOnce(g.todo)
Working ==
  /\ \A j \in Jobs : JobIsWell(ing[j])
  /\ ing["poll"].on => poll.phase = "storing"
  /\ ing["confirm"].on => cmd.phase = "storing"

LEMMA NoIngestIsWell == JobIsWell(NoIngest) /\ ~NoIngest.on
BY DEF JobIsWell, NoIngest, EachOnce

LEMMA TailOnce ==
  ASSUME NEW q \in Seq(Resource), q # <<>>, EachOnce(q)
  PROVE  /\ EachOnce(Tail(q))
         /\ \A i \in 1..Len(Tail(q)) : Owner(Tail(q)[i]) # Owner(Head(q))
<1>1. \A i \in 1..Len(Tail(q)) : Tail(q)[i] = q[i + 1] /\ i + 1 \in 1..Len(q) /\ i + 1 # 1
  OBVIOUS
<1>2. Head(q) = q[1] /\ 1 \in 1..Len(q) /\ Len(Tail(q)) \in Nat
  OBVIOUS
<1>. QED  BY <1>1, <1>2 DEF EachOnce

LEMMA IngestWorking ==
  ASSUME NestTypes, Working, NEW j \in Jobs, IngestStep(j)
  PROVE  Working'
<1>. ing \in [Jobs -> Ingests]  BY DEF NestTypes
<1>1. CASE IngestNext(j)
  <2>. DEFINE g == Looked(j)
  <2>1. PICK k : ing' = [ing EXCEPT ![j] = [g EXCEPT !.todo = Tail(@), !.used = @ \cup ({k} \ {NoName})]]
    BY <1>1 DEF IngestNext
  <2>2. g \in Ingests /\ g.on = ing[j].on /\ g.todo = ing[j].todo /\ g.on /\ g.todo # <<>>
    BY <1>1, LookedType DEF NestTypes, IngestNext
  <2>. HIDE DEF g
  <2>3. ing'[j].on /\ ing'[j].todo = Tail(g.todo)  BY <2>1, <2>2 DEF Ingests
  <2>4. JobIsWell(ing'[j])
    <3>1. g.todo \in Seq(Resource) /\ EachOnce(g.todo)  BY <2>2 DEF Ingests, Working, JobIsWell
    <3>. QED  BY <2>2, <2>3, <3>1, TailOnce DEF JobIsWell
  <2>5. \A i \in Jobs \ {j} : ing'[i] = ing[i]  BY <2>1
  <2>6. UNCHANGED <<poll, cmd>>  BY <1>1 DEF IngestNext
  <2>. QED  BY <2>2, <2>3, <2>4, <2>5, <2>6 DEF Working, Jobs
<1>2. ASSUME NEW k \in Resource, IngestSweeps(j, k) PROVE Working'
  <2>1. ing'[j].on /\ ing'[j].on = ing[j].on /\ ing'[j].todo = ing[j].todo
    BY <1>2 DEF IngestSweeps, Written, Ingests
  <2>2. \A i \in Jobs \ {j} : ing'[i] = ing[i]  BY <1>2 DEF IngestSweeps
  <2>3. UNCHANGED <<poll, cmd>>  BY <1>2 DEF IngestSweeps
  <2>. QED  BY <2>1, <2>2, <2>3 DEF Working, Jobs, JobIsWell
<1>. QED  BY <1>1, <1>2 DEF IngestStep

LEMMA SameJobsWorking ==
  ASSUME Working, UNCHANGED ing, poll' = poll \/ poll.phase # "storing", cmd' = cmd \/ cmd.phase # "storing"
  PROVE  Working'
BY DEF Working

LEMMA AskForPollKeeps ==
  ASSUME NEW b, AskForPoll(b)
  PROVE  poll' = poll \/ poll.phase # "storing"
BY DEF AskForPoll

LEMMA WorkingKept ==
  ASSUME NestTypes, Working, [NestNext]_nestVars
  PROVE  Working'
<1>. ing \in [Jobs -> Ingests]  BY DEF NestTypes
<1>1. CASE UNCHANGED nestVars  BY <1>1 DEF nestVars, Working
<1>2. CASE \/ PollSigns \/ TimerFires \/ RefreshRequested \/ Start
           \/ \E status \in Failures, retryAfter \in BOOLEAN : PollFails(status, retryAfter)
  <2>1. UNCHANGED <<ing, cmd>> /\ (poll' = poll \/ poll.phase # "storing")
    BY <1>2, AskForPollKeeps DEF PollSigns, TimerFires, RefreshRequested, Start, PollFails
  <2>. QED  BY <2>1, SameJobsWorking
<1>3. CASE PollStored
  <2>1. ing'["poll"] = NoIngest /\ ing'["confirm"] = ing["confirm"] /\ cmd' = cmd
    BY <1>3 DEF PollStored, Jobs
  <2>. QED  BY <2>1, NoIngestIsWell DEF Working, Jobs
<1>4. ASSUME NEW s \in Listings, PollListed(s) PROVE Working'
  <2>1. poll.phase = "listing" /\ cmd' = cmd  BY <1>4 DEF PollListed
  <2>2. CASE ing' = ing  BY <2>1, <2>2, SameJobsWorking
  <2>3. ASSUME NEW shown \in Seq(Resource), ing' = [ing EXCEPT !["poll"] = Begun(shown, poll.migrates)],
               \A a, b \in 1..Len(shown) : Owner(shown[a]) = Owner(shown[b]) => a = b
        PROVE Working'
    <3>1. Begun(shown, poll.migrates).on /\ Begun(shown, poll.migrates).todo = shown
      BY BegunType DEF NestTypes, Polls
    <3>2. ing'["poll"] = Begun(shown, poll.migrates) /\ ing'["confirm"] = ing["confirm"]
      BY <2>3 DEF Jobs
    <3>3. JobIsWell(ing'["poll"])  BY <2>3, <3>1, <3>2 DEF JobIsWell, EachOnce
    <3>4. poll'.phase = "storing"
      <4>1. poll' = [poll EXCEPT !.phase = "storing"] \/ ing' = ing  BY <1>4 DEF PollListed
      <4>2. ing' # ing  BY <2>1, <3>1, <3>2 DEF Working
      <4>. QED  BY <4>1, <4>2 DEF NestTypes, Polls
    <3>. QED  BY <2>1, <3>2, <3>3, <3>4 DEF Working, Jobs
  <2>. QED  BY <1>4, <2>2, <2>3, PollListedBegins
<1>5. CASE \E j \in Jobs : IngestStep(j)  BY <1>5, IngestWorking
<1>6. CASE CommandRead
  <2>1. cmd.phase = "confirming" /\ cmd'.phase = "storing" /\ poll' = poll
    BY <1>6 DEF CommandRead, NestTypes, Commands
  <2>2. CASE ing' = ing  BY <2>1, <2>2, SameJobsWorking
  <2>3. CASE ing' = [ing EXCEPT !["confirm"] = Begun(<<cmd.resource>>, TRUE)]
    <3>1. <<cmd.resource>> \in Seq(Resource) /\ EachOnce(<<cmd.resource>>)
      BY <2>1 DEF NestTypes, EachOnce
    <3>2. JobIsWell(Begun(<<cmd.resource>>, TRUE))  BY <3>1, BegunType DEF JobIsWell, NestTypes
    <3>3. ing'["confirm"] = Begun(<<cmd.resource>>, TRUE) /\ ing'["poll"] = ing["poll"]  BY <2>3 DEF Jobs
    <3>. QED  BY <2>1, <3>2, <3>3 DEF Working, Jobs
  <2>. QED  BY <1>6, <2>2, <2>3 DEF CommandRead
<1>7. CASE CommandConfirmed
  <2>1. ing'["confirm"] = NoIngest /\ ing'["poll"] = ing["poll"] /\ poll' = poll
    BY <1>7 DEF CommandConfirmed, Jobs
  <2>. QED  BY <2>1, NoIngestIsWell DEF Working, Jobs
<1>8. CASE \/ CommandSent \/ CommandRecovers \/ RequestFails \/ RestoreRefreshes \/ Exchanged
           \/ \E r \in Resource : Command(r)
  <2>1. UNCHANGED ing /\ (cmd' = cmd \/ cmd.phase # "storing") /\ (poll' = poll \/ poll.phase # "storing")
    BY <1>8, AskForPollKeeps DEF CommandSent, CommandRecovers, RequestFails, RestoreRefreshes, Exchanged, Command
  <2>. QED  BY <2>1, SameJobsWorking
<1>9. CASE \/ AuthorisationBegins \/ SessionEnds \/ ConsentGiven \/ ConnectFails
           \/ LeaveStarts \/ LeaveFails \/ LeaveForgets \/ LeaveClears \/ RemoveDeletes
           \/ \E r \in Resource : Assign(r) \/ RemoveHides(r) \/ Restore(r)
           \/ \E t \in Thermostat : Renamed(t) \/ JoinsOrLeaves(t)
  <2>1. UNCHANGED <<ing, cmd, poll>>
    BY <1>9 DEF AuthorisationBegins, SessionEnds, ConsentGiven, ConnectFails, LeaveStarts, LeaveFails, LeaveForgets,
                LeaveClears, RemoveDeletes, Assign, RemoveHides, Restore, Renamed, JoinsOrLeaves
  <2>. QED  BY <2>1, SameJobsWorking
<1>10. CASE HubRestarts
  BY <1>10, NoIngestIsWell DEF HubRestarts, Working, Jobs
<1>. QED  BY <1>1, <1>2, <1>3, <1>4, <1>5, <1>6, <1>7, <1>8, <1>9, <1>10 DEF NestNext, PollStep

(***************************************************************************)
(* Records stay with their thermostat.                                     *)
(***************************************************************************)
(* A device of a thermostat: its setup, its state and its former names. *)
DeviceOf(d, t) ==
  d.area \in {NoThermostat, t} /\ d.shows = t /\ \A l \in d.legacy : Owner(l) = t
Own(h) == \A k \in DOMAIN h : DeviceOf(h[k], Owner(k))
OwnAliases(al) == \A a \in DOMAIN al : Owner(al[a]) = Owner(a)
OwnJob(g) ==
  Own(g.listed) /\ \A u \in g.used, i \in 1..Len(g.todo) : Owner(g.todo[i]) # Owner(u)
OwnCommand(c) == c.phase # "idle" => c.wanted = Owner(c.resource) /\ c.wanted = Owner(c.id)

Straight ==
  ~hist.strange =>
    /\ Own(home) /\ OwnAliases(aliases)
    /\ \A j \in Jobs : OwnJob(ing[j])
    /\ OwnCommand(cmd)
    /\ hist.sent # <<>> => Owner(hist.sent[2]) = hist.sent[1]

LEMMA OwnPut ==
  ASSUME NEW h, Own(h), NEW r, NEW d, DeviceOf(d, Owner(r))
  PROVE  Own(Put(h, r, d))
BY DEF Own, Put

LEMMA OwnDrop ==
  ASSUME NEW h, Own(h), NEW S
  PROVE  Own(Drop(h, S))
BY DEF Own, Drop, Restrict

LEMMA OwnLed ==
  ASSUME NEW al, OwnAliases(al), NEW r, NEW d, DeviceOf(d, Owner(r))
  PROVE  OwnAliases(Led(al, r, d))
BY DEF OwnAliases, Led, DeviceOf

LEMMA UpsertOwn ==
  ASSUME Own(home), OwnAliases(aliases), NEW r, NEW d, DeviceOf(d, Owner(r)), Upsert(r, d)
  PROVE  Own(home') /\ OwnAliases(aliases')
<1>1. home' = Put(home, r, d) /\ aliases' = Led(aliases, r, d)  BY UpsertIs
<1>. QED  BY <1>1, OwnPut, OwnLed

LEMMA MigrateOwn ==
  ASSUME Own(home), OwnAliases(aliases), IsBook(home), NEW from, NEW r, NEW d \in Devices,
         Owner(from) = Owner(r), DeviceOf(d, Owner(r)), Migrate(from, r, d)
  PROVE  Own(home') /\ OwnAliases(aliases')
<1>1. CASE Upsert(r, d)  BY <1>1, UpsertOwn
<1>2. CASE /\ Source(from) # r /\ Source(from) \in DOMAIN home
           /\ home' = Put(Drop(home, {Source(from)}), r, Moved(Source(from), d))
           /\ aliases' = Put(aliases, Source(from), r)
  <2>1. Owner(Source(from)) = Owner(r)  BY DEF Source, OwnAliases
  <2>. DEFINE s == Source(from)
  <2>. HIDE DEF s
  <2>2. DeviceOf(home[s], Owner(r)) /\ home[s] \in Devices  BY <1>2, <2>1 DEF s, Own, IsBook
  <2>3. DeviceOf(Moved(s, d), Owner(r))
    <3>1. Moved(s, d).area = d.area /\ Moved(s, d).shows = d.shows /\ Moved(s, d).legacy = d.legacy \cup home[s].legacy \cup {s}
      BY DEF Moved, Devices
    <3>. QED  BY <2>1, <2>2, <3>1 DEF DeviceOf, s
  <2>4. OwnAliases(Put(aliases, s, r))  BY <2>1 DEF OwnAliases, Put, s
  <2>. QED  BY <1>2, <2>3, <2>4, OwnPut, OwnDrop DEF s
<1>. QED  BY <1>1, <1>2, MigrateIs

LEMMA RemovedOwn ==
  ASSUME NEW reg, Own(reg.home), OwnAliases(reg.aliases), NEW r
  PROVE  Own(Removed(reg, r).home) /\ OwnAliases(Removed(reg, r).aliases)
<1>1. CASE GoneFrom(reg, r) = {}  BY <1>1, RemovedIs
<1>2. CASE GoneFrom(reg, r) # {}
  <2>1. ASSUME NEW A, A \subseteq DOMAIN reg.aliases PROVE OwnAliases(Restrict(reg.aliases, A))
    BY <2>1 DEF OwnAliases, Restrict
  <2>2. Own(Drop(reg.home, GoneFrom(reg, r)))  BY OwnDrop
  <2>. QED  BY <1>2, <2>1, <2>2, RemovedIs
<1>. QED  BY <1>1, <1>2

LEMMA ClearedOwn ==
  ASSUME IsBook(home), Own(home), OwnAliases(aliases), HomeCleared
  PROVE  Own(home') /\ OwnAliases(aliases')
<1>1. PICK order \in SetToSeqs(DOMAIN home) : \E f :
           /\ Steps(f, Now, order, Len(order))
           /\ home' = f[Len(order)].home /\ aliases' = f[Len(order)].aliases
  BY ClearedIs
<1>2. PICK f : /\ Steps(f, Now, order, Len(order))
               /\ home' = f[Len(order)].home /\ aliases' = f[Len(order)].aliases
  BY <1>1
<1>. DEFINE n == Len(order)
            T == {i \in 0..n : Own(f[i].home) /\ OwnAliases(f[i].aliases)}
<1>3. n \in Nat  BY ResourceFinite, FS_Subset, Ordered DEF IsBook
<1>4. \A i \in 0..n : f[i] = IF i = 0 THEN Now ELSE Removed(f[i - 1], order[i])
  <2>. HIDE DEF n
  <2>. QED  BY <1>2 DEF Steps, n
<1>. HIDE DEF n
<1>5. 0 \in T
  <2>1. Now.home = home /\ Now.aliases = aliases  BY DEF Now
  <2>. QED  BY <1>3, <1>4, <2>1
<1>6. ASSUME NEW i \in 1..n, i - 1 \in T PROVE i \in T
  <2>1. i \in 0..n /\ i # 0  BY <1>3
  <2>. QED  BY <1>4, <1>6, <2>1, RemovedOwn
<1>7. n \in T
  <2>. HIDE DEF T
  <2>1. \A i \in 0..n : i \in T  BY <1>3, <1>5, <1>6, UpTo
  <2>. QED  BY <1>3, <2>1
<1>. QED  BY <1>2, <1>7 DEF n

(* A record recognised as a thermostat's, which has one of its own, is that one. *)
LEMMA LegacyOwn ==
  ASSUME NEW r, NEW g, \A u \in g.used : Owner(u) # Owner(r), NEW k \in Legacy(r, g), k # NoName, ~Strange(k, r, g)
  PROVE  Owner(k) = Owner(r)
<1>1. SUFFICES ASSUME Owner(k) # Owner(r) PROVE FALSE  OBVIOUS
<1>2. PICK o \in DOMAIN g.listed : Owner(o) = Owner(r) /\ ~Differs(g.listed[o].grant, g.grant)
  BY <1>1 DEF Strange
<1>. DEFINE free == DOMAIN g.listed \ g.used
<1>3. o \in free /\ o # k  BY <1>1, <1>2
<1>4. r # k  BY <1>1
<1>5. Score(r, k, g) \in {0, 3}  BY <1>1, <1>4 DEF Score
<1>6. Score(r, o, g) \in {100, 7, 3}  BY <1>2 DEF Score
<1>7. CASE \A p \in free \ {k} : Score(r, p, g) < Score(r, k, g)
  BY <1>3, <1>5, <1>6, <1>7
<1>8. CASE free = {k}
  BY <1>3, <1>8
<1>. QED  BY <1>7, <1>8 DEF Legacy

LEMMA IngestNextStraight ==
  ASSUME NestTypes, Working, Straight, NEW j \in Jobs, IngestNext(j)
  PROVE  Straight'
<1>. DEFINE g == Looked(j)
            r == Head(g.todo)
<1>1. /\ IsBook(home) /\ AreAliases(aliases) /\ ing \in [Jobs -> Ingests] /\ hist \in Pasts
      /\ UNCHANGED <<nest, account, google, poll, timer, cmd, calls, budget>>
  BY DEF NestTypes, IngestNext
<1>2. /\ g \in Ingests /\ g.todo # <<>> /\ g.todo = ing[j].todo /\ g.used = ing[j].used
      /\ g.listed \in {home, ing[j].listed}
  BY <1>1, LookedType DEF IngestNext
<1>3. PICK e \in Entries(r, g) :
        /\ Stores(e[1], e[2], r, g)
        /\ ing' = [ing EXCEPT ![j] = [g EXCEPT !.todo = Tail(@), !.used = @ \cup ({e[1]} \ {NoName})]]
        /\ hist' = [hist EXCEPT !.strange = @ \/ Strange(e[1], r, g), !.back = @ \/ Back(e[1], e[2], r)]
  BY DEF IngestNext
<1>. HIDE DEF g
<1>4. r \in Resource /\ Tail(g.todo) \in Seq(Resource) /\ g.todo \in Seq(Resource)  BY <1>2, IngestFields
<1>5. r = g.todo[1] /\ 1 \in 1..Len(g.todo)  BY <1>2, <1>4
<1>. HIDE DEF r
<1>6. e[1] \in Names /\ e[2] \in Devices  BY <1>1, <1>2, <1>4, EntryType
<1>7. SUFFICES ASSUME ~hist'.strange
      PROVE  /\ Own(home') /\ OwnAliases(aliases')
             /\ \A i \in Jobs : OwnJob(ing'[i])
             /\ hist'.sent = hist.sent
             /\ ~hist.strange
  BY <1>1 DEF Straight
<1>8. ~hist.strange /\ ~Strange(e[1], r, g) /\ hist'.sent = hist.sent
  BY <1>1, <1>3, <1>7 DEF Pasts
<1>9. Own(home) /\ OwnAliases(aliases) /\ OwnJob(ing[j]) /\ Own(g.listed)
  BY <1>2, <1>8 DEF Straight, OwnJob
<1>10. \A u \in g.used : Owner(u) # Owner(r)
  BY <1>2, <1>5, <1>9 DEF OwnJob
<1>11. DeviceOf(Seen(e[2], r), Owner(r)) /\ DeviceOf(Freshened(e[2], r, g), Owner(r)) /\ (e[1] # NoName => Owner(e[1]) = Owner(r))
  <2>1. (e[2].area \in {NoThermostat, Owner(r)} /\ \A l \in e[2].legacy : Owner(l) = Owner(r)) /\ (e[1] # NoName => Owner(e[1]) = Owner(r))
    <3>1. CASE e[1] \in Found(r) /\ e[2] = home[e[1]]
      <4>1. e[1] \in DOMAIN home /\ Owner(e[1]) = Owner(r)  BY <1>9, <3>1 DEF Found, OwnAliases
      <4>. QED  BY <1>9, <3>1, <4>1 DEF Own, DeviceOf
    <3>2. CASE e[1] \in Legacy(r, g) /\ e[2] = g.listed[e[1]]
      <4>1. e[1] \in DOMAIN g.listed /\ e[1] # NoName
        BY <1>2, <3>2, LegacyIn, IngestFields, InBooks, NameTypes DEF IsBook
      <4>2. Owner(e[1]) = Owner(r)  BY <1>8, <1>10, <3>2, <4>1, LegacyOwn
      <4>. QED  BY <1>9, <3>2, <4>1, <4>2 DEF Own, DeviceOf
    <3>3. CASE e[1] = NoName /\ e[2] = NewDevice(Owner(r), g.grant)
      BY <3>3 DEF NewDevice
    <3>. QED  BY <3>1, <3>2, <3>3, EntriesAre
  <2>. QED  BY <1>2, <1>4, <1>6, <2>1, SeenType DEF DeviceOf
<1>12. Own(home') /\ OwnAliases(aliases')
  <2>1. CASE Upsert(r, Freshened(e[2], r, g))
    BY <1>9, <1>11, <2>1, UpsertOwn
  <2>2. CASE e[1] # NoName /\ Upsert(e[1], Seen(e[2], r))
    <3>1. DeviceOf(Seen(e[2], r), Owner(e[1]))  BY <1>11, <2>2
    <3>. QED  BY <1>9, <2>2, <3>1, UpsertOwn
  <2>3. CASE e[1] # NoName /\ Migrate(e[1], r, Freshened(e[2], r, g))
    <3>1. Freshened(e[2], r, g) \in Devices /\ Owner(e[1]) = Owner(r)  BY <1>2, <1>4, <1>6, <1>11, <2>3, SeenType
    <3>. QED  BY <1>1, <1>9, <1>11, <2>3, <3>1, MigrateOwn
  <2>. QED  BY <1>3, <2>1, <2>2, <2>3, StoresIs
<1>13. ASSUME NEW i \in Jobs PROVE OwnJob(ing'[i])
  <2>1. CASE i # j
    BY <1>3, <1>8, <2>1 DEF Straight
  <2>2. CASE i = j
    <3>1. /\ ing'[i].listed = g.listed /\ ing'[i].todo = Tail(g.todo)
          /\ ing'[i].used = g.used \cup ({e[1]} \ {NoName})
      BY <1>1, <1>2, <1>3, <2>2 DEF Ingests
    <3>2. EachOnce(g.todo)  BY <1>2 DEF Working, JobIsWell
    <3>3. \A m \in 1..Len(Tail(g.todo)) : Owner(Tail(g.todo)[m]) # Owner(Head(g.todo))
      BY <1>2, <1>4, <3>2, TailOnce
    <3>4. \A m \in 1..Len(Tail(g.todo)) : Tail(g.todo)[m] = g.todo[m + 1] /\ m + 1 \in 1..Len(g.todo)
      BY <1>2, <1>4
    <3>5. ASSUME NEW u \in ing'[i].used, NEW m \in 1..Len(Tail(g.todo)) PROVE Owner(Tail(g.todo)[m]) # Owner(u)
      <4>1. CASE u \in g.used
        <5>1. Tail(g.todo)[m] = g.todo[m + 1] /\ m + 1 \in 1..Len(g.todo)  BY <3>4
        <5>. QED  BY <1>2, <1>9, <4>1, <5>1 DEF OwnJob
      <4>2. CASE u = e[1] /\ e[1] # NoName
        BY <1>11, <3>3, <4>2 DEF r
      <4>. QED  BY <3>1, <4>1, <4>2
    <3>. QED  BY <1>9, <3>1, <3>5 DEF OwnJob
  <2>. QED  BY <2>1, <2>2
<1>. QED  BY <1>8, <1>12, <1>13

LEMMA UnsweptOwn ==
  ASSUME Own(home), NEW j \in Jobs, Own(ing[j].listed)
  PROVE  Own(Unswept(j))
<1>1. Own(Restrict(home, Absent(j)))  BY DEF Own, Restrict, Absent
<1>. QED  BY <1>1 DEF Unswept

LEMMA IngestSweepsStraight ==
  ASSUME NestTypes, Straight, NEW j \in Jobs, NEW k \in Resource, IngestSweeps(j, k)
  PROVE  Straight'
<1>1. /\ IsBook(home) /\ ing \in [Jobs -> Ingests] /\ hist \in Pasts
      /\ UNCHANGED <<nest, account, google, poll, timer, cmd, calls, budget>>
      /\ hist'.sent = hist.sent /\ hist'.strange = hist.strange
  BY DEF NestTypes, IngestSweeps, Pasts
<1>2. SUFFICES ASSUME ~hist.strange
      PROVE  Own(home') /\ OwnAliases(aliases') /\ \A i \in Jobs : OwnJob(ing'[i])
  BY <1>1 DEF Straight
<1>3. Own(home) /\ OwnAliases(aliases) /\ Own(Unswept(j)) /\ \A i \in Jobs : OwnJob(ing[i])
  BY <1>2, UnsweptOwn DEF Straight, OwnJob
<1>4. DeviceOf([Unswept(j)[k] EXCEPT !.available = FALSE], Owner(k))
  <2>1. k \in DOMAIN Unswept(j)  BY DEF IngestSweeps
  <2>2. Unswept(j)[k] \in Devices  BY <1>1, <2>1, UnsweptType DEF IsBook
  <2>3. DeviceOf(Unswept(j)[k], Owner(k))  BY <1>3, <2>1 DEF Own
  <2>. QED  BY <2>2, <2>3 DEF DeviceOf, Devices
<1>5. Own(home') /\ OwnAliases(aliases')
  <2>1. Upsert(k, [Unswept(j)[k] EXCEPT !.available = FALSE])  BY DEF IngestSweeps
  <2>. QED  BY <1>3, <1>4, <2>1, UpsertOwn
<1>6. ASSUME NEW i \in Jobs PROVE OwnJob(ing'[i])
  <2>1. CASE i # j
    <3>1. ing'[i] = ing[i]  BY <1>1, <2>1 DEF IngestSweeps
    <3>. QED  BY <1>3, <3>1
  <2>2. CASE i = j
    <3>1. ing' = [ing EXCEPT ![j] = [ing[j] EXCEPT !.sweeping = TRUE, !.listed = Drop(Unswept(j), {k})]]
      BY <1>1 DEF IngestSweeps
    <3>2. ing'[j].listed = Drop(Unswept(j), {k}) /\ ing'[j].todo = ing[j].todo /\ ing'[j].used = ing[j].used
      BY <1>1, <3>1 DEF Ingests
    <3>. QED  BY <1>3, <2>2, <3>2, OwnDrop DEF OwnJob
  <2>. QED  BY <2>1, <2>2
<1>. QED  BY <1>5, <1>6

LEMMA NoJobOwn == OwnJob(NoIngest) /\ OwnCommand(NoCommand)
<1>1. DOMAIN Empty = {}  BY EmptyBook
<1>. QED  BY <1>1 DEF OwnJob, OwnCommand, NoIngest, NoCommand, Own

LEMMA BegunOwn ==
  ASSUME NestTypes, NEW q \in Seq(Resource), NEW b \in BOOLEAN
  PROVE  OwnJob(Begun(q, b))
<1>1. Begun(q, b).listed = Empty /\ Begun(q, b).used = {}  BY BegunType DEF NestTypes
<1>. QED  BY <1>1, EmptyBook DEF OwnJob, Own

LEMMA SameStraight ==
  ASSUME Straight, UNCHANGED <<home, aliases, ing, cmd>>, hist'.strange = hist.strange, hist'.sent = hist.sent
  PROVE  Straight'
BY DEF Straight

LEMMA OnlyJobsStraight ==
  ASSUME Straight, UNCHANGED <<home, aliases, cmd, hist>>, \A j \in Jobs : ing'[j] = ing[j] \/ OwnJob(ing'[j])
  PROVE  Straight'
BY DEF Straight

LEMMA CommandStraight ==
  ASSUME NestTypes, Straight,
         \/ \E r \in Resource : Command(r)
         \/ CommandSent \/ CommandRecovers \/ CommandRead \/ CommandConfirmed \/ RequestFails
  PROVE  Straight'
<1>. IsBook(home) /\ cmd \in Commands /\ ing \in [Jobs -> Ingests] /\ hist \in Pasts  BY DEF NestTypes
<1>1. ASSUME NEW r \in Resource, Command(r) PROVE Straight'
  <2>1. PICK k \in DOMAIN home :
          cmd' = [phase |-> "sending", id |-> k, resource |-> k, try |-> 0,
                  wanted |-> IF home[k].area # NoThermostat THEN home[k].area ELSE home[k].shows]
    BY <1>1, FoundIn DEF Command
  <2>2. ASSUME Own(home) PROVE OwnCommand(cmd')
    <3>1. home[k].area \in {NoThermostat, Owner(k)} /\ home[k].shows = Owner(k)  BY <2>2 DEF Own, DeviceOf
    <3>. QED  BY <2>1, <3>1 DEF OwnCommand
  <2>3. UNCHANGED <<home, aliases, ing, hist>>  BY <1>1 DEF Command, registry
  <2>. QED  BY <2>2, <2>3 DEF Straight
<1>2. CASE CommandSent
  <2>1. UNCHANGED <<home, aliases, ing>>  BY <1>2 DEF CommandSent, registry
  <2>2. cmd' \in {[cmd EXCEPT !.phase = "recovering"], [cmd EXCEPT !.phase = "confirming"]}  BY <1>2 DEF CommandSent
  <2>3. cmd.phase = "sending" /\ cmd'.id = cmd.id /\ cmd'.resource = cmd.resource /\ cmd'.wanted = cmd.wanted
    BY <1>2, <2>2 DEF CommandSent, Commands
  <2>4. hist' = hist \/ hist' = [hist EXCEPT !.sent = <<cmd.wanted, cmd.resource>>]  BY <1>2 DEF CommandSent
  <2>5. hist'.strange = hist.strange /\ (hist'.sent = hist.sent \/ hist'.sent = <<cmd.wanted, cmd.resource>>)
    BY <2>4 DEF Pasts
  <2>. QED  BY <2>1, <2>3, <2>5 DEF Straight, OwnCommand
<1>3. CASE CommandRecovers
  <2>1. UNCHANGED <<home, aliases, ing, hist>> /\ cmd.phase # "idle"  BY <1>3 DEF CommandRecovers, registry
  <2>2. CASE cmd' = NoCommand  BY <2>1, <2>2, NoJobOwn DEF Straight
  <2>3. CASE cmd' = [cmd EXCEPT !.try = @ + 1]
    <3>1. cmd'.id = cmd.id /\ cmd'.resource = cmd.resource /\ cmd'.wanted = cmd.wanted
      BY <2>3 DEF Commands
    <3>. QED  BY <2>1, <3>1 DEF Straight, OwnCommand
  <2>4. ASSUME NEW k \in Recovered, cmd' = [cmd EXCEPT !.phase = "sending", !.resource = k] PROVE Straight'
    <3>1. cmd'.id = cmd.id /\ cmd'.resource = k /\ cmd'.wanted = cmd.wanted  BY <2>4 DEF Commands
    <3>2. OwnAliases(aliases) => Owner(k) = Owner(cmd.id)  BY DEF Recovered, Found, OwnAliases
    <3>. QED  BY <2>1, <3>1, <3>2 DEF Straight, OwnCommand
  <2>. QED  BY <1>3, <2>2, <2>3, <2>4 DEF CommandRecovers
<1>4. CASE CommandRead
  <2>1. cmd.phase # "idle" /\ cmd'.id = cmd.id /\ cmd'.resource = cmd.resource /\ cmd'.wanted = cmd.wanted
    BY <1>4 DEF CommandRead, Commands
  <2>2. <<cmd.resource>> \in Seq(Resource)  BY <2>1 DEF NestTypes
  <2>3. \A j \in Jobs : ing'[j] = ing[j] \/ OwnJob(ing'[j])
    BY <1>4, <2>2, BegunOwn DEF CommandRead
  <2>4. UNCHANGED <<home, aliases, hist>>  BY <1>4 DEF CommandRead, registry
  <2>. QED  BY <2>1, <2>3, <2>4 DEF Straight, OwnCommand
<1>5. CASE CommandConfirmed
  <2>1. cmd' = NoCommand /\ hist' = hist  BY <1>5 DEF CommandConfirmed
  <2>2. \A j \in Jobs : ing'[j] = ing[j] \/ OwnJob(ing'[j])  BY <1>5, NoJobOwn DEF CommandConfirmed
  <2>3. ASSUME Own(home), OwnAliases(aliases) PROVE Own(home') /\ OwnAliases(aliases')
    <3>1. CASE UNCHANGED registry  BY <2>3, <3>1 DEF registry
    <3>2. ASSUME NEW k \in Found(cmd.id), Upsert(k, [home[k] EXCEPT !.verified = TRUE]) PROVE Own(home') /\ OwnAliases(aliases')
      <4>1. k \in DOMAIN home /\ home[k] \in Devices  BY FoundIn DEF IsBook
      <4>2. DeviceOf([home[k] EXCEPT !.verified = TRUE], Owner(k))  BY <2>3, <4>1 DEF Own, DeviceOf, Devices
      <4>. QED  BY <2>3, <3>2, <4>2, UpsertOwn
    <3>. QED  BY <1>5, <3>1, <3>2 DEF CommandConfirmed
  <2>. QED  BY <2>1, <2>2, <2>3, NoJobOwn DEF Straight
<1>6. CASE RequestFails
  <2>1. UNCHANGED <<home, aliases, ing, hist>> /\ cmd' = NoCommand  BY <1>6 DEF RequestFails, registry
  <2>. QED  BY <2>1, NoJobOwn DEF Straight
<1>. QED  BY <1>1, <1>2, <1>3, <1>4, <1>5, <1>6

LEMMA HomeStraight ==
  ASSUME NestTypes, Straight, LeaveClears \/ RemoveDeletes \/ \E k \in Resource : Assign(k)
  PROVE  Straight'
<1>. IsBook(home) /\ hist \in Pasts  BY DEF NestTypes
<1>1. UNCHANGED <<ing, cmd>> /\ hist'.strange = hist.strange /\ hist'.sent = hist.sent
  BY DEF LeaveClears, RemoveDeletes, Assign, Pasts
<1>2. ASSUME Own(home), OwnAliases(aliases) PROVE Own(home') /\ OwnAliases(aliases')
  <2>1. CASE LeaveClears  BY <1>2, <2>1, ClearedOwn DEF LeaveClears
  <2>2. CASE RemoveDeletes
    <3>1. Now.home = home /\ Now.aliases = aliases  BY DEF Now
    <3>. QED  BY <1>2, <2>2, <3>1, RemovedOwn DEF RemoveDeletes, Delete
  <2>3. ASSUME NEW k \in Resource, Assign(k) PROVE Own(home') /\ OwnAliases(aliases')
    <3>1. k \in DOMAIN home /\ home[k] \in Devices  BY <2>3 DEF Assign, IsBook
    <3>2. DeviceOf([home[k] EXCEPT !.area = home[k].shows], Owner(k))  BY <1>2, <3>1 DEF Own, DeviceOf, Devices
    <3>. QED  BY <1>2, <2>3, <3>2, UpsertOwn DEF Assign
  <2>. QED  BY <2>1, <2>2, <2>3
<1>. QED  BY <1>1, <1>2 DEF Straight

LEMMA StraightKept ==
  ASSUME NestTypes, Working, Straight, [NestNext]_nestVars
  PROVE  Straight'
<1>. ing \in [Jobs -> Ingests]  BY DEF NestTypes
<1>1. CASE UNCHANGED nestVars  BY <1>1, SameStraight DEF nestVars, registry
<1>2. CASE \E j \in Jobs : IngestStep(j)
  BY <1>2, IngestNextStraight, IngestSweepsStraight DEF IngestStep
<1>3. CASE \/ \E r \in Resource : Command(r)
           \/ CommandSent \/ CommandRecovers \/ CommandRead \/ CommandConfirmed \/ RequestFails
  BY <1>3, CommandStraight
<1>4. CASE LeaveClears \/ RemoveDeletes \/ \E k \in Resource : Assign(k)
  BY <1>4, HomeStraight
<1>5. ASSUME NEW s \in Listings, PollListed(s) PROVE Straight'
  <2>1. UNCHANGED <<home, aliases, cmd, hist>>  BY <1>5 DEF PollListed, registry
  <2>2. \A j \in Jobs : ing'[j] = ing[j] \/ OwnJob(ing'[j])
    <3>1. poll.migrates \in BOOLEAN  BY DEF NestTypes, Polls
    <3>. QED  BY <1>5, <3>1, PollListedBegins, BegunOwn
  <2>. QED  BY <2>1, <2>2, OnlyJobsStraight
<1>6. CASE PollStored
  <2>1. UNCHANGED <<home, aliases, cmd, hist>>  BY <1>6 DEF PollStored, registry
  <2>2. \A j \in Jobs : ing'[j] = ing[j] \/ OwnJob(ing'[j])  BY <1>6, NoJobOwn DEF PollStored
  <2>. QED  BY <2>1, <2>2, OnlyJobsStraight
<1>7. CASE HubRestarts
  <2>1. UNCHANGED <<home, aliases, hist>> /\ cmd' = NoCommand  BY <1>7 DEF HubRestarts, registry
  <2>2. \A j \in Jobs : OwnJob(ing'[j])  BY <1>7, NoJobOwn DEF HubRestarts
  <2>. QED  BY <2>1, <2>2, NoJobOwn DEF Straight
<1>8. CASE \/ PollSigns \/ TimerFires \/ RefreshRequested \/ Start
           \/ \E status \in Failures, retryAfter \in BOOLEAN : PollFails(status, retryAfter)
           \/ AuthorisationBegins \/ SessionEnds \/ ConsentGiven \/ Exchanged \/ ConnectFails
           \/ LeaveStarts \/ LeaveFails \/ LeaveForgets \/ RestoreRefreshes
           \/ \E r \in Resource : RemoveHides(r) \/ Restore(r)
           \/ \E t \in Thermostat : Renamed(t) \/ JoinsOrLeaves(t)
  <2>1. UNCHANGED <<home, aliases, ing, cmd>>
    BY <1>8 DEF PollSigns, TimerFires, RefreshRequested, Start, PollFails, AuthorisationBegins, SessionEnds, ConsentGiven,
                Exchanged, ConnectFails, LeaveStarts, LeaveFails, LeaveForgets, RestoreRefreshes, RemoveHides, Restore,
                Renamed, JoinsOrLeaves, registry
  <2>2. hist' = hist \/ hist' = [hist EXCEPT !.grants = @ + 1]
    BY <1>8 DEF PollSigns, TimerFires, RefreshRequested, Start, PollFails, AuthorisationBegins, SessionEnds, ConsentGiven,
                Exchanged, ConnectFails, LeaveStarts, LeaveFails, LeaveForgets, RestoreRefreshes, RemoveHides, Restore,
                Renamed, JoinsOrLeaves, registry
  <2>3. hist'.strange = hist.strange /\ hist'.sent = hist.sent  BY <2>2 DEF NestTypes, Pasts
  <2>. QED  BY <2>1, <2>3, SameStraight
<1>. QED  BY <1>1, <1>2, <1>3, <1>4, <1>5, <1>6, <1>7, <1>8 DEF NestNext, PollStep

(***************************************************************************)
(* Names that do not lead astray.                                          *)
(***************************************************************************)
(* The aliases are the former names of the records, and no record's own name. *)
Paired(h, al) ==
  /\ \A a \in DOMAIN al : a \notin DOMAIN h /\ al[a] \in DOMAIN h /\ a \in h[al[a]].legacy
  /\ \A k \in DOMAIN h : \A l \in h[k].legacy : l \in DOMAIN al /\ al[l] = k

(* What a job has listed is still there, perhaps under another name, as it was set up. *)
Fits(l, h, al) ==
  \A k \in DOMAIN l :
    /\ k \in DOMAIN h \cup DOMAIN al /\ l[k].legacy \subseteq DOMAIN al
    /\ k \in DOMAIN h => l[k].area = h[k].area

(* The three ways a record is written: in place, new, and under another name. *)
Rewrites(k, d) == k \in DOMAIN home /\ d \in Devices /\ d.legacy = home[k].legacy /\ Upsert(k, d)
Adds(r, d) ==
  /\ r \in Resource /\ r \notin DOMAIN home \cup DOMAIN aliases
  /\ d \in Devices /\ d.legacy = {} /\ d.area = NoThermostat /\ Upsert(r, d)
Moves(k, r, d) ==
  /\ k \in DOMAIN home /\ home[k].legacy = {} /\ r \in Resource /\ r \notin DOMAIN home \cup DOMAIN aliases
  /\ d \in Devices /\ d.legacy = {k} /\ d.area = home[k].area
  /\ home' = Put(Drop(home, {k}), r, d) /\ aliases' = Put(aliases, k, r)
Writes ==
  \/ \E k, d : Rewrites(k, d) /\ d.area = home[k].area
  \/ \E r, d : Adds(r, d)
  \/ \E k, r, d : Moves(k, r, d)

LEMMA FitsItself ==
  ASSUME NEW h, NEW al, Paired(h, al)
  PROVE  Fits(h, h, al)
BY DEF Paired, Fits

LEMMA FitsSome ==
  ASSUME NEW l, NEW h, NEW al, Fits(l, h, al), NEW S
  PROVE  Fits(Drop(l, S), h, al)
BY DEF Fits, Drop, Restrict

LEMMA RewritesKeeps ==
  ASSUME IsBook(home), AreAliases(aliases), Paired(home, aliases), NEW k, NEW d, Rewrites(k, d)
  PROVE  /\ home' = Put(home, k, d) /\ aliases' = aliases /\ DOMAIN home' = DOMAIN home
         /\ Paired(home', aliases')
         /\ d.area = home[k].area => \A l : Fits(l, home, aliases) => Fits(l, home', aliases')
<1>1. home' = Put(home, k, d) /\ aliases' = Led(aliases, k, d)  BY UpsertIs DEF Rewrites
<1>2. k \in DOMAIN home /\ d.legacy = home[k].legacy  BY DEF Rewrites
<1>3. Led(aliases, k, d) = aliases
  <2>1. \A l \in d.legacy : l \in DOMAIN aliases /\ aliases[l] = k  BY <1>2 DEF Paired
  <2>2. aliases = [a \in DOMAIN aliases |-> aliases[a]]  BY DEF AreAliases
  <2>3. d.legacy \cup DOMAIN aliases = DOMAIN aliases  BY <2>1
  <2>. QED  BY <2>1, <2>2, <2>3 DEF Led
<1>4. DOMAIN home' = DOMAIN home /\ home'[k] = d /\ \A o \in DOMAIN home \ {k} : home'[o] = home[o]
  BY <1>1, <1>2 DEF Put
<1>5. Paired(home', aliases)
  <2>1. \A o \in DOMAIN home : home'[o].legacy = home[o].legacy  BY <1>2, <1>4
  <2>. QED  BY <1>4, <2>1 DEF Paired
<1>6. ASSUME d.area = home[k].area, NEW l, Fits(l, home, aliases) PROVE Fits(l, home', aliases)
  <2>1. \A o \in DOMAIN home : home'[o].area = home[o].area  BY <1>2, <1>4, <1>6
  <2>. QED  BY <1>4, <1>6, <2>1 DEF Fits
<1>. QED  BY <1>1, <1>3, <1>4, <1>5, <1>6

LEMMA AddsKeeps ==
  ASSUME IsBook(home), AreAliases(aliases), Paired(home, aliases), NEW r, NEW d, Adds(r, d)
  PROVE  /\ home' = Put(home, r, d)
         /\ Paired(home', aliases')
         /\ \A l : Fits(l, home, aliases) => Fits(l, home', aliases')
<1>1. home' = Put(home, r, d) /\ aliases' = Led(aliases, r, d)  BY UpsertIs DEF Adds
<1>2. r \notin DOMAIN home /\ r \notin DOMAIN aliases /\ d.legacy = {}  BY DEF Adds
<1>3. Led(aliases, r, d) = aliases
  <2>1. aliases = [a \in DOMAIN aliases |-> aliases[a]]  BY DEF AreAliases
  <2>2. d.legacy \cup DOMAIN aliases = DOMAIN aliases  BY <1>2
  <2>. QED  BY <1>2, <2>1, <2>2 DEF Led
<1>4. DOMAIN home' = DOMAIN home \cup {r} /\ home'[r] = d /\ \A o \in DOMAIN home : home'[o] = home[o]
  BY <1>1, <1>2 DEF Put
<1>5. Paired(home', aliases)  BY <1>2, <1>4 DEF Paired
<1>6. ASSUME NEW l, Fits(l, home, aliases) PROVE Fits(l, home', aliases)
  <2>1. r \notin DOMAIN l  BY <1>2, <1>6 DEF Fits
  <2>. QED  BY <1>4, <1>6, <2>1 DEF Fits
<1>. QED  BY <1>1, <1>3, <1>5, <1>6

LEMMA MovesKeeps ==
  ASSUME IsBook(home), AreAliases(aliases), Paired(home, aliases), NEW k, NEW r, NEW d, Moves(k, r, d)
  PROVE  /\ Paired(home', aliases')
         /\ \A l : Fits(l, home, aliases) => Fits(l, home', aliases')
<1>1. home' = Put(Drop(home, {k}), r, d) /\ aliases' = Put(aliases, k, r)  BY DEF Moves
<1>2. /\ k \in DOMAIN home /\ home[k].legacy = {} /\ d.legacy = {k}
      /\ r \notin DOMAIN home /\ r \notin DOMAIN aliases
  BY DEF Moves
<1>3. /\ DOMAIN home' = (DOMAIN home \ {k}) \cup {r} /\ home'[r] = d
      /\ \A o \in DOMAIN home \ {k} : home'[o] = home[o]
  <2>. DEFINE m == Drop(home, {k})
  <2>1. DOMAIN m = DOMAIN home \ {k} /\ \A o \in DOMAIN home \ {k} : m[o] = home[o]  BY DropType
  <2>2. home' = Put(m, r, d)  BY <1>1
  <2>. HIDE DEF m
  <2>. QED  BY <1>2, <2>1, <2>2 DEF Put
<1>4. /\ DOMAIN aliases' = DOMAIN aliases \cup {k} /\ aliases'[k] = r
      /\ \A a \in DOMAIN aliases : a # k /\ aliases'[a] = aliases[a] /\ aliases[a] # k
  BY <1>1, <1>2 DEF Put, Paired
<1>5. Paired(home', aliases')
  <2>1. ASSUME NEW a \in DOMAIN aliases'
        PROVE a \notin DOMAIN home' /\ aliases'[a] \in DOMAIN home' /\ a \in home'[aliases'[a]].legacy
    <3>1. CASE a = k  BY <1>2, <1>3, <1>4, <3>1
    <3>2. CASE a # k
      <4>1. a \in DOMAIN aliases  BY <1>4, <3>2
      <4>. QED  BY <1>2, <1>3, <1>4, <4>1 DEF Paired
    <3>. QED  BY <3>1, <3>2
  <2>2. ASSUME NEW o \in DOMAIN home', NEW l \in home'[o].legacy PROVE l \in DOMAIN aliases' /\ aliases'[l] = o
    BY <1>2, <1>3, <1>4 DEF Paired
  <2>. QED  BY <2>1, <2>2 DEF Paired
<1>6. ASSUME NEW l, Fits(l, home, aliases) PROVE Fits(l, home', aliases')
  <2>1. r \notin DOMAIN l  BY <1>2, <1>6 DEF Fits
  <2>. QED  BY <1>3, <1>4, <1>6, <2>1 DEF Fits
<1>. QED  BY <1>5, <1>6

LEMMA WritesKeep ==
  ASSUME IsBook(home), AreAliases(aliases), Paired(home, aliases), Writes
  PROVE  /\ Paired(home', aliases')
         /\ \A l : Fits(l, home, aliases) => Fits(l, home', aliases')
BY RewritesKeeps, AddsKeeps, MovesKeeps DEF Writes

LEMMA RemovedKeeps ==
  ASSUME NEW reg, IsBook(reg.home), AreAliases(reg.aliases), Paired(reg.home, reg.aliases), NEW r
  PROVE  /\ Paired(Removed(reg, r).home, Removed(reg, r).aliases)
         /\ DOMAIN Removed(reg, r).home \subseteq DOMAIN reg.home
         /\ r \notin DOMAIN Removed(reg, r).home
<1>. DEFINE h == reg.home
            al == reg.aliases
            gone == GoneFrom(reg, r)
            names == NamesGone(reg, r)
            left == {a \in DOMAIN al : a \notin names /\ al[a] \notin names}
<1>1. r \in DOMAIN h => r \notin DOMAIN al  BY DEF Paired
<1>2. r \in DOMAIN h => r \in gone  BY <1>1 DEF GoneFrom
<1>3. CASE gone = {}  BY <1>2, <1>3, RemovedIs
<1>4. CASE gone # {}
  <2>1. Removed(reg, r).home = Drop(h, gone) /\ Removed(reg, r).aliases = Restrict(al, left)
    BY <1>4, RemovedIs
  <2>2. DOMAIN Drop(h, gone) = DOMAIN h \ gone /\ \A k \in DOMAIN h \ gone : Drop(h, gone)[k] = h[k]
    BY DropType
  <2>3. DOMAIN Restrict(al, left) = left /\ \A a \in left : Restrict(al, left)[a] = al[a]
    BY DEF Restrict
  <2>4. gone \subseteq names  BY DEF NamesGone
  <2>5. ASSUME NEW a \in left
        PROVE a \notin DOMAIN h \ gone /\ al[a] \in DOMAIN h \ gone /\ a \in h[al[a]].legacy
    BY <2>4 DEF Paired
  <2>6. ASSUME NEW k \in DOMAIN h \ gone, NEW l \in h[k].legacy PROVE l \in left /\ al[l] = k
    <3>1. l \in DOMAIN al /\ al[l] = k /\ l \notin DOMAIN h /\ k \notin DOMAIN al  BY DEF Paired
    <3>2. l # r /\ k # r  BY <1>2, <3>1 DEF GoneFrom
    <3>3. \A o \in gone : o \in DOMAIN h /\ o # k  BY DEF GoneFrom
    <3>4. \A o \in gone : l \notin h[o].legacy /\ k \notin h[o].legacy  BY <3>1, <3>3 DEF Paired
    <3>5. l \notin names /\ k \notin names  BY <3>1, <3>2, <3>3, <3>4 DEF NamesGone
    <3>. QED  BY <3>1, <3>5
  <2>7. Paired(Drop(h, gone), Restrict(al, left))
    <3>. HIDE DEF left, gone, names
    <3>. QED  BY <2>2, <2>3, <2>5, <2>6 DEF Paired
  <2>. QED  BY <1>2, <2>1, <2>2, <2>7
<1>. QED  BY <1>3, <1>4

(* A disconnect leaves no record whose names do not lead astray. *)
LEMMA ClearedKeeps ==
  ASSUME IsBook(home), AreAliases(aliases), Paired(home, aliases), HomeCleared
  PROVE  Paired(home', aliases') /\ home' = Empty
<1>1. PICK order \in SetToSeqs(DOMAIN home) : \E f :
           /\ Steps(f, Now, order, Len(order))
           /\ home' = f[Len(order)].home /\ aliases' = f[Len(order)].aliases
  BY ClearedIs
<1>2. PICK f : /\ Steps(f, Now, order, Len(order))
               /\ home' = f[Len(order)].home /\ aliases' = f[Len(order)].aliases
  BY <1>1
<1>. DEFINE n == Len(order)
            T == {i \in 0..n :
                    /\ IsBook(f[i].home) /\ AreAliases(f[i].aliases) /\ Paired(f[i].home, f[i].aliases)
                    /\ DOMAIN f[i].home \subseteq DOMAIN home
                    /\ \A m \in 1..i : order[m] \notin DOMAIN f[i].home}
<1>3. n \in Nat /\ \A x \in DOMAIN home : \E m \in 1..n : order[m] = x
  BY ResourceFinite, FS_Subset, Ordered DEF IsBook
<1>4. \A i \in 0..n : f[i] = IF i = 0 THEN Now ELSE Removed(f[i - 1], order[i])
  <2>. HIDE DEF n
  <2>. QED  BY <1>2 DEF Steps, n
<1>. HIDE DEF n
<1>5. 0 \in T
  <2>1. Now.home = home /\ Now.aliases = aliases  BY DEF Now
  <2>. QED  BY <1>3, <1>4, <2>1
<1>6. ASSUME NEW i \in 1..n, i - 1 \in T PROVE i \in T
  <2>1. i \in 0..n /\ i # 0  BY <1>3
  <2>2. f[i] = Removed(f[i - 1], order[i])  BY <1>4, <2>1
  <2>3. /\ IsBook(f[i - 1].home) /\ AreAliases(f[i - 1].aliases) /\ Paired(f[i - 1].home, f[i - 1].aliases)
        /\ DOMAIN f[i - 1].home \subseteq DOMAIN home
        /\ \A m \in 1..(i - 1) : order[m] \notin DOMAIN f[i - 1].home
    BY <1>6
  <2>4. IsBook(f[i].home) /\ AreAliases(f[i].aliases)  BY <2>2, <2>3, RemovedType
  <2>5. /\ Paired(f[i].home, f[i].aliases)
        /\ DOMAIN f[i].home \subseteq DOMAIN f[i - 1].home /\ order[i] \notin DOMAIN f[i].home
    BY <2>2, <2>3, RemovedKeeps
  <2>6. \A m \in 1..i : order[m] \notin DOMAIN f[i].home
    <3>1. \A m \in 1..i : m = i \/ m \in 1..(i - 1)  BY <1>3
    <3>. QED  BY <2>3, <2>5, <3>1
  <2>. QED  BY <2>1, <2>3, <2>4, <2>5, <2>6
<1>7. n \in T
  <2>. HIDE DEF T
  <2>1. \A i \in 0..n : i \in T  BY <1>3, <1>5, <1>6, UpTo
  <2>. QED  BY <1>3, <2>1
<1>8. DOMAIN home' = {} /\ IsBook(home') /\ Paired(home', aliases')
  BY <1>2, <1>3, <1>7 DEF n
<1>9. home' = [k \in DOMAIN home' |-> home'[k]]  BY <1>8 DEF IsBook
<1>10. home' = Empty  BY <1>8, <1>9 DEF Empty
<1>. QED  BY <1>8, <1>10

Left == ~nest.configured /\ ~hist.outlived => poll.phase = "idle" /\ cmd.phase = "idle" /\ home = Empty
CalmNames ==
  ~Astray =>
    /\ Paired(home, aliases) /\ \A j \in Jobs : Fits(ing[j].listed, home, aliases)
    /\ Left

(* A thermostat has two names. *)
LEMMA TwoNames ==
  ASSUME NEW a \in Resource, NEW b \in Resource, NEW c \in Resource, Owner(a) = Owner(b), Owner(a) = Owner(c), a # b
  PROVE  c \in {a, b}
BY NameTypes

(* Of a record that was listed, and whose thermostat is listed under a name not found. *)
LEMMA LegacyCalm ==
  ASSUME IsBook(home), AreAliases(aliases), Own(home), OwnAliases(aliases), Paired(home, aliases),
         NEW r \in Resource, Found(r) = {}, NEW l, IsBook(l), Own(l), Fits(l, home, aliases),
         NEW k \in DOMAIN l, Owner(k) = Owner(r)
  PROVE  /\ r \notin DOMAIN home \cup DOMAIN aliases
         /\ k # r /\ k \in DOMAIN home /\ k \notin DOMAIN aliases
         /\ home[k].legacy = {} /\ l[k].legacy = {} /\ l[k].area = home[k].area
<1>1. r \notin DOMAIN aliases /\ r \notin DOMAIN home  BY DEF Found, Paired
<1>2. k \in Resource /\ k # r  BY <1>1 DEF IsBook, Fits
<1>3. k \in DOMAIN home
  <2>1. SUFFICES ASSUME k \in DOMAIN aliases, k \notin DOMAIN home PROVE FALSE  BY DEF Fits
  <2>2. aliases[k] \in DOMAIN home /\ aliases[k] \in Resource /\ Owner(aliases[k]) = Owner(k)
    BY <2>1 DEF Paired, OwnAliases, AreAliases
  <2>3. aliases[k] \in {k, r}  BY <1>2, <2>2, TwoNames
  <2>. QED  BY <1>1, <2>1, <2>2, <2>3
<1>4. k \notin DOMAIN aliases  BY <1>3 DEF Paired
<1>5. ASSUME NEW m \in DOMAIN aliases, m \in Resource, Owner(m) = Owner(k) PROVE FALSE
  BY <1>1, <1>2, <1>4, <1>5, TwoNames
<1>6. \A m \in home[k].legacy : m \in DOMAIN aliases /\ m \in Resource /\ Owner(m) = Owner(k)
  BY <1>3 DEF Paired, AreAliases, Own, DeviceOf
<1>7. \A m \in l[k].legacy : m \in DOMAIN aliases /\ m \in Resource /\ Owner(m) = Owner(k)
  BY DEF Fits, AreAliases, Own, DeviceOf
<1>. QED  BY <1>1, <1>2, <1>3, <1>4, <1>5, <1>6, <1>7 DEF Fits

LEMMA StoresCalm ==
  ASSUME IsBook(home), AreAliases(aliases), Own(home), OwnAliases(aliases), Paired(home, aliases),
         NEW r \in Resource, NEW g \in Ingests, Own(g.listed), Fits(g.listed, home, aliases),
         \A u \in g.used : Owner(u) # Owner(r),
         NEW e \in Entries(r, g), ~Strange(e[1], r, g), ~Back(e[1], e[2], r), Stores(e[1], e[2], r, g)
  PROVE  Writes
<1>1. e[1] \in Names /\ e[2] \in Devices  BY EntryType
<1>2. /\ Seen(e[2], r) \in Devices /\ Freshened(e[2], r, g) \in Devices
      /\ Seen(e[2], r).area = e[2].area /\ Freshened(e[2], r, g).area = e[2].area
      /\ Seen(e[2], r).legacy = e[2].legacy /\ Freshened(e[2], r, g).legacy = e[2].legacy
  BY <1>1, SeenType
<1>3. IsBook(g.listed)  BY IngestFields, InBooks
<1>4. CASE e[1] \in Found(r) /\ e[2] = home[e[1]]
  <2>1. e[1] \in DOMAIN home /\ e[1] # NoName  BY <1>4, FoundIn, NameTypes DEF IsBook
  <2>2. e[1] = r
    <3>1. SUFFICES ASSUME r \in DOMAIN aliases, e[1] = aliases[r] PROVE FALSE  BY <1>4 DEF Found
    <3>. QED  BY <1>4, <2>1, <3>1 DEF Paired, Back
  <2>3. Upsert(r, Freshened(e[2], r, g))  BY <2>2, StoresIs
  <2>4. Rewrites(r, Freshened(e[2], r, g))  BY <1>2, <1>4, <2>1, <2>2, <2>3 DEF Rewrites
  <2>. QED  BY <1>2, <1>4, <2>2, <2>4 DEF Writes
<1>5. CASE Found(r) = {} /\ e[1] \in Legacy(r, g) /\ e[2] = g.listed[e[1]]
  <2>. DEFINE k == e[1]
  <2>1. k \in DOMAIN g.listed /\ k # NoName  BY <1>3, <1>5, LegacyIn, NameTypes DEF IsBook
  <2>2. Owner(k) = Owner(r)  BY <1>5, <2>1, LegacyOwn
  <2>3. /\ r \notin DOMAIN home \cup DOMAIN aliases
        /\ k # r /\ k \in DOMAIN home /\ k \notin DOMAIN aliases
        /\ home[k].legacy = {} /\ e[2].legacy = {} /\ e[2].area = home[k].area
    <3>. HIDE DEF k
    <3>1. g.listed[k].legacy = {} /\ g.listed[k].area = home[k].area /\ r \notin DOMAIN home \cup DOMAIN aliases
          /\ k # r /\ k \in DOMAIN home /\ k \notin DOMAIN aliases /\ home[k].legacy = {}
      BY <1>3, <1>5, <2>1, <2>2, LegacyCalm
    <3>. QED  BY <1>5, <3>1 DEF k
  <2>4. CASE Upsert(k, Seen(e[2], r))
    <3>1. Rewrites(k, Seen(e[2], r))  BY <1>2, <2>3, <2>4 DEF Rewrites
    <3>. QED  BY <1>2, <2>3, <3>1 DEF Writes
  <2>5. CASE Migrate(k, r, Freshened(e[2], r, g))
    <3>. DEFINE d == Freshened(e[2], r, g)
    <3>1. Source(k) = k  BY <2>3 DEF Source
    <3>2. home' = Put(Drop(home, {k}), r, Moved(k, d)) /\ aliases' = Put(aliases, k, r)
      <4>. HIDE DEF d, k
      <4>. QED  BY <2>3, <2>5, <3>1, MigrateIs DEF d, k
    <3>3. Moved(k, d) \in Devices /\ Moved(k, d).legacy = {k} /\ Moved(k, d).area = home[k].area
      <4>1. d \in Devices /\ d.legacy = {} /\ d.area = home[k].area  BY <1>2, <2>3
      <4>2. home[k] \in Devices /\ k \in Resource  BY <2>3 DEF IsBook
      <4>. HIDE DEF d, k
      <4>. QED  BY <2>3, <4>1, <4>2 DEF Moved, Devices
    <3>4. Moves(k, r, Moved(k, d))
      <4>. HIDE DEF d
      <4>. QED  BY <2>3, <3>2, <3>3 DEF Moves
    <3>. QED  BY <3>4 DEF Writes
  <2>. QED  BY <2>1, <2>3, <2>4, <2>5, StoresIs
<1>6. CASE Found(r) = {} /\ e[1] = NoName /\ e[2] = NewDevice(Owner(r), g.grant)
  <2>1. r \notin DOMAIN aliases /\ r \notin DOMAIN home  BY <1>6 DEF Found, Paired
  <2>2. Upsert(r, Freshened(e[2], r, g))  BY <1>6, StoresIs
  <2>3. e[2].legacy = {} /\ e[2].area = NoThermostat  BY <1>6 DEF NewDevice
  <2>4. Adds(r, Freshened(e[2], r, g))  BY <1>2, <2>1, <2>2, <2>3 DEF Adds
  <2>. QED  BY <2>4 DEF Writes
<1>. QED  BY <1>4, <1>5, <1>6, EntriesAre

Whole == NestTypes /\ Working /\ Straight /\ CalmNames

LEMMA WholeCalm ==
  ASSUME Whole, ~Astray
  PROVE  /\ IsBook(home) /\ AreAliases(aliases) /\ ing \in [Jobs -> Ingests]
         /\ Own(home) /\ OwnAliases(aliases) /\ Paired(home, aliases) /\ Left
         /\ \A j \in Jobs : OwnJob(ing[j]) /\ Fits(ing[j].listed, home, aliases)
BY DEF Whole, NestTypes, Straight, CalmNames, Astray

(* A step of an ingest writes a record in one of the three ways. *)
LEMMA IngestNextCalm ==
  ASSUME Whole, NEW j \in Jobs, IngestNext(j), ~Astray'
  PROVE  /\ ~Astray /\ Writes
         /\ \A i \in Jobs : ing'[i].listed \in {ing[i].listed, home}
         /\ UNCHANGED <<nest, poll, cmd>> /\ hist'.outlived = hist.outlived
<1>. DEFINE g == Looked(j)
            r == Head(g.todo)
<1>1. /\ IsBook(home) /\ AreAliases(aliases) /\ ing \in [Jobs -> Ingests] /\ hist \in Pasts
      /\ UNCHANGED <<nest, poll, cmd>>
  BY DEF Whole, NestTypes, IngestNext
<1>2. /\ g \in Ingests /\ g.todo # <<>> /\ g.todo = ing[j].todo /\ g.used = ing[j].used
      /\ g.listed \in {home, ing[j].listed}
  BY <1>1, LookedType DEF IngestNext
<1>3. PICK e \in Entries(r, g) :
        /\ Stores(e[1], e[2], r, g)
        /\ ing' = [ing EXCEPT ![j] = [g EXCEPT !.todo = Tail(@), !.used = @ \cup ({e[1]} \ {NoName})]]
        /\ hist' = [hist EXCEPT !.strange = @ \/ Strange(e[1], r, g), !.back = @ \/ Back(e[1], e[2], r)]
  BY DEF IngestNext
<1>. HIDE DEF g
<1>4. r \in Resource /\ g.todo \in Seq(Resource)  BY <1>2, IngestFields
<1>5. r = g.todo[1] /\ 1 \in 1..Len(g.todo)  BY <1>2, <1>4
<1>. HIDE DEF r
<1>6. ~Astray /\ ~Strange(e[1], r, g) /\ ~Back(e[1], e[2], r) /\ hist'.outlived = hist.outlived
  BY <1>1, <1>3 DEF Astray, Pasts
<1>7. Own(g.listed) /\ Fits(g.listed, home, aliases)
  BY <1>2, <1>6, WholeCalm, FitsItself DEF OwnJob
<1>8. \A u \in g.used : Owner(u) # Owner(r)
  BY <1>2, <1>5, <1>6, WholeCalm DEF OwnJob
<1>9. Writes
  BY <1>2, <1>3, <1>4, <1>6, <1>7, <1>8, WholeCalm, StoresCalm
<1>10. ASSUME NEW i \in Jobs PROVE ing'[i].listed \in {ing[i].listed, home}
  <2>1. CASE i # j  BY <1>1, <1>3, <2>1
  <2>2. CASE i = j
    <3>1. ing'[j].listed = g.listed  BY <1>1, <1>2, <1>3 DEF Ingests
    <3>. QED  BY <1>2, <2>2, <3>1
  <2>. QED  BY <2>1, <2>2
<1>. QED  BY <1>1, <1>6, <1>9, <1>10

LEMMA IngestSweepsCalm ==
  ASSUME Whole, NEW j \in Jobs, NEW k \in Resource, IngestSweeps(j, k), ~Astray'
  PROVE  /\ ~Astray /\ Writes
         /\ \A i \in Jobs : ing'[i].listed = ing[i].listed \/ \E S : ing'[i].listed \in {Drop(ing[i].listed, S), Drop(home, S)}
         /\ UNCHANGED <<nest, poll, cmd>> /\ hist'.outlived = hist.outlived
<1>. DEFINE d == [Unswept(j)[k] EXCEPT !.available = FALSE]
<1>1. /\ IsBook(home) /\ ing \in [Jobs -> Ingests] /\ hist \in Pasts /\ UNCHANGED <<nest, poll, cmd>>
  BY DEF Whole, NestTypes, IngestSweeps
<1>2. ~Astray /\ k \in DOMAIN home /\ home[k] = Unswept(j)[k] /\ hist'.outlived = hist.outlived
  BY <1>1 DEF IngestSweeps, Astray, Pasts
<1>3. d \in Devices /\ d.legacy = home[k].legacy /\ d.area = home[k].area
  <2>1. home[k] \in Devices  BY <1>1, <1>2 DEF IsBook
  <2>. QED  BY <1>2, <2>1 DEF Devices
<1>4. Rewrites(k, d)
  <2>1. Upsert(k, d)  BY DEF IngestSweeps
  <2>. HIDE DEF d
  <2>. QED  BY <1>2, <1>3, <2>1 DEF Rewrites
<1>5. Writes
  <2>. HIDE DEF d
  <2>. QED  BY <1>3, <1>4 DEF Writes
<1>6. ASSUME NEW i \in Jobs
      PROVE ing'[i].listed = ing[i].listed \/ \E S : ing'[i].listed \in {Drop(ing[i].listed, S), Drop(home, S)}
  <2>1. CASE i # j
    <3>1. ing'[i] = ing[i]  BY <1>1, <2>1 DEF IngestSweeps
    <3>. QED  BY <3>1
  <2>2. CASE i = j
    <3>1. ing' = [ing EXCEPT ![j] = [ing[j] EXCEPT !.sweeping = TRUE, !.listed = Drop(Unswept(j), {k})]]
      BY <1>1 DEF IngestSweeps
    <3>2. ing'[j].listed = Drop(Unswept(j), {k})  BY <1>1, <3>1 DEF Ingests
    <3>3. CASE Unswept(j) = ing[j].listed  BY <2>2, <3>2, <3>3
    <3>4. CASE Unswept(j) = Restrict(home, Absent(j))
      <4>. DEFINE S == (DOMAIN home \ Absent(j)) \cup {k}
      <4>1. Drop(Restrict(home, Absent(j)), {k}) = Drop(home, S)
        <5>1. Absent(j) \subseteq DOMAIN home  BY DEF Absent
        <5>2. DOMAIN Restrict(home, Absent(j)) \ {k} = DOMAIN home \ S  BY <5>1 DEF Restrict
        <5>. HIDE DEF S
        <5>. QED  BY <5>1, <5>2 DEF Drop, Restrict
      <4>. HIDE DEF S
      <4>. QED  BY <2>2, <3>2, <3>4, <4>1
    <3>. QED  BY <3>3, <3>4 DEF Unswept
  <2>. QED  BY <2>1, <2>2
<1>. QED  BY <1>1, <1>2, <1>5, <1>6

LEMMA ConfirmedCalm ==
  ASSUME Whole, CommandConfirmed, ~Astray
  PROVE  UNCHANGED registry \/ Writes
<1>1. IsBook(home)  BY DEF Whole, NestTypes
<1>2. ASSUME NEW k \in Found(cmd.id), Upsert(k, [home[k] EXCEPT !.verified = TRUE]) PROVE Writes
  <2>. DEFINE d == [home[k] EXCEPT !.verified = TRUE]
  <2>1. k \in DOMAIN home /\ home[k] \in Devices  BY <1>1, FoundIn DEF IsBook
  <2>2. d \in Devices /\ d.legacy = home[k].legacy /\ d.area = home[k].area  BY <2>1 DEF Devices
  <2>3. Upsert(k, d)  BY <1>2
  <2>. HIDE DEF d
  <2>4. Rewrites(k, d)  BY <2>1, <2>2, <2>3 DEF Rewrites
  <2>. QED  BY <2>2, <2>4 DEF Writes
<1>. QED  BY <1>2 DEF CommandConfirmed

RegistryCalm == Paired(home, aliases) /\ \A j \in Jobs : Fits(ing[j].listed, home, aliases)

LEMMA AstrayStays ==
  ASSUME NestTypes, [NestNext]_nestVars, ~Astray'
  PROVE  ~Astray
<1>. hist \in Pasts  BY DEF NestTypes
<1>1. CASE hist' = hist  BY <1>1 DEF Astray
<1>2. CASE \E j \in Jobs : IngestNext(j)  BY <1>2 DEF IngestNext, Astray, Pasts
<1>3. CASE \E j \in Jobs, k \in Resource : IngestSweeps(j, k)  BY <1>3 DEF IngestSweeps, Astray, Pasts
<1>4. CASE LeaveClears \/ RemoveDeletes \/ \E k \in Resource : Assign(k)
  BY <1>4 DEF LeaveClears, RemoveDeletes, Assign, Astray, Pasts
<1>5. CASE CommandSent \/ Exchanged  BY <1>5 DEF CommandSent, Exchanged, Astray, Pasts
<1>6. CASE \/ UNCHANGED nestVars \/ PollStep \/ TimerFires \/ RefreshRequested \/ Start
           \/ \E r \in Resource : Command(r) \/ RemoveHides(r) \/ Restore(r)
           \/ CommandRecovers \/ CommandRead \/ CommandConfirmed \/ RequestFails
           \/ AuthorisationBegins \/ SessionEnds \/ ConsentGiven \/ ConnectFails
           \/ LeaveStarts \/ LeaveFails \/ LeaveForgets \/ RestoreRefreshes \/ HubRestarts
           \/ \E t \in Thermostat : Renamed(t) \/ JoinsOrLeaves(t)
  <2>1. hist' = hist
    BY <1>6 DEF nestVars, PollStep, PollSigns, PollStored, PollListed, PollFails, TimerFires, RefreshRequested, Start, Command,
       RemoveHides, Restore, CommandRecovers, CommandRead, CommandConfirmed, RequestFails, AuthorisationBegins, SessionEnds,
       ConsentGiven, ConnectFails, LeaveStarts, LeaveFails, LeaveForgets, RestoreRefreshes, HubRestarts, Renamed, JoinsOrLeaves
  <2>. QED  BY <1>1, <2>1
<1>. QED  BY <1>2, <1>3, <1>4, <1>5, <1>6 DEF NestNext, IngestStep

LEMMA NothingListedFits ==
  \A h, al : Fits(NoIngest.listed, h, al) /\ NoIngest.listed = Empty
<1>1. NoIngest.listed = Empty /\ DOMAIN Empty = {}  BY EmptyBook DEF NoIngest
<1>. QED  BY <1>1 DEF Fits

LEMMA SameRegistryCalm ==
  ASSUME RegistryCalm, UNCHANGED registry, \A j \in Jobs : ing'[j].listed \in {ing[j].listed, Empty}
  PROVE  RegistryCalm'
<1>1. \A h, al : Fits(Empty, h, al)  BY NothingListedFits
<1>2. home' = home /\ aliases' = aliases  BY DEF registry
<1>. QED  BY <1>1, <1>2 DEF RegistryCalm

(* Where no job is at work, nothing is listed. *)
LEMMA IdleFits ==
  ASSUME Working, ~Storing
  PROVE  \A j \in Jobs : \A h, al : Fits(ing[j].listed, h, al)
BY NothingListedFits DEF Working, JobIsWell, Storing

LEMMA RegistryCalmKept ==
  ASSUME Whole, [NestNext]_nestVars, ~Astray'
  PROVE  RegistryCalm'
<1>1. NestTypes /\ Working /\ ~Astray  BY AstrayStays DEF Whole
<1>2. /\ IsBook(home) /\ AreAliases(aliases) /\ ing \in [Jobs -> Ingests] /\ Paired(home, aliases)
      /\ \A j \in Jobs : Fits(ing[j].listed, home, aliases)
  BY <1>1, WholeCalm
<1>3. RegistryCalm  BY <1>2 DEF RegistryCalm
<1>4. ASSUME NEW j \in Jobs, IngestNext(j) PROVE RegistryCalm'
  <2>1. Writes /\ \A i \in Jobs : ing'[i].listed \in {ing[i].listed, home}  BY <1>4, IngestNextCalm
  <2>2. \A i \in Jobs : Fits(ing'[i].listed, home, aliases)  BY <1>2, <2>1, FitsItself
  <2>. QED  BY <1>2, <2>1, <2>2, WritesKeep DEF RegistryCalm
<1>5. ASSUME NEW j \in Jobs, NEW k \in Resource, IngestSweeps(j, k) PROVE RegistryCalm'
  <2>1. /\ Writes
        /\ \A i \in Jobs : ing'[i].listed = ing[i].listed \/ \E S : ing'[i].listed \in {Drop(ing[i].listed, S), Drop(home, S)}
    BY <1>5, IngestSweepsCalm
  <2>2. ASSUME NEW i \in Jobs PROVE Fits(ing'[i].listed, home, aliases)
    <3>1. Fits(ing[i].listed, home, aliases) /\ Fits(home, home, aliases)  BY <1>2, FitsItself
    <3>2. \A S : Fits(Drop(ing[i].listed, S), home, aliases) /\ Fits(Drop(home, S), home, aliases)
      BY <3>1, FitsSome
    <3>. QED  BY <2>1, <3>1, <3>2
  <2>. QED  BY <1>2, <2>1, <2>2, WritesKeep DEF RegistryCalm
<1>6. CASE CommandConfirmed
  <2>1. \A j \in Jobs : ing'[j].listed \in {ing[j].listed, Empty}
    BY <1>2, <1>6, NothingListedFits DEF CommandConfirmed
  <2>2. CASE UNCHANGED registry  BY <1>3, <2>1, <2>2, SameRegistryCalm
  <2>3. CASE Writes
    <3>1. Paired(home', aliases') /\ \A l : Fits(l, home, aliases) => Fits(l, home', aliases')
      BY <1>2, <2>3, WritesKeep
    <3>2. Fits(Empty, home, aliases)  BY NothingListedFits
    <3>. QED  BY <1>2, <2>1, <3>1, <3>2 DEF RegistryCalm
  <2>. QED  BY <1>1, <1>6, <2>2, <2>3, ConfirmedCalm
<1>7. ASSUME LeaveClears \/ RemoveDeletes \/ \E k \in Resource : Assign(k) PROVE RegistryCalm'
  <2>1. ~Storing /\ ing' = ing
    BY <1>7 DEF LeaveClears, RemoveDeletes, Assign, Astray, Whole, NestTypes, Pasts
  <2>2. \A j \in Jobs : Fits(ing'[j].listed, home', aliases')  BY <1>1, <2>1, IdleFits
  <2>3. Paired(home', aliases')
    <3>1. CASE LeaveClears  BY <1>2, <3>1, ClearedKeeps DEF LeaveClears
    <3>2. CASE RemoveDeletes
      <4>1. Now.home = home /\ Now.aliases = aliases  BY DEF Now
      <4>2. home' = Removed(Now, calls.removing).home /\ aliases' = Removed(Now, calls.removing).aliases
        BY <3>2 DEF RemoveDeletes, Delete
      <4>. QED  BY <1>2, <4>1, <4>2, RemovedKeeps
    <3>3. ASSUME NEW k \in Resource, Assign(k) PROVE Paired(home', aliases')
      <4>. DEFINE d == [home[k] EXCEPT !.area = home[k].shows]
      <4>1. k \in DOMAIN home /\ home[k] \in Devices  BY <1>2, <3>3 DEF Assign, IsBook
      <4>2. d \in Devices /\ d.legacy = home[k].legacy  BY <4>1 DEF Devices
      <4>3. Upsert(k, d)  BY <3>3 DEF Assign
      <4>. HIDE DEF d
      <4>4. Rewrites(k, d)  BY <4>1, <4>2, <4>3 DEF Rewrites
      <4>. QED  BY <1>2, <4>4, RewritesKeeps
    <3>. QED  BY <1>7, <3>1, <3>2, <3>3
  <2>. QED  BY <2>2, <2>3 DEF RegistryCalm
<1>8. CASE HubRestarts
  <2>1. \A j \in Jobs : ing'[j].listed = Empty  BY <1>8, NothingListedFits DEF HubRestarts
  <2>. QED  BY <1>3, <1>8, <2>1, SameRegistryCalm DEF HubRestarts
<1>9. CASE PollStored
  <2>1. \A j \in Jobs : ing'[j].listed \in {ing[j].listed, Empty}  BY <1>2, <1>9, NothingListedFits DEF PollStored
  <2>. QED  BY <1>3, <1>9, <2>1, SameRegistryCalm DEF PollStored
<1>10. ASSUME NEW s \in Listings, PollListed(s) PROVE RegistryCalm'
  <2>1. \A j \in Jobs : ing'[j].listed \in {ing[j].listed, Empty}
    <3>1. poll.migrates \in BOOLEAN /\ account \in Nat /\ nest \in Grants  BY <1>1 DEF NestTypes, Polls
    <3>2. CASE ing' = ing  BY <3>2
    <3>3. ASSUME NEW q \in Seq(Resource), ing' = [ing EXCEPT !["poll"] = Begun(q, poll.migrates)]
          PROVE \A j \in Jobs : ing'[j].listed \in {ing[j].listed, Empty}
      BY <1>2, <3>1, <3>3, BegunType
    <3>. QED  BY <1>1, <1>10, <3>2, <3>3, PollListedBegins
  <2>. QED  BY <1>3, <1>10, <2>1, SameRegistryCalm DEF PollListed
<1>11. CASE CommandRead
  <2>1. \A j \in Jobs : ing'[j].listed \in {ing[j].listed, Empty}
    <3>1. <<cmd.resource>> \in Seq(Resource) /\ account \in Nat /\ nest \in Grants
      BY <1>1, <1>11 DEF CommandRead, NestTypes
    <3>2. Begun(<<cmd.resource>>, TRUE).listed = Empty  BY <3>1, BegunType
    <3>. QED  BY <1>2, <1>11, <3>2 DEF CommandRead
  <2>. QED  BY <1>3, <1>11, <2>1, SameRegistryCalm DEF CommandRead
<1>12. CASE \/ UNCHANGED nestVars
            \/ PollSigns \/ TimerFires \/ RefreshRequested \/ Start
            \/ \E status \in Failures, retryAfter \in BOOLEAN : PollFails(status, retryAfter)
            \/ \E r \in Resource : Command(r) \/ RemoveHides(r) \/ Restore(r)
            \/ CommandSent \/ CommandRecovers \/ RequestFails
            \/ AuthorisationBegins \/ SessionEnds \/ ConsentGiven \/ Exchanged \/ ConnectFails
            \/ LeaveStarts \/ LeaveFails \/ LeaveForgets \/ RestoreRefreshes
            \/ \E t \in Thermostat : Renamed(t) \/ JoinsOrLeaves(t)
  <2>1. UNCHANGED <<registry, ing>>
    BY <1>12 DEF nestVars, PollSigns, PollFails, TimerFires, RefreshRequested, Start, Command, RemoveHides, Restore, CommandSent,
       CommandRecovers, RequestFails, AuthorisationBegins, SessionEnds, ConsentGiven, Exchanged, ConnectFails, LeaveStarts,
       LeaveFails, LeaveForgets, RestoreRefreshes, Renamed, JoinsOrLeaves
  <2>. QED  BY <1>3, <2>1, SameRegistryCalm
<1>. QED  BY <1>4, <1>5, <1>6, <1>7, <1>8, <1>9, <1>10, <1>11, <1>12 DEF NestNext, PollStep, IngestStep

(* A home that left: nothing is stored in it before it is connected again. *)
LEMMA LeftKept ==
  ASSUME Whole, [NestNext]_nestVars, ~Astray'
  PROVE  Left'
<1>1. SUFFICES ASSUME ~nest'.configured, ~hist'.outlived
      PROVE  poll'.phase = "idle" /\ cmd'.phase = "idle" /\ home' = Empty
  BY DEF Left
<1>2. NestTypes /\ Working /\ ~Astray /\ Left  BY AstrayStays, WholeCalm DEF Whole
<1>. nest \in Grants /\ hist \in Pasts  BY <1>2 DEF NestTypes
<1>3. CASE LeaveClears
  <2>1. poll.phase = "idle" /\ cmd.phase = "idle" /\ UNCHANGED <<poll, cmd>>
    BY <1>1, <1>3 DEF LeaveClears, Pasts
  <2>2. home' = Empty  BY <1>2, <1>3, WholeCalm, ClearedKeeps DEF LeaveClears
  <2>. QED  BY <2>1, <2>2
<1>4. ASSUME NEW j \in Jobs, IngestStep(j) PROVE FALSE
  <2>1. nest' = nest /\ ing[j].on
    <3>. ing \in [Jobs -> Ingests] /\ IsBook(home)  BY <1>2 DEF NestTypes
    <3>. QED  BY <1>4, LookedType DEF IngestStep, IngestNext, IngestSweeps, Written
  <2>2. hist'.outlived = hist.outlived
    BY <1>4 DEF IngestStep, IngestNext, IngestSweeps, Pasts
  <2>3. ~nest.configured  BY <1>1, <2>1
  <2>. QED  BY <1>1, <1>2, <2>1, <2>2, <2>3 DEF Left, Working, Jobs
<1>. DEFINE Still == ~nest.configured /\ hist'.outlived = hist.outlived
<1>5. Still => /\ poll.phase = "idle" /\ cmd.phase = "idle" /\ home = Empty /\ DOMAIN home = {}
  BY <1>1, <1>2, EmptyBook DEF Left
<1>6. CASE UNCHANGED nestVars
  BY <1>1, <1>5, <1>6 DEF nestVars, registry
<1>7. CASE PollStep
  <2>1. Still /\ poll.phase # "idle"
    BY <1>1, <1>7 DEF PollStep, PollSigns, PollStored, PollListed, PollFails, Grants
  <2>. QED  BY <1>5, <2>1
<1>8. CASE TimerFires \/ RefreshRequested
  BY <1>1, <1>8 DEF TimerFires, RefreshRequested
<1>9. CASE Start
  <2>1. Still  BY <1>1, <1>9 DEF Start, Grants
  <2>. QED  BY <1>5, <1>9, <2>1 DEF Start, registry
<1>10. CASE CommandSent \/ CommandRecovers \/ CommandRead \/ CommandConfirmed \/ RequestFails
  <2>1. Still /\ cmd.phase # "idle"
    BY <1>1, <1>10 DEF CommandSent, CommandRecovers, CommandRead, CommandConfirmed, RequestFails, Grants, Pasts
  <2>. QED  BY <1>5, <2>1
<1>11. ASSUME NEW r \in Resource, Command(r) PROVE FALSE
  BY <1>1, <1>11 DEF Command
<1>12. CASE Exchanged
  BY <1>1, <1>12 DEF Exchanged, Grants
<1>13. CASE \/ AuthorisationBegins \/ SessionEnds \/ ConsentGiven \/ ConnectFails \/ LeaveStarts \/ LeaveFails \/ LeaveForgets
            \/ \E r \in Resource : RemoveHides(r) \/ Restore(r)
            \/ \E t \in Thermostat : Renamed(t) \/ JoinsOrLeaves(t)
  <2>1. Still /\ UNCHANGED <<poll, cmd, home>>
    BY <1>1, <1>13 DEF AuthorisationBegins, SessionEnds, ConsentGiven, ConnectFails, LeaveStarts, LeaveFails, LeaveForgets,
       RemoveHides, Restore, Renamed, JoinsOrLeaves, registry, Grants
  <2>. QED  BY <1>5, <2>1
<1>14. CASE RestoreRefreshes
  <2>1. Still /\ UNCHANGED <<poll, cmd, home>>  BY <1>1, <1>14 DEF RestoreRefreshes, registry
  <2>. QED  BY <1>5, <2>1
<1>15. CASE HubRestarts
  <2>1. Still /\ UNCHANGED home /\ poll' = NoPoll /\ cmd' = NoCommand  BY <1>1, <1>15 DEF HubRestarts, registry
  <2>. QED  BY <1>5, <2>1 DEF NoPoll, NoCommand
<1>16. ASSUME NEW k \in Resource, Assign(k) PROVE FALSE
  <2>1. Still /\ k \in DOMAIN home  BY <1>1, <1>16 DEF Assign, Pasts
  <2>. QED  BY <1>5, <2>1
<1>17. CASE RemoveDeletes
  <2>1. Still /\ UNCHANGED <<poll, cmd>>  BY <1>1, <1>17 DEF RemoveDeletes, Pasts
  <2>2. home' = home
    <3>1. GoneFrom(Now, calls.removing) = {}  BY <1>5, <2>1 DEF GoneFrom, Now
    <3>2. home' = Now.home  BY <1>17, <3>1, RemovedIs DEF RemoveDeletes, Delete
    <3>. QED  BY <3>2 DEF Now
  <2>. QED  BY <1>5, <2>1, <2>2
<1>. QED
  BY <1>3, <1>4, <1>6, <1>7, <1>8, <1>9, <1>10, <1>11, <1>12, <1>13, <1>14, <1>15, <1>16, <1>17 DEF NestNext

LEMMA WholeKept ==
  ASSUME Whole, [NestNext]_nestVars
  PROVE  Whole'
<1>1. NestTypes' /\ Working' /\ Straight'  BY NestTypesKept, WorkingKept, StraightKept DEF Whole
<1>2. CalmNames'  BY RegistryCalmKept, LeftKept DEF CalmNames, RegistryCalm
<1>. QED  BY <1>1, <1>2 DEF Whole

LEMMA WholeBegins == ASSUME NestInit PROVE Whole
<1>1. NestTypes  BY NestTypesBegin
<1>2. ing = [j \in Jobs |-> NoIngest] /\ poll = NoPoll /\ cmd = NoCommand /\ aliases = Empty /\ hist.sent = <<>>
  BY DEF NestInit
<1>3. Working  BY <1>2, NoIngestIsWell DEF Working, Jobs
<1>4. Own(home) /\ (\A k \in DOMAIN home : home[k].legacy = {}) /\ Left
  <2>1. CASE nest = Gone /\ home = Empty
    BY <1>2, <2>1, EmptyBook DEF Own, Left, NoPoll, NoCommand
  <2>2. ASSUME nest.configured, NEW verified \in BOOLEAN,
               home = [r \in Thermostat \X {0} |-> [NewDevice(Owner(r), 1) EXCEPT !.area = Owner(r), !.verified = verified]]
        PROVE Own(home) /\ (\A k \in DOMAIN home : home[k].legacy = {}) /\ Left
    <3>1. \A k \in DOMAIN home : home[k].area = Owner(k) /\ home[k].shows = Owner(k) /\ home[k].legacy = {}
      BY <2>2 DEF NewDevice
    <3>. QED  BY <2>2, <3>1 DEF Own, DeviceOf, Left
  <2>3. CASE nest = [configured |-> TRUE, status |-> "connected", ignored |-> {}, grant |-> 1]
    <3>1. PICK verified \in BOOLEAN :
            home = [r \in Thermostat \X {0} |-> [NewDevice(Owner(r), 1) EXCEPT !.area = Owner(r), !.verified = verified]]
      BY <2>3 DEF NestInit, Gone
    <3>. QED  BY <2>2, <2>3, <3>1
  <2>. QED  BY <2>1, <2>3 DEF NestInit
<1>5. OwnAliases(aliases) /\ DOMAIN aliases = {}  BY <1>2, EmptyBook DEF OwnAliases
<1>6. Straight  BY <1>2, <1>4, <1>5, NoJobOwn DEF Straight
<1>7. CalmNames  BY <1>2, <1>4, <1>5, NothingListedFits DEF CalmNames, Paired
<1>. QED  BY <1>1, <1>3, <1>6, <1>7 DEF Whole

LEMMA WholeAlways == NestSpec => []Whole
<1>1. NestInit => Whole  BY WholeBegins
<1>2. Whole /\ [NestNext]_nestVars => Whole'  BY WholeKept
<1>. QED  BY <1>1, <1>2, PTL DEF NestSpec

(* The kinds of the data, of any number of thermostats and events. *)
THEOREM NestTypeCorrect == NestSpec => []NestTypes
<1>1. Whole => NestTypes  BY DEF Whole
<1>. QED  BY <1>1, WholeAlways, PTL

LEMMA WholeOwn == ASSUME Whole PROVE OwnRecords
<1>1. ASSUME ~Astray PROVE /\ \A k \in DOMAIN home : Found(k) = {k}
                           /\ ~nest.configured /\ ~hist.outlived => home = Empty
  <2>1. Paired(home, aliases) /\ Left  BY <1>1, WholeCalm
  <2>2. \A k \in DOMAIN home : k \notin DOMAIN aliases  BY <2>1 DEF Paired
  <2>. QED  BY <2>1, <2>2 DEF Found, Left
<1>2. ASSUME ~hist.strange
      PROVE /\ \A k \in DOMAIN home : home[k].area \in {NoThermostat, Owner(k)} /\ home[k].shows = Owner(k)
            /\ hist.sent # <<>> => Owner(hist.sent[2]) = hist.sent[1]
  BY <1>2 DEF Whole, Straight, Own, DeviceOf
<1>. QED  BY <1>1, <1>2 DEF OwnRecords

(* Records carry the setup and the state of their own thermostat, commands reach it,
   a record is found under its own name and a home that left has none, as far as the
   names do not lead astray: deviceReconciliation, ingestGoogleNestSnapshot,
   recoverCommandResource and clearGoogleNest. *)
THEOREM OwnRecordsAlways == NestSpec => []OwnRecords
<1>1. Whole => OwnRecords  BY WholeOwn
<1>. QED  BY <1>1, WholeAlways, PTL

(***************************************************************************)
(* Setups move with their records.                                         *)
(***************************************************************************)
CarriedBy(h, t) == {k \in DOMAIN h : h[k].area = t}

LEMMA WritesCarry ==
  ASSUME IsBook(home), AreAliases(aliases), Paired(home, aliases), Writes, NEW t \in Thermostat
  PROVE  Cardinality(CarriedBy(home', t)) = Cardinality(CarriedBy(home, t))
<1>. t # NoThermostat  BY NameTypes
<1>1. ASSUME NEW k, NEW d, Rewrites(k, d), d.area = home[k].area
      PROVE CarriedBy(home', t) = CarriedBy(home, t)
  <2>1. home' = Put(home, k, d) /\ k \in DOMAIN home  BY <1>1, RewritesKeeps DEF Rewrites
  <2>. QED  BY <1>1, <2>1 DEF CarriedBy, Put
<1>2. ASSUME NEW r, NEW d, Adds(r, d)
      PROVE CarriedBy(home', t) = CarriedBy(home, t)
  <2>1. home' = Put(home, r, d) /\ r \notin DOMAIN home /\ d.area # t  BY <1>2, AddsKeeps DEF Adds
  <2>. QED  BY <2>1 DEF CarriedBy, Put
<1>3. ASSUME NEW k, NEW r, NEW d, Moves(k, r, d)
      PROVE Cardinality(CarriedBy(home', t)) = Cardinality(CarriedBy(home, t))
  <2>. DEFINE m == Drop(home, {k})
              C == CarriedBy(home, t)
  <2>1. DOMAIN m = DOMAIN home \ {k} /\ \A o \in DOMAIN home \ {k} : m[o] = home[o]  BY DropType
  <2>2. home' = Put(m, r, d) /\ r \notin DOMAIN home /\ k \in DOMAIN home /\ d.area = home[k].area
    BY <1>3 DEF Moves
  <2>. HIDE DEF m
  <2>3. DOMAIN home' = (DOMAIN home \ {k}) \cup {r} /\ home'[r] = d /\ \A o \in DOMAIN home \ {k} : home'[o] = home[o]
    BY <2>1, <2>2 DEF Put
  <2>4. IsFiniteSet(C)  BY ResourceFinite, FS_Subset DEF CarriedBy, IsBook
  <2>5. CASE home[k].area # t
    <3>1. CarriedBy(home', t) = C  BY <2>2, <2>3, <2>5 DEF CarriedBy
    <3>. QED  BY <3>1
  <2>6. CASE home[k].area = t
    <3>1. CarriedBy(home', t) = (C \ {k}) \cup {r} /\ k \in C /\ r \notin C  BY <2>2, <2>3, <2>6 DEF CarriedBy
    <3>. HIDE DEF C
    <3>2. IsFiniteSet(C \ {k}) /\ Cardinality(C \ {k}) = Cardinality(C) - 1  BY <2>4, <3>1, FS_RemoveElement
    <3>3. Cardinality((C \ {k}) \cup {r}) = Cardinality(C \ {k}) + 1  BY <3>1, <3>2, FS_AddElement
    <3>4. Cardinality(C) \in Nat  BY <2>4, FS_CardinalityType
    <3>. QED  BY <3>1, <3>2, <3>3, <3>4 DEF C
  <2>. QED  BY <2>5, <2>6
<1>. QED  BY <1>1, <1>2, <1>3 DEF Writes

LEMMA WholeSettings ==
  ASSUME Whole, [NestNext]_nestVars
  PROVE  [\/ Astray' \/ budget' # budget \/ calls' # calls
          \/ \A t \in Thermostat : Carrying(t)' = Carrying(t)]_home
<1>1. SUFFICES ASSUME ~Astray', budget' = budget, calls' = calls, home' # home, NEW t \in Thermostat
      PROVE  Carrying(t)' = Carrying(t)
  OBVIOUS
<1>2. ~Astray  BY <1>1, AstrayStays DEF Whole
<1>3. IsBook(home) /\ AreAliases(aliases) /\ Paired(home, aliases)  BY <1>2, WholeCalm
<1>4. Writes
  <2>1. CASE \E j \in Jobs : IngestStep(j)
    BY <1>1, <2>1, IngestNextCalm, IngestSweepsCalm DEF IngestStep
  <2>2. CASE CommandConfirmed
    BY <1>1, <1>2, <2>2, ConfirmedCalm DEF registry
  <2>3. CASE LeaveClears \/ RemoveDeletes \/ \E k \in Resource : Assign(k)
    <3>1. ~LeaveClears
      <4>1. CASE LeaveClears
        BY <1>1, <4>1 DEF LeaveClears, Whole, NestTypes, UserCalls
      <4>. QED  BY <4>1
    <3>2. ~RemoveDeletes
      BY <1>1 DEF RemoveDeletes, Whole, NestTypes, UserCalls
    <3>3. ASSUME NEW k \in Resource, Assign(k) PROVE FALSE
      <4>1. "assigned" \in Kinds  BY DEF Kinds
      <4>. QED  BY <1>1, <3>3, <4>1 DEF Assign, Spend, Whole, NestTypes
    <3>. QED  BY <2>3, <3>1, <3>2, <3>3
  <2>4. CASE \/ UNCHANGED nestVars \/ PollStep \/ TimerFires \/ RefreshRequested \/ Start
             \/ \E r \in Resource : Command(r) \/ RemoveHides(r) \/ Restore(r)
             \/ CommandSent \/ CommandRecovers \/ CommandRead \/ RequestFails
             \/ AuthorisationBegins \/ SessionEnds \/ ConsentGiven \/ Exchanged \/ ConnectFails
             \/ LeaveStarts \/ LeaveFails \/ LeaveForgets \/ RestoreRefreshes \/ HubRestarts
             \/ \E t2 \in Thermostat : Renamed(t2) \/ JoinsOrLeaves(t2)
    <3>1. home' = home
      BY <2>4 DEF nestVars, registry, PollStep, PollSigns, PollStored, PollListed, PollFails, TimerFires, RefreshRequested, Start,
         Command, RemoveHides, Restore, CommandSent, CommandRecovers, CommandRead, RequestFails, AuthorisationBegins,
         SessionEnds, ConsentGiven, Exchanged, ConnectFails, LeaveStarts, LeaveFails, LeaveForgets, RestoreRefreshes,
         HubRestarts, Renamed, JoinsOrLeaves
    <3>. QED  BY <1>1, <3>1
  <2>. QED  BY <2>1, <2>2, <2>3, <2>4 DEF NestNext
<1>. QED  BY <1>3, <1>4, WritesCarry DEF Carrying, CarriedBy

(* A setup moves with its record, whatever snapshots are being stored: migrateDeviceIdentity
   and ingestGoogleNestSnapshot. *)
THEOREM SettingsMoveAlways == NestSpec => SettingsMove
<1>1. Whole /\ [NestNext]_nestVars
      => [\/ Astray' \/ budget' # budget \/ calls' # calls
          \/ \A t \in Thermostat : Carrying(t)' = Carrying(t)]_home
  BY WholeSettings
<1>. QED  BY <1>1, WholeAlways, PTL DEF NestSpec, SettingsMove
=============================================================================
