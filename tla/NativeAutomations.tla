-------------------------- MODULE NativeAutomations --------------------------
(***************************************************************************)
(* The native schedule automations of the hub (src/automations): the       *)
(* scheduler that claims due occurrences and runs them through the         *)
(* executor, the API that edits definitions meanwhile, the store they      *)
(* share, and the restarts of the process.                                 *)
(*                                                                         *)
(* The clock counts ticks, PerMinute of them in a minute; LocalTime gives  *)
(* the wall-clock minute (with its date) of each minute, and repeats one   *)
(* when clocks go back.  A trigger is the wall-clock minute it fires at;   *)
(* the weekday, the device and the value of an action are not told apart.  *)
(*                                                                         *)
(* JavaScript runs to completion: nothing else happens while the scheduler *)
(* is between two awaits (Running).                                        *)
(***************************************************************************)
EXTENDS StoreCommit

CONSTANTS
  Sched,          \* the owner that stands for the scheduler and executor
  Clients,        \* owners that stand for API requests on automations
  Others,         \* owners that save anything else in the same store
  Automation,     \* automation ids
  NumSteps,       \* actions per automation
  Ticks,          \* bound: the instants the clock can show
  PerMinute,      \* ticks in a minute
  LocalTime,      \* the wall-clock minute of each minute
  Grace,          \* missedRunGraceMs and two intervals, in ticks
  MaxOccurrences, \* LIMITS.maxOccurrences
  MaxHistory,     \* LIMITS.maxExecutionHistory
  MaxRevision,    \* bound: revisions an automation goes through
  Scenarios       \* bounds: the clock's last instant, what actions can come to, and how often each
                  \* kind of event happens

MinuteOf(t) == t \div PerMinute
UtcMinutes  == {MinuteOf(t) : t \in Ticks}
WallMinutes == {LocalTime[m] : m \in UtcMinutes}

ASSUME OwnersAssumption ==
  /\ Owner = {Sched} \cup Clients \cup Others
  /\ Sched \notin Clients \cup Others
  /\ Clients \cap Others = {}
  /\ {Sched} \cup Clients \subseteq Awaited

ASSUME BoundsAssumption ==
  /\ NumSteps \in Nat \ {0}
  /\ Ticks \subseteq Nat \ {0}
  /\ PerMinute \in Nat \ {0}
  /\ UtcMinutes \subseteq DOMAIN LocalTime
  /\ Grace \in Nat
  /\ MaxOccurrences \in Nat \ {0}
  /\ MaxHistory \in Nat \ {0}
  /\ MaxRevision \in Nat \ {0}
  /\ Scenarios \subseteq [until : Ticks, results : SUBSET {"applied", "failed", "uncertain"},
                          edits : Nat, others : Nat, errors : Nat, restarts : Nat]

Steps     == 1..NumSteps
Revisions == 1..MaxRevision

(* occurrenceId: the automation, its revision and the local minute. *)
OccId == Automation \X Revisions \X WallMinutes

Outcomes == {"pending", "running", "applied", "failed", "uncertain"}
Unsettled == {"claimed", "running"}
Settled   == {"succeeded", "failed", "partial", "interrupted"}
Statuses  == {"absent"} \cup Unsettled \cup Settled

Definition == [live : BOOLEAN, revision : Revisions, enabled : BOOLEAN,
               minute : WallMinutes]
Occurrence == [status : Statuses, outcomes : [Steps -> Outcomes]]

NoOutcomes == [s \in Steps |-> "pending"]
Absent     == [status |-> "absent", outcomes |-> NoOutcomes]

VARIABLES
  clock,     \* the wall clock of the hub
  pc,        \* where the scheduler is in recover, tick or executeOccurrence
  now,       \* the tick's time
  since,     \* the lastTickAt it started from, 0 for none
  seen,      \* history: the definitions when it listed the automations, with
             \* revision 0 for one that a failed write has taken back since
  skipped,   \* history: automations it found not executable
  todo,      \* listed automations not looked at yet
  cands,     \* minutes of the current one still to be claimed, with their ids
  won,       \* the occurrence the last claim added, if it added one
  due,       \* claimed occurrences to execute
  step,      \* the action of the first of them
  outcomes,  \* the executor's own table of outcomes
  calls,     \* history: times each action of an occurrence was executed
  forgotten, \* history: occurrences whose record was pruned
  aborted,   \* history: a tick of this process was aborted
  budget     \* the events that are left of the scenario

tickVars  == <<now, since, seen, skipped, todo, cands, won>>
runVars   == <<due, step, outcomes>>
vars == <<storeVars, clock, pc, tickVars, runVars, calls, forgotten, aborted, budget>>

Kinds == {"edits", "others", "errors", "restarts"}
Spend(kind) == budget[kind] > 0 /\ budget' = [budget EXCEPT ![kind] = @ - 1]

PCs == {"off", "recovering", "dead", "idle", "scan", "claiming", "stamping",
        "run", "starting", "step", "marking", "calling", "recording",
        "finishing", "aborting"}

(* Between two awaits of the scheduler, and while the API is served. *)
Running == pc \in {"scan", "run", "step"}
Serving == pc \notin {"off", "recovering", "dead"}

-----------------------------------------------------------------------------
(* The persistent part: definitions, occurrences (by id, and the order in  *)
(* which the object lists them), the execution history, newest first, and  *)
(* lastTickAt.                                                             *)
InitialContent(defs) ==
  [defs |-> defs, occ |-> [id \in OccId |-> Absent], order |-> <<>>,
   history |-> <<>>, lastTick |-> 0]

(* Faulty variant: a record that has ended does not count. *)
KnownOpen(id) == state.occ[id].status \in Unsettled

Known(id) == state.occ[id].status # "absent"

Newest(seq, n) ==
  IF Len(seq) <= n THEN seq ELSE SubSeq(seq, Len(seq) - n + 1, Len(seq))

InSeq(x, seq) == \E i \in 1..Len(seq) : seq[i] = x

(* scheduler.claim on an occurrence without a record: add it, then keep    *)
(* the newest maxOccurrences.                                              *)
KeptOrder(id) == Newest(Append(state.order, id), MaxOccurrences)

Claimed(id) ==
  [state EXCEPT
     !.occ = [i \in OccId |->
                IF i = id THEN [status |-> "claimed", outcomes |-> NoOutcomes]
                ELSE IF InSeq(i, KeptOrder(id)) THEN state.occ[i] ELSE Absent],
     !.order = KeptOrder(id)]

(* executor.markOccurrence: a patch of the record, if there still is one.  *)
Marked(id, status, table) ==
  IF Known(id)
  THEN [state EXCEPT !.occ[id] = [status |-> status, outcomes |-> table]]
  ELSE state

FinalStatus(table) ==
  IF \A s \in Steps : table[s] = "applied" THEN "succeeded"
  ELSE IF \A s \in Steps : table[s] # "applied" THEN "failed"
  ELSE "partial"

History(row, rows) ==
  LET all == <<row>> \o rows
  IN IF Len(all) <= MaxHistory THEN all ELSE SubSeq(all, 1, MaxHistory)

(* The end of executeOccurrence: the record, and one row of history in the *)
(* place of any earlier row of the occurrence.                             *)
Completed(id, table) ==
  LET rest == SelectSeq(state.history, LAMBDA row : row.id # id)
      row  == [id |-> id, status |-> FinalStatus(table)]
  IN [Marked(id, FinalStatus(table), table) EXCEPT !.history = History(row, rest)]

(* Faulty variant: only an action that was running becomes uncertain. *)
InterruptedPending(occurrence) ==
  [status |-> "interrupted",
   outcomes |-> [s \in Steps |-> IF occurrence.outcomes[s] = "running" THEN "uncertain"
                                 ELSE occurrence.outcomes[s]]]

(* recover: what was claimed or running is interrupted, what was not       *)
(* confirmed is uncertain, and each gets a row of history.                 *)
Interrupted(occurrence) ==
  [status |-> "interrupted",
   outcomes |-> [s \in Steps |->
                   IF occurrence.outcomes[s] \in {"pending", "running"}
                   THEN "uncertain" ELSE occurrence.outcomes[s]]]

UnsettledIds == SelectSeq(state.order, LAMBDA id : state.occ[id].status \in Unsettled)

Recovered ==
  LET ids  == UnsettledIds
      rows == [i \in 1..Len(ids) |-> [id |-> ids[i], status |-> "interrupted"]]
      all  == rows \o state.history
  IN [state EXCEPT
        !.occ = [id \in OccId |-> IF state.occ[id].status \in Unsettled
                                  THEN Interrupted(state.occ[id])
                                  ELSE state.occ[id]],
        !.history = IF Len(all) <= MaxHistory THEN all ELSE SubSeq(all, 1, MaxHistory)]

Stamped == [state EXCEPT !.lastTick = now]

-----------------------------------------------------------------------------
(* Faulty variant: the last tick's minute is taken for done. *)
MinutesAfter(previous, time) ==
  IF previous = 0 \/ time < previous \/ time - previous > Grace
  THEN {MinuteOf(time)}
  ELSE (MinuteOf(previous) + 1)..MinuteOf(time)

(* dueMinuteCandidates: the minutes from the last tick's to this one's, or *)
(* this one's alone when there is no last tick, the clock went back, or    *)
(* the gap is longer than the grace period.                                *)
CandidateMinutes(previous, time) ==
  IF previous = 0 \/ time < previous \/ time - previous > Grace
  THEN {MinuteOf(time)}
  ELSE MinuteOf(previous)..MinuteOf(time)

(* scheduledOccurrence for each candidate. *)
Scheduled(a, def, previous, time) ==
  {[at |-> m, id |-> <<a, def.revision, def.minute>>] :
     m \in {n \in CandidateMinutes(previous, time) \cap UtcMinutes :
              LocalTime[n] = def.minute}}

Init ==
  /\ \E defs \in [Automation -> [live : {TRUE}, revision : {1}, enabled : BOOLEAN,
                           minute : WallMinutes]] :
       /\ StoreInit(InitialContent(defs))
       /\ seen = defs
  /\ budget \in Scenarios
  /\ clock \in Ticks /\ clock <= budget.until
  /\ now = clock
  /\ pc = "off"
  /\ since = 0
  /\ skipped = {}
  /\ todo = {}
  /\ cands = {}
  /\ won = <<>>
  /\ due = <<>>
  /\ step = 1
  /\ outcomes = NoOutcomes
  /\ calls = [id \in OccId |-> [s \in Steps |-> 0]]
  /\ forgotten = {}
  /\ aborted = FALSE

(* A store mutation of the scheduler and where it waits for the write. *)
SchedCommit(content, waitAt) ==
  /\ Commit(Sched, content)
  /\ pc' = waitAt

(* The scheduler resumes after its write went well. *)
ResumeFrom(waitAt) ==
  /\ pc = waitAt
  /\ phase[Sched] = "saved"

-----------------------------------------------------------------------------
(* AutomationScheduler.start and recover. *)
Recover ==
  /\ pc = "off"
  /\ SchedCommit(Recovered, "recovering")
  /\ UNCHANGED <<clock, tickVars, runVars, calls, forgotten, aborted, budget>>

(* The timer is set; when the write failed start() has thrown and no timer *)
(* will ever run in this process.                                          *)
RecoverEnds ==
  /\ pc = "recovering"
  /\ ~Pending(Sched)
  /\ pc' = IF phase[Sched] = "saved" THEN "idle" ELSE "dead"
  /\ UNCHANGED <<storeVars, clock, tickVars, runVars, calls, forgotten, aborted, budget>>

(* Faulty variant: disabled automations are listed too. *)
TickListsAll ==
  /\ pc = "idle"
  /\ pc' = "scan"
  /\ now' = clock
  /\ since' = state.lastTick
  /\ seen' = state.defs
  /\ todo' = {a \in Automation : state.defs[a].live}
  /\ skipped' = {}
  /\ UNCHANGED <<storeVars, clock, cands, won, runVars, calls, forgotten, aborted, budget>>

(* The timer fires and no tick is in flight. *)
TickStarts ==
  /\ pc = "idle"
  /\ pc' = "scan"
  /\ now' = clock
  /\ since' = state.lastTick
  /\ seen' = state.defs
  /\ todo' = {a \in Automation : state.defs[a].live /\ state.defs[a].enabled}
  /\ skipped' = {}
  /\ UNCHANGED <<storeVars, clock, cands, won, runVars, calls, forgotten, aborted, budget>>

(* The next listed automation, by the definition stored now. *)
LookAt(a) ==
  /\ pc = "scan"
  /\ cands = {}
  /\ a \in todo
  /\ state.defs[a].live
  /\ todo' = todo \ {a}
  /\ cands' = Scheduled(a, state.defs[a], since, now)
  /\ UNCHANGED <<storeVars, clock, pc, now, since, seen, skipped, won, runVars,
                 calls, forgotten, aborted, budget>>

(* It has been removed, or its health says that it is not executable. *)
Skip(a) ==
  /\ pc = "scan"
  /\ cands = {}
  /\ a \in todo
  /\ todo' = todo \ {a}
  /\ skipped' = skipped \cup {a}
  /\ UNCHANGED <<storeVars, clock, pc, now, since, seen, cands, won, runVars,
                 calls, forgotten, aborted, budget>>

Claim ==
  /\ pc = "scan"
  /\ \E c \in cands :
       /\ \A d \in cands : c.at <= d.at
       /\ cands' = cands \ {c}
       /\ \/ /\ Known(c.id)
             /\ won' = <<>>
             /\ SchedCommit(state, "claiming")
             /\ UNCHANGED forgotten
          \/ /\ ~Known(c.id)
             /\ won' = <<c.id>>
             /\ SchedCommit(Claimed(c.id), "claiming")
             /\ forgotten' = forgotten \cup
                  {i \in OccId : Known(i) /\ ~InSeq(i, KeptOrder(c.id))}
  /\ UNCHANGED <<clock, now, since, seen, skipped, todo, runVars, calls, aborted, budget>>

(* Faulty variant: the claim is saved but not remembered for execution. *)
ClaimDropped ==
  /\ ResumeFrom("claiming")
  /\ pc' = "scan"
  /\ won' = <<>>
  /\ UNCHANGED <<storeVars, clock, now, since, seen, skipped, todo, cands, runVars,
                 calls, forgotten, aborted, budget>>

ClaimSaved ==
  /\ ResumeFrom("claiming")
  /\ pc' = "scan"
  /\ due' = due \o won
  /\ won' = <<>>
  /\ UNCHANGED <<storeVars, clock, now, since, seen, skipped, todo, cands, step,
                 outcomes, calls, forgotten, aborted, budget>>

Stamp ==
  /\ pc = "scan"
  /\ cands = {}
  /\ todo = {}
  /\ SchedCommit(Stamped, "stamping")
  /\ UNCHANGED <<clock, tickVars, runVars, calls, forgotten, aborted, budget>>

StampSaved ==
  /\ ResumeFrom("stamping")
  /\ pc' = "run"
  /\ UNCHANGED <<storeVars, clock, tickVars, runVars, calls, forgotten, aborted, budget>>

TickEnds ==
  /\ pc = "run"
  /\ due = <<>>
  /\ pc' = "idle"
  /\ UNCHANGED <<storeVars, clock, tickVars, runVars, calls, forgotten, aborted, budget>>

-----------------------------------------------------------------------------
(* AutomationExecutor.executeOccurrence, of the first due occurrence. *)
ExecuteStarts ==
  /\ pc = "run"
  /\ due # <<>>
  /\ step' = 1
  /\ outcomes' = NoOutcomes
  /\ SchedCommit(Marked(Head(due), "running", NoOutcomes), "starting")
  /\ UNCHANGED <<clock, tickVars, due, calls, forgotten, aborted, budget>>

StartSaved ==
  /\ ResumeFrom("starting")
  /\ pc' = "step"
  /\ UNCHANGED <<storeVars, clock, tickVars, runVars, calls, forgotten, aborted, budget>>

MarkStep ==
  /\ pc = "step"
  /\ step <= NumSteps
  /\ SchedCommit(Marked(Head(due), "running", [outcomes EXCEPT ![step] = "running"]),
                 "marking")
  /\ UNCHANGED <<clock, tickVars, runVars, calls, forgotten, aborted, budget>>

(* executeControl is called. *)
Call ==
  /\ ResumeFrom("marking")
  /\ pc' = "calling"
  /\ calls' = [calls EXCEPT ![Head(due)][step] = IF @ < 2 THEN @ + 1 ELSE @]
  /\ UNCHANGED <<storeVars, clock, tickVars, runVars, forgotten, aborted, budget>>

(* It returns, or throws with or without the uncertain flag. *)
Return(result) ==
  /\ pc = "calling"
  /\ outcomes' = [outcomes EXCEPT ![step] = result]
  /\ SchedCommit(Marked(Head(due), "running", [outcomes EXCEPT ![step] = result]),
                 "recording")
  /\ UNCHANGED <<clock, tickVars, due, step, calls, forgotten, aborted, budget>>

RecordSaved ==
  /\ ResumeFrom("recording")
  /\ pc' = "step"
  /\ step' = step + 1
  /\ UNCHANGED <<storeVars, clock, tickVars, due, outcomes, calls, forgotten, aborted, budget>>

Finish ==
  /\ pc = "step"
  /\ step > NumSteps
  /\ SchedCommit(Completed(Head(due), outcomes), "finishing")
  /\ UNCHANGED <<clock, tickVars, runVars, calls, forgotten, aborted, budget>>

FinishSaved ==
  /\ ResumeFrom("finishing")
  /\ pc' = "run"
  /\ due' = Tail(due)
  /\ step' = 1
  /\ UNCHANGED <<storeVars, clock, tickVars, outcomes, calls, forgotten, aborted, budget>>

(* The catch branch of tick: any of its writes failed.  lastTickAt moves   *)
(* on all the same and what was due is dropped.                            *)
Abort ==
  /\ pc \in {"claiming", "stamping", "starting", "marking", "recording", "finishing"}
  /\ phase[Sched] = "failed"
  /\ SchedCommit(Stamped, "aborting")
  /\ aborted' = TRUE
  /\ UNCHANGED <<clock, tickVars, runVars, calls, forgotten, budget>>

AbortEnds ==
  /\ pc = "aborting"
  /\ ~Pending(Sched)
  /\ pc' = "idle"
  /\ due' = <<>>
  /\ todo' = {}
  /\ cands' = {}
  /\ won' = <<>>
  /\ UNCHANGED <<storeVars, clock, now, since, seen, skipped, step, outcomes,
                 calls, forgotten, aborted, budget>>

-----------------------------------------------------------------------------
(* AutomationService.update, with the current revision as the expected one *)
(* (any other is refused before it changes anything).                      *)
Update(c, a, enabled, minute) ==
  /\ Spend("edits")
  /\ Serving /\ ~Running
  /\ state.defs[a].live
  /\ state.defs[a].revision < MaxRevision
  /\ Commit(c, [state EXCEPT !.defs[a] =
       [live |-> TRUE, revision |-> @.revision + 1, enabled |-> enabled,
        minute |-> minute]])
  /\ UNCHANGED <<clock, pc, tickVars, runVars, calls, forgotten, aborted>>

(* AutomationService.remove. *)
Remove(c, a) ==
  /\ Spend("edits")
  /\ Serving /\ ~Running
  /\ state.defs[a].live
  /\ Commit(c, [state EXCEPT !.defs[a].live = FALSE])
  /\ UNCHANGED <<clock, pc, tickVars, runVars, calls, forgotten, aborted>>

(* A mutation of another subsystem. *)
OtherSave(o) ==
  /\ Spend("others")
  /\ ~Running
  /\ Commit(o, state)
  /\ UNCHANGED <<clock, pc, tickVars, runVars, calls, forgotten, aborted>>

-----------------------------------------------------------------------------
(* A write is chained, starts and ends. *)
Persist(o) ==
  /\ ~Running
  /\ ChainWrite(o)
  /\ UNCHANGED <<clock, pc, tickVars, runVars, calls, forgotten, aborted, budget>>

WriteStarts ==
  /\ ~Running
  /\ Serialise
  /\ UNCHANGED <<clock, pc, tickVars, runVars, calls, forgotten, aborted, budget>>

WriteEnds ==
  /\ ~Running
  /\ WriteDone
  /\ UNCHANGED <<clock, pc, tickVars, runVars, calls, forgotten, aborted, budget>>

(* A definition that is taken back is no longer one that the tick listed.  *)
WriteErrs ==
  /\ ~Running
  /\ Spend("errors")
  /\ WriteFailed
  /\ seen' = [a \in Automation |-> IF state'.defs[a] = state.defs[a] THEN seen[a]
                                   ELSE [seen[a] EXCEPT !.revision = 0]]
  /\ UNCHANGED <<clock, pc, now, since, skipped, todo, cands, won, runVars, calls, forgotten, aborted>>

(* Time passes, or the clock is set. *)
ClockMoves(t) ==
  /\ ~Running
  /\ t # clock /\ t <= budget.until
  /\ clock' = t
  /\ UNCHANGED <<storeVars, pc, tickVars, runVars, calls, forgotten, aborted, budget>>

Restart ==
  /\ ~Running
  /\ Spend("restarts")
  /\ Reload(file)
  /\ pc' = "off"
  /\ todo' = {}
  /\ cands' = {}
  /\ won' = <<>>
  /\ due' = <<>>
  /\ aborted' = FALSE
  /\ UNCHANGED <<clock, now, since, seen, skipped, step, outcomes, calls, forgotten>>

SchedNext ==
  \/ Recover \/ RecoverEnds
  \/ TickStarts \/ (\E a \in Automation : LookAt(a) \/ Skip(a))
  \/ Claim \/ ClaimSaved
  \/ Stamp \/ StampSaved \/ TickEnds
  \/ ExecuteStarts \/ StartSaved
  \/ MarkStep \/ Call \/ (\E r \in budget.results : Return(r))
  \/ RecordSaved \/ Finish \/ FinishSaved
  \/ Abort \/ AbortEnds

ClientNext ==
  \E c \in Clients, a \in Automation :
    \/ \E enabled \in BOOLEAN, minute \in WallMinutes : Update(c, a, enabled, minute)
    \/ Remove(c, a)

Next ==
  \/ SchedNext
  \/ ClientNext
  \/ \E o \in Others : OtherSave(o)
  \/ \E o \in Owner : Persist(o)
  \/ WriteStarts \/ WriteEnds \/ WriteErrs
  \/ \E t \in Ticks : ClockMoves(t)
  \/ Restart

Spec == Init /\ [][Next]_vars

-----------------------------------------------------------------------------
Content == [defs : [Automation -> Definition], occ : [OccId -> Occurrence],
            order : Seq(OccId), history : Seq([id : OccId, status : Settled]),
            lastTick : {0} \cup Ticks]

TypeOK ==
  /\ StoreTypeOK(Content)
  /\ QueueWellFormed
  /\ clock \in Ticks /\ now \in Ticks /\ since \in {0} \cup Ticks
  /\ pc \in PCs
  /\ seen \in [Automation -> Definition \cup [live : BOOLEAN, revision : {0}, enabled : BOOLEAN, minute : WallMinutes]]
  /\ skipped \subseteq Automation /\ todo \subseteq Automation
  /\ cands \subseteq [at : UtcMinutes, id : OccId]
  /\ won \in Seq(OccId) /\ due \in Seq(OccId)
  /\ step \in 1..NumSteps + 1
  /\ outcomes \in [Steps -> Outcomes]
  /\ calls \in [OccId -> [Steps -> 0..2]]
  /\ forgotten \subseteq OccId
  /\ aborted \in BOOLEAN /\ \A kind \in Kinds : budget[kind] \in Nat

Remembered == OccId \ forgotten

(* docs/operations.md: a second tick or a repeated daylight-saving hour    *)
(* cannot run an occurrence twice -- nor a clock set back, a failed write  *)
(* or a restart at any point, as long as its record has not been pruned    *)
(* and no rollback has put back a stale snapshot (scheduler.claim).        *)
AtMostOnce ==
  ~overlapped => \A id \in Remembered, s \in Steps : calls[id][s] <= 1

(* A record never claims more than happened, nor an interrupted one less:  *)
(* what says applied was executed, succeeded means every action was        *)
(* applied, and after recover no started action is left unexplained.       *)
TruthfulRecords ==
  \A content \in {state, file}, id \in OccId :
    LET record == content.occ[id]
    IN /\ \A s \in Steps : record.outcomes[s] = "applied" => calls[id][s] > 0
       /\ record.status = "succeeded" => \A s \in Steps : record.outcomes[s] = "applied"
       /\ record.status = "interrupted" =>
            \A s \in Steps : record.outcomes[s] \notin {"pending", "running"}

(* An automation that was disabled is not run any more: a claim under its  *)
(* disabled revision exists only in a tick that listed the automation      *)
(* before the edit, or that listed it by an edit which was taken back      *)
(* (tick reads the definition again, but not enabled).                     *)
DisabledStaysQuiet ==
  \A id \in {won[i] : i \in DOMAIN won} \cup {due[i] : i \in DOMAIN due} :
    LET def == state.defs[id[1]]
    IN def.live /\ ~def.enabled /\ def.revision = id[2] =>
         seen[id[1]].revision < id[2]

(* dueMinuteCandidates: a tick that ends well leaves no minute since the   *)
(* last one unclaimed, for the automations it could execute and nobody     *)
(* edited meanwhile (nor was an edit taken back), as long as the two are   *)
(* within the grace period.                                                *)
NoMinuteSkipped ==
  [][pc = "stamping" /\ pc' = "run" /\ ~overlapped =>
       \A a \in Automation \ skipped, m \in UtcMinutes :
         LET def == state.defs[a]
             id  == <<a, def.revision, def.minute>>
         IN /\ def = seen[a] /\ def.live /\ def.enabled
            /\ since # 0 /\ since <= now /\ now - since <= Grace
            /\ MinuteOf(since) <= m /\ m <= MinuteOf(now)
            /\ LocalTime[m] = def.minute
            => Known(id) \/ id \in forgotten]_vars

(* A claimed occurrence does not stay claimed or running: once the tick has *)
(* ended it was executed to its end, and after a restart recover has        *)
(* interrupted it (scheduler.js:88-101).  Excused are ticks that were        *)
(* aborted by a failed write, until the next restart.                       *)
NoneLeftOpen ==
  pc = "idle" /\ ~aborted /\ ~overlapped => \A id \in OccId : state.occ[id].status \notin Unsettled
=============================================================================
