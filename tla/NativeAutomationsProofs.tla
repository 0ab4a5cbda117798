----------------------- MODULE NativeAutomationsProofs ------------------------
EXTENDS NativeAutomations, SequenceTheorems, TLAPS

(***************************************************************************)
(* What NativeAutomations promises of occurrences, for every number of     *)
(* automations, actions and clients, every table of local times and every  *)
(* scenario of edits, failed writes and restarts.                          *)
(*                                                                         *)
(* The argument goes through the copies the store keeps of its content: in *)
(* memory, in the file, in the image being written, in the snapshots that  *)
(* a failed write may put back.  Truth holds of all of them; Marks says    *)
(* which of them must have a record of what was claimed or called.         *)
(*                                                                         *)
(* What a tick promises goes through Later, what memory can still be       *)
(* while a save of the scheduler has not failed: Tended says which records *)
(* are open in it, Covered which minutes have a record in it.  Follows     *)
(* relates the definitions to those the tick listed.                       *)
(***************************************************************************)

(***************************************************************************)
(* The content of the store, and what the scheduler's edits do to it.      *)
(***************************************************************************)
Parts == {"defs", "occ", "order", "history", "lastTick"}

Shaped(c) ==
  /\ DOMAIN c = Parts
  /\ c.defs \in [Automation -> Definition]
  /\ c.occ \in [OccId -> Occurrence]

\* The occurrences a content has a record of.
Knows(c) == {id \in OccId : c.occ[id].status # "absent"}

LEMMA InitialShaped ==
  ASSUME NEW defs \in [Automation -> Definition]
  PROVE  /\ Shaped(InitialContent(defs))
         /\ \A id \in OccId : InitialContent(defs).occ[id] = Absent
BY DEF Shaped, Parts, InitialContent, Absent, NoOutcomes, Occurrence, Statuses, Outcomes

LEMMA RecordsShaped ==
  ASSUME NEW c, Shaped(c), NEW occ \in [OccId -> Occurrence]
  PROVE  Shaped([c EXCEPT !.occ = occ]) /\ [c EXCEPT !.occ = occ].occ = occ
BY DEF Shaped, Parts

LEMMA OrderShaped ==
  ASSUME NEW c, Shaped(c), NEW occ \in [OccId -> Occurrence], NEW x
  PROVE  Shaped([c EXCEPT !.occ = occ, !.order = x]) /\ [c EXCEPT !.occ = occ, !.order = x].occ = occ
BY DEF Shaped, Parts

LEMMA RowsShaped ==
  ASSUME NEW c, Shaped(c), NEW occ \in [OccId -> Occurrence], NEW x
  PROVE  Shaped([c EXCEPT !.occ = occ, !.history = x]) /\ [c EXCEPT !.occ = occ, !.history = x].occ = occ
BY DEF Shaped, Parts

LEMMA HistoryShaped ==
  ASSUME NEW c, Shaped(c), NEW x
  PROVE  /\ Shaped([c EXCEPT !.history = x]) /\ [c EXCEPT !.history = x].occ = c.occ
         /\ Shaped([c EXCEPT !.lastTick = x]) /\ [c EXCEPT !.lastTick = x].occ = c.occ
BY DEF Shaped, Parts

LEMMA DefsShaped ==
  ASSUME NEW c, Shaped(c), NEW a \in Automation, NEW def \in Definition
  PROVE  Shaped([c EXCEPT !.defs[a] = def]) /\ [c EXCEPT !.defs[a] = def].occ = c.occ
BY DEF Shaped, Parts

LEMMA CompletedIs ==
  ASSUME NEW id, NEW table
  PROVE  \E h : Completed(id, table) = [Marked(id, FinalStatus(table), table) EXCEPT !.history = h]
BY DEF Completed

\* What a record says is true of the calls that were made, n.
Truthful(r, n) ==
  /\ \A s \in Steps : r.outcomes[s] = "applied" => n[s] > 0
  /\ r.status = "succeeded" => \A s \in Steps : r.outcomes[s] = "applied"
  /\ r.status = "interrupted" => \A s \in Steps : r.outcomes[s] \notin {"pending", "running"}

TruthIn(c, n) == \A id \in OccId : Truthful(c.occ[id], n[id])

LEMMA TruthGrows ==
  ASSUME NEW c, NEW n, NEW m, \A id \in OccId, s \in Steps : n[id][s] > 0 => m[id][s] > 0, TruthIn(c, n)
  PROVE  TruthIn(c, m)
BY DEF TruthIn, Truthful

\* The edits: markOccurrence, the end of executeOccurrence, recover, lastTickAt and claim.
MarkedTo(m, id, status, table) ==
  \A i \in OccId : m.occ[i] = state.occ[i] \/ (i = id /\ m.occ[i] = [status |-> status, outcomes |-> table])

LEMMA MarkedIs ==
  ASSUME NEW id \in OccId, NEW status \in Statuses, NEW table \in [Steps -> Outcomes], Shaped(state)
  PROVE  /\ Shaped(Marked(id, status, table))
         /\ status # "absent" => Knows(Marked(id, status, table)) = Knows(state)
         /\ MarkedTo(Marked(id, status, table), id, status, table)
<1>. DEFINE r == [status |-> status, outcomes |-> table]
            occ == [state.occ EXCEPT ![id] = r]
<1>1. r \in Occurrence /\ occ \in [OccId -> Occurrence]
  BY DEF Occurrence, Shaped
<1>2. Marked(id, status, table) = [state EXCEPT !.occ = occ] \/ Marked(id, status, table) = state
  BY DEF Marked
<1>3. Known(id) \/ Marked(id, status, table) = state
  BY DEF Marked
<1>. HIDE DEF occ
<1>4. Shaped([state EXCEPT !.occ = occ]) /\ [state EXCEPT !.occ = occ].occ = occ
  BY <1>1, RecordsShaped
<1>5. \A i \in OccId : occ[i] = IF i = id THEN r ELSE state.occ[i]
  BY DEF occ, Shaped
<1>6. CASE Marked(id, status, table) = state
  BY <1>6 DEF MarkedTo
<1>7. CASE Marked(id, status, table) = [state EXCEPT !.occ = occ] /\ Known(id)
  <2>1. Marked(id, status, table).occ = occ /\ Shaped(Marked(id, status, table))
    BY <1>4, <1>7
  <2>2. status # "absent" => Knows(Marked(id, status, table)) = Knows(state)
    BY <1>5, <1>7, <2>1 DEF Knows, Known
  <2>. QED  BY <1>5, <2>1, <2>2 DEF MarkedTo
<1>. QED  BY <1>2, <1>3, <1>6, <1>7

LEMMA CompletedOcc ==
  ASSUME NEW id \in OccId, NEW table \in [Steps -> Outcomes], Shaped(state)
  PROVE  /\ Shaped(Completed(id, table))
         /\ Completed(id, table).occ = Marked(id, FinalStatus(table), table).occ
<1>1. FinalStatus(table) \in Statuses
  BY DEF FinalStatus, Statuses, Settled
<1>2. Shaped(Marked(id, FinalStatus(table), table))
  BY <1>1, MarkedIs
<1>. DEFINE m == Marked(id, FinalStatus(table), table)
<1>3. PICK h : Completed(id, table) = [m EXCEPT !.history = h]
  BY CompletedIs
<1>. HIDE DEF m
<1>4. Shaped([m EXCEPT !.history = h]) /\ [m EXCEPT !.history = h].occ = m.occ
  BY <1>2, HistoryShaped DEF m
<1>. QED  BY <1>3, <1>4 DEF m

LEMMA RecoveredIs ==
  ASSUME Shaped(state)
  PROVE  /\ Shaped(Recovered) /\ Knows(Recovered) = Knows(state)
         /\ \A i \in OccId : Recovered.occ[i] = IF state.occ[i].status \in Unsettled
                                               THEN Interrupted(state.occ[i]) ELSE state.occ[i]
<1>. DEFINE occ == [id \in OccId |-> IF state.occ[id].status \in Unsettled THEN Interrupted(state.occ[id]) ELSE state.occ[id]]
<1>1. \A r \in Occurrence : Interrupted(r) \in Occurrence /\ Interrupted(r).status = "interrupted"
  BY DEF Occurrence, Interrupted, Statuses, Settled, Outcomes
<1>2. \A id \in OccId : state.occ[id] \in Occurrence
  BY DEF Shaped
<1>3. occ \in [OccId -> Occurrence]
  BY <1>1, <1>2
<1>4. PICK h : Recovered = [state EXCEPT !.occ = occ, !.history = h]
  BY DEF Recovered
<1>5. \A id \in OccId : occ[id].status # "absent" <=> state.occ[id].status # "absent"
  BY <1>1, <1>2 DEF Unsettled
<1>6. \A i \in OccId : occ[i] = IF state.occ[i].status \in Unsettled THEN Interrupted(state.occ[i]) ELSE state.occ[i]
  OBVIOUS
<1>. HIDE DEF occ
<1>7. Shaped(Recovered) /\ Recovered.occ = occ
  BY <1>3, <1>4, RowsShaped
<1>. QED  BY <1>5, <1>6, <1>7 DEF Knows

LEMMA StampedIs ==
  ASSUME Shaped(state)
  PROVE  Shaped(Stamped) /\ Stamped.occ = state.occ
BY HistoryShaped DEF Stamped

LEMMA ClaimedIs ==
  ASSUME NEW id \in OccId, Shaped(state)
  PROVE  /\ Shaped(Claimed(id))
         /\ \A i \in OccId : Claimed(id).occ[i] = IF i = id THEN [status |-> "claimed", outcomes |-> NoOutcomes]
                                               ELSE IF InSeq(i, KeptOrder(id)) THEN state.occ[i] ELSE Absent
<1>. DEFINE occ == [i \in OccId |-> IF i = id THEN [status |-> "claimed", outcomes |-> NoOutcomes]
                                   ELSE IF InSeq(i, KeptOrder(id)) THEN state.occ[i] ELSE Absent]
<1>1. occ \in [OccId -> Occurrence]
  BY DEF Shaped, Occurrence, Absent, NoOutcomes, Statuses, Unsettled, Outcomes
<1>2. Claimed(id) = [state EXCEPT !.occ = occ, !.order = KeptOrder(id)]
  BY DEF Claimed
<1>3. \A i \in OccId : occ[i] = IF i = id THEN [status |-> "claimed", outcomes |-> NoOutcomes]
                             ELSE IF InSeq(i, KeptOrder(id)) THEN state.occ[i] ELSE Absent
  OBVIOUS
<1>. HIDE DEF occ
<1>4. PICK kept : Claimed(id) = [state EXCEPT !.occ = occ, !.order = kept]
  BY <1>2
<1>. DEFINE after == [state EXCEPT !.occ = occ, !.order = kept]
<1>5. Shaped(after) /\ after.occ = occ
  BY <1>1, OrderShaped
<1>6. Claimed(id) = after
  BY <1>4
<1>. HIDE DEF after
<1>. QED  BY <1>3, <1>5, <1>6

(***************************************************************************)
(* The copies of the content: what may still become the state or the file. *)
(***************************************************************************)
Copy == {state, file, image} \cup {before[o] : o \in Owner}

LEMMA CommitCopies ==
  ASSUME NEW o \in Owner, NEW c, Commit(o, c), DOMAIN before = Owner
  PROVE  Copy' \subseteq Copy \cup {c} /\ DOMAIN before' = Owner /\ state' = c
BY DEF Commit, Copy

LEMMA SettleCopies ==
  ASSUME NEW ok \in BOOLEAN, Settle(ok, image)
  PROVE  Copy' \subseteq Copy /\ before' = before
BY GuardedAssumption DEF Settle, Copy

LEMMA ChainCopies ==
  ASSUME (\E o \in Owner : ChainWrite(o)) \/ Serialise \/ Reload(file) \/ UNCHANGED storeVars
  PROVE  Copy' \subseteq Copy /\ before' = before
BY DEF ChainWrite, Serialise, Reload, storeVars, Copy

(***************************************************************************)
(* The types, and where the executor is in what is due.                    *)
(***************************************************************************)
StoreTypes == (\A c \in Copy : Shaped(c)) /\ DOMAIN before = Owner
TickTypes == todo \subseteq Automation /\ (\A c \in cands : c.id \in OccId) /\ (won = <<>> \/ \E id \in OccId : won = <<id>>)
RunTypes ==
  /\ due \in Seq(OccId) /\ outcomes \in [Steps -> Outcomes] /\ calls \in [OccId -> [Steps -> 0..2]]
  /\ step \in 1..NumSteps + 1
  /\ pc \in {"marking", "calling", "recording"} => step \in Steps
  /\ pc \in {"starting", "step", "marking", "calling", "recording", "finishing"} => due # <<>>
BudgetTypes == budget \in [until : Ticks, results : SUBSET {"applied", "failed", "uncertain"},
                           edits : Nat, others : Nat, errors : Nat, restarts : Nat]
Typed == StoreTypes /\ TickTypes /\ RunTypes /\ BudgetTypes

\* The edits of the store by the parts of the hub.
SchedEdits ==
  \/ Recover \/ Claim \/ Stamp \/ Abort \/ ExecuteStarts \/ MarkStep \/ Finish
  \/ \E r \in budget.results : Return(r)
OtherEdits == ClientNext \/ \E o \in Others : OtherSave(o)
WriteSteps ==
  \/ \E o \in Owner : Persist(o)
  \/ WriteStarts \/ WriteEnds \/ WriteErrs \/ Restart
Quiet ==
  \/ RecoverEnds \/ TickStarts \/ (\E a \in Automation : LookAt(a) \/ Skip(a)) \/ ClaimSaved \/ StampSaved \/ TickEnds
  \/ StartSaved \/ Call \/ RecordSaved \/ FinishSaved \/ AbortEnds \/ (\E t \in Ticks : ClockMoves(t)) \/ UNCHANGED vars

LEMMA StepKinds == [Next]_vars => SchedEdits \/ OtherEdits \/ WriteSteps \/ Quiet
BY DEF Next, SchedNext, SchedEdits, OtherEdits, WriteSteps, Quiet

LEMMA Sequences == <<>> \in Seq(OccId) /\ \A id \in OccId : <<id>> \in Seq(OccId)
BY EmptySeq

LEMMA Owners == Sched \in Owner /\ Clients \subseteq Owner /\ Others \subseteq Owner /\ Sched \notin Clients \cup Others
                /\ Sched \in Awaited /\ Sched \in Guarded
BY OwnersAssumption, GuardedAssumption

\* What is due: the first of it, and what is left.
LEMMA DueHead ==
  ASSUME RunTypes, due # <<>>
  PROVE  Head(due) \in OccId /\ Head(due) = due[1] /\ Tail(due) \in Seq(OccId)
BY HeadTailProperties DEF RunTypes

LEMMA OtherEditsAre ==
  ASSUME Typed, OtherEdits
  PROVE  \E o \in Clients \cup Others : \E c : Commit(o, c) /\ Shaped(c) /\ c.occ = state.occ
<1>0. Shaped(state)
  BY DEF Typed, StoreTypes, Copy
<1>1. ASSUME NEW c \in Clients, NEW a \in Automation, NEW enabled \in BOOLEAN, NEW minute \in WallMinutes, Update(c, a, enabled, minute)
      PROVE  \E o \in Clients \cup Others : \E x : Commit(o, x) /\ Shaped(x) /\ x.occ = state.occ
  <2>. DEFINE def == [live |-> TRUE, revision |-> state.defs[a].revision + 1, enabled |-> enabled, minute |-> minute]
  <2>1. state.defs[a].revision + 1 \in Revisions
    BY <1>0, <1>1, BoundsAssumption DEF Update, Shaped, Definition, Revisions
  <2>2. def \in Definition
    BY <2>1 DEF Definition
  <2>3. Commit(c, [state EXCEPT !.defs[a] = def])
    BY <1>1 DEF Update
  <2>. HIDE DEF def
  <2>. DEFINE x == [state EXCEPT !.defs[a] = def]
  <2>4. Shaped(x) /\ x.occ = state.occ
    BY <1>0, <2>2, DefsShaped
  <2>5. Commit(c, x)
    BY <2>3
  <2>. HIDE DEF x
  <2>. QED  BY <2>4, <2>5
<1>2. ASSUME NEW c \in Clients, NEW a \in Automation, Remove(c, a)
      PROVE  \E o \in Clients \cup Others : \E x : Commit(o, x) /\ Shaped(x) /\ x.occ = state.occ
  <2>. DEFINE def == [state.defs[a] EXCEPT !.live = FALSE]
  <2>2. def \in Definition
    BY <1>0 DEF Definition, Shaped
  <2>3. Commit(c, [state EXCEPT !.defs[a] = def])
    BY <1>2 DEF Remove
  <2>. HIDE DEF def
  <2>. DEFINE x == [state EXCEPT !.defs[a] = def]
  <2>4. Shaped(x) /\ x.occ = state.occ
    BY <1>0, <2>2, DefsShaped
  <2>5. Commit(c, x)
    BY <2>3
  <2>. HIDE DEF x
  <2>. QED  BY <2>4, <2>5
<1>3. ASSUME NEW o \in Others, OtherSave(o)
      PROVE  \E p \in Clients \cup Others : \E x : Commit(p, x) /\ Shaped(x) /\ x.occ = state.occ
  BY <1>0, <1>3 DEF OtherSave
<1>. QED  BY <1>1, <1>2, <1>3 DEF OtherEdits, ClientNext

\* What an edit of the scheduler leaves in a record: it was there, or it is of the
\* occurrence it executes, claims or interrupts.
SchedRecord(i, r) ==
  \/ r = state.occ[i]
  \/ r = Absent
  \/ r = [status |-> "claimed", outcomes |-> NoOutcomes]
  \/ r = Interrupted(state.occ[i])
  \/ /\ pc \in {"run", "step", "calling"} /\ due # <<>> /\ i = Head(due)
     /\ r.outcomes = outcomes' /\ r.status = (IF pc = "step" /\ step > NumSteps THEN FinalStatus(outcomes') ELSE "running")
  \/ /\ pc = "step" /\ step \in Steps /\ i = Head(due)
     /\ r.outcomes = [outcomes EXCEPT ![step] = "running"] /\ r.status = "running"

LEMMA SchedEditsAre ==
  ASSUME Typed, SchedEdits
  PROVE  \E c : /\ Commit(Sched, c) /\ Shaped(c) /\ (~Claim => Knows(c) = Knows(state))
               /\ \A i \in OccId : SchedRecord(i, c.occ[i])
<1>0. Shaped(state) /\ outcomes \in [Steps -> Outcomes]
  BY DEF Typed, StoreTypes, RunTypes, Copy
<1>1. CASE Recover
  BY <1>0, <1>1, RecoveredIs DEF Recover, SchedCommit, SchedRecord
<1>2. CASE Claim
  <2>1. PICK c \in cands : Commit(Sched, state) \/ Commit(Sched, Claimed(c.id))
    BY <1>2 DEF Claim, SchedCommit
  <2>2. c.id \in OccId
    BY <2>1 DEF Typed, TickTypes
  <2>3. \A i \in OccId : SchedRecord(i, state.occ[i])
    BY DEF SchedRecord
  <2>4. \A i \in OccId : SchedRecord(i, Claimed(c.id).occ[i])
    BY <1>0, <2>2, ClaimedIs DEF SchedRecord
  <2>. QED  BY <1>0, <1>2, <2>1, <2>2, <2>3, <2>4, ClaimedIs
<1>3. CASE Stamp \/ Abort
  BY <1>0, <1>3, StampedIs DEF Stamp, Abort, SchedCommit, SchedRecord, Knows
<1>4. CASE ExecuteStarts
  <2>1. due # <<>> /\ pc = "run" /\ outcomes' = NoOutcomes /\ Commit(Sched, Marked(Head(due), "running", NoOutcomes))
    BY <1>4 DEF ExecuteStarts, SchedCommit
  <2>2. Head(due) \in OccId /\ "running" \in Statuses /\ NoOutcomes \in [Steps -> Outcomes]
    BY <2>1, DueHead DEF Typed, Statuses, Unsettled, NoOutcomes, Outcomes
  <2>. DEFINE x == Marked(Head(due), "running", NoOutcomes)
  <2>3. Shaped(x) /\ MarkedTo(x, Head(due), "running", NoOutcomes) /\ Knows(x) = Knows(state)
    BY <1>0, <2>2, MarkedIs
  <2>4. Commit(Sched, x)
    BY <2>1
  <2>. HIDE DEF x
  <2>5. \A i \in OccId : SchedRecord(i, x.occ[i])
    BY <2>1, <2>3 DEF SchedRecord, MarkedTo
  <2>. QED  BY <2>3, <2>4, <2>5
<1>5. CASE MarkStep
  <2>. DEFINE table == [outcomes EXCEPT ![step] = "running"]
              x == Marked(Head(due), "running", table)
  <2>1. due # <<>> /\ pc = "step" /\ step \in Steps /\ Commit(Sched, x)
    BY <1>5 DEF MarkStep, SchedCommit, Typed, RunTypes, Steps
  <2>2. Head(due) \in OccId /\ "running" \in Statuses /\ table \in [Steps -> Outcomes]
    BY <1>0, <2>1, DueHead DEF Typed, Statuses, Unsettled, Outcomes
  <2>. HIDE DEF table
  <2>3. Shaped(x) /\ MarkedTo(x, Head(due), "running", table) /\ Knows(x) = Knows(state)
    BY <1>0, <2>2, MarkedIs
  <2>. HIDE DEF x
  <2>5. \A i \in OccId : SchedRecord(i, x.occ[i])
    <3>1. table = [outcomes EXCEPT ![step] = "running"]
      BY DEF table
    <3>. TAKE i \in OccId
    <3>2. CASE x.occ[i] = state.occ[i]
      BY <3>2 DEF SchedRecord
    <3>3. CASE i = Head(due) /\ x.occ[i] = [status |-> "running", outcomes |-> table]
      <4>1. x.occ[i].outcomes = [outcomes EXCEPT ![step] = "running"] /\ x.occ[i].status = "running"
        BY <3>1, <3>3
      <4>. QED  BY <2>1, <3>3, <4>1 DEF SchedRecord
    <3>. QED  BY <2>3, <3>2, <3>3 DEF MarkedTo
  <2>. QED  BY <2>1, <2>3, <2>5
<1>6. ASSUME NEW r \in budget.results, Return(r)
      PROVE  \E c : Commit(Sched, c) /\ Shaped(c) /\ Knows(c) = Knows(state) /\ \A i \in OccId : SchedRecord(i, c.occ[i])
  <2>. DEFINE table == [outcomes EXCEPT ![step] = r]
              x == Marked(Head(due), "running", table)
  <2>1. due # <<>> /\ pc = "calling" /\ step \in Steps /\ Commit(Sched, x) /\ outcomes' = table
    BY <1>6 DEF Return, SchedCommit, Typed, RunTypes, Steps
  <2>2. Head(due) \in OccId /\ "running" \in Statuses /\ table \in [Steps -> Outcomes]
    BY <1>0, <2>1, DueHead DEF Typed, Statuses, Unsettled, Outcomes, BudgetTypes
  <2>. HIDE DEF table
  <2>3. Shaped(x) /\ MarkedTo(x, Head(due), "running", table) /\ Knows(x) = Knows(state)
    BY <1>0, <2>2, MarkedIs
  <2>. HIDE DEF x
  <2>5. \A i \in OccId : SchedRecord(i, x.occ[i])
    BY <2>1, <2>3 DEF SchedRecord, MarkedTo
  <2>. QED  BY <2>1, <2>3, <2>5
<1>7. CASE Finish
  <2>. DEFINE x == Completed(Head(due), outcomes)
  <2>1. due # <<>> /\ pc = "step" /\ step > NumSteps /\ Commit(Sched, x) /\ outcomes' = outcomes
    BY <1>7 DEF Finish, SchedCommit, Typed, RunTypes, runVars
  <2>2. Head(due) \in OccId /\ FinalStatus(outcomes) \in Statuses \ {"absent"}
    BY <1>0, <2>1, DueHead DEF Typed, Statuses, Settled, FinalStatus
  <2>3. Shaped(x) /\ x.occ = Marked(Head(due), FinalStatus(outcomes), outcomes).occ
    BY <1>0, <2>2, CompletedOcc
  <2>. DEFINE m == Marked(Head(due), FinalStatus(outcomes), outcomes)
  <2>4. x.occ = m.occ /\ MarkedTo(m, Head(due), FinalStatus(outcomes), outcomes) /\ Knows(m) = Knows(state)
    BY <1>0, <2>2, <2>3, MarkedIs
  <2>. HIDE DEF x, m
  <2>6. Knows(x) = Knows(state)
    BY <2>4 DEF Knows
  <2>5. \A i \in OccId : SchedRecord(i, x.occ[i])
    BY <2>1, <2>4 DEF SchedRecord, MarkedTo
  <2>. QED  BY <2>1, <2>3, <2>5, <2>6
<1>. QED  BY <1>1, <1>2, <1>3, <1>4, <1>5, <1>6, <1>7 DEF SchedEdits

LEMMA WriteCopies ==
  ASSUME WriteSteps \/ Quiet
  PROVE  Copy' \subseteq Copy /\ before' = before
<1>1. CASE WriteEnds
  BY <1>1, SettleCopies DEF WriteEnds, WriteDone
<1>2. CASE WriteErrs
  BY <1>2, SettleCopies DEF WriteErrs, WriteFailed
<1>3. CASE Quiet
  BY <1>3, ChainCopies DEF Quiet, RecoverEnds, TickStarts, LookAt, Skip, ClaimSaved, StampSaved, TickEnds, StartSaved, Call, RecordSaved,
                           FinishSaved, AbortEnds, ClockMoves, vars
<1>4. CASE (\E o \in Owner : Persist(o)) \/ WriteStarts \/ Restart
  BY <1>4, ChainCopies DEF Persist, WriteStarts, Restart
<1>. QED  BY <1>1, <1>2, <1>3, <1>4 DEF WriteSteps

LEMMA StoreTyped == ASSUME Typed, [Next]_vars PROVE StoreTypes'
<1>0. (\A c \in Copy : Shaped(c)) /\ DOMAIN before = Owner
  BY DEF Typed, StoreTypes
<1>1. CASE WriteSteps \/ Quiet
  BY <1>0, <1>1, WriteCopies DEF StoreTypes
<1>2. CASE OtherEdits
  BY <1>0, <1>2, OtherEditsAre, CommitCopies, Owners DEF StoreTypes
<1>3. CASE SchedEdits
  BY <1>0, <1>3, SchedEditsAre, CommitCopies, Owners DEF StoreTypes
<1>. QED  BY <1>1, <1>2, <1>3, StepKinds

LEMMA ScheduledTypes ==
  ASSUME NEW a \in Automation, NEW def \in Definition, NEW previous, NEW time
  PROVE  \A c \in Scheduled(a, def, previous, time) : c.id \in OccId
BY DEF Scheduled, OccId, Definition

LEMMA TickTyped == ASSUME Typed, [Next]_vars PROVE TickTypes'
<1>. USE DEF TickTypes
<1>0. TickTypes /\ Shaped(state)
  BY DEF Typed, StoreTypes, Copy
<1>1. CASE WriteSteps
  BY <1>0, <1>1, Sequences DEF WriteSteps, Persist, WriteStarts, WriteEnds, WriteErrs, Restart, tickVars
<1>2. CASE OtherEdits
  BY <1>0, <1>2 DEF OtherEdits, ClientNext, Update, Remove, OtherSave, tickVars
<1>3. CASE SchedEdits
  <2>1. CASE Claim
    <3>1. PICK c \in cands : cands' = cands \ {c} /\ (won' = <<>> \/ won' = <<c.id>>)
      BY <2>1 DEF Claim
    <3>2. c.id \in OccId /\ todo' = todo
      BY <1>0, <2>1, <3>1 DEF Claim
    <3>. QED  BY <1>0, <3>1, <3>2
  <2>2. CASE ~Claim
    BY <1>0, <1>3, <2>2 DEF SchedEdits, Recover, Stamp, Abort, ExecuteStarts, MarkStep, Finish, Return, tickVars
  <2>. QED  BY <2>1, <2>2
<1>4. CASE Quiet
  <2>1. ASSUME NEW a \in Automation, LookAt(a)  PROVE TickTypes'
    <3>1. todo' = todo \ {a} /\ won' = won /\ cands' = Scheduled(a, state.defs[a], since, now)
      BY <2>1 DEF LookAt
    <3>2. state.defs[a] \in Definition
      BY <1>0 DEF Shaped
    <3>3. \A c \in cands' : c.id \in OccId
      BY <3>1, <3>2, ScheduledTypes
    <3>. QED  BY <1>0, <3>1, <3>3
  <2>2. CASE ~\E a \in Automation : LookAt(a)
    BY <1>0, <1>4, <2>2, Sequences DEF Quiet, RecoverEnds, TickStarts, Skip, ClaimSaved, StampSaved, TickEnds, StartSaved, Call, RecordSaved,
                            FinishSaved, AbortEnds, ClockMoves, vars, tickVars
  <2>. QED  BY <2>1, <2>2
<1>. QED  BY <1>1, <1>2, <1>3, <1>4, StepKinds

LEMMA RunTyped == ASSUME Typed, [Next]_vars PROVE RunTypes'
<1>. USE DEF RunTypes
<1>0. RunTypes /\ won \in Seq(OccId)
  BY Sequences DEF Typed, TickTypes
<1>1. CASE WriteSteps
  BY <1>0, <1>1, Sequences DEF WriteSteps, Persist, WriteStarts, WriteEnds, WriteErrs, Restart, runVars
<1>2. CASE OtherEdits
  BY <1>0, <1>2 DEF OtherEdits, ClientNext, Update, Remove, OtherSave, runVars
<1>3. CASE Recover \/ Claim \/ Stamp \/ Abort \/ MarkStep \/ Finish
  BY <1>0, <1>3, BoundsAssumption DEF Recover, Claim, Stamp, Abort, MarkStep, Finish, SchedCommit, runVars, Steps
<1>4. CASE ExecuteStarts
  BY <1>0, <1>4, BoundsAssumption DEF ExecuteStarts, SchedCommit, NoOutcomes, Outcomes
<1>5. ASSUME NEW r \in budget.results, Return(r)  PROVE RunTypes'
  <2>1. r \in Outcomes
    BY DEF Typed, BudgetTypes, Outcomes
  <2>2. outcomes' \in [Steps -> Outcomes]
    BY <1>0, <1>5, <2>1 DEF Return
  <2>. QED  BY <1>0, <1>5, <2>2 DEF Return, SchedCommit
<1>6. CASE Call
  <2>1. \A f \in [Steps -> 0..2] : \A s \in Steps : [f EXCEPT ![s] = IF f[s] < 2 THEN f[s] + 1 ELSE f[s]] \in [Steps -> 0..2]
    OBVIOUS
  <2>2. step \in Steps /\ Head(due) \in OccId
    BY <1>0, <1>6, DueHead DEF Call, ResumeFrom
  <2>. DEFINE f == calls[Head(due)]
              g == [f EXCEPT ![step] = IF f[step] < 2 THEN f[step] + 1 ELSE f[step]]
  <2>3. g \in [Steps -> 0..2]
    BY <1>0, <2>1, <2>2
  <2>4. calls' = [calls EXCEPT ![Head(due)] = g]
    BY <1>6 DEF Call
  <2>. HIDE DEF g
  <2>5. calls' \in [OccId -> [Steps -> 0..2]]
    BY <1>0, <2>3, <2>4
  <2>. QED  BY <1>0, <1>6, <2>2, <2>5 DEF Call, ResumeFrom, tickVars, runVars
<1>7. CASE ClaimSaved
  <2>1. due' \in Seq(OccId)
    BY <1>0, <1>7 DEF ClaimSaved
  <2>. QED  BY <1>0, <1>7, <2>1 DEF ClaimSaved
<1>8. CASE RecordSaved
  <2>1. step' \in 1..NumSteps + 1
    BY <1>0, <1>8, BoundsAssumption DEF RecordSaved, ResumeFrom, Steps
  <2>. QED  BY <1>0, <1>8, <2>1 DEF RecordSaved, ResumeFrom
<1>9. CASE FinishSaved
  <2>1. due' \in Seq(OccId)
    BY <1>0, <1>9, DueHead DEF FinishSaved, ResumeFrom
  <2>. QED  BY <1>0, <1>9, <2>1, BoundsAssumption DEF FinishSaved, ResumeFrom
<1>10. CASE RecoverEnds \/ TickStarts \/ (\E a \in Automation : LookAt(a) \/ Skip(a)) \/ StampSaved \/ TickEnds
            \/ StartSaved \/ AbortEnds \/ (\E t \in Ticks : ClockMoves(t)) \/ UNCHANGED vars
  BY <1>0, <1>10, Sequences DEF RecoverEnds, TickStarts, LookAt, Skip, StampSaved, TickEnds, StartSaved, AbortEnds, ClockMoves, ResumeFrom, vars, runVars
<1>. QED  BY <1>1, <1>2, <1>3, <1>4, <1>5, <1>6, <1>7, <1>8, <1>9, <1>10, StepKinds DEF SchedEdits, Quiet

LEMMA BudgetTyped == ASSUME Typed, [Next]_vars PROVE BudgetTypes'
<1>. USE DEF BudgetTypes
<1>0. BudgetTypes
  BY DEF Typed
<1>1. ASSUME NEW kind \in Kinds, Spend(kind)  PROVE BudgetTypes'
  BY <1>0, <1>1 DEF Spend, Kinds
<1>2. budget' = budget \/ \E kind \in Kinds : Spend(kind)
  BY DEF Next, SchedNext, ClientNext, Recover, RecoverEnds, TickStarts, LookAt, Skip, Claim, ClaimSaved, Stamp, StampSaved, TickEnds,
         ExecuteStarts, StartSaved, MarkStep, Call, Return, RecordSaved, Finish, FinishSaved, Abort, AbortEnds, Update, Remove,
         OtherSave, Persist, WriteStarts, WriteEnds, WriteErrs, ClockMoves, Restart, Kinds, vars
<1>. QED  BY <1>0, <1>1, <1>2

LEMMA InitTyped == Init => Typed
<1>. SUFFICES ASSUME Init PROVE Typed
  OBVIOUS
<1>1. PICK defs \in [Automation -> [live : {TRUE}, revision : {1}, enabled : BOOLEAN, minute : WallMinutes]] : StoreInit(InitialContent(defs))
  BY DEF Init
<1>2. defs \in [Automation -> Definition]
  <2>1. 1 \in Revisions
    BY BoundsAssumption DEF Revisions
  <2>2. \A def \in [live : {TRUE}, revision : {1}, enabled : BOOLEAN, minute : WallMinutes] : def \in Definition
    BY <2>1 DEF Definition
  <2>. QED  BY <2>2
<1>3. StoreTypes
  BY <1>1, <1>2, InitialShaped DEF StoreInit, StoreTypes, Copy
<1>4. TickTypes /\ BudgetTypes
  BY BoundsAssumption DEF Init, TickTypes, BudgetTypes
<1>5. RunTypes
  BY BoundsAssumption DEF Init, RunTypes, NoOutcomes, Outcomes
<1>. QED  BY <1>3, <1>4, <1>5 DEF Typed

LEMMA TypedAlways == Spec => []Typed
<1>1. Typed /\ [Next]_vars => Typed'
  BY StoreTyped, TickTyped, RunTyped, BudgetTyped DEF Typed
<1>. QED  BY InitTyped, <1>1, PTL DEF Spec

(***************************************************************************)
(* What the records say.                                                   *)
(***************************************************************************)
Executing == pc \in {"starting", "step", "marking", "calling", "recording", "finishing"}

\* Every copy is true, and so is the executor's own table of outcomes.
Table ==
  /\ Executing => \A s \in Steps : outcomes[s] = "applied" => calls[Head(due)][s] > 0
  /\ pc = "calling" => calls[Head(due)][step] > 0
Truth == (\A c \in Copy : TruthIn(c, calls)) /\ Table

LEMMA CallIs ==
  ASSUME Typed, Call
  PROVE  /\ due # <<>> /\ Head(due) \in OccId /\ step \in Steps /\ UNCHANGED <<storeVars, due, step, outcomes, forgotten>> /\ pc' = "calling"
         /\ calls'[Head(due)][step] = IF calls[Head(due)][step] < 2 THEN calls[Head(due)][step] + 1 ELSE calls[Head(due)][step]
         /\ \A id \in OccId, s \in Steps : id # Head(due) \/ s # step => calls'[id][s] = calls[id][s]
<1>1. due # <<>> /\ step \in Steps /\ UNCHANGED <<storeVars, due, step, outcomes, forgotten>> /\ pc' = "calling"
  BY DEF Call, ResumeFrom, Typed, RunTypes, runVars
<1>2. Head(due) \in OccId
  BY <1>1, DueHead DEF Typed
<1>3. calls' = [calls EXCEPT ![Head(due)] = [calls[Head(due)] EXCEPT ![step] = IF calls[Head(due)][step] < 2 THEN calls[Head(due)][step] + 1 ELSE calls[Head(due)][step]]]
  BY DEF Call
<1>4. calls \in [OccId -> [Steps -> 0..2]]
  BY DEF Typed, RunTypes
<1>. QED  BY <1>1, <1>2, <1>3, <1>4

LEMMA CallsSame == [Next]_vars /\ ~Call => calls' = calls
BY DEF Next, SchedNext, ClientNext, Recover, RecoverEnds, TickStarts, LookAt, Skip, Claim, ClaimSaved, Stamp, StampSaved, TickEnds,
       ExecuteStarts, StartSaved, MarkStep, Return, RecordSaved, Finish, FinishSaved, Abort, AbortEnds, Update, Remove,
       OtherSave, Persist, WriteStarts, WriteEnds, WriteErrs, ClockMoves, Restart, vars

LEMMA CallsGrow ==
  ASSUME Typed, [Next]_vars
  PROVE  \A id \in OccId, s \in Steps : calls[id][s] > 0 => calls'[id][s] > 0
<1>1. CASE Call
  <2>1. calls[Head(due)][step] \in 0..2
    BY <1>1, CallIs DEF Typed, RunTypes
  <2>. QED  BY <1>1, <2>1, CallIs
<1>. QED  BY <1>1, CallsSame

LEMMA TableStays == ASSUME Typed, Table, [Next]_vars PROVE Table'
<1>. USE DEF Table, Executing
<1>0. outcomes \in [Steps -> Outcomes] /\ step \in 1..NumSteps + 1 /\ calls \in [OccId -> [Steps -> 0..2]]
  BY DEF Typed, RunTypes
<1>1. ASSUME UNCHANGED <<due, outcomes>>, Executing' => Executing, pc' # "calling", calls' = calls
      PROVE  Table'
  BY <1>1
<1>2. ASSUME UNCHANGED <<due, outcomes, step, calls, pc>>
      PROVE  Table'
  BY <1>2
<1>3. ASSUME ~Executing'  PROVE Table'
  BY <1>3
<1>4. CASE Recover \/ Claim \/ Stamp \/ Abort \/ MarkStep \/ Finish
  BY <1>1, <1>3, <1>4 DEF Recover, Claim, Stamp, Abort, MarkStep, Finish, SchedCommit, runVars
<1>5. CASE ExecuteStarts
  BY <1>5 DEF ExecuteStarts, SchedCommit, NoOutcomes
<1>6. ASSUME NEW r \in budget.results, Return(r)  PROVE Table'
  BY <1>0, <1>6 DEF Return, SchedCommit
<1>7. CASE Call
  <2>1. calls[Head(due)][step] \in 0..2 /\ Executing
    BY <1>0, <1>7, CallIs DEF Call, ResumeFrom
  <2>2. calls'[Head(due)][step] > 0
    BY <1>7, <2>1, CallIs
  <2>3. \A s \in Steps : calls[Head(due)][s] > 0 => calls'[Head(due)][s] > 0
    BY <1>7, CallIs, CallsGrow
  <2>. QED  BY <1>7, <2>1, <2>2, <2>3, CallIs
<1>8. CASE StartSaved \/ RecordSaved
  BY <1>1, <1>8 DEF StartSaved, RecordSaved, ResumeFrom, tickVars, runVars
<1>9. CASE RecoverEnds \/ TickStarts \/ (\E a \in Automation : LookAt(a) \/ Skip(a)) \/ ClaimSaved \/ StampSaved \/ TickEnds
           \/ FinishSaved \/ AbortEnds \/ Restart
  BY <1>3, <1>9 DEF RecoverEnds, TickStarts, LookAt, Skip, ClaimSaved, StampSaved, TickEnds, FinishSaved, AbortEnds, Restart
<1>10. CASE OtherEdits \/ (\E o \in Owner : Persist(o)) \/ WriteStarts \/ WriteEnds \/ WriteErrs \/ (\E t \in Ticks : ClockMoves(t)) \/ UNCHANGED vars
  BY <1>2, <1>10 DEF OtherEdits, ClientNext, Update, Remove, OtherSave, Persist, WriteStarts, WriteEnds, WriteErrs, ClockMoves, vars, runVars
<1>. QED  BY <1>4, <1>5, <1>6, <1>7, <1>8, <1>9, <1>10, StepKinds DEF SchedEdits, WriteSteps, Quiet

LEMMA FinalStatuses ==
  ASSUME NEW table
  PROVE  FinalStatus(table) # "interrupted" /\ (FinalStatus(table) = "succeeded" => \A s \in Steps : table[s] = "applied")
BY DEF FinalStatus

LEMMA EditTrue ==
  ASSUME Typed, Table, SchedEdits, NEW i \in OccId, NEW r, SchedRecord(i, r), Truthful(state.occ[i], calls[i])
  PROVE  Truthful(r, calls[i])
<1>. USE DEF Truthful
<1>1. CASE r = state.occ[i] \/ r = Absent \/ r = [status |-> "claimed", outcomes |-> NoOutcomes]
  BY <1>1 DEF Absent, NoOutcomes
<1>2. CASE r = Interrupted(state.occ[i])
  <2>1. r.status = "interrupted" /\ \A s \in Steps : r.outcomes[s] = IF state.occ[i].outcomes[s] \in {"pending", "running"} THEN "uncertain" ELSE state.occ[i].outcomes[s]
    BY <1>2 DEF Interrupted
  <2>. QED  BY <2>1
<1>3. CASE /\ pc \in {"run", "step", "calling"} /\ due # <<>> /\ i = Head(due)
           /\ r.outcomes = outcomes' /\ r.status = (IF pc = "step" /\ step > NumSteps THEN FinalStatus(outcomes') ELSE "running")
  <2>1. (\A s \in Steps : outcomes'[s] = "applied" => calls[i][s] > 0)
    <3>1. CASE pc = "run"
      <4>1. outcomes' = NoOutcomes
        BY <1>3, <3>1 DEF SchedEdits, ExecuteStarts, Recover, Claim, Stamp, Abort, MarkStep, Finish, Return
      <4>. QED  BY <4>1 DEF NoOutcomes
    <3>2. CASE pc = "step"
      <4>1. outcomes' = outcomes
        BY <3>2 DEF SchedEdits, ExecuteStarts, Recover, Claim, Stamp, Abort, MarkStep, Finish, Return, runVars
      <4>. QED  BY <1>3, <3>2, <4>1 DEF Table, Executing
    <3>3. CASE pc = "calling"
      <4>1. PICK x : outcomes' = [outcomes EXCEPT ![step] = x]
        BY <3>3 DEF SchedEdits, ExecuteStarts, Recover, Claim, Stamp, Abort, MarkStep, Finish, Return, runVars
      <4>2. outcomes \in [Steps -> Outcomes]
        BY DEF Typed, RunTypes
      <4>. QED  BY <1>3, <3>3, <4>1, <4>2 DEF Table, Executing
    <3>. QED  BY <1>3, <3>1, <3>2, <3>3
  <2>. QED  BY <1>3, <2>1, FinalStatuses
<1>4. CASE /\ pc = "step" /\ step \in Steps /\ i = Head(due)
           /\ r.outcomes = [outcomes EXCEPT ![step] = "running"] /\ r.status = "running"
  <2>1. outcomes \in [Steps -> Outcomes]
    BY DEF Typed, RunTypes
  <2>. QED  BY <1>4, <2>1 DEF Table, Executing
<1>. QED  BY <1>1, <1>2, <1>3, <1>4 DEF SchedRecord

LEMMA TruthStays == ASSUME Typed, Truth, [Next]_vars PROVE Truth'
<1>0. (\A c \in Copy : TruthIn(c, calls)) /\ Table /\ state \in Copy
  BY DEF Truth, Copy
<1>1. Table'
  BY <1>0, TableStays
<1>2. ASSUME NEW c, TruthIn(c, calls)  PROVE TruthIn(c, calls')
  BY <1>2, CallsGrow, TruthGrows
<1>3. \A c \in Copy' : TruthIn(c, calls)
  <2>1. CASE WriteSteps \/ Quiet
    BY <1>0, <2>1, WriteCopies
  <2>2. CASE OtherEdits
    <3>0. PICK o \in Owner : \E c : Commit(o, c) /\ c.occ = state.occ
      BY <2>2, OtherEditsAre, Owners
    <3>1. PICK c : Commit(o, c) /\ c.occ = state.occ
      BY <3>0
    <3>2. TruthIn(c, calls)
      BY <1>0, <3>1 DEF TruthIn
    <3>3. Copy' \subseteq Copy \cup {c}
      BY <3>1, CommitCopies DEF Typed, StoreTypes
    <3>. QED  BY <1>0, <3>2, <3>3
  <2>3. CASE SchedEdits
    <3>1. PICK c : Commit(Sched, c) /\ \A i \in OccId : SchedRecord(i, c.occ[i])
      BY <2>3, SchedEditsAre
    <3>2. TruthIn(c, calls)
      BY <1>0, <2>3, <3>1, EditTrue DEF TruthIn
    <3>3. Copy' \subseteq Copy \cup {c}
      BY <3>1, CommitCopies, Owners DEF Typed, StoreTypes
    <3>. QED  BY <1>0, <3>2, <3>3
  <2>. QED  BY <2>1, <2>2, <2>3, StepKinds
<1>. QED  BY <1>1, <1>2, <1>3 DEF Truth

(* executor.js, executeOccurrence, and scheduler.js, recover: no record, in memory or on the disk,
   says of an action that it was applied unless it was called, nor leaves one of an interrupted
   occurrence unexplained. *)
THEOREM TruthfulRecordsAlways == Spec => []TruthfulRecords
<1>1. Init => Truth
  <2>. SUFFICES ASSUME Init PROVE Truth
    OBVIOUS
  <2>1. PICK defs \in [Automation -> [live : {TRUE}, revision : {1}, enabled : BOOLEAN, minute : WallMinutes]] : StoreInit(InitialContent(defs))
    BY DEF Init
  <2>2. \A c \in Copy : c = InitialContent(defs)
    BY <2>1 DEF StoreInit, Copy
  <2>3. \A id \in OccId : InitialContent(defs).occ[id] = Absent
    BY DEF InitialContent
  <2>4. \A c \in Copy : TruthIn(c, calls)
    BY <2>2, <2>3 DEF TruthIn, Truthful, Absent, NoOutcomes
  <2>. QED  BY <2>4 DEF Truth, Table, Executing, Init
<1>2. Typed /\ Truth /\ [Next]_vars => Truth'
  BY TruthStays
<1>3. Truth => TruthfulRecords
  BY DEF Truth, TruthfulRecords, TruthIn, Truthful, Copy
<1>. QED  BY <1>1, <1>2, <1>3, TypedAlways, PTL DEF Spec

(***************************************************************************)
(* The queue of writes: each waiting save once, the one written in front.  *)
(***************************************************************************)
Queued ==
  /\ queue \in Seq(Owner) /\ phase \in [Owner -> Phases]
  /\ \A i \in 1..Len(queue) : phase[queue[i]] = "queued"
  /\ \A i, j \in 1..Len(queue) : queue[i] = queue[j] => i = j
  /\ writing => queue # <<>>

LEMMA QueueHead ==
  ASSUME NEW q \in Seq(Owner), q # <<>>
  PROVE  /\ Head(q) = q[1] /\ q[1] \in Owner /\ 1 \in 1..Len(q) /\ Tail(q) \in Seq(Owner)
         /\ Len(Tail(q)) = Len(q) - 1
         /\ \A i \in 1..Len(Tail(q)) : Tail(q)[i] = q[i+1] /\ i+1 \in 1..Len(q)
BY HeadTailProperties

LEMMA QueueGrows ==
  ASSUME Queued, NEW o \in Owner, phase[o] # "queued", queue' = Append(queue, o), phase' = [phase EXCEPT ![o] = "queued"], UNCHANGED writing
  PROVE  Queued' /\ (queue # <<>> => queue'[1] = queue[1])
<1>. USE DEF Queued
<1>1. /\ queue' \in Seq(Owner) /\ queue' # <<>> /\ Len(queue') = Len(queue) + 1 /\ queue'[Len(queue) + 1] = o
      /\ \A i \in 1..Len(queue) : queue'[i] = queue[i]
  OBVIOUS
<1>2. Len(queue) \in Nat /\ \A i \in 1..Len(queue) : queue[i] \in Owner /\ queue[i] # o
  OBVIOUS
<1>3. \A i \in 1..Len(queue') : phase'[queue'[i]] = "queued"
  BY <1>1, <1>2
<1>4. \A i, j \in 1..Len(queue') : queue'[i] = queue'[j] => i = j
  BY <1>1, <1>2
<1>5. phase' \in [Owner -> Phases]
  BY DEF Phases
<1>6. queue # <<>> => queue'[1] = queue[1]
  BY <1>1, QueueHead
<1>. QED  BY <1>1, <1>3, <1>4, <1>5, <1>6

LEMMA CommitQueued ==
  ASSUME Queued, NEW o \in Owner, NEW c, Commit(o, c)
  PROVE  Queued' /\ (queue # <<>> => queue'[1] = queue[1]) /\ writing' = writing
<1>1. writing' = writing /\ phase[o] # "queued"
  BY DEF Commit, Pending
<1>2. CASE queue' = queue /\ phase' = [phase EXCEPT ![o] = "edited"]
  BY <1>1, <1>2 DEF Queued, Phases
<1>3. CASE queue' = Append(queue, o) /\ phase' = [phase EXCEPT ![o] = "queued"]
  BY <1>1, <1>3, QueueGrows
<1>. QED  BY <1>1, <1>2, <1>3 DEF Commit

LEMMA SettleQueued ==
  ASSUME Queued, NEW ok \in BOOLEAN, Settle(ok, image)
  PROVE  /\ Queued' /\ queue # <<>> /\ Head(queue) = queue[1] /\ queue[1] \in Owner /\ phase[queue[1]] = "queued"
         /\ phase' = [phase EXCEPT ![queue[1]] = IF ok THEN "saved" ELSE "failed"]
<1>. USE DEF Queued
<1>1. queue # <<>> /\ queue' = Tail(queue) /\ writing' = (Tail(queue) # <<>>)
  BY DEF Settle
<1>2. /\ Head(queue) = queue[1] /\ queue[1] \in Owner /\ 1 \in 1..Len(queue) /\ Len(queue') = Len(queue) - 1
      /\ queue' \in Seq(Owner) /\ \A i \in 1..Len(queue') : queue'[i] = queue[i+1] /\ i+1 \in 1..Len(queue)
  BY <1>1, QueueHead
<1>3. phase' = [phase EXCEPT ![queue[1]] = IF ok THEN "saved" ELSE "failed"]
  BY <1>2 DEF Settle
<1>4. Len(queue) \in Nat /\ \A i \in 1..Len(queue') : queue[i+1] # queue[1] /\ queue[i+1] \in Owner
  BY <1>2
<1>5. \A i \in 1..Len(queue') : phase'[queue'[i]] = "queued"
  BY <1>2, <1>3, <1>4
<1>6. \A i, j \in 1..Len(queue') : queue'[i] = queue'[j] => i = j
  <2>. TAKE i, j \in 1..Len(queue')
  <2>1. queue'[i] = queue'[j] => i + 1 = j + 1
    BY <1>2
  <2>. QED  BY <2>1
<1>7. phase' \in [Owner -> Phases]
  BY <1>2, <1>3 DEF Phases
<1>. QED  BY <1>1, <1>2, <1>3, <1>5, <1>6, <1>7

LEMMA QueuedStays == ASSUME Typed, Queued, [Next]_vars PROVE Queued'
<1>1. CASE Quiet
  <2>1. UNCHANGED <<queue, phase, writing>>
    BY <1>1 DEF Quiet, RecoverEnds, TickStarts, LookAt, Skip, ClaimSaved, StampSaved, TickEnds, StartSaved, Call, RecordSaved,
                FinishSaved, AbortEnds, ClockMoves, vars, storeVars
  <2>. QED  BY <2>1 DEF Queued
<1>2. CASE OtherEdits
  BY <1>2, OtherEditsAre, CommitQueued, Owners
<1>3. CASE SchedEdits
  BY <1>3, SchedEditsAre, CommitQueued, Owners
<1>4. ASSUME NEW o \in Owner, Persist(o)  PROVE Queued'
  BY <1>4, QueueGrows DEF Persist, ChainWrite
<1>5. CASE WriteStarts
  BY <1>5 DEF WriteStarts, Serialise, Queued
<1>6. CASE WriteEnds \/ WriteErrs
  BY <1>6, SettleQueued DEF WriteEnds, WriteErrs, WriteDone, WriteFailed
<1>7. CASE Restart
  <2>1. queue' = <<>> /\ writing' = FALSE /\ phase' = [o \in Owner |-> IF Pending(o) THEN "lost" ELSE phase[o]]
    BY <1>7 DEF Restart, Reload
  <2>2. queue' \in Seq(Owner) /\ Len(queue') = 0
    BY <2>1, EmptySeq
  <2>. QED  BY <2>1, <2>2 DEF Queued, Phases
<1>. QED  BY <1>1, <1>2, <1>3, <1>4, <1>5, <1>6, <1>7, StepKinds DEF WriteSteps

LEMMA QueuedAlways == Spec => []Queued
<1>1. Init => Queued
  BY EmptySeq DEF Init, StoreInit, Queued, Phases
<1>. QED  BY <1>1, QueuedStays, TypedAlways, PTL DEF Spec

(***************************************************************************)
(* The records of what is due or was called.                               *)
(***************************************************************************)
\* A claim is saved or can still be.
Claiming == pc = "claiming" /\ phase[Sched] \in {"edited", "queued", "saved"}

Named(seq) == {id \in OccId : InSeq(id, seq)}
Ran == {id \in OccId : \E s \in Steps : calls[id][s] > 0}

\* What must be remembered, and what a claim in progress has added.
Held == (Named(due) \cup Ran) \ forgotten
Won == IF Claiming THEN Named(won) \ forgotten ELSE {}

\* Both have a record in each copy that memory or the file may yet be taken from.
Marks ==
  /\ Held \cup Won \subseteq Knows(state)
  /\ Held \subseteq Knows(file) /\ (writing => Held \subseteq Knows(image))
  /\ \A o \in Owner : Pending(o) /\ o \notin stale =>
       Held \subseteq Knows(before[o]) /\ (o # Sched => Won \subseteq Knows(before[o]))
  /\ phase[Sched] = "queued" /\ writing /\ queue[1] = Sched => Won \subseteq Knows(image)
  /\ phase[Sched] = "saved" => Won \subseteq Knows(file) /\ (writing => Won \subseteq Knows(image))
  /\ Won \cap Held = {}

\* A step that leaves the store alone and remembers no more.
LEMMA MarksWeaken ==
  ASSUME Marks, UNCHANGED storeVars, Held' \subseteq Held, Won' \subseteq Won
  PROVE  Marks'
BY DEF Marks, storeVars, Pending, Knows

LEMMA MarksCommit ==
  ASSUME Marks, Queued, DOMAIN before = Owner, NEW o \in Owner, NEW c, Commit(o, c),
         Held' \subseteq Held, Held' \cup Won' \subseteq Knows(c),
         o = Sched => Won' \cap Held' = {},
         o # Sched => Won' \subseteq Won
  PROVE  Marks'
<1>1. /\ state' = c /\ UNCHANGED <<file, image, writing>> /\ before'[o] = state /\ phase'[o] \in {"edited", "queued"}
      /\ \A p \in Owner : p # o => phase'[p] = phase[p]
      /\ \A p \in Owner : Pending(p)' /\ p \notin stale' => p = o
  BY DEF Commit, Queued, Pending
<1>2. writing => queue'[1] = queue[1] /\ queue[1] \in Owner /\ phase[queue[1]] = "queued"
  BY CommitQueued, QueueHead DEF Queued
<1>3. ~Pending(o)
  BY DEF Commit
<1>4. Held \subseteq Knows(state) /\ Won \subseteq Knows(state) /\ Held \subseteq Knows(file) /\ (writing => Held \subseteq Knows(image))
  BY DEF Marks
<1>. QED  BY <1>1, <1>2, <1>3, <1>4, Owners DEF Marks, Pending, Knows

LEMMA HeldSame == UNCHANGED <<due, calls, forgotten>> => Held' = Held
BY DEF Held, Named, Ran, InSeq

LEMMA WonSame == UNCHANGED <<won, forgotten, pc>> /\ (Claiming' => Claiming) => Won' \subseteq Won
BY DEF Won, Named, InSeq, Claiming

LEMMA NoneWon == pc' # "claiming" => Won' = {}
BY DEF Won, Claiming

LEMMA MarksPersist ==
  ASSUME Marks, Queued, NEW o \in Owner, Persist(o)
  PROVE  Marks'
<1>1. /\ phase[o] = "edited" /\ phase' = [phase EXCEPT ![o] = "queued"] /\ queue' = Append(queue, o)
      /\ UNCHANGED <<state, file, writing, image, before, stale, due, calls, forgotten, won, pc>>
  BY DEF Persist, ChainWrite, tickVars, runVars
<1>2. writing => queue'[1] = queue[1] /\ queue[1] \in Owner /\ phase[queue[1]] = "queued"
  BY <1>1, QueueGrows, QueueHead DEF Queued
<1>3. Claiming' => Claiming
  BY <1>1 DEF Claiming, Queued
<1>4. Held' = Held /\ Won' \subseteq Won
  BY <1>1, <1>3, HeldSame, WonSame
<1>5. \A p \in Owner : (Pending(p)' <=> Pending(p)) /\ (phase'[p] = "saved" <=> phase[p] = "saved")
  BY <1>1 DEF Pending, Queued
<1>6. phase'[Sched] = "queued" /\ writing /\ queue'[1] = Sched => phase[Sched] = "queued" /\ queue[1] = Sched
  BY <1>2
<1>. QED  BY <1>1, <1>4, <1>5, <1>6, Owners DEF Marks, Knows

LEMMA MarksStarts ==
  ASSUME Marks, Queued, WriteStarts
  PROVE  Marks'
<1>1. /\ image' = state /\ writing' /\ UNCHANGED <<state, file, queue, before, phase, stale, due, calls, forgotten, won, pc>>
  BY DEF WriteStarts, Serialise, tickVars, runVars
<1>2. Held' = Held /\ Won' \subseteq Won
  BY <1>1, HeldSame, WonSame DEF Claiming
<1>. QED  BY <1>1, <1>2 DEF Marks, Pending, Knows

LEMMA MarksSettle ==
  ASSUME Marks, Queued, ~overlapped', WriteEnds \/ WriteErrs
  PROVE  Marks'
<1>1. PICK ok \in BOOLEAN : Settle(ok, image) /\ UNCHANGED <<due, calls, forgotten, won, pc>>
  BY DEF WriteEnds, WriteErrs, WriteDone, WriteFailed, tickVars, runVars
<1>0. PICK o : o = queue[1]
  OBVIOUS
<1>2. /\ Queued' /\ queue # <<>> /\ Head(queue) = o /\ o \in Owner /\ phase[o] = "queued"
      /\ phase' = [phase EXCEPT ![o] = IF ok THEN "saved" ELSE "failed"]
  BY <1>0, <1>1, SettleQueued
<1>3. /\ writing /\ file' = (IF ok THEN image ELSE file) /\ before' = before
      /\ writing' => image' = state
      /\ state' = (IF ~ok /\ o \in Guarded THEN before[o] ELSE state)
      /\ stale' = stale \ {o} /\ (~ok /\ o \in Guarded => o \notin stale)
  BY <1>1, <1>2 DEF Settle
<1>4. Pending(o) /\ ~Pending(o)' /\ \A p \in Owner : p # o => phase'[p] = phase[p] /\ (Pending(p)' <=> Pending(p))
  <2>1. phase'[o] \notin {"edited", "queued"} /\ \A p \in Owner : p # o => phase'[p] = phase[p]
    BY <1>2 DEF Queued
  <2>. QED  BY <1>2, <2>1 DEF Pending
<1>5. phase'[o] = IF ok THEN "saved" ELSE "failed"
  BY <1>2 DEF Queued
<1>6. Held' = Held /\ Won' \subseteq Won /\ (o = Sched /\ ~ok => Won' = {})
  <2>1. Claiming' => Claiming
    BY <1>1, <1>2, <1>4, <1>5, Owners DEF Claiming
  <2>2. o = Sched /\ ~ok => Won' = {}
    BY <1>5 DEF Won, Claiming
  <2>. QED  BY <1>1, <2>1, <2>2, HeldSame, WonSame
<1>7. Held' \cup Won' \subseteq Knows(state')
  <2>1. CASE ~ok /\ o \in Guarded
    BY <1>2, <1>3, <1>4, <1>6, <2>1 DEF Marks
  <2>2. CASE ~(~ok /\ o \in Guarded)
    BY <1>3, <1>6, <2>2 DEF Marks
  <2>. QED  BY <2>1, <2>2
<1>8. Held' \subseteq Knows(file') /\ (writing' => Held' \subseteq Knows(image') /\ Won' \subseteq Knows(image'))
  BY <1>3, <1>6 DEF Marks
<1>9. phase'[Sched] = "saved" => Won' \subseteq Knows(file')
  <2>1. CASE o = Sched
    BY <1>0, <1>2, <1>3, <1>5, <1>6, <2>1 DEF Marks
  <2>2. CASE o # Sched
    BY <1>3, <1>4, <1>6, <2>2, Owners DEF Marks
  <2>. QED  BY <2>1, <2>2
<1>10. \A p \in Owner : Pending(p)' /\ p \notin stale' =>
         Held' \subseteq Knows(before[p]) /\ (p # Sched => Won' \subseteq Knows(before[p]))
  <2>. SUFFICES ASSUME NEW p \in Owner, Pending(p)', p \notin stale'
                PROVE  Held' \subseteq Knows(before[p]) /\ (p # Sched => Won' \subseteq Knows(before[p]))
    OBVIOUS
  <2>1. p # o
    BY <1>4
  <2>2. Pending(p) /\ p \notin stale
    BY <1>3, <1>4, <2>1
  <2>. QED  BY <1>6, <2>2 DEF Marks
<1>11. Won' \cap Held' = {}
  BY <1>6 DEF Marks
<1>. QED  BY <1>3, <1>7, <1>8, <1>9, <1>10, <1>11 DEF Marks, Knows

LEMMA MarksRestart ==
  ASSUME Marks, Restart
  PROVE  Marks'
<1>1. /\ state' = file /\ file' = file /\ ~writing' /\ due' = <<>> /\ pc' = "off" /\ UNCHANGED <<calls, forgotten>>
      /\ \A o \in Owner : ~Pending(o)'
  BY DEF Restart, Reload, Pending
<1>2. Held' \subseteq Held /\ Won' = {}
  BY <1>1, NoneWon DEF Held, Named, Ran, InSeq
<1>. QED  BY <1>1, <1>2 DEF Marks, Knows

\* The claim of what no content knows of.
LEMMA MarksClaim ==
  ASSUME Typed, Queued, Marks, Claim
  PROVE  Marks'
<1>0. Shaped(state) /\ DOMAIN before = Owner
  BY DEF Typed, StoreTypes, Copy
<1>1. PICK c \in cands :
        \/ Known(c.id) /\ won' = <<>> /\ SchedCommit(state, "claiming") /\ UNCHANGED forgotten
        \/ /\ ~Known(c.id) /\ won' = <<c.id>> /\ SchedCommit(Claimed(c.id), "claiming")
           /\ forgotten' = forgotten \cup {i \in OccId : Known(i) /\ ~InSeq(i, KeptOrder(c.id))}
  BY DEF Claim
<1>2. UNCHANGED <<due, calls>> /\ c.id \in OccId
  BY DEF Claim, runVars, Typed, TickTypes
<1>3. CASE won' = <<>> /\ Commit(Sched, state) /\ UNCHANGED forgotten
  <2>1. Held' = Held /\ Won' = {}
    BY <1>2, <1>3, HeldSame DEF Won, Named, InSeq
  <2>2. Held' \cup Won' \subseteq Knows(state)
    BY <2>1 DEF Marks
  <2>. QED  BY <1>0, <1>3, <2>1, <2>2, MarksCommit, Owners
<1>4. CASE /\ ~Known(c.id) /\ won' = <<c.id>> /\ Commit(Sched, Claimed(c.id))
           /\ forgotten' = forgotten \cup {i \in OccId : Known(i) /\ ~InSeq(i, KeptOrder(c.id))}
  <2>. DEFINE x == Claimed(c.id)
  <2>1. Held' \subseteq Held /\ Held' \cap forgotten' = {}
    BY <1>2, <1>4 DEF Held, Named, Ran, InSeq
  <2>2. Won' \subseteq {c.id}
    BY <1>4 DEF Won, Named, InSeq
  <2>3. \A i \in OccId : x.occ[i] = IF i = c.id THEN [status |-> "claimed", outcomes |-> NoOutcomes]
                                 ELSE IF InSeq(i, KeptOrder(c.id)) THEN state.occ[i] ELSE Absent
    BY <1>0, <1>2, ClaimedIs
  <2>4. c.id \in Knows(x) /\ \A i \in Knows(state) \ forgotten' : i \in Knows(x)
    BY <1>2, <1>4, <2>3 DEF Knows, Known
  <2>5. Held \subseteq Knows(state) /\ c.id \notin Knows(state)
    BY <1>4 DEF Marks, Knows, Known
  <2>6. Held' \cup Won' \subseteq Knows(x) /\ Won' \cap Held' = {}
    BY <2>1, <2>2, <2>4, <2>5
  <2>7. Commit(Sched, x)
    BY <1>4
  <2>. HIDE DEF x
  <2>. QED  BY <1>0, <2>1, <2>6, <2>7, MarksCommit, Owners
<1>. QED  BY <1>1, <1>3, <1>4 DEF SchedCommit

LEMMA MarksQuiet ==
  ASSUME Typed, Marks, Quiet
  PROVE  Marks'
<1>1. CASE ClaimSaved
  <2>1. UNCHANGED storeVars /\ due' = due \o won /\ UNCHANGED <<calls, forgotten>> /\ pc' = "scan" /\ Claiming /\ phase[Sched] = "saved"
    BY <1>1 DEF ClaimSaved, ResumeFrom, Claiming
  <2>2. Won' = {}
    BY <2>1, NoneWon
  <2>3. due \in Seq(OccId) /\ won \in Seq(OccId)
    BY Sequences DEF Typed, RunTypes, TickTypes
  <2>4. \A id : InSeq(id, due \o won) => InSeq(id, due) \/ InSeq(id, won)
    <3>. SUFFICES ASSUME NEW id, NEW i \in 1..Len(due \o won), (due \o won)[i] = id
                  PROVE  InSeq(id, due) \/ InSeq(id, won)
      BY DEF InSeq
    <3>1. Len(due \o won) = Len(due) + Len(won) /\ Len(due) \in Nat /\ Len(won) \in Nat
      BY <2>3
    <3>2. (due \o won)[i] = IF i <= Len(due) THEN due[i] ELSE won[i - Len(due)]
      BY <2>3, <3>1
    <3>3. CASE i <= Len(due)
      BY <3>1, <3>2, <3>3 DEF InSeq
    <3>4. CASE i > Len(due)
      <4>1. i - Len(due) \in 1..Len(won) /\ won[i - Len(due)] = id
        BY <3>1, <3>2, <3>4
      <4>. QED  BY <4>1 DEF InSeq
    <3>. QED  BY <3>1, <3>3, <3>4
  <2>5. Held' \subseteq Held \cup Won
    BY <2>1, <2>4 DEF Held, Won, Named, Ran, InSeq
  <2>6. ~Pending(Sched)
    BY <2>1 DEF Pending
  <2>. QED  BY <2>1, <2>2, <2>5, <2>6 DEF Marks, storeVars, Pending, Knows
<1>2. CASE Call
  <2>1. Held' \subseteq Held
    <3>1. Head(due) \in OccId /\ InSeq(Head(due), due) /\ due' = due /\ forgotten' = forgotten
      BY <1>2, CallIs, QueueHead, DueHead DEF InSeq, Typed, RunTypes
    <3>2. Ran' \subseteq Ran \cup {Head(due)}
      <4>. SUFFICES ASSUME NEW id \in OccId, NEW s \in Steps, calls'[id][s] > 0, id # Head(due)  PROVE calls[id][s] > 0
        BY DEF Ran
      <4>1. calls'[id][s] = calls[id][s]
        BY <1>2, CallIs
      <4>. QED  BY <4>1
    <3>. QED  BY <3>1, <3>2 DEF Held, Named, InSeq
  <2>2. UNCHANGED storeVars /\ Won' = {}
    BY <1>2, CallIs, NoneWon
  <2>. QED  BY <2>1, <2>2, MarksWeaken
<1>3. CASE FinishSaved \/ AbortEnds
  <2>1. UNCHANGED <<storeVars, calls, forgotten>> /\ (due' = <<>> \/ (due' = Tail(due) /\ due # <<>>)) /\ Won' = {}
    <3>1. CASE FinishSaved
      BY <3>1, NoneWon DEF FinishSaved, ResumeFrom, Typed, RunTypes
    <3>2. CASE AbortEnds
      BY <3>2, NoneWon DEF AbortEnds
    <3>. QED  BY <1>3, <3>1, <3>2
  <2>2. \A id : InSeq(id, due') => InSeq(id, due)
    <3>1. CASE due' = <<>>
      BY <3>1 DEF InSeq
    <3>2. CASE due' = Tail(due) /\ due # <<>>
      BY <3>2, HeadTailProperties DEF InSeq, Typed, RunTypes
    <3>. QED  BY <2>1, <3>1, <3>2
  <2>3. Held' \subseteq Held
    BY <2>1, <2>2 DEF Held, Named, Ran, InSeq
  <2>. QED  BY <2>1, <2>3, MarksWeaken
<1>4. CASE RecoverEnds \/ TickStarts \/ (\E a \in Automation : LookAt(a) \/ Skip(a)) \/ StampSaved \/ TickEnds
           \/ StartSaved \/ RecordSaved \/ (\E t \in Ticks : ClockMoves(t)) \/ UNCHANGED vars
  <2>1. UNCHANGED <<storeVars, due, calls, forgotten, won>> /\ (pc' = pc \/ pc' # "claiming")
    BY <1>4 DEF RecoverEnds, TickStarts, LookAt, Skip, StampSaved, TickEnds, StartSaved, RecordSaved, ClockMoves, vars, tickVars, runVars
  <2>2. Won' \subseteq Won
    BY <2>1, NoneWon, WonSame DEF Claiming, storeVars
  <2>. QED  BY <2>1, <2>2, HeldSame, MarksWeaken
<1>. QED  BY <1>1, <1>2, <1>3, <1>4 DEF Quiet

LEMMA MarksStay == ASSUME Typed, Queued, Marks, [Next]_vars, ~overlapped' PROVE Marks'
<1>0. DOMAIN before = Owner
  BY DEF Typed, StoreTypes
<1>1. CASE Quiet
  BY <1>1, MarksQuiet
<1>2. CASE WriteSteps
  BY <1>2, MarksPersist, MarksStarts, MarksSettle, MarksRestart DEF WriteSteps
<1>3. CASE OtherEdits
  <2>1. PICK o \in Clients \cup Others : \E c : Commit(o, c) /\ c.occ = state.occ
    BY <1>3, OtherEditsAre
  <2>2. PICK c : Commit(o, c) /\ c.occ = state.occ
    BY <2>1
  <2>3. o \in Owner /\ o # Sched
    BY Owners
  <2>4. UNCHANGED <<due, calls, forgotten, won, pc>> /\ phase'[Sched] = phase[Sched]
    <3>1. UNCHANGED <<due, calls, forgotten, won, pc>>
      BY <1>3 DEF OtherEdits, ClientNext, Update, Remove, OtherSave, tickVars, runVars
    <3>2. phase' = [phase EXCEPT ![o] = "edited"] \/ phase' = [phase EXCEPT ![o] = "queued"]
      BY <2>2 DEF Commit
    <3>. QED  BY <2>3, <3>1, <3>2, Owners DEF Queued
  <2>5. Held' = Held /\ Won' \subseteq Won
    BY <2>4, HeldSame, WonSame DEF Claiming
  <2>6. Held' \cup Won' \subseteq Knows(c)
    BY <2>2, <2>5 DEF Marks, Knows
  <2>. QED  BY <1>0, <2>2, <2>3, <2>5, <2>6, MarksCommit
<1>4. CASE SchedEdits /\ ~Claim
  <2>1. PICK c : Commit(Sched, c) /\ Knows(c) = Knows(state)
    BY <1>4, SchedEditsAre
  <2>2. UNCHANGED <<due, calls, forgotten>> /\ pc' # "claiming"
    BY <1>4 DEF SchedEdits, Recover, Stamp, Abort, ExecuteStarts, MarkStep, Finish, Return, SchedCommit, tickVars, runVars
  <2>3. Held' = Held /\ Won' = {}
    BY <2>2, HeldSame, NoneWon
  <2>4. Held' \cup Won' \subseteq Knows(c)
    BY <2>1, <2>3 DEF Marks
  <2>. QED  BY <1>0, <2>1, <2>3, <2>4, MarksCommit, Owners
<1>5. CASE Claim
  BY <1>5, MarksClaim
<1>. QED  BY <1>1, <1>2, <1>3, <1>4, <1>5, StepKinds

(***************************************************************************)
(* Each action of what is due is still to be called, or was called once.   *)
(***************************************************************************)
Untouched(id) == \A s \in Steps : calls[id][s] = 0

\* Before the executor starts with the first one, and before it calls the current action.
Waiting == pc \in {"scan", "claiming", "stamping", "run"}
Before == pc \in {"starting", "step", "marking"}
After == pc \in {"calling", "recording"}

Once ==
  /\ pc \in {"off", "recovering", "dead", "idle"} => due = <<>>
  /\ \A i, j \in 1..Len(due) : due[i] = due[j] /\ due[i] \notin forgotten => i = j
  /\ \A i \in 1..Len(due) : due[i] \notin forgotten /\ (i > 1 \/ Waiting) => Untouched(due[i])
  /\ Before /\ due[1] \notin forgotten => \A s \in Steps : s >= step => calls[due[1]][s] = 0
  /\ After /\ due[1] \notin forgotten => \A s \in Steps : s > step => calls[due[1]][s] = 0
  /\ \A id \in OccId \ forgotten, s \in Steps : calls[id][s] <= 1

\* Steps that touch neither what is due nor the calls.
LEMMA OnceWeaken ==
  ASSUME Once, UNCHANGED <<due, calls, step>>, forgotten \subseteq forgotten',
         Waiting' => Waiting, Before' => Before, After' => After,
         pc' \in {"off", "recovering", "dead", "idle"} => due = <<>>
  PROVE  Once'
BY DEF Once, Untouched

LEMMA OnceClaimSaved ==
  ASSUME Typed, Marks, Once, ClaimSaved
  PROVE  Once'
<1>1. /\ due' = due \o won /\ pc' = "scan" /\ pc = "claiming" /\ UNCHANGED <<calls, forgotten, step>> /\ Claiming
  BY DEF ClaimSaved, ResumeFrom, Claiming
<1>2. CASE won = <<>>
  <2>1. due' = due
    BY <1>1, <1>2 DEF Typed, RunTypes
  <2>. QED  BY <1>1, <2>1, OnceWeaken DEF Waiting, Before, After
<1>3. ASSUME NEW id \in OccId, won = <<id>>  PROVE Once'
  <2>1. /\ Len(due) \in Nat /\ Len(due') = Len(due) + 1 /\ due'[Len(due) + 1] = id
        /\ \A i \in 1..Len(due) : due'[i] = due[i]
    BY <1>1, <1>3 DEF Typed, RunTypes
  <2>2. InSeq(id, won)
    BY <1>3 DEF InSeq
  <2>3. id \notin forgotten => ~InSeq(id, due) /\ ~\E s \in Steps : calls[id][s] > 0
    BY <1>1, <2>2 DEF Marks, Won, Held, Named, Ran
  <2>4. calls \in [OccId -> [Steps -> 0..2]]
    BY DEF Typed, RunTypes
  <2>5. id \notin forgotten => Untouched(id)
    BY <2>3, <2>4 DEF Untouched
  <2>6. \A i \in 1..Len(due) : id \notin forgotten => due[i] # id
    BY <2>3 DEF InSeq
  <2>7. \A i \in 1..Len(due') : i \in 1..Len(due) \/ i = Len(due) + 1
    BY <2>1
  <2>8. \A i, j \in 1..Len(due') : due'[i] = due'[j] /\ due'[i] \notin forgotten => i = j
    BY <2>1, <2>6, <2>7 DEF Once
  <2>9. \A i \in 1..Len(due') : due'[i] \notin forgotten => Untouched(due'[i])
    BY <1>1, <2>1, <2>5, <2>7 DEF Once, Waiting
  <2>10. \A x : Untouched(x) <=> \A s \in Steps : calls'[x][s] = 0
    BY <1>1 DEF Untouched
  <2>. QED  BY <1>1, <2>8, <2>9, <2>10 DEF Once, Before, After, Untouched
<1>. QED  BY <1>2, <1>3 DEF Typed, TickTypes

LEMMA OnceFinishSaved ==
  ASSUME Typed, Once, FinishSaved
  PROVE  Once'
<1>1. due' = Tail(due) /\ pc' = "run" /\ due # <<>> /\ UNCHANGED <<calls, forgotten>>
  BY DEF FinishSaved, ResumeFrom, Typed, RunTypes
<1>2. /\ Len(due) \in Nat /\ Len(due') = Len(due) - 1
      /\ \A i \in 1..Len(due') : due'[i] = due[i+1] /\ i+1 \in 1..Len(due) /\ i+1 > 1
  BY <1>1, HeadTailProperties DEF Typed, RunTypes
<1>3. \A i, j \in 1..Len(due') : due'[i] = due'[j] /\ due'[i] \notin forgotten => i = j
  <2>. TAKE i, j \in 1..Len(due')
  <2>1. due'[i] = due'[j] /\ due'[i] \notin forgotten => i + 1 = j + 1
    BY <1>2 DEF Once
  <2>. QED  BY <2>1
<1>4. \A i \in 1..Len(due') : due'[i] \notin forgotten => Untouched(due'[i])
  BY <1>2 DEF Once
<1>5. \A x : Untouched(x) <=> \A s \in Steps : calls'[x][s] = 0
  BY <1>1 DEF Untouched
<1>. QED  BY <1>1, <1>3, <1>4, <1>5 DEF Once, Before, After, Untouched

LEMMA OnceCall ==
  ASSUME Typed, Once, Call
  PROVE  Once'
<1>1. /\ due # <<>> /\ Head(due) = due[1] /\ due[1] \in OccId /\ step \in Steps /\ UNCHANGED <<due, step, forgotten>>
      /\ pc' = "calling" /\ pc = "marking" /\ 1 \in 1..Len(due)
  BY CallIs, DueHead, QueueHead, HeadTailProperties DEF Call, ResumeFrom, Typed, RunTypes
<1>2. PICK h : h = due[1]
  OBVIOUS
<1>3. \A id \in OccId, s \in Steps : id # h \/ s # step => calls'[id][s] = calls[id][s]
  BY <1>1, <1>2, CallIs
<1>4. h \notin forgotten => calls[h][step] = 0 /\ calls'[h][step] = 1
  <2>1. h \notin forgotten => calls[h][step] = 0
    BY <1>1, <1>2 DEF Once, Before, Steps
  <2>. QED  BY <1>1, <1>2, <2>1, CallIs
<1>5. h \notin forgotten => \A s \in Steps : s > step => calls'[h][s] = 0
  <2>. SUFFICES ASSUME h \notin forgotten, NEW s \in Steps, s > step  PROVE calls'[h][s] = 0
    OBVIOUS
  <2>1. calls[h][s] = 0
    BY <1>1, <1>2 DEF Once, Before, Steps
  <2>. QED  BY <1>1, <1>2, <1>3, <2>1 DEF Steps
<1>6. \A i \in 1..Len(due) : due[i] \notin forgotten /\ i > 1 => \A s \in Steps : calls'[due[i]][s] = 0
  <2>. SUFFICES ASSUME NEW i \in 1..Len(due), due[i] \notin forgotten, i > 1, NEW s \in Steps  PROVE calls'[due[i]][s] = 0
    OBVIOUS
  <2>1. due[i] # h /\ due[i] \in OccId
    BY <1>1, <1>2 DEF Once, Typed, RunTypes
  <2>2. calls[due[i]][s] = 0
    BY DEF Once, Untouched
  <2>. QED  BY <1>3, <2>1, <2>2
<1>7. \A id \in OccId \ forgotten, s \in Steps : calls'[id][s] <= 1
  <2>. TAKE id \in OccId \ forgotten, s \in Steps
  <2>1. CASE id = h /\ s = step
    BY <1>4, <2>1
  <2>2. CASE ~(id = h /\ s = step)
    BY <1>3, <2>2 DEF Once
  <2>. QED  BY <2>1, <2>2
<1>. QED  BY <1>1, <1>2, <1>5, <1>6, <1>7 DEF Once, Before, After, Waiting, Untouched

LEMMA OnceStays == ASSUME Typed, Marks, Once, [Next]_vars PROVE Once'
<1>. USE DEF Waiting, Before, After
<1>1. CASE ClaimSaved \/ FinishSaved \/ Call
  BY <1>1, OnceClaimSaved, OnceFinishSaved, OnceCall
<1>2. CASE Claim
  <2>1. UNCHANGED <<due, calls, step>> /\ forgotten \subseteq forgotten'
    BY <1>2 DEF Claim, runVars
  <2>2. pc = "scan" /\ pc' = "claiming"
    BY <1>2 DEF Claim, SchedCommit
  <2>3. /\ Waiting' => Waiting
        /\ Before' => Before
        /\ After' => After
        /\ pc' \in {"off", "recovering", "dead", "idle"} => due = <<>>
    BY <2>2
  <2>. QED  BY <2>1, <2>3, OnceWeaken
<1>3. CASE Recover \/ Stamp \/ Abort \/ MarkStep \/ Finish
  <2>1. UNCHANGED <<due, calls, step, forgotten>>
    BY <1>3 DEF Recover, Stamp, Abort, MarkStep, Finish, runVars
  <2>2. \/ pc = "off" /\ pc' = "recovering"
        \/ pc = "scan" /\ pc' = "stamping"
        \/ pc' \in {"aborting", "finishing"}
        \/ pc = "step" /\ pc' = "marking"
    BY <1>3 DEF Recover, Stamp, Abort, MarkStep, Finish, SchedCommit
  <2>3. pc = "off" => due = <<>>
    BY DEF Once
  <2>4. /\ Waiting' => Waiting
        /\ Before' => Before
        /\ After' => After
        /\ pc' \in {"off", "recovering", "dead", "idle"} => due = <<>>
    BY <2>2, <2>3
  <2>. QED  BY <2>1, <2>4, OnceWeaken
<1>4. CASE ExecuteStarts
  <2>1. /\ due # <<>> /\ 1 \in 1..Len(due) /\ pc = "run" /\ pc' = "starting" /\ step' = 1 /\ UNCHANGED <<due, calls, forgotten>>
    BY <1>4, HeadTailProperties DEF ExecuteStarts, SchedCommit, Typed, RunTypes
  <2>2. due[1] \notin forgotten => \A s \in Steps : calls[due[1]][s] = 0
    BY <2>1 DEF Once, Untouched
  <2>. QED  BY <2>1, <2>2 DEF Once, Untouched
<1>5. ASSUME NEW r \in budget.results, Return(r)  PROVE Once'
  BY <1>5, OnceWeaken DEF Return, SchedCommit
<1>6. CASE RecordSaved
  <2>1. /\ pc = "recording" /\ pc' = "step" /\ step' = step + 1 /\ UNCHANGED <<due, calls, forgotten>> /\ step \in Steps
    BY <1>6 DEF RecordSaved, ResumeFrom, Typed, RunTypes
  <2>2. \A s \in Steps : s >= step + 1 => s > step
    BY <2>1 DEF Steps
  <2>. QED  BY <2>1, <2>2 DEF Once, Untouched
<1>7. CASE AbortEnds \/ Restart
  <2>1. due' = <<>> /\ Len(<<>>) = 0 /\ pc' \in {"idle", "off"} /\ UNCHANGED <<calls, forgotten>>
    BY <1>7 DEF AbortEnds, Restart
  <2>. QED  BY <2>1 DEF Once
<1>8. CASE RecoverEnds \/ TickStarts \/ (\E a \in Automation : LookAt(a) \/ Skip(a)) \/ StampSaved \/ TickEnds \/ StartSaved
  BY <1>8, OnceWeaken DEF RecoverEnds, TickStarts, LookAt, Skip, StampSaved, TickEnds, StartSaved, ResumeFrom, Once, runVars
<1>9. CASE OtherEdits \/ (\E o \in Owner : Persist(o)) \/ WriteStarts \/ WriteEnds \/ WriteErrs \/ (\E t \in Ticks : ClockMoves(t)) \/ UNCHANGED vars
  <2>1. UNCHANGED <<due, calls, step, forgotten, pc>>
    BY <1>9 DEF OtherEdits, ClientNext, Update, Remove, OtherSave, Persist, WriteStarts, WriteEnds, WriteErrs, ClockMoves, vars, runVars
  <2>. QED  BY <2>1, OnceWeaken DEF Once
<1>. QED  BY <1>1, <1>2, <1>3, <1>4, <1>5, <1>6, <1>7, <1>8, <1>9, StepKinds DEF SchedEdits, WriteSteps, Quiet

LEMMA OverlappedStays == ASSUME Typed, [Next]_vars, overlapped PROVE overlapped'
<1>1. CASE Quiet \/ OtherEdits \/ SchedEdits
  <2>1. UNCHANGED storeVars \/ \E o \in Owner : \E c : Commit(o, c)
    BY <1>1, OtherEditsAre, SchedEditsAre, Owners
       DEF Quiet, RecoverEnds, TickStarts, LookAt, Skip, ClaimSaved, StampSaved, TickEnds, StartSaved, Call, RecordSaved,
           FinishSaved, AbortEnds, ClockMoves, vars
  <2>. QED  BY <2>1 DEF Commit, storeVars
<1>2. CASE WriteSteps
  BY <1>2 DEF WriteSteps, Persist, ChainWrite, WriteStarts, Serialise, WriteEnds, WriteErrs, WriteDone, WriteFailed, Settle, Restart, Reload
<1>. QED  BY <1>1, <1>2, StepKinds

(* scheduler.js, claim, and executor.js, executeOccurrence: whatever the clock shows, writes fail
   and the process restarts, no action of an occurrence is called twice while its record is kept,
   unless a rollback put back a stale snapshot. *)
THEOREM AtMostOnceAlways == Spec => []AtMostOnce
<1>. DEFINE Inv == ~overlapped => Marks /\ Once
<1>1. Init => Inv
  <2>. SUFFICES ASSUME Init PROVE Marks /\ Once
    OBVIOUS
  <2>1. due = <<>> /\ Len(due) = 0 /\ \A id \in OccId, s \in Steps : calls[id][s] = 0
    BY DEF Init
  <2>2. Held = {} /\ Won = {}
    BY <2>1 DEF Held, Won, Named, Ran, InSeq, Claiming, Init
  <2>3. \A o \in Owner : ~Pending(o)
    BY DEF Init, StoreInit, Pending
  <2>. QED  BY <2>1, <2>2, <2>3 DEF Marks, Once, Init, Waiting, Before, After
<1>2. Typed /\ Queued /\ Inv /\ [Next]_vars => Inv'
  BY MarksStay, OnceStays, OverlappedStays
<1>3. Inv => AtMostOnce
  BY DEF Once, AtMostOnce, Remembered
<1>. QED  BY <1>1, <1>2, <1>3, TypedAlways, QueuedAlways, PTL DEF Spec

(***************************************************************************)
(* The ticks: what one has listed, looked at and claimed.                  *)
(***************************************************************************)
InTick == pc \notin {"off", "recovering", "dead", "idle"}
Waits == {"recovering", "claiming", "stamping", "starting", "marking", "recording", "finishing"}

\* What each stretch of a tick leaves behind, and where it awaits a save.
Stretches ==
  /\ ~InTick => due = <<>>
  /\ pc \notin {"scan", "claiming", "aborting"} => todo = {} /\ cands = {}
  /\ pc \notin {"claiming", "aborting"} => won = <<>>
  /\ Pending(Sched) => pc \in Waits \cup {"aborting"}
  /\ pc = "aborting" => aborted

SeenTypes ==
  /\ DOMAIN seen = Automation
  /\ \A a \in Automation : seen[a] \in [live : BOOLEAN, revision : 0..MaxRevision, enabled : BOOLEAN, minute : WallMinutes]

\* All that a tick still has to do is for automations it listed as enabled.
Enabled(a) == seen[a].live /\ seen[a].enabled

Listed ==
  /\ SeenTypes
  /\ \A a \in todo : Enabled(a)
  /\ \A c \in cands : Enabled(c.id[1])
  /\ \A id \in Named(won) \cup Named(due) : Enabled(id[1])

\* A definition is the one listed, removed, or of a later revision.
Follows ==
  InTick => \A a \in Automation :
    /\ state.defs[a].revision >= seen[a].revision
    /\ state.defs[a].live /\ state.defs[a].revision = seen[a].revision => state.defs[a] = seen[a]

\* What memory can still be, unless the scheduler's own save fails or a stale snapshot is put back.
Later == {state} \cup {before[o] : o \in {p \in Owner \ {Sched} : Pending(p) /\ p \notin stale}}

Thwarted == pc \in Waits /\ phase[Sched] = "failed"

\* Only what is claimed or still due is claimed or running in the records.
Open(c) == {id \in OccId : c.occ[id].status \in Unsettled}
Expected ==
  IF pc = "claiming" THEN Named(due) \cup Named(won)
  ELSE IF pc = "finishing" THEN Named(Tail(due)) ELSE Named(due)

Tended ==
  ~overlapped /\ ~aborted /\ ~Thwarted /\ pc \notin {"off", "dead"} =>
    \A c \in Later : Open(c) \subseteq Expected

\* The minutes an automation is to run in since the last tick, if its definition is the one listed.
Wanted(a) ==
  {m \in UtcMinutes : /\ since # 0 /\ since <= now /\ now - since <= Grace
                      /\ MinuteOf(since) <= m /\ m <= MinuteOf(now)
                      /\ LocalTime[m] = seen[a].minute}
Wants(a) == <<a, seen[a].revision, seen[a].minute>>
Unchanged(a) == state.defs[a] = seen[a] /\ Enabled(a)

Cover(c, a) == \A m \in Wanted(a) : [at |-> m, id |-> Wants(a)] \in cands \/ Wants(a) \in Knows(c) \cup forgotten

Claims == {"scan", "claiming", "stamping"}

Covered ==
  ~overlapped /\ ~Thwarted /\ pc \in Claims =>
    \A c \in Later, a \in Automation \ (skipped \cup todo) : Unchanged(a) => Cover(c, a)

\* The instants the clock, the tick and the copies of the store hold.
Times ==
  /\ clock \in Ticks /\ now \in Ticks /\ since \in {0} \cup Ticks
  /\ \A c \in Copy : c.lastTick \in {0} \cup Ticks

\* The inputs of each kind of step, and how it leaves the scheduler.
LEMMA OtherEditsKeep ==
  ASSUME Typed, Queued, OtherEdits
  PROVE  /\ UNCHANGED <<pc, tickVars, runVars, calls, forgotten, aborted>> /\ phase'[Sched] = phase[Sched]
         /\ \E o \in Owner \ {Sched} : Commit(o, state') /\ state'.occ = state.occ
<1>1. UNCHANGED <<pc, tickVars, runVars, calls, forgotten, aborted>>
  BY DEF OtherEdits, ClientNext, Update, Remove, OtherSave
<1>2. PICK o \in Clients \cup Others : \E c : Commit(o, c) /\ c.occ = state.occ
  BY OtherEditsAre
<1>3. o \in Owner \ {Sched} /\ Commit(o, state') /\ state'.occ = state.occ
  BY <1>2, Owners DEF Commit
<1>4. phase' = [phase EXCEPT ![o] = "edited"] \/ phase' = [phase EXCEPT ![o] = "queued"]
  BY <1>3 DEF Commit
<1>. QED  BY <1>1, <1>3, <1>4, Owners DEF Queued

LEMMA WritesKeep ==
  ASSUME Typed, Queued, (\E o \in Owner : Persist(o)) \/ WriteStarts \/ WriteEnds \/ WriteErrs
  PROVE  /\ UNCHANGED <<pc, now, since, skipped, todo, cands, won, runVars, calls, forgotten, aborted>>
         /\ Pending(Sched)' => Pending(Sched)
<1>1. ASSUME NEW o \in Owner, Persist(o)
      PROVE  /\ UNCHANGED <<pc, now, since, skipped, todo, cands, won, runVars, calls, forgotten, aborted>>
             /\ Pending(Sched)' => Pending(Sched)
  BY <1>1, Owners DEF Persist, ChainWrite, tickVars, Pending, Queued
<1>2. CASE WriteStarts
  BY <1>2 DEF WriteStarts, Serialise, tickVars, Pending
<1>3. CASE WriteEnds \/ WriteErrs
  <2>1. \E x \in {"saved", "failed"} : phase' = [phase EXCEPT ![queue[1]] = x]
    BY <1>3, SettleQueued DEF WriteEnds, WriteErrs, WriteDone, WriteFailed
  <2>2. Pending(Sched)' => Pending(Sched)
    BY <2>1, Owners DEF Pending, Queued
  <2>. QED  BY <1>3, <2>2 DEF WriteEnds, WriteErrs, tickVars
<1>. QED  BY <1>1, <1>2, <1>3

LEMMA StretchesStay ==
  ASSUME Typed, Queued, Stretches, [Next]_vars
  PROVE  Stretches'
<1>. USE DEF Stretches, InTick, Waits
<1>1. CASE OtherEdits
  BY <1>1, OtherEditsKeep DEF tickVars, runVars, Pending
<1>2. CASE (\E o \in Owner : Persist(o)) \/ WriteStarts \/ WriteEnds \/ WriteErrs
  BY <1>2, WritesKeep DEF runVars
<1>3. CASE Restart
  <2>1. ~Pending(Sched)'
    BY <1>3, Owners DEF Restart, Reload, Pending, Queued
  <2>. QED  BY <1>3, <2>1 DEF Restart
<1>4. CASE Claim
  BY <1>4 DEF Claim, SchedCommit, Pending
<1>5. CASE SchedEdits /\ ~Claim
  BY <1>5 DEF SchedEdits, Recover, Stamp, Abort, ExecuteStarts, MarkStep, Finish, Return, SchedCommit, tickVars, runVars, ResumeFrom
<1>6. CASE Quiet
  <2>1. CASE RecoverEnds \/ TickStarts \/ (\E a \in Automation : LookAt(a) \/ Skip(a))
    BY <1>6, <2>1 DEF RecoverEnds, TickStarts, LookAt, Skip, tickVars, runVars, storeVars, Pending
  <2>2. CASE ClaimSaved \/ StampSaved \/ TickEnds \/ StartSaved
    BY <1>6, <2>2 DEF ClaimSaved, StampSaved, TickEnds, StartSaved, ResumeFrom, tickVars, runVars, storeVars, Pending
  <2>3. CASE Call \/ RecordSaved \/ FinishSaved \/ AbortEnds
    BY <1>6, <2>3 DEF Call, RecordSaved, FinishSaved, AbortEnds, ResumeFrom, tickVars, runVars, storeVars, Pending
  <2>4. CASE (\E t \in Ticks : ClockMoves(t)) \/ UNCHANGED vars
    BY <1>6, <2>4 DEF ClockMoves, vars, tickVars, runVars, storeVars, Pending
  <2>. QED  BY <1>6, <2>1, <2>2, <2>3, <2>4 DEF Quiet
<1>. QED  BY <1>1, <1>2, <1>3, <1>4, <1>5, <1>6, StepKinds DEF WriteSteps

LEMMA StretchesAlways == Spec => []Stretches
<1>1. Init => Stretches
  BY Owners DEF Init, StoreInit, Stretches, InTick, Pending
<1>. QED  BY <1>1, StretchesStay, TypedAlways, QueuedAlways, PTL DEF Spec

LEMMA NamedJoined ==
  ASSUME NEW s \in Seq(OccId), NEW t \in Seq(OccId)
  PROVE  Named(s \o t) = Named(s) \cup Named(t)
<1>0. Named(s) \cup Named(t) \subseteq Named(s \o t)
  <2>1. \A i \in 1..Len(s) : i \in 1..Len(s \o t) /\ (s \o t)[i] = s[i]
    OBVIOUS
  <2>2. \A i \in 1..Len(t) : Len(s) + i \in 1..Len(s \o t) /\ (s \o t)[Len(s) + i] = t[i]
    OBVIOUS
  <2>. QED  BY <2>1, <2>2 DEF Named, InSeq
<1>. SUFFICES ASSUME NEW i \in 1..Len(s \o t)  PROVE InSeq((s \o t)[i], s) \/ InSeq((s \o t)[i], t)
  BY <1>0 DEF Named, InSeq
<1>1. Len(s \o t) = Len(s) + Len(t) /\ Len(s) \in Nat /\ Len(t) \in Nat
  OBVIOUS
<1>2. (s \o t)[i] = IF i <= Len(s) THEN s[i] ELSE t[i - Len(s)]
  BY <1>1
<1>3. CASE i <= Len(s)
  BY <1>1, <1>2, <1>3 DEF InSeq
<1>4. CASE i > Len(s)
  <2>1. i - Len(s) \in 1..Len(t) /\ (s \o t)[i] = t[i - Len(s)]
    BY <1>1, <1>2, <1>4
  <2>. QED  BY <2>1 DEF InSeq
<1>. QED  BY <1>1, <1>3, <1>4

LEMMA NamedTail ==
  ASSUME NEW s \in Seq(OccId), s # <<>>
  PROVE  Named(Tail(s)) \subseteq Named(s) /\ Named(s) \subseteq Named(Tail(s)) \cup {Head(s)}
<1>1. /\ Head(s) = s[1] /\ Len(s) \in Nat /\ Len(Tail(s)) = Len(s) - 1
      /\ \A i \in 1..Len(Tail(s)) : Tail(s)[i] = s[i+1] /\ i+1 \in 1..Len(s)
  BY HeadTailProperties
<1>2. \A i \in 1..Len(s) : i = 1 \/ (i - 1 \in 1..Len(Tail(s)) /\ Tail(s)[i - 1] = s[i])
  BY <1>1
<1>. QED  BY <1>1, <1>2 DEF Named, InSeq

LEMMA NamedShort ==
  Named(<<>>) = {} /\ \A id \in OccId : Named(<<id>>) = {id}
BY DEF Named, InSeq

\* The scheduler's own edits leave the definitions alone.
LEMMA SchedDefs ==
  ASSUME Typed, SchedEdits
  PROVE  state'.defs = state.defs
<1>0. DOMAIN state = Parts
  BY DEF Typed, StoreTypes, Shaped, Copy
<1>. USE <1>0 DEF Parts, SchedCommit, Commit
<1>m. \A id, status, table : Marked(id, status, table).defs = state.defs /\ DOMAIN Marked(id, status, table) = Parts
  BY DEF Marked
<1>1. CASE Recover
  BY <1>1 DEF Recover, Recovered
<1>2. CASE Claim
  BY <1>2 DEF Claim, Claimed
<1>3. CASE Stamp \/ Abort
  BY <1>3 DEF Stamp, Abort, Stamped
<1>4. CASE ExecuteStarts
  BY <1>4, <1>m DEF ExecuteStarts
<1>5. CASE MarkStep
  BY <1>5, <1>m DEF MarkStep
<1>6. CASE Finish
  <2>1. PICK h : Completed(Head(due), outcomes) = [Marked(Head(due), FinalStatus(outcomes), outcomes) EXCEPT !.history = h]
    BY CompletedIs
  <2>2. state' = Completed(Head(due), outcomes)
    BY <1>6 DEF Finish
  <2>. QED  BY <1>m, <2>1, <2>2
<1>7. ASSUME NEW r \in budget.results, Return(r)  PROVE state'.defs = state.defs
  BY <1>7, <1>m DEF Return
<1>. QED  BY <1>1, <1>2, <1>3, <1>4, <1>5, <1>6, <1>7 DEF SchedEdits

\* The definitions the tick has listed change when a tick begins, and when one is taken back.
LEMMA SeenSame ==
  ASSUME [Next]_vars, ~TickStarts, ~WriteErrs
  PROVE  seen' = seen
<1>1. CASE SchedEdits \/ OtherEdits
  BY <1>1 DEF SchedEdits, Recover, Claim, Stamp, Abort, ExecuteStarts, MarkStep, Finish, Return, OtherEdits, ClientNext, Update, Remove,
              OtherSave, tickVars
<1>2. CASE WriteSteps \/ Quiet
  BY <1>2 DEF WriteSteps, Persist, WriteStarts, WriteEnds, Restart, Quiet, RecoverEnds, LookAt, Skip, ClaimSaved, StampSaved, TickEnds,
              StartSaved, Call, RecordSaved, FinishSaved, AbortEnds, ClockMoves, vars, tickVars
<1>. QED  BY <1>1, <1>2, StepKinds

LEMMA TakenBack ==
  ASSUME SeenTypes, WriteErrs
  PROVE  SeenTypes' /\ \A a \in Automation : Enabled(a)' = Enabled(a)
BY BoundsAssumption DEF SeenTypes, WriteErrs, Enabled

LEMMA ListedStays ==
  ASSUME Typed, Stretches, Listed, [Next]_vars
  PROVE  Listed'
<1>0. /\ Shaped(state) /\ todo \subseteq Automation /\ \A c \in cands : c.id \in OccId
      /\ due \in Seq(OccId) /\ won \in Seq(OccId) /\ \A id \in OccId : id[1] \in Automation
  BY Sequences DEF Typed, StoreTypes, TickTypes, RunTypes, Copy, OccId
<1>1. CASE TickStarts
  <2>1. due = <<>> /\ won = <<>> /\ cands = {} /\ UNCHANGED <<due, won, cands>>
    BY <1>1 DEF TickStarts, Stretches, InTick, runVars
  <2>2. Named(won') = {} /\ Named(due') = {} /\ cands' = {}
    BY <2>1, NamedShort
  <2>3. SeenTypes'
    <3>1. seen' = state.defs /\ state.defs \in [Automation -> Definition]
      BY <1>0, <1>1 DEF TickStarts, Shaped
    <3>2. \A def \in Definition : def \in [live : BOOLEAN, revision : 0..MaxRevision, enabled : BOOLEAN, minute : WallMinutes]
      BY BoundsAssumption DEF Definition, Revisions
    <3>. QED  BY <3>1, <3>2 DEF SeenTypes
  <2>4. \A a \in todo' : Enabled(a)'
    BY <1>1 DEF TickStarts, Enabled
  <2>5. (Named(won) \cup Named(due))' = {}
    BY <2>2 DEF Named, InSeq
  <2>. QED  BY <2>2, <2>3, <2>4, <2>5 DEF Listed
<1>2. CASE WriteErrs
  <2>1. UNCHANGED <<todo, cands, won, due>> /\ SeenTypes' /\ \A a \in Automation : Enabled(a)' = Enabled(a)
    BY <1>2, TakenBack DEF Listed, WriteErrs, runVars
  <2>2. (Named(won) \cup Named(due))' = Named(won) \cup Named(due)
    BY <2>1 DEF Named, InSeq
  <2>3. Named(won) \cup Named(due) \subseteq OccId
    BY DEF Named
  <2>4. (\A a \in todo : Enabled(a))'
    BY <1>0, <2>1 DEF Listed
  <2>5. (\A c \in cands : Enabled(c.id[1]))'
    BY <1>0, <2>1 DEF Listed
  <2>6. (\A id \in Named(won) \cup Named(due) : Enabled(id[1]))'
    BY <1>0, <2>1, <2>2, <2>3 DEF Listed
  <2>. QED  BY <2>1, <2>4, <2>5, <2>6 DEF Listed
<1>3. ASSUME seen' = seen, todo' \subseteq todo,
             \A c \in cands' : c \in cands \/ Enabled(c.id[1]),
             \A id \in Named(won') \cup Named(due') : Enabled(id[1])
      PROVE  Listed'
  <2>1. \A a : Enabled(a)' <=> Enabled(a)
    BY <1>3 DEF Enabled
  <2>2. SeenTypes'
    BY <1>3 DEF Listed, SeenTypes
  <2>3. (Named(won) \cup Named(due))' = Named(won') \cup Named(due')
    BY DEF Named, InSeq
  <2>. QED  BY <1>3, <2>1, <2>2, <2>3 DEF Listed
<1>4. ASSUME NEW a \in Automation, LookAt(a)  PROVE Listed'
  <2>1. seen' = seen /\ todo' \subseteq todo /\ cands' = Scheduled(a, state.defs[a], since, now) /\ won' = won /\ due' = due /\ a \in todo
    BY <1>4 DEF LookAt, runVars
  <2>2. \A c \in cands' : c.id[1] = a
    BY <2>1 DEF Scheduled
  <2>. QED  BY <1>3, <2>1, <2>2 DEF Listed
<1>5. CASE Claim
  <2>1. PICK c \in cands : cands' = cands \ {c} /\ (won' = <<>> \/ won' = <<c.id>>)
    BY <1>5 DEF Claim
  <2>2. todo' = todo /\ seen' = seen /\ due' = due
    BY <1>5 DEF Claim, runVars
  <2>3. Named(won') \subseteq {c.id}
    BY <1>0, <2>1, NamedShort
  <2>. QED  BY <1>3, <2>1, <2>2, <2>3 DEF Listed
<1>6. CASE ClaimSaved
  <2>1. due' = due \o won /\ won' = <<>> /\ UNCHANGED <<seen, todo, cands>>
    BY <1>6 DEF ClaimSaved
  <2>2. Named(won') \cup Named(due') \subseteq Named(won) \cup Named(due)
    BY <1>0, <2>1, NamedShort, NamedJoined
  <2>. QED  BY <1>3, <2>1, <2>2 DEF Listed
<1>7. CASE FinishSaved
  <2>1. due' = Tail(due) /\ due # <<>> /\ UNCHANGED <<seen, todo, cands, won>>
    BY <1>7 DEF FinishSaved, ResumeFrom, Typed, RunTypes, tickVars
  <2>2. Named(due') \subseteq Named(due)
    BY <1>0, <2>1, NamedTail
  <2>. QED  BY <1>3, <2>1, <2>2 DEF Listed
<1>8. CASE AbortEnds \/ Restart
  <2>1. todo' = {} /\ cands' = {} /\ won' = <<>> /\ due' = <<>> /\ seen' = seen
    BY <1>8 DEF AbortEnds, Restart
  <2>. QED  BY <1>3, <2>1, NamedShort
<1>9. CASE UNCHANGED <<seen, cands, won, due>> /\ todo' \subseteq todo
  BY <1>3, <1>9 DEF Listed
<1>10. CASE SchedEdits /\ ~Claim
  BY <1>9, <1>10 DEF SchedEdits, Recover, Stamp, Abort, ExecuteStarts, MarkStep, Finish, Return, tickVars, runVars
<1>11. CASE OtherEdits
  BY <1>9, <1>11 DEF OtherEdits, ClientNext, Update, Remove, OtherSave, tickVars, runVars
<1>12. CASE (\E o \in Owner : Persist(o)) \/ WriteStarts \/ WriteEnds
  BY <1>9, <1>12 DEF Persist, WriteStarts, WriteEnds, tickVars, runVars
<1>13. CASE RecoverEnds \/ (\E a \in Automation : Skip(a)) \/ StampSaved \/ TickEnds \/ StartSaved
            \/ Call \/ RecordSaved \/ (\E t \in Ticks : ClockMoves(t)) \/ UNCHANGED vars
  BY <1>9, <1>13 DEF RecoverEnds, Skip, StampSaved, TickEnds, StartSaved, Call, RecordSaved, ClockMoves, vars, tickVars, runVars
<1>. QED  BY <1>1, <1>2, <1>4, <1>5, <1>6, <1>7, <1>8, <1>10, <1>11, <1>12, <1>13, StepKinds DEF WriteSteps, Quiet

\* A request edits a definition into the next revision, or removes it.
LEMMA OtherDefs ==
  ASSUME Typed, OtherEdits, NEW b \in Automation
  PROVE  /\ \/ state'.defs[b] = state.defs[b]
            \/ state'.defs[b].revision = state.defs[b].revision + 1
            \/ ~state'.defs[b].live /\ state'.defs[b].revision = state.defs[b].revision
         /\ state'.lastTick = state.lastTick
<1>0. state.defs \in [Automation -> Definition] /\ DOMAIN state = Parts
  BY DEF Typed, StoreTypes, Shaped, Copy
<1>1. ASSUME NEW c \in Clients, NEW a \in Automation, NEW enabled \in BOOLEAN, NEW minute \in WallMinutes, Update(c, a, enabled, minute)
      PROVE  (state'.defs[b] = state.defs[b] \/ state'.defs[b].revision = state.defs[b].revision + 1) /\ state'.lastTick = state.lastTick
  <2>. DEFINE def == [live |-> TRUE, revision |-> state.defs[a].revision + 1, enabled |-> enabled, minute |-> minute]
  <2>1. Commit(c, [state EXCEPT !.defs[a] = def])
    BY <1>1 DEF Update
  <2>2. state' = [state EXCEPT !.defs[a] = def] /\ def.revision = state.defs[a].revision + 1
    BY <2>1 DEF Commit
  <2>. HIDE DEF def
  <2>. QED  BY <1>0, <2>2 DEF Parts
<1>2. ASSUME NEW c \in Clients, NEW a \in Automation, Remove(c, a)
      PROVE  /\ state'.defs[b] = state.defs[b] \/ (~state'.defs[b].live /\ state'.defs[b].revision = state.defs[b].revision)
             /\ state'.lastTick = state.lastTick
  <2>1. PICK def : state' = [state EXCEPT !.defs[a] = def] /\ def = [state.defs[a] EXCEPT !.live = FALSE]
    BY <1>2 DEF Remove, Commit
  <2>2. def.live = FALSE /\ def.revision = state.defs[a].revision
    BY <1>0, <2>1 DEF Definition
  <2>. QED  BY <1>0, <2>1, <2>2 DEF Parts
<1>3. ASSUME NEW o \in Others, OtherSave(o)  PROVE state' = state
  BY <1>3 DEF OtherSave, Commit
<1>. QED  BY <1>1, <1>2, <1>3 DEF OtherEdits, ClientNext

LEMMA FollowsStays ==
  ASSUME Typed, Typed', Queued, Listed, Follows, [Next]_vars
  PROVE  Follows'
<1>0. /\ state.defs \in [Automation -> Definition] /\ state'.defs \in [Automation -> Definition] /\ DOMAIN state = Parts
  BY DEF Typed, StoreTypes, Shaped, Copy
<1>. USE DEF InTick
<1>1. ASSUME InTick' => InTick, UNCHANGED <<seen>>, state'.defs = state.defs
      PROVE  Follows'
  BY <1>1 DEF Follows
<1>2. CASE SchedEdits
  <2>1. InTick' => InTick
    <3>1. CASE Recover
      BY <3>1 DEF Recover, SchedCommit
    <3>2. CASE Claim
      BY <3>2 DEF Claim
    <3>3. CASE SchedEdits /\ ~Recover /\ ~Claim
      BY <3>3 DEF SchedEdits, Stamp, Abort, ExecuteStarts, MarkStep, Finish, Return
    <3>. QED  BY <1>2, <3>1, <3>2, <3>3
  <2>2. seen' = seen
    BY <1>2 DEF SchedEdits, Recover, Claim, Stamp, Abort, ExecuteStarts, MarkStep, Finish, Return, tickVars
  <2>. QED  BY <1>1, <1>2, <2>1, <2>2, SchedDefs
<1>3. CASE OtherEdits
  <2>1. pc' = pc /\ seen' = seen
    BY <1>3 DEF OtherEdits, ClientNext, Update, Remove, OtherSave, tickVars
  <2>. SUFFICES ASSUME InTick, NEW b \in Automation
                PROVE  /\ state'.defs[b].revision >= seen[b].revision
                       /\ state'.defs[b].live /\ state'.defs[b].revision = seen[b].revision => state'.defs[b] = seen[b]
    BY <2>1 DEF Follows
  <2>3. state.defs[b].revision \in Nat /\ seen[b].revision \in Nat
    BY <1>0, BoundsAssumption DEF Definition, Revisions, Listed, SeenTypes
  <2>4. state.defs[b].revision >= seen[b].revision
    BY DEF Follows
  <2>5. CASE state'.defs[b] = state.defs[b]
    BY <2>4, <2>5 DEF Follows
  <2>6. CASE state'.defs[b].revision = state.defs[b].revision + 1
    BY <2>3, <2>4, <2>6
  <2>7. CASE ~state'.defs[b].live /\ state'.defs[b].revision = state.defs[b].revision
    BY <2>4, <2>7
  <2>. QED  BY <1>3, <2>5, <2>6, <2>7, OtherDefs
<1>5. CASE WriteErrs
  <2>1. pc' = pc /\ seen' = [a \in Automation |-> IF state'.defs[a] = state.defs[a] THEN seen[a] ELSE [seen[a] EXCEPT !.revision = 0]]
    BY <1>5 DEF WriteErrs
  <2>. SUFFICES ASSUME InTick, NEW b \in Automation
                PROVE  /\ state'.defs[b].revision >= seen'[b].revision
                       /\ state'.defs[b].live /\ state'.defs[b].revision = seen'[b].revision => state'.defs[b] = seen'[b]
    BY <2>1 DEF Follows
  <2>2. CASE state'.defs[b] = state.defs[b]
    BY <2>1, <2>2 DEF Follows
  <2>3. CASE state'.defs[b] # state.defs[b]
    <3>1. seen'[b].revision = 0
      BY <2>1, <2>3 DEF Listed, SeenTypes
    <3>2. state'.defs[b].revision \in Nat \ {0}
      BY <1>0, BoundsAssumption DEF Definition, Revisions
    <3>. QED  BY <3>1, <3>2
  <2>. QED  BY <2>2, <2>3
<1>6. CASE (\E o \in Owner : Persist(o)) \/ WriteStarts \/ WriteEnds
  BY <1>1, <1>6 DEF Persist, ChainWrite, WriteStarts, Serialise, WriteEnds, WriteDone, Settle, tickVars
<1>7. CASE Restart
  BY <1>7 DEF Restart, Follows
<1>8. CASE TickStarts
  <2>1. seen' = state.defs /\ state' = state
    BY <1>8 DEF TickStarts, storeVars
  <2>2. \A a \in Automation : state.defs[a].revision \in Nat
    BY <1>0, BoundsAssumption DEF Definition, Revisions
  <2>3. \A a \in Automation : state'.defs[a] = seen'[a] /\ state'.defs[a].revision >= seen'[a].revision
    BY <2>1, <2>2
  <2>. QED  BY <2>3 DEF Follows
<1>9. CASE Quiet /\ ~TickStarts
  <2>1. seen' = seen /\ state' = state
    BY <1>9 DEF Quiet, RecoverEnds, LookAt, Skip, ClaimSaved, StampSaved, TickEnds, StartSaved, Call, RecordSaved, FinishSaved,
                AbortEnds, ClockMoves, vars, storeVars, tickVars
  <2>2. InTick' => InTick
    BY <1>9 DEF Quiet, RecoverEnds, LookAt, Skip, ClaimSaved, StampSaved, TickEnds, StartSaved, Call, RecordSaved, FinishSaved,
                AbortEnds, ClockMoves, vars, ResumeFrom
  <2>. QED  BY <1>1, <2>1, <2>2
<1>. QED  BY <1>2, <1>3, <1>5, <1>6, <1>7, <1>8, <1>9, StepKinds DEF WriteSteps

LEMMA ListsAlways == Spec => [](Listed /\ Follows)
<1>1. Init => Listed /\ Follows
  <2>. SUFFICES ASSUME Init PROVE Listed /\ Follows
    OBVIOUS
  <2>1. PICK defs \in [Automation -> [live : {TRUE}, revision : {1}, enabled : BOOLEAN, minute : WallMinutes]] : seen = defs
    BY DEF Init
  <2>2. SeenTypes
    <3>1. \A def \in [live : {TRUE}, revision : {1}, enabled : BOOLEAN, minute : WallMinutes] :
            def \in [live : BOOLEAN, revision : 0..MaxRevision, enabled : BOOLEAN, minute : WallMinutes]
      <4>1. 1 \in 0..MaxRevision /\ TRUE \in BOOLEAN
        BY BoundsAssumption
      <4>2. {TRUE} \subseteq BOOLEAN /\ {1} \subseteq 0..MaxRevision
        BY <4>1
      <4>. QED  BY <4>2
    <3>2. DOMAIN seen = Automation /\ \A a \in Automation : seen[a] \in [live : {TRUE}, revision : {1}, enabled : BOOLEAN, minute : WallMinutes]
      BY <2>1
    <3>. QED  BY <3>1, <3>2 DEF SeenTypes
  <2>3. todo = {} /\ cands = {} /\ Named(won) = {} /\ Named(due) = {} /\ pc = "off"
    BY NamedShort DEF Init
  <2>. QED  BY <2>2, <2>3 DEF Listed, Follows, InTick
<1>. QED  BY <1>1, ListedStays, FollowsStays, TypedAlways, QueuedAlways, StretchesAlways, PTL DEF Spec

(* scheduler.js, tick: what is claimed or due of a definition that is disabled was listed by an
   earlier revision, or by one that was taken back. *)
THEOREM DisabledStaysQuietAlways == Spec => []DisabledStaysQuiet
<1>1. Typed /\ Stretches /\ Listed /\ Follows => DisabledStaysQuiet
  <2>. SUFFICES ASSUME Typed, Stretches, Listed, Follows,
                       NEW id \in {won[i] : i \in DOMAIN won} \cup {due[i] : i \in DOMAIN due},
                       state.defs[id[1]].live, ~state.defs[id[1]].enabled, state.defs[id[1]].revision = id[2]
                PROVE  seen[id[1]].revision < id[2]
    BY DEF DisabledStaysQuiet
  <2>1. due \in Seq(OccId) /\ won \in Seq(OccId)
    BY Sequences DEF Typed, TickTypes, RunTypes
  <2>2. id \in Named(won) \cup Named(due)
    BY <2>1 DEF Named, InSeq
  <2>3. InTick
    BY <2>2, NamedShort DEF Stretches, InTick
  <2>4. id[1] \in Automation
    BY <2>2 DEF Named, OccId
  <2>5. seen[id[1]].enabled
    BY <2>2 DEF Listed, Enabled
  <2>6. state.defs[id[1]].revision \in Nat /\ seen[id[1]].revision \in Nat
    BY <2>4, BoundsAssumption DEF Typed, StoreTypes, Copy, Shaped, Definition, Revisions, Listed, SeenTypes
  <2>7. state.defs[id[1]].revision >= seen[id[1]].revision /\ state.defs[id[1]].revision # seen[id[1]].revision
    BY <2>3, <2>4, <2>5 DEF Follows
  <2>. QED  BY <2>6, <2>7
<1>. QED  BY <1>1, TypedAlways, StretchesAlways, ListsAlways, PTL

\* What memory can still be, after the steps of the store.
LEMMA LaterCommits ==
  ASSUME NEW o \in Owner, NEW c, Commit(o, c), Queued, DOMAIN before = Owner
  PROVE  Later' \subseteq {state, c} /\ (o = Sched => Later' = {c})
<1>1. state' = c /\ before' = [before EXCEPT ![o] = state] /\ stale' = (stale \cup {p \in Owner : Pending(p)}) \ {o}
  BY DEF Commit
<1>2. phase' = [phase EXCEPT ![o] = "edited"] \/ phase' = [phase EXCEPT ![o] = "queued"]
  BY DEF Commit
<1>3. \A p \in Owner \ {o} : Pending(p)' => p \in stale'
  BY <1>1, <1>2 DEF Pending, Queued
<1>4. before'[o] = state
  BY <1>1
<1>5. Later' \subseteq {c} \cup {before'[p] : p \in {q \in Owner \ {Sched} : q = o}}
  BY <1>1, <1>3 DEF Later
<1>6. Later' \subseteq {c} \cup {state}
  BY <1>4, <1>5
<1>7. o = Sched => Later' = {c}
  BY <1>1, <1>5 DEF Later
<1>. QED  BY <1>6, <1>7

LEMMA LaterSettles ==
  ASSUME Queued, DOMAIN before = Owner, NEW ok \in BOOLEAN, Settle(ok, image), ~overlapped', ok \/ queue[1] # Sched
  PROVE  Later' \subseteq Later
<1>1. queue # <<>> /\ Head(queue) = queue[1] /\ queue[1] \in Owner /\ Pending(queue[1]) /\ phase \in [Owner -> Phases]
      /\ phase' = [phase EXCEPT ![queue[1]] = IF ok THEN "saved" ELSE "failed"]
  BY SettleQueued DEF Pending, Queued
<1>2. before' = before /\ stale' = stale \ {queue[1]}
      /\ (state' = state \/ (~ok /\ state' = before[queue[1]] /\ queue[1] \notin stale))
  BY <1>1 DEF Settle
<1>3. \A p \in Owner : Pending(p)' /\ p \notin stale' => Pending(p) /\ p \notin stale
  BY <1>1, <1>2 DEF Pending
<1>. QED  BY <1>1, <1>2, <1>3 DEF Later

LEMMA LaterChains ==
  ASSUME Queued, (\E o \in Owner : ChainWrite(o)) \/ Serialise \/ UNCHANGED storeVars
  PROVE  Later' \subseteq Later
<1>1. state' = state /\ before' = before /\ stale' = stale /\ \A p \in Owner : Pending(p)' => Pending(p)
  BY DEF ChainWrite, Serialise, storeVars, Pending, Queued
<1>. QED  BY <1>1 DEF Later

\* A failed save of the scheduler's own thwarts what awaits it.
LEMMA OwnSaveFails ==
  ASSUME Queued, Stretches, WriteErrs, queue[1] = Sched
  PROVE  Thwarted' \/ pc' = "aborting"
<1>1. phase' = [phase EXCEPT ![Sched] = "failed"] /\ phase[Sched] = "queued"
  BY SettleQueued DEF WriteErrs, WriteFailed
<1>2. pc' = pc
  BY DEF WriteErrs
<1>. QED  BY <1>1, <1>2, Owners DEF Stretches, Pending, Thwarted, Queued

LEMMA WritesLater ==
  ASSUME Typed, Queued, Stretches, ~overlapped', ~Thwarted', pc' # "aborting",
         (\E o \in Owner : Persist(o)) \/ WriteStarts \/ WriteEnds \/ WriteErrs
  PROVE  Later' \subseteq Later /\ ~Thwarted
<1>0. DOMAIN before = Owner
  BY DEF Typed, StoreTypes
<1>1. CASE (\E o \in Owner : Persist(o)) \/ WriteStarts
  <2>1. (\E o \in Owner : ChainWrite(o)) \/ Serialise
    BY <1>1 DEF Persist, WriteStarts
  <2>2. pc' = pc /\ (phase[Sched] = "failed" => phase'[Sched] = "failed")
    BY <1>1, <2>1, Owners DEF Persist, WriteStarts, ChainWrite, Serialise, Queued
  <2>. QED  BY <2>1, <2>2, LaterChains DEF Thwarted
<1>2. CASE WriteEnds \/ WriteErrs
  <2>1. PICK ok \in BOOLEAN : Settle(ok, image) /\ (~ok => WriteErrs)
    BY <1>2 DEF WriteEnds, WriteErrs, WriteDone, WriteFailed
  <2>2. phase' = [phase EXCEPT ![queue[1]] = IF ok THEN "saved" ELSE "failed"] /\ phase[queue[1]] = "queued" /\ pc' = pc
    BY <1>2, <2>1, SettleQueued DEF WriteEnds, WriteErrs
  <2>3. phase[Sched] = "failed" => phase'[Sched] = "failed"
    BY <2>2, Owners DEF Queued
  <2>4. ok \/ queue[1] # Sched
    BY <2>1, OwnSaveFails
  <2>. QED  BY <1>0, <2>1, <2>2, <2>3, <2>4, LaterSettles DEF Thwarted
<1>. QED  BY <1>1, <1>2

LEMMA OtherEditsLater ==
  ASSUME Typed, Queued, OtherEdits, ~Thwarted'
  PROVE  Later' \subseteq {state, state'} /\ state'.occ = state.occ /\ ~Thwarted
<1>1. PICK o \in Owner \ {Sched} : Commit(o, state') /\ state'.occ = state.occ
  BY OtherEditsKeep
<1>2. pc' = pc /\ phase'[Sched] = phase[Sched]
  BY OtherEditsKeep
<1>. QED  BY <1>1, <1>2, LaterCommits DEF Typed, StoreTypes, Thwarted

LEMMA SchedEditsLater ==
  ASSUME Typed, Queued, SchedEdits
  PROVE  Later' = {state'}
<1>1. PICK c : Commit(Sched, c)
  BY SchedEditsAre
<1>2. state' = c
  BY <1>1 DEF Commit
<1>. QED  BY <1>1, <1>2, LaterCommits, Owners DEF Typed, StoreTypes

LEMMA OverlapLasts ==
  ASSUME Typed, [Next]_vars, ~overlapped'
  PROVE  ~overlapped
BY OverlappedStays

\* What is claimed or running after each edit of the scheduler.
LEMMA MarkedOpen ==
  ASSUME NEW id \in OccId, NEW status \in Statuses, NEW table \in [Steps -> Outcomes], Shaped(state)
  PROVE  /\ Open(Marked(id, status, table)) \subseteq Open(state) \cup {id}
         /\ status \notin Unsettled => id \notin Open(Marked(id, status, table))
<1>1. MarkedTo(Marked(id, status, table), id, status, table)
  BY MarkedIs
<1>2. Known(id) => Marked(id, status, table).occ[id] = [status |-> status, outcomes |-> table]
  BY DEF Marked, Shaped, Parts
<1>3. ~Known(id) => Marked(id, status, table).occ[id].status = "absent"
  BY DEF Marked, Known
<1>. QED  BY <1>1, <1>2, <1>3 DEF MarkedTo, Open, Unsettled

LEMMA SchedEditsTend ==
  ASSUME Typed, Stretches, ~Recover, ~Abort, SchedEdits, Open(state) \subseteq Named(due)
  PROVE  Open(state') \subseteq Expected'
<1>0. /\ Shaped(state) /\ due \in Seq(OccId) /\ outcomes \in [Steps -> Outcomes] /\ \A c \in cands : c.id \in OccId
      /\ \A s : Named(s) \subseteq OccId
  BY DEF Typed, StoreTypes, TickTypes, RunTypes, Copy, Named
<1>1. CASE Claim
  <2>1. due' = due /\ pc' = "claiming"
    BY <1>1 DEF Claim, SchedCommit, runVars
  <2>2. PICK c \in cands : (state' = state /\ won' = <<>>) \/ (state' = Claimed(c.id) /\ won' = <<c.id>>)
    BY <1>1 DEF Claim, SchedCommit, Commit
  <2>3. CASE state' = state
    BY <2>1, <2>3 DEF Expected, Named, InSeq
  <2>4. CASE state' = Claimed(c.id) /\ won' = <<c.id>>
    <3>1. Open(Claimed(c.id)) \subseteq Open(state) \cup {c.id}
      BY <1>0, <2>2, ClaimedIs DEF Open, Absent, Unsettled
    <3>2. Named(due') = Named(due) /\ Named(won') = {c.id}
      BY <1>0, <2>1, <2>2, <2>4, NamedShort
    <3>3. Expected' = Named(due') \cup Named(won')
      BY <2>1 DEF Expected, Named, InSeq
    <3>4. Open(state') \subseteq Open(state) \cup {c.id}
      BY <2>4, <3>1
    <3>. QED  BY <3>2, <3>3, <3>4
  <2>. QED  BY <2>2, <2>3, <2>4
<1>2. CASE Stamp
  <2>1. state'.occ = state.occ /\ due' = due /\ pc' = "stamping"
    BY <1>0, <1>2, StampedIs DEF Stamp, SchedCommit, Commit, runVars
  <2>2. Open(state') = Open(state) /\ Expected' = Named(due)
    BY <2>1 DEF Expected, Open, Named, InSeq
  <2>. QED  BY <2>2
<1>3. CASE ExecuteStarts \/ MarkStep \/ \E r \in budget.results : Return(r)
  <2>1. due # <<>> /\ Head(due) \in OccId /\ Head(due) \in Named(due)
    <3>1. due # <<>>
      BY <1>3 DEF ExecuteStarts, MarkStep, Return, Typed, RunTypes
    <3>. QED  BY <1>0, <3>1, DueHead, QueueHead, HeadTailProperties DEF Named, InSeq, Typed
  <2>2. \E table \in [Steps -> Outcomes] : state' = Marked(Head(due), "running", table)
    <3>1. CASE ExecuteStarts
      BY <3>1 DEF ExecuteStarts, SchedCommit, Commit, NoOutcomes, Outcomes
    <3>2. CASE MarkStep
      BY <1>0, <3>2 DEF MarkStep, SchedCommit, Commit, Outcomes
    <3>3. ASSUME NEW r \in budget.results, Return(r)  PROVE \E table \in [Steps -> Outcomes] : state' = Marked(Head(due), "running", table)
      <4>1. r \in Outcomes
        BY DEF Typed, BudgetTypes, Outcomes
      <4>. QED  BY <1>0, <3>3, <4>1 DEF Return, SchedCommit, Commit
    <3>. QED  BY <1>3, <3>1, <3>2, <3>3
  <2>3. due' = due /\ pc' \in {"starting", "marking", "recording"}
    BY <1>3 DEF ExecuteStarts, MarkStep, Return, SchedCommit, runVars
  <2>4. Open(state') \subseteq Open(state) \cup {Head(due)}
    <3>1. "running" \in Statuses
      BY DEF Statuses, Unsettled
    <3>2. PICK table \in [Steps -> Outcomes] : state' = Marked(Head(due), "running", table)
      BY <2>2
    <3>3. Open(Marked(Head(due), "running", table)) \subseteq Open(state) \cup {Head(due)}
      BY <1>0, <2>1, <3>1, MarkedOpen
    <3>. QED  BY <3>2, <3>3
  <2>5. Expected' = Named(due)
    BY <2>3 DEF Expected, Named, InSeq
  <2>. QED  BY <2>1, <2>4, <2>5
<1>4. CASE Finish
  <2>1. due # <<>> /\ due' = due /\ pc' = "finishing" /\ state' = Completed(Head(due), outcomes)
    BY <1>4 DEF Finish, SchedCommit, Commit, runVars, Typed, RunTypes
  <2>2. Head(due) \in OccId /\ FinalStatus(outcomes) \in Statuses \ ({"absent"} \cup Unsettled)
    BY <2>1, DueHead DEF Typed, Statuses, Settled, Unsettled, FinalStatus
  <2>3. Completed(Head(due), outcomes).occ = Marked(Head(due), FinalStatus(outcomes), outcomes).occ
    BY <1>0, <2>2, CompletedOcc
  <2>. DEFINE m == Marked(Head(due), FinalStatus(outcomes), outcomes)
  <2>4. Open(m) \subseteq Open(state) \cup {Head(due)} /\ Head(due) \notin Open(m)
    BY <1>0, <2>2, MarkedOpen
  <2>5. state'.occ = m.occ
    BY <2>1, <2>3
  <2>. HIDE DEF m
  <2>6. Open(state') = Open(m)
    BY <2>5 DEF Open
  <2>7. Named(due) \subseteq Named(Tail(due)) \cup {Head(due)}
    BY <1>0, <2>1, NamedTail
  <2>8. Expected' = Named(Tail(due))
    BY <2>1 DEF Expected, Named, InSeq
  <2>. QED  BY <2>4, <2>6, <2>7, <2>8
<1>. QED  BY <1>1, <1>2, <1>3, <1>4 DEF SchedEdits

LEMMA TendedStays ==
  ASSUME Typed, Queued, Stretches, Tended, [Next]_vars
  PROVE  Tended'
<1>. SUFFICES ASSUME ~overlapped', ~aborted', ~Thwarted', pc' \notin {"off", "dead"}
              PROVE  \A c \in Later' : Open(c) \subseteq Expected'
  BY DEF Tended
<1>0. ~overlapped /\ due \in Seq(OccId) /\ won \in Seq(OccId)
  BY OverlapLasts, Sequences DEF Typed, TickTypes, RunTypes
<1>1. CASE OtherEdits
  <2>1. UNCHANGED <<pc, won, due, aborted>>
    BY <1>1, OtherEditsKeep DEF tickVars, runVars
  <2>2. \A c \in Later' : c.occ = state.occ
    BY <1>1, OtherEditsLater
  <2>3. Open(state) \subseteq Expected
    BY <1>0, <1>1, <2>1, OtherEditsLater DEF Tended, Later
  <2>4. Expected' = Expected
    BY <2>1 DEF Expected, Named, InSeq
  <2>. QED  BY <2>2, <2>3, <2>4 DEF Open
<1>2. CASE (\E o \in Owner : Persist(o)) \/ WriteStarts \/ WriteEnds \/ WriteErrs
  <2>1. UNCHANGED <<pc, won, due, aborted>>
    BY <1>2, WritesKeep DEF runVars
  <2>2. Later' \subseteq Later /\ ~Thwarted
    BY <1>2, <2>1, WritesLater DEF Stretches
  <2>3. Expected' = Expected
    BY <2>1 DEF Expected, Named, InSeq
  <2>. QED  BY <1>0, <2>1, <2>2, <2>3 DEF Tended
<1>3. CASE Restart
  BY <1>3 DEF Restart
<1>4. CASE Abort
  BY <1>4 DEF Abort
<1>5. CASE Recover
  <2>1. Later' = {state'} /\ state' = Recovered
    BY <1>5, SchedEditsLater DEF SchedEdits, Recover, SchedCommit, Commit
  <2>2. Open(Recovered) = {}
    <3>1. Shaped(state)
      BY DEF Typed, StoreTypes, Copy
    <3>2. \A r : Interrupted(r).status \notin Unsettled
      BY DEF Interrupted, Unsettled
    <3>3. \A i \in OccId : Recovered.occ[i].status \notin Unsettled
      BY <3>1, <3>2, RecoveredIs
    <3>. QED  BY <3>3 DEF Open
  <2>. QED  BY <2>1, <2>2
<1>6. CASE SchedEdits /\ ~Recover /\ ~Abort
  <2>1. pc \in {"scan", "run", "step", "calling"} /\ aborted' = aborted
    <3>1. CASE Claim
      BY <3>1 DEF Claim
    <3>. QED  BY <1>6, <3>1 DEF SchedEdits, Stamp, ExecuteStarts, MarkStep, Finish, Return
  <2>2. Open(state) \subseteq Named(due)
    BY <1>0, <2>1 DEF Tended, Thwarted, Waits, Later, Expected
  <2>. QED  BY <1>6, <2>2, SchedEditsLater, SchedEditsTend
<1>7. CASE Quiet
  <2>1. UNCHANGED storeVars /\ aborted' = aborted /\ Later' \subseteq Later
    <3>1. UNCHANGED storeVars /\ aborted' = aborted
      BY <1>7 DEF Quiet, RecoverEnds, TickStarts, LookAt, Skip, ClaimSaved, StampSaved, TickEnds, StartSaved, Call, RecordSaved, FinishSaved,
                  AbortEnds, ClockMoves, vars
    <3>. QED  BY <3>1, LaterChains
  <2>2. ASSUME ~Thwarted, pc \notin {"off", "dead"}, Expected \subseteq Expected'
        PROVE  \A c \in Later' : Open(c) \subseteq Expected'
    BY <1>0, <2>1, <2>2 DEF Tended
  <2>3. CASE ClaimSaved
    <3>1. due' = due \o won /\ pc = "claiming" /\ pc' = "scan" /\ ~Thwarted
      BY <2>3 DEF ClaimSaved, ResumeFrom, Thwarted
    <3>2. Named(due \o won) = Named(due) \cup Named(won)
      BY <1>0, NamedJoined
    <3>3. Expected' = Named(due \o won)
      BY <3>1 DEF Expected, Named, InSeq
    <3>. QED  BY <2>2, <3>1, <3>2, <3>3 DEF Expected
  <2>4. CASE FinishSaved
    <3>1. due' = Tail(due) /\ pc = "finishing" /\ pc' = "run" /\ ~Thwarted
      BY <2>4 DEF FinishSaved, ResumeFrom, Thwarted
    <3>2. Expected' = Named(Tail(due))
      BY <3>1 DEF Expected, Named, InSeq
    <3>. QED  BY <2>2, <3>1, <3>2 DEF Expected
  <2>5. CASE AbortEnds
    BY <2>1, <2>5 DEF AbortEnds, Stretches
  <2>6. CASE RecoverEnds
    <3>1. due' = due /\ pc = "recovering" /\ pc' = "idle" /\ ~Thwarted
      BY <2>6 DEF RecoverEnds, Thwarted, runVars
    <3>2. Expected' = Named(due)
      BY <3>1 DEF Expected, Named, InSeq
    <3>. QED  BY <2>2, <3>1, <3>2 DEF Expected
  <2>7. CASE (\E t \in Ticks : ClockMoves(t)) \/ UNCHANGED vars
    <3>1. UNCHANGED <<due, won, pc, phase>>
      BY <2>7 DEF ClockMoves, vars, tickVars, runVars, storeVars
    <3>2. Expected' = Expected
      BY <3>1 DEF Expected, Named, InSeq
    <3>. QED  BY <2>2, <3>1, <3>2 DEF Thwarted
  <2>8. CASE TickStarts \/ (\E a \in Automation : LookAt(a) \/ Skip(a)) \/ StampSaved \/ TickEnds \/ StartSaved \/ Call \/ RecordSaved
    <3>1. /\ due' = due
          /\ \/ pc \in {"idle", "scan", "run"}
             \/ pc \in {"stamping", "starting", "marking", "recording"} /\ phase[Sched] = "saved"
          /\ pc' \notin {"claiming", "finishing"}
      BY <2>8 DEF TickStarts, LookAt, Skip, StampSaved, TickEnds, StartSaved, Call, RecordSaved, ResumeFrom, runVars
    <3>2. Expected' = Named(due)
      BY <3>1 DEF Expected, Named, InSeq
    <3>. QED  BY <2>2, <3>1, <3>2 DEF Expected, Thwarted, Waits
  <2>. QED  BY <1>7, <2>3, <2>4, <2>5, <2>6, <2>7, <2>8 DEF Quiet
<1>. QED  BY <1>1, <1>2, <1>3, <1>4, <1>5, <1>6, <1>7, StepKinds DEF WriteSteps

(* scheduler.js, recover and tick: between ticks no occurrence is claimed or running, unless a write
   failed in this process or a rollback put back a stale snapshot. *)
THEOREM NoneLeftOpenAlways == Spec => []NoneLeftOpen
<1>1. Init => Tended
  BY DEF Init, Tended
<1>2. Stretches /\ Tended => NoneLeftOpen
  <2>1. pc = "idle" /\ Stretches => ~Thwarted /\ Expected = {}
    BY NamedShort DEF Stretches, InTick, Thwarted, Waits, Expected
  <2>. QED  BY <2>1 DEF Tended, NoneLeftOpen, Open, Later
<1>. QED  BY <1>1, <1>2, TendedStays, TypedAlways, QueuedAlways, StretchesAlways, PTL DEF Spec

\* The instants, and what each edit leaves as the last tick.
LEMMA SchedTimes ==
  ASSUME Typed, SchedEdits
  PROVE  state'.lastTick \in {state.lastTick, now}
<1>0. DOMAIN state = Parts
  BY DEF Typed, StoreTypes, Shaped, Copy
<1>. USE <1>0 DEF Parts, SchedCommit, Commit
<1>m. \A id, status, table : Marked(id, status, table).lastTick = state.lastTick /\ DOMAIN Marked(id, status, table) = Parts
  BY DEF Marked
<1>1. CASE Recover
  BY <1>1 DEF Recover, Recovered
<1>2. CASE Claim
  BY <1>2 DEF Claim, Claimed
<1>3. CASE Stamp \/ Abort
  BY <1>3 DEF Stamp, Abort, Stamped
<1>4. CASE ExecuteStarts
  BY <1>4, <1>m DEF ExecuteStarts
<1>5. CASE MarkStep
  BY <1>5, <1>m DEF MarkStep
<1>6. CASE Finish
  <2>1. PICK h : Completed(Head(due), outcomes) = [Marked(Head(due), FinalStatus(outcomes), outcomes) EXCEPT !.history = h]
    BY CompletedIs
  <2>2. state' = Completed(Head(due), outcomes)
    BY <1>6 DEF Finish
  <2>. QED  BY <1>m, <2>1, <2>2
<1>7. ASSUME NEW r \in budget.results, Return(r)  PROVE state'.lastTick = state.lastTick
  BY <1>7, <1>m DEF Return
<1>. QED  BY <1>1, <1>2, <1>3, <1>4, <1>5, <1>6, <1>7 DEF SchedEdits

LEMMA TimesStay ==
  ASSUME Typed, Queued, Times, [Next]_vars
  PROVE  Times'
<1>0. DOMAIN before = Owner /\ state \in Copy
  BY DEF Typed, StoreTypes, Copy
<1>1. \A c \in Copy' : c.lastTick \in {0} \cup Ticks
  <2>1. CASE WriteSteps \/ Quiet
    BY <2>1, WriteCopies DEF Times
  <2>2. CASE OtherEdits
    <3>1. PICK o \in Owner : Commit(o, state')
      BY <2>2, OtherEditsKeep
    <3>2. state'.lastTick = state.lastTick
      <4>1. CASE ClientNext
        BY <2>2, <4>1, OtherDefs DEF ClientNext
      <4>2. CASE \E p \in Others : OtherSave(p)
        BY <4>2 DEF OtherSave, Commit
      <4>. QED  BY <2>2, <4>1, <4>2 DEF OtherEdits
    <3>. QED  BY <1>0, <3>1, <3>2, CommitCopies DEF Times
  <2>3. CASE SchedEdits
    <3>1. PICK c : Commit(Sched, c)
      BY <2>3, SchedEditsAre
    <3>. QED  BY <1>0, <2>3, <3>1, CommitCopies, SchedTimes, Owners DEF Times
  <2>. QED  BY <2>1, <2>2, <2>3, StepKinds
<1>2. clock' \in Ticks /\ now' \in Ticks /\ since' \in {0} \cup Ticks
  <2>0. clock \in Ticks /\ now \in Ticks /\ since \in {0} \cup Ticks /\ state.lastTick \in {0} \cup Ticks
    BY <1>0 DEF Times
  <2>1. CASE TickStarts \/ \E t \in Ticks : ClockMoves(t)
    BY <2>0, <2>1 DEF TickStarts, ClockMoves, tickVars
  <2>2. CASE SchedEdits
    BY <2>0, <2>2 DEF SchedEdits, Recover, Claim, Stamp, Abort, ExecuteStarts, MarkStep, Finish, Return, tickVars
  <2>3. CASE OtherEdits
    BY <2>0, <2>3 DEF OtherEdits, ClientNext, Update, Remove, OtherSave, tickVars
  <2>4. CASE WriteSteps
    BY <2>0, <2>4 DEF WriteSteps, Persist, WriteStarts, WriteEnds, WriteErrs, Restart, tickVars
  <2>5. CASE Quiet /\ ~TickStarts /\ ~(\E t \in Ticks : ClockMoves(t))
    BY <2>0, <2>5 DEF Quiet, RecoverEnds, LookAt, Skip, ClaimSaved, StampSaved, TickEnds, StartSaved, Call, RecordSaved, FinishSaved,
                AbortEnds, vars, tickVars
  <2>. QED  BY <2>1, <2>2, <2>3, <2>4, <2>5, StepKinds
<1>. QED  BY <1>1, <1>2 DEF Times

LEMMA TimesAlways == Spec => []Times
<1>1. Init => Times
  BY DEF Init, StoreInit, InitialContent, Times, Copy
<1>. QED  BY <1>1, TimesStay, TypedAlways, QueuedAlways, PTL DEF Spec

\* What is covered stays so, while the tick's list and its instants are the same.
LEMMA CoverKeeps ==
  ASSUME NEW a, NEW c, NEW d, Cover(c, a), Knows(c) \subseteq Knows(d) \cup forgotten',
         UNCHANGED <<now, since>>, seen'[a] = seen[a], cands \subseteq cands', forgotten \subseteq forgotten'
  PROVE  Cover(d, a)'
BY DEF Cover, Wanted, Wants

LEMMA CoveredIdle ==
  ASSUME Typed, Covered, Later' \subseteq Later, ~Thwarted, ~overlapped, pc \in Claims,
         UNCHANGED <<now, since, forgotten>>, cands \subseteq cands',
         skipped \cup todo \subseteq skipped' \cup todo',
         \A a \in Automation : Unchanged(a)' => Unchanged(a) /\ seen'[a] = seen[a]
  PROVE  Covered'
<1>. SUFFICES ASSUME NEW c \in Later', NEW a \in Automation \ (skipped' \cup todo'), Unchanged(a)'
              PROVE  Cover(c, a)'
  BY DEF Covered
<1>1. Cover(c, a)
  BY DEF Covered
<1>. QED  BY <1>1, CoverKeeps

\* A definition the tick listed is not edited into one it listed.
LEMMA UnchangedBefore ==
  ASSUME Typed, Typed', Queued, Stretches, Listed, Follows, [Next]_vars, InTick, ~TickStarts, ~Restart,
         NEW a \in Automation, Unchanged(a)'
  PROVE  Unchanged(a) /\ seen'[a] = seen[a]
<1>0. /\ state.defs \in [Automation -> Definition] /\ state'.defs \in [Automation -> Definition]
      /\ state.defs[a].revision \in Nat \ {0} /\ state'.defs[a].revision \in Nat \ {0}
      /\ seen[a].revision \in Nat
  BY BoundsAssumption DEF Typed, StoreTypes, Shaped, Copy, Definition, Revisions, Listed, SeenTypes
<1>1. state'.defs[a] = seen'[a] /\ seen'[a].live /\ seen'[a].enabled
  BY DEF Unchanged, Enabled
<1>2. CASE WriteErrs
  <2>1. seen'[a] = IF state'.defs[a] = state.defs[a] THEN seen[a] ELSE [seen[a] EXCEPT !.revision = 0]
    BY <1>2 DEF WriteErrs
  <2>2. state'.defs[a] = state.defs[a]
    BY <1>0, <1>1, <2>1 DEF Listed, SeenTypes
  <2>. QED  BY <1>1, <2>1, <2>2 DEF Unchanged, Enabled
<1>3. CASE ~WriteErrs
  <2>1. seen' = seen
    BY <1>3, SeenSame
  <2>2. CASE OtherEdits
    <3>1. state.defs[a].revision >= seen[a].revision
      BY DEF Follows
    <3>2. state'.defs[a].revision # state.defs[a].revision + 1
      BY <1>0, <1>1, <2>1, <3>1
    <3>3. state'.defs[a] = state.defs[a]
      BY <1>1, <2>1, <2>2, <3>2, OtherDefs
    <3>. QED  BY <1>1, <2>1, <3>3 DEF Unchanged, Enabled
  <2>3. CASE SchedEdits
    BY <1>1, <2>1, <2>3, SchedDefs DEF Unchanged, Enabled
  <2>4. CASE Quiet
    <3>1. state' = state
      BY <2>4 DEF Quiet, RecoverEnds, TickStarts, LookAt, Skip, ClaimSaved, StampSaved, TickEnds, StartSaved, Call, RecordSaved,
                  FinishSaved, AbortEnds, ClockMoves, vars, storeVars
    <3>. QED  BY <1>1, <2>1, <3>1 DEF Unchanged, Enabled
  <2>5. CASE (\E o \in Owner : Persist(o)) \/ WriteStarts \/ WriteEnds
    <3>1. state' = state
      BY <2>5 DEF Persist, ChainWrite, WriteStarts, Serialise, WriteEnds, WriteDone, Settle
    <3>. QED  BY <1>1, <2>1, <3>1 DEF Unchanged, Enabled
  <2>. QED  BY <1>3, <2>2, <2>3, <2>4, <2>5, StepKinds DEF WriteSteps
<1>. QED  BY <1>2, <1>3

\* The next listed automation: every minute it is to run in becomes a candidate.
LEMMA LookAtCovers ==
  ASSUME Typed, Times, NEW a \in Automation, LookAt(a), Unchanged(a), NEW c
  PROVE  Cover(c, a)'
<1>1. cands' = Scheduled(a, state.defs[a], since, now) /\ UNCHANGED <<seen, now, since>>
  BY DEF LookAt
<1>. SUFFICES ASSUME NEW m \in Wanted(a)  PROVE [at |-> m, id |-> Wants(a)] \in Scheduled(a, state.defs[a], since, now)
  BY <1>1 DEF Cover, Wanted, Wants
<1>2. /\ m \in UtcMinutes /\ since # 0 /\ since <= now /\ now - since <= Grace
      /\ MinuteOf(since) <= m /\ m <= MinuteOf(now) /\ LocalTime[m] = state.defs[a].minute
      /\ Wants(a) = <<a, state.defs[a].revision, state.defs[a].minute>>
  BY DEF Wanted, Wants, Unchanged
<1>3. now \in Nat /\ since \in Nat /\ Grace \in Nat /\ PerMinute \in Nat \ {0} /\ Ticks \subseteq Nat
  BY BoundsAssumption DEF Times
<1>4. m \in Nat /\ MinuteOf(since) \in Nat /\ MinuteOf(now) \in Nat
  BY <1>2, <1>3 DEF UtcMinutes, MinuteOf
<1>5. m \in CandidateMinutes(since, now)
  BY <1>2, <1>3, <1>4 DEF CandidateMinutes
<1>. QED  BY <1>2, <1>5 DEF Scheduled

LEMMA ClaimCovers ==
  ASSUME Typed, Claim, NEW a, Cover(state, a), NEW s, s = state'
  PROVE  Cover(s, a)'
<1>0. Shaped(state) /\ (\A c \in cands : c.id \in OccId) /\ UNCHANGED <<now, since, seen>>
  BY DEF Typed, StoreTypes, TickTypes, Copy, Claim
<1>1. PICK c \in cands : /\ cands' = cands \ {c}
                         /\ \/ Known(c.id) /\ state' = state /\ forgotten' = forgotten
                            \/ /\ state' = Claimed(c.id)
                               /\ forgotten' = forgotten \cup {i \in OccId : Known(i) /\ ~InSeq(i, KeptOrder(c.id))}
  BY DEF Claim, SchedCommit, Commit
<1>2. Knows(state) \subseteq Knows(state') \cup forgotten' /\ forgotten \subseteq forgotten'
  <2>1. CASE state' = state /\ forgotten' = forgotten
    BY <2>1
  <2>2. CASE state' = Claimed(c.id) /\ forgotten' = forgotten \cup {i \in OccId : Known(i) /\ ~InSeq(i, KeptOrder(c.id))}
    <3>1. \A i \in OccId : Known(i) => Claimed(c.id).occ[i].status # "absent" \/ ~InSeq(i, KeptOrder(c.id))
      BY <1>0, <1>1, ClaimedIs DEF Known
    <3>. QED  BY <2>2, <3>1 DEF Knows, Known
  <2>. QED  BY <1>1, <2>1, <2>2
<1>3. c.id \in Knows(state')
  <2>1. CASE Known(c.id) /\ state' = state
    BY <1>0, <1>1, <2>1 DEF Knows, Known
  <2>2. CASE state' = Claimed(c.id)
    <3>1. Claimed(c.id).occ[c.id] = [status |-> "claimed", outcomes |-> NoOutcomes]
      BY <1>0, <1>1, ClaimedIs
    <3>. QED  BY <1>0, <1>1, <2>2, <3>1 DEF Knows
  <2>. QED  BY <1>1, <2>1, <2>2
<1>4. Wants(a)' = Wants(a) /\ Wanted(a)' = Wanted(a)
  BY <1>0 DEF Wants, Wanted
<1>5. \A m \in Wanted(a) : [at |-> m, id |-> Wants(a)] \in cands' \/ Wants(a) \in Knows(state') \cup forgotten'
  <2>. TAKE m \in Wanted(a)
  <2>1. CASE [at |-> m, id |-> Wants(a)] = c
    BY <1>3, <2>1
  <2>2. CASE [at |-> m, id |-> Wants(a)] # c
    BY <1>1, <1>2, <2>2 DEF Cover
  <2>. QED  BY <2>1, <2>2
<1>. QED  BY <1>4, <1>5 DEF Cover, Knows

LEMMA CoveredStays ==
  ASSUME Typed, Typed', Queued, Stretches, Listed, Follows, Times, Covered, [Next]_vars
  PROVE  Covered'
<1>. SUFFICES ASSUME ~overlapped', ~Thwarted', pc' \in Claims
              PROVE  Covered'
  BY DEF Covered
<1>. USE DEF Claims, InTick
<1>0. ~overlapped /\ Shaped(state) /\ state \in Later
  BY OverlapLasts DEF Typed, StoreTypes, Copy, Later
<1>1. CASE OtherEdits
  <2>1. UNCHANGED <<pc, now, since, skipped, todo, cands, forgotten>>
    BY <1>1, OtherEditsKeep DEF tickVars
  <2>2. Later' \subseteq {state, state'} /\ state'.occ = state.occ /\ ~Thwarted
    BY <1>1, OtherEditsLater
  <2>3. \A a \in Automation : Unchanged(a)' => Unchanged(a) /\ seen'[a] = seen[a]
    <3>1. ~TickStarts /\ ~Restart
      BY <2>1 DEF TickStarts, Restart
    <3>. QED  BY <2>1, <3>1, UnchangedBefore
  <2>. SUFFICES ASSUME NEW c \in Later', NEW a \in Automation \ (skipped' \cup todo'), Unchanged(a)'
                PROVE  Cover(c, a)'
    BY DEF Covered
  <2>4. Cover(state, a) /\ seen'[a] = seen[a]
    BY <1>0, <2>1, <2>2, <2>3 DEF Covered
  <2>5. Knows(state) \subseteq Knows(c)
    BY <2>2 DEF Knows
  <2>. QED  BY <2>1, <2>4, <2>5, CoverKeeps
<1>2. CASE (\E o \in Owner : Persist(o)) \/ WriteStarts \/ WriteEnds \/ WriteErrs
  <2>1. UNCHANGED <<pc, now, since, skipped, todo, cands, forgotten>>
    BY <1>2, WritesKeep
  <2>2. Later' \subseteq Later /\ ~Thwarted
    BY <1>2, WritesLater
  <2>3. \A a \in Automation : Unchanged(a)' => Unchanged(a) /\ seen'[a] = seen[a]
    <3>1. ~TickStarts /\ ~Restart
      BY <2>1 DEF TickStarts, Restart
    <3>. QED  BY <2>1, <3>1, UnchangedBefore
  <2>. QED  BY <1>0, <2>1, <2>2, <2>3, CoveredIdle
<1>3. CASE Restart \/ Recover \/ Abort \/ ExecuteStarts \/ MarkStep \/ Finish \/ \E r \in budget.results : Return(r)
  BY <1>3 DEF Restart, Recover, Abort, ExecuteStarts, MarkStep, Finish, Return, SchedCommit
<1>4. CASE Claim
  <2>1. pc = "scan" /\ UNCHANGED <<skipped, todo>>
    BY <1>4 DEF Claim
  <2>2. Later' = {state'}
    BY <1>4, SchedEditsLater DEF SchedEdits
  <2>. SUFFICES ASSUME NEW s \in Later', NEW a \in Automation \ (skipped \cup todo), Unchanged(a)'
                PROVE  Cover(s, a)'
    BY <2>1 DEF Covered
  <2>3. Unchanged(a)
    BY <1>4, <2>1, UnchangedBefore DEF TickStarts, Restart
  <2>4. Cover(state, a)
    BY <1>0, <2>1, <2>3 DEF Covered, Thwarted, Waits
  <2>. QED  BY <1>4, <2>2, <2>4, ClaimCovers
<1>5. CASE Stamp
  <2>1. pc = "scan" /\ UNCHANGED <<skipped, todo, now, since, cands, seen, forgotten>>
    BY <1>5 DEF Stamp, tickVars
  <2>2. Later' = {state'} /\ state' = Stamped
    BY <1>5, SchedEditsLater DEF SchedEdits, Stamp, SchedCommit, Commit
  <2>3. Knows(Stamped) = Knows(state)
    BY <1>0, StampedIs DEF Knows
  <2>. SUFFICES ASSUME NEW c \in Later', NEW a \in Automation \ (skipped \cup todo), Unchanged(a)'
                PROVE  Cover(c, a)'
    BY <2>1 DEF Covered
  <2>4. Unchanged(a)
    BY <1>5, <2>1, UnchangedBefore DEF TickStarts, Restart
  <2>5. Cover(state, a)
    BY <1>0, <2>1, <2>4 DEF Covered, Thwarted, Waits
  <2>6. Knows(state) \subseteq Knows(c)
    BY <2>2, <2>3
  <2>. QED  BY <2>1, <2>5, <2>6, CoverKeeps
<1>6. ASSUME NEW b \in Automation, LookAt(b)  PROVE Covered'
  <2>1. pc = "scan" /\ cands = {} /\ todo' = todo \ {b} /\ UNCHANGED <<storeVars, skipped, now, since, seen, forgotten>>
    BY <1>6 DEF LookAt
  <2>. SUFFICES ASSUME NEW c \in Later', NEW a \in Automation \ (skipped \cup todo'), Unchanged(a)'
                PROVE  Cover(c, a)'
    BY <2>1 DEF Covered
  <2>2. Unchanged(a) /\ c \in Later
    BY <2>1, LaterChains DEF Unchanged, Enabled, storeVars
  <2>3. CASE a = b
    BY <1>6, <2>2, <2>3, LookAtCovers
  <2>4. CASE a # b
    <3>1. Cover(c, a)
      BY <1>0, <2>1, <2>2, <2>4 DEF Covered, Thwarted, Waits
    <3>. QED  BY <2>1, <3>1, CoverKeeps
  <2>. QED  BY <2>3, <2>4
<1>7. CASE (\E b \in Automation : Skip(b)) \/ ClaimSaved \/ (\E t \in Ticks : ClockMoves(t)) \/ UNCHANGED vars
  <2>1. UNCHANGED <<storeVars, now, since, seen, cands, forgotten>> /\ skipped \cup todo \subseteq skipped' \cup todo'
    BY <1>7 DEF Skip, ClaimSaved, ClockMoves, vars, tickVars
  <2>2. ~Thwarted /\ pc \in Claims
    BY <1>7 DEF Skip, ClaimSaved, ResumeFrom, ClockMoves, vars, storeVars, Thwarted, Waits
  <2>3. \A a \in Automation : Unchanged(a)' => Unchanged(a) /\ seen'[a] = seen[a]
    BY <2>1 DEF Unchanged, Enabled, storeVars
  <2>4. Later' \subseteq Later
    BY <2>1, LaterChains
  <2>. QED  BY <1>0, <2>1, <2>2, <2>3, <2>4, CoveredIdle
<1>8. CASE TickStarts
  <2>1. todo' = {a \in Automation : state.defs[a].live /\ state.defs[a].enabled} /\ seen' = state.defs
    BY <1>8 DEF TickStarts
  <2>2. \A a \in Automation : Unchanged(a)' => a \in todo'
    BY <2>1 DEF Unchanged, Enabled
  <2>. QED  BY <2>2 DEF Covered
<1>9. CASE RecoverEnds \/ StampSaved \/ TickEnds \/ StartSaved \/ Call \/ RecordSaved \/ FinishSaved \/ AbortEnds
  BY <1>9 DEF RecoverEnds, StampSaved, TickEnds, StartSaved, Call, RecordSaved, FinishSaved, AbortEnds
<1>. QED  BY <1>1, <1>2, <1>3, <1>4, <1>5, <1>6, <1>7, <1>8, <1>9, StepKinds DEF SchedEdits, WriteSteps, Quiet

(* scheduler.js, tick and dueMinuteCandidates: a tick whose writes all went well has claimed, for each
   automation it could execute and whose definition is still the one it listed, every minute since the
   last tick in which it is to run, or a record pruned since shows that it had been claimed. *)
THEOREM NoMinuteSkippedAlways == Spec => NoMinuteSkipped
<1>1. Init => Covered
  BY DEF Init, Covered, Claims
<1>2. Typed /\ Stretches /\ Listed /\ Covered /\ [Next]_vars =>
        [pc = "stamping" /\ pc' = "run" /\ ~overlapped =>
           \A a \in Automation \ skipped, m \in UtcMinutes :
             LET def == state.defs[a]
                 id  == <<a, def.revision, def.minute>>
             IN /\ def = seen[a] /\ def.live /\ def.enabled
                /\ since # 0 /\ since <= now /\ now - since <= Grace
                /\ MinuteOf(since) <= m /\ m <= MinuteOf(now)
                /\ LocalTime[m] = def.minute
                => Known(id) \/ id \in forgotten]_vars
  <2>. SUFFICES ASSUME Typed, Stretches, Listed, Covered, [Next]_vars, pc = "stamping", pc' = "run", ~overlapped,
                       NEW a \in Automation \ skipped, NEW m \in UtcMinutes,
                       state.defs[a] = seen[a], state.defs[a].live, state.defs[a].enabled,
                       since # 0, since <= now, now - since <= Grace,
                       MinuteOf(since) <= m, m <= MinuteOf(now),
                       LocalTime[m] = state.defs[a].minute
                PROVE  \/ Known(<<a, state.defs[a].revision, state.defs[a].minute>>)
                       \/ <<a, state.defs[a].revision, state.defs[a].minute>> \in forgotten
    OBVIOUS
  <2>1. phase[Sched] = "saved"
    <3>1. CASE Quiet
      BY <3>1 DEF Quiet, RecoverEnds, TickStarts, LookAt, Skip, ClaimSaved, StampSaved, TickEnds, StartSaved, Call, RecordSaved,
                  FinishSaved, AbortEnds, ClockMoves, vars, ResumeFrom
    <3>2. CASE WriteSteps \/ OtherEdits
      BY <3>2 DEF WriteSteps, Persist, WriteStarts, WriteEnds, WriteErrs, Restart, OtherEdits, ClientNext, Update, Remove, OtherSave
    <3>3. CASE SchedEdits
      BY <3>3 DEF SchedEdits, Recover, Claim, Stamp, Abort, ExecuteStarts, MarkStep, Finish, Return, SchedCommit
    <3>. QED  BY <3>1, <3>2, <3>3, StepKinds
  <2>2. todo = {} /\ cands = {} /\ state \in Later /\ Unchanged(a) /\ m \in Wanted(a)
    BY DEF Stretches, Later, Unchanged, Enabled, Wanted
  <2>3. Wants(a) \in Knows(state) \cup forgotten
    BY <2>1, <2>2 DEF Covered, Claims, Thwarted, Cover
  <2>4. Wants(a) = <<a, state.defs[a].revision, state.defs[a].minute>>
    BY DEF Wants
  <2>. QED  BY <2>3, <2>4 DEF Knows, Known
<1>. QED  BY <1>1, <1>2, CoveredStays, TypedAlways, QueuedAlways, StretchesAlways, ListsAlways, TimesAlways, PTL DEF Spec, NoMinuteSkipped

=============================================================================
