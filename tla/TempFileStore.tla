---------------------------- MODULE TempFileStore ----------------------------
(***************************************************************************)
(* Store.persist step by step: write the serialised state to the process's *)
(* temporary file, then rename it over the data file.  A write that is cut *)
(* short, by an error or by the end of the process, leaves a torn file,    *)
(* and Store.load turns a torn file into the initial, empty state.         *)
(*                                                                         *)
(* The module implements StateStore, whose file changes in one step.       *)
(***************************************************************************)
EXTENDS StoreCommit

CONSTANT Torn   \* what a file holds that was not written to its end

ASSUME TornAssumption == Torn \notin SUBSET Owner

VARIABLES
  loaded,   \* as in StateStore
  temp,     \* the content of the temporary file
  stage     \* how far the write in flight has come

vars == <<storeVars, loaded, temp, stage>>

Content == SUBSET Owner
OnDisk  == Content \cup {Torn}
Stages  == {"idle", "serialised", "writing", "written"}

(* Store.load: a missing or unreadable file is an empty home. *)
Load(content) == IF content = Torn THEN {} ELSE content

Init ==
  /\ StoreInit({})
  /\ loaded = {}
  /\ temp = {}
  /\ stage = "idle"

Mutate(o) ==
  /\ phase[o] = "idle"
  /\ Commit(o, state \cup {o})
  /\ UNCHANGED <<loaded, temp, stage>>

Persist(o) ==
  /\ ChainWrite(o)
  /\ UNCHANGED <<loaded, temp, stage>>

StartWrite ==
  /\ Serialise
  /\ stage' = "serialised"
  /\ UNCHANGED <<loaded, temp>>

(* Faulty variants: the data file itself is opened for writing; the rename *)
(* does not wait for the temporary file to be written.                     *)
OpenInPlace ==
  /\ stage = "serialised"
  /\ stage' = "writing"
  /\ temp' = Torn
  /\ file' = Torn
  /\ UNCHANGED <<state, queue, writing, image, before, phase, stale, overlapped, loaded>>

RenameEarly ==
  /\ stage \in {"writing", "written"}
  /\ Settle(TRUE, temp)
  /\ stage' = IF Tail(queue) # <<>> THEN "serialised" ELSE "idle"
  /\ UNCHANGED <<loaded, temp>>

(* mkdir went well; writeFile has truncated the temporary file. *)
OpenTemp ==
  /\ stage = "serialised"
  /\ stage' = "writing"
  /\ temp' = Torn
  /\ UNCHANGED <<storeVars, loaded>>

FillTemp ==
  /\ stage = "writing"
  /\ stage' = "written"
  /\ temp' = image
  /\ UNCHANGED <<storeVars, loaded>>

(* After the write in flight: the next one of the chain has serialised.    *)
NextStage == IF Tail(queue) # <<>> THEN "serialised" ELSE "idle"

RenameTemp ==
  /\ stage = "written"
  /\ Settle(TRUE, temp)
  /\ stage' = NextStage
  /\ UNCHANGED <<loaded, temp>>

(* mkdir, writeFile or rename throws.  The temporary file stays as it is.  *)
FailWrite ==
  /\ stage # "idle"
  /\ WriteFailed
  /\ stage' = NextStage
  /\ UNCHANGED <<loaded, temp>>

Restart ==
  /\ Reload(Load(file))
  /\ loaded' = Load(file)
  /\ stage' = "idle"
  /\ UNCHANGED temp

Next ==
  \/ \E o \in Owner : Mutate(o) \/ Persist(o)
  \/ StartWrite
  \/ OpenTemp
  \/ FillTemp
  \/ RenameTemp
  \/ FailWrite
  \/ Restart

Spec == Init /\ [][Next]_vars

(* Microtasks run and each file system call of a write is answered. *)
Fairness ==
  /\ \A o \in Owner : WF_vars(Persist(o))
  /\ WF_vars(StartWrite)
  /\ WF_vars(OpenTemp \/ FailWrite)
  /\ WF_vars(FillTemp \/ FailWrite)
  /\ WF_vars(RenameTemp \/ FailWrite)

FairSpec == Spec /\ Fairness

-----------------------------------------------------------------------------
TypeOK ==
  /\ StoreTypeOK(OnDisk)
  /\ loaded \in Content
  /\ temp \in OnDisk
  /\ stage \in Stages
  /\ writing <=> stage # "idle"
  /\ QueueWellFormed

(* The refinement mapping: what matters of the data file is what a restart *)
(* would load from it; the temporary file and the stage are hidden.        *)
Atomic == INSTANCE StateStore WITH file <- Load(file)

(* README.md "JSON persistence with atomic writes": Store.persist behaves, *)
(* to its callers and across restarts, as if the file changed in one step. *)
ImplementsAtomicStore == Atomic!FairSpec

(* The temporary file and the rename of Store.persist: whenever the        *)
(* process ends, what Store.load reads back has every mutation that was    *)
(* reported saved (and no stale snapshot took away), never an empty home   *)
(* in place of a torn file.                                                *)
RestartKeepsSaved == Atomic!Durable

(* The catch branch of Store.commit: a guarded mutation whose write failed *)
(* is not in memory, unless this process loaded it from a file that        *)
(* another mutation's write had carried it into.                           *)
RolledBack == Atomic!RolledBack

(* A later rename never takes out of the file what an earlier one put      *)
(* there for a caller that was told it was saved: Store.persist            *)
(* serialises at its turn in the chain, not when it is called.             *)
NoSaveUndone == Atomic!NoSaveUndone

(* Store.persist keeps the chain alive after an error (the catch on        *)
(* writeQueue): every mutation is eventually answered, or its process ends. *)
EverySaveAnswered == Atomic!EverySaveAnswered
=============================================================================
