----------------------------- MODULE StateStore ------------------------------
(***************************************************************************)
(* The store seen through the identities of its mutations: a content is    *)
(* the set of mutations it reflects.  Each owner stands for one mutation   *)
(* and runs once.  This is what the store promises its callers as long as  *)
(* the file write is one step; TempFileStore refines that step.            *)
(***************************************************************************)
EXTENDS StoreCommit

VARIABLE loaded   \* history: what this process loaded when it started

vars == <<storeVars, loaded>>

Content == SUBSET Owner

Saved  == {o \in Owner : phase[o] = "saved"}
Failed == {o \in Owner : phase[o] = "failed"}

Init ==
  /\ StoreInit({})
  /\ loaded = {}

(* An owner calls a mutating method: commit, or a save method without the  *)
(* rollback, according to whether it is guarded.                           *)
Mutate(o) ==
  /\ phase[o] = "idle"
  /\ Commit(o, state \cup {o})
  /\ UNCHANGED loaded

Persist(o) == ChainWrite(o) /\ UNCHANGED loaded
StartWrite == Serialise /\ UNCHANGED loaded
EndWrite   == WriteDone /\ UNCHANGED loaded
FailWrite  == WriteFailed /\ UNCHANGED loaded

Restart ==
  /\ Reload(file)
  /\ loaded' = file

Next ==
  \/ \E o \in Owner : Mutate(o) \/ Persist(o)
  \/ StartWrite
  \/ EndWrite
  \/ FailWrite
  \/ Restart

Spec == Init /\ [][Next]_vars

(* The microtasks run and the file system answers every call: a mutation   *)
(* is chained, a write that can start starts, and one that started ends.   *)
Fairness ==
  /\ \A o \in Owner : WF_vars(Persist(o))
  /\ WF_vars(StartWrite)
  /\ WF_vars(EndWrite \/ FailWrite)

FairSpec == Spec /\ Fairness

-----------------------------------------------------------------------------
TypeOK ==
  /\ StoreTypeOK(Content)
  /\ loaded \in Content
  /\ QueueWellFormed

(* Store.commit resolves after its write: unless a rollback has put back a *)
(* snapshot older than another mutation, a mutation whose caller was told  *)
(* it was saved is in the file, so a restart at any point reads it back.   *)
Durable == ~overlapped => Saved \subseteq file

(* Store.commit restores a snapshot of the WHOLE state: without such a     *)
(* stale one it never takes a mutation out of memory that its caller was   *)
(* told had been saved.                                                    *)
SavedStaysInMemory == ~overlapped => Saved \subseteq state

(* The catch branch of Store.commit: a guarded mutation whose write failed *)
(* is not in memory, unless this process loaded it from a file that        *)
(* another mutation's write had carried it into.                           *)
RolledBack ==
  ~overlapped => (Failed \cap Guarded \cap state) \subseteq loaded

(* When nothing is pending memory and file agree on everything but the     *)
(* mutations that failed: Store.persist serialises at its turn, so one     *)
(* write may publish what several mutations did.                           *)
QuiescentAgreement ==
  ~overlapped /\ (\A o \in Owner : ~Pending(o)) =>
    (state \ file) \cup (file \ state) \subseteq Failed

(* A later write never takes out of the file what an earlier one put there *)
(* for a caller that was told it was saved.                                *)
NoSaveUndone == [][~overlapped' => Saved \cap file \subseteq file']_vars

(* Store.persist keeps the chain alive after an error (the catch on        *)
(* writeQueue): every mutation is eventually answered, or its process ends. *)
EverySaveAnswered == \A o \in Owner : Pending(o) ~> ~Pending(o)

=============================================================================
