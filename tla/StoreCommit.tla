----------------------------- MODULE StoreCommit -----------------------------
(***************************************************************************)
(* How every subsystem of the hub changes the persistent state             *)
(* (src/store.js, class Store).  One object in memory is the truth while   *)
(* the process runs; a mutation edits it at once and then waits for its    *)
(* turn in a chain of file writes.  This module holds the variables and    *)
(* the steps of that chain and nothing about what the state contains: the  *)
(* modules that extend it say what a mutation does to the content.         *)
(*                                                                         *)
(* An owner is a caller with at most one mutation outstanding.             *)
(***************************************************************************)
EXTENDS Naturals, Sequences

CONSTANTS Owner,    \* the callers that mutate the store
          Guarded,  \* those whose mutation is undone when its write fails
          Awaited   \* those that go through commit, which awaits the mutator

ASSUME GuardedAssumption == Guarded \subseteq Owner /\ Awaited \subseteq Guarded

VARIABLES
  state,      \* Store.state, the content in memory
  file,       \* the content of the data file
  queue,      \* owners whose write is in the writeQueue chain, oldest first
  writing,    \* the head of the queue has serialised and is being written
  image,      \* the content it serialised
  before,     \* per owner, the snapshot its mutation took first
  phase,      \* per owner, where its mutation stands
  stale,      \* history: pending owners whose snapshot misses a later edit
  overlapped  \* history: a rollback put back a stale snapshot

storeVars == <<state, file, queue, writing, image, before, phase, stale, overlapped>>

Phases == {"idle", "edited", "queued", "saved", "failed", "lost"}

Pending(o) == phase[o] \in {"edited", "queued"}

(* The store as the constructor leaves it: the content load() returned is  *)
(* in memory and no write has been chained.                                *)
StoreInit(content) ==
  /\ state = content
  /\ file = content
  /\ queue = <<>>
  /\ writing = FALSE
  /\ image = content
  /\ before = [o \in Owner |-> content]
  /\ phase = [o \in Owner |-> "idle"]
  /\ stale = {}
  /\ overlapped = FALSE

(* Faulty variants: the snapshot is taken after the edit; a save is not    *)
(* chained when another one is pending.                                    *)
SnapshotAfterEdit(o, content) ==
  /\ ~Pending(o)
  /\ before' = [before EXCEPT ![o] = content]
  /\ state' = content
  /\ stale' = (stale \cup {p \in Owner : Pending(p)}) \ {o}
  /\ phase' = [phase EXCEPT ![o] = "queued"]
  /\ queue' = Append(queue, o)
  /\ UNCHANGED <<file, writing, image, overlapped>>

Coalesced(o, content) ==
  /\ ~Pending(o)
  /\ before' = [before EXCEPT ![o] = state]
  /\ state' = content
  /\ stale' = (stale \cup {p \in Owner : Pending(p)}) \ {o}
  /\ phase' = [phase EXCEPT ![o] = "queued"]
  /\ queue' = IF queue = <<>> THEN <<o>> ELSE queue
  /\ UNCHANGED <<file, writing, image, overlapped>>

(* A mutation: take the snapshot, edit memory, chain the write.  commit    *)
(* awaits its mutator before it calls persist, so that its write is        *)
(* chained a microtask later; every other method calls persist at once.    *)
(* The caller is resumed by Settle.                                        *)
Commit(o, content) ==
  /\ ~Pending(o)
  /\ before' = [before EXCEPT ![o] = state]
  /\ state' = content
  /\ stale' = (stale \cup {p \in Owner : Pending(p)}) \ {o}
  /\ \/ /\ o \in Awaited
        /\ phase' = [phase EXCEPT ![o] = "edited"]
        /\ UNCHANGED queue
     \/ /\ o \notin Awaited
        /\ phase' = [phase EXCEPT ![o] = "queued"]
        /\ queue' = Append(queue, o)
  /\ UNCHANGED <<file, writing, image, overlapped>>

(* commit goes on to persist; a direct save may have come in between. *)
ChainWrite(o) ==
  /\ phase[o] = "edited"
  /\ phase' = [phase EXCEPT ![o] = "queued"]
  /\ queue' = Append(queue, o)
  /\ UNCHANGED <<state, file, writing, image, before, stale, overlapped>>

(* The callback of an idle chain: what is serialised is the state as it is *)
(* now, with whatever others have edited since the owner's own mutation.   *)
Serialise ==
  /\ ~writing
  /\ queue # <<>>
  /\ writing' = TRUE
  /\ image' = state
  /\ UNCHANGED <<state, file, queue, before, phase, stale, overlapped>>

(* The write of the head ends, well or badly, and the microtasks it wakes  *)
(* run in their order: the next write of the chain serialises first, and   *)
(* only then does the failed owner put its snapshot back.  The end of a    *)
(* write is an event of its own, after the microtasks of the last one.     *)
Settle(ok, published) ==
  /\ writing
  /\ \A o \in Owner : phase[o] # "edited"
  /\ LET o == Head(queue)
         rest == Tail(queue)
         restored == ~ok /\ o \in Guarded
     IN /\ file' = IF ok THEN published ELSE file
        /\ queue' = rest
        /\ writing' = (rest # <<>>)
        /\ image' = IF rest # <<>> THEN state ELSE image
        /\ state' = IF restored THEN before[o] ELSE state
        /\ phase' = [phase EXCEPT ![o] = IF ok THEN "saved" ELSE "failed"]
        /\ stale' = stale \ {o}
        /\ overlapped' = (overlapped \/ (restored /\ o \in stale))
  /\ UNCHANGED before

WriteDone   == Settle(TRUE, image)
WriteFailed == Settle(FALSE, image)

(* The process ends and a new one loads the file: what was in memory only  *)
(* is gone, and the pending callers never hear of their mutations.         *)
Reload(content) ==
  /\ state' = content
  /\ queue' = <<>>
  /\ writing' = FALSE
  /\ phase' = [o \in Owner |-> IF Pending(o) THEN "lost" ELSE phase[o]]
  /\ stale' = {}
  /\ UNCHANGED <<file, image, before, overlapped>>

StoreTypeOK(Content) ==
  /\ state \in Content
  /\ file \in Content
  /\ queue \in Seq(Owner)
  /\ writing \in BOOLEAN
  /\ image \in Content
  /\ before \in [Owner -> Content]
  /\ phase \in [Owner -> Phases]
  /\ stale \in SUBSET {o \in Owner : Pending(o)}
  /\ overlapped \in BOOLEAN

(* The queue holds each queued owner once; a write in flight has an owner.  *)
QueueWellFormed ==
  /\ \A i \in 1..Len(queue) : phase[queue[i]] = "queued"
  /\ \A o \in Owner : phase[o] = "queued" => \E i \in 1..Len(queue) : queue[i] = o
  /\ \A i, j \in 1..Len(queue) : queue[i] = queue[j] => i = j
  /\ writing => queue # <<>>
=============================================================================
