---------------------------- MODULE StoreProofs ----------------------------
(***************************************************************************)
(* Proofs about the store and the registry in it.                          *)
(*                                                                         *)
(* The store, for every set of mutations and every choice of the guarded   *)
(* ones: first what StateStore, whose file changes in one step, promises   *)
(* its callers; then that TempFileStore implements it, a rename being the  *)
(* atomic write and the steps on the temporary file stutters; and so the   *)
(* promises of TempFileStore.                                              *)
(*                                                                         *)
(* The registry under ZigbeeHome's messages, for any devices, names, areas *)
(* and bounds: the types, that no device has two records, and that no      *)
(* setup is lost.                                                          *)
(***************************************************************************)
EXTENDS TempFileStore, ZigbeeHome, FiniteSetTheorems, SequenceTheorems, WellFoundedInduction, TLAPS

Store == INSTANCE StateStore

-----------------------------------------------------------------------------
(***************************************************************************)
(* StateStore.  The inductive invariant follows the copies of the state    *)
(* that may still become the state or the file: memory, the file, the      *)
(* image being written and the snapshot of the latest mutation.            *)
(***************************************************************************)
Lost == {o \in Owner : phase[o] = "lost"}

(* A mutation that has not run is in no copy of the state. *)
Untouched ==
  \A o \in Owner : phase[o] = "idle" =>
    /\ o \notin state \cup file \cup image
    /\ \A p \in Owner : o \notin before[p]

(* A copy holds every saved mutation, and of the ones whose process ended  *)
(* the same as the file.                                                   *)
Faithful(copy) ==
  /\ Store!Saved \subseteq copy
  /\ Lost \cap copy = Lost \cap file

(* Pending mutations are in memory.  One whose snapshot is not stale is    *)
(* the latest edit of all; the one being written is in its image.          *)
PendingEdits ==
  /\ \A o \in Owner : Store!Pending(o) => o \in state /\ o \notin before[o]
  /\ \A o \in Owner : Store!Pending(o) /\ o \notin stale => state = before[o] \cup {o}
  /\ \A o, p \in Owner : Store!Pending(o) /\ o \notin stale /\ Store!Pending(p) /\ p \notin stale
                          => o = p
  /\ writing => queue[1] \in image

Copies ==
  /\ Faithful(state)
  /\ Faithful(file)
  /\ writing => Faithful(image)

NoFailedCopy == (Store!Failed \cap Guarded \cap state) \subseteq loaded

IInv ==
  /\ Store!TypeOK
  /\ Untouched
  /\ ~overlapped => PendingEdits /\ Copies /\ NoFailedCopy

-----------------------------------------------------------------------------
(* What the end of a write does to the queue. *)
LEMMA QueueTail ==
  ASSUME NEW q \in Seq(Owner), q # <<>>
  PROVE  /\ Head(q) = q[1]
         /\ Tail(q) \in Seq(Owner)
         /\ Len(q) \in Nat \ {0}
         /\ Len(Tail(q)) = Len(q) - 1
         /\ \A i \in 1..Len(Tail(q)) : Tail(q)[i] = q[i+1] /\ i+1 \in 1..Len(q)
         /\ Tail(q) # <<>> <=> Len(q) > 1
  BY HeadTailProperties

LEMMA QueueAppend ==
  ASSUME NEW q \in Seq(Owner), NEW o \in Owner
  PROVE  /\ Append(q, o) \in Seq(Owner)
         /\ Append(q, o) # <<>>
         /\ Len(Append(q, o)) = Len(q) + 1
         /\ \A i \in 1..Len(q) : Append(q, o)[i] = q[i]
         /\ Append(q, o)[Len(q) + 1] = o
  OBVIOUS

(* A queue to which an owner is appended that was not in it. *)
LEMMA QueueGrows ==
  ASSUME Store!TypeOK, NEW o \in Owner, phase[o] # "queued",
         queue' = Append(queue, o), phase' = [phase EXCEPT ![o] = "queued"],
         UNCHANGED writing
  PROVE  /\ Store!QueueWellFormed'
         /\ queue' \in Seq(Owner)
         /\ queue # <<>> => queue'[1] = queue[1]
<1>. USE DEF Store!TypeOK, Store!StoreTypeOK
<1>1. /\ queue' \in Seq(Owner)
      /\ queue' # <<>>
      /\ Len(queue') = Len(queue) + 1
      /\ \A i \in 1..Len(queue) : queue'[i] = queue[i]
      /\ queue'[Len(queue) + 1] = o
  BY QueueAppend
<1>2. Len(queue) \in Nat /\ \A i \in 1..Len(queue) : queue[i] \in Owner
  OBVIOUS
<1>3. \A i \in 1..Len(queue) : queue[i] # o
  BY DEF Store!QueueWellFormed
<1>4. \A i \in 1..Len(queue') : phase'[queue'[i]] = "queued"
  BY <1>1, <1>2, <1>3 DEF Store!QueueWellFormed
<1>5. ASSUME NEW p \in Owner, phase'[p] = "queued"
      PROVE  \E i \in 1..Len(queue') : queue'[i] = p
  <2>1. CASE p = o
    <3>. Len(queue) + 1 \in 1..Len(queue')
      BY <1>1, <1>2
    <3>. QED  BY <1>1, <2>1
  <2>2. CASE p # o
    <3>1. PICK i \in 1..Len(queue) : queue[i] = p
      BY <1>5, <2>2 DEF Store!QueueWellFormed
    <3>. QED  BY <1>1, <1>2, <3>1
  <2>. QED  BY <2>1, <2>2
<1>6. \A i, j \in 1..Len(queue') : queue'[i] = queue'[j] => i = j
  BY <1>1, <1>2, <1>3 DEF Store!QueueWellFormed
<1>7. queue # <<>> => queue'[1] = queue[1]
  BY <1>1, QueueTail
<1>. QED  BY <1>1, <1>4, <1>5, <1>6, <1>7 DEF Store!QueueWellFormed

LEMMA InitInv == Store!Init => IInv
<1>. SUFFICES ASSUME Store!Init PROVE IInv
  OBVIOUS
<1>1. queue = <<>> /\ Len(queue) = 0
  BY DEF Store!Init, Store!StoreInit
<1>2. Store!TypeOK
  <2>1. Store!QueueWellFormed
    BY <1>1 DEF Store!Init, Store!StoreInit, Store!QueueWellFormed
  <2>2. Store!StoreTypeOK(Store!Content)
    BY <1>1, EmptySeq DEF Store!Init, Store!StoreInit, Store!StoreTypeOK, Store!Content, Store!Phases
  <2>. QED  BY <2>1, <2>2 DEF Store!Init, Store!TypeOK, Store!Content
<1>3. Untouched
  BY DEF Store!Init, Store!StoreInit, Untouched
<1>4. PendingEdits /\ Copies /\ NoFailedCopy
  BY <1>1 DEF Store!Init, Store!StoreInit, Store!Pending, PendingEdits, Copies, NoFailedCopy,
     Faithful, Store!Saved, Lost, Store!Failed
<1>. QED  BY <1>2, <1>3, <1>4 DEF IInv

LEMMA MutateInv == ASSUME IInv, NEW o \in Owner, Store!Mutate(o) PROVE IInv'
<1>. USE DEF IInv, Store!TypeOK, Store!StoreTypeOK, Store!Content
<1>1. /\ phase[o] = "idle" /\ ~Store!Pending(o)
      /\ before' = [before EXCEPT ![o] = state]
      /\ state' = state \cup {o}
      /\ stale' = (stale \cup {p \in Owner : Store!Pending(p)}) \ {o}
      /\ UNCHANGED <<file, writing, image, overlapped, loaded>>
  BY DEF Store!Mutate, Store!Commit
<1>2. \/ queue' = queue /\ phase' = [phase EXCEPT ![o] = "edited"]
      \/ queue' = Append(queue, o) /\ phase' = [phase EXCEPT ![o] = "queued"]
  BY DEF Store!Mutate, Store!Commit
<1>3. \A p \in Owner : Store!Pending(p)' <=> (Store!Pending(p) \/ p = o)
  BY <1>1, <1>2 DEF Store!Pending
<1>4. /\ Store!QueueWellFormed'
      /\ queue' \in Seq(Owner)
      /\ queue # <<>> => queue'[1] = queue[1]
  <2>1. CASE queue' = queue /\ phase' = [phase EXCEPT ![o] = "edited"]
    BY <1>1, <2>1 DEF Store!QueueWellFormed
  <2>2. CASE queue' = Append(queue, o) /\ phase' = [phase EXCEPT ![o] = "queued"]
    BY <1>1, <2>2, QueueGrows
  <2>. QED  BY <1>2, <2>1, <2>2
<1>5. Store!TypeOK'
  <2>1. phase' \in [Owner -> Store!Phases]
    BY <1>2 DEF Store!Phases
  <2>2. stale' \in SUBSET {p \in Owner : Store!Pending(p)'}
    BY <1>1, <1>3
  <2>. QED  BY <1>1, <1>4, <2>1, <2>2
<1>6. Untouched'
  BY <1>1, <1>2 DEF Untouched
<1>7. ASSUME ~overlapped' PROVE PendingEdits' /\ Copies' /\ NoFailedCopy'
  <2>1. PendingEdits /\ Copies /\ NoFailedCopy
    BY <1>1, <1>7
  <2>2. Store!Saved' = Store!Saved /\ Lost' = Lost /\ Store!Failed' = Store!Failed /\ o \notin Store!Saved
        /\ o \notin Lost /\ o \notin Store!Failed
    BY <1>1, <1>2 DEF Store!Saved, Lost, Store!Failed
  <2>3. before'[o] = state /\ o \notin state
    BY <1>1 DEF Untouched
  <2>4. \A p \in Owner : Store!Pending(p)' /\ p \notin stale' => p = o
    BY <1>1, <1>3
  <2>5. writing => queue # <<>>
    BY DEF Store!QueueWellFormed
  <2>6. PendingEdits'
    <3>1. \A p \in Owner : Store!Pending(p)' => p \in state' /\ p \notin before'[p]
      BY <1>1, <1>3, <2>1, <2>3 DEF PendingEdits
    <3>2. writing' => queue'[1] \in image'
      BY <1>1, <1>4, <2>1, <2>5 DEF PendingEdits
    <3>. QED  BY <1>1, <2>3, <2>4, <3>1, <3>2 DEF PendingEdits
  <2>7. Copies' /\ NoFailedCopy'
    BY <1>1, <2>1, <2>2 DEF Copies, Faithful, NoFailedCopy
  <2>. QED  BY <2>6, <2>7
<1>. QED  BY <1>5, <1>6, <1>7

LEMMA PersistInv == ASSUME IInv, NEW o \in Owner, Store!Persist(o) PROVE IInv'
<1>. USE DEF IInv, Store!TypeOK, Store!StoreTypeOK, Store!Content
<1>1. /\ phase[o] = "edited"
      /\ phase' = [phase EXCEPT ![o] = "queued"]
      /\ queue' = Append(queue, o)
      /\ UNCHANGED <<state, file, writing, image, before, stale, overlapped, loaded>>
  BY DEF Store!Persist, Store!ChainWrite
<1>2. /\ Store!QueueWellFormed'
      /\ queue' \in Seq(Owner)
      /\ queue # <<>> => queue'[1] = queue[1]
  BY <1>1, QueueGrows
<1>3. \A p \in Owner : Store!Pending(p)' <=> Store!Pending(p)
  BY <1>1 DEF Store!Pending
<1>4. Store!TypeOK'
  BY <1>1, <1>2, <1>3 DEF Store!Phases
<1>5. Untouched'
  BY <1>1 DEF Untouched
<1>6. Store!Saved' = Store!Saved /\ Lost' = Lost /\ Store!Failed' = Store!Failed
  BY <1>1 DEF Store!Saved, Lost, Store!Failed
<1>7. writing => queue # <<>>
  BY DEF Store!QueueWellFormed
<1>8. PendingEdits => PendingEdits'
  BY <1>1, <1>2, <1>3, <1>7 DEF PendingEdits
<1>. QED  BY <1>1, <1>4, <1>5, <1>6, <1>8 DEF Copies, Faithful, NoFailedCopy

LEMMA StartWriteInv == IInv /\ Store!StartWrite => IInv'
<1>. SUFFICES ASSUME IInv, Store!StartWrite PROVE IInv'
  OBVIOUS
<1>1. /\ ~writing /\ writing' = TRUE /\ image' = state /\ queue # <<>>
      /\ UNCHANGED <<state, file, queue, before, phase, stale, overlapped, loaded>>
  BY DEF Store!StartWrite, Store!Serialise
<1>2. queue[1] \in Owner /\ phase[queue[1]] = "queued"
  BY <1>1, QueueTail DEF IInv, Store!TypeOK, Store!StoreTypeOK, Store!QueueWellFormed
<1>3. Store!TypeOK'
  BY <1>1 DEF IInv, Store!TypeOK, Store!StoreTypeOK, Store!QueueWellFormed, Store!Pending
<1>4. Untouched'
  BY <1>1 DEF IInv, Untouched
<1>5. ASSUME ~overlapped' PROVE PendingEdits' /\ Copies' /\ NoFailedCopy'
  <2>1. PendingEdits /\ Copies /\ NoFailedCopy
    BY <1>1, <1>5 DEF IInv
  <2>2. Store!Saved' = Store!Saved /\ Lost' = Lost /\ Store!Failed' = Store!Failed
    BY <1>1 DEF Store!Saved, Lost, Store!Failed
  <2>. QED  BY <1>1, <1>2, <2>1, <2>2 DEF Store!Pending, PendingEdits, Copies, Faithful,
            NoFailedCopy
<1>. QED  BY <1>3, <1>4, <1>5 DEF IInv

(* What both ends of a write do to the queue and the phases. *)
LEMMA SettleQueue ==
  ASSUME Store!TypeOK, NEW ok \in BOOLEAN, Store!Settle(ok, image), UNCHANGED loaded
  PROVE  /\ queue # <<>> /\ queue[1] \in Owner
         /\ Head(queue) = queue[1]
         /\ before' = before
         /\ phase' = [phase EXCEPT ![queue[1]] = IF ok THEN "saved" ELSE "failed"]
         /\ phase[queue[1]] = "queued"
         /\ stale' = stale \ {queue[1]}
         /\ \A o \in Owner : Store!Pending(o)' <=> (Store!Pending(o) /\ o # queue[1])
         /\ writing' => /\ image' = state
                        /\ queue'[1] \in Owner
                        /\ Store!Pending(queue'[1]) /\ queue'[1] # queue[1]
         /\ Store!TypeOK'
<1>. USE DEF Store!TypeOK, Store!StoreTypeOK, Store!Content
<1>1. queue # <<>> /\ writing
  BY DEF Store!QueueWellFormed, Store!Settle
<1>2. /\ Head(queue) = queue[1]
      /\ Tail(queue) \in Seq(Owner)
      /\ Len(queue) \in Nat \ {0}
      /\ Len(Tail(queue)) = Len(queue) - 1
      /\ \A i \in 1..Len(Tail(queue)) :
           Tail(queue)[i] = queue[i+1] /\ i+1 \in 1..Len(queue)
      /\ Tail(queue) # <<>> <=> Len(queue) > 1
  BY <1>1, QueueTail
<1>3. /\ queue' = Tail(queue)
      /\ writing' \in BOOLEAN
      /\ (writing' <=> Tail(queue) # <<>>)
      /\ before' = before
      /\ phase' = [phase EXCEPT ![queue[1]] = IF ok THEN "saved" ELSE "failed"]
      /\ stale' = stale \ {queue[1]}
      /\ state' \in {state, before[queue[1]]}
      /\ image' \in {state, image}
      /\ file' \in {file, image}
      /\ overlapped' \in BOOLEAN
      /\ Tail(queue) # <<>> => image' = state
  BY <1>2 DEF Store!Settle
<1>4. queue[1] \in Owner /\ phase[queue[1]] = "queued"
  BY <1>2 DEF Store!QueueWellFormed
<1>5. \A i \in 1..Len(queue') : /\ queue'[i] = queue[i+1]
                               /\ i+1 \in 1..Len(queue)
                               /\ queue'[i] \in Owner
                               /\ queue'[i] # queue[1]
  BY <1>2, <1>3, <1>4 DEF Store!QueueWellFormed
<1>6. Store!QueueWellFormed'
  <2>1. \A i \in 1..Len(queue') : phase'[queue'[i]] = "queued"
    BY <1>3, <1>4, <1>5 DEF Store!QueueWellFormed
  <2>2. ASSUME NEW o \in Owner, phase'[o] = "queued"
        PROVE  \E i \in 1..Len(queue') : queue'[i] = o
    <3>1. o # queue[1] /\ phase[o] = "queued"
      BY <1>3, <1>4, <2>2
    <3>2. PICK k \in 1..Len(queue) : queue[k] = o
      BY <3>1 DEF Store!QueueWellFormed
    <3>3. k # 1 /\ k - 1 \in 1..Len(queue')
      BY <1>2, <1>3, <3>1, <3>2
    <3>4. (k - 1) + 1 = k
      OBVIOUS
    <3>. QED  BY <1>5, <3>2, <3>3, <3>4
  <2>3. \A i, j \in 1..Len(queue') : queue'[i] = queue'[j] => i = j
    BY <1>5 DEF Store!QueueWellFormed
  <2>. QED  BY <1>3, <2>1, <2>2, <2>3 DEF Store!QueueWellFormed
<1>7. \A o \in Owner : Store!Pending(o)' <=> (Store!Pending(o) /\ o # queue[1])
  BY <1>3, <1>4 DEF Store!Pending
<1>8. Store!TypeOK'
  <2>1. phase' \in [Owner -> Store!Phases]
    BY <1>3 DEF Store!Phases
  <2>2. stale' \in SUBSET {o \in Owner : Store!Pending(o)'}
    BY <1>3, <1>7
  <2>. QED  BY <1>2, <1>3, <1>4, <1>6, <2>1, <2>2
<1>9. writing' => /\ image' = state
                  /\ queue'[1] \in Owner
                  /\ Store!Pending(queue'[1]) /\ queue'[1] # queue[1]
  <2>. SUFFICES ASSUME writing' PROVE 1 \in 1..Len(queue')
    BY <1>3, <1>5 DEF Store!QueueWellFormed, Store!Pending
  <2>. QED  BY <1>2, <1>3
<1>. QED  BY <1>1, <1>2, <1>3, <1>4, <1>7, <1>8, <1>9

LEMMA EndWriteInv == IInv /\ Store!EndWrite => IInv'
<1>. SUFFICES ASSUME IInv, Store!EndWrite PROVE IInv'
  OBVIOUS
<1>. DEFINE a == queue[1]
<1>1. /\ Store!TypeOK /\ Store!Settle(TRUE, image) /\ UNCHANGED loaded
      /\ writing /\ file' = image /\ state' = state
      /\ overlapped' = overlapped /\ image' \in {state, image}
  BY DEF IInv, Store!EndWrite, Store!WriteDone, Store!Settle, Store!TypeOK, Store!StoreTypeOK
<1>2. /\ a \in Owner
      /\ before' = before
      /\ phase' = [phase EXCEPT ![a] = "saved"]
      /\ phase[a] = "queued" /\ Store!Pending(a)
      /\ stale' = stale \ {a}
      /\ \A o \in Owner : Store!Pending(o)' <=> (Store!Pending(o) /\ o # a)
      /\ writing' => image' = state /\ queue'[1] \in Owner /\ Store!Pending(queue'[1])
      /\ Store!TypeOK'
  BY <1>1, SettleQueue DEF Store!Pending
<1>3. phase \in [Owner -> Store!Phases]
  BY <1>1 DEF Store!TypeOK, Store!StoreTypeOK
<1>4. Untouched'
  BY <1>1, <1>2, <1>3 DEF IInv, Untouched
<1>5. ASSUME ~overlapped' PROVE PendingEdits' /\ Copies' /\ NoFailedCopy'
  <2>1. PendingEdits /\ Copies /\ NoFailedCopy
    BY <1>1, <1>5 DEF IInv
  <2>2. Store!Saved' = Store!Saved \cup {a} /\ Lost' = Lost /\ Store!Failed' = Store!Failed
    BY <1>2, <1>3 DEF Store!Saved, Lost, Store!Failed
  <2>3. a \in image /\ a \in state
    BY <1>1, <1>2, <2>1 DEF PendingEdits
  <2>4. PendingEdits'
    BY <1>1, <1>2, <2>1 DEF PendingEdits
  <2>5. Copies' /\ NoFailedCopy'
    BY <1>1, <1>2, <2>1, <2>2, <2>3 DEF Copies, Faithful, NoFailedCopy
  <2>. QED  BY <2>4, <2>5
<1>. QED  BY <1>2, <1>4, <1>5 DEF IInv

LEMMA FailWriteInv == IInv /\ Store!FailWrite => IInv'
<1>. SUFFICES ASSUME IInv, Store!FailWrite PROVE IInv'
  OBVIOUS
<1>. DEFINE a == queue[1]
<1>1. /\ Store!TypeOK /\ Store!Settle(FALSE, image) /\ UNCHANGED loaded
      /\ writing /\ file' = file /\ image' \in {state, image}
  BY DEF IInv, Store!FailWrite, Store!WriteFailed, Store!Settle
<1>2. /\ a \in Owner /\ Head(queue) = a
      /\ before' = before
      /\ phase' = [phase EXCEPT ![a] = "failed"]
      /\ phase[a] = "queued" /\ Store!Pending(a)
      /\ stale' = stale \ {a}
      /\ \A o \in Owner : Store!Pending(o)' <=> (Store!Pending(o) /\ o # a)
      /\ writing' => image' = state /\ queue'[1] \in Owner /\ Store!Pending(queue'[1])
      /\ Store!TypeOK'
  BY <1>1, SettleQueue DEF Store!Pending
<1>3. /\ phase \in [Owner -> Store!Phases] /\ before \in [Owner -> SUBSET Owner]
      /\ state' = IF a \in Guarded THEN before[a] ELSE state
      /\ ~overlapped' => ~overlapped /\ (a \in Guarded => a \notin stale)
  <2>1. state' = IF a \in Guarded THEN before[a] ELSE state
    BY <1>1, <1>2 DEF Store!Settle
  <2>2. overlapped' = (overlapped \/ (a \in Guarded /\ a \in stale))
    BY <1>1, <1>2, Zenon DEF Store!Settle
  <2>. QED  BY <1>1, <2>1, <2>2 DEF Store!TypeOK, Store!StoreTypeOK, Store!Content
<1>4. Untouched'
  BY <1>1, <1>2, <1>3 DEF IInv, Untouched
<1>5. ASSUME ~overlapped' PROVE PendingEdits' /\ Copies' /\ NoFailedCopy'
  <2>1. PendingEdits /\ Copies /\ NoFailedCopy
    BY <1>3, <1>5 DEF IInv
  <2>2. /\ Store!Saved' = Store!Saved /\ Lost' = Lost /\ Store!Failed' = Store!Failed \cup {a}
        /\ a \notin Store!Saved /\ a \notin Lost
    BY <1>2, <1>3 DEF Store!Saved, Lost, Store!Failed
  <2>3. writing' => queue'[1] \in image'
    BY <1>2, <2>1 DEF PendingEdits
  <2>4. CASE a \in Guarded
    <3>1. a \notin stale /\ state' = before[a]
      BY <1>3, <1>5, <2>4
    <3>2. state = before[a] \cup {a} /\ a \notin before[a]
      BY <1>2, <2>1, <3>1 DEF PendingEdits
    <3>3. \A o \in Owner : Store!Pending(o)' => o \in stale' /\ o \in state'
      BY <1>2, <2>1, <3>1, <3>2 DEF PendingEdits
    <3>4. PendingEdits'
      BY <1>2, <2>1, <2>3, <3>3 DEF PendingEdits
    <3>5. Copies'
      BY <1>1, <1>2, <2>1, <2>2, <3>1, <3>2 DEF Copies, Faithful
    <3>6. NoFailedCopy'
      BY <1>1, <2>1, <2>2, <3>1, <3>2 DEF NoFailedCopy
    <3>. QED  BY <3>4, <3>5, <3>6
  <2>5. CASE a \notin Guarded
    <3>1. state' = state
      BY <1>3, <2>5
    <3>2. PendingEdits'
      BY <1>1, <1>2, <2>1, <2>3, <3>1 DEF PendingEdits
    <3>3. Copies' /\ NoFailedCopy'
      BY <1>1, <1>2, <2>1, <2>2, <2>5, <3>1 DEF Copies, Faithful, NoFailedCopy
    <3>. QED  BY <3>2, <3>3
  <2>. QED  BY <2>4, <2>5
<1>. QED  BY <1>2, <1>4, <1>5 DEF IInv

LEMMA RestartInv == IInv /\ Store!Restart => IInv'
<1>. SUFFICES ASSUME IInv, Store!Restart PROVE IInv'
  OBVIOUS
<1>1. /\ state' = file /\ queue' = <<>> /\ writing' = FALSE /\ loaded' = file
      /\ phase' = [o \in Owner |-> IF Store!Pending(o) THEN "lost" ELSE phase[o]]
      /\ stale' = {}
      /\ UNCHANGED <<file, image, before, overlapped>>
      /\ Len(queue') = 0 /\ phase \in [Owner -> Store!Phases]
      /\ \A o \in Owner : ~Store!Pending(o)'
  BY EmptySeq DEF Store!Restart, Store!Reload, Store!Pending, IInv, Store!TypeOK, Store!StoreTypeOK
<1>2. Store!TypeOK'
  <2>1. Store!QueueWellFormed'
    BY <1>1 DEF Store!QueueWellFormed, Store!Pending
  <2>2. Store!StoreTypeOK(Store!Content)'
    BY <1>1, EmptySeq DEF IInv, Store!TypeOK, Store!StoreTypeOK, Store!Phases, Store!Content
  <2>. QED  BY <1>1, <2>1, <2>2 DEF IInv, Store!TypeOK, Store!StoreTypeOK, Store!Content
<1>3. Untouched'
  BY <1>1 DEF IInv, Untouched, Store!Pending
<1>4. ASSUME ~overlapped' PROVE PendingEdits' /\ Copies' /\ NoFailedCopy'
  <2>1. PendingEdits /\ Copies /\ NoFailedCopy
    BY <1>1, <1>4 DEF IInv
  <2>2. Store!Saved' = Store!Saved
    BY <1>1 DEF Store!Saved, Store!Pending
  <2>. QED  BY <1>1, <2>1, <2>2 DEF PendingEdits, Copies, Faithful, NoFailedCopy
<1>. QED  BY <1>1, <1>2, <1>3, <1>4 DEF IInv

LEMMA NextInv == IInv /\ [Store!Next]_(Store!vars) => IInv'
<1>1. CASE UNCHANGED Store!vars
  BY <1>1 DEF Store!vars, Store!storeVars, IInv, Store!TypeOK, Store!StoreTypeOK, Store!QueueWellFormed,
     Store!Pending, Untouched, PendingEdits, Copies, NoFailedCopy, Faithful,
     Store!Saved, Lost, Store!Failed
<1>. QED
  BY <1>1, MutateInv, PersistInv, StartWriteInv, EndWriteInv, FailWriteInv, RestartInv
     DEF Store!Next

LEMMA InvImplies ==
  IInv => /\ Store!TypeOK /\ Store!Durable /\ Store!SavedStaysInMemory
          /\ Store!RolledBack /\ Store!QuiescentAgreement
<1>. SUFFICES ASSUME IInv
     PROVE  /\ Store!TypeOK /\ Store!Durable /\ Store!SavedStaysInMemory
            /\ Store!RolledBack /\ Store!QuiescentAgreement
  OBVIOUS
<1>1. Store!TypeOK
  BY DEF IInv
<1>2. Store!Durable /\ Store!SavedStaysInMemory /\ Store!RolledBack
  BY DEF IInv, Copies, Faithful, NoFailedCopy, Store!Durable, Store!SavedStaysInMemory, Store!RolledBack
<1>3. Store!QuiescentAgreement
  <2>. SUFFICES ASSUME ~overlapped, \A p \in Owner : ~Store!Pending(p),
                       NEW o \in (state \ file) \cup (file \ state)
                PROVE  o \in Store!Failed
    BY DEF Store!QuiescentAgreement
  <2>1. o \in Owner /\ phase[o] \in Store!Phases
    BY <1>1 DEF Store!TypeOK, Store!StoreTypeOK, Store!Content
  <2>2. phase[o] # "idle"
    BY <2>1 DEF IInv, Untouched
  <2>3. phase[o] \notin {"edited", "queued"}
    BY <2>1 DEF Store!Pending
  <2>4. o \notin Store!Saved /\ o \notin Lost
    BY DEF IInv, Copies, Faithful
  <2>. QED  BY <2>1, <2>2, <2>3, <2>4 DEF Store!Phases, Store!Saved, Lost, Store!Failed
<1>. QED  BY <1>1, <1>2, <1>3

(* The only step that changes the file publishes the image, which has      *)
(* every saved mutation.                                                   *)
LEMMA StepKeepsSaved ==
  IInv /\ [Store!Next]_(Store!vars) => [~overlapped' => Store!Saved \cap file \subseteq file']_(Store!vars)
<1>. SUFFICES ASSUME IInv, Store!Next, ~overlapped'
              PROVE  Store!Saved \cap file \subseteq file'
  OBVIOUS
<1>1. CASE Store!EndWrite
  <2>1. writing /\ file' = image /\ ~overlapped
    BY <1>1 DEF Store!EndWrite, Store!WriteDone, Store!Settle
  <2>. QED  BY <2>1 DEF IInv, Copies, Faithful
<1>2. ASSUME ~Store!EndWrite PROVE file' = file
  BY <1>2
     DEF Store!Next, Store!Mutate, Store!Commit, Store!Persist, Store!ChainWrite, Store!StartWrite, Store!Serialise, Store!FailWrite,
     Store!WriteFailed, Store!Settle, Store!Restart, Store!Reload
<1>. QED  BY <1>1, <1>2

-----------------------------------------------------------------------------
(* The state of the store and its write chain keep their shape: every      *)
(* pending mutation is in the chain exactly once (Store.persist).          *)
THEOREM TypeCorrect == Store!Spec => []Store!TypeOK
BY InitInv, NextInv, InvImplies, PTL DEF Store!Spec

(* A mutation reported saved is in the file as long as no rollback put     *)
(* back a stale snapshot, however writes fail and the process dies   *)
(* (Store.commit, Store.persist).                                          *)
THEOREM DurableAlways == Store!Spec => []Store!Durable
BY InitInv, NextInv, InvImplies, PTL DEF Store!Spec

(* Under the same condition the rollback of Store.commit never takes a     *)
(* saved mutation out of memory.                                           *)
THEOREM SavedStaysInMemoryAlways == Store!Spec => []Store!SavedStaysInMemory
BY InitInv, NextInv, InvImplies, PTL DEF Store!Spec

(* Under the same condition it takes the failed mutation out.              *)
THEOREM StoreRolledBackAlways == Store!Spec => []Store!RolledBack
BY InitInv, NextInv, InvImplies, PTL DEF Store!Spec

(* Under the same condition memory and file agree, when nothing is         *)
(* pending, on all but the failed mutations.                               *)
THEOREM QuiescentAgreementAlways == Store!Spec => []Store!QuiescentAgreement
BY InitInv, NextInv, InvImplies, PTL DEF Store!Spec

(* Under the same condition no write takes a saved mutation out of the     *)
(* file: what Store.persist publishes later includes it.                   *)
THEOREM StoreNoSaveUndoneAlways == Store!Spec => Store!NoSaveUndone
BY StepKeepsSaved, InitInv, NextInv, PTL DEF Store!Spec, Store!NoSaveUndone

-----------------------------------------------------------------------------
(***************************************************************************)
(* TempFileStore.                                                          *)
(***************************************************************************)
(* A write in flight belongs to a pending owner, and every content is one  *)
(* that was serialised whole.                                              *)
ChainInv ==
  /\ queue \in Seq(Owner)
  /\ writing => queue # <<>>
  /\ file \in Content
  /\ image \in Content
  /\ state \in Content
  /\ before \in [Owner -> Content]

(* The temporary file is complete before it is renamed. *)
FullBeforeRename ==
  /\ writing <=> stage # "idle"
  /\ stage = "written" => temp = image

FileInv == ChainInv /\ FullBeforeRename

LEMMA InitFile == Init => FileInv
BY EmptySeq DEF Init, StoreInit, FileInv, ChainInv, FullBeforeRename, Content

(* No content is torn, so load() returns the file as it is. *)
LEMMA LoadsWhole == /\ ChainInv => Load(file) = file
                    /\ ChainInv' => Load(file)' = file'
BY TornAssumption DEF ChainInv, Content, Load

LEMMA SettleChain ==
  ASSUME ChainInv, NEW ok \in BOOLEAN, Settle(ok, image)
  PROVE  ChainInv' /\ (writing' <=> Tail(queue) # <<>>)
<1>1. queue # <<>>
  BY DEF Settle, ChainInv
<1>2. Head(queue) \in Owner /\ Tail(queue) \in Seq(Owner)
  BY <1>1, HeadTailProperties DEF ChainInv
<1>3. /\ queue' = Tail(queue)
      /\ writing' <=> Tail(queue) # <<>>
      /\ before' = before
      /\ state' \in {state, before[Head(queue)]}
      /\ image' \in {state, image}
      /\ file' \in {file, image}
  BY DEF Settle
<1>. QED  BY <1>2, <1>3 DEF ChainInv

(* A rename is StateStore's atomic write; it can only fail before it. *)
LEMMA WriteEnds ==
  ASSUME FileInv, RenameTemp \/ FailWrite
  PROVE  FileInv' /\ (Atomic!EndWrite \/ Atomic!FailWrite)
<1>. USE DEF FileInv
<1>1. CASE RenameTemp
  <2>1. Settle(TRUE, image)
    BY <1>1 DEF RenameTemp, FullBeforeRename
  <2>2. ChainInv' /\ (writing' <=> Tail(queue) # <<>>)
    BY <2>1, SettleChain
  <2>3. Atomic!EndWrite
    BY <1>1, <2>1, <2>2, LoadsWhole
       DEF RenameTemp, Settle, Atomic!EndWrite, Atomic!WriteDone, Atomic!Settle
  <2>. QED  BY <1>1, <2>2, <2>3 DEF RenameTemp, NextStage, FullBeforeRename
<1>2. CASE FailWrite
  <2>1. Settle(FALSE, image)
    BY <1>2 DEF FailWrite, WriteFailed
  <2>2. ChainInv' /\ (writing' <=> Tail(queue) # <<>>)
    BY <2>1, SettleChain
  <2>3. Atomic!FailWrite
    BY <1>2, <2>1, <2>2, LoadsWhole
       DEF FailWrite, Settle, Atomic!FailWrite, Atomic!WriteFailed, Atomic!Settle
  <2>. QED  BY <1>2, <2>2, <2>3 DEF FailWrite, NextStage, FullBeforeRename
<1>. QED  BY <1>1, <1>2

(* One step per action: the invariant is kept, and the step is one of      *)
(* StateStore or leaves its variables alone.                               *)
LEMMA StepFile ==
  FileInv /\ [Next]_vars => FileInv' /\ [Atomic!Next]_(Atomic!vars)
<1>. SUFFICES ASSUME FileInv, [Next]_vars
              PROVE  FileInv' /\ [Atomic!Next]_(Atomic!vars)
  OBVIOUS
<1>. USE DEF FileInv
<1>1. ASSUME NEW o \in Owner, Mutate(o)
      PROVE  FileInv' /\ [Atomic!Next]_(Atomic!vars)
  <2>1. ChainInv'
    <3>1. queue' \in {queue, Append(queue, o)}
      BY <1>1 DEF Mutate, Commit
    <3>. QED  BY <1>1, <3>1 DEF Mutate, Commit, ChainInv, Content
  <2>2. Atomic!Mutate(o)
    BY <1>1 DEF Mutate, Commit, Pending, Load, Atomic!Mutate, Atomic!Commit, Atomic!Pending
  <2>. QED  BY <1>1, <2>1, <2>2 DEF Mutate, Commit, FullBeforeRename, Atomic!Next
<1>2. ASSUME NEW o \in Owner, Persist(o)
      PROVE  FileInv' /\ [Atomic!Next]_(Atomic!vars)
  <2>1. ChainInv'
    BY <1>2 DEF Persist, ChainWrite, ChainInv
  <2>2. Atomic!Persist(o)
    BY <1>2 DEF Persist, ChainWrite, Load, Atomic!Persist, Atomic!ChainWrite
  <2>. QED  BY <1>2, <2>1, <2>2 DEF Persist, ChainWrite, FullBeforeRename, Atomic!Next
<1>3. CASE StartWrite
  <2>1. Atomic!StartWrite
    BY <1>3 DEF StartWrite, Serialise, Load, Atomic!StartWrite, Atomic!Serialise
  <2>. QED  BY <1>3, <2>1 DEF StartWrite, Serialise, ChainInv, FullBeforeRename, Atomic!Next
<1>4. CASE OpenTemp \/ FillTemp
  BY <1>4 DEF OpenTemp, FillTemp, storeVars, ChainInv, FullBeforeRename, Load,
     Atomic!vars, Atomic!storeVars
<1>5. CASE RenameTemp \/ FailWrite
  BY <1>5, WriteEnds DEF Atomic!Next
<1>6. CASE Restart
  <2>1. ChainInv'
    BY <1>6, LoadsWhole, EmptySeq DEF Restart, Reload, ChainInv
  <2>2. Atomic!Restart
    BY <1>6 DEF Restart, Reload, Pending, Load, Atomic!Restart, Atomic!Reload, Atomic!Pending
  <2>. QED  BY <1>6, <2>1, <2>2 DEF Restart, Reload, FullBeforeRename, Atomic!Next
<1>7. CASE UNCHANGED vars
  BY <1>7 DEF vars, storeVars, ChainInv, FullBeforeRename, Load, Atomic!vars, Atomic!storeVars
<1>. QED  BY <1>1, <1>2, <1>3, <1>4, <1>5, <1>6, <1>7 DEF Next

-----------------------------------------------------------------------------
(* README.md "JSON persistence with atomic writes", for every set of       *)
(* mutations: every behaviour of the write through a temporary file is one *)
(* of the store whose file changes in one step (Store.persist, Store.load). *)
THEOREM ImplementsAtomic == Spec => Atomic!Spec
<1>1. Init => Atomic!Init
  BY TornAssumption DEF Init, StoreInit, Load, Atomic!Init, Atomic!StoreInit
<1>. QED  BY <1>1, InitFile, StepFile, PTL DEF Spec, Atomic!Spec
-----------------------------------------------------------------------------
(* Every step of TempFileStore is one of StateStore on the file itself,    *)
(* since no file that is read is torn.                                     *)
LEMMA SameNext ==
  ASSUME FileInv, FileInv', [Atomic!Next]_(Atomic!vars)
  PROVE  [Store!Next]_(Store!vars)
<1>0. Load(file) = file /\ Load(file)' = file'
  BY LoadsWhole DEF FileInv
<1>1. ASSUME NEW o \in Owner, Atomic!Mutate(o) PROVE Store!Mutate(o)
  BY <1>0, <1>1 DEF Atomic!Mutate, Store!Mutate, Atomic!Commit, Store!Commit,
     Atomic!Pending, Store!Pending
<1>2. ASSUME NEW o \in Owner, Atomic!Persist(o) PROVE Store!Persist(o)
  BY <1>0, <1>2 DEF Atomic!Persist, Store!Persist, Atomic!ChainWrite, Store!ChainWrite
<1>3. Atomic!StartWrite => Store!StartWrite
  BY <1>0 DEF Atomic!StartWrite, Store!StartWrite, Atomic!Serialise, Store!Serialise
<1>4. /\ Atomic!EndWrite => Store!EndWrite
      /\ Atomic!FailWrite => Store!FailWrite
  BY <1>0 DEF Atomic!EndWrite, Store!EndWrite, Atomic!WriteDone, Store!WriteDone,
     Atomic!FailWrite, Store!FailWrite, Atomic!WriteFailed, Store!WriteFailed,
     Atomic!Settle, Store!Settle
<1>5. Atomic!Restart => Store!Restart
  BY <1>0 DEF Atomic!Restart, Store!Restart, Atomic!Reload, Store!Reload,
     Atomic!Pending, Store!Pending
<1>6. UNCHANGED Atomic!vars => UNCHANGED Store!vars
  BY <1>0 DEF Atomic!vars, Store!vars, Atomic!storeVars, Store!storeVars
<1>. QED  BY <1>1, <1>2, <1>3, <1>4, <1>5, <1>6 DEF Atomic!Next, Store!Next

LEMMA SameInvariants ==
  FileInv => /\ Store!Durable => RestartKeepsSaved
             /\ Store!RolledBack => RolledBack
BY LoadsWhole DEF FileInv, RestartKeepsSaved, RolledBack, Atomic!Durable, Store!Durable,
   Atomic!RolledBack, Store!RolledBack, Atomic!Saved, Store!Saved,
   Atomic!Failed, Store!Failed

LEMMA FirstState == Init => FileInv /\ IInv
<1>1. Init => Store!Init
  BY DEF Init, StoreInit, Store!Init, Store!StoreInit
<1>. QED  BY <1>1, InitFile, InitInv

LEMMA EveryStep ==
  FileInv /\ IInv /\ [Next]_vars => FileInv' /\ IInv' /\ [Store!Next]_(Store!vars)
BY StepFile, SameNext, NextInv

LEMMA Promises == FileInv /\ IInv => RestartKeepsSaved /\ RolledBack
BY SameInvariants, InvImplies

-----------------------------------------------------------------------------
(* Whenever the process ends, Store.load reads back every mutation that a  *)
(* caller was told had been saved, unless a stale snapshot was put back.   *)
THEOREM RestartKeepsSavedAlways == Spec => []RestartKeepsSaved
BY FirstState, EveryStep, Promises, PTL DEF Spec

(* Unless a stale snapshot was put back, Store.commit takes a mutation     *)
(* whose write failed out of memory, at whichever file operation it failed. *)
THEOREM RolledBackAlways == Spec => []RolledBack
BY FirstState, EveryStep, Promises, PTL DEF Spec

(* Under the same condition no rename takes a saved mutation out of the    *)
(* data file.                                                              *)
THEOREM NoSaveUndoneAlways == Spec => NoSaveUndone
<1>1. FileInv /\ FileInv' /\ IInv /\ [Store!Next]_(Store!vars)
        => [~overlapped' => Atomic!Saved \cap Load(file) \subseteq Load(file)']_(Atomic!vars)
  <2>. SUFFICES ASSUME FileInv, FileInv', IInv, [Store!Next]_(Store!vars)
                PROVE  [~overlapped' => Atomic!Saved \cap Load(file) \subseteq Load(file)']_(Atomic!vars)
    OBVIOUS
  <2>1. Load(file) = file /\ Load(file)' = file' /\ Atomic!Saved = Store!Saved
    BY LoadsWhole DEF FileInv, Atomic!Saved, Store!Saved
  <2>2. [~overlapped' => Store!Saved \cap file \subseteq file']_(Store!vars)
    BY StepKeepsSaved
  <2>. QED
    BY <2>1, <2>2 DEF Atomic!vars, Store!vars, Atomic!storeVars, Store!storeVars
<1>. QED
  BY <1>1, FirstState, EveryStep, PTL DEF Spec, NoSaveUndone, Atomic!NoSaveUndone

(***************************************************************************)
(* The registry and ZigbeeHome.                                            *)
(***************************************************************************)

(***************************************************************************)
(* Names: no two devices have one, unless one was given twice.             *)
(***************************************************************************)
FriendlyNames == {Friendly(n) : n \in Name}
Givings == SUBSET (FriendlyNames \X Phys)
Distinct(G) == \A g, h \in G : g[1] = h[1] => g[2] = h[2]

\* The names a device has had, and the keys its record may have.
NamesOf(d, G) == {Address(d)} \cup {n \in Names : <<n, d>> \in G}
KeysOf(d, G) == NamesOf(d, G) \cup {Stable(d)}

LEMMA Tags ==
  /\ \A d, e : Stable(d) = Stable(e) => d = e
  /\ \A d, e : Address(d) = Address(e) => d = e
  /\ \A d, e : Stable(d) # Address(e) /\ Friendly(d) # Address(e) /\ Friendly(d) # Stable(e)
  /\ None \notin Keys /\ \A d : None # Stable(d) /\ None # Address(d) /\ None # Friendly(d)
<1>1. /\ \A d, e : Stable(d) = Stable(e) => d = e
      /\ \A d, e : Address(d) = Address(e) => d = e
      /\ \A d, e : Stable(d) # Address(e) /\ Friendly(d) # Address(e) /\ Friendly(d) # Stable(e)
      /\ \A d : None # Stable(d) /\ None # Address(d) /\ None # Friendly(d)
  BY DEF Stable, Address, Friendly, None
<1>2. None \notin Keys
  BY <1>1 DEF Keys, Names
<1>. QED  BY <1>1, <1>2

LEMMA NamesAre ==
  ASSUME NEW d \in Phys, NEW G \in Givings
  PROVE  /\ NamesOf(d, G) \subseteq Names /\ NamesOf(d, G) \subseteq Keys /\ KeysOf(d, G) \subseteq Keys
         /\ Stable(d) \notin Names /\ Stable(d) \in Keys /\ Address(d) \in NamesOf(d, G)
         /\ None \notin KeysOf(d, G) /\ None \notin Names
<1>1. Address(d) \in Names /\ Stable(d) \in Keys /\ Names \subseteq Keys
  BY DEF Names, Keys
<1>2. Stable(d) \notin Names
  BY Tags DEF Names
<1>. QED  BY <1>1, <1>2, Tags DEF NamesOf, KeysOf

LEMMA OneOwner ==
  ASSUME NEW G \in Givings, Distinct(G), NEW d \in Phys, NEW e \in Phys, NEW k \in KeysOf(d, G), k \in KeysOf(e, G)
  PROVE  d = e
<1>1. ASSUME NEW n \in Names, NEW c \in Phys, <<n, c>> \in G  PROVE n \in FriendlyNames
  BY <1>1 DEF Givings
<1>2. CASE k = Stable(d) \/ k = Stable(e)
  BY <1>2, Tags, NamesAre DEF KeysOf
<1>3. CASE k # Stable(d) /\ k # Stable(e)
  <2>1. k \in NamesOf(d, G) /\ k \in NamesOf(e, G)
    BY <1>3 DEF KeysOf
  <2>2. CASE k \in FriendlyNames
    <3>1. k # Address(d) /\ k # Address(e)
      BY <2>2, Tags DEF FriendlyNames
    <3>2. <<k, d>> \in G /\ <<k, e>> \in G
      BY <2>1, <3>1 DEF NamesOf
    <3>. QED  BY <3>2 DEF Distinct
  <2>3. CASE k \notin FriendlyNames
    <3>1. k = Address(d) /\ k = Address(e)
      BY <2>1, <2>3, <1>1 DEF NamesOf
    <3>. QED  BY <3>1, Tags
  <2>. QED  BY <2>2, <2>3
<1>. QED  BY <1>2, <1>3

LEMMA MoreNames ==
  ASSUME NEW G, NEW H, G \subseteq H, NEW d
  PROVE  NamesOf(d, G) \subseteq NamesOf(d, H) /\ KeysOf(d, G) \subseteq KeysOf(d, H)
BY DEF NamesOf, KeysOf

(***************************************************************************)
(* Functions.                                                              *)
(***************************************************************************)
LEMMA OverIs ==
  ASSUME NEW f, NEW g
  PROVE  /\ DOMAIN Over(f, g) = DOMAIN f \cup DOMAIN g
         /\ \A x \in DOMAIN f : Over(f, g)[x] = f[x]
         /\ \A x \in DOMAIN g : x \notin DOMAIN f => Over(f, g)[x] = g[x]
BY DEF Over

\* Functions on some keys, with values in S.
Maps(S) == UNION {[K -> S] : K \in SUBSET Keys}

LEMMA MapsAre ==
  ASSUME NEW S
  PROVE  /\ \A f \in Maps(S) : DOMAIN f \subseteq Keys /\ f \in [DOMAIN f -> S] /\ \A k \in DOMAIN f : f[k] \in S
         /\ \A K \in SUBSET Keys : [K -> S] \subseteq Maps(S)
BY DEF Maps

LEMMA PutMaps ==
  ASSUME NEW S, NEW f \in Maps(S), NEW k \in Keys, NEW x \in S
  PROVE  Put(f, k, x) \in Maps(S)
<1>1. DOMAIN f \cup {k} \in SUBSET Keys /\ \A l \in DOMAIN f : f[l] \in S
  BY MapsAre
<1>2. Put(f, k, x) = [l \in DOMAIN f \cup {k} |-> IF l = k THEN x ELSE f[l]]
  BY DEF Put, Over
<1>3. Put(f, k, x) \in [DOMAIN f \cup {k} -> S]
  BY <1>1, <1>2
<1>. QED  BY <1>1, <1>3 DEF Maps

LEMMA OverMaps ==
  ASSUME NEW S, NEW f \in Maps(S), NEW g \in Maps(S)
  PROVE  Over(f, g) \in Maps(S)
<1>1. DOMAIN f \cup DOMAIN g \in SUBSET Keys /\ (\A l \in DOMAIN f : f[l] \in S) /\ \A l \in DOMAIN g : g[l] \in S
  BY MapsAre
<1>2. Over(f, g) \in [DOMAIN f \cup DOMAIN g -> S]
  BY <1>1 DEF Over
<1>. QED  BY <1>1, <1>2 DEF Maps

LEMMA RestrictMaps ==
  ASSUME NEW S, NEW f \in Maps(S), NEW K, K \subseteq DOMAIN f
  PROVE  /\ Restrict(f, K) \in Maps(S) /\ DOMAIN Restrict(f, K) = K
         /\ \A k \in K : Restrict(f, K)[k] = f[k]
<1>1. K \in SUBSET Keys /\ \A l \in K : f[l] \in S
  BY MapsAre
<1>2. Restrict(f, K) \in [K -> S]
  BY <1>1 DEF Restrict
<1>3. DOMAIN Restrict(f, K) = K /\ \A k \in K : Restrict(f, K)[k] = f[k]
  BY DEF Restrict
<1>. QED  BY <1>1, <1>2, <1>3 DEF Maps

(***************************************************************************)
(* Sequences.                                                              *)
(***************************************************************************)
LEMMA RemovedAt ==
  ASSUME NEW S, NEW q \in Seq(S), NEW i \in DOMAIN q
  PROVE  /\ RemoveAt(q, i) \in Seq(S) /\ Len(RemoveAt(q, i)) = Len(q) - 1
         /\ DOMAIN RemoveAt(q, i) = 1..(Len(q) - 1) /\ DOMAIN q = 1..Len(q) /\ Len(q) \in Nat /\ i \in Nat
         /\ \A j \in DOMAIN RemoveAt(q, i) : RemoveAt(q, i)[j] = IF j < i THEN q[j] ELSE q[j + 1]
<1>1. DOMAIN q = 1..Len(q) /\ Len(q) \in Nat /\ i \in 1..Len(q)
  OBVIOUS
<1>. DEFINE a == SubSeq(q, 1, i - 1)
            b == SubSeq(q, i + 1, Len(q))
<1>2. a \in Seq(S) /\ Len(a) = i - 1 /\ \A j \in 1..(i - 1) : a[j] = q[j]
  BY <1>1
<1>3. b \in Seq(S) /\ Len(b) = Len(q) - i /\ \A j \in 1..(Len(q) - i) : b[j] = q[i + j]
  BY <1>1
<1>4. RemoveAt(q, i) = a \o b
  BY DEF RemoveAt
<1>. HIDE DEF a, b
<1>5. a \o b \in Seq(S) /\ Len(a \o b) = Len(q) - 1
  <2>1. a \o b \in Seq(S) /\ Len(a \o b) = Len(a) + Len(b)
    BY <1>2, <1>3, ConcatProperties
  <2>. QED  BY <1>1, <1>2, <1>3, <2>1
<1>6. ASSUME NEW j \in 1..(Len(q) - 1)  PROVE (a \o b)[j] = IF j < i THEN q[j] ELSE q[j + 1]
  <2>1. CASE j < i
    BY <1>1, <1>2, <1>3, <2>1
  <2>2. CASE ~(j < i)
    <3>1. (a \o b)[j] = b[j - (i - 1)]
      BY <1>1, <1>2, <1>3, <2>2
    <3>2. j - (i - 1) \in 1..(Len(q) - i)
      BY <1>1, <2>2
    <3>3. b[j - (i - 1)] = q[i + (j - (i - 1))]
      BY <1>3, <3>2
    <3>. QED  BY <1>1, <2>2, <3>1, <3>3
  <2>. QED  BY <2>1, <2>2
<1>7. DOMAIN RemoveAt(q, i) = 1..(Len(q) - 1)
  <2>1. DOMAIN (a \o b) = 1..Len(a \o b)
    BY <1>5
  <2>. QED  BY <1>4, <1>5, <2>1
<1>8. RemoveAt(q, i) \in Seq(S) /\ Len(RemoveAt(q, i)) = Len(q) - 1
  BY <1>4, <1>5
<1>9. \A j \in DOMAIN RemoveAt(q, i) : RemoveAt(q, i)[j] = IF j < i THEN q[j] ELSE q[j + 1]
  BY <1>4, <1>6, <1>7
<1>. QED  BY <1>1, <1>7, <1>8, <1>9

(***************************************************************************)
(* The operators of the registry.                                          *)
(***************************************************************************)
Registry == [devices : Maps(Record), aliases : Maps(Keys), areas : SUBSET Area, entry : BOOLEAN]
Patches == [legacy : SUBSET Keys, friendly : Names \cup {None}, ieee : Keys \cup {None},
            pending : SUBSET BOOLEAN, from : SUBSET Phys]

LEMMA RecordsAre ==
  ASSUME NEW x \in Record
  PROVE  /\ x.legacy \subseteq Keys /\ x.friendly \in Names \cup {None} /\ x.ieee \in Keys /\ x.area \in Area \cup {None}
         /\ x.ready \in BOOLEAN /\ x.pending \in BOOLEAN /\ x.from \subseteq Phys
BY DEF Record

LEMMA PatchedIs ==
  ASSUME NEW x \in Record, NEW p \in Patches
  PROVE  /\ Patched(x, p) \in Record
         /\ Patched(x, p).legacy = x.legacy \cup p.legacy /\ Patched(x, p).from = x.from \cup p.from
         /\ Patched(x, p).friendly = Or(p.friendly, x.friendly) /\ Patched(x, p).ieee = Or(p.ieee, x.ieee)
         /\ Patched(x, p).area = x.area /\ Patched(x, p).ready = x.ready
<1>. DEFINE b == TRUE \in p.pending \/ (x.pending /\ FALSE \notin p.pending)
            l == x.legacy \cup p.legacy
            n == Or(p.friendly, x.friendly)
            i == Or(p.ieee, x.ieee)
            o == x.from \cup p.from
<1>1. Patched(x, p) = [x EXCEPT !.legacy = l, !.friendly = n, !.ieee = i, !.from = o, !.pending = b]
  BY DEF Patched
<1>2. l \in SUBSET Keys /\ o \in SUBSET Phys /\ n \in Names \cup {None} /\ i \in Keys
  BY RecordsAre DEF Patches, Or
<1>3. b \in BOOLEAN
  OBVIOUS
<1>. HIDE DEF b, l, n, i, o
<1>4. /\ [x EXCEPT !.legacy = l, !.friendly = n, !.ieee = i, !.from = o, !.pending = b] \in Record
      /\ \A y : y = [x EXCEPT !.legacy = l, !.friendly = n, !.ieee = i, !.from = o, !.pending = b] =>
           y.legacy = l /\ y.from = o /\ y.friendly = n /\ y.ieee = i /\ y.area = x.area /\ y.ready = x.ready
  BY <1>2, <1>3 DEF Record
<1>. QED  BY <1>1, <1>4 DEF l, n, i, o

LEMMA BlankIs == \A k \in Keys : Blank(k) \in Record
BY DEF Blank, Record

LEMMA PatchesAre ==
  /\ Nothing \in Patches
  /\ \A d \in Phys : [Nothing EXCEPT !.from = {d}] \in Patches
  /\ \A item \in [dev : Phys, name : Names, done : BOOLEAN] : ItemPatch(item) \in Patches
<1>1. Names \subseteq Keys /\ \A d \in Phys : Address(d) \in Keys
  BY NamesAre DEF Keys, Names
<1>. QED  BY <1>1 DEF Nothing, Patches, ItemPatch

LEMMA RegistryIs ==
  ASSUME NEW r \in Registry
  PROVE  /\ r.devices \in Maps(Record) /\ r.aliases \in Maps(Keys) /\ r.areas \subseteq Area /\ r.entry \in BOOLEAN
         /\ DOMAIN r.devices \subseteq Keys /\ DOMAIN r.aliases \subseteq Keys
         /\ \A k \in DOMAIN r.devices : r.devices[k] \in Record
         /\ \A a \in DOMAIN r.aliases : r.aliases[a] \in Keys
         /\ \A k \in Keys : Resolve(r, k) \in Keys /\ Existing(r, k) \in Record
<1>1. /\ r.devices \in Maps(Record) /\ r.aliases \in Maps(Keys) /\ r.areas \subseteq Area /\ r.entry \in BOOLEAN
  BY DEF Registry
<1>2. /\ DOMAIN r.devices \subseteq Keys /\ DOMAIN r.aliases \subseteq Keys
      /\ \A k \in DOMAIN r.devices : r.devices[k] \in Record
      /\ \A a \in DOMAIN r.aliases : r.aliases[a] \in Keys
  BY <1>1, MapsAre
<1>. QED  BY <1>1, <1>2, BlankIs DEF Resolve, Existing

Leading(names, key, a) == Over([l \in names |-> key], a)

LEMMA LeadingIs ==
  ASSUME NEW names \in SUBSET Keys, NEW key \in Keys, NEW a \in Maps(Keys)
  PROVE  /\ Leading(names, key, a) \in Maps(Keys) /\ DOMAIN Leading(names, key, a) = names \cup DOMAIN a
         /\ \A l \in names : Leading(names, key, a)[l] = key
         /\ \A l \in DOMAIN a : l \notin names => Leading(names, key, a)[l] = a[l]
<1>. DEFINE f == [l \in names |-> key]
<1>1. f \in Maps(Keys) /\ DOMAIN f = names /\ \A l \in names : f[l] = key
  BY MapsAre
<1>2. Leading(names, key, a) = Over(f, a)
  BY DEF Leading
<1>. HIDE DEF f
<1>3. Over(f, a) \in Maps(Keys)
  BY <1>1, OverMaps
<1>4. /\ DOMAIN Over(f, a) = names \cup DOMAIN a /\ \A l \in names : Over(f, a)[l] = f[l]
      /\ \A l \in DOMAIN a : l \notin names => Over(f, a)[l] = a[l]
  BY <1>1, OverIs
<1>. QED  BY <1>1, <1>2, <1>3, <1>4

LEMMA UpsertIs ==
  ASSUME NEW r \in Registry, NEW key \in Keys, NEW p \in Patches
  PROVE  LET x == Patched(Existing(r, key), p)
             s == Upsert(r, key, p)
         IN /\ s \in Registry /\ s.devices = Put(r.devices, key, x) /\ s.aliases = Leading(x.legacy, key, r.aliases)
            /\ s.areas = r.areas /\ s.entry = r.entry /\ x \in Record
<1>. DEFINE x == Patched(Existing(r, key), p)
            f == Put(r.devices, key, x)
            a == Leading(x.legacy, key, r.aliases)
<1>1. x \in Record /\ x.legacy \in SUBSET Keys
  <2>1. Existing(r, key) \in Record
    BY RegistryIs
  <2>. DEFINE e == Existing(r, key)
  <2>. HIDE DEF e
  <2>2. e \in Record => Patched(e, p) \in Record
    BY PatchedIs
  <2>3. x \in Record
    BY <2>1, <2>2 DEF e
  <2>. QED  BY <2>3, RecordsAre
<1>2. Upsert(r, key, p) = [r EXCEPT !.devices = f, !.aliases = a]
  BY DEF Upsert, Leading, Registry
<1>. HIDE DEF x
<1>3. f \in Maps(Record) /\ a \in Maps(Keys)
  BY <1>1, RegistryIs, PutMaps, LeadingIs
<1>. HIDE DEF f, a
<1>4. /\ Upsert(r, key, p) \in Registry /\ Upsert(r, key, p).devices = f /\ Upsert(r, key, p).aliases = a
      /\ Upsert(r, key, p).areas = r.areas /\ Upsert(r, key, p).entry = r.entry
  BY <1>2, <1>3 DEF Registry
<1>. QED  BY <1>1, <1>4 DEF x, f, a

LEMMA MigrateIs ==
  ASSUME NEW r \in Registry, NEW from \in Keys, NEW key \in Keys, NEW p \in Patches
  PROVE  /\ Migrate(r, from, key, p) \in Registry
         /\ Migrate(r, from, key, p).areas = r.areas
         /\ Resolve(r, from) = from /\ from # key /\ from \in DOMAIN r.devices /\ key \notin DOMAIN r.devices =>
              LET x == Patched(r.devices[from], [p EXCEPT !.legacy = @ \cup {from}])
              IN /\ Migrate(r, from, key, p).devices = Put(Restrict(r.devices, DOMAIN r.devices \ {from}), key, x)
                 /\ Migrate(r, from, key, p).aliases = Put(r.aliases, from, key)
<1>. DEFINE source == Resolve(r, from)
            q == [p EXCEPT !.legacy = @ \cup {source}]
            moved == Patched(r.devices[source], q)
            e == r.devices[key]
            both == [e EXCEPT !.legacy = @ \cup moved.legacy, !.from = @ \cup moved.from,
                        !.friendly = moved.friendly, !.ieee = moved.ieee, !.pending = moved.pending]
            target == IF key \in DOMAIN r.devices THEN both ELSE moved
            rest == Restrict(r.devices, DOMAIN r.devices \ {source})
            f == Put(rest, key, target)
            a == Put(r.aliases, source, key)
<1>1. source \in Keys /\ q \in Patches
  <2>1. source \in Keys
    BY RegistryIs
  <2>. HIDE DEF source
  <2>2. q \in Patches
    BY <2>1 DEF Patches
  <2>. QED  BY <2>1, <2>2
<1>2. CASE source = key \/ source \notin DOMAIN r.devices
  <2>1. Migrate(r, from, key, p) = Upsert(r, key, p)
    BY <1>2 DEF Migrate
  <2>2. ~(Resolve(r, from) = from /\ from # key /\ from \in DOMAIN r.devices /\ key \notin DOMAIN r.devices)
    BY <1>2
  <2>3. Upsert(r, key, p) \in Registry /\ Upsert(r, key, p).areas = r.areas
    BY UpsertIs
  <2>. QED  BY <2>1, <2>2, <2>3
<1>3. CASE source # key /\ source \in DOMAIN r.devices
  <2>1. Migrate(r, from, key, p) = [r EXCEPT !.devices = f, !.aliases = a]
    BY <1>3 DEF Migrate, Registry
  <2>2. r.devices[source] \in Record /\ rest \in Maps(Record)
    BY <1>3, RegistryIs, RestrictMaps
  <2>. HIDE DEF source, q, rest
  <2>3. moved \in Record
    BY <1>1, <2>2, PatchedIs
  <2>. HIDE DEF moved
  <2>4. key \in DOMAIN r.devices => e \in Record
    BY RegistryIs
  <2>5. target \in Record
    <3>. HIDE DEF e
    <3>1. e \in Record => both \in Record
      BY <2>3 DEF Record
    <3>. QED  BY <2>3, <2>4, <3>1
  <2>. HIDE DEF target, e
  <2>6. f \in Maps(Record) /\ a \in Maps(Keys)
    BY <1>1, <2>2, <2>5, PutMaps, RegistryIs
  <2>. HIDE DEF f, a
  <2>7. /\ Migrate(r, from, key, p) \in Registry /\ Migrate(r, from, key, p).areas = r.areas
        /\ Migrate(r, from, key, p).devices = f /\ Migrate(r, from, key, p).aliases = a
    BY <2>1, <2>6 DEF Registry
  <2>8. ASSUME source = from, key \notin DOMAIN r.devices
        PROVE  /\ f = Put(Restrict(r.devices, DOMAIN r.devices \ {from}), key, Patched(r.devices[from], [p EXCEPT !.legacy = @ \cup {from}]))
               /\ a = Put(r.aliases, from, key)
    BY <2>8 DEF f, a, rest, target, moved, q
  <2>. QED  BY <2>7, <2>8 DEF source
<1>. QED  BY <1>2, <1>3

LEMMA RemovedIs ==
  ASSUME NEW r \in Registry, NEW key \in Keys
  PROVE  LET gone == Resolve(r, key)
             names == {key, gone, r.devices[gone].friendly, r.devices[gone].ieee} \cup r.devices[gone].legacy
             kept == {a \in DOMAIN r.aliases : a \notin names /\ r.aliases[a] \notin names}
         IN /\ gone \notin DOMAIN r.devices => Removed(r, key) = r
            /\ Removed(r, key) \in Registry /\ Removed(r, key).areas = r.areas
            /\ gone \in DOMAIN r.devices =>
                 /\ Removed(r, key).devices = Restrict(r.devices, DOMAIN r.devices \ {gone})
                 /\ Removed(r, key).aliases = Restrict(r.aliases, kept)
<1>. DEFINE gone == Resolve(r, key)
            names == {key, gone, r.devices[gone].friendly, r.devices[gone].ieee} \cup r.devices[gone].legacy
            kept == {a \in DOMAIN r.aliases : a \notin names /\ r.aliases[a] \notin names}
            f == Restrict(r.devices, DOMAIN r.devices \ {gone})
            a == Restrict(r.aliases, kept)
<1>1. CASE gone \notin DOMAIN r.devices
  BY <1>1 DEF Removed
<1>2. CASE gone \in DOMAIN r.devices
  <2>1. Removed(r, key) = [r EXCEPT !.devices = f, !.aliases = a]
    BY <1>2 DEF Removed, Registry
  <2>2. kept \subseteq DOMAIN r.aliases /\ DOMAIN r.devices \ {gone} \subseteq DOMAIN r.devices
    OBVIOUS
  <2>. HIDE DEF kept, gone
  <2>3. f \in Maps(Record) /\ a \in Maps(Keys)
    BY <2>2, RegistryIs, RestrictMaps
  <2>. HIDE DEF f, a
  <2>4. /\ Removed(r, key) \in Registry /\ Removed(r, key).areas = r.areas
        /\ Removed(r, key).devices = f /\ Removed(r, key).aliases = a
    BY <2>1, <2>3 DEF Registry
  <2>. QED  BY <1>2, <2>4 DEF f, a, kept, gone
<1>. QED  BY <1>1, <1>2

LEMMA WithoutAreaIs ==
  ASSUME NEW r \in Registry, NEW area \in Area
  PROVE  LET s == WithoutArea(r, area)
         IN /\ s \in Registry /\ s.aliases = r.aliases /\ s.areas = r.areas \ {area}
            /\ DOMAIN s.devices = DOMAIN r.devices
            /\ \A k \in DOMAIN r.devices :
                 /\ s.devices[k] \in Record /\ s.devices[k].legacy = r.devices[k].legacy /\ s.devices[k].ieee = r.devices[k].ieee
                 /\ s.devices[k].friendly = r.devices[k].friendly /\ s.devices[k].from = r.devices[k].from
<1>. DEFINE cleared(record) == IF record.area = area THEN [record EXCEPT !.area = None] ELSE record
            unready(record) == IF record.area = None THEN [record EXCEPT !.ready = FALSE] ELSE record
            f == [k \in DOMAIN r.devices |-> unready(cleared(r.devices[k]))]
            s == [r EXCEPT !.areas = @ \ {area}, !.devices = f]
<1>1. ASSUME NEW x \in Record
      PROVE  /\ unready(cleared(x)) \in Record /\ unready(cleared(x)).legacy = x.legacy /\ unready(cleared(x)).ieee = x.ieee
             /\ unready(cleared(x)).friendly = x.friendly /\ unready(cleared(x)).from = x.from
  <2>1. ASSUME NEW y \in Record
        PROVE  /\ cleared(y) \in Record /\ cleared(y).legacy = y.legacy /\ cleared(y).ieee = y.ieee
               /\ cleared(y).friendly = y.friendly /\ cleared(y).from = y.from
    BY DEF Record
  <2>2. ASSUME NEW y \in Record
        PROVE  /\ unready(y) \in Record /\ unready(y).legacy = y.legacy /\ unready(y).ieee = y.ieee
               /\ unready(y).friendly = y.friendly /\ unready(y).from = y.from
    BY DEF Record
  <2>. HIDE DEF cleared, unready
  <2>. QED  BY <2>1, <2>2
<1>2. WithoutArea(r, area) = s
  BY DEF WithoutArea, Registry
<1>. HIDE DEF cleared, unready
<1>3. f \in Maps(Record)
  <2>1. DOMAIN r.devices \in SUBSET Keys /\ \A k \in DOMAIN r.devices : r.devices[k] \in Record
    BY RegistryIs
  <2>2. f \in [DOMAIN r.devices -> Record]
    BY <1>1, <2>1
  <2>. QED  BY <2>1, <2>2 DEF Maps
<1>4. DOMAIN f = DOMAIN r.devices /\ \A k \in DOMAIN r.devices : f[k] = unready(cleared(r.devices[k])) /\ r.devices[k] \in Record
  BY RegistryIs
<1>. HIDE DEF f
<1>5. s \in Registry /\ s.aliases = r.aliases /\ s.areas = r.areas \ {area} /\ s.devices = f
  BY <1>3 DEF Registry
<1>. QED  BY <1>1, <1>2, <1>4, <1>5

(***************************************************************************)
(* A tidy registry: every key is one of a device's, no device has two      *)
(* records, and its aliases lead to the record under its proper key.       *)
(***************************************************************************)
\* A record under its proper key, or one that a report made under a name.
Is(k, x, d, G) ==
  \/ /\ k = Stable(d) /\ x.ieee = Address(d) /\ x.friendly \in x.legacy
     /\ x.legacy \subseteq NamesOf(d, G) /\ x.from \subseteq {d}
  \/ k \in NamesOf(d, G) /\ x.legacy = {} /\ x.friendly = None /\ x.ieee = k /\ x.from = {d}

Single(f, a, d, G) ==
  /\ \A k \in DOMAIN f \cap KeysOf(d, G) : Is(k, f[k], d, G)
  /\ \A k, l \in DOMAIN f \cap KeysOf(d, G) : k = l
  /\ \A x \in DOMAIN a \cap KeysOf(d, G) : x # Stable(d) /\ a[x] = Stable(d) /\ Stable(d) \in DOMAIN f
  /\ Stable(d) \in DOMAIN f => f[Stable(d)].legacy \subseteq DOMAIN a \cup {f[Stable(d)].friendly}

Tidy(f, a, G) ==
  /\ \A k \in DOMAIN f \cup DOMAIN a : \E d \in Phys : k \in KeysOf(d, G)
  /\ \A d \in Phys : Single(f, a, d, G)

\* Every setup goes on in a record; the records of devices in D were there, and lost no name.
Keeps(f, g) ==
  \A k \in DOMAIN f : f[k].ready =>
    \E l \in DOMAIN g : g[l].ready /\ g[l].area = f[k].area /\ f[k].from \subseteq g[l].from
Steady(f, g, D) ==
  \A d \in D : Stable(d) \in DOMAIN g => Stable(d) \in DOMAIN f /\ f[Stable(d)].legacy \subseteq g[Stable(d)].legacy

LEMMA StableKey == \A d, G : Stable(d) \in KeysOf(d, G) /\ Address(d) \in NamesOf(d, G) /\ NamesOf(d, G) \subseteq KeysOf(d, G)
BY DEF KeysOf, NamesOf

\* A change to the keys of one device leaves the others as they are.
LEMMA OneDevice ==
  ASSUME NEW G \in Givings, Distinct(G), NEW f \in Maps(Record), NEW g \in Maps(Record), NEW a \in Maps(Keys), NEW b \in Maps(Keys),
         Tidy(f, a, G), NEW d \in Phys, Single(g, b, d, G),
         \A k \in Keys \ KeysOf(d, G) : (k \in DOMAIN g <=> k \in DOMAIN f) /\ (k \in DOMAIN f => g[k] = f[k]),
         \A k \in Keys \ KeysOf(d, G) : (k \in DOMAIN b <=> k \in DOMAIN a) /\ (k \in DOMAIN a => b[k] = a[k])
  PROVE  Tidy(g, b, G)
<1>1. /\ DOMAIN f \subseteq Keys /\ DOMAIN g \subseteq Keys /\ DOMAIN a \subseteq Keys /\ DOMAIN b \subseteq Keys
  BY MapsAre
<1>2. ASSUME NEW k \in DOMAIN g \cup DOMAIN b  PROVE \E e \in Phys : k \in KeysOf(e, G)
  <2>1. CASE k \in KeysOf(d, G)
    BY <2>1
  <2>2. CASE k \notin KeysOf(d, G)
    <3>1. k \in DOMAIN f \cup DOMAIN a
      BY <1>1, <2>2
    <3>. QED  BY <3>1 DEF Tidy
  <2>. QED  BY <2>1, <2>2
<1>3. ASSUME NEW e \in Phys, e # d  PROVE Single(g, b, e, G)
  <2>1. Single(f, a, e, G)
    BY DEF Tidy
  <2>2. \A k \in KeysOf(e, G) : k \in Keys /\ k \notin KeysOf(d, G)
    BY <1>3, OneOwner, NamesAre
  <2>3. \A k \in KeysOf(e, G) : (k \in DOMAIN g <=> k \in DOMAIN f) /\ (k \in DOMAIN f => g[k] = f[k])
    BY <2>2
  <2>4. \A k \in KeysOf(e, G) : (k \in DOMAIN b <=> k \in DOMAIN a) /\ (k \in DOMAIN a => b[k] = a[k])
    BY <2>2
  <2>5. Stable(e) \in KeysOf(e, G)
    BY StableKey
  <2>6. Stable(e) \in DOMAIN f => f[Stable(e)].legacy \subseteq KeysOf(e, G)
    <3>1. ASSUME Stable(e) \in DOMAIN f  PROVE f[Stable(e)].legacy \subseteq NamesOf(e, G)
      BY <2>1, <2>5, <3>1 DEF Single, Is
    <3>. QED  BY <3>1, StableKey
  <2>7. \A k \in DOMAIN g \cap KeysOf(e, G) : Is(k, g[k], e, G)
    BY <2>1, <2>3 DEF Single
  <2>8. \A k, l \in DOMAIN g \cap KeysOf(e, G) : k = l
    BY <2>1, <2>3 DEF Single
  <2>9. \A x \in DOMAIN b \cap KeysOf(e, G) : x # Stable(e) /\ b[x] = Stable(e) /\ Stable(e) \in DOMAIN g
    BY <2>1, <2>3, <2>4, <2>5 DEF Single
  <2>10. Stable(e) \in DOMAIN g => g[Stable(e)].legacy \subseteq DOMAIN b \cup {g[Stable(e)].friendly}
    BY <2>1, <2>3, <2>4, <2>5, <2>6 DEF Single
  <2>. QED  BY <2>7, <2>8, <2>9, <2>10 DEF Single
<1>. QED  BY <1>2, <1>3 DEF Tidy

\* What is found under a key of a device.
LEMMA Owned ==
  ASSUME NEW G \in Givings, Distinct(G), NEW f \in Maps(Record), NEW a \in Maps(Keys), Tidy(f, a, G), NEW k \in DOMAIN f
  PROVE  \E d \in Phys : k \in KeysOf(d, G) /\ Is(k, f[k], d, G)
BY DEF Tidy, Single

LEMMA NamedAfter ==
  ASSUME NEW G \in Givings, Distinct(G), NEW f \in Maps(Record), NEW a \in Maps(Keys), Tidy(f, a, G), NEW k \in DOMAIN f,
         NEW d \in Phys, NEW n \in KeysOf(d, G), n \in {f[k].friendly, f[k].ieee} \cup f[k].legacy
  PROVE  k \in KeysOf(d, G)
<1>1. PICK e \in Phys : k \in KeysOf(e, G) /\ Is(k, f[k], e, G)
  BY Owned
<1>2. n # None
  BY NamesAre
<1>3. n \in KeysOf(e, G)
  BY <1>1, <1>2, StableKey DEF Is
<1>. QED  BY <1>1, <1>3, OneOwner

LEMMA Found ==
  ASSUME NEW G \in Givings, Distinct(G), NEW r \in Registry, Tidy(r.devices, r.aliases, G), NEW d \in Phys, NEW key \in KeysOf(d, G)
  PROVE  /\ Resolve(r, key) \in KeysOf(d, G)
         /\ Lookup(r, key) \subseteq DOMAIN r.devices \cap KeysOf(d, G)
         /\ key \in DOMAIN r.devices => Resolve(r, key) = key /\ Lookup(r, key) = {key}
         /\ Lookup(r, key) = {} => key \notin DOMAIN r.aliases /\ key \notin DOMAIN r.devices
         /\ Stable(d) \in DOMAIN r.devices /\ key \in {Stable(d), Address(d), r.devices[Stable(d)].friendly} \cup DOMAIN r.aliases
              => Lookup(r, key) = {Stable(d)}
         /\ Stable(d) \notin DOMAIN r.devices => DOMAIN r.aliases \cap KeysOf(d, G) = {} /\ Lookup(r, Stable(d)) = {}
         /\ Stable(d) \notin DOMAIN r.aliases
<1>1. Single(r.devices, r.aliases, d, G) /\ r.devices \in Maps(Record) /\ r.aliases \in Maps(Keys)
  BY RegistryIs DEF Tidy
<1>2. Stable(d) \in KeysOf(d, G) /\ Address(d) \in KeysOf(d, G)
  BY StableKey
<1>3. \A x \in DOMAIN r.aliases \cap KeysOf(d, G) : x # Stable(d) /\ r.aliases[x] = Stable(d) /\ Stable(d) \in DOMAIN r.devices
  BY <1>1 DEF Single
<1>4. Resolve(r, key) \in KeysOf(d, G) /\ (key \in DOMAIN r.aliases => Resolve(r, key) = Stable(d) /\ Stable(d) \in DOMAIN r.devices)
  BY <1>2, <1>3 DEF Resolve
<1>5. ASSUME NEW n \in KeysOf(d, G), NEW k \in DOMAIN r.devices, n \in {r.devices[k].friendly, r.devices[k].ieee}
      PROVE  k \in KeysOf(d, G)
  BY <1>1, <1>5, NamedAfter
<1>6. ASSUME NEW n \in KeysOf(d, G), Resolve(r, n) \in KeysOf(d, G)
      PROVE Lookup(r, n) \subseteq DOMAIN r.devices \cap KeysOf(d, G)
  BY <1>5, <1>6 DEF Lookup
<1>7. ASSUME key \in DOMAIN r.devices  PROVE Resolve(r, key) = key /\ Lookup(r, key) = {key}
  <2>1. key \notin DOMAIN r.aliases
    BY <1>1, <1>2, <1>3, <1>7 DEF Single
  <2>. QED  BY <1>7, <2>1 DEF Resolve, Lookup
<1>8. Stable(d) \notin DOMAIN r.aliases
  BY <1>2, <1>3
<1>9. ASSUME Lookup(r, key) = {}  PROVE key \notin DOMAIN r.aliases /\ key \notin DOMAIN r.devices
  BY <1>4, <1>7, <1>9 DEF Lookup
<1>10. ASSUME Stable(d) \in DOMAIN r.devices, key \in {Stable(d), Address(d), r.devices[Stable(d)].friendly} \cup DOMAIN r.aliases
       PROVE  Lookup(r, key) = {Stable(d)}
  <2>1. \A k \in DOMAIN r.devices \cap KeysOf(d, G) : k = Stable(d)
    BY <1>1, <1>2, <1>10 DEF Single
  <2>2. Is(Stable(d), r.devices[Stable(d)], d, G)
    BY <1>1, <1>2, <1>10 DEF Single
  <2>3. r.devices[Stable(d)].ieee = Address(d)
    BY <2>2, NamesAre DEF Is
  <2>4. Lookup(r, key) \subseteq {Stable(d)}
    BY <1>4, <1>6, <2>1
  <2>5. CASE Resolve(r, key) \in DOMAIN r.devices
    BY <2>4, <2>5 DEF Lookup
  <2>6. CASE Resolve(r, key) \notin DOMAIN r.devices
    <3>1. key \notin DOMAIN r.aliases /\ key # Stable(d)
      BY <1>4, <1>8, <1>10, <2>6 DEF Resolve
    <3>2. Stable(d) \in Lookup(r, key)
      BY <1>10, <2>3, <2>6, <3>1 DEF Lookup
    <3>. QED  BY <2>4, <3>2
  <2>. QED  BY <2>5, <2>6
<1>11. ASSUME Stable(d) \notin DOMAIN r.devices  PROVE DOMAIN r.aliases \cap KeysOf(d, G) = {} /\ Lookup(r, Stable(d)) = {}
  <2>1. DOMAIN r.aliases \cap KeysOf(d, G) = {}
    BY <1>3, <1>11
  <2>2. Resolve(r, Stable(d)) = Stable(d)
    BY <1>8 DEF Resolve
  <2>3. ASSUME NEW k \in DOMAIN r.devices, Stable(d) \in {r.devices[k].friendly, r.devices[k].ieee}  PROVE FALSE
    <3>1. k \in KeysOf(d, G)
      BY <1>2, <1>5, <2>3
    <3>2. Is(k, r.devices[k], d, G) /\ k # Stable(d)
      BY <1>1, <1>11, <2>3, <3>1 DEF Single
    <3>3. k \in NamesOf(d, G) /\ r.devices[k].friendly = None /\ r.devices[k].ieee = k
      BY <3>2 DEF Is
    <3>. QED  BY <2>3, <3>2, <3>3, Tags
  <2>. QED  BY <1>11, <2>1, <2>2, <2>3 DEF Lookup
<1>. QED  BY <1>4, <1>6, <1>7, <1>8, <1>9, <1>10, <1>11

\* A patch that names nothing leaves a record its place.
LEMMA LightUpsert ==
  ASSUME NEW G \in Givings, Distinct(G), NEW r \in Registry, Tidy(r.devices, r.aliases, G), NEW d \in Phys,
         NEW k \in DOMAIN r.devices \cap KeysOf(d, G),
         NEW p \in Patches, p.legacy = {}, p.friendly = None, p.ieee = None, p.from \subseteq {d}
  PROVE  /\ Tidy(Upsert(r, k, p).devices, Upsert(r, k, p).aliases, G)
         /\ Keeps(r.devices, Upsert(r, k, p).devices) /\ Steady(r.devices, Upsert(r, k, p).devices, Phys)
<1>. DEFINE x == r.devices[k]
            y == Patched(x, p)
            s == Upsert(r, k, p)
<1>1. x \in Record /\ k \in Keys /\ Existing(r, k) = x /\ r.devices \in Maps(Record) /\ r.aliases \in Maps(Keys)
  BY RegistryIs DEF Existing
<1>2. /\ s \in Registry /\ s.devices = Put(r.devices, k, y) /\ s.aliases = Leading(y.legacy, k, r.aliases) /\ y \in Record
  BY <1>1, UpsertIs
<1>. HIDE DEF x
<1>a. /\ y.legacy = x.legacy \cup p.legacy /\ y.friendly = Or(p.friendly, x.friendly) /\ y.ieee = Or(p.ieee, x.ieee)
      /\ y.from = x.from \cup p.from /\ y.area = x.area /\ y.ready = x.ready
  BY <1>1, PatchedIs
<1>. HIDE DEF y, s
<1>3. /\ y.legacy = x.legacy /\ y.friendly = x.friendly /\ y.ieee = x.ieee /\ y.from = x.from \cup p.from
      /\ y.area = x.area /\ y.ready = x.ready
  BY <1>a DEF Or
<1>4. s.devices \in Maps(Record) /\ s.aliases \in Maps(Keys)
  BY <1>2, RegistryIs
<1>5. /\ DOMAIN s.devices = DOMAIN r.devices /\ s.devices[k] = y
      /\ \A l \in DOMAIN r.devices : l # k => s.devices[l] = r.devices[l]
  BY <1>2 DEF Put, Over
<1>6. /\ DOMAIN s.aliases = y.legacy \cup DOMAIN r.aliases /\ (\A l \in y.legacy : s.aliases[l] = k)
      /\ \A l \in DOMAIN r.aliases : l \notin y.legacy => s.aliases[l] = r.aliases[l]
  BY <1>2 DEF Leading, Over
<1>7. Single(r.devices, r.aliases, d, G) /\ Is(k, x, d, G)
  BY DEF Tidy, Single, x
<1>8. y.legacy \subseteq NamesOf(d, G) /\ (y.legacy # {} => k = Stable(d))
  BY <1>3, <1>7 DEF Is
<1>9. Is(k, y, d, G)
  BY <1>3, <1>7 DEF Is
<1>10. Single(s.devices, s.aliases, d, G)
  <2>1. \A l \in DOMAIN s.devices \cap KeysOf(d, G) : l = k /\ Is(l, s.devices[l], d, G)
    BY <1>5, <1>7, <1>9 DEF Single
  <2>2. \A n \in DOMAIN s.aliases \cap KeysOf(d, G) : n # Stable(d) /\ s.aliases[n] = Stable(d) /\ Stable(d) \in DOMAIN s.devices
    BY <1>5, <1>6, <1>7, <1>8, NamesAre DEF Single
  <2>3. Stable(d) \in DOMAIN s.devices => s.devices[Stable(d)].legacy \subseteq DOMAIN s.aliases \cup {s.devices[Stable(d)].friendly}
    BY <1>5, <1>6, <2>1, StableKey
  <2>. QED  BY <2>1, <2>2, <2>3 DEF Single
<1>11. Tidy(s.devices, s.aliases, G)
  <2>1. y.legacy \subseteq KeysOf(d, G)
    BY <1>8, StableKey
  <2>2. \A l \in Keys \ KeysOf(d, G) : (l \in DOMAIN s.devices <=> l \in DOMAIN r.devices) /\ (l \in DOMAIN r.devices => s.devices[l] = r.devices[l])
    BY <1>5
  <2>3. \A l \in Keys \ KeysOf(d, G) : (l \in DOMAIN s.aliases <=> l \in DOMAIN r.aliases) /\ (l \in DOMAIN r.aliases => s.aliases[l] = r.aliases[l])
    BY <1>6, <2>1
  <2>. QED  BY <1>1, <1>4, <1>10, <2>2, <2>3, OneDevice
<1>12. Keeps(r.devices, s.devices)
  BY <1>3, <1>5 DEF Keeps, x
<1>13. Steady(r.devices, s.devices, Phys)
  BY <1>3, <1>5 DEF Steady, x
<1>. QED  BY <1>11, <1>12, <1>13 DEF s

\* A report of a device that has no record makes one under the name it came with.
LEMMA NewReport ==
  ASSUME NEW G \in Givings, Distinct(G), NEW r \in Registry, Tidy(r.devices, r.aliases, G), NEW d \in Phys,
         DOMAIN r.devices \cap KeysOf(d, G) = {}, NEW n \in NamesOf(d, G),
         NEW p \in Patches, p = [Nothing EXCEPT !.from = {d}]
  PROVE  /\ Tidy(Upsert(r, n, p).devices, Upsert(r, n, p).aliases, G)
         /\ Keeps(r.devices, Upsert(r, n, p).devices) /\ Steady(r.devices, Upsert(r, n, p).devices, Phys)
<1>. DEFINE y == Patched(Blank(n), p)
            s == Upsert(r, n, p)
<1>1. n \in KeysOf(d, G) /\ n \in Keys /\ Existing(r, n) = Blank(n) /\ Blank(n) \in Record /\ r.devices \in Maps(Record) /\ r.aliases \in Maps(Keys)
  BY RegistryIs, NamesAre, StableKey, BlankIs DEF Existing
<1>2. /\ s \in Registry /\ s.devices = Put(r.devices, n, y) /\ s.aliases = Leading(y.legacy, n, r.aliases) /\ y \in Record
  BY <1>1, UpsertIs
<1>. DEFINE x == Blank(n)
<1>b. x \in Record /\ x.legacy = {} /\ x.friendly = None /\ x.ieee = n /\ x.from = {}
  BY <1>1 DEF Blank
<1>. HIDE DEF x
<1>a. /\ Patched(x, p).legacy = x.legacy \cup p.legacy /\ Patched(x, p).friendly = Or(p.friendly, x.friendly)
      /\ Patched(x, p).ieee = Or(p.ieee, x.ieee) /\ Patched(x, p).from = x.from \cup p.from
  BY <1>b, PatchedIs
<1>c. p.legacy = {} /\ p.friendly = None /\ p.ieee = None /\ p.from = {d}
  BY DEF Nothing
<1>3. y.legacy = {} /\ y.friendly = None /\ y.ieee = n /\ y.from = {d}
  BY <1>a, <1>b, <1>c DEF Or, x
<1>. HIDE DEF y, s
<1>4. s.devices \in Maps(Record) /\ s.aliases \in Maps(Keys)
  BY <1>2, RegistryIs
<1>5. /\ DOMAIN s.devices = DOMAIN r.devices \cup {n} /\ s.devices[n] = y
      /\ \A l \in DOMAIN r.devices : l # n => s.devices[l] = r.devices[l]
  BY <1>2 DEF Put, Over
<1>6. DOMAIN s.aliases = DOMAIN r.aliases /\ \A l \in DOMAIN r.aliases : s.aliases[l] = r.aliases[l]
  BY <1>2, <1>3 DEF Leading, Over
<1>7. Single(r.devices, r.aliases, d, G) /\ n # Stable(d) /\ Is(n, y, d, G)
  BY <1>3, NamesAre DEF Tidy, Is
<1>8. Stable(d) \notin DOMAIN r.devices /\ Stable(d) \notin DOMAIN s.devices
  BY <1>5, <1>7, StableKey
<1>9. Single(s.devices, s.aliases, d, G)
  <2>1. \A l \in DOMAIN s.devices \cap KeysOf(d, G) : l = n /\ Is(l, s.devices[l], d, G)
    BY <1>5, <1>7
  <2>2. DOMAIN s.aliases \cap KeysOf(d, G) = {}
    BY <1>6, <1>7, <1>8 DEF Single
  <2>. QED  BY <1>8, <2>1, <2>2 DEF Single
<1>10. Tidy(s.devices, s.aliases, G)
  <2>1. \A l \in Keys \ KeysOf(d, G) : (l \in DOMAIN s.devices <=> l \in DOMAIN r.devices) /\ (l \in DOMAIN r.devices => s.devices[l] = r.devices[l])
    BY <1>1, <1>5
  <2>. QED  BY <1>1, <1>4, <1>6, <1>9, <2>1, OneDevice
<1>11. n \notin DOMAIN r.devices
  BY <1>1
<1>12. Keeps(r.devices, s.devices)
  BY <1>5, <1>11 DEF Keeps
<1>13. Steady(r.devices, s.devices, Phys)
  <2>1. ASSUME NEW e \in Phys, Stable(e) \in DOMAIN s.devices  PROVE Stable(e) \in DOMAIN r.devices /\ Stable(e) # n
    BY <1>5, <2>1, NamesAre
  <2>. QED  BY <1>5, <2>1 DEF Steady
<1>. QED  BY <1>10, <1>12, <1>13 DEF s

\* The registry with every record as it was but for its area and setup.
LEMMA SameIdentity ==
  ASSUME NEW G \in Givings, NEW f \in Maps(Record), NEW g \in Maps(Record), NEW a \in Maps(Keys), Tidy(f, a, G),
         DOMAIN g = DOMAIN f,
         \A k \in DOMAIN f : /\ g[k].legacy = f[k].legacy /\ g[k].ieee = f[k].ieee
                             /\ g[k].friendly = f[k].friendly /\ g[k].from = f[k].from
  PROVE  Tidy(g, a, G) /\ Steady(f, g, Phys)
<1>1. ASSUME NEW d \in Phys  PROVE Single(g, a, d, G)
  <2>1. Single(f, a, d, G)
    BY DEF Tidy
  <2>2. \A k \in DOMAIN f : Is(k, f[k], d, G) => Is(k, g[k], d, G)
    BY DEF Is
  <2>. QED  BY <2>1, <2>2 DEF Single
<1>. QED  BY <1>1 DEF Tidy, Steady

LEMMA Unnamed == Nothing.legacy = {} /\ Nothing.friendly = None /\ Nothing.ieee = None /\ Nothing.from = {}
BY DEF Nothing

LEMMA SetUpTidy ==
  ASSUME NEW G \in Givings, Distinct(G), NEW r \in Registry, Tidy(r.devices, r.aliases, G),
         NEW key \in Keys, Resolve(r, key) \in DOMAIN r.devices, NEW area \in Area \cup {None}, NEW s,
         s \in {SetUp(r, key, area), Moved(r, key, area)}, area \in Area \/ s = Moved(r, key, area)
  PROVE  s \in Registry /\ Tidy(s.devices, s.aliases, G) /\ Steady(r.devices, s.devices, Phys)
<1>. DEFINE k == Resolve(r, key)
            x == r.devices[k]
<1>1. k \in DOMAIN r.devices /\ x \in Record /\ r.devices \in Maps(Record) /\ r.aliases \in Maps(Keys)
  BY RegistryIs
<1>2. PICK y \in Record : /\ y.legacy = x.legacy /\ y.ieee = x.ieee /\ y.friendly = x.friendly /\ y.from = x.from
                          /\ s = Upsert([r EXCEPT !.devices = [r.devices EXCEPT ![k] = y]], k, Nothing)
  <2>1. CASE s = SetUp(r, key, area) /\ area \in Area
    <3>. DEFINE y == [x EXCEPT !.area = area, !.ready = TRUE]
    <3>1. /\ y \in Record /\ y.legacy = x.legacy /\ y.ieee = x.ieee /\ y.friendly = x.friendly /\ y.from = x.from
      BY <1>1, <2>1 DEF Record
    <3>2. s = Upsert([r EXCEPT !.devices[k].area = area, !.devices[k].ready = TRUE], k, Nothing)
      BY <2>1 DEF SetUp
    <3>3. [r EXCEPT !.devices[k].area = area, !.devices[k].ready = TRUE] = [r EXCEPT !.devices = [r.devices EXCEPT ![k] = y]]
      BY <1>1 DEF Registry
    <3>. QED  BY <3>1, <3>2, <3>3
  <2>2. CASE s = Moved(r, key, area)
    <3>. DEFINE y == [x EXCEPT !.area = area]
    <3>1. /\ y \in Record /\ y.legacy = x.legacy /\ y.ieee = x.ieee /\ y.friendly = x.friendly /\ y.from = x.from
      BY <1>1, <2>2 DEF Record
    <3>2. s = Upsert([r EXCEPT !.devices[k].area = area], k, Nothing)
      BY <2>2 DEF Moved
    <3>3. [r EXCEPT !.devices[k].area = area] = [r EXCEPT !.devices = [r.devices EXCEPT ![k] = y]]
      BY <1>1 DEF Registry
    <3>. QED  BY <3>1, <3>2, <3>3
  <2>. QED  BY <2>1, <2>2
<1>. DEFINE g == [r.devices EXCEPT ![k] = y]
            t == [r EXCEPT !.devices = g]
<1>. HIDE DEF k, x
<1>3. g \in Maps(Record) /\ DOMAIN g = DOMAIN r.devices /\ g[k] = y /\ \A l \in DOMAIN r.devices : l # k => g[l] = r.devices[l]
  <2>1. DOMAIN r.devices \in SUBSET Keys /\ r.devices \in [DOMAIN r.devices -> Record]
    BY <1>1, MapsAre
  <2>2. g \in [DOMAIN r.devices -> Record]
    BY <1>1, <2>1
  <2>. QED  BY <1>1, <2>1, <2>2 DEF Maps
<1>4. \A l \in DOMAIN r.devices : /\ g[l].legacy = r.devices[l].legacy /\ g[l].ieee = r.devices[l].ieee
                                  /\ g[l].friendly = r.devices[l].friendly /\ g[l].from = r.devices[l].from
  BY <1>2, <1>3 DEF x
<1>. HIDE DEF g
<1>5. Tidy(g, r.aliases, G) /\ Steady(r.devices, g, Phys)
  BY <1>1, <1>3, <1>4, SameIdentity
<1>6. t \in Registry /\ t.devices = g /\ t.aliases = r.aliases
  BY <1>3 DEF Registry
<1>10. s = Upsert(t, k, Nothing)
  BY <1>2 DEF g
<1>. HIDE DEF t
<1>7. PICK d \in Phys : k \in KeysOf(d, G)
  BY <1>1 DEF Tidy
<1>8. /\ Tidy(s.devices, s.aliases, G) /\ Steady(t.devices, s.devices, Phys)
  BY <1>1, <1>3, <1>5, <1>6, <1>7, <1>10, PatchesAre, Unnamed, LightUpsert
<1>9. s \in Registry
  <2>1. k \in Keys
    BY <1>1, RegistryIs
  <2>. QED  BY <1>6, <1>10, <2>1, PatchesAre, UpsertIs
<1>. QED  BY <1>5, <1>6, <1>8, <1>9 DEF Steady

(***************************************************************************)
(* An item of an inventory.                                                *)
(***************************************************************************)
Items == [dev : Phys, name : Names, done : BOOLEAN]

LEMMA OwnersAre ==
  ASSUME NEW G \in Givings, Distinct(G), NEW r \in Registry, Tidy(r.devices, r.aliases, G),
         NEW item \in Items, item.name \in NamesOf(item.dev, G)
  PROVE  /\ Stable(item.dev) \in DOMAIN r.devices => Owners(r, item) = {Stable(item.dev)}
         /\ Stable(item.dev) \notin DOMAIN r.devices =>
              Owners(r, item) \subseteq (DOMAIN r.devices \cap NamesOf(item.dev, G)) \ {Stable(item.dev)}
<1>. DEFINE d == item.dev
<1>1. d \in Phys /\ Stable(d) \in KeysOf(d, G) /\ Address(d) \in KeysOf(d, G) /\ item.name \in KeysOf(d, G)
  BY StableKey DEF Items
<1>2. CASE Stable(d) \in DOMAIN r.devices
  <2>1. Lookup(r, Stable(d)) = {Stable(d)}
    BY <1>1, <1>2, Found
  <2>. QED  BY <1>2, <2>1 DEF Owners
<1>3. CASE Stable(d) \notin DOMAIN r.devices
  <2>1. Lookup(r, Stable(d)) = {}
    BY <1>1, <1>3, Found
  <2>2. ASSUME NEW k \in DOMAIN r.devices, r.devices[k].ieee = Address(d) \/ Or(r.devices[k].friendly, k) = item.name
        PROVE  k \in KeysOf(d, G) /\ k # Stable(d)
    <3>1. r.devices[k].ieee = Address(d) \/ r.devices[k].friendly = item.name \/ k = item.name
      BY <2>2 DEF Or
    <3>2. r.devices \in Maps(Record) /\ r.aliases \in Maps(Keys)
      BY RegistryIs
    <3>3. CASE r.devices[k].ieee = Address(d)
      <4>1. Address(d) \in {r.devices[k].friendly, r.devices[k].ieee} \cup r.devices[k].legacy
        BY <3>3
      <4>. QED  BY <1>1, <1>3, <3>2, <4>1, NamedAfter
    <3>4. CASE r.devices[k].friendly = item.name
      <4>1. item.name \in {r.devices[k].friendly, r.devices[k].ieee} \cup r.devices[k].legacy
        BY <3>4
      <4>. QED  BY <1>1, <1>3, <3>2, <4>1, NamedAfter
    <3>5. CASE k = item.name
      BY <1>1, <1>3, <3>5
    <3>. QED  BY <3>1, <3>3, <3>4, <3>5
  <2>. HIDE DEF d
  <2>3. ASSUME NEW k \in Owners(r, item)  PROVE k \in DOMAIN r.devices /\ (r.devices[k].ieee = Address(d) \/ Or(r.devices[k].friendly, k) = item.name)
    BY <2>1, <2>3 DEF Owners, d
  <2>. QED  BY <1>3, <2>2, <2>3 DEF KeysOf, d
<1>. QED  BY <1>2, <1>3

\* The record of a device as an item leaves it.
LEMMA ProperRecord ==
  ASSUME NEW G \in Givings, NEW d \in Phys, NEW x \in Record, x.legacy \subseteq NamesOf(d, G), x.from \subseteq {d},
         NEW p \in Patches, p.legacy \subseteq NamesOf(d, G), p.friendly \in p.legacy, p.ieee = Address(d), p.from = {}
  PROVE  /\ Is(Stable(d), Patched(x, p), d, G)
         /\ Patched(x, p).legacy = x.legacy \cup p.legacy /\ Patched(x, p).friendly = p.friendly
         /\ Patched(x, p).from = x.from /\ Patched(x, p).area = x.area /\ Patched(x, p).ready = x.ready
<1>. DEFINE y == Patched(x, p)
<1>1. p.friendly # None /\ Address(d) # None
  BY NamesAre
<1>2. /\ y.legacy = x.legacy \cup p.legacy /\ y.from = x.from \cup p.from
      /\ y.friendly = Or(p.friendly, x.friendly) /\ y.ieee = Or(p.ieee, x.ieee)
      /\ y.area = x.area /\ y.ready = x.ready
  BY PatchedIs
<1>. HIDE DEF y
<1>3. /\ y.legacy = x.legacy \cup p.legacy /\ y.friendly = p.friendly /\ y.from = x.from /\ y.ieee = Address(d)
  BY <1>1, <1>2 DEF Or
<1>4. Is(Stable(d), y, d, G)
  BY <1>3 DEF Is
<1>. QED  BY <1>2, <1>3, <1>4 DEF y

\* What an item leaves: the record under its proper key, with the name it told.
ItemDone(r, s, item, G) ==
  LET d == item.dev
  IN /\ s \in Registry /\ Tidy(s.devices, s.aliases, G)
     /\ Keeps(r.devices, s.devices) /\ Steady(r.devices, s.devices, Phys \ {d})
     /\ Stable(d) \in DOMAIN s.devices /\ item.name \in s.devices[Stable(d)].legacy
     /\ Stable(d) \in DOMAIN r.devices => r.devices[Stable(d)].legacy \subseteq s.devices[Stable(d)].legacy

LEMMA ItemUpsert ==
  ASSUME NEW G \in Givings, Distinct(G), NEW r \in Registry, Tidy(r.devices, r.aliases, G),
         NEW item \in Items, item.name \in NamesOf(item.dev, G),
         DOMAIN r.devices \cap KeysOf(item.dev, G) \subseteq {Stable(item.dev)}
  PROVE  ItemDone(r, Upsert(r, Stable(item.dev), ItemPatch(item)), item, G)
<1>. DEFINE d == item.dev
            key == Stable(d)
            p == ItemPatch(item)
            x == Existing(r, key)
            y == Patched(x, p)
            s == Upsert(r, key, p)
<1>1. d \in Phys /\ key \in Keys /\ key \in KeysOf(d, G) /\ p \in Patches /\ x \in Record
  <2>1. d \in Phys
    BY DEF Items
  <2>2. key \in Keys /\ key \in KeysOf(d, G)
    BY <2>1, NamesAre, StableKey
  <2>. HIDE DEF key, d
  <2>. QED  BY <2>1, <2>2, PatchesAre, RegistryIs DEF Items
<1>2. Single(r.devices, r.aliases, d, G) /\ r.devices \in Maps(Record) /\ r.aliases \in Maps(Keys)
  BY <1>1, RegistryIs DEF Tidy
<1>3. x.legacy \subseteq NamesOf(d, G) /\ x.from \subseteq {d} /\ (key \in DOMAIN r.devices => x = r.devices[key])
  <2>1. CASE key \in DOMAIN r.devices
    <3>1. Is(key, r.devices[key], d, G) /\ x = r.devices[key]
      BY <1>1, <1>2, <2>1 DEF Single, Existing
    <3>. QED  BY <3>1, <1>1, NamesAre DEF Is
  <2>2. CASE key \notin DOMAIN r.devices
    BY <2>2 DEF Existing, Blank
  <2>. QED  BY <2>1, <2>2
<1>4. /\ s \in Registry /\ s.devices = Put(r.devices, key, y) /\ s.aliases = Leading(y.legacy, key, r.aliases)
  BY <1>1, UpsertIs
<1>5. /\ Is(key, y, d, G) /\ y.legacy = x.legacy \cup {item.name} /\ y.friendly = item.name
      /\ y.from = x.from /\ y.area = x.area /\ y.ready = x.ready
  <2>1. p.legacy = {item.name} /\ p.friendly = item.name /\ p.ieee = Address(d) /\ p.from = {}
    BY DEF ItemPatch
  <2>. HIDE DEF x, p, d
  <2>2. p.legacy \subseteq NamesOf(d, G)
    BY <2>1 DEF d
  <2>. QED  BY <1>1, <1>3, <2>1, <2>2, ProperRecord DEF key
<1>. HIDE DEF s, y, x, p
<1>6. s.devices \in Maps(Record) /\ s.aliases \in Maps(Keys)
  BY <1>4, RegistryIs
<1>. HIDE DEF key
<1>7. /\ DOMAIN s.devices = DOMAIN r.devices \cup {key} /\ s.devices[key] = y
      /\ \A l \in DOMAIN r.devices : l # key => s.devices[l] = r.devices[l]
  BY <1>4 DEF Put, Over
<1>8. /\ DOMAIN s.aliases = y.legacy \cup DOMAIN r.aliases /\ (\A l \in y.legacy : s.aliases[l] = key)
      /\ \A l \in DOMAIN r.aliases : l \notin y.legacy => s.aliases[l] = r.aliases[l]
  BY <1>4 DEF Leading, Over
<1>9. y.legacy \subseteq NamesOf(d, G) /\ y.legacy \subseteq KeysOf(d, G) /\ key \notin NamesOf(d, G)
  BY <1>1, <1>3, <1>5, StableKey, NamesAre DEF key
<1>10. Single(s.devices, s.aliases, d, G)
  <2>1. \A l \in DOMAIN s.devices \cap KeysOf(d, G) : l = key /\ Is(l, s.devices[l], d, G)
    BY <1>5, <1>7 DEF key
  <2>2. \A n \in DOMAIN s.aliases \cap KeysOf(d, G) : n # key /\ s.aliases[n] = key /\ key \in DOMAIN s.devices
    BY <1>2, <1>7, <1>8, <1>9 DEF Single, key
  <2>3. s.devices[key].legacy \subseteq DOMAIN s.aliases
    BY <1>7, <1>8
  <2>. QED  BY <2>1, <2>2, <2>3 DEF Single, key
<1>11. Tidy(s.devices, s.aliases, G)
  <2>1. \A l \in Keys \ KeysOf(d, G) : (l \in DOMAIN s.devices <=> l \in DOMAIN r.devices) /\ (l \in DOMAIN r.devices => s.devices[l] = r.devices[l])
    BY <1>1, <1>7
  <2>2. \A l \in Keys \ KeysOf(d, G) : (l \in DOMAIN s.aliases <=> l \in DOMAIN r.aliases) /\ (l \in DOMAIN r.aliases => s.aliases[l] = r.aliases[l])
    BY <1>8, <1>9
  <2>. QED  BY <1>1, <1>2, <1>6, <1>10, <2>1, <2>2, OneDevice
<1>12. Keeps(r.devices, s.devices)
  BY <1>3, <1>5, <1>7 DEF Keeps
<1>13. Steady(r.devices, s.devices, Phys \ {d})
  <2>1. ASSUME NEW e \in Phys \ {d}, Stable(e) \in DOMAIN s.devices  PROVE Stable(e) \in DOMAIN r.devices /\ Stable(e) # key
    BY <1>7, <2>1, Tags DEF key
  <2>. QED  BY <1>7, <2>1 DEF Steady
<1>14. key \in DOMAIN s.devices /\ item.name \in s.devices[key].legacy /\ (key \in DOMAIN r.devices => r.devices[key].legacy \subseteq s.devices[key].legacy)
  BY <1>3, <1>5, <1>7
<1>. QED  BY <1>4, <1>11, <1>12, <1>13, <1>14 DEF ItemDone, s, key, p

LEMMA ItemMigrate ==
  ASSUME NEW G \in Givings, Distinct(G), NEW r \in Registry, Tidy(r.devices, r.aliases, G),
         NEW item \in Items, item.name \in NamesOf(item.dev, G),
         Stable(item.dev) \notin DOMAIN r.devices, NEW k \in DOMAIN r.devices \cap NamesOf(item.dev, G)
  PROVE  ItemDone(r, Migrate(r, k, Stable(item.dev), ItemPatch(item)), item, G)
<1>. DEFINE d == item.dev
            key == Stable(d)
            q == ItemPatch(item)
            p == [q EXCEPT !.legacy = @ \cup {k}]
            x == r.devices[k]
            y == Patched(x, p)
            s == Migrate(r, k, key, q)
            rest == Restrict(r.devices, DOMAIN r.devices \ {k})
<1>1. d \in Phys /\ key \in Keys /\ key \in KeysOf(d, G) /\ q \in Patches /\ x \in Record /\ k \in Keys /\ k \in KeysOf(d, G) /\ k # key
  <2>1. d \in Phys
    BY DEF Items
  <2>2. key \in Keys /\ key \in KeysOf(d, G) /\ k # key /\ k \in Keys /\ k \in KeysOf(d, G)
    BY <2>1, NamesAre, StableKey
  <2>. HIDE DEF key, d
  <2>. QED  BY <2>1, <2>2, PatchesAre, RegistryIs DEF Items
<1>2. Single(r.devices, r.aliases, d, G) /\ r.devices \in Maps(Record) /\ r.aliases \in Maps(Keys)
  BY <1>1, RegistryIs DEF Tidy
<1>3. Is(k, x, d, G) /\ x.legacy = {} /\ x.from = {d} /\ Resolve(r, k) = k
  <2>1. Is(k, x, d, G) /\ Resolve(r, k) = k
    BY <1>1, <1>2, Found DEF Single
  <2>. QED  BY <1>1, <2>1 DEF Is
<1>4. p \in Patches
  <2>1. {k} \in SUBSET Keys
    BY <1>1
  <2>. HIDE DEF q
  <2>. QED  BY <1>1, <2>1 DEF Patches
<1>5. /\ s \in Registry /\ s.devices = Put(rest, key, y) /\ s.aliases = Put(r.aliases, k, key)
  BY <1>1, <1>3, MigrateIs
<1>6. /\ Is(key, y, d, G) /\ y.legacy = {item.name, k} /\ y.friendly = item.name
      /\ y.from = x.from /\ y.area = x.area /\ y.ready = x.ready
  <2>1. p.legacy = {item.name, k} /\ p.friendly = item.name /\ p.ieee = Address(d) /\ p.from = {}
    BY DEF ItemPatch
  <2>2. x.legacy \subseteq NamesOf(d, G) /\ x.from \subseteq {d} /\ k \in NamesOf(d, G)
    BY <1>3
  <2>. HIDE DEF x, p, d
  <2>3. p.legacy \subseteq NamesOf(d, G)
    BY <2>1, <2>2 DEF d
  <2>4. /\ Is(Stable(d), y, d, G) /\ y.legacy = x.legacy \cup p.legacy /\ y.friendly = p.friendly
        /\ y.from = x.from /\ y.area = x.area /\ y.ready = x.ready
    BY <1>1, <1>4, <2>1, <2>2, <2>3, ProperRecord
  <2>. QED  BY <1>3, <2>1, <2>4 DEF key
<1>. HIDE DEF s, y, p, q
<1>7. s.devices \in Maps(Record) /\ s.aliases \in Maps(Keys)
  BY <1>5, RegistryIs
<1>. HIDE DEF key
<1>8. /\ DOMAIN s.devices = (DOMAIN r.devices \ {k}) \cup {key} /\ s.devices[key] = y
      /\ \A l \in DOMAIN r.devices : l # k /\ l # key => s.devices[l] = r.devices[l]
  BY <1>1, <1>5 DEF Put, Over, Restrict
<1>9. /\ DOMAIN s.aliases = {k} \cup DOMAIN r.aliases /\ s.aliases[k] = key
      /\ \A l \in DOMAIN r.aliases : l # k => s.aliases[l] = r.aliases[l]
  BY <1>5 DEF Put, Over
<1>10. DOMAIN r.devices \cap KeysOf(d, G) = {k} /\ DOMAIN r.aliases \cap KeysOf(d, G) = {}
  BY <1>1, <1>2 DEF Single
<1>11. Single(s.devices, s.aliases, d, G)
  <2>1. \A l \in DOMAIN s.devices \cap KeysOf(d, G) : l = key /\ Is(l, s.devices[l], d, G)
    BY <1>6, <1>8, <1>10
  <2>2. \A n \in DOMAIN s.aliases \cap KeysOf(d, G) : n # key /\ s.aliases[n] = key /\ key \in DOMAIN s.devices
    BY <1>1, <1>8, <1>9, <1>10
  <2>3. s.devices[key].legacy \subseteq DOMAIN s.aliases \cup {s.devices[key].friendly}
    BY <1>6, <1>8, <1>9
  <2>. QED  BY <2>1, <2>2, <2>3 DEF Single, key
<1>12. Tidy(s.devices, s.aliases, G)
  <2>1. \A l \in Keys \ KeysOf(d, G) : (l \in DOMAIN s.devices <=> l \in DOMAIN r.devices) /\ (l \in DOMAIN r.devices => s.devices[l] = r.devices[l])
    BY <1>1, <1>8
  <2>2. \A l \in Keys \ KeysOf(d, G) : (l \in DOMAIN s.aliases <=> l \in DOMAIN r.aliases) /\ (l \in DOMAIN r.aliases => s.aliases[l] = r.aliases[l])
    BY <1>1, <1>9
  <2>. QED  BY <1>1, <1>2, <1>7, <1>11, <2>1, <2>2, OneDevice
<1>13. Keeps(r.devices, s.devices)
  <2>1. key \notin DOMAIN r.devices
    BY DEF key
  <2>. QED  BY <1>6, <1>8, <2>1 DEF Keeps
<1>14. Steady(r.devices, s.devices, Phys \ {d})
  <2>1. ASSUME NEW e \in Phys \ {d}, Stable(e) \in DOMAIN s.devices  PROVE Stable(e) \in DOMAIN r.devices /\ Stable(e) # key /\ Stable(e) # k
    BY <1>1, <1>8, <2>1, Tags, NamesAre DEF key
  <2>. QED  BY <1>8, <2>1 DEF Steady
<1>15. key \in DOMAIN s.devices /\ item.name \in s.devices[key].legacy /\ key \notin DOMAIN r.devices
  BY <1>6, <1>8 DEF key
<1>. QED  BY <1>5, <1>12, <1>13, <1>14, <1>15 DEF ItemDone, s, key, q

LEMMA MoreGiven ==
  ASSUME NEW G \in Givings, NEW H \in Givings, G \subseteq H, Distinct(H), NEW f, NEW a, Tidy(f, a, G)
  PROVE  Tidy(f, a, H)
<1>1. \A k \in DOMAIN f \cup DOMAIN a : \E d \in Phys : k \in KeysOf(d, G) /\ k \in KeysOf(d, H)
  BY MoreNames DEF Tidy
<1>2. ASSUME NEW d \in Phys  PROVE Single(f, a, d, H)
  <2>1. Single(f, a, d, G)
    BY DEF Tidy
  <2>2. \A k \in DOMAIN f \cup DOMAIN a : k \in KeysOf(d, H) => k \in KeysOf(d, G)
    BY <1>1, OneOwner
  <2>3. NamesOf(d, G) \subseteq NamesOf(d, H)
    BY MoreNames
  <2>4. \A k, x : Is(k, x, d, G) => Is(k, x, d, H)
    BY <2>3 DEF Is
  <2>. QED  BY <2>1, <2>2, <2>4 DEF Single
<1>. QED  BY <1>1, <1>2 DEF Tidy

(***************************************************************************)
(* Lookups and items, whatever the registry.                               *)
(***************************************************************************)
LEMMA LookupIs ==
  ASSUME NEW r \in Registry, NEW key \in Keys
  PROVE  Lookup(r, key) \subseteq DOMAIN r.devices /\ DOMAIN r.devices \subseteq Keys
BY RegistryIs DEF Lookup

LEMMA OwnersIn ==
  ASSUME NEW r \in Registry, NEW item \in Items
  PROVE  Owners(r, item) \subseteq DOMAIN r.devices
<1>1. Stable(item.dev) \in Keys
  BY NamesAre DEF Items, Keys
<1>. QED  BY <1>1, LookupIs DEF Owners

LEMMA SyncedIn ==
  ASSUME NEW r \in Registry, NEW item \in Items
  PROVE  Synced(r, item) \subseteq Registry
<1>1. Stable(item.dev) \in Keys /\ ItemPatch(item) \in Patches
  BY PatchesAre DEF Items, Keys
<1>2. Owners(r, item) \subseteq Keys
  BY OwnersIn, RegistryIs
<1>3. Upsert(r, Stable(item.dev), ItemPatch(item)) \in Registry
  BY <1>1, UpsertIs
<1>4. \A k \in Owners(r, item) : Migrate(r, k, Stable(item.dev), ItemPatch(item)) \in Registry
  BY <1>1, <1>2, MigrateIs
<1>. QED  BY <1>3, <1>4 DEF Synced

\* An item of a device that has a record under its proper key is not skipped.
LEMMA NotSkipped ==
  ASSUME NEW G \in Givings, Distinct(G), NEW r \in Registry, Tidy(r.devices, r.aliases, G),
         NEW item \in Items, item.name \in NamesOf(item.dev, G), Stable(item.dev) \in DOMAIN r.devices
  PROVE  Synced(r, item) # {}
<1>1. Owners(r, item) = {Stable(item.dev)}
  BY OwnersAre
<1>2. Upsert(r, Stable(item.dev), ItemPatch(item)) \in Synced(r, item)
  BY <1>1 DEF Synced
<1>. QED  BY <1>2

LEMMA SyncedTidy ==
  ASSUME NEW G \in Givings, Distinct(G), NEW r \in Registry, Tidy(r.devices, r.aliases, G),
         NEW item \in Items, item.name \in NamesOf(item.dev, G),
         Owners(r, item) = {} => DOMAIN r.devices \cap KeysOf(item.dev, G) = {},
         NEW s \in Synced(r, item)
  PROVE  ItemDone(r, s, item, G)
<1>. DEFINE key == Stable(item.dev)
<1>1. Single(r.devices, r.aliases, item.dev, G) /\ key \in KeysOf(item.dev, G)
  BY StableKey DEF Tidy, Items
<1>2. CASE key \in DOMAIN r.devices
  <2>1. Owners(r, item) = {key}
    BY <1>2, OwnersAre
  <2>2. s = Upsert(r, key, ItemPatch(item))
    BY <2>1 DEF Synced
  <2>3. DOMAIN r.devices \cap KeysOf(item.dev, G) \subseteq {key}
    BY <1>1, <1>2 DEF Single
  <2>. QED  BY <2>2, <2>3, ItemUpsert
<1>3. CASE key \notin DOMAIN r.devices /\ Owners(r, item) # {}
  <2>1. Owners(r, item) \subseteq (DOMAIN r.devices \cap NamesOf(item.dev, G)) \ {key}
    BY <1>3, OwnersAre
  <2>2. PICK k \in Owners(r, item) : s = Migrate(r, k, key, ItemPatch(item))
    BY <1>3, <2>1 DEF Synced
  <2>. QED  BY <1>3, <2>1, <2>2, ItemMigrate
<1>4. CASE Owners(r, item) = {}
  <2>1. s = Upsert(r, key, ItemPatch(item))
    BY <1>4 DEF Synced
  <2>. QED  BY <1>4, <2>1, ItemUpsert
<1>. QED  BY <1>2, <1>3, <1>4

(***************************************************************************)
(* A removal, a start and an area that goes.                               *)
(***************************************************************************)
LEMMA RemovedTidy ==
  ASSUME NEW G \in Givings, Distinct(G), NEW r \in Registry, Tidy(r.devices, r.aliases, G),
         NEW d \in Phys, NEW key \in KeysOf(d, G)
  PROVE  /\ Tidy(Removed(r, key).devices, Removed(r, key).aliases, G)
         /\ Steady(r.devices, Removed(r, key).devices, Phys)
         /\ \A k \in DOMAIN r.devices : \/ k \in KeysOf(d, G)
                                        \/ k \in DOMAIN Removed(r, key).devices /\ Removed(r, key).devices[k] = r.devices[k]
<1>. DEFINE gone == Resolve(r, key)
            x == r.devices[gone]
            names == {key, gone, x.friendly, x.ieee} \cup x.legacy
            kept == {a \in DOMAIN r.aliases : a \notin names /\ r.aliases[a] \notin names}
            s == Removed(r, key)
<1>1. CASE gone \notin DOMAIN r.devices
  <2>1. s = r
    BY <1>1 DEF Removed
  <2>. QED  BY <2>1 DEF Steady
<1>2. CASE gone \in DOMAIN r.devices
  <2>1. gone \in KeysOf(d, G) /\ key \in Keys /\ KeysOf(d, G) \subseteq Keys /\ None \notin Keys
    BY Found, NamesAre, Tags
  <2>2. Single(r.devices, r.aliases, d, G) /\ r.devices \in Maps(Record) /\ r.aliases \in Maps(Keys)
    BY RegistryIs DEF Tidy
  <2>3. s \in Registry /\ s.devices = Restrict(r.devices, DOMAIN r.devices \ {gone}) /\ s.aliases = Restrict(r.aliases, kept)
    BY <1>2, <2>1, RemovedIs
  <2>4. Is(gone, x, d, G)
    BY <1>2, <2>1, <2>2 DEF Single
  <2>. HIDE DEF gone, x
  <2>5. names \subseteq KeysOf(d, G) \cup {None} /\ gone \in names
    BY <2>1, <2>4, StableKey DEF Is
  <2>. HIDE DEF names, s
  <2>6. /\ s.devices \in Maps(Record) /\ s.aliases \in Maps(Keys)
        /\ DOMAIN s.devices = DOMAIN r.devices \ {gone} /\ \A k \in DOMAIN s.devices : s.devices[k] = r.devices[k]
        /\ DOMAIN s.aliases = kept /\ \A k \in DOMAIN s.aliases : s.aliases[k] = r.aliases[k]
    BY <2>2, <2>3, RegistryIs DEF Restrict
  <2>7. DOMAIN s.devices \cap KeysOf(d, G) = {}
    BY <1>2, <2>1, <2>2, <2>6 DEF Single
  <2>8. DOMAIN s.aliases \cap KeysOf(d, G) = {}
    <3>1. ASSUME NEW n \in DOMAIN r.aliases \cap KeysOf(d, G)  PROVE r.aliases[n] = gone
      BY <1>2, <2>1, <2>2, StableKey DEF Single
    <3>. QED  BY <2>5, <2>6, <3>1
  <2>9. Single(s.devices, s.aliases, d, G)
    BY <2>7, <2>8, StableKey DEF Single
  <2>10. ASSUME NEW n \in Keys \ KeysOf(d, G), n \in DOMAIN r.aliases  PROVE n \in DOMAIN s.aliases
    <3>1. PICK e \in Phys : n \in KeysOf(e, G)
      BY <2>10 DEF Tidy
    <3>2. r.aliases[n] = Stable(e) /\ e # d
      BY <2>10, <3>1 DEF Tidy, Single
    <3>3. r.aliases[n] \notin KeysOf(d, G) /\ r.aliases[n] # None
      BY <3>1, <3>2, OneOwner, StableKey, NamesAre
    <3>4. n # None
      BY <2>1, <2>10
    <3>. QED  BY <2>5, <2>6, <2>10, <3>3, <3>4
  <2>11. \A n \in Keys \ KeysOf(d, G) : (n \in DOMAIN s.aliases <=> n \in DOMAIN r.aliases) /\ (n \in DOMAIN r.aliases => s.aliases[n] = r.aliases[n])
    BY <2>6, <2>10
  <2>12. \A k \in Keys \ KeysOf(d, G) : (k \in DOMAIN s.devices <=> k \in DOMAIN r.devices) /\ (k \in DOMAIN r.devices => s.devices[k] = r.devices[k])
    BY <2>1, <2>6
  <2>13. Tidy(s.devices, s.aliases, G)
    BY <2>2, <2>6, <2>9, <2>11, <2>12, OneDevice
  <2>14. Steady(r.devices, s.devices, Phys)
    BY <2>6 DEF Steady
  <2>15. \A k \in DOMAIN r.devices : k \in KeysOf(d, G) \/ (k \in DOMAIN s.devices /\ s.devices[k] = r.devices[k])
    <3>1. ASSUME NEW k \in DOMAIN r.devices, k \notin KeysOf(d, G)  PROVE k \in DOMAIN s.devices /\ s.devices[k] = r.devices[k]
      <4>1. k \in DOMAIN s.devices
        BY <2>1, <2>6, <3>1
      <4>. QED  BY <2>6, <4>1
    <3>. QED  BY <3>1
  <2>. QED  BY <2>13, <2>14, <2>15 DEF s
<1>. QED  BY <1>1, <1>2

LEMMA LoadedTidy ==
  ASSUME NEW r \in Registry, NEW s \in Loaded(r)
  PROVE  /\ s \in Registry /\ s.devices = r.devices
         /\ \A G \in Givings : Distinct(G) /\ Tidy(r.devices, r.aliases, G) => Tidy(s.devices, s.aliases, G)
<1>. DEFINE owners(a) == {k \in DOMAIN r.devices : a \in r.devices[k].legacy}
            known == {a \in Keys : owners(a) # {}}
<1>. DEFINE fs == {g \in [known -> DOMAIN r.devices] : \A a \in known : g[a] \in owners(a)}
<1>1. PICK f \in fs : s = [r EXCEPT !.aliases = Over(f, @)]
  <2>1. Loaded(r) = {[r EXCEPT !.aliases = Over(f, @)] : f \in fs}
    BY DEF Loaded
  <2>. HIDE DEF fs
  <2>. QED  BY <2>1
<1>2. f \in Maps(Keys) /\ DOMAIN f = known /\ DOMAIN r.devices \subseteq Keys /\ r.aliases \in Maps(Keys)
  <2>1. DOMAIN r.devices \subseteq Keys /\ r.aliases \in Maps(Keys)
    BY RegistryIs
  <2>2. known \in SUBSET Keys
    OBVIOUS
  <2>. HIDE DEF known
  <2>3. f \in [known -> Keys]
    BY <2>1
  <2>. QED  BY <2>1, <2>2, <2>3 DEF Maps
<1>3. \A a \in DOMAIN f : f[a] \in DOMAIN r.devices /\ a \in r.devices[f[a]].legacy
  BY <1>1, <1>2
<1>. HIDE DEF known
<1>4. Over(f, r.aliases) \in Maps(Keys)
  BY <1>2, OverMaps
<1>5. s \in Registry /\ s.devices = r.devices /\ s.aliases = Over(f, r.aliases)
  BY <1>1, <1>4 DEF Registry
<1>6. /\ DOMAIN s.aliases = DOMAIN f \cup DOMAIN r.aliases
      /\ \A a \in DOMAIN f : s.aliases[a] = f[a]
      /\ \A a \in DOMAIN r.aliases : a \notin DOMAIN f => s.aliases[a] = r.aliases[a]
  BY <1>5 DEF Over
<1>7. ASSUME NEW G \in Givings, Distinct(G), Tidy(r.devices, r.aliases, G)  PROVE Tidy(s.devices, s.aliases, G)
  <2>1. ASSUME NEW a \in DOMAIN f
        PROVE  \E d \in Phys : a \in NamesOf(d, G) /\ f[a] = Stable(d) /\ Stable(d) \in DOMAIN r.devices
    <3>1. r.devices \in Maps(Record) /\ r.aliases \in Maps(Keys)
      BY RegistryIs
    <3>2. PICK d \in Phys : Is(f[a], r.devices[f[a]], d, G)
      BY <1>3, <1>7, <3>1, Owned
    <3>. QED  BY <1>3, <3>2 DEF Is
  <2>2. ASSUME NEW d \in Phys  PROVE Single(s.devices, s.aliases, d, G)
    <3>1. Single(r.devices, r.aliases, d, G)
      BY <1>7 DEF Tidy
    <3>2. ASSUME NEW a \in DOMAIN f \cap KeysOf(d, G)
          PROVE  a # Stable(d) /\ f[a] = Stable(d) /\ Stable(d) \in DOMAIN r.devices
      <4>1. PICK e \in Phys : a \in NamesOf(e, G) /\ f[a] = Stable(e) /\ Stable(e) \in DOMAIN r.devices
        BY <2>1
      <4>2. e = d
        BY <1>7, <4>1, OneOwner, StableKey
      <4>. QED  BY <4>1, <4>2, NamesAre
    <3>. QED  BY <1>5, <1>6, <3>1, <3>2 DEF Single
  <2>. QED  BY <1>5, <1>6, <1>7, <2>1, <2>2, StableKey DEF Tidy
<1>. QED  BY <1>5, <1>7

LEMMA WithoutAreaTidy ==
  ASSUME NEW G \in Givings, NEW r \in Registry, Tidy(r.devices, r.aliases, G), NEW area \in Area
  PROVE  /\ Tidy(WithoutArea(r, area).devices, WithoutArea(r, area).aliases, G)
         /\ Steady(r.devices, WithoutArea(r, area).devices, Phys)
<1>. DEFINE s == WithoutArea(r, area)
<1>1. /\ s \in Registry /\ s.aliases = r.aliases /\ DOMAIN s.devices = DOMAIN r.devices
      /\ \A k \in DOMAIN r.devices : /\ s.devices[k].legacy = r.devices[k].legacy /\ s.devices[k].ieee = r.devices[k].ieee
                                     /\ s.devices[k].friendly = r.devices[k].friendly /\ s.devices[k].from = r.devices[k].from
  BY WithoutAreaIs
<1>. HIDE DEF s
<1>2. s.devices \in Maps(Record) /\ r.devices \in Maps(Record) /\ r.aliases \in Maps(Keys)
  BY <1>1, RegistryIs
<1>. QED  BY <1>1, <1>2, SameIdentity DEF s

(***************************************************************************)
(* Messages in their handlers, and the names they tell.                    *)
(***************************************************************************)
Messages ==
  {m \in [kind : {"inventory", "report"}, first : BOOLEAN, begun : BOOLEAN, stop : BOOLEAN, items : Seq(Items)] :
     m.kind = "report" => Len(m.items) = 1}

Same(x, y) == x.dev = y.dev /\ x.name = y.name
Tells(m, x) == m.kind = "inventory" /\ \E j \in DOMAIN m.items : Same(m.items[j], x)

\* The network holds a device once, none that is out, and each under a name it was given.
Netted(net, hs, G, out) ==
  /\ \A i, j \in DOMAIN net : net[i].dev = net[j].dev => i = j
  /\ \A i \in DOMAIN net : net[i].dev \notin out /\ net[i].name \in NamesOf(net[i].dev, G)
  /\ \A h \in DOMAIN hs : \A j \in DOMAIN hs[h].items : hs[h].items[j].name \in NamesOf(hs[h].items[j].dev, G)

\* The record of a joined device has its name, or an inventory in its handler tells it.
Reached(net, hs, f) ==
  \A i \in DOMAIN net : Stable(net[i].dev) \in DOMAIN f =>
    \/ net[i].name \in {Address(net[i].dev)} \cup f[Stable(net[i].dev)].legacy
    \/ \E h \in DOMAIN hs : Tells(hs[h], net[i])

\* The latest inventory tells nothing that the network does not say, and all that
\* it says where an older one is in its handler yet.
Newest(hs, h) == hs[h].kind = "inventory" /\ \A j \in DOMAIN hs : j > h => hs[j].kind # "inventory"
Latest(net, hs) ==
  \A h \in DOMAIN hs : Newest(hs, h) =>
    /\ \A j \in DOMAIN hs[h].items : \E i \in DOMAIN net : Same(hs[h].items[j], net[i])
    /\ (\E j \in 1..h-1 : hs[j].kind = "inventory") => \A i \in DOMAIN net : Tells(hs[h], net[i])

LEMMA Least ==
  ASSUME NEW T \in SUBSET Nat, T # {}
  PROVE  \E x \in T : \A y \in T : x <= y
<1>. DEFINE R == OpToRel(<, Nat)
<1>1. IsWellFoundedOn(R, Nat)
  BY NatLessThanWellFounded
<1>2. \A x, y \in Nat : <<y, x>> \in R <=> y < x
  BY DEF OpToRel
<1>. HIDE DEF R
<1>3. PICK x \in T : \A y \in T : ~(<<y, x>> \in R)
  BY <1>1, WFMin
<1>4. \A y \in T : ~(y < x)
  BY <1>2, <1>3
<1>. QED  BY <1>4

LEMMA Greatest ==
  ASSUME NEW n \in Nat, NEW T \in SUBSET (1..n), T # {}
  PROVE  \E x \in T : \A y \in T : y <= x
<1>. DEFINE U == {n - x : x \in T}
<1>1. \A x \in T : x \in Int /\ n - x \in Nat
  OBVIOUS
<1>2. U \in SUBSET Nat /\ U # {}
  BY <1>1
<1>3. PICK u \in U : \A y \in U : u <= y
  <2>. HIDE DEF U
  <2>. QED  BY <1>2, Least
<1>4. PICK x \in T : u = n - x
  OBVIOUS
<1>5. \A y \in T : n - x <= n - y
  BY <1>3, <1>4
<1>. QED  BY <1>1, <1>5

LEMMA Appended ==
  ASSUME NEW S, NEW q \in Seq(S), NEW x \in S
  PROVE  /\ Append(q, x) \in Seq(S) /\ Len(Append(q, x)) = Len(q) + 1 /\ Len(q) \in Nat
         /\ DOMAIN q = 1..Len(q) /\ DOMAIN Append(q, x) = 1..(Len(q) + 1) /\ Append(q, x)[Len(q) + 1] = x
         /\ \A i \in DOMAIN q : i \in DOMAIN Append(q, x) /\ Append(q, x)[i] = q[i]
         /\ \A i \in DOMAIN Append(q, x) : i \in DOMAIN q \/ i = Len(q) + 1
OBVIOUS

LEMMA ItemsAre ==
  ASSUME NEW net \in Seq(Items), NEW i \in DOMAIN net
  PROVE  net[i] \in Items /\ net[i].dev \in Phys /\ net[i].name \in Names /\ net[i].done \in BOOLEAN
<1>1. net[i] \in Items
  OBVIOUS
<1>. QED  BY <1>1 DEF Items

LEMMA InventoryPublished ==
  ASSUME NEW hs \in Seq(Messages), NEW m \in Messages, NEW net \in Seq(Items), m.kind = "inventory", m.items = net, NEW f
  PROVE  Reached(net, Append(hs, m), f) /\ Latest(net, Append(hs, m))
<1>. DEFINE qs == Append(hs, m)
            n == Len(hs) + 1
<1>1. /\ DOMAIN qs = 1..n /\ n \in Nat /\ n \in DOMAIN qs /\ qs[n] = m
  BY Appended
<1>. HIDE DEF qs, n
<1>2. \A i \in DOMAIN net : Tells(m, net[i])
  BY DEF Tells, Same
<1>3. Reached(net, qs, f)
  BY <1>1, <1>2 DEF Reached
<1>4. ASSUME NEW h \in DOMAIN qs, Newest(qs, h)  PROVE h = n
  BY <1>1, <1>4 DEF Newest
<1>5. \A j \in DOMAIN m.items : \E i \in DOMAIN net : Same(m.items[j], net[i])
  BY DEF Same
<1>6. Latest(net, qs)
  BY <1>1, <1>2, <1>4, <1>5 DEF Latest
<1>. QED  BY <1>3, <1>6 DEF qs

LEMMA ReportPublished ==
  ASSUME NEW hs \in Seq(Messages), NEW m \in Messages, NEW net \in Seq(Items), m.kind = "report", NEW f,
         Reached(net, hs, f), Latest(net, hs)
  PROVE  Reached(net, Append(hs, m), f) /\ Latest(net, Append(hs, m))
<1>. DEFINE qs == Append(hs, m)
            n == Len(hs) + 1
<1>1. /\ DOMAIN qs = 1..n /\ n \in Nat /\ n \in DOMAIN qs /\ qs[n] = m /\ DOMAIN hs = 1..(n - 1)
      /\ \A h \in DOMAIN hs : h \in DOMAIN qs /\ qs[h] = hs[h]
  BY Appended
<1>. HIDE DEF qs, n
<1>2. Reached(net, qs, f)
  BY <1>1 DEF Reached
<1>3. ASSUME NEW h \in DOMAIN qs, Newest(qs, h)  PROVE h \in DOMAIN hs /\ qs[h] = hs[h] /\ Newest(hs, h)
  BY <1>1, <1>3 DEF Newest
<1>4. ASSUME NEW h \in DOMAIN hs, \E j \in 1..h-1 : qs[j].kind = "inventory"  PROVE \E j \in 1..h-1 : hs[j].kind = "inventory"
  BY <1>1, <1>4
<1>5. Latest(net, qs)
  BY <1>3, <1>4 DEF Latest
<1>. QED  BY <1>2, <1>5 DEF qs

LEMMA StillReached ==
  ASSUME NEW hs, NEW net \in Seq(Items), NEW f, NEW g, Reached(net, hs, f), Steady(f, g, Phys)
  PROVE  Reached(net, hs, g)
<1>1. \A i \in DOMAIN net : net[i].dev \in Phys
  BY ItemsAre
<1>. QED  BY <1>1 DEF Reached, Steady

\* A handler ends: where it was that of an inventory, all it tells is in the records.
LEMMA MessageEnded ==
  ASSUME NEW hs \in Seq(Messages), NEW net \in Seq(Items), NEW f, NEW g, Reached(net, hs, f), Latest(net, hs), Steady(f, g, Phys),
         NEW i \in DOMAIN hs,
         hs[i].kind = "inventory" => \A j \in 1..i-1 : hs[j].kind # "inventory",
         \A k \in DOMAIN net : Stable(net[k].dev) \in DOMAIN f => ~Tells(hs[i], net[k])
  PROVE  Reached(net, RemoveAt(hs, i), g) /\ Latest(net, RemoveAt(hs, i))
<1>. DEFINE qs == RemoveAt(hs, i)
            n == Len(hs)
            new(h) == IF h < i THEN h ELSE h - 1
            old(h) == IF h < i THEN h ELSE h + 1
<1>1. /\ n \in Nat /\ i \in 1..n /\ DOMAIN hs = 1..n /\ DOMAIN qs = 1..(n - 1)
      /\ \A h \in DOMAIN qs : qs[h] = IF h < i THEN hs[h] ELSE hs[h + 1]
  BY RemovedAt
<1>. HIDE DEF qs, n
<1>2. \A h \in DOMAIN qs : old(h) \in DOMAIN hs /\ old(h) # i /\ qs[h] = hs[old(h)]
  BY <1>1
<1>3. \A h \in DOMAIN hs : h # i => new(h) \in DOMAIN qs /\ qs[new(h)] = hs[h]
  BY <1>1
<1>4. Reached(net, hs, g)
  BY StillReached
<1>5. Reached(net, qs, g)
  <2>1. ASSUME NEW k \in DOMAIN net, Stable(net[k].dev) \in DOMAIN g, NEW h \in DOMAIN hs, Tells(hs[h], net[k])
        PROVE  \E j \in DOMAIN qs : Tells(qs[j], net[k])
    <3>1. net[k].dev \in Phys
      BY ItemsAre
    <3>2. h # i
      BY <2>1, <3>1 DEF Steady
    <3>. HIDE DEF new
    <3>. QED  BY <1>3, <2>1, <3>2
  <2>. QED  BY <1>4, <2>1 DEF Reached
<1>6. ASSUME NEW h \in DOMAIN qs, Newest(qs, h)  PROVE Newest(hs, old(h))
  <2>1. hs[old(h)].kind = "inventory"
    BY <1>2, <1>6 DEF Newest
  <2>2. ASSUME NEW j \in DOMAIN hs, j > old(h), hs[j].kind = "inventory"  PROVE FALSE
    <3>1. CASE j = i
      <4>1. old(h) \in 1..i-1
        BY <1>1, <1>2, <2>2, <3>1
      <4>. QED  BY <2>1, <2>2, <3>1, <4>1
    <3>2. CASE j # i
      <4>1. new(j) \in DOMAIN qs /\ new(j) > h
        BY <1>1, <2>2, <3>2
      <4>2. qs[new(j)].kind = "inventory"
        BY <1>3, <2>2, <3>2
      <4>. QED  BY <1>6, <4>1, <4>2 DEF Newest
    <3>. QED  BY <3>1, <3>2
  <2>. HIDE DEF old
  <2>. QED  BY <2>1, <2>2 DEF Newest
<1>7. ASSUME NEW h \in DOMAIN qs, NEW j \in 1..h-1, qs[j].kind = "inventory"  PROVE \E l \in 1..old(h)-1 : hs[l].kind = "inventory"
  <2>1. j \in DOMAIN qs /\ old(j) \in 1..old(h)-1
    BY <1>1
  <2>. HIDE DEF old
  <2>. QED  BY <1>2, <1>7, <2>1
<1>8. Latest(net, qs)
  <2>. HIDE DEF old
  <2>. QED  BY <1>2, <1>6, <1>7 DEF Latest
<1>. QED  BY <1>5, <1>8 DEF qs

\* An item is handled, and those before it were skipped.
LEMMA ItemHandled ==
  ASSUME NEW hs \in Seq(Messages), NEW qs \in Seq(Messages), NEW net \in Seq(Items), NEW f, NEW g, NEW i \in DOMAIN hs,
         Reached(net, hs, f), Latest(net, hs), \A k, l \in DOMAIN net : net[k].dev = net[l].dev => k = l,
         hs[i].kind = "inventory", \A j \in 1..i-1 : hs[j].kind # "inventory",
         NEW n \in DOMAIN hs[i].items, NEW item, item = hs[i].items[n],
         \A j \in 1..n-1 : Stable(hs[i].items[j].dev) \notin DOMAIN f,
         Steady(f, g, Phys \ {item.dev}), item.name \in g[Stable(item.dev)].legacy,
         Stable(item.dev) \in DOMAIN f => f[Stable(item.dev)].legacy \subseteq g[Stable(item.dev)].legacy,
         DOMAIN qs = DOMAIN hs, \A h \in DOMAIN hs : h # i => qs[h] = hs[h],
         qs[i].kind = "inventory", qs[i].items = SubSeq(hs[i].items, n + 1, Len(hs[i].items))
  PROVE  Reached(net, qs, g) /\ Latest(net, qs)
<1>. DEFINE items == hs[i].items
            rest == qs[i].items
<1>1. items \in Seq(Items) /\ item \in Items
  BY DEF Messages
<1>a. rest = SubSeq(items, n + 1, Len(items)) /\ n \in DOMAIN items /\ item = items[n]
  OBVIOUS
<1>. HIDE DEF items, rest
<1>2. /\ DOMAIN items = 1..Len(items) /\ n \in 1..Len(items) /\ Len(items) \in Nat
      /\ DOMAIN rest = 1..(Len(items) - n) /\ \A j \in DOMAIN rest : rest[j] = items[n + j]
  BY <1>1, <1>a
<1>3. \A j \in DOMAIN rest : \E l \in DOMAIN items : rest[j] = items[l]
  <2>1. \A j \in DOMAIN rest : n + j \in DOMAIN items
    BY <1>2
  <2>. QED  BY <1>2, <2>1
<1>4. ASSUME NEW j \in DOMAIN items, j > n  PROVE \E l \in DOMAIN rest : rest[l] = items[j]
  <2>1. j - n \in DOMAIN rest /\ n + (j - n) = j
    BY <1>2, <1>4
  <2>. QED  BY <1>2, <2>1
<1>5. DOMAIN hs = 1..Len(hs) /\ Len(hs) \in Nat /\ i \in 1..Len(hs)
  OBVIOUS
<1>6. ASSUME NEW k \in DOMAIN net, Stable(net[k].dev) \in DOMAIN f, Tells(hs[i], net[k])
      PROVE  Same(item, net[k]) \/ Tells(qs[i], net[k])
  <2>1. PICK j \in DOMAIN items : Same(items[j], net[k])
    BY <1>6 DEF Tells, items
  <2>2. j \notin 1..n-1
    BY <1>6, <2>1 DEF Same, items
  <2>3. j = n \/ j > n
    BY <1>2, <2>2
  <2>. QED  BY <1>4, <2>1, <2>3 DEF Tells, items, rest
<1>7. ASSUME NEW k \in DOMAIN net, Stable(net[k].dev) \in DOMAIN g
      PROVE  \/ net[k].name \in {Address(net[k].dev)} \cup g[Stable(net[k].dev)].legacy
             \/ \E h \in DOMAIN qs : Tells(qs[h], net[k])
  <2>. DEFINE d == net[k].dev
  <2>0. d \in Phys
    BY ItemsAre
  <2>1. CASE Stable(d) \in DOMAIN f
    <3>1. f[Stable(d)].legacy \subseteq g[Stable(d)].legacy
      BY <1>7, <2>0, <2>1 DEF Steady
    <3>2. CASE net[k].name \in {Address(d)} \cup f[Stable(d)].legacy
      BY <3>1, <3>2
    <3>3. CASE \E h \in DOMAIN hs : Tells(hs[h], net[k])
      <4>1. PICK h \in DOMAIN hs : Tells(hs[h], net[k])
        BY <3>3
      <4>2. CASE h # i
        BY <4>1, <4>2
      <4>3. CASE h = i
        <5>1. CASE Same(item, net[k])
          BY <5>1 DEF Same
        <5>2. CASE Tells(qs[i], net[k])
          BY <5>2
        <5>. QED  BY <1>6, <2>1, <4>1, <4>3, <5>1, <5>2
      <4>. QED  BY <4>2, <4>3
    <3>. QED  BY <2>1, <3>2, <3>3 DEF Reached
  <2>2. CASE Stable(d) \notin DOMAIN f
    <3>1. d = item.dev
      BY <1>7, <2>0, <2>2 DEF Steady
    <3>2. CASE Newest(hs, i)
      <4>1. PICK l \in DOMAIN net : Same(item, net[l])
        BY <3>2 DEF Latest
      <4>2. l = k
        BY <3>1, <4>1 DEF Same
      <4>. QED  BY <4>1, <4>2 DEF Same
    <3>3. CASE ~Newest(hs, i)
      <4>1. PICK h \in DOMAIN hs : Newest(hs, h) /\ h > i
        <5>. DEFINE I == {h \in DOMAIN hs : hs[h].kind = "inventory"}
        <5>1. I \in SUBSET (1..Len(hs)) /\ I # {}
          BY <1>5
        <5>2. PICK h \in I : \A j \in I : j <= h
          BY <1>5, <5>1, Greatest
        <5>3. Newest(hs, h)
          BY <1>5, <5>2 DEF Newest
        <5>4. h >= i /\ h # i
          BY <3>3, <5>2, <5>3
        <5>. QED  BY <1>5, <5>3, <5>4
      <4>2. i \in 1..h-1
        BY <1>5, <4>1
      <4>3. Tells(hs[h], net[k])
        BY <4>1, <4>2 DEF Latest
      <4>4. h # i
        BY <1>5, <4>1
      <4>. QED  BY <4>3, <4>4
    <3>. QED  BY <3>2, <3>3
  <2>. QED  BY <2>1, <2>2
<1>8. \A h \in DOMAIN qs : Newest(qs, h) => Newest(hs, h)
  BY DEF Newest
<1>9. ASSUME NEW h \in DOMAIN qs, NEW j \in 1..h-1, qs[j].kind = "inventory"  PROVE hs[j].kind = "inventory" /\ j \in DOMAIN hs
  <2>1. j \in DOMAIN hs
    BY <1>5
  <2>. QED  BY <1>9, <2>1
<1>10. Latest(net, qs)
  <2>1. ASSUME NEW h \in DOMAIN qs, Newest(qs, h), h = i
        PROVE  /\ \A j \in DOMAIN qs[h].items : \E k \in DOMAIN net : Same(qs[h].items[j], net[k])
               /\ ~\E j \in 1..h-1 : qs[j].kind = "inventory"
    <3>1. \A j \in DOMAIN items : \E k \in DOMAIN net : Same(items[j], net[k])
      BY <1>8, <2>1 DEF Latest, items
    <3>2. \A j \in DOMAIN rest : \E k \in DOMAIN net : Same(rest[j], net[k])
      BY <1>3, <3>1
    <3>3. ~\E j \in 1..h-1 : qs[j].kind = "inventory"
      BY <1>9, <2>1
    <3>. QED  BY <2>1, <3>2, <3>3 DEF rest
  <2>2. ASSUME NEW h \in DOMAIN qs, Newest(qs, h), h # i
        PROVE  /\ \A j \in DOMAIN qs[h].items : \E k \in DOMAIN net : Same(qs[h].items[j], net[k])
               /\ (\E j \in 1..h-1 : qs[j].kind = "inventory") => \A k \in DOMAIN net : Tells(qs[h], net[k])
    BY <1>8, <1>9, <2>2 DEF Latest
  <2>. QED  BY <2>1, <2>2 DEF Latest
<1>. QED  BY <1>7, <1>10 DEF Reached

(***************************************************************************)
(* The states.                                                             *)
(***************************************************************************)
RemovalStates == [phase : {"idle", "asked", "answered", "failed", "done"}, key : Keys \cup {None}, name : Keys \cup {None}]
Requests == [by : Removals, name : Keys, answer : {"open", "ok", "error"}]
History == [given : Givings, out : SUBSET Phys, back : SUBSET Phys, doubled : BOOLEAN, overtaken : BOOLEAN]

Typed ==
  /\ registry \in Registry
  /\ handlers \in Seq(Messages) /\ Len(handlers) <= MaxHandlers
  /\ pairing \in [active : BOOLEAN, baseline : SUBSET Keys]
  /\ calls \subseteq {"start", "stop", "sync"}
  /\ removals \in [Removals -> RemovalStates]
  /\ requests \subseteq Requests
  /\ network \in Seq(Items)
  /\ hist \in History
  /\ events \in Nat

LEMMA TypedIs == Typed => ZigbeeTypeOK
<1>1. ASSUME Typed  PROVE ZigbeeTypeOK
  BY <1>1, RegistryIs DEF Typed, ZigbeeTypeOK
<1>. QED  BY <1>1

LEMMA InventoriesAre ==
  ASSUME NEW net \in Seq(Items)
  PROVE  Inventory(net) \in Messages /\ Inventory(net).kind = "inventory" /\ Inventory(net).items = net
BY DEF Inventory, Messages

LEMMA ReportsAre ==
  ASSUME NEW d \in Phys, NEW n \in Names
  PROVE  /\ Report(d, n) \in Messages /\ Report(d, n).kind = "report"
         /\ DOMAIN Report(d, n).items = {1} /\ Report(d, n).items[1].dev = d /\ Report(d, n).items[1].name = n
<1>. DEFINE item == [dev |-> d, name |-> n, done |-> TRUE]
<1>1. item \in Items /\ item.dev = d /\ item.name = n
  BY DEF Items
<1>. HIDE DEF item
<1>2. <<item>> \in Seq(Items) /\ Len(<<item>>) = 1 /\ DOMAIN <<item>> = {1} /\ <<item>>[1] = item
  BY <1>1
<1>3. Report(d, n) = [kind |-> "report", first |-> FALSE, begun |-> FALSE, stop |-> FALSE, items |-> <<item>>]
  BY DEF Report, item
<1>. QED  BY <1>1, <1>2, <1>3 DEF Messages

LEMMA MessagesAre ==
  ASSUME NEW m \in Messages, NEW b \in BOOLEAN
  PROVE  /\ [m EXCEPT !.first = b] \in Messages
         /\ [m EXCEPT !.first = b].kind = m.kind /\ [m EXCEPT !.first = b].items = m.items
         /\ m.kind \in {"inventory", "report"} /\ m.items \in Seq(Items)
BY DEF Messages

\* A message arrives: its handler is the last, and the devices stay.
LEMMA PublishIs ==
  ASSUME Typed, NEW m \in Messages, NEW f \in BOOLEAN,
         handlers' = Append(handlers, [m EXCEPT !.first = f]), Len(handlers) < MaxHandlers, registry' = [registry EXCEPT !.entry = TRUE]
  PROVE  /\ \E q \in Messages : q.kind = m.kind /\ q.items = m.items /\ handlers' = Append(handlers, q)
         /\ handlers' \in Seq(Messages) /\ Len(handlers') <= MaxHandlers
         /\ registry' \in Registry /\ registry'.devices = registry.devices /\ registry'.aliases = registry.aliases
<1>1. PICK q \in Messages : q.kind = m.kind /\ q.items = m.items /\ handlers' = Append(handlers, q)
  BY MessagesAre
<1>2. handlers' \in Seq(Messages) /\ Len(handlers') = Len(handlers) + 1 /\ Len(handlers) \in Nat
  BY <1>1, Appended DEF Typed
<1>3. registry' \in Registry /\ registry'.devices = registry.devices /\ registry'.aliases = registry.aliases
  BY DEF Typed, Registry
<1>. QED  BY <1>1, <1>2, <1>3, ZigbeeAssumption

LEMMA NextItemIs ==
  ASSUME Typed, NEW i \in DOMAIN handlers
  PROVE  /\ handlers[i] \in Messages /\ handlers[i].items \in Seq(Items)
         /\ NextItem(i) = 0 => \A j \in DOMAIN handlers[i].items : Synced(registry, handlers[i].items[j]) = {}
         /\ NextItem(i) # 0 => /\ NextItem(i) \in DOMAIN handlers[i].items
                               /\ \A j \in 1..NextItem(i)-1 : Synced(registry, handlers[i].items[j]) = {}
<1>. DEFINE items == handlers[i].items
            I == {j \in 1..Len(items) : Synced(registry, items[j]) # {}}
<1>1. handlers[i] \in Messages /\ items \in Seq(Items)
  <2>1. handlers[i] \in Messages
    BY DEF Typed
  <2>. QED  BY <2>1, MessagesAre
<1>2. NextItem(i) = IF I # {} THEN Min(I) ELSE 0
  BY DEF NextItem, SelectInSeq
<1>. HIDE DEF items
<1>3. DOMAIN items = 1..Len(items) /\ Len(items) \in Nat
  BY <1>1
<1>4. CASE I = {}
  BY <1>1, <1>2, <1>3, <1>4 DEF items
<1>5. CASE I # {}
  <2>1. \E x \in I : \A y \in I : x <= y
    <3>1. I \in SUBSET Nat
      BY <1>3
    <3>. HIDE DEF I
    <3>. QED  BY <1>5, <3>1, Least
  <2>2. Min(I) \in I /\ \A y \in I : Min(I) <= y
    BY <2>1 DEF Min
  <2>3. \A j \in 1..Min(I)-1 : Synced(registry, items[j]) = {}
    <3>1. ASSUME NEW j \in 1..Min(I)-1  PROVE j \in 1..Len(items) /\ ~(Min(I) <= j)
      BY <1>3, <2>2
    <3>. QED  BY <2>2, <3>1
  <2>4. Min(I) # 0 /\ Min(I) \in DOMAIN items
    BY <1>3, <2>2
  <2>. QED  BY <1>1, <1>2, <1>5, <2>3, <2>4 DEF items
<1>. QED  BY <1>4, <1>5

\* What the handler of an item leaves of its message.
LEMMA ItemsLeft ==
  ASSUME Typed, NEW i \in DOMAIN handlers, HandleItem(i)
  PROVE  /\ handlers' \in Seq(Messages) /\ Len(handlers') = Len(handlers) /\ DOMAIN handlers' = DOMAIN handlers
         /\ handlers'[i].kind = "inventory" /\ handlers'[i].items = SubSeq(handlers[i].items, NextItem(i) + 1, Len(handlers[i].items))
         /\ \A h \in DOMAIN handlers : h # i => handlers'[h] = handlers[h]
         /\ handlers[i].items[NextItem(i)] \in Items
<1>. DEFINE m == handlers[i]
            n == NextItem(i)
            rest == SubSeq(m.items, n + 1, Len(m.items))
            fresh == pairing.active /\ m.items[n].done /\ Stable(m.items[n].dev) \notin pairing.baseline
            b == m.stop \/ fresh
            q == [m EXCEPT !.begun = TRUE, !.stop = b, !.items = rest]
<1>1. m \in Messages /\ m.items \in Seq(Items) /\ n \in DOMAIN m.items /\ m.kind = "inventory"
  BY NextItemIs DEF HandleItem
<1>2. handlers' = [handlers EXCEPT ![i] = q]
  <2>1. handlers' = [handlers EXCEPT ![i].begun = TRUE, ![i].stop = b, ![i].items = rest]
    BY DEF HandleItem
  <2>. QED  BY <2>1 DEF Typed
<1>3. rest \in Seq(Items) /\ m.items[n] \in Items
  <2>. HIDE DEF n, m
  <2>1. n \in 1..Len(m.items) /\ Len(m.items) \in Nat
    BY <1>1
  <2>2. \A j \in (n + 1)..Len(m.items) : m.items[j] \in Items
    BY <1>1, <2>1
  <2>3. rest \in Seq(Items)
    BY <1>1, <2>1, <2>2, SubSeqProperties
  <2>. QED  BY <1>1, <2>3
<1>4. b \in BOOLEAN
  OBVIOUS
<1>. HIDE DEF rest, b, n, m
<1>5. q \in Messages /\ q.kind = "inventory" /\ q.items = rest
  BY <1>1, <1>3, <1>4 DEF Messages
<1>. HIDE DEF q
<1>6. handlers \in Seq(Messages) /\ i \in DOMAIN handlers
  BY DEF Typed
<1>7. handlers' \in Seq(Messages) /\ Len(handlers') = Len(handlers) /\ DOMAIN handlers' = DOMAIN handlers
  BY <1>2, <1>5, <1>6, ExceptSeq
<1>8. handlers'[i] = q /\ \A h \in DOMAIN handlers : h # i => handlers'[h] = handlers[h]
  BY <1>2, <1>6
<1>. QED  BY <1>3, <1>5, <1>7, <1>8 DEF rest, n, m

LEMMA MessageGone ==
  ASSUME Typed, NEW i \in DOMAIN handlers, Ended(i)
  PROVE  handlers' \in Seq(Messages) /\ Len(handlers') <= MaxHandlers
<1>1. handlers \in Seq(Messages)
  BY DEF Typed
<1>2. handlers' \in Seq(Messages) /\ Len(handlers') = Len(handlers) - 1 /\ Len(handlers) \in Nat
  BY <1>1, RemovedAt DEF Ended
<1>. QED  BY <1>2, ZigbeeAssumption DEF Typed

\* The devices of the registry, which the steps of a user need.
LEMMA UsersTyped ==
  ASSUME NEW r \in Registry, NEW key \in Keys, Resolve(r, key) \in DOMAIN r.devices, NEW area \in Area \cup {None}
  PROVE  /\ area \in Area => SetUp(r, key, area) \in Registry
         /\ Moved(r, key, area) \in Registry
<1>. DEFINE k == Resolve(r, key)
            x == r.devices[k]
            t(y) == [r EXCEPT !.devices = [r.devices EXCEPT ![k] = y]]
<1>1. k \in DOMAIN r.devices /\ k \in Keys /\ x \in Record /\ r.devices \in Maps(Record)
  BY RegistryIs
<1>. HIDE DEF k
<1>2. ASSUME NEW y \in Record  PROVE Upsert(t(y), k, Nothing) \in Registry
  <2>. DEFINE g == [r.devices EXCEPT ![k] = y]
  <2>1. DOMAIN r.devices \in SUBSET Keys /\ r.devices \in [DOMAIN r.devices -> Record]
    BY <1>1, MapsAre
  <2>2. g \in [DOMAIN r.devices -> Record]
    BY <1>1, <2>1
  <2>3. g \in Maps(Record)
    BY <2>1, <2>2 DEF Maps
  <2>. HIDE DEF g
  <2>4. [r EXCEPT !.devices = g] \in Registry
    BY <2>3 DEF Registry
  <2>5. t(y) \in Registry
    BY <2>4 DEF g
  <2>. HIDE DEF t
  <2>. QED  BY <1>1, <2>5, PatchesAre, UpsertIs
<1>3. ASSUME area \in Area  PROVE SetUp(r, key, area) \in Registry
  <2>1. [x EXCEPT !.area = area, !.ready = TRUE] \in Record
    BY <1>1, <1>3 DEF Record
  <2>2. [r EXCEPT !.devices[k].area = area, !.devices[k].ready = TRUE] = t([x EXCEPT !.area = area, !.ready = TRUE])
    BY <1>1 DEF Registry
  <2>3. SetUp(r, key, area) = Upsert(t([x EXCEPT !.area = area, !.ready = TRUE]), k, Nothing)
    BY <2>2 DEF SetUp, k
  <2>. QED  BY <1>2, <2>1, <2>3
<1>4. Moved(r, key, area) \in Registry
  <2>1. [x EXCEPT !.area = area] \in Record
    BY <1>1 DEF Record
  <2>2. [r EXCEPT !.devices[k].area = area] = t([x EXCEPT !.area = area])
    BY <1>1 DEF Registry
  <2>3. Moved(r, key, area) = Upsert(t([x EXCEPT !.area = area]), k, Nothing)
    BY <2>2 DEF Moved, k
  <2>. QED  BY <1>2, <2>1, <2>3
<1>. QED  BY <1>3, <1>4

(***************************************************************************)
(* Types.                                                                  *)
(***************************************************************************)
LEMMA HandleTyped ==
  ASSUME Typed, NEW i \in DOMAIN handlers, HandleItem(i) \/ HandleInventoryEnd(i) \/ HandleReport(i)
  PROVE  Typed'
<1>1. CASE HandleItem(i)
  <2>1. registry' \in Registry
    <3>1. handlers[i].items[NextItem(i)] \in Items /\ registry \in Registry
      BY <1>1, ItemsLeft DEF Typed
    <3>2. registry' \in Synced(registry, handlers[i].items[NextItem(i)])
      BY <1>1 DEF HandleItem
    <3>. QED  BY <3>1, <3>2, SyncedIn
  <2>2. hist' \in History
    <3>. DEFINE o == hist.overtaken \/ Overtaking(i)
                b == hist.doubled \/ (Owners(registry, handlers[i].items[NextItem(i)]) = {} /\ HasRecord(handlers[i].items[NextItem(i)].dev))
    <3>1. hist' = [hist EXCEPT !.overtaken = o, !.doubled = b]
      BY <1>1 DEF HandleItem, Typed, History
    <3>2. o \in BOOLEAN /\ b \in BOOLEAN
      OBVIOUS
    <3>. HIDE DEF o, b
    <3>. QED  BY <3>1, <3>2 DEF Typed, History
  <2>3. UNCHANGED <<pairing, calls, removals, requests, network, events>>
    BY <1>1 DEF HandleItem, removing, zigbee
  <2>. QED  BY <1>1, <2>1, <2>2, <2>3, ItemsLeft DEF Typed
<1>2. CASE HandleInventoryEnd(i)
  <2>1. hist' \in History
    <3>. DEFINE o == hist.overtaken \/ Overtaking(i)
    <3>1. hist' = [hist EXCEPT !.overtaken = o]
      BY <1>2 DEF HandleInventoryEnd, Typed, History
    <3>2. o \in BOOLEAN
      OBVIOUS
    <3>. HIDE DEF o
    <3>. QED  BY <3>1, <3>2 DEF Typed, History
  <2>2. calls' \subseteq {"start", "stop", "sync"}
    BY <1>2 DEF HandleInventoryEnd, Typed
  <2>3. UNCHANGED <<registry, pairing, removals, requests, network, events>> /\ Ended(i)
    BY <1>2 DEF HandleInventoryEnd, removing
  <2>. QED  BY <2>1, <2>2, <2>3, MessageGone DEF Typed
<1>3. CASE HandleReport(i)
  <2>. DEFINE item == handlers[i].items[1]
              patch == [Nothing EXCEPT !.from = {item.dev}]
  <2>1. item \in Items /\ item.dev \in Phys /\ item.name \in Names /\ item.name \in Keys
    <3>1. handlers[i] \in Messages /\ handlers[i].kind = "report"
      BY <1>3 DEF Typed, HandleReport
    <3>2. handlers[i].items \in Seq(Items) /\ Len(handlers[i].items) = 1
      BY <3>1 DEF Messages
    <3>3. 1 \in DOMAIN handlers[i].items
      BY <3>2
    <3>4. item \in Items /\ item.dev \in Phys /\ item.name \in Names
      BY <3>2, <3>3, ItemsAre
    <3>. QED  BY <3>4 DEF Keys
  <2>2. patch \in Patches
    BY <2>1, PatchesAre
  <2>3. registry' \in Registry
    <3>1. \/ registry' = registry
          \/ registry' = Upsert(registry, item.name, patch)
          \/ \E k \in Lookup(registry, item.name) : registry' = Upsert(registry, k, patch)
      BY <1>3 DEF HandleReport
    <3>2. Lookup(registry, item.name) \subseteq Keys /\ registry \in Registry
      BY <2>1, LookupIs DEF Typed
    <3>. HIDE DEF patch, item
    <3>. QED  BY <2>1, <2>2, <3>1, <3>2, UpsertIs
  <2>4. hist' \in History
    <3>1. hist' = hist \/ hist' = [hist EXCEPT !.doubled = @ \/ HasRecord(item.dev)]
      BY <1>3 DEF HandleReport
    <3>. DEFINE b == hist.doubled \/ HasRecord(item.dev)
    <3>2. hist' = hist \/ hist' = [hist EXCEPT !.doubled = b]
      BY <3>1 DEF Typed, History
    <3>3. b \in BOOLEAN
      OBVIOUS
    <3>. HIDE DEF b
    <3>. QED  BY <3>2, <3>3 DEF Typed, History
  <2>5. UNCHANGED <<pairing, calls, removals, requests, network, events>> /\ Ended(i)
    BY <1>3 DEF HandleReport, removing, zigbee
  <2>. QED  BY <2>3, <2>4, <2>5, MessageGone DEF Typed
<1>. QED  BY <1>1, <1>2, <1>3

LEMMA SessionTyped ==
  ASSUME Typed, StartPairing \/ StopPairing \/ SessionStarts \/ SessionStops \/ SessionExpires
  PROVE  Typed'
<1>1. UNCHANGED <<registry, handlers, removals, requests, network, hist>>
  BY DEF StartPairing, StopPairing, SessionStarts, SessionStops, SessionExpires, removing, zigbee
<1>2. events' \in Nat
  BY DEF StartPairing, StopPairing, SessionStarts, SessionStops, SessionExpires, Bounded, Typed
<1>3. calls' \subseteq {"start", "stop", "sync"}
  BY DEF StartPairing, StopPairing, SessionStarts, SessionStops, SessionExpires, Typed
<1>4. pairing' \in [active : BOOLEAN, baseline : SUBSET Keys]
  <2>. DEFINE known == DOMAIN registry.devices
  <2>1. known \in SUBSET Keys
    BY RegistryIs DEF Typed
  <2>2. pairing' = pairing \/ pairing' = [pairing EXCEPT !.active = FALSE] \/ pairing' = [active |-> TRUE, baseline |-> known]
    BY DEF StartPairing, StopPairing, SessionStarts, SessionStops, SessionExpires
  <2>3. pairing \in [active : BOOLEAN, baseline : SUBSET Keys]
    BY DEF Typed
  <2>. HIDE DEF known
  <2>4. [active |-> TRUE, baseline |-> known] \in [active : BOOLEAN, baseline : SUBSET Keys]
    BY <2>1
  <2>5. [pairing EXCEPT !.active = FALSE] \in [active : BOOLEAN, baseline : SUBSET Keys]
    BY <2>3
  <2>. QED  BY <2>2, <2>3, <2>4, <2>5
<1>. QED  BY <1>1, <1>2, <1>3, <1>4 DEF Typed

LEMMA RemovalTyped ==
  ASSUME Typed, NEW t \in Removals, (\E k \in Keys : RemovalAsked(t, k)) \/ RemovalTimesOut(t) \/ RemovalDeletes(t)
  PROVE  Typed'
<1>1. ASSUME NEW k \in Keys, RemovalAsked(t, k)  PROVE Typed'
  <2>. DEFINE nameOf(l) == Or(registry.devices[l].friendly, registry.devices[l].ieee)
  <2>1. PICK m \in Lookup(registry, k) : \E l \in Lookup(registry, m) :
          /\ removals' = [removals EXCEPT ![t] = [phase |-> "asked", key |-> m, name |-> nameOf(l)]]
          /\ requests' = requests \cup {[by |-> t, name |-> nameOf(l), answer |-> "open"]}
    BY <1>1 DEF RemovalAsked
  <2>2. PICK l \in Lookup(registry, m) :
          /\ removals' = [removals EXCEPT ![t] = [phase |-> "asked", key |-> m, name |-> nameOf(l)]]
          /\ requests' = requests \cup {[by |-> t, name |-> nameOf(l), answer |-> "open"]}
    BY <2>1
  <2>3. m \in Keys /\ l \in DOMAIN registry.devices /\ registry \in Registry
    BY LookupIs DEF Typed
  <2>4. nameOf(l) \in Keys
    <3>1. registry.devices[l] \in Record
      BY <2>3, RegistryIs
    <3>2. registry.devices[l].friendly \in Names \cup {None} /\ registry.devices[l].ieee \in Keys
      BY <3>1, RecordsAre
    <3>. QED  BY <3>2 DEF Or, Keys
  <2>. HIDE DEF nameOf
  <2>5. [phase |-> "asked", key |-> m, name |-> nameOf(l)] \in RemovalStates /\ [by |-> t, name |-> nameOf(l), answer |-> "open"] \in Requests
    BY <2>3, <2>4 DEF RemovalStates, Requests
  <2>6. removals' \in [Removals -> RemovalStates] /\ requests' \subseteq Requests
    BY <2>2, <2>5 DEF Typed
  <2>7. UNCHANGED <<registry, handlers, pairing, calls, network, hist>> /\ events' \in Nat
    BY <1>1 DEF RemovalAsked, Bounded, bridge, zigbee, Typed
  <2>. QED  BY <2>6, <2>7 DEF Typed
<1>2. ASSUME NEW p \in {"failed", "done"}  PROVE [removals EXCEPT ![t].phase = p] \in [Removals -> RemovalStates]
  BY DEF Typed, RemovalStates
<1>3. CASE RemovalTimesOut(t)
  BY <1>2, <1>3 DEF RemovalTimesOut, bridge, zigbee, Typed
<1>4. CASE RemovalDeletes(t)
  <2>1. removals' \in [Removals -> RemovalStates]
    BY <1>2, <1>4 DEF RemovalDeletes
  <2>2. pairing' \in [active : BOOLEAN, baseline : SUBSET Keys]
    BY <1>4 DEF RemovalDeletes, Typed
  <2>3. registry' \in Registry
    <3>1. CASE removals[t].key \in Keys
      BY <1>4, <3>1, RemovedIs DEF RemovalDeletes, Typed
    <3>2. CASE removals[t].key \notin Keys
      <4>1. Resolve(registry, removals[t].key) \notin DOMAIN registry.devices
        BY <3>2, RegistryIs DEF Resolve, Typed
      <4>. QED  BY <1>4, <4>1 DEF RemovalDeletes, Removed, Typed
    <3>. QED  BY <3>1, <3>2
  <2>. QED  BY <1>4, <2>1, <2>2, <2>3 DEF RemovalDeletes, zigbee, Typed
<1>. QED  BY <1>1, <1>3, <1>4

LEMMA RequestTyped ==
  ASSUME Typed, NEW q \in requests, RequestServed(q) \/ RequestLost(q) \/ AnswerHandled(q)
  PROVE  Typed'
<1>1. q \in Requests /\ requests \subseteq Requests
  BY DEF Typed
<1>2. CASE RequestServed(q)
  <2>1. \A a \in {"ok", "error"} : (requests \ {q}) \cup {[q EXCEPT !.answer = a]} \subseteq Requests
    BY <1>1 DEF Requests
  <2>2. requests' \subseteq Requests
    BY <1>2, <2>1 DEF RequestServed
  <2>3. UNCHANGED <<pairing, calls, removals, events>>
    BY <1>2 DEF RequestServed
  <2>4. CASE UNCHANGED <<registry, network, handlers, hist>>
    BY <2>2, <2>3, <2>4 DEF Typed
  <2>5. CASE \E i \in DOMAIN network : /\ network' = RemoveAt(network, i) /\ Publish(Inventory(RemoveAt(network, i)))
                                       /\ hist' = [hist EXCEPT !.out = @ \cup {network[i].dev}]
    <3>1. PICK i \in DOMAIN network : /\ network' = RemoveAt(network, i) /\ Publish(Inventory(RemoveAt(network, i)))
                                      /\ hist' = [hist EXCEPT !.out = @ \cup {network[i].dev}]
      BY <2>5
    <3>2. network' \in Seq(Items) /\ network[i].dev \in Phys
      BY <3>1, RemovedAt, ItemsAre DEF Typed
    <3>3. hist' \in History
      BY <3>1, <3>2 DEF Typed, History
    <3>4. Inventory(RemoveAt(network, i)) \in Messages /\ (~registry.entry) \in BOOLEAN
      BY <3>1, <3>2, InventoriesAre
    <3>5. handlers' \in Seq(Messages) /\ Len(handlers') <= MaxHandlers /\ registry' \in Registry
      BY <3>1, <3>4, PublishIs DEF Publish
    <3>. QED  BY <2>2, <2>3, <3>2, <3>3, <3>5 DEF Typed
  <2>. QED  BY <1>2, <2>4, <2>5 DEF RequestServed
<1>3. CASE RequestLost(q)
  BY <1>3 DEF RequestLost, bridge, zigbee, Typed
<1>4. CASE AnswerHandled(q)
  <2>1. ASSUME NEW t \in Removals, NEW p \in {"answered", "failed"}  PROVE [removals EXCEPT ![t].phase = p] \in [Removals -> RemovalStates]
    BY DEF Typed, RemovalStates
  <2>2. \A t \in Claimants(q) : t \in Removals
    BY <1>1 DEF Claimants, Requests
  <2>3. removals' = removals \/ \E t \in Claimants(q) : \E p \in {"answered", "failed"} : removals' = [removals EXCEPT ![t].phase = p]
    BY <1>4 DEF AnswerHandled
  <2>4. removals' \in [Removals -> RemovalStates]
    <3>1. CASE removals' = removals
      BY <3>1 DEF Typed
    <3>2. ASSUME NEW t \in Claimants(q), NEW p \in {"answered", "failed"}, removals' = [removals EXCEPT ![t].phase = p]
          PROVE  removals' \in [Removals -> RemovalStates]
      BY <2>1, <2>2, <3>2
    <3>. QED  BY <2>3, <3>1, <3>2
  <2>. QED  BY <1>4, <2>4 DEF AnswerHandled, bridge, zigbee, Typed
<1>. QED  BY <1>2, <1>3, <1>4

LEMMA UserTyped ==
  ASSUME Typed,
         \/ \E k \in Keys, a \in Area : DeviceSetUp(k, a)
         \/ \E k \in Keys, a \in Area \cup {None} : DeviceMoved(k, a)
         \/ \E a \in Area : AreaRemoved(a)
  PROVE  Typed'
<1>1. UNCHANGED <<handlers, pairing, calls, removals, requests, network, hist>> /\ events' \in Nat
  BY DEF DeviceSetUp, DeviceMoved, AreaRemoved, Bounded, bridge, removing, zigbee, Typed
<1>2. registry \in Registry
  BY DEF Typed
<1>3. ASSUME NEW k \in Keys, NEW a \in Area, DeviceSetUp(k, a)  PROVE registry' \in Registry
  BY <1>2, <1>3, UsersTyped DEF DeviceSetUp
<1>4. ASSUME NEW k \in Keys, NEW a \in Area \cup {None}, DeviceMoved(k, a)  PROVE registry' \in Registry
  BY <1>2, <1>4, UsersTyped DEF DeviceMoved
<1>5. ASSUME NEW a \in Area, AreaRemoved(a)  PROVE registry' \in Registry
  BY <1>2, <1>5, WithoutAreaIs DEF AreaRemoved
<1>. QED  BY <1>1, <1>3, <1>4, <1>5 DEF Typed

\* The steps of the network, each with the message it sends.
LEMMA JoinsIs ==
  ASSUME Typed, NEW d \in Phys, Joins(d)
  PROVE  /\ network' = Append(network, [dev |-> d, name |-> Address(d), done |-> FALSE]) /\ network' \in Seq(Items)
         /\ \E q \in Messages : q.kind = "inventory" /\ q.items = network' /\ handlers' = Append(handlers, q)
         /\ registry' \in Registry /\ registry'.devices = registry.devices /\ registry'.aliases = registry.aliases
         /\ Typed'
<1>1. network' = Append(network, [dev |-> d, name |-> Address(d), done |-> FALSE]) /\ network' \in Seq(Items)
  <2>1. [dev |-> d, name |-> Address(d), done |-> FALSE] \in Items
    BY DEF Items, Names
  <2>. QED  BY <2>1 DEF Joins, Typed
<1>2. PICK net \in Seq(Items) : net = network'
  BY <1>1
<1>3. PICK m \in Messages : m = Inventory(net) /\ m.kind = "inventory" /\ m.items = net /\ (~registry.entry) \in BOOLEAN
  BY InventoriesAre
<1>4. /\ handlers' = Append(handlers, [m EXCEPT !.first = ~registry.entry])
      /\ Len(handlers) < MaxHandlers /\ registry' = [registry EXCEPT !.entry = TRUE]
  BY <1>2, <1>3 DEF Joins, Publish
<1>5. /\ \E q \in Messages : q.kind = m.kind /\ q.items = m.items /\ handlers' = Append(handlers, q)
      /\ handlers' \in Seq(Messages) /\ Len(handlers') <= MaxHandlers
      /\ registry' \in Registry /\ registry'.devices = registry.devices /\ registry'.aliases = registry.aliases
  BY <1>3, <1>4, PublishIs
<1>6. hist' \in History
  BY DEF Joins, Typed, History
<1>7. Typed'
  BY <1>1, <1>5, <1>6 DEF Joins, Bounded, removing, Typed
<1>. QED  BY <1>1, <1>2, <1>3, <1>5, <1>7

LEMMA InterviewedIs ==
  ASSUME Typed, NEW i \in DOMAIN network, Interviewed(i)
  PROVE  /\ network' = [network EXCEPT ![i].done = TRUE] /\ network' \in Seq(Items)
         /\ \E q \in Messages : q.kind = "inventory" /\ q.items = network' /\ handlers' = Append(handlers, q)
         /\ registry' \in Registry /\ registry'.devices = registry.devices /\ registry'.aliases = registry.aliases
         /\ DOMAIN network' = DOMAIN network
         /\ \A j \in DOMAIN network : network'[j].dev = network[j].dev /\ network'[j].name = network[j].name
         /\ Typed'
<1>1. network' = [network EXCEPT ![i].done = TRUE] /\ network' \in Seq(Items) /\ DOMAIN network' = DOMAIN network
      /\ \A j \in DOMAIN network : network'[j].dev = network[j].dev /\ network'[j].name = network[j].name
  <2>. DEFINE x == [network[i] EXCEPT !.done = TRUE]
  <2>1. network \in Seq(Items) /\ network[i] \in Items
    BY DEF Typed
  <2>2. x \in Items /\ x.dev = network[i].dev /\ x.name = network[i].name
    BY <2>1 DEF Items
  <2>3. network' = [network EXCEPT ![i] = x]
    BY DEF Interviewed
  <2>. HIDE DEF x
  <2>4. network' \in Seq(Items) /\ DOMAIN network' = DOMAIN network /\ \A j \in DOMAIN network : network'[j] = IF j = i THEN x ELSE network[j]
    BY <2>1, <2>2, <2>3, ExceptSeq
  <2>. QED  BY <2>2, <2>4 DEF Interviewed
<1>2. PICK net \in Seq(Items) : net = network'
  BY <1>1
<1>3. PICK m \in Messages : m = Inventory(net) /\ m.kind = "inventory" /\ m.items = net /\ (~registry.entry) \in BOOLEAN
  BY InventoriesAre
<1>4. /\ handlers' = Append(handlers, [m EXCEPT !.first = ~registry.entry])
      /\ Len(handlers) < MaxHandlers /\ registry' = [registry EXCEPT !.entry = TRUE]
  BY <1>2, <1>3 DEF Interviewed, Publish
<1>5. /\ \E q \in Messages : q.kind = m.kind /\ q.items = m.items /\ handlers' = Append(handlers, q)
      /\ handlers' \in Seq(Messages) /\ Len(handlers') <= MaxHandlers
      /\ registry' \in Registry /\ registry'.devices = registry.devices /\ registry'.aliases = registry.aliases
  BY <1>3, <1>4, PublishIs
<1>6. Typed'
  BY <1>1, <1>5 DEF Interviewed, removing, Typed
<1>. QED  BY <1>1, <1>2, <1>3, <1>5, <1>6

LEMMA RenamedIs ==
  ASSUME Typed, NEW i \in DOMAIN network, NEW n \in Name, Renamed(i, Friendly(n))
  PROVE  /\ network' \in Seq(Items) /\ DOMAIN network' = DOMAIN network
         /\ \A j \in DOMAIN network : network'[j].dev = network[j].dev /\ network'[j].name = IF j = i THEN Friendly(n) ELSE network[j].name
         /\ \E q \in Messages : q.kind = "inventory" /\ q.items = network' /\ handlers' = Append(handlers, q)
         /\ registry' \in Registry /\ registry'.devices = registry.devices /\ registry'.aliases = registry.aliases
         /\ hist'.given = hist.given \cup {<<Friendly(n), network[i].dev>>} /\ hist'.out = hist.out /\ hist'.back = hist.back
         /\ Typed'
<1>1. network' \in Seq(Items) /\ DOMAIN network' = DOMAIN network /\ network[i].dev \in Phys
      /\ \A j \in DOMAIN network : network'[j].dev = network[j].dev /\ network'[j].name = IF j = i THEN Friendly(n) ELSE network[j].name
  <2>. DEFINE x == [network[i] EXCEPT !.name = Friendly(n)]
  <2>1. network \in Seq(Items) /\ network[i] \in Items /\ Friendly(n) \in Names
    BY DEF Typed, Names
  <2>2. x \in Items /\ x.dev = network[i].dev /\ x.name = Friendly(n) /\ network[i].dev \in Phys
    BY <2>1 DEF Items
  <2>3. network' = [network EXCEPT ![i] = x]
    BY DEF Renamed
  <2>. HIDE DEF x
  <2>4. network' \in Seq(Items) /\ DOMAIN network' = DOMAIN network /\ \A j \in DOMAIN network : network'[j] = IF j = i THEN x ELSE network[j]
    BY <2>1, <2>2, <2>3, ExceptSeq
  <2>. QED  BY <2>2, <2>4
<1>2. PICK net \in Seq(Items) : net = network'
  BY <1>1
<1>3. PICK m \in Messages : m = Inventory(net) /\ m.kind = "inventory" /\ m.items = net /\ (~registry.entry) \in BOOLEAN
  BY InventoriesAre
<1>4. /\ handlers' = Append(handlers, [m EXCEPT !.first = ~registry.entry])
      /\ Len(handlers) < MaxHandlers /\ registry' = [registry EXCEPT !.entry = TRUE]
  BY <1>2, <1>3 DEF Renamed, Publish
<1>5. /\ \E q \in Messages : q.kind = m.kind /\ q.items = m.items /\ handlers' = Append(handlers, q)
      /\ handlers' \in Seq(Messages) /\ Len(handlers') <= MaxHandlers
      /\ registry' \in Registry /\ registry'.devices = registry.devices /\ registry'.aliases = registry.aliases
  BY <1>3, <1>4, PublishIs
<1>6. hist' \in History /\ hist'.given = hist.given \cup {<<Friendly(n), network[i].dev>>} /\ hist'.out = hist.out /\ hist'.back = hist.back
  <2>. DEFINE g == hist.given \cup {<<Friendly(n), network[i].dev>>}
  <2>1. g \in Givings
    BY <1>1 DEF Typed, History, Givings, FriendlyNames
  <2>2. hist' = [hist EXCEPT !.given = g]
    BY DEF Renamed
  <2>. HIDE DEF g
  <2>3. hist' \in History /\ hist'.given = g /\ hist'.out = hist.out /\ hist'.back = hist.back
    BY <2>1, <2>2 DEF Typed, History
  <2>. QED  BY <2>3 DEF g
<1>7. Typed'
  BY <1>1, <1>5, <1>6 DEF Renamed, Bounded, removing, Typed
<1>. QED  BY <1>1, <1>2, <1>3, <1>5, <1>6, <1>7

LEMMA ReportsIs ==
  ASSUME Typed, NEW i \in DOMAIN network, Reports(i)
  PROVE  /\ \E q \in Messages : q.kind = "report" /\ q.items = Report(network[i].dev, network[i].name).items /\ handlers' = Append(handlers, q)
         /\ registry' \in Registry /\ registry'.devices = registry.devices /\ registry'.aliases = registry.aliases
         /\ Typed'
<1>1. network[i].dev \in Phys /\ network[i].name \in Names
  BY ItemsAre DEF Typed
<1>2. PICK m \in Messages : m = Report(network[i].dev, network[i].name) /\ m.kind = "report" /\ (~registry.entry) \in BOOLEAN
  BY <1>1, ReportsAre
<1>3. /\ handlers' = Append(handlers, [m EXCEPT !.first = ~registry.entry])
      /\ Len(handlers) < MaxHandlers /\ registry' = [registry EXCEPT !.entry = TRUE]
  BY <1>2 DEF Reports, Publish
<1>4. /\ \E q \in Messages : q.kind = "report" /\ q.items = m.items /\ handlers' = Append(handlers, q)
      /\ handlers' \in Seq(Messages) /\ Len(handlers') <= MaxHandlers
      /\ registry' \in Registry /\ registry'.devices = registry.devices /\ registry'.aliases = registry.aliases
  BY <1>2, <1>3, PublishIs
<1>5. Typed'
  BY <1>4 DEF Reports, Bounded, removing, zigbee, Typed
<1>. QED  BY <1>2, <1>4, <1>5

LEMMA RestartIs ==
  ASSUME Typed, HubRestarts
  PROVE  /\ \E s \in Loaded(registry) : registry'.devices = s.devices /\ registry'.aliases = s.aliases
         /\ \E q \in Messages : q.kind = "inventory" /\ q.items = network /\ handlers' = <<q>>
         /\ Typed'
<1>1. PICK s \in Loaded(registry), entry \in BOOLEAN :
        registry' = [s EXCEPT !.entry = TRUE] /\ handlers' = <<[Inventory(network) EXCEPT !.first = ~entry]>>
  <2>1. registry.entry \in BOOLEAN
    BY DEF Typed, Registry
  <2>. QED  BY <2>1 DEF HubRestarts
<1>2. s \in Registry
  BY LoadedTidy DEF Typed
<1>3. registry' \in Registry /\ registry'.devices = s.devices /\ registry'.aliases = s.aliases
  BY <1>1, <1>2 DEF Registry
<1>4. PICK q \in Messages : q.kind = "inventory" /\ q.items = network /\ handlers' = <<q>>
  <2>1. Inventory(network) \in Messages /\ Inventory(network).kind = "inventory" /\ Inventory(network).items = network /\ (~entry) \in BOOLEAN
    BY InventoriesAre DEF Typed
  <2>. QED  BY <1>1, <2>1, MessagesAre
<1>5. handlers' \in Seq(Messages) /\ Len(handlers') <= MaxHandlers
  BY <1>4, ZigbeeAssumption
<1>6. removals' \in [Removals -> RemovalStates]
  <2>1. removals' = [t \in Removals |-> IF removals[t].phase = "idle" THEN NoRemoval ELSE [removals[t] EXCEPT !.phase = "done"]]
    BY DEF HubRestarts
  <2>2. NoRemoval \in RemovalStates /\ \A x \in RemovalStates : [x EXCEPT !.phase = "done"] \in RemovalStates
    BY DEF NoRemoval, RemovalStates
  <2>3. \A t \in Removals : removals[t] \in RemovalStates
    BY DEF Typed
  <2>. QED  BY <2>1, <2>2, <2>3
<1>7. pairing' \in [active : BOOLEAN, baseline : SUBSET Keys] /\ calls' \subseteq {"start", "stop", "sync"}
  BY DEF HubRestarts, Idle
<1>8. UNCHANGED <<requests, network, hist>> /\ events' \in Nat
  BY DEF HubRestarts, zigbee, Bounded, Typed
<1>. QED  BY <1>1, <1>3, <1>4, <1>5, <1>6, <1>7, <1>8 DEF Typed

LEMMA NextTyped ==
  ASSUME Typed, [ZigbeeNext]_zigbeeVars
  PROVE  Typed'
<1>1. CASE UNCHANGED zigbeeVars
  BY <1>1 DEF zigbeeVars, bridge, removing, zigbee, Typed
<1>2. CASE Handle
  BY <1>2, HandleTyped DEF Handle
<1>3. CASE StartPairing \/ StopPairing \/ SessionStarts \/ SessionStops \/ SessionExpires
  BY <1>3, SessionTyped
<1>4. CASE \E t \in Removals : (\E k \in Keys : RemovalAsked(t, k)) \/ RemovalTimesOut(t) \/ RemovalDeletes(t)
  BY <1>4, RemovalTyped
<1>5. CASE \E q \in requests : RequestServed(q) \/ RequestLost(q) \/ AnswerHandled(q)
  BY <1>5, RequestTyped
<1>6. CASE \/ \E k \in Keys, a \in Area : DeviceSetUp(k, a)
           \/ \E k \in Keys, a \in Area \cup {None} : DeviceMoved(k, a)
           \/ \E a \in Area : AreaRemoved(a)
  BY <1>6, UserTyped
<1>7. CASE \E d \in Phys : Joins(d)
  BY <1>7, JoinsIs
<1>8. CASE \E i \in DOMAIN network : Interviewed(i) \/ Reports(i) \/ \E n \in Name : Renamed(i, Friendly(n))
  BY <1>8, InterviewedIs, ReportsIs, RenamedIs
<1>9. CASE PermitEnds
  BY <1>9 DEF PermitEnds, bridge, removing, Typed
<1>10. CASE HubRestarts
  BY <1>10, RestartIs
<1>. QED  BY <1>1, <1>2, <1>3, <1>4, <1>5, <1>6, <1>7, <1>8, <1>9, <1>10 DEF ZigbeeNext

Left(h) == h.out \cup h.back

\* A removal asked for one device, by a key and a name of it; an answer is of a device that has left.
Asked(rem, G, left) ==
  \A t \in Removals : rem[t].phase # "idle" =>
    \E d \in Phys : /\ rem[t].key \in KeysOf(d, G) /\ rem[t].name \in NamesOf(d, G)
                    /\ rem[t].phase = "answered" => d \in left
Answered(req, rem, G, left) ==
  \A q \in req : /\ rem[q.by].phase # "idle" /\ q.name = rem[q.by].name
                 /\ q.answer = "ok" => \E d \in left : q.name \in NamesOf(d, G)

LEMMA MoreAsked ==
  ASSUME NEW rem, NEW G, NEW H, NEW left, NEW more, G \subseteq H, left \subseteq more
  PROVE  /\ Asked(rem, G, left) => Asked(rem, H, more)
         /\ \A req : Answered(req, rem, G, left) => Answered(req, rem, H, more)
<1>1. \A d : NamesOf(d, G) \subseteq NamesOf(d, H) /\ KeysOf(d, G) \subseteq KeysOf(d, H)
  BY MoreNames
<1>2. ASSUME Asked(rem, G, left)  PROVE Asked(rem, H, more)
  <2>1. ASSUME NEW t \in Removals, rem[t].phase # "idle"
        PROVE  \E d \in Phys : /\ rem[t].key \in KeysOf(d, H) /\ rem[t].name \in NamesOf(d, H)
                               /\ rem[t].phase = "answered" => d \in more
    <3>1. PICK d \in Phys : /\ rem[t].key \in KeysOf(d, G) /\ rem[t].name \in NamesOf(d, G)
                            /\ rem[t].phase = "answered" => d \in left
      BY <1>2, <2>1 DEF Asked
    <3>. QED  BY <1>1, <3>1
  <2>. QED  BY <2>1 DEF Asked
<1>3. ASSUME NEW req, Answered(req, rem, G, left)  PROVE Answered(req, rem, H, more)
  BY <1>1, <1>3 DEF Answered
<1>. QED  BY <1>2, <1>3

\* Removals whose phases move on, none of them back to idle.
LEMMA MovedOn ==
  ASSUME NEW rem, NEW new, NEW G, NEW left,
         \A t \in Removals : /\ new[t].phase = "idle" <=> rem[t].phase = "idle"
                             /\ rem[t].phase # "idle" => new[t].key = rem[t].key /\ new[t].name = rem[t].name
  PROVE  /\ \A req \in SUBSET Requests : Answered(req, rem, G, left) => Answered(req, new, G, left)
         /\ Asked(rem, G, left) /\ (\A t \in Removals : new[t].phase = "answered" => rem[t].phase = "answered") => Asked(new, G, left)
<1>1. ASSUME NEW req \in SUBSET Requests, Answered(req, rem, G, left)  PROVE Answered(req, new, G, left)
  <2>1. \A q \in req : q.by \in Removals
    BY DEF Requests
  <2>. QED  BY <1>1, <2>1 DEF Answered
<1>2. ASSUME Asked(rem, G, left), \A t \in Removals : new[t].phase = "answered" => rem[t].phase = "answered"
      PROVE  Asked(new, G, left)
  <2>1. ASSUME NEW t \in Removals, new[t].phase # "idle"
        PROVE  \E d \in Phys : /\ new[t].key \in KeysOf(d, G) /\ new[t].name \in NamesOf(d, G)
                               /\ new[t].phase = "answered" => d \in left
    <3>1. rem[t].phase # "idle" /\ new[t].key = rem[t].key /\ new[t].name = rem[t].name
      BY <2>1
    <3>2. PICK d \in Phys : /\ rem[t].key \in KeysOf(d, G) /\ rem[t].name \in NamesOf(d, G)
                            /\ rem[t].phase = "answered" => d \in left
      BY <1>2, <3>1 DEF Asked
    <3>. QED  BY <1>2, <3>1, <3>2
  <2>. QED  BY <2>1 DEF Asked
<1>. QED  BY <1>1, <1>2

(***************************************************************************)
(* The network and the names it tells.                                     *)
(***************************************************************************)
LEMMA NettedPublished ==
  ASSUME NEW hs \in Seq(Messages), NEW q \in Messages, NEW G, NEW out, NEW net,
         \A i, j \in DOMAIN net : net[i].dev = net[j].dev => i = j,
         \A i \in DOMAIN net : net[i].dev \notin out /\ net[i].name \in NamesOf(net[i].dev, G),
         \A h \in DOMAIN hs : \A j \in DOMAIN hs[h].items : hs[h].items[j].name \in NamesOf(hs[h].items[j].dev, G),
         \A j \in DOMAIN q.items : q.items[j].name \in NamesOf(q.items[j].dev, G)
  PROVE  Netted(net, Append(hs, q), G, out)
<1>. DEFINE qs == Append(hs, q)
<1>1. ASSUME NEW h \in DOMAIN qs  PROVE qs[h] = q \/ (h \in DOMAIN hs /\ qs[h] = hs[h])
  <2>1. Append(hs, q)[Len(hs) + 1] = q /\ (\A j \in DOMAIN hs : Append(hs, q)[j] = hs[j]) /\ (h \in DOMAIN hs \/ h = Len(hs) + 1)
    BY Appended
  <2>. QED  BY <2>1
<1>. HIDE DEF qs
<1>2. \A h \in DOMAIN qs : \A j \in DOMAIN qs[h].items : qs[h].items[j].name \in NamesOf(qs[h].items[j].dev, G)
  BY <1>1
<1>. QED  BY <1>2 DEF Netted, qs

LEMMA NettedFewer ==
  ASSUME NEW hs, NEW qs, NEW G, NEW H, G \subseteq H, NEW out, NEW net, Netted(net, hs, G, out),
         \A h \in DOMAIN qs : \A j \in DOMAIN qs[h].items : \E i \in DOMAIN hs : \E l \in DOMAIN hs[i].items : qs[h].items[j] = hs[i].items[l]
  PROVE  Netted(net, qs, H, out)
<1>1. \A d : NamesOf(d, G) \subseteq NamesOf(d, H)
  BY MoreNames
<1>2. ASSUME NEW h \in DOMAIN qs, NEW j \in DOMAIN qs[h].items  PROVE qs[h].items[j].name \in NamesOf(qs[h].items[j].dev, H)
  BY <1>1, <1>2 DEF Netted
<1>3. \A i \in DOMAIN net : net[i].name \in NamesOf(net[i].dev, H)
  BY <1>1 DEF Netted
<1>. QED  BY <1>2, <1>3 DEF Netted

Net == Netted(network, handlers, hist.given, hist.out)

LEMMA HandleNet ==
  ASSUME Typed, Net, NEW i \in DOMAIN handlers, HandleItem(i) \/ HandleInventoryEnd(i) \/ HandleReport(i)
  PROVE  /\ Net' /\ UNCHANGED <<network, removals, requests>>
         /\ hist'.given = hist.given /\ hist'.out = hist.out /\ hist'.back = hist.back
<1>1. UNCHANGED <<network, removals, requests>>
  BY DEF HandleItem, HandleInventoryEnd, HandleReport, removing, zigbee
<1>2. hist'.given = hist.given /\ hist'.out = hist.out /\ hist'.back = hist.back
  <2>. DEFINE o == hist.overtaken \/ Overtaking(i)
              b == hist.doubled \/ (Owners(registry, handlers[i].items[NextItem(i)]) = {} /\ HasRecord(handlers[i].items[NextItem(i)].dev))
              c == hist.doubled \/ HasRecord(handlers[i].items[1].dev)
  <2>1. \/ hist' = hist \/ hist' = [hist EXCEPT !.overtaken = o, !.doubled = b]
        \/ hist' = [hist EXCEPT !.overtaken = o] \/ hist' = [hist EXCEPT !.doubled = c]
    BY DEF HandleItem, HandleInventoryEnd, HandleReport, Typed, History
  <2>. HIDE DEF o, b, c
  <2>. QED  BY <2>1 DEF Typed, History
<1>3. ASSUME NEW h \in DOMAIN handlers', NEW j \in DOMAIN handlers'[h].items
      PROVE  \E k \in DOMAIN handlers : \E l \in DOMAIN handlers[k].items : handlers'[h].items[j] = handlers[k].items[l]
  <2>1. CASE HandleItem(i)
    <3>1. CASE h # i
      <4>1. h \in DOMAIN handlers /\ handlers'[h] = handlers[h]
        BY <2>1, <3>1, ItemsLeft
      <4>. QED  BY <4>1
    <3>2. CASE h = i
      <4>. DEFINE items == handlers[i].items
                  n == NextItem(i)
      <4>1. items \in Seq(Items) /\ n \in DOMAIN items
        BY <2>1, NextItemIs DEF HandleItem
      <4>2. handlers'[i].items = SubSeq(items, n + 1, Len(items))
        BY <2>1, ItemsLeft
      <4>. HIDE DEF items, n
      <4>3. n + j \in DOMAIN items /\ handlers'[i].items[j] = items[n + j]
        BY <3>2, <4>1, <4>2
      <4>. QED  BY <3>2, <4>3 DEF items
    <3>. QED  BY <3>1, <3>2
  <2>2. CASE HandleInventoryEnd(i) \/ HandleReport(i)
    <3>1. handlers' = RemoveAt(handlers, i) /\ handlers \in Seq(Messages)
      BY <2>2 DEF HandleInventoryEnd, HandleReport, Ended, Typed
    <3>2. h \in DOMAIN RemoveAt(handlers, i)
      BY <3>1
    <3>3. \E k \in DOMAIN handlers : handlers'[h] = handlers[k]
      <4>1. DOMAIN RemoveAt(handlers, i) = 1..(Len(handlers) - 1) /\ DOMAIN handlers = 1..Len(handlers) /\ Len(handlers) \in Nat
        BY <3>1, RemovedAt
      <4>2. RemoveAt(handlers, i)[h] = IF h < i THEN handlers[h] ELSE handlers[h + 1]
        BY <3>1, <3>2, RemovedAt
      <4>3. h \in DOMAIN handlers /\ h + 1 \in DOMAIN handlers
        BY <3>2, <4>1
      <4>. QED  BY <3>1, <4>2, <4>3
    <3>. QED  BY <3>3
  <2>. QED  BY <2>1, <2>2
<1>4. Netted(network, handlers', hist.given, hist.out)
  BY <1>3, NettedFewer DEF Net
<1>. QED  BY <1>1, <1>2, <1>4 DEF Net

LEMMA JoinsNet ==
  ASSUME Typed, Net, NEW d \in Phys, Joins(d)
  PROVE  Net' /\ UNCHANGED <<removals, requests>> /\ hist'.given = hist.given /\ Left(hist) \subseteq Left(hist')
<1>1. /\ hist'.given = hist.given /\ hist'.out = hist.out \ {d} /\ hist'.back = hist.back \cup (hist.out \cap {d})
      /\ UNCHANGED <<removals, requests>> /\ \A i \in DOMAIN network : network[i].dev # d
  BY DEF Joins, Typed, History, removing, Joined
<1>2. PICK q \in Messages : q.items = network' /\ handlers' = Append(handlers, q)
  BY JoinsIs
<1>. DEFINE x == [dev |-> d, name |-> Address(d), done |-> FALSE]
<1>3. network \in Seq(Items) /\ handlers \in Seq(Messages) /\ x \in Items /\ x.dev = d /\ x.name = Address(d) /\ network' = Append(network, x)
  BY JoinsIs DEF Typed, Items, Names
<1>. HIDE DEF x
<1>4. \A i \in DOMAIN network' : (i = Len(network) + 1 /\ network'[i] = x) \/ (i \in DOMAIN network /\ network'[i] = network[i])
  <2>1. /\ Append(network, x)[Len(network) + 1] = x /\ (\A j \in DOMAIN network : Append(network, x)[j] = network[j])
        /\ \A i \in DOMAIN Append(network, x) : i \in DOMAIN network \/ i = Len(network) + 1
    BY <1>3, Appended
  <2>. QED  BY <1>3, <2>1
<1>5. \A i, j \in DOMAIN network' : network'[i].dev = network'[j].dev => i = j
  BY <1>1, <1>3, <1>4 DEF Net, Netted
<1>6. \A i \in DOMAIN network' : network'[i].dev \notin hist'.out /\ network'[i].name \in NamesOf(network'[i].dev, hist.given)
  BY <1>1, <1>3, <1>4, StableKey DEF Net, Netted
<1>7. Netted(network', handlers', hist.given, hist'.out)
  <2>1. \A h \in DOMAIN handlers : \A j \in DOMAIN handlers[h].items : handlers[h].items[j].name \in NamesOf(handlers[h].items[j].dev, hist.given)
    BY DEF Net, Netted
  <2>2. \A j \in DOMAIN q.items : q.items[j].name \in NamesOf(q.items[j].dev, hist.given)
    BY <1>2, <1>6
  <2>. QED  BY <1>2, <1>3, <1>5, <1>6, <2>1, <2>2, NettedPublished
<1>. QED  BY <1>1, <1>7 DEF Net, Left

LEMMA InterviewedNet ==
  ASSUME Typed, Net, NEW i \in DOMAIN network, Interviewed(i)
  PROVE  Net' /\ UNCHANGED <<removals, requests, hist>>
<1>1. UNCHANGED <<removals, requests, hist>>
  BY DEF Interviewed, removing
<1>2. PICK q \in Messages : q.items = network' /\ handlers' = Append(handlers, q)
  BY InterviewedIs
<1>3. /\ DOMAIN network' = DOMAIN network
      /\ \A j \in DOMAIN network : network'[j].dev = network[j].dev /\ network'[j].name = network[j].name
  BY InterviewedIs
<1>4. Netted(network', handlers', hist.given, hist.out)
  <2>1. handlers \in Seq(Messages)
    BY DEF Typed
  <2>2. \A h \in DOMAIN handlers : \A j \in DOMAIN handlers[h].items : handlers[h].items[j].name \in NamesOf(handlers[h].items[j].dev, hist.given)
    BY DEF Net, Netted
  <2>3. \A j, k \in DOMAIN network' : network'[j].dev = network'[k].dev => j = k
    BY <1>3 DEF Net, Netted
  <2>4. \A j \in DOMAIN network' : network'[j].dev \notin hist.out /\ network'[j].name \in NamesOf(network'[j].dev, hist.given)
    BY <1>3 DEF Net, Netted
  <2>. QED  BY <1>2, <2>1, <2>2, <2>3, <2>4, NettedPublished
<1>. QED  BY <1>1, <1>4 DEF Net

LEMMA RenamedNet ==
  ASSUME Typed, Net, NEW i \in DOMAIN network, NEW n \in Name, Renamed(i, Friendly(n))
  PROVE  Net' /\ UNCHANGED <<removals, requests>> /\ hist.given \subseteq hist'.given /\ Left(hist) = Left(hist')
<1>1. UNCHANGED <<removals, requests>>
  BY DEF Renamed, removing
<1>2. PICK q \in Messages : q.items = network' /\ handlers' = Append(handlers, q)
  BY RenamedIs
<1>3. /\ DOMAIN network' = DOMAIN network
      /\ \A j \in DOMAIN network : network'[j].dev = network[j].dev /\ network'[j].name = IF j = i THEN Friendly(n) ELSE network[j].name
      /\ hist'.given = hist.given \cup {<<Friendly(n), network[i].dev>>} /\ hist'.out = hist.out /\ hist'.back = hist.back
  BY RenamedIs
<1>4. Friendly(n) \in NamesOf(network[i].dev, hist'.given) /\ \A d : NamesOf(d, hist.given) \subseteq NamesOf(d, hist'.given)
  BY <1>3 DEF NamesOf, Names
<1>5. Netted(network', handlers', hist'.given, hist.out)
  <2>1. handlers \in Seq(Messages)
    BY DEF Typed
  <2>2. \A h \in DOMAIN handlers : \A j \in DOMAIN handlers[h].items : handlers[h].items[j].name \in NamesOf(handlers[h].items[j].dev, hist'.given)
    BY <1>4 DEF Net, Netted
  <2>3. \A j, k \in DOMAIN network' : network'[j].dev = network'[k].dev => j = k
    BY <1>3 DEF Net, Netted
  <2>4. \A j \in DOMAIN network' : network'[j].dev \notin hist.out /\ network'[j].name \in NamesOf(network'[j].dev, hist'.given)
    BY <1>3, <1>4 DEF Net, Netted
  <2>. QED  BY <1>2, <2>1, <2>2, <2>3, <2>4, NettedPublished
<1>. QED  BY <1>1, <1>3, <1>5 DEF Net, Left

LEMMA ReportsNet ==
  ASSUME Typed, Net, NEW i \in DOMAIN network, Reports(i)
  PROVE  Net' /\ UNCHANGED <<network, removals, requests, hist>>
<1>1. UNCHANGED <<network, removals, requests, hist>>
  BY DEF Reports, removing, zigbee
<1>2. network[i].dev \in Phys /\ network[i].name \in Names /\ network[i].name \in NamesOf(network[i].dev, hist.given)
  BY ItemsAre DEF Typed, Net, Netted
<1>3. PICK q \in Messages : q.items = Report(network[i].dev, network[i].name).items /\ handlers' = Append(handlers, q)
  BY ReportsIs
<1>4. \A j \in DOMAIN q.items : q.items[j].name \in NamesOf(q.items[j].dev, hist.given)
  BY <1>2, <1>3, ReportsAre
<1>5. Netted(network, handlers', hist.given, hist.out)
  <2>1. handlers \in Seq(Messages)
    BY DEF Typed
  <2>. QED  BY <1>3, <1>4, <2>1, NettedPublished DEF Net, Netted
<1>. QED  BY <1>1, <1>5 DEF Net

LEMMA RestartNet ==
  ASSUME Typed, Net, HubRestarts
  PROVE  Net' /\ UNCHANGED <<network, requests, hist>>
<1>1. UNCHANGED <<network, requests, hist>>
  BY DEF HubRestarts, zigbee
<1>2. PICK q \in Messages : q.items = network /\ handlers' = <<q>>
  BY RestartIs
<1>3. DOMAIN handlers' = {1} /\ handlers'[1] = q
  BY <1>2
<1>. QED  BY <1>1, <1>2, <1>3 DEF Net, Netted

Answers == Answered(requests, removals, hist.given, Left(hist))
Clear == Distinct(hist.given) /\ ~hist.doubled /\ ~hist.overtaken
Settled ==
  /\ Tidy(registry.devices, registry.aliases, hist.given)
  /\ Asked(removals, hist.given, Left(hist))
  /\ Reached(network, handlers, registry.devices)
  /\ Latest(network, handlers)

LEMMA ClearIs == Clear <=> ~Confused
BY DEF Clear, Confused, Reused, Distinct

(***************************************************************************)
(* Removals.                                                               *)
(***************************************************************************)
LEMMA ServedIs ==
  ASSUME Typed, Net, NEW q \in requests, RequestServed(q), ~UNCHANGED <<registry, network, handlers, hist>>
  PROVE  /\ Net' /\ network' \in Seq(Items)
         /\ \E m \in Messages : m.kind = "inventory" /\ m.items = network' /\ handlers' = Append(handlers, m)
         /\ registry'.devices = registry.devices /\ registry'.aliases = registry.aliases /\ UNCHANGED removals
         /\ hist'.given = hist.given /\ hist'.doubled = hist.doubled /\ hist'.overtaken = hist.overtaken
         /\ Left(hist) \subseteq Left(hist') /\ requests' = (requests \ {q}) \cup {[q EXCEPT !.answer = "ok"]}
         /\ \E d \in Left(hist') : q.name \in NamesOf(d, hist'.given)
<1>1. PICK i \in DOMAIN network :
        /\ q.name \in {network[i].name, Address(network[i].dev)}
        /\ network' = RemoveAt(network, i)
        /\ Publish(Inventory(RemoveAt(network, i)))
        /\ hist' = [hist EXCEPT !.out = @ \cup {network[i].dev}]
        /\ requests' = (requests \ {q}) \cup {[q EXCEPT !.answer = "ok"]}
  BY DEF RequestServed
<1>. DEFINE net == RemoveAt(network, i)
            d == network[i].dev
<1>2. /\ net \in Seq(Items) /\ DOMAIN net = 1..(Len(network) - 1) /\ DOMAIN network = 1..Len(network) /\ Len(network) \in Nat /\ i \in Nat
      /\ \A j \in DOMAIN net : net[j] = IF j < i THEN network[j] ELSE network[j + 1]
  BY RemovedAt DEF Typed
<1>3. network' = net /\ d \in Phys
  BY <1>1, ItemsAre DEF Typed
<1>. HIDE DEF net
<1>4. hist'.given = hist.given /\ hist'.out = hist.out \cup {d} /\ hist'.back = hist.back /\ hist'.doubled = hist.doubled /\ hist'.overtaken = hist.overtaken
  BY <1>1 DEF Typed, History
<1>5. PICK m \in Messages : m = Inventory(net) /\ m.kind = "inventory" /\ m.items = net /\ (~registry.entry) \in BOOLEAN
  BY <1>2, InventoriesAre
<1>6. handlers' = Append(handlers, [m EXCEPT !.first = ~registry.entry]) /\ Len(handlers) < MaxHandlers /\ registry' = [registry EXCEPT !.entry = TRUE]
  BY <1>1, <1>5 DEF Publish, net
<1>7. /\ \E p \in Messages : p.kind = m.kind /\ p.items = m.items /\ handlers' = Append(handlers, p)
      /\ registry'.devices = registry.devices /\ registry'.aliases = registry.aliases
  BY <1>5, <1>6, PublishIs
<1>8. PICK p \in Messages : p.kind = "inventory" /\ p.items = net /\ handlers' = Append(handlers, p)
  BY <1>5, <1>7
<1>9. ASSUME NEW j \in DOMAIN net  PROVE \E k \in DOMAIN network : k # i /\ net[j] = network[k]
  <2>2. CASE j < i
    BY <1>2, <2>2
  <2>3. CASE ~(j < i)
    <3>1. j + 1 \in DOMAIN network /\ j + 1 # i
      BY <1>2, <2>3
    <3>. QED  BY <1>2, <2>3, <3>1
  <2>. QED  BY <2>2, <2>3
<1>10. \A j, k \in DOMAIN net : net[j].dev = net[k].dev => j = k
  <2>1. ASSUME NEW j \in DOMAIN net, NEW k \in DOMAIN net, net[j].dev = net[k].dev  PROVE j = k
    <3>. DEFINE old(h) == IF h < i THEN h ELSE h + 1
    <3>1. old(j) \in DOMAIN network /\ old(k) \in DOMAIN network /\ network[old(j)] = net[j] /\ network[old(k)] = net[k]
      BY <1>2
    <3>2. old(j) = old(k)
      <4>. HIDE DEF old
      <4>. QED  BY <2>1, <3>1 DEF Net, Netted
    <3>. QED  BY <1>2, <3>2
  <2>. QED  BY <2>1
<1>11. \A j \in DOMAIN net : net[j].dev \notin hist'.out /\ net[j].name \in NamesOf(net[j].dev, hist.given)
  <2>1. ASSUME NEW k \in DOMAIN network, k # i  PROVE network[k].dev \notin hist'.out /\ network[k].name \in NamesOf(network[k].dev, hist.given)
    BY <1>4, <2>1 DEF Net, Netted
  <2>. QED  BY <1>9, <2>1
<1>12. Netted(net, handlers', hist.given, hist'.out)
  <2>1. handlers \in Seq(Messages)
    BY DEF Typed
  <2>2. \A h \in DOMAIN handlers : \A j \in DOMAIN handlers[h].items : handlers[h].items[j].name \in NamesOf(handlers[h].items[j].dev, hist.given)
    BY DEF Net, Netted
  <2>3. \A j \in DOMAIN p.items : p.items[j].name \in NamesOf(p.items[j].dev, hist.given)
    BY <1>8, <1>11
  <2>. QED  BY <1>8, <1>10, <1>11, <2>1, <2>2, <2>3, NettedPublished
<1>13. d \in Left(hist') /\ q.name \in NamesOf(d, hist'.given) /\ Left(hist) \subseteq Left(hist')
  BY <1>1, <1>4, StableKey DEF Left, Net, Netted
<1>14. UNCHANGED removals
  BY DEF RequestServed
<1>. QED  BY <1>1, <1>2, <1>3, <1>4, <1>7, <1>8, <1>12, <1>13, <1>14 DEF Net

LEMMA RequestAnswers ==
  ASSUME Typed, Net, Answers, NEW q \in requests, RequestServed(q) \/ RequestLost(q) \/ AnswerHandled(q)
  PROVE  Net' /\ Answers'
<1>1. q \in Requests /\ requests \subseteq Requests /\ q.by \in Removals
  BY DEF Typed, Requests
<1>2. CASE RequestServed(q) /\ UNCHANGED <<registry, network, handlers, hist>>
  <2>1. Net' /\ UNCHANGED removals /\ hist' = hist
    BY <1>2 DEF RequestServed, Net
  <2>2. requests' = (requests \ {q}) \cup {[q EXCEPT !.answer = "error"]} \/ requests' = (requests \ {q}) \cup {[q EXCEPT !.answer = "ok"]}
    BY <1>2 DEF RequestServed
  <2>3. requests' = (requests \ {q}) \cup {[q EXCEPT !.answer = "error"]}
    <3>1. ASSUME NEW i \in DOMAIN network, network' = RemoveAt(network, i)  PROVE FALSE
      <4>1. Len(RemoveAt(network, i)) = Len(network) - 1 /\ Len(network) \in Nat
        BY RemovedAt DEF Typed
      <4>2. network = RemoveAt(network, i)
        BY <1>2, <3>1
      <4>. QED  BY <4>1, <4>2
    <3>. QED  BY <1>2, <3>1 DEF RequestServed
  <2>4. [q EXCEPT !.answer = "error"].by = q.by /\ [q EXCEPT !.answer = "error"].name = q.name /\ [q EXCEPT !.answer = "error"].answer = "error"
    BY <1>1 DEF Requests
  <2>5. Answered(requests', removals, hist.given, Left(hist))
    BY <2>3, <2>4 DEF Answers, Answered
  <2>. QED  BY <2>1, <2>5 DEF Answers, Left
<1>3. CASE RequestServed(q) /\ ~UNCHANGED <<registry, network, handlers, hist>>
  <2>1. /\ Net' /\ UNCHANGED removals /\ hist'.given = hist.given /\ Left(hist) \subseteq Left(hist')
        /\ requests' = (requests \ {q}) \cup {[q EXCEPT !.answer = "ok"]}
        /\ \E d \in Left(hist') : q.name \in NamesOf(d, hist'.given)
    BY <1>3, ServedIs
  <2>2. [q EXCEPT !.answer = "ok"].by = q.by /\ [q EXCEPT !.answer = "ok"].name = q.name
    BY <1>1 DEF Requests
  <2>3. Answered(requests, removals, hist'.given, Left(hist'))
    BY <2>1, MoreAsked DEF Answers
  <2>4. Answered(requests', removals, hist'.given, Left(hist'))
    BY <2>1, <2>2, <2>3 DEF Answered
  <2>. QED  BY <2>1, <2>4 DEF Answers
<1>4. CASE RequestLost(q)
  <2>1. UNCHANGED <<handlers, network, removals, hist>> /\ requests' \subseteq requests
    BY <1>4 DEF RequestLost, bridge, zigbee
  <2>. QED  BY <2>1 DEF Net, Answers, Answered, Left
<1>5. CASE AnswerHandled(q)
  <2>1. UNCHANGED <<handlers, network, hist>> /\ requests' \subseteq requests
    BY <1>5 DEF AnswerHandled, bridge, zigbee
  <2>2. CASE removals' = removals
    BY <2>1, <2>2 DEF Net, Answers, Answered, Left
  <2>3. ASSUME NEW t \in Claimants(q), NEW p \in {"answered", "failed"}, removals' = [removals EXCEPT ![t].phase = p]
        PROVE  Answers'
    <3>1. t \in Removals /\ removals[t].phase = "asked"
      <4>1. t = q.by \/ t \in {u \in Removals : removals[u].phase = "asked"}
        BY DEF Claimants
      <4>. QED  BY <1>1, <4>1 DEF Claimants
    <3>2. \A u \in Removals : /\ removals'[u].phase = "idle" <=> removals[u].phase = "idle"
                              /\ removals'[u].key = removals[u].key /\ removals'[u].name = removals[u].name
      BY <2>3, <3>1 DEF Typed, RemovalStates
    <3>3. Answered(requests, removals', hist.given, Left(hist))
      <4>1. requests \in SUBSET Requests
        BY <1>1
      <4>. QED  BY <3>2, <4>1, MovedOn DEF Answers
    <3>. QED  BY <2>1, <3>3 DEF Answers, Answered, Left
  <2>4. removals' = removals \/ \E t \in Claimants(q) : \E p \in {"answered", "failed"} : removals' = [removals EXCEPT ![t].phase = p]
    BY <1>5 DEF AnswerHandled
  <2>5. Answers'
    BY <2>2, <2>3, <2>4
  <2>. QED  BY <2>1, <2>5 DEF Net
<1>. QED  BY <1>2, <1>3, <1>4, <1>5

LEMMA RemovalAnswers ==
  ASSUME Typed, Net, Answers, NEW t \in Removals, (\E k \in Keys : RemovalAsked(t, k)) \/ RemovalTimesOut(t) \/ RemovalDeletes(t)
  PROVE  Net' /\ Answers'
<1>1. UNCHANGED <<handlers, network, hist>>
  BY DEF RemovalAsked, RemovalTimesOut, RemovalDeletes, bridge, zigbee
<1>2. CASE RemovalTimesOut(t) \/ RemovalDeletes(t)
  <2>1. PICK p \in {"failed", "done"} : removals' = [removals EXCEPT ![t].phase = p]
    BY <1>2 DEF RemovalTimesOut, RemovalDeletes
  <2>2. removals[t].phase # "idle" /\ requests' = requests
    BY <1>2 DEF RemovalTimesOut, RemovalDeletes
  <2>3. \A u \in Removals : /\ removals'[u].phase = "idle" <=> removals[u].phase = "idle"
                            /\ removals'[u].key = removals[u].key /\ removals'[u].name = removals[u].name
    BY <2>1, <2>2 DEF Typed, RemovalStates
  <2>4. Answered(requests, removals', hist.given, Left(hist))
    <3>1. requests \in SUBSET Requests
      BY DEF Typed
    <3>. QED  BY <2>3, <3>1, MovedOn DEF Answers
  <2>. QED  BY <1>1, <2>2, <2>4 DEF Net, Answers, Left
<1>3. ASSUME NEW k \in Keys, RemovalAsked(t, k)  PROVE Answers'
  <2>1. PICK m, n : /\ removals' = [removals EXCEPT ![t] = [phase |-> "asked", key |-> m, name |-> n]]
                    /\ requests' = requests \cup {[by |-> t, name |-> n, answer |-> "open"]}
    BY <1>3 DEF RemovalAsked
  <2>2. \A q \in requests : q.by # t /\ q.by \in Removals
    BY <1>3 DEF RemovalAsked, Answers, Answered, Typed, Requests
  <2>3. \A u \in Removals : removals'[u] = IF u = t THEN [phase |-> "asked", key |-> m, name |-> n] ELSE removals[u]
    BY <2>1 DEF Typed
  <2>4. Answered(requests', removals', hist.given, Left(hist))
    BY <2>1, <2>2, <2>3 DEF Answers, Answered
  <2>. QED  BY <1>1, <2>4 DEF Answers, Left
<1>. QED  BY <1>1, <1>2, <1>3 DEF Net

LEMMA NextAnswers ==
  ASSUME Typed, Net, Answers, [ZigbeeNext]_zigbeeVars
  PROVE  Net' /\ Answers'
<1>1. CASE UNCHANGED <<handlers, network, removals, requests, hist>>
  BY <1>1 DEF Net, Answers, Left
<1>2. ASSUME UNCHANGED <<removals, requests>>, hist.given \subseteq hist'.given, Left(hist) \subseteq Left(hist')  PROVE Answers'
  <2>1. Answered(requests, removals, hist'.given, Left(hist'))
    BY <1>2, MoreAsked DEF Answers
  <2>. QED  BY <1>2, <2>1 DEF Answers
<1>3. CASE UNCHANGED zigbeeVars
  BY <1>1, <1>3 DEF zigbeeVars, bridge, removing, zigbee
<1>4. CASE Handle
  BY <1>2, <1>4, HandleNet DEF Handle, Left
<1>5. CASE StartPairing \/ StopPairing \/ SessionStarts \/ SessionStops \/ SessionExpires
  BY <1>1, <1>5 DEF StartPairing, StopPairing, SessionStarts, SessionStops, SessionExpires, removing, zigbee
<1>6. CASE \E t \in Removals : (\E k \in Keys : RemovalAsked(t, k)) \/ RemovalTimesOut(t) \/ RemovalDeletes(t)
  BY <1>6, RemovalAnswers
<1>7. CASE \E q \in requests : RequestServed(q) \/ RequestLost(q) \/ AnswerHandled(q)
  BY <1>7, RequestAnswers
<1>8. CASE \/ \E k \in Keys, a \in Area : DeviceSetUp(k, a)
           \/ \E k \in Keys, a \in Area \cup {None} : DeviceMoved(k, a)
           \/ \E a \in Area : AreaRemoved(a)
  BY <1>1, <1>8 DEF DeviceSetUp, DeviceMoved, AreaRemoved, bridge, removing, zigbee
<1>9. CASE \E d \in Phys : Joins(d)
  BY <1>2, <1>9, JoinsNet
<1>10. CASE \E i \in DOMAIN network : Interviewed(i) \/ Reports(i) \/ \E n \in Name : Renamed(i, Friendly(n))
  <2>1. ASSUME NEW i \in DOMAIN network, Interviewed(i) \/ Reports(i)  PROVE Net' /\ Answers'
    BY <1>2, <2>1, InterviewedNet, ReportsNet
  <2>2. ASSUME NEW i \in DOMAIN network, NEW n \in Name, Renamed(i, Friendly(n))  PROVE Net' /\ Answers'
    BY <1>2, <2>2, RenamedNet
  <2>. QED  BY <1>10, <2>1, <2>2
<1>11. CASE PermitEnds
  BY <1>1, <1>11 DEF PermitEnds, bridge, removing
<1>12. CASE HubRestarts
  <2>1. Net' /\ UNCHANGED <<network, requests, hist>>
    BY <1>12, RestartNet
  <2>2. \A u \in Removals : /\ removals'[u].phase = "idle" <=> removals[u].phase = "idle"
                            /\ removals[u].phase # "idle" => removals'[u].key = removals[u].key /\ removals'[u].name = removals[u].name
    BY <1>12 DEF HubRestarts, NoRemoval, Typed, RemovalStates
  <2>3. Answered(requests, removals', hist.given, Left(hist))
    <3>1. requests \in SUBSET Requests
      BY DEF Typed
    <3>. QED  BY <2>2, <3>1, MovedOn DEF Answers
  <2>. QED  BY <2>1, <2>3 DEF Answers
<1>. QED  BY <1>3, <1>4, <1>5, <1>6, <1>7, <1>8, <1>9, <1>10, <1>11, <1>12 DEF ZigbeeNext

LEMMA NoRecord ==
  ASSUME Typed, NEW G \in Givings, Tidy(registry.devices, registry.aliases, G), NEW d \in Phys, ~HasRecord(d)
  PROVE  DOMAIN registry.devices \cap KeysOf(d, G) = {}
<1>1. ASSUME NEW k \in DOMAIN registry.devices \cap KeysOf(d, G)  PROVE FALSE
  <2>1. Is(k, registry.devices[k], d, G)
    BY DEF Tidy, Single
  <2>. QED  BY <2>1 DEF Is, HasRecord
<1>. QED  BY <1>1

LEMMA HandleItemSettles ==
  ASSUME Typed, Net, Clear => Settled, Clear', NEW i \in DOMAIN handlers, HandleItem(i)
  PROVE  Clear /\ Settled' /\ Keeps(registry.devices, registry'.devices)
<1>. DEFINE n == NextItem(i)
            item == handlers[i].items[n]
            G == hist.given
<1>1. /\ handlers[i] \in Messages /\ handlers[i].kind = "inventory" /\ handlers[i].items \in Seq(Items)
      /\ n \in DOMAIN handlers[i].items /\ item \in Items /\ item.dev \in Phys
      /\ \A j \in 1..n-1 : Synced(registry, handlers[i].items[j]) = {}
  <2>1. handlers[i] \in Messages /\ handlers[i].items \in Seq(Items) /\ n \in DOMAIN handlers[i].items
        /\ \A j \in 1..n-1 : Synced(registry, handlers[i].items[j]) = {}
    BY NextItemIs DEF HandleItem
  <2>. HIDE DEF n
  <2>2. item \in Items /\ item.dev \in Phys
    BY <2>1, ItemsAre
  <2>. QED  BY <2>1, <2>2 DEF HandleItem
<1>2. /\ registry' \in Synced(registry, item) /\ UNCHANGED <<network, removals>>
      /\ hist' = [hist EXCEPT !.overtaken = @ \/ Overtaking(i), !.doubled = @ \/ (Owners(registry, item) = {} /\ HasRecord(item.dev))]
  BY DEF HandleItem, removing, zigbee
<1>3. Clear /\ ~Overtaking(i) /\ (Owners(registry, item) = {} => ~HasRecord(item.dev))
  <2>. DEFINE o == Overtaking(i)
              b == Owners(registry, item) = {} /\ HasRecord(item.dev)
  <2>1. hist' = [hist EXCEPT !.overtaken = hist.overtaken \/ o, !.doubled = hist.doubled \/ b]
    BY <1>2 DEF Typed, History
  <2>. HIDE DEF o, b
  <2>2. hist'.given = hist.given /\ hist'.overtaken = (hist.overtaken \/ o) /\ hist'.doubled = (hist.doubled \/ b)
    BY <2>1 DEF Typed, History
  <2>. QED  BY <2>2 DEF Clear, o, b
<1>4. /\ G \in Givings /\ Distinct(G) /\ registry \in Registry /\ Tidy(registry.devices, registry.aliases, G)
      /\ network \in Seq(Items) /\ handlers \in Seq(Messages)
      /\ Reached(network, handlers, registry.devices) /\ Latest(network, handlers) /\ Asked(removals, hist.given, Left(hist))
  BY <1>3 DEF Clear, Settled, Typed, History
<1>5. item.name \in NamesOf(item.dev, G)
  BY <1>1 DEF Net, Netted
<1>6. Owners(registry, item) = {} => DOMAIN registry.devices \cap KeysOf(item.dev, G) = {}
  <2>. HIDE DEF item, G
  <2>. QED  BY <1>1, <1>3, <1>4, NoRecord
<1>7. ItemDone(registry, registry', item, G)
  <2>. HIDE DEF item, G
  <2>1. PICK s \in Synced(registry, item) : s = registry'
    BY <1>2
  <2>2. ItemDone(registry, s, item, G)
    BY <1>1, <1>4, <1>5, <1>6, SyncedTidy
  <2>. QED  BY <2>1, <2>2
<1>8. \A j \in 1..n-1 : Stable(handlers[i].items[j].dev) \notin DOMAIN registry.devices
  <2>1. ASSUME NEW j \in 1..n-1  PROVE handlers[i].items[j] \in Items /\ handlers[i].items[j].name \in NamesOf(handlers[i].items[j].dev, G)
    <3>1. j \in DOMAIN handlers[i].items
      BY <1>1
    <3>. QED  BY <1>1, <3>1, ItemsAre DEF Net, Netted
  <2>. HIDE DEF n, G
  <2>. QED  BY <1>1, <1>4, <2>1, NotSkipped
<1>9. /\ DOMAIN handlers' = DOMAIN handlers /\ handlers' \in Seq(Messages)
      /\ handlers'[i].kind = "inventory" /\ handlers'[i].items = SubSeq(handlers[i].items, n + 1, Len(handlers[i].items))
      /\ \A h \in DOMAIN handlers : h # i => handlers'[h] = handlers[h]
  BY ItemsLeft
<1>10. Reached(network, handlers', registry'.devices) /\ Latest(network, handlers')
  <2>1. \A j \in 1..i-1 : handlers[j].kind # "inventory"
    BY <1>3 DEF Overtaking
  <2>2. \A k, l \in DOMAIN network : network[k].dev = network[l].dev => k = l
    BY DEF Net, Netted
  <2>3. /\ Steady(registry.devices, registry'.devices, Phys \ {item.dev}) /\ item.name \in registry'.devices[Stable(item.dev)].legacy
        /\ Stable(item.dev) \in DOMAIN registry.devices => registry.devices[Stable(item.dev)].legacy \subseteq registry'.devices[Stable(item.dev)].legacy
    BY <1>7 DEF ItemDone
  <2>. HIDE DEF n
  <2>. QED  BY <1>1, <1>4, <1>8, <1>9, <2>1, <2>2, <2>3, ItemHandled
<1>11. hist'.given = G /\ hist'.out = hist.out /\ hist'.back = hist.back
  BY HandleNet
<1>12. Asked(removals', hist'.given, Left(hist'))
  BY <1>2, <1>4, <1>11 DEF Left
<1>. QED  BY <1>2, <1>3, <1>7, <1>10, <1>11, <1>12 DEF Settled, ItemDone

LEMMA HandleEndSettles ==
  ASSUME Typed, Net, Clear => Settled, Clear', NEW i \in DOMAIN handlers, HandleInventoryEnd(i)
  PROVE  Clear /\ Settled' /\ registry' = registry
<1>1. /\ UNCHANGED <<registry, network, removals>> /\ handlers' = RemoveAt(handlers, i) /\ handlers[i].kind = "inventory" /\ NextItem(i) = 0
      /\ hist' = [hist EXCEPT !.overtaken = @ \/ Overtaking(i)]
  BY DEF HandleInventoryEnd, Ended, removing
<1>2. Clear /\ ~Overtaking(i)
  <2>. DEFINE o == Overtaking(i)
  <2>1. hist' = [hist EXCEPT !.overtaken = hist.overtaken \/ o]
    BY <1>1 DEF Typed, History
  <2>. HIDE DEF o
  <2>2. hist'.given = hist.given /\ hist'.overtaken = (hist.overtaken \/ o) /\ hist'.doubled = hist.doubled
    BY <2>1 DEF Typed, History
  <2>. QED  BY <2>2 DEF Clear, o
<1>3. /\ hist.given \in Givings /\ Distinct(hist.given) /\ registry \in Registry /\ Tidy(registry.devices, registry.aliases, hist.given)
      /\ network \in Seq(Items) /\ handlers \in Seq(Messages)
      /\ Reached(network, handlers, registry.devices) /\ Latest(network, handlers) /\ Asked(removals, hist.given, Left(hist))
  BY <1>2 DEF Clear, Settled, Typed, History
<1>4. ASSUME NEW j \in DOMAIN handlers[i].items  PROVE Stable(handlers[i].items[j].dev) \notin DOMAIN registry.devices
  <2>1. handlers[i].items \in Seq(Items) /\ Synced(registry, handlers[i].items[j]) = {}
    BY <1>1, NextItemIs
  <2>2. handlers[i].items[j] \in Items /\ handlers[i].items[j].name \in NamesOf(handlers[i].items[j].dev, hist.given)
    BY <2>1, ItemsAre DEF Net, Netted
  <2>. QED  BY <1>3, <2>1, <2>2, NotSkipped
<1>5. Reached(network, handlers', registry'.devices) /\ Latest(network, handlers')
  <2>1. \A j \in 1..i-1 : handlers[j].kind # "inventory"
    BY <1>2 DEF Overtaking
  <2>2. \A k \in DOMAIN network : Stable(network[k].dev) \in DOMAIN registry.devices => ~Tells(handlers[i], network[k])
    BY <1>4 DEF Tells, Same
  <2>3. Steady(registry.devices, registry.devices, Phys)
    BY DEF Steady
  <2>. QED  BY <1>1, <1>3, <2>1, <2>2, <2>3, MessageEnded
<1>6. hist'.given = hist.given /\ hist'.out = hist.out /\ hist'.back = hist.back
  BY HandleNet
<1>7. Asked(removals', hist'.given, Left(hist'))
  BY <1>1, <1>3, <1>6 DEF Left
<1>. QED  BY <1>1, <1>2, <1>3, <1>5, <1>6, <1>7 DEF Settled

LEMMA HandleReportSettles ==
  ASSUME Typed, Net, Clear => Settled, Clear', NEW i \in DOMAIN handlers, HandleReport(i)
  PROVE  Clear /\ Settled' /\ Keeps(registry.devices, registry'.devices)
<1>. DEFINE item == handlers[i].items[1]
            patch == [Nothing EXCEPT !.from = {item.dev}]
            G == hist.given
<1>1. item \in Items /\ item.dev \in Phys /\ item.name \in Names /\ item.name \in NamesOf(item.dev, G) /\ handlers[i].kind = "report"
  <2>1. handlers[i] \in Messages /\ handlers[i].kind = "report"
    BY DEF Typed, HandleReport
  <2>2. handlers[i].items \in Seq(Items) /\ Len(handlers[i].items) = 1
    BY <2>1 DEF Messages
  <2>3. 1 \in DOMAIN handlers[i].items
    BY <2>2
  <2>. QED  BY <2>1, <2>2, <2>3, ItemsAre DEF Net, Netted
<1>2. /\ UNCHANGED <<network, removals>> /\ handlers' = RemoveAt(handlers, i)
      /\ \/ /\ Lookup(registry, item.name) = {} /\ registry' = Upsert(registry, item.name, patch)
            /\ hist' = [hist EXCEPT !.doubled = @ \/ HasRecord(item.dev)]
         \/ registry' = registry /\ hist' = hist
         \/ hist' = hist /\ \E k \in Lookup(registry, item.name) : registry' = Upsert(registry, k, patch)
  BY DEF HandleReport, Ended, removing, zigbee
<1>3. Clear /\ (hist' = [hist EXCEPT !.doubled = @ \/ HasRecord(item.dev)] => ~HasRecord(item.dev))
  <2>. DEFINE b == HasRecord(item.dev)
  <2>1. hist' = hist \/ hist' = [hist EXCEPT !.doubled = hist.doubled \/ b]
    BY <1>2 DEF Typed, History
  <2>. HIDE DEF b
  <2>2. hist' = [hist EXCEPT !.doubled = hist.doubled \/ b] =>
          hist'.given = hist.given /\ hist'.doubled = (hist.doubled \/ b) /\ hist'.overtaken = hist.overtaken
    BY DEF Typed, History
  <2>. QED  BY <2>1, <2>2 DEF Clear, b
<1>4. /\ G \in Givings /\ Distinct(G) /\ registry \in Registry /\ Tidy(registry.devices, registry.aliases, G)
      /\ network \in Seq(Items) /\ handlers \in Seq(Messages)
      /\ Reached(network, handlers, registry.devices) /\ Latest(network, handlers) /\ Asked(removals, hist.given, Left(hist))
  BY <1>3 DEF Clear, Settled, Typed, History
<1>5. patch \in Patches /\ patch.legacy = {} /\ patch.friendly = None /\ patch.ieee = None /\ patch.from = {item.dev} /\ patch = [Nothing EXCEPT !.from = {item.dev}]
  BY <1>1, PatchesAre DEF Nothing
<1>6. /\ Tidy(registry'.devices, registry'.aliases, G)
      /\ Keeps(registry.devices, registry'.devices) /\ Steady(registry.devices, registry'.devices, Phys)
  <2>. HIDE DEF item, G
  <2>1. CASE registry' = registry
    BY <1>4, <2>1 DEF Keeps, Steady
  <2>2. CASE hist' = [hist EXCEPT !.doubled = @ \/ HasRecord(item.dev)] /\ registry' = Upsert(registry, item.name, patch)
    <3>1. DOMAIN registry.devices \cap KeysOf(item.dev, G) = {}
      BY <1>1, <1>3, <1>4, <2>2, NoRecord
    <3>2. PICK p \in Patches : p = patch /\ p = [Nothing EXCEPT !.from = {item.dev}]
      BY <1>5
    <3>. HIDE DEF patch
    <3>. QED  BY <1>1, <1>4, <2>2, <3>1, <3>2, NewReport
  <2>3. ASSUME NEW k \in Lookup(registry, item.name), registry' = Upsert(registry, k, patch)
        PROVE  /\ Tidy(registry'.devices, registry'.aliases, G)
               /\ Keeps(registry.devices, registry'.devices) /\ Steady(registry.devices, registry'.devices, Phys)
    <3>1. k \in DOMAIN registry.devices \cap KeysOf(item.dev, G)
      BY <1>1, <1>4, StableKey, Found
    <3>. HIDE DEF patch
    <3>. QED  BY <1>1, <1>4, <1>5, <2>3, <3>1, LightUpsert
  <2>. HIDE DEF patch
  <2>. QED  BY <1>2, <2>1, <2>2, <2>3
<1>7. Reached(network, handlers', registry'.devices) /\ Latest(network, handlers')
  <2>1. \A k \in DOMAIN network : ~Tells(handlers[i], network[k])
    BY <1>1 DEF Tells
  <2>. QED  BY <1>1, <1>2, <1>4, <1>6, <2>1, MessageEnded
<1>8. hist'.given = G /\ hist'.out = hist.out /\ hist'.back = hist.back
  BY HandleNet
<1>9. Asked(removals', hist'.given, Left(hist'))
  BY <1>2, <1>4, <1>8 DEF Left
<1>. QED  BY <1>2, <1>3, <1>6, <1>7, <1>8, <1>9 DEF Settled

\* What stays of a settled state where the devices keep their names and no message arrives.
LEMMA UserSettles ==
  ASSUME Typed, Clear => Settled, Clear',
         \/ \E k \in Keys, a \in Area : DeviceSetUp(k, a)
         \/ \E k \in Keys, a \in Area \cup {None} : DeviceMoved(k, a)
         \/ \E a \in Area : AreaRemoved(a)
  PROVE  Settled'
<1>1. UNCHANGED <<handlers, removals, network, hist>>
  BY DEF DeviceSetUp, DeviceMoved, AreaRemoved, bridge, removing, zigbee
<1>2. /\ hist.given \in Givings /\ Distinct(hist.given) /\ registry \in Registry /\ network \in Seq(Items) /\ Settled
  BY <1>1 DEF Clear, Typed, History
<1>. DEFINE Fine == Tidy(registry'.devices, registry'.aliases, hist.given) /\ Steady(registry.devices, registry'.devices, Phys)
<1>3. ASSUME NEW k \in Keys, NEW a \in Area, DeviceSetUp(k, a)  PROVE Fine
  <2>1. registry' = SetUp(registry, k, a) /\ Resolve(registry, k) \in DOMAIN registry.devices
    BY <1>3 DEF DeviceSetUp
  <2>. QED  BY <1>2, <2>1, SetUpTidy DEF Settled
<1>4. ASSUME NEW k \in Keys, NEW a \in Area \cup {None}, DeviceMoved(k, a)  PROVE Fine
  <2>1. registry' = Moved(registry, k, a) /\ Resolve(registry, k) \in DOMAIN registry.devices
    BY <1>4 DEF DeviceMoved
  <2>. QED  BY <1>2, <2>1, SetUpTidy DEF Settled
<1>5. ASSUME NEW a \in Area, AreaRemoved(a)  PROVE Fine
  <2>1. registry' = WithoutArea(registry, a)
    BY <1>5 DEF AreaRemoved
  <2>. QED  BY <1>2, <2>1, WithoutAreaTidy DEF Settled
<1>6. Fine
  BY <1>3, <1>4, <1>5
<1>7. Reached(network, handlers, registry'.devices)
  BY <1>2, <1>6, StillReached DEF Settled
<1>. QED  BY <1>1, <1>2, <1>6, <1>7 DEF Settled, Left

LEMMA AskedSettles ==
  ASSUME Typed, Clear => Settled, Clear', NEW t \in Removals, NEW k \in Keys, RemovalAsked(t, k)
  PROVE  Settled' /\ registry' = registry
<1>1. UNCHANGED <<registry, handlers, network, hist>>
  BY DEF RemovalAsked, bridge, zigbee
<1>2. /\ hist.given \in Givings /\ Distinct(hist.given) /\ registry \in Registry /\ Settled
      /\ Tidy(registry.devices, registry.aliases, hist.given) /\ registry.devices \in Maps(Record) /\ registry.aliases \in Maps(Keys)
  BY <1>1, RegistryIs DEF Clear, Typed, History, Settled
<1>. DEFINE nameOf(l) == Or(registry.devices[l].friendly, registry.devices[l].ieee)
<1>3. PICK m \in Lookup(registry, k) : \E l \in Lookup(registry, m) :
        removals' = [removals EXCEPT ![t] = [phase |-> "asked", key |-> m, name |-> nameOf(l)]]
  BY DEF RemovalAsked
<1>4. m \in DOMAIN registry.devices
  BY <1>2, LookupIs
<1>5. PICK d \in Phys : m \in KeysOf(d, hist.given) /\ Is(m, registry.devices[m], d, hist.given)
  BY <1>2, <1>4, Owned
<1>6. Lookup(registry, m) = {m}
  BY <1>2, <1>4, <1>5, Found
<1>7. removals' = [removals EXCEPT ![t] = [phase |-> "asked", key |-> m, name |-> nameOf(m)]]
  BY <1>3, <1>6
<1>8. nameOf(m) \in NamesOf(d, hist.given)
  <2>1. CASE registry.devices[m].friendly \in NamesOf(d, hist.given)
    <3>1. registry.devices[m].friendly # None
      BY <1>2, <2>1, NamesAre DEF KeysOf
    <3>. QED  BY <2>1, <3>1 DEF Or
  <2>2. CASE registry.devices[m].friendly = None /\ registry.devices[m].ieee \in NamesOf(d, hist.given)
    BY <2>2 DEF Or
  <2>. QED  BY <1>5, <2>1, <2>2 DEF Is
<1>. HIDE DEF nameOf
<1>9. \A u \in Removals : removals'[u] = IF u = t THEN [phase |-> "asked", key |-> m, name |-> nameOf(m)] ELSE removals[u]
  BY <1>7 DEF Typed
<1>10. Asked(removals', hist.given, Left(hist))
  BY <1>2, <1>5, <1>8, <1>9 DEF Asked, Settled
<1>. QED  BY <1>1, <1>2, <1>10 DEF Settled, Left

LEMMA RemovalSettles ==
  ASSUME Typed, Clear => Settled, Clear', NEW t \in Removals, RemovalTimesOut(t) \/ RemovalDeletes(t)
  PROVE  Settled'
<1>1. UNCHANGED <<handlers, network, hist>>
  BY DEF RemovalTimesOut, RemovalDeletes, bridge, zigbee
<1>2. /\ hist.given \in Givings /\ Distinct(hist.given) /\ registry \in Registry /\ network \in Seq(Items) /\ Settled
  BY <1>1 DEF Clear, Typed, History
<1>3. PICK p \in {"failed", "done"} : removals' = [removals EXCEPT ![t].phase = p]
  BY DEF RemovalTimesOut, RemovalDeletes
<1>4. removals[t].phase # "idle"
  BY DEF RemovalTimesOut, RemovalDeletes
<1>5. \A u \in Removals : /\ removals'[u].phase = "idle" <=> removals[u].phase = "idle"
                          /\ removals'[u].key = removals[u].key /\ removals'[u].name = removals[u].name
                          /\ removals'[u].phase = "answered" => removals[u].phase = "answered"
  BY <1>3, <1>4 DEF Typed, RemovalStates
<1>6. Asked(removals', hist.given, Left(hist))
  BY <1>2, <1>5, MovedOn DEF Settled
<1>7. Tidy(registry'.devices, registry'.aliases, hist.given) /\ Steady(registry.devices, registry'.devices, Phys)
  <2>1. CASE RemovalTimesOut(t)
    BY <1>2, <2>1 DEF RemovalTimesOut, Settled, Steady
  <2>2. CASE RemovalDeletes(t)
    <3>1. registry' = Removed(registry, removals[t].key)
      BY <2>2 DEF RemovalDeletes
    <3>2. PICK d \in Phys : removals[t].key \in KeysOf(d, hist.given)
      BY <1>2, <1>4 DEF Settled, Asked
    <3>. QED  BY <1>2, <3>1, <3>2, RemovedTidy DEF Settled
  <2>. QED  BY <2>1, <2>2
<1>8. Reached(network, handlers, registry'.devices)
  BY <1>2, <1>7, StillReached DEF Settled
<1>. QED  BY <1>1, <1>2, <1>6, <1>7, <1>8 DEF Settled, Left

\* Only the record of a device that is not joined, or has joined again, goes.
LEMMA DeletesGone ==
  ASSUME Typed, Net, Clear => Settled, Clear', NEW t \in Removals, RemovalDeletes(t),
         NEW k \in DOMAIN registry.devices
  PROVE  \/ k \in DOMAIN registry'.devices /\ registry'.devices[k] = registry.devices[k]
         \/ removals' # removals /\ k \notin {Stable(d) : d \in Joined \ hist.back}
<1>1. /\ hist' = hist /\ removals[t].phase = "answered" /\ removals' = [removals EXCEPT ![t].phase = "done"]
      /\ registry' = Removed(registry, removals[t].key)
  BY DEF RemovalDeletes
<1>2. /\ hist.given \in Givings /\ Distinct(hist.given) /\ registry \in Registry /\ Settled
  BY <1>1 DEF Clear, Typed, History
<1>3. removals' # removals
  <2>1. removals'[t].phase = "done"
    BY <1>1 DEF Typed, RemovalStates
  <2>. QED  BY <1>1, <2>1
<1>4. PICK d \in Phys : removals[t].key \in KeysOf(d, hist.given) /\ d \in Left(hist)
  BY <1>1, <1>2 DEF Settled, Asked
<1>5. ASSUME k \in KeysOf(d, hist.given), NEW e \in Joined \ hist.back, k = Stable(e)  PROVE FALSE
  <2>1. PICK i \in DOMAIN network : network[i].dev = e
    BY DEF Joined
  <2>2. e \in Phys /\ e \notin hist.out
    BY <2>1, ItemsAre DEF Typed, Net, Netted
  <2>3. e = d
    BY <1>2, <1>5, <2>2, OneOwner, StableKey
  <2>. QED  BY <1>4, <2>2, <2>3 DEF Left
<1>6. k \in KeysOf(d, hist.given) \/ (k \in DOMAIN registry'.devices /\ registry'.devices[k] = registry.devices[k])
  BY <1>1, <1>2, <1>4, RemovedTidy DEF Settled
<1>. QED  BY <1>3, <1>5, <1>6

LEMMA RequestSettles ==
  ASSUME Typed, Net, Answers, Clear => Settled, Clear', NEW q \in requests, RequestServed(q) \/ RequestLost(q) \/ AnswerHandled(q)
  PROVE  Settled' /\ registry'.devices = registry.devices
<1>1. CASE RequestServed(q) /\ ~UNCHANGED <<registry, network, handlers, hist>>
  <2>1. /\ network' \in Seq(Items) /\ UNCHANGED removals /\ Left(hist) \subseteq Left(hist')
        /\ registry'.devices = registry.devices /\ registry'.aliases = registry.aliases
        /\ hist'.given = hist.given /\ hist'.doubled = hist.doubled /\ hist'.overtaken = hist.overtaken
    BY <1>1, ServedIs
  <2>2. PICK m \in Messages : m.kind = "inventory" /\ m.items = network' /\ handlers' = Append(handlers, m)
    BY <1>1, ServedIs
  <2>3. Settled
    BY <2>1 DEF Clear
  <2>4. Reached(network', handlers', registry'.devices) /\ Latest(network', handlers')
    BY <2>1, <2>2, InventoryPublished DEF Typed
  <2>5. Asked(removals', hist'.given, Left(hist'))
    BY <2>1, <2>3, MoreAsked DEF Settled
  <2>. QED  BY <2>1, <2>3, <2>4, <2>5 DEF Settled
<1>2. CASE (RequestServed(q) /\ UNCHANGED <<registry, network, handlers, hist>>) \/ RequestLost(q)
  <2>1. UNCHANGED <<registry, network, handlers, hist, removals>>
    BY <1>2 DEF RequestServed, RequestLost, bridge, zigbee
  <2>. QED  BY <2>1 DEF Settled, Clear, Left
<1>3. CASE AnswerHandled(q)
  <2>1. UNCHANGED <<registry, network, handlers, hist>>
    BY <1>3 DEF AnswerHandled, bridge, zigbee
  <2>2. Settled /\ hist.given \in Givings /\ Distinct(hist.given)
    BY <2>1 DEF Clear, Typed, History
  <2>3. CASE removals' = removals
    BY <2>1, <2>2, <2>3 DEF Settled, Left
  <2>4. ASSUME NEW t \in Claimants(q), removals' = [removals EXCEPT ![t].phase = IF q.answer = "ok" THEN "answered" ELSE "failed"]
        PROVE  Asked(removals', hist.given, Left(hist))
    <3>1. t \in Removals /\ removals[t].phase = "asked" /\ removals[t].name = q.name
      <4>1. q.by \in Removals /\ q.name = removals[q.by].name
        BY DEF Typed, Requests, Answers, Answered
      <4>. QED  BY <4>1 DEF Claimants
    <3>2. PICK d \in Phys : removals[t].key \in KeysOf(d, hist.given) /\ removals[t].name \in NamesOf(d, hist.given)
      BY <2>2, <3>1 DEF Settled, Asked
    <3>3. q.answer = "ok" => d \in Left(hist)
      <4>1. ASSUME q.answer = "ok"  PROVE d \in Left(hist)
        <5>1. PICK e \in Left(hist) : q.name \in NamesOf(e, hist.given)
          BY <4>1 DEF Answers, Answered
        <5>2. e \in Phys
          BY DEF Left, Typed, History
        <5>3. e = d
          BY <2>2, <3>1, <3>2, <5>1, <5>2, OneOwner, StableKey
        <5>. QED  BY <5>3
      <4>. QED  BY <4>1
    <3>4. /\ removals'[t].phase = IF q.answer = "ok" THEN "answered" ELSE "failed"
          /\ removals'[t].key = removals[t].key /\ removals'[t].name = removals[t].name
          /\ \A u \in Removals : u # t => removals'[u] = removals[u]
      BY <2>4, <3>1 DEF Typed, RemovalStates
    <3>5. ASSUME NEW u \in Removals, removals'[u].phase # "idle"
          PROVE  \E e \in Phys : /\ removals'[u].key \in KeysOf(e, hist.given) /\ removals'[u].name \in NamesOf(e, hist.given)
                                 /\ removals'[u].phase = "answered" => e \in Left(hist)
      <4>1. CASE u = t
        <5>1. removals'[u].phase = "answered" => d \in Left(hist)
          BY <3>3, <3>4, <4>1
        <5>2. removals'[u].key \in KeysOf(d, hist.given) /\ removals'[u].name \in NamesOf(d, hist.given)
          BY <3>2, <3>4, <4>1
        <5>. QED  BY <5>1, <5>2
      <4>2. CASE u # t
        BY <2>2, <3>4, <3>5, <4>2 DEF Settled, Asked
      <4>. QED  BY <4>1, <4>2
    <3>. QED  BY <3>5 DEF Asked
  <2>5. CASE \E t \in Claimants(q) : removals' = [removals EXCEPT ![t].phase = IF q.answer = "ok" THEN "answered" ELSE "failed"]
    BY <2>1, <2>2, <2>4, <2>5 DEF Settled, Left
  <2>6. \/ removals' = removals
        \/ \E t \in Claimants(q) : removals' = [removals EXCEPT ![t].phase = IF q.answer = "ok" THEN "answered" ELSE "failed"]
    BY <1>3 DEF AnswerHandled
  <2>. QED  BY <2>1, <2>3, <2>5, <2>6
<1>. QED  BY <1>1, <1>2, <1>3

\* The network changes, and its inventory arrives.
LEMMA NetworkSettles ==
  ASSUME Typed, Net, Clear => Settled, Clear',
         \/ \E d \in Phys : Joins(d)
         \/ \E i \in DOMAIN network : Interviewed(i) \/ \E n \in Name : Renamed(i, Friendly(n))
  PROVE  Settled' /\ registry'.devices = registry.devices
<1>1. /\ network' \in Seq(Items) /\ registry'.devices = registry.devices /\ registry'.aliases = registry.aliases
      /\ \E q \in Messages : q.kind = "inventory" /\ q.items = network' /\ handlers' = Append(handlers, q)
      /\ UNCHANGED removals /\ hist.given \subseteq hist'.given /\ Left(hist) \subseteq Left(hist') /\ Typed'
  <2>1. ASSUME NEW d \in Phys, Joins(d)
        PROVE  /\ network' \in Seq(Items) /\ registry'.devices = registry.devices /\ registry'.aliases = registry.aliases
               /\ \E q \in Messages : q.kind = "inventory" /\ q.items = network' /\ handlers' = Append(handlers, q)
               /\ UNCHANGED removals /\ hist.given \subseteq hist'.given /\ Left(hist) \subseteq Left(hist') /\ Typed'
    BY <2>1, JoinsIs, JoinsNet
  <2>2. ASSUME NEW i \in DOMAIN network, Interviewed(i)
        PROVE  /\ network' \in Seq(Items) /\ registry'.devices = registry.devices /\ registry'.aliases = registry.aliases
               /\ \E q \in Messages : q.kind = "inventory" /\ q.items = network' /\ handlers' = Append(handlers, q)
               /\ UNCHANGED removals /\ hist.given \subseteq hist'.given /\ Left(hist) \subseteq Left(hist') /\ Typed'
    BY <2>2, InterviewedIs, InterviewedNet
  <2>3. ASSUME NEW i \in DOMAIN network, NEW n \in Name, Renamed(i, Friendly(n))
        PROVE  /\ network' \in Seq(Items) /\ registry'.devices = registry.devices /\ registry'.aliases = registry.aliases
               /\ \E q \in Messages : q.kind = "inventory" /\ q.items = network' /\ handlers' = Append(handlers, q)
               /\ UNCHANGED removals /\ hist.given \subseteq hist'.given /\ Left(hist) \subseteq Left(hist') /\ Typed'
    BY <2>3, RenamedIs, RenamedNet
  <2>. QED  BY <2>1, <2>2, <2>3
<1>2. hist.doubled => hist'.doubled
  BY DEF Joins, Interviewed, Renamed, Typed, History
<1>3. hist.overtaken => hist'.overtaken
  BY DEF Joins, Interviewed, Renamed, Typed, History
<1>4. Settled /\ Distinct(hist'.given) /\ hist.given \in Givings /\ hist'.given \in Givings
  <2>1. Distinct(hist'.given) /\ Distinct(hist.given)
    BY <1>1 DEF Clear, Distinct
  <2>. QED  BY <1>1, <1>2, <1>3, <2>1 DEF Clear, Typed, History
<1>5. Tidy(registry'.devices, registry'.aliases, hist'.given)
  BY <1>1, <1>4, MoreGiven DEF Settled
<1>6. Asked(removals', hist'.given, Left(hist'))
  BY <1>1, <1>4, MoreAsked DEF Settled
<1>7. Reached(network', handlers', registry'.devices) /\ Latest(network', handlers')
  <2>1. PICK q \in Messages : q.kind = "inventory" /\ q.items = network' /\ handlers' = Append(handlers, q)
    BY <1>1
  <2>2. network' \in Seq(Items) /\ handlers \in Seq(Messages)
    BY <1>1 DEF Typed
  <2>. QED  BY <2>1, <2>2, InventoryPublished
<1>. QED  BY <1>1, <1>5, <1>6, <1>7 DEF Settled

LEMMA ReportsSettles ==
  ASSUME Typed, Net, Clear => Settled, Clear', NEW i \in DOMAIN network, Reports(i)
  PROVE  Settled' /\ registry'.devices = registry.devices
<1>1. UNCHANGED <<network, removals, hist>>
  BY ReportsNet
<1>2. PICK q \in Messages : q.kind = "report" /\ handlers' = Append(handlers, q)
  BY ReportsIs
<1>3. registry'.devices = registry.devices /\ registry'.aliases = registry.aliases /\ Settled
  BY <1>1, ReportsIs DEF Clear
<1>4. Reached(network, handlers', registry.devices) /\ Latest(network, handlers')
  BY <1>2, <1>3, ReportPublished DEF Typed, Settled
<1>. QED  BY <1>1, <1>3, <1>4 DEF Settled, Left

LEMMA RestartSettles ==
  ASSUME Typed, Net, Clear => Settled, Clear', HubRestarts
  PROVE  Settled'
<1>1. UNCHANGED <<network, hist>>
  BY RestartNet
<1>2. PICK q \in Messages : q.kind = "inventory" /\ q.items = network /\ handlers' = <<q>>
  BY RestartIs
<1>3. PICK s \in Loaded(registry) : registry'.devices = s.devices /\ registry'.aliases = s.aliases
  BY RestartIs
<1>4. Settled /\ hist.given \in Givings /\ Distinct(hist.given) /\ registry \in Registry
  BY <1>1 DEF Clear, Typed, History
<1>5. Tidy(registry'.devices, registry'.aliases, hist.given)
  BY <1>3, <1>4, LoadedTidy DEF Settled
<1>6. Asked(removals', hist.given, Left(hist))
  <2>1. \A u \in Removals : /\ removals'[u].phase = "idle" <=> removals[u].phase = "idle"
                            /\ removals[u].phase # "idle" => removals'[u].key = removals[u].key /\ removals'[u].name = removals[u].name
                            /\ removals'[u].phase # "answered"
    BY DEF HubRestarts, NoRemoval, Typed, RemovalStates
  <2>. QED  BY <1>4, <2>1, MovedOn DEF Settled
<1>7. Reached(network, handlers', registry'.devices) /\ Latest(network, handlers')
  <2>1. DOMAIN <<>> = {} /\ <<>> \in Seq(Messages) /\ handlers' = Append(<<>>, q)
    BY <1>2
  <2>2. network \in Seq(Items)
    BY DEF Typed
  <2>. QED  BY <1>2, <2>1, <2>2, InventoryPublished
<1>. QED  BY <1>1, <1>5, <1>6, <1>7 DEF Settled, Left

\* The inductive invariant: what holds in any case, and what holds unless names are confused.
Sound == Typed /\ Net /\ Answers /\ (Clear => Settled)

LEMMA InOrder ==
  ASSUME NEW S, IsFiniteSet(S)
  PROVE  SetToSeq(S) \in Seq(S) /\ \A i, j \in DOMAIN SetToSeq(S) : SetToSeq(S)[i] = SetToSeq(S)[j] => i = j
<1>1. Cardinality(S) \in Nat /\ ExistsBijection(1..Cardinality(S), S)
  BY FS_CardinalityType
<1>2. \E f \in [1..Cardinality(S) -> S] : IsInjective(f)
  BY <1>1 DEF ExistsBijection, Bijection, Injection
<1>3. SetToSeq(S) \in [1..Cardinality(S) -> S] /\ IsInjective(SetToSeq(S))
  BY <1>2 DEF SetToSeq
<1>4. SetToSeq(S) \in Seq(S)
  BY <1>1, <1>3, SeqDef
<1>. QED  BY <1>3, <1>4 DEF IsInjective

LEMMA PairedIs ==
  ASSUME NEW d \in Phys, NEW a \in Area, NEW G \in Givings
  PROVE  /\ Paired(d, a) \in Record /\ Is(Stable(d), Paired(d, a), d, G)
         /\ Paired(d, a).legacy = {Address(d)}
<1>1. Address(d) \in Names /\ Address(d) \in Keys /\ Stable(d) \in Keys /\ Address(d) \in NamesOf(d, G)
  BY NamesAre, StableKey DEF Names, Keys
<1>. DEFINE b == Blank(Stable(d))
<1>2. b \in Record /\ b.from = {} /\ b.pending = FALSE /\ Paired(d, a) = [b EXCEPT !.legacy = {Address(d)},
        !.friendly = Address(d), !.ieee = Address(d), !.area = a, !.ready = TRUE]
  BY <1>1, BlankIs DEF Blank, Paired
<1>. HIDE DEF b
<1>3. Paired(d, a) \in Record
  <2>. DEFINE x == {Address(d)}
              c == [b EXCEPT !.legacy = x, !.friendly = Address(d), !.ieee = Address(d)]
  <2>1. x \in SUBSET Keys
    BY <1>1
  <2>. HIDE DEF x
  <2>2. c \in Record
    BY <1>1, <1>2, <2>1 DEF Record
  <2>3. Paired(d, a) = [c EXCEPT !.area = a, !.ready = TRUE]
    BY <1>2 DEF x
  <2>. HIDE DEF c
  <2>. QED  BY <2>2, <2>3 DEF Record
<1>4. /\ Paired(d, a).legacy = {Address(d)} /\ Paired(d, a).friendly = Address(d) /\ Paired(d, a).ieee = Address(d)
      /\ Paired(d, a).from = {} /\ Paired(d, a).pending = FALSE
  BY <1>1, <1>2 DEF Record
<1>. QED  BY <1>1, <1>3, <1>4 DEF Is

LEMMA InitSound == ZigbeeInit => Sound
<1>. SUFFICES ASSUME ZigbeeInit  PROVE Sound
  OBVIOUS
<1>1. PICK known \in SUBSET Phys : \E area \in [known -> Area] :
        /\ registry = [devices |-> [k \in {Stable(d) : d \in known} |-> Paired(k[2], area[k[2]])],
                       aliases |-> [a \in {Address(d) : d \in known} |-> Stable(a[2])],
                       areas |-> Area, entry |-> known # {}]
        /\ network = SetToSeq({[dev |-> d, name |-> Address(d), done |-> TRUE] : d \in known})
  BY DEF ZigbeeInit
<1>0. PICK area \in [known -> Area] :
        /\ registry = [devices |-> [k \in {Stable(d) : d \in known} |-> Paired(k[2], area[k[2]])],
                       aliases |-> [a \in {Address(d) : d \in known} |-> Stable(a[2])],
                       areas |-> Area, entry |-> known # {}]
        /\ network = SetToSeq({[dev |-> d, name |-> Address(d), done |-> TRUE] : d \in known})
  BY <1>1
<1>. DEFINE f == [k \in {Stable(d) : d \in known} |-> Paired(k[2], area[k[2]])]
            a == [n \in {Address(d) : d \in known} |-> Stable(n[2])]
            S == {[dev |-> d, name |-> Address(d), done |-> TRUE] : d \in known}
            G == hist.given
<1>2. /\ handlers = <<>> /\ pairing = Idle /\ calls = {} /\ removals = [t \in Removals |-> NoRemoval] /\ requests = {} /\ events = 0
      /\ hist = [given |-> {}, out |-> {}, back |-> {}, doubled |-> FALSE, overtaken |-> FALSE]
  BY DEF ZigbeeInit
<1>3. /\ registry.devices = f /\ registry.aliases = a /\ registry = [devices |-> f, aliases |-> a, areas |-> Area, entry |-> known # {}]
      /\ G = {} /\ G \in Givings /\ hist \in History
  BY <1>0, <1>2 DEF Givings, History
<1>4. /\ DOMAIN f = {Stable(d) : d \in known} /\ \A d \in known : f[Stable(d)] = Paired(d, area[d]) /\ area[d] \in Area /\ d \in Phys
  <2>1. \A d : Stable(d)[2] = d
    BY DEF Stable
  <2>. QED  BY <2>1
<1>5. /\ DOMAIN a = {Address(d) : d \in known} /\ \A d \in known : a[Address(d)] = Stable(d)
  <2>1. \A d : Address(d)[2] = d
    BY DEF Address
  <2>. QED  BY <2>1
<1>. HIDE DEF f, a
<1>6. f \in Maps(Record) /\ a \in Maps(Keys)
  <2>1. \A d \in known : Stable(d) \in Keys /\ Address(d) \in Keys
    BY DEF Keys, Names
  <2>2. DOMAIN f \in SUBSET Keys /\ DOMAIN a \in SUBSET Keys
    BY <1>4, <1>5, <2>1
  <2>3. f = [k \in DOMAIN f |-> f[k]] /\ a = [n \in DOMAIN a |-> a[n]]
    BY DEF f, a
  <2>4. f \in [DOMAIN f -> Record]
    <3>1. \A k \in DOMAIN f : f[k] \in Record
      BY <1>3, <1>4, PairedIs
    <3>. QED  BY <2>3, <3>1
  <2>5. a \in [DOMAIN a -> Keys]
    <3>1. \A n \in DOMAIN a : a[n] \in Keys
      BY <1>5, <2>1
    <3>. QED  BY <2>3, <3>1
  <2>. QED  BY <2>2, <2>4, <2>5 DEF Maps
<1>7. S \in SUBSET Items /\ IsFiniteSet(S)
  <2>1. \A d \in known : [dev |-> d, name |-> Address(d), done |-> TRUE] \in Items
    BY DEF Items, Names
  <2>2. IsFiniteSet(known)
    BY ZigbeeAssumption, FS_Subset
  <2>. DEFINE g == [d \in known |-> [dev |-> d, name |-> Address(d), done |-> TRUE]]
  <2>3. g \in Surjection(known, S)
    BY DEF Surjection
  <2>4. IsFiniteSet(S)
    <3>. HIDE DEF g, S
    <3>. QED  BY <2>2, <2>3, FS_Surjection
  <2>. QED  BY <2>1, <2>4
<1>8. /\ network \in Seq(Items) /\ \A i \in DOMAIN network : network[i] \in S
      /\ \A i, j \in DOMAIN network : network[i] = network[j] => i = j
  <2>1. network = SetToSeq(S)
    BY <1>0
  <2>. HIDE DEF S
  <2>2. network \in Seq(S) /\ \A i, j \in DOMAIN network : network[i] = network[j] => i = j
    BY <1>7, <2>1, InOrder
  <2>. QED  BY <1>7, <2>2
<1>9. Typed
  <2>1. registry \in Registry
    BY <1>3, <1>6 DEF Registry
  <2>2. handlers \in Seq(Messages) /\ Len(handlers) <= MaxHandlers
    BY <1>2, ZigbeeAssumption
  <2>3. removals \in [Removals -> RemovalStates]
    BY <1>2 DEF NoRemoval, RemovalStates
  <2>. QED  BY <1>2, <1>3, <1>8, <2>1, <2>2, <2>3 DEF Typed, Idle
<1>10. \A i \in DOMAIN network : network[i].name = Address(network[i].dev) /\ network[i].done = TRUE
  BY <1>8
<1>11. Net
  <2>1. \A i, j \in DOMAIN network : network[i].dev = network[j].dev => i = j
    <3>1. ASSUME NEW x \in S, NEW y \in S, x.dev = y.dev  PROVE x = y
      <4>1. PICK d \in known : x = [dev |-> d, name |-> Address(d), done |-> TRUE]
        OBVIOUS
      <4>2. PICK e \in known : y = [dev |-> e, name |-> Address(e), done |-> TRUE]
        OBVIOUS
      <4>3. d = e
        <5>1. x.dev = d /\ y.dev = e
          BY <4>1, <4>2
        <5>. QED  BY <3>1, <5>1
      <4>. QED  BY <4>1, <4>2, <4>3
    <3>. QED  BY <1>8, <3>1
  <2>2. \A i \in DOMAIN network : network[i].dev \notin hist.out /\ network[i].name \in NamesOf(network[i].dev, hist.given)
    BY <1>2, <1>10, StableKey
  <2>3. DOMAIN handlers = {}
    BY <1>2
  <2>. QED  BY <2>1, <2>2, <2>3 DEF Net, Netted
<1>12. Answers
  BY <1>2 DEF Answers, Answered
<1>13. Settled
  <2>1. Tidy(f, a, G)
    <3>1. ASSUME NEW k \in DOMAIN f \cup DOMAIN a  PROVE \E d \in Phys : k \in KeysOf(d, G)
      BY <1>4, <1>5, StableKey
    <3>2. ASSUME NEW d \in Phys  PROVE Single(f, a, d, G)
      <4>1. ASSUME NEW k \in DOMAIN f \cap KeysOf(d, G)  PROVE d \in known /\ k = Stable(d) /\ Is(k, f[k], d, G) /\ f[k].legacy = {Address(d)}
        <5>1. PICK e \in known : k = Stable(e)
          BY <1>4
        <5>2. e = d
          BY <5>1, Tags DEF KeysOf, NamesOf, Names
        <5>. QED  BY <1>3, <1>4, <5>1, <5>2, PairedIs
      <4>2. ASSUME NEW n \in DOMAIN a \cap KeysOf(d, G)  PROVE d \in known /\ n = Address(d)
        <5>1. PICK e \in known : n = Address(e)
          BY <1>5
        <5>2. e = d
          BY <1>3, <5>1, Tags DEF KeysOf, NamesOf
        <5>. QED  BY <5>1, <5>2
      <4>3. d \in known => Stable(d) \in DOMAIN f /\ Address(d) \in DOMAIN a /\ a[Address(d)] = Stable(d)
        BY <1>4, <1>5
      <4>. QED  BY <4>1, <4>2, <4>3, StableKey, Tags DEF Single
    <3>. QED  BY <3>1, <3>2 DEF Tidy
  <2>2. Asked(removals, hist.given, Left(hist))
    BY <1>2 DEF Asked, NoRemoval
  <2>3. Reached(network, handlers, registry.devices)
    BY <1>10 DEF Reached
  <2>4. Latest(network, handlers)
    BY <1>2 DEF Latest
  <2>. QED  BY <1>3, <2>1, <2>2, <2>3, <2>4 DEF Settled
<1>. QED  BY <1>9, <1>11, <1>12, <1>13 DEF Sound

LEMMA NextSound ==
  ASSUME Sound, [ZigbeeNext]_zigbeeVars
  PROVE  Sound'
<1>1. Typed' /\ Net' /\ Answers'
  BY NextTyped, NextAnswers DEF Sound
<1>2. ASSUME Clear'  PROVE Settled'
  <2>1. Typed /\ Net /\ Answers /\ (Clear => Settled)
    BY DEF Sound
  <2>2. CASE UNCHANGED <<registry, handlers, removals, network, hist>>
    BY <1>2, <2>1, <2>2 DEF Settled, Clear, Left
  <2>3. CASE UNCHANGED zigbeeVars
    BY <2>2, <2>3 DEF zigbeeVars, bridge, removing, zigbee
  <2>4. CASE Handle
    BY <1>2, <2>1, <2>4, HandleItemSettles, HandleEndSettles, HandleReportSettles DEF Handle
  <2>5. CASE StartPairing \/ StopPairing \/ SessionStarts \/ SessionStops \/ SessionExpires
    BY <2>2, <2>5 DEF StartPairing, StopPairing, SessionStarts, SessionStops, SessionExpires, removing, zigbee
  <2>6. CASE \E t \in Removals : (\E k \in Keys : RemovalAsked(t, k)) \/ RemovalTimesOut(t) \/ RemovalDeletes(t)
    BY <1>2, <2>1, <2>6, AskedSettles, RemovalSettles
  <2>7. CASE \E q \in requests : RequestServed(q) \/ RequestLost(q) \/ AnswerHandled(q)
    BY <1>2, <2>1, <2>7, RequestSettles
  <2>8. CASE \/ \E k \in Keys, a \in Area : DeviceSetUp(k, a)
             \/ \E k \in Keys, a \in Area \cup {None} : DeviceMoved(k, a)
             \/ \E a \in Area : AreaRemoved(a)
    BY <1>2, <2>1, <2>8, UserSettles
  <2>9. CASE \/ \E d \in Phys : Joins(d)
             \/ \E i \in DOMAIN network : Interviewed(i) \/ \E n \in Name : Renamed(i, Friendly(n))
    BY <1>2, <2>1, <2>9, NetworkSettles
  <2>10. CASE \E i \in DOMAIN network : Reports(i)
    BY <1>2, <2>1, <2>10, ReportsSettles
  <2>11. CASE PermitEnds
    BY <2>2, <2>11 DEF PermitEnds, bridge, removing
  <2>12. CASE HubRestarts
    BY <1>2, <2>1, <2>12, RestartSettles
  <2>. QED  BY <2>3, <2>4, <2>5, <2>6, <2>7, <2>8, <2>9, <2>10, <2>11, <2>12 DEF ZigbeeNext
<1>. QED  BY <1>1, <1>2 DEF Sound

\* Whatever messages, calls, answers and restarts come in whatever order, the
\* inductive invariant holds.
THEOREM SoundAlways == ZigbeeSpec => []Sound
<1>1. ZigbeeInit => Sound
  BY InitSound
<1>2. Sound /\ [ZigbeeNext]_zigbeeVars => Sound'
  BY NextSound
<1>. QED  BY <1>1, <1>2, PTL DEF ZigbeeSpec

\* ZigbeeTypeOK: every alias and record of the registry has a key of the home's
\* and the kind its save methods give it, and no more messages are in their
\* handlers than the bound allows (store.js, mqttBridge.js).
THEOREM ZigbeeTypeCorrect == ZigbeeSpec => []ZigbeeTypeOK
<1>1. Sound => ZigbeeTypeOK
  BY TypedIs DEF Sound
<1>. QED  BY <1>1, SoundAlways, PTL

LEMMA SoundOneRecord == Sound => OneRecord
<1>. SUFFICES ASSUME Sound, ~Confused  PROVE
        /\ \A k, l \in DOMAIN registry.devices :
             k # l => registry.devices[k].from \cap registry.devices[l].from = {}
        /\ \A k \in DOMAIN registry.devices : Lookup(registry, k) = {k}
        /\ handlers = <<>> => \A i \in DOMAIN network :
             Stable(network[i].dev) \in DOMAIN registry.devices
               => Lookup(registry, network[i].name) = {Stable(network[i].dev)}
  BY DEF OneRecord
<1>. DEFINE G == hist.given
<1>1. /\ G \in Givings /\ Distinct(G) /\ registry \in Registry /\ Tidy(registry.devices, registry.aliases, G)
      /\ registry.devices \in Maps(Record) /\ registry.aliases \in Maps(Keys) /\ network \in Seq(Items)
      /\ Reached(network, handlers, registry.devices) /\ Net
  <2>1. Settled /\ Typed /\ Net
    BY ClearIs DEF Sound
  <2>2. Distinct(G)
    BY ClearIs DEF Clear
  <2>. QED  BY <2>1, <2>2, RegistryIs DEF Settled, Typed, History
<1>. HIDE DEF G
<1>2. ASSUME NEW k \in DOMAIN registry.devices  PROVE \E d \in Phys : k \in KeysOf(d, G) /\ Is(k, registry.devices[k], d, G)
  BY <1>1, Owned
<1>3. ASSUME NEW k \in DOMAIN registry.devices, NEW l \in DOMAIN registry.devices,
             NEW e \in registry.devices[k].from \cap registry.devices[l].from
      PROVE  k = l
  <2>1. PICK d \in Phys : k \in KeysOf(d, G) /\ Is(k, registry.devices[k], d, G)
    BY <1>2
  <2>2. PICK c \in Phys : l \in KeysOf(c, G) /\ Is(l, registry.devices[l], c, G)
    BY <1>2
  <2>3. d = e /\ c = e
    BY <1>3, <2>1, <2>2 DEF Is
  <2>. QED  BY <1>1, <2>1, <2>2, <2>3 DEF Tidy, Single
<1>4. ASSUME NEW k \in DOMAIN registry.devices  PROVE Lookup(registry, k) = {k}
  BY <1>1, <1>2, Found
<1>5. ASSUME handlers = <<>>, NEW i \in DOMAIN network, Stable(network[i].dev) \in DOMAIN registry.devices
      PROVE  Lookup(registry, network[i].name) = {Stable(network[i].dev)}
  <2>. DEFINE d == network[i].dev
              n == network[i].name
  <2>1. d \in Phys
    BY <1>1, ItemsAre
  <2>2. n \in KeysOf(d, G)
    BY <1>1, StableKey DEF Net, Netted, G
  <2>3. DOMAIN handlers = {}
    BY <1>5
  <2>4. n \in {Address(d)} \cup registry.devices[Stable(d)].legacy
    BY <1>1, <1>5, <2>3 DEF Reached
  <2>5. registry.devices[Stable(d)].legacy \subseteq DOMAIN registry.aliases \cup {registry.devices[Stable(d)].friendly}
    BY <1>1, <1>5, <2>1 DEF Tidy, Single
  <2>. HIDE DEF d, n
  <2>6. Lookup(registry, n) = {Stable(d)}
    BY <1>1, <1>5, <2>1, <2>2, <2>4, <2>5, Found DEF d
  <2>. QED  BY <2>6 DEF d, n
<1>. QED  BY <1>3, <1>4, <1>5

\* OneRecord: unless names are confused, the handlers of reports and inventories,
\* renames, migrations, removals and restarts leave no device two records, and
\* getDevice finds each record under its own key and under the current name of
\* its device (upsertDevice, migrateDeviceIdentity, normalizeState).
THEOREM OneRecordAlways == ZigbeeSpec => []OneRecord
BY SoundAlways, SoundOneRecord, PTL

\* What no step that is not a user's does to a setup.
LEMMA KeepsSame == \A f : Keeps(f, f)
BY DEF Keeps

LEMMA StepKeeps ==
  ASSUME Sound, [ZigbeeNext]_zigbeeVars, events' = events, ~Confused', ~\E t \in Removals : RemovalDeletes(t)
  PROVE  Keeps(registry.devices, registry'.devices)
<1>1. Typed /\ Net /\ Answers /\ (Clear => Settled) /\ Clear'
  <2>1. Clear' <=> ~Confused'
    BY DEF Clear, Confused, Reused, Distinct
  <2>. QED  BY <2>1 DEF Sound
<1>2. ~Bounded
  BY <1>1 DEF Bounded, Typed
<1>3. CASE registry'.devices = registry.devices
  BY <1>3, KeepsSame
<1>4. CASE Handle
  BY <1>1, <1>3, <1>4, HandleItemSettles, HandleEndSettles, HandleReportSettles DEF Handle
<1>5. CASE UNCHANGED zigbeeVars \/ StartPairing \/ StopPairing \/ SessionStarts \/ SessionStops \/ SessionExpires \/ PermitEnds
  BY <1>3, <1>5 DEF zigbeeVars, StartPairing, StopPairing, SessionStarts, SessionStops, SessionExpires, PermitEnds
<1>6. CASE \E t \in Removals : (\E k \in Keys : RemovalAsked(t, k)) \/ RemovalTimesOut(t)
  BY <1>3, <1>6 DEF RemovalAsked, RemovalTimesOut
<1>7. CASE \E q \in requests : RequestServed(q) \/ RequestLost(q) \/ AnswerHandled(q)
  BY <1>1, <1>3, <1>7, RequestSettles
<1>8. CASE \E i \in DOMAIN network : Interviewed(i)
  BY <1>1, <1>3, <1>8, NetworkSettles
<1>9. CASE \/ \E k \in Keys, a \in Area : DeviceSetUp(k, a)
           \/ \E k \in Keys, a \in Area \cup {None} : DeviceMoved(k, a)
           \/ \E a \in Area : AreaRemoved(a)
           \/ \E d \in Phys : Joins(d)
           \/ \E i \in DOMAIN network : Reports(i) \/ \E n \in Name : Renamed(i, Friendly(n))
           \/ HubRestarts
  BY <1>2, <1>9 DEF DeviceSetUp, DeviceMoved, AreaRemoved, Joins, Reports, Renamed, HubRestarts
<1>. QED  BY <1>4, <1>5, <1>6, <1>7, <1>8, <1>9 DEF ZigbeeNext

\* SetupKept: unless names are confused, no message, answer or removal loses the
\* area or the setup of a record, and only a device that has left the network
\* loses its record (handleMessage and remove in mqttBridge.js, removeDevice).
THEOREM SetupKeptAlways == ZigbeeSpec => SetupKept
<1>1. ASSUME Sound, [ZigbeeNext]_zigbeeVars, events' = events, ~Confused', NEW k \in DOMAIN registry.devices, registry.devices[k].ready
      PROVE  \/ \E l \in DOMAIN registry'.devices :
                  /\ registry'.devices[l].ready /\ registry'.devices[l].area = registry.devices[k].area
                  /\ registry.devices[k].from \subseteq registry'.devices[l].from
             \/ removals' # removals /\ k \notin {Stable(d) : d \in Joined \ hist.back}
  <2>1. CASE \E t \in Removals : RemovalDeletes(t)
    <3>1. Typed /\ Net /\ (Clear => Settled) /\ Clear'
      <4>1. Clear' <=> ~Confused'
        BY DEF Clear, Confused, Reused, Distinct
      <4>. QED  BY <1>1, <4>1 DEF Sound
    <3>2. \/ k \in DOMAIN registry'.devices /\ registry'.devices[k] = registry.devices[k]
          \/ removals' # removals /\ k \notin {Stable(d) : d \in Joined \ hist.back}
      BY <2>1, <3>1, DeletesGone
    <3>. QED  BY <1>1, <3>2
  <2>2. CASE ~\E t \in Removals : RemovalDeletes(t)
    <3>1. Keeps(registry.devices, registry'.devices)
      BY <1>1, <2>2, StepKeeps
    <3>. QED  BY <1>1, <3>1 DEF Keeps
  <2>. QED  BY <2>1, <2>2
<1>2. Sound /\ [ZigbeeNext]_zigbeeVars =>
        [events' = events /\ ~Confused' =>
           \A k \in DOMAIN registry.devices : registry.devices[k].ready =>
             \/ \E l \in DOMAIN registry.devices' :
                  /\ registry.devices'[l].ready /\ registry.devices'[l].area = registry.devices[k].area
                  /\ registry.devices[k].from \subseteq registry.devices'[l].from
             \/ removals' # removals /\ k \notin {Stable(d) : d \in Joined \ hist.back}]_zigbeeVars
  BY <1>1
<1>. QED  BY <1>2, SoundAlways, PTL DEF ZigbeeSpec, SetupKept
=============================================================================
