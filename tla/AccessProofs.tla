----------------------------- MODULE AccessProofs -----------------------------
(***************************************************************************)
(* However many tokens, grants, sessions, leases, secrets and codes there   *)
(* are, and whatever fails: a token is accepted once, a secret that was     *)
(* answered is on the disk, what was revoked is not accepted any more, a    *)
(* code that is over is not live again, and one that was shown stays good.  *)
(***************************************************************************)
EXTENDS Access, SequenceTheorems, TLAPS

(***************************************************************************)
(* The types of the store and its queue.                                    *)
(***************************************************************************)
Codes == [id : 0..MaxCode, live : BOOLEAN, failures : Nat]
Contents == [used : SUBSET Token, grants : [Grant -> {"none", "valid", "revoked"}], ended : SUBSET Session,
             pairing : Codes, platform : 0..MaxCode]
Things == [nonce |-> Token, proof |-> Token, enroll |-> Grant, revoke |-> Grant, end |-> Session,
           code |-> Code, registration |-> Code, quiet |-> 0..MaxCode, other |-> {0}, reset |-> {0}]
Entries == UNION {[what : {w}, id : Things[w], grant : Grant \cup {0}, before : Contents] : w \in DOMAIN Things}

StoreTypes ==
  /\ store \in [memory : Contents, disk : Contents, writing : Contents]
  /\ saves \in Seq(Entries)
  /\ code \in Codes

LEMMA EntryFields ==
  ASSUME NEW e \in Entries
  PROVE  /\ e.what \in DOMAIN Things /\ e.id \in Things[e.what] /\ e.grant \in Grant \cup {0} /\ e.before \in Contents
         /\ e = [what |-> e.what, id |-> e.id, grant |-> e.grant, before |-> e.before]
BY DEF Entries

LEMMA NewEntry ==
  ASSUME StoreTypes, NEW w \in DOMAIN Things, NEW id \in Things[w]
  PROVE  /\ For(w, id) \in Entries
         /\ For(w, id).what = w /\ For(w, id).id = id /\ For(w, id).before = store.memory
<1>1. For(w, id) = [what |-> w, id |-> id, grant |-> 0, before |-> store.memory]
  BY DEF For
<1>2. store.memory \in Contents
  BY DEF StoreTypes
<1>. QED  BY <1>1, <1>2 DEF Entries

(* A save joins the queue; the first one is written as it is then. *)
LEMMA SaveTypes ==
  ASSUME StoreTypes, NEW memory \in Contents, NEW e \in Entries, Save(memory, e)
  PROVE  /\ store' \in [memory : Contents, disk : Contents, writing : Contents] /\ saves' \in Seq(Entries)
         /\ store'.memory = memory /\ store'.disk = store.disk
         /\ store'.writing = IF saves = <<>> THEN memory ELSE store.writing
         /\ Len(saves') = Len(saves) + 1 /\ saves'[Len(saves) + 1] = e
         /\ \A i \in 1..Len(saves) : saves'[i] = saves[i]
<1>1. saves' = Append(saves, e) /\ store' = [store EXCEPT !.memory = memory, !.writing = IF saves = <<>> THEN memory ELSE @]
  BY DEF Save
<1>2. store' = [memory |-> memory, disk |-> store.disk, writing |-> IF saves = <<>> THEN memory ELSE store.writing]
  BY <1>1 DEF StoreTypes
<1>3. store'.writing \in Contents
  BY <1>2 DEF StoreTypes
<1>4. /\ saves' \in Seq(Entries) /\ Len(saves') = Len(saves) + 1 /\ saves'[Len(saves) + 1] = e
      /\ \A i \in 1..Len(saves) : saves'[i] = saves[i]
  <2>1. saves \in Seq(Entries)
    BY DEF StoreTypes
  <2>. QED  BY <1>1, <2>1, AppendProperties
<1>5. store' \in [memory : Contents, disk : Contents, writing : Contents]
  BY <1>2, <1>3 DEF StoreTypes
<1>. QED  BY <1>2, <1>4, <1>5

LEMMA EmptyTypes == Empty \in Contents /\ NoCode \in Codes
<1>1. MaxCode \in Nat
  BY AccessAssumption
<1>2. NoCode \in Codes
  BY <1>1 DEF NoCode, Codes
<1>. QED  BY <1>1, <1>2 DEF Empty, Contents

LEMMA RevokedTypes == ASSUME StoreTypes PROVE Revoked \in Codes /\ Revoked.live = FALSE /\ Revoked.id = code.id
BY DEF Revoked, Codes, StoreTypes

(* A field of the memory is replaced. *)
LEMMA MemoryTypes ==
  ASSUME StoreTypes, NEW m \in Contents
  PROVE  /\ \A t \in Token : [m EXCEPT !.used = @ \cup {t}] \in Contents
         /\ \A g \in Grant, v \in {"none", "valid", "revoked"} : [m EXCEPT !.grants[g] = v] \in Contents
         /\ \A s \in Session : [m EXCEPT !.ended = @ \cup {s}] \in Contents
         /\ \A c \in Codes, n \in 0..MaxCode : [m EXCEPT !.pairing = c, !.platform = n] \in Contents
         /\ \A n \in 0..MaxCode : [m EXCEPT !.platform = n] \in Contents
<1>1. \A g \in Grant, v \in {"none", "valid", "revoked"} : [m.grants EXCEPT ![g] = v] \in [Grant -> {"none", "valid", "revoked"}]
  BY DEF Contents
<1>. QED  BY <1>1 DEF Contents

LEMMA InitStore == Init => StoreTypes
BY EmptyTypes, EmptySeq DEF Init, StoreTypes

(* The head of the queue is written: what is next is as the memory is now. *)
LEMMA SavedTypes ==
  ASSUME StoreTypes, Saved
  PROVE  /\ saves # <<>> /\ Head(saves) = saves[1] /\ saves[1] \in Entries
         /\ saves' \in Seq(Entries) /\ Len(saves') = Len(saves) - 1
         /\ \A i \in 1..Len(saves') : saves'[i] = saves[i + 1]
         /\ store' = [memory |-> store.memory, disk |-> store.writing, writing |-> store.memory]
         /\ StoreTypes'
<1>1. saves # <<>> /\ saves' = Tail(saves) /\ store' = [store EXCEPT !.disk = store.writing, !.writing = store.memory] /\ code' = code
  BY DEF Saved
<1>2. saves \in Seq(Entries)
  BY DEF StoreTypes
<1>3. /\ Head(saves) = saves[1] /\ saves[1] \in Entries
      /\ saves' \in Seq(Entries) /\ Len(saves') = Len(saves) - 1
      /\ \A i \in 1..Len(saves') : saves'[i] = saves[i + 1]
  BY <1>1, <1>2, HeadTailProperties, LenProperties, EmptySeq
<1>4. store' = [memory |-> store.memory, disk |-> store.writing, writing |-> store.memory]
  BY <1>1 DEF StoreTypes
<1>. QED  BY <1>1, <1>3, <1>4 DEF StoreTypes

(* A save fails: the memory stays as it is, or is put back, or loses the code. *)
LEMMA SaveFailsTypes ==
  ASSUME StoreTypes, SaveFails
  PROVE  /\ saves # <<>> /\ saves[1] \in Entries
         /\ saves' \in Seq(Entries) /\ Len(saves') \in {Len(saves) - 1, Len(saves)}
         /\ \A i \in 1..(Len(saves) - 1) : saves'[i] = saves[i + 1]
         /\ Len(saves') = Len(saves) => saves'[Len(saves)].what = "quiet"
         /\ store'.disk = store.disk
         /\ store'.memory \in {store.memory, saves[1].before, [store.memory EXCEPT !.pairing = Revoked, !.platform = 0]}
         /\ saves[1].what = "other" => store'.memory = saves[1].before
         /\ saves[1].what # "other" => store'.memory.used = store.memory.used /\ store'.memory.ended = store.memory.ended
                                       /\ store'.memory.grants = store.memory.grants
         /\ store'.writing \in {store.memory, store'.memory}
         /\ StoreTypes'
<1>. DEFINE e == Head(saves)
            lost == e.what = "registration"
            memory == CASE e.what = "other" -> e.before
                        [] lost -> [store.memory EXCEPT !.pairing = Revoked, !.platform = 0]
                        [] OTHER -> store.memory
<1>1. /\ saves # <<>>
      /\ saves' = Tail(saves) \o IF lost THEN <<For("quiet", code.id)>> ELSE <<>>
      /\ store' = [store EXCEPT !.memory = memory, !.writing = IF Len(saves) = 1 THEN memory ELSE store.memory]
      /\ code' = IF lost THEN Revoked ELSE code
  BY DEF SaveFails
<1>2. saves \in Seq(Entries) /\ code.id \in 0..MaxCode /\ store.memory \in Contents
  BY DEF StoreTypes, Codes
<1>3. /\ e = saves[1] /\ e \in Entries
      /\ Tail(saves) \in Seq(Entries) /\ Len(Tail(saves)) = Len(saves) - 1
      /\ \A i \in 1..(Len(saves) - 1) : Tail(saves)[i] = saves[i + 1]
  BY <1>1, <1>2, HeadTailProperties, LenProperties, EmptySeq
<1>4. For("quiet", code.id) \in Entries /\ For("quiet", code.id).what = "quiet"
  BY <1>2, NewEntry DEF Things
<1>5. memory \in Contents /\ memory \in {store.memory, e.before, [store.memory EXCEPT !.pairing = Revoked, !.platform = 0]}
  <2>1. [store.memory EXCEPT !.pairing = Revoked, !.platform = 0] \in Contents
    <3>1. Revoked \in Codes /\ 0 \in 0..MaxCode
      BY RevokedTypes, AccessAssumption
    <3>. QED  BY <1>2, <3>1 DEF Contents
  <2>2. e.before \in Contents
    BY <1>3, EntryFields
  <2>. QED  BY <1>2, <2>1, <2>2
<1>6. /\ e.what = "other" => memory = e.before
      /\ e.what # "other" => memory.used = store.memory.used /\ memory.ended = store.memory.ended /\ memory.grants = store.memory.grants
  BY <1>2 DEF Contents
<1>7. Revoked \in Codes
  BY RevokedTypes
<1>. HIDE DEF e, memory
<1>8. store' = [memory |-> memory, disk |-> store.disk, writing |-> IF Len(saves) = 1 THEN memory ELSE store.memory]
  BY <1>1 DEF StoreTypes
<1>9. /\ saves' \in Seq(Entries) /\ Len(saves') \in {Len(saves) - 1, Len(saves)}
      /\ \A i \in 1..(Len(saves) - 1) : saves'[i] = saves[i + 1]
      /\ Len(saves') = Len(saves) => saves'[Len(saves)].what = "quiet"
  <2>1. CASE lost
    <3>. DEFINE q == For("quiet", code.id)
    <3>1. saves' = Append(Tail(saves), q)
      BY <1>1, <1>3, <1>4, <2>1, AppendIsConcat
    <3>. HIDE DEF q
    <3>. QED  BY <1>2, <1>3, <1>4, <3>1, AppendProperties, LenProperties DEF q
  <2>2. CASE ~lost
    <3>1. saves' = Tail(saves)
      BY <1>1, <1>3, <2>2, ConcatEmptySeq
    <3>2. Len(saves) \in Nat
      BY <1>2, LenProperties
    <3>3. saves' \in Seq(Entries) /\ Len(saves') = Len(saves) - 1
      BY <1>3, <3>1
    <3>4. \A i \in 1..(Len(saves) - 1) : saves'[i] = saves[i + 1]
      BY <1>3, <3>1
    <3>5. Len(saves') # Len(saves)
      BY <3>2, <3>3
    <3>. QED  BY <3>3, <3>4, <3>5
  <2>. QED  BY <2>1, <2>2
<1>10. StoreTypes'
  BY <1>1, <1>2, <1>5, <1>7, <1>8, <1>9 DEF StoreTypes
<1>. QED  BY <1>1, <1>3, <1>5, <1>6, <1>8, <1>9, <1>10

(***************************************************************************)
(* The types of the vault and of what is remembered.                        *)
(***************************************************************************)
Records == [Secret \cup Code -> Nat]
Writes == [content : Records, by : {"user"}, name : Secret] \cup [content : Records, by : {"code"}, name : Code]
Vaults == [memory : Records, disk : Records, queue : Seq(Writes), stuck : BOOLEAN, clearing : BOOLEAN]
Ids == Token \cup Grant \cup Session \cup Lease \cup 0..MaxCode
Trails == [accepted : [Token -> Nat], over : SUBSET Ids, late : SUBSET Ids, dead : SUBSET Ids, gone : SUBSET Ids,
           undone : SUBSET Ids, told : Records, mixed : BOOLEAN]

Types == StoreTypes /\ vault \in Vaults /\ trail \in Trails

(* What a step that is not the end of a save does to the store: nothing, or a save
   joins the queue.  What its memory lacks of before is excused, or it is for it; a
   token's mark is new, a nonce is used under a valid grant. *)
GrantsKept(m, e) ==
  \A g \in Grant : \/ m.grants[g] = store.memory.grants[g]
                   \/ g \in trail'.undone
                   \/ e.id = g /\ e.what = "enroll"
                   \/ e.id = g /\ e.what = "revoke" /\ m.grants[g] = "revoked"
Queued ==
  \E m \in Contents, e \in Entries :
    /\ Save(m, e)
    /\ store.memory.used \ m.used \subseteq trail'.undone
    /\ store.memory.ended \ m.ended \subseteq trail'.undone
    /\ GrantsKept(m, e)
    /\ e.what \in {"nonce", "proof"} => e.id \notin store.memory.used /\ e.id \in m.used
    /\ e.what = "nonce" => e.grant \in Grant /\ m.grants = store.memory.grants /\ store.memory.grants[e.grant] = "valid"
    /\ e.what = "proof" => e.grant = 0
    /\ e.what = "end" => e.id \in m.ended /\ e.id \in ended'
    /\ e.what = "enroll" => e.id \notin trail'.over
    /\ e.what = "revoke" => m.grants[e.id] = "revoked"
Excuses == trail'.accepted = trail.accepted /\ trail.undone \subseteq trail'.undone

LEMMA Plain ==
  ASSUME Types, NEW m \in Contents, NEW w \in DOMAIN Things, NEW id \in Things[w], Save(m, For(w, id)),
         w \notin {"nonce", "proof", "enroll", "revoke", "end"},
         \/ m.used = store.memory.used /\ m.ended = store.memory.ended /\ m.grants = store.memory.grants
         \/ Loses(m) \subseteq trail'.undone
  PROVE  Queued
<1>1. For(w, id) \in Entries /\ For(w, id).what = w
  BY NewEntry DEF Types
<1>2. /\ store.memory.used \ m.used \subseteq trail'.undone
      /\ store.memory.ended \ m.ended \subseteq trail'.undone
      /\ \A g \in Grant : m.grants[g] = store.memory.grants[g] \/ g \in trail'.undone
  BY DEF Loses
<1>. QED  BY <1>1, <1>2 DEF Queued, GrantsKept

LEMMA QuietSave ==
  ASSUME Types, NEW c \in Codes, Persist(c)
  PROVE  Queued
<1>. DEFINE m == [store.memory EXCEPT !.pairing = c, !.platform = 0]
<1>1. store.memory \in Contents /\ 0 \in 0..MaxCode /\ c.id \in 0..MaxCode
  BY AccessAssumption DEF Types, StoreTypes, Codes
<1>2. m \in Contents /\ m.used = store.memory.used /\ m.ended = store.memory.ended /\ m.grants = store.memory.grants
  BY <1>1 DEF Contents
<1>3. "quiet" \in DOMAIN Things /\ c.id \in Things["quiet"]
  BY <1>1 DEF Things
<1>4. Save(m, For("quiet", c.id))
  BY DEF Persist
<1>. HIDE DEF m
<1>. QED  BY <1>2, <1>3, <1>4, Plain

LEMMA StoreKinds ==
  ASSUME Types, [Next]_vars
  PROVE  \/ Saved \/ SaveFails \/ Restarts
         \/ code' \in Codes /\ Excuses /\ (Queued \/ UNCHANGED <<store, saves>>)
<1>. DEFINE Goal == code' \in Codes /\ Excuses /\ (Queued \/ UNCHANGED <<store, saves>>)
<1>0. /\ code \in Codes /\ code.id \in 0..MaxCode /\ store.memory \in Contents /\ trail \in Trails /\ vault \in Vaults
      /\ Revoked \in Codes /\ 0 \in 0..MaxCode
  BY RevokedTypes, AccessAssumption DEF Types, StoreTypes, Codes
<1>1. CASE OtherSaves
  <2>1. "other" \in DOMAIN Things /\ 0 \in Things["other"]
    BY DEF Things
  <2>2. Queued
    BY <1>0, <1>1, <2>1, Plain DEF OtherSaves
  <2>. QED  BY <1>0, <1>1, <2>2 DEF OtherSaves, Excuses
<1>2. ASSUME NEW t \in Nonce, NEW g \in Grant, UsesNonce(t, g)  PROVE Goal
  <2>. DEFINE e == [For("nonce", t) EXCEPT !.grant = g]
  <2>1. t \in Token /\ t \notin store.memory.used /\ Save(Marked(t), e) /\ store.memory.grants[g] = "valid"
    BY <1>2 DEF UsesNonce, Known, Token
  <2>2. e = [what |-> "nonce", id |-> t, grant |-> g, before |-> store.memory]
    BY DEF For
  <2>3. e \in Entries
    <3>1. "nonce" \in DOMAIN Things /\ t \in Things["nonce"]
      BY <2>1 DEF Things
    <3>. QED  BY <1>0, <2>2, <3>1 DEF Entries
  <2>4. /\ Marked(t) \in Contents /\ Marked(t).used = store.memory.used \cup {t}
        /\ Marked(t).ended = store.memory.ended /\ Marked(t).grants = store.memory.grants
    BY <1>0, <2>1 DEF Marked, Contents
  <2>5. e.id = t /\ e.what = "nonce" /\ e.grant = g
    BY <2>2
  <2>. HIDE DEF e
  <2>6. Queued
    BY <2>1, <2>3, <2>4, <2>5 DEF Queued, GrantsKept
  <2>. QED  BY <1>0, <1>2, <2>6 DEF UsesNonce, Excuses
<1>3. ASSUME NEW t \in Proof, UsesProof(t)  PROVE Goal
  <2>1. t \in Token /\ t \notin store.memory.used /\ Save(Marked(t), For("proof", t))
    BY <1>3 DEF UsesProof, Known, Token
  <2>2. /\ For("proof", t) \in Entries /\ For("proof", t).id = t
        /\ For("proof", t).what = "proof" /\ For("proof", t).grant = 0
    <3>1. "proof" \in DOMAIN Things /\ t \in Things["proof"]
      BY <2>1 DEF Things
    <3>2. For("proof", t).grant = 0
      BY DEF For
    <3>. QED  BY <3>1, <3>2, NewEntry DEF Types
  <2>3. /\ Marked(t) \in Contents /\ Marked(t).used = store.memory.used \cup {t}
        /\ Marked(t).ended = store.memory.ended /\ Marked(t).grants = store.memory.grants
    BY <1>0, <2>1 DEF Marked, Contents
  <2>4. Queued
    BY <2>1, <2>2, <2>3 DEF Queued, GrantsKept
  <2>. QED  BY <1>0, <1>3, <2>4 DEF UsesProof, Excuses
<1>4. ASSUME NEW t \in Proof, Pruned(t)  PROVE Goal
  BY <1>0, <1>4 DEF Pruned, Excuses
<1>5. ASSUME NEW g \in Grant, Enrols(g) \/ Revokes(g)  PROVE Goal
  <2>. DEFINE m(v) == [store.memory EXCEPT !.grants[g] = v]
  <2>1. \A v \in {"valid", "revoked"} :
          /\ m(v) \in Contents /\ m(v).used = store.memory.used /\ m(v).ended = store.memory.ended
          /\ m(v).grants[g] = v /\ \A h \in Grant \ {g} : m(v).grants[h] = store.memory.grants[h]
    <3>. TAKE v \in {"valid", "revoked"}
    <3>. DEFINE gs == [store.memory.grants EXCEPT ![g] = v]
    <3>1. /\ gs \in [Grant -> {"none", "valid", "revoked"}]
          /\ gs[g] = v /\ \A h \in Grant \ {g} : gs[h] = store.memory.grants[h]
      BY <1>0 DEF Contents
    <3>2. m(v) = [store.memory EXCEPT !.grants = gs]
      OBVIOUS
    <3>. HIDE DEF gs, m
    <3>. QED  BY <1>0, <3>1, <3>2 DEF Contents
  <2>2. \A w \in {"enroll", "revoke"} : For(w, g) \in Entries /\ For(w, g).what = w /\ For(w, g).id = g
    <3>1. {"enroll", "revoke"} \subseteq DOMAIN Things /\ g \in Things["enroll"] /\ g \in Things["revoke"]
      BY DEF Things
    <3>. QED  BY <3>1, NewEntry DEF Types
  <2>3. \/ Save(m("valid"), For("enroll", g)) /\ g \notin trail'.over
        \/ Save(m("revoked"), For("revoke", g))
    BY <1>0, <1>5 DEF Enrols, Revokes, Trails
  <2>4. Excuses /\ code' = code
    BY <1>0, <1>5 DEF Enrols, Revokes, Excuses, Trails
  <2>. HIDE DEF m
  <2>5. CASE Save(m("valid"), For("enroll", g)) /\ g \notin trail'.over
    <3>1. GrantsKept(m("valid"), For("enroll", g))
      BY <2>1, <2>2 DEF GrantsKept
    <3>. QED  BY <1>0, <2>1, <2>2, <2>4, <2>5, <3>1 DEF Queued
  <2>6. CASE Save(m("revoked"), For("revoke", g))
    <3>1. GrantsKept(m("revoked"), For("revoke", g))
      BY <2>1, <2>2 DEF GrantsKept
    <3>. QED  BY <1>0, <2>1, <2>2, <2>4, <2>6, <3>1 DEF Queued
  <2>. QED  BY <2>3, <2>5, <2>6
<1>6. ASSUME NEW s \in Session, Operates(s)  PROVE Goal
  BY <1>0, <1>6 DEF Operates, Accept, Excuses, Trails
<1>7. ASSUME NEW s \in Session, EndsSession(s)  PROVE Goal
  <2>. DEFINE m == [store.memory EXCEPT !.ended = @ \cup {s}]
  <2>1. /\ m \in Contents /\ m.used = store.memory.used /\ m.grants = store.memory.grants
        /\ m.ended = store.memory.ended \cup {s}
    BY <1>0 DEF Contents
  <2>2. For("end", s) \in Entries /\ For("end", s).what = "end" /\ For("end", s).id = s
    <3>1. "end" \in DOMAIN Things /\ s \in Things["end"]
      BY DEF Things
    <3>. QED  BY <3>1, NewEntry DEF Types
  <2>3. Save(m, For("end", s)) /\ s \in ended' /\ trail' = trail /\ code' = code
    BY <1>7 DEF EndsSession, EndedNow
  <2>. HIDE DEF m
  <2>4. Queued
    BY <2>1, <2>2, <2>3 DEF Queued, GrantsKept
  <2>. QED  BY <1>0, <2>3, <2>4 DEF Excuses
<1>8. ASSUME NEW l \in Lease, LeaseIssued(l) \/ LeaseUsed(l) \/ LeaseChecked(l) \/ LeaseGood(l) \/ LeaseEnds(l) \/ LeaseEnded(l)
      PROVE Goal
  BY <1>0, <1>8 DEF LeaseIssued, LeaseUsed, LeaseChecked, LeaseGood, LeaseEnds, LeaseEnded, LeaseOnly, Accept, Excuses, Trails
<1>9. ASSUME NEW n \in Secret, SetsSecret(n)  PROVE Goal
  BY <1>0, <1>9 DEF SetsSecret, Excuses, Trails
<1>10. CASE VaultWritten
  <2>. DEFINE m == [store.memory EXCEPT !.pairing = code, !.platform = 0]
  <2>1. PICK i \in Turn :
          /\ trail' = [trail EXCEPT !.told[vault.queue[i].name] = vault.queue[i].content[vault.queue[i].name]]
          /\ IF vault.queue[i].by = "code" THEN Save(m, For("code", vault.queue[i].name)) ELSE UNCHANGED <<store, saves>>
          /\ code' = code
    BY <1>10 DEF VaultWritten
  <2>2. Excuses
    BY <1>0, <2>1 DEF Excuses, Trails
  <2>3. CASE vault.queue[i].by = "code"
    <3>1. vault.queue[i] \in Writes
      BY <1>0 DEF Turn, AnyTurn, Vaults
    <3>2. vault.queue[i].name \in Code
      BY <2>3, <3>1 DEF Writes
    <3>3. m \in Contents /\ m.used = store.memory.used /\ m.ended = store.memory.ended /\ m.grants = store.memory.grants
      BY <1>0 DEF Contents
    <3>4. "code" \in DOMAIN Things /\ vault.queue[i].name \in Things["code"]
      BY <3>2 DEF Things
    <3>5. Save(m, For("code", vault.queue[i].name))
      BY <2>1, <2>3
    <3>. HIDE DEF m
    <3>6. Queued
      BY <3>3, <3>4, <3>5, Plain
    <3>. QED  BY <1>0, <2>1, <2>2, <3>6
  <2>4. CASE vault.queue[i].by # "code"
    BY <1>0, <2>1, <2>2, <2>4
  <2>. QED  BY <2>3, <2>4
<1>11. CASE VaultFails \/ Clears
  BY <1>0, <1>11 DEF VaultFails, Clears, Excuses, Trails
<1>12. CASE Cleared
  <2>1. trail'.undone = trail.undone \cup Loses(Empty) /\ trail'.accepted = trail.accepted /\ code' = code
    BY <1>0, <1>12 DEF Cleared, Trails
  <2>2. Loses(Empty) \subseteq trail'.undone
    BY <2>1
  <2>3. "reset" \in DOMAIN Things /\ 0 \in Things["reset"] /\ Save(Empty, For("reset", 0))
    BY <1>12 DEF Things, Cleared
  <2>4. Queued
    BY <2>2, <2>3, EmptyTypes, Plain
  <2>. QED  BY <1>0, <2>1, <2>4 DEF Excuses
<1>13. ASSUME NEW c \in Code, Issues(c)  PROVE Goal
  <2>1. code' \in Codes
    BY <1>13, AccessAssumption DEF Issues, Codes, Code
  <2>. QED  BY <1>0, <1>13, <2>1 DEF Issues, Excuses, Trails
<1>14. ASSUME NEW c \in Code, Registered(c)  PROVE Goal
  <2>. DEFINE m == [store.memory EXCEPT !.platform = c]
  <2>1. m \in Contents /\ m.used = store.memory.used /\ m.ended = store.memory.ended /\ m.grants = store.memory.grants
    BY <1>0 DEF Contents, Code
  <2>2. "registration" \in DOMAIN Things /\ c \in Things["registration"]
    BY DEF Things
  <2>3. Save(m, For("registration", c)) /\ code' = code
    BY <1>14 DEF Registered
  <2>4. Excuses
    BY <1>0, <1>14 DEF Registered, Excuses, Trails
  <2>. HIDE DEF m
  <2>5. Queued
    BY <2>1, <2>2, <2>3, Plain
  <2>. QED  BY <1>0, <2>3, <2>4, <2>5
<1>15. ASSUME NEW c \in Code, RegistrationFails(c)  PROVE Goal
  <2>1. Queued
    BY <1>0, <1>15, QuietSave DEF RegistrationFails
  <2>. QED  BY <1>0, <1>15, <2>1 DEF RegistrationFails, Excuses, Trails
<1>16. ASSUME NEW next \in Codes, Closes(next)  PROVE Goal
  <2>1. Queued
    BY <1>16, QuietSave DEF Closes
  <2>. QED  BY <1>0, <1>16, <2>1 DEF Closes, Excuses, Trails
<1>17. CASE Ends
  BY <1>0, <1>16, <1>17 DEF Ends
<1>18. CASE Mistakes
  <2>. DEFINE next == [id |-> code.id, live |-> code.failures + 1 < MaxFailures, failures |-> code.failures + 1]
  <2>1. (code.failures + 1 < MaxFailures) \in BOOLEAN /\ code.failures + 1 \in Nat
    BY <1>0 DEF Codes
  <2>2. next \in Codes
    BY <1>0, <2>1 DEF Codes
  <2>. QED  BY <1>16, <1>18, <2>2 DEF Mistakes
<1>19. CASE UNCHANGED vars
  BY <1>0, <1>19 DEF vars, Excuses
<1>. QED
  BY <1>1, <1>2, <1>3, <1>4, <1>5, <1>6, <1>7, <1>8, <1>9, <1>10, <1>11, <1>12, <1>13, <1>14, <1>15, <1>17, <1>18, <1>19
  DEF Next

LEMMA RestartTypes ==
  ASSUME Types, Restarts
  PROVE  /\ StoreTypes' /\ saves' = <<>> /\ vault' \in Vaults
         /\ store' = [memory |-> store.disk, disk |-> store.disk, writing |-> store.disk]
<1>1. /\ store' = [memory |-> store.disk, disk |-> store.disk, writing |-> store.disk] /\ saves' = <<>> /\ code' = Restored
      /\ vault' = [memory |-> vault.disk, disk |-> vault.disk, queue |-> <<>>, stuck |-> FALSE, clearing |-> FALSE]
  BY DEF Restarts
<1>2. store.disk \in Contents /\ store.disk.pairing \in Codes /\ vault.disk \in Records
  BY DEF Types, StoreTypes, Contents, Vaults
<1>3. Restored \in Codes
  BY <1>2, EmptyTypes DEF Restored
<1>. QED  BY <1>1, <1>2, <1>3, EmptySeq DEF StoreTypes, Vaults

LEMMA StoreStays == ASSUME Types, [Next]_vars PROVE StoreTypes'
<1>1. CASE Saved
  BY <1>1, SavedTypes DEF Types
<1>2. CASE SaveFails
  BY <1>2, SaveFailsTypes DEF Types
<1>3. CASE Restarts
  BY <1>3, RestartTypes
<1>4. CASE code' \in Codes /\ Queued
  <2>1. PICK m \in Contents, e \in Entries : Save(m, e)
    BY <1>4 DEF Queued
  <2>. QED  BY <1>4, <2>1, SaveTypes DEF StoreTypes, Types
<1>5. CASE code' \in Codes /\ UNCHANGED <<store, saves>>
  BY <1>5 DEF StoreTypes, Types
<1>. QED  BY <1>1, <1>2, <1>3, <1>4, <1>5, StoreKinds

(***************************************************************************)
(* What a step does to the vault.                                           *)
(***************************************************************************)
Sets ==
  \E n \in Secret \cup Code, v \in Nat \ {0}, by \in {"user", "code"} :
    /\ IF by = "code" THEN n \in Code ELSE n \in Secret
    /\ Set(n, v, by)
    /\ trail'.told = trail.told /\ (trail.mixed \/ vault.clearing => trail'.mixed)

LEMMA VaultKinds ==
  ASSUME Types, [Next]_vars
  PROVE  \/ VaultWritten \/ VaultFails \/ Clears \/ Cleared \/ Restarts \/ Sets
         \/ vault' = vault /\ trail'.told = trail.told /\ trail'.mixed = trail.mixed
<1>. DEFINE Goal == vault' = vault /\ trail'.told = trail.told /\ trail'.mixed = trail.mixed
<1>0. trail \in Trails /\ vault \in Vaults /\ store.writing \in Contents
  BY DEF Types, StoreTypes
<1>1. CASE Saved
  <2>. DEFINE e == Head(saves)
              t == [trail EXCEPT !.gone = @ \cup Closed]
  <2>1. /\ vault' = vault
        /\ trail' = CASE e.what \in {"nonce", "proof"} ->
                           [t EXCEPT !.accepted[e.id] = @ + 1, !.late = IF e.grant \in trail.over THEN @ \cup {e.grant} ELSE @]
                      [] e.what = "end" \/ (e.what = "revoke" /\ StaysRevoked(e.id)) -> [t EXCEPT !.over = @ \cup {e.id}]
                      [] OTHER -> t
    BY <1>1 DEF Saved
  <2>. HIDE DEF e
  <2>2. t.told = trail.told /\ t.mixed = trail.mixed /\ DOMAIN t = DOMAIN trail
    BY <1>0 DEF Trails
  <2>3. "told" \in DOMAIN t /\ "mixed" \in DOMAIN t
    BY <1>0, <2>2 DEF Trails
  <2>. HIDE DEF t
  <2>. QED  BY <2>1, <2>2, <2>3
<1>2. CASE SaveFails
  BY <1>0, <1>2 DEF SaveFails, Trails
<1>3. CASE OtherSaves
  BY <1>3 DEF OtherSaves
<1>4. ASSUME NEW t \in Token, NEW g \in Grant, UsesNonce(t, g) \/ UsesProof(t) \/ Pruned(t)  PROVE Goal
  BY <1>4 DEF UsesNonce, UsesProof, Pruned
<1>5. ASSUME NEW t \in Token, UsesProof(t) \/ Pruned(t)  PROVE Goal
  BY <1>5 DEF UsesProof, Pruned
<1>6. ASSUME NEW g \in Grant, Enrols(g) \/ Revokes(g)  PROVE Goal
  BY <1>0, <1>6 DEF Enrols, Revokes, Trails
<1>7. ASSUME NEW s \in Session, Operates(s) \/ EndsSession(s)  PROVE Goal
  BY <1>0, <1>7 DEF Operates, EndsSession, Accept, Trails
<1>8. ASSUME NEW l \in Lease, LeaseIssued(l) \/ LeaseUsed(l) \/ LeaseChecked(l) \/ LeaseGood(l) \/ LeaseEnds(l) \/ LeaseEnded(l)
      PROVE Goal
  BY <1>0, <1>8 DEF LeaseIssued, LeaseUsed, LeaseChecked, LeaseGood, LeaseEnds, LeaseEnded, LeaseOnly, Accept, Trails
<1>9. ASSUME NEW n \in Secret, SetsSecret(n)  PROVE Sets
  <2>1. vault.memory[n] + 1 \in Nat \ {0}
    BY <1>0 DEF Vaults, Records
  <2>2. trail'.told = trail.told /\ (trail.mixed \/ vault.clearing => trail'.mixed)
    BY <1>0, <1>9 DEF SetsSecret, Trails, Vaults
  <2>3. Set(n, vault.memory[n] + 1, "user")
    BY <1>9 DEF SetsSecret
  <2>. QED  BY <2>1, <2>2, <2>3 DEF Sets
<1>10. ASSUME NEW c \in Code, Issues(c)  PROVE Sets
  <2>1. trail'.told = trail.told /\ (trail.mixed \/ vault.clearing => trail'.mixed)
    BY <1>0, <1>10 DEF Issues, Trails, Vaults
  <2>2. Set(c, 1, "code")
    BY <1>10 DEF Issues
  <2>. QED  BY <2>1, <2>2 DEF Sets
<1>11. ASSUME NEW c \in Code, Registered(c) \/ RegistrationFails(c)  PROVE Goal
  BY <1>0, <1>11 DEF Registered, RegistrationFails, Trails
<1>12. ASSUME NEW next, Closes(next)  PROVE Goal
  BY <1>0, <1>12 DEF Closes, Trails
<1>13. CASE Ends \/ Mistakes
  BY <1>12, <1>13 DEF Ends, Mistakes
<1>14. CASE UNCHANGED vars
  BY <1>14 DEF vars
<1>15. Nonce \subseteq Token /\ Proof \subseteq Token
  BY DEF Token
<1>. QED
  BY <1>1, <1>2, <1>3, <1>4, <1>5, <1>6, <1>7, <1>8, <1>9, <1>10, <1>11, <1>13, <1>14, <1>15 DEF Next

(* The record and its queue after a secret was set. *)
LEMMA SetEffect ==
  ASSUME vault \in Vaults, NEW n \in Secret \cup Code, NEW v \in Nat, NEW by \in {"user", "code"},
         IF by = "code" THEN n \in Code ELSE n \in Secret, Set(n, v, by)
  PROVE  /\ vault' \in Vaults
         /\ vault'.memory = [vault.memory EXCEPT ![n] = v]
         /\ vault'.disk = vault.disk /\ vault'.stuck = vault.stuck /\ vault'.clearing = vault.clearing
         /\ vault.stuck => vault'.queue = vault.queue
         /\ ~vault.stuck => /\ Len(vault'.queue) = Len(vault.queue) + 1
                            /\ \A i \in 1..Len(vault.queue) : vault'.queue[i] = vault.queue[i]
                            /\ vault'.queue[Len(vault.queue) + 1].content = vault'.memory
                            /\ vault'.queue[Len(vault.queue) + 1].name = n
                            /\ vault'.queue[Len(vault.queue) + 1].by = by
<1>. DEFINE memory == [vault.memory EXCEPT ![n] = v]
            w == [content |-> memory, by |-> by, name |-> n]
            queue == IF vault.stuck THEN vault.queue ELSE Append(vault.queue, w)
<1>1. memory \in Records
  BY DEF Vaults, Records
<1>2. w \in Writes
  BY <1>1 DEF Writes
<1>3. w.content = memory /\ w.name = n /\ w.by = by
  OBVIOUS
<1>4. vault' = [memory |-> memory, disk |-> vault.disk, queue |-> queue, stuck |-> vault.stuck, clearing |-> vault.clearing]
  BY DEF Set, Vaults
<1>. HIDE DEF memory, w
<1>5. vault.queue \in Seq(Writes) /\ vault.stuck \in BOOLEAN
  BY DEF Vaults
<1>6. queue \in Seq(Writes)
  BY <1>2, <1>5, AppendProperties
<1>7. vault' \in Vaults
  BY <1>1, <1>4, <1>6 DEF Vaults
<1>8. ~vault.stuck => /\ Len(queue) = Len(vault.queue) + 1
                      /\ \A i \in 1..Len(vault.queue) : queue[i] = vault.queue[i]
                      /\ queue[Len(vault.queue) + 1] = w
  BY <1>2, <1>5, AppendProperties
<1>. QED  BY <1>3, <1>4, <1>7, <1>8 DEF memory

(* The first write of the queue reaches the file. *)
LEMMA WrittenEffect ==
  ASSUME vault \in Vaults, trail \in Trails, VaultWritten
  PROVE  /\ vault.queue # <<>> /\ vault.queue[1] \in Writes
         /\ vault' \in Vaults /\ vault'.memory = vault.memory /\ vault'.disk = vault.queue[1].content
         /\ vault'.stuck = vault.stuck /\ vault'.clearing = vault.clearing
         /\ Len(vault'.queue) = Len(vault.queue) - 1
         /\ \A i \in 1..Len(vault'.queue) : vault'.queue[i] = vault.queue[i + 1]
         /\ LET w == vault.queue[1] IN trail' = [trail EXCEPT !.told[w.name] = w.content[w.name]]
<1>. DEFINE w == vault.queue[1]
<1>1. /\ 1 \in 1..Len(vault.queue)
      /\ vault' = [vault EXCEPT !.disk = w.content, !.queue = RemoveAt(@, 1)]
      /\ trail' = [trail EXCEPT !.told[w.name] = w.content[w.name]]
  BY DEF VaultWritten, Turn, AnyTurn
<1>2. vault.queue \in Seq(Writes) /\ Len(vault.queue) \in Nat
  BY LenProperties DEF Vaults
<1>3. w \in Writes /\ vault.queue # <<>>
  BY <1>1, <1>2, EmptySeq
<1>4. RemoveAt(vault.queue, 1) = Tail(vault.queue)
  <2>1. SubSeq(vault.queue, 1, 1 - 1) = <<>>
    BY SubSeqEmpty
  <2>2. SubSeq(vault.queue, 1 + 1, Len(vault.queue)) = Tail(vault.queue)
    <3>1. Tail(vault.queue) = SubSeq(vault.queue, 2, Len(vault.queue))
      BY <1>2, <1>3, TailIsSubSeq
    <3>2. 1 + 1 = 2
      OBVIOUS
    <3>. QED  BY <3>1, <3>2
  <2>3. Tail(vault.queue) \in Seq(Writes)
    BY <1>2, <1>3, HeadTailProperties
  <2>. QED  BY <2>1, <2>2, <2>3, ConcatEmptySeq DEF RemoveAt
<1>5. /\ Tail(vault.queue) \in Seq(Writes) /\ Len(Tail(vault.queue)) = Len(vault.queue) - 1
      /\ \A i \in 1..Len(Tail(vault.queue)) : Tail(vault.queue)[i] = vault.queue[i + 1]
  BY <1>2, <1>3, HeadTailProperties
<1>6. w.content \in Records
  BY <1>3 DEF Writes
<1>. HIDE DEF w
<1>7. vault' = [memory |-> vault.memory, disk |-> w.content, queue |-> Tail(vault.queue), stuck |-> vault.stuck, clearing |-> vault.clearing]
  BY <1>1, <1>4 DEF Vaults
<1>8. vault' \in Vaults
  BY <1>5, <1>6, <1>7 DEF Vaults
<1>9. /\ vault'.memory = vault.memory /\ vault'.disk = w.content /\ vault'.queue = Tail(vault.queue)
      /\ vault'.stuck = vault.stuck /\ vault'.clearing = vault.clearing
  BY <1>7
<1>10. vault.queue # <<>> /\ vault.queue[1] \in Writes /\ vault'.disk = vault.queue[1].content
  BY <1>3, <1>9 DEF w
<1>11. LET v == vault.queue[1] IN trail' = [trail EXCEPT !.told[v.name] = v.content[v.name]]
  BY <1>1 DEF w
<1>. QED  BY <1>5, <1>8, <1>9, <1>10, <1>11

LEMMA NoSecretsType == NoSecrets \in Records
BY DEF NoSecrets, Records

LEMMA VaultStays == ASSUME Types, [Next]_vars PROVE vault' \in Vaults
<1>0. vault \in Vaults /\ trail \in Trails
  BY DEF Types
<1>1. CASE VaultFails \/ Clears \/ Cleared
  BY <1>0, <1>1, NoSecretsType, EmptySeq DEF VaultFails, Clears, Cleared, Vaults
<1>2. CASE Sets
  BY <1>0, <1>2, SetEffect DEF Sets
<1>. QED  BY <1>0, <1>1, <1>2, VaultKinds, WrittenEffect, RestartTypes

LEMMA TrailStays == ASSUME Types, [Next]_vars PROVE trail' \in Trails
<1>0. trail \in Trails /\ vault \in Vaults /\ code.id \in Ids /\ store.memory \in Contents /\ store.writing \in Contents
      /\ 1..MaxCode \subseteq Ids /\ 0 \in Ids
  BY AccessAssumption DEF Types, StoreTypes, Codes, Ids
<1>1. \A m \in Contents : Loses(m) \subseteq Ids
  <2>. TAKE m \in Contents
  <2>1. store.memory.pairing.id \in 0..MaxCode
    BY <1>0 DEF Contents, Codes
  <2>2. 1..store.memory.pairing.id \subseteq Ids
    BY <1>0, <2>1, AccessAssumption
  <2>3. store.memory.used \subseteq Ids /\ store.memory.ended \subseteq Ids /\ Grant \subseteq Ids
    BY <1>0 DEF Contents, Ids, Token
  <2>. QED  BY <2>2, <2>3 DEF Loses
<1>2. CASE Saved
  <2>. DEFINE e == Head(saves)
              t == [trail EXCEPT !.gone = @ \cup Closed]
  <2>1. /\ trail' = CASE e.what \in {"nonce", "proof"} ->
                           [t EXCEPT !.accepted[e.id] = @ + 1, !.late = IF e.grant \in trail.over THEN @ \cup {e.grant} ELSE @]
                      [] e.what = "end" \/ (e.what = "revoke" /\ StaysRevoked(e.id)) -> [t EXCEPT !.over = @ \cup {e.id}]
                      [] OTHER -> t
    BY <1>2 DEF Saved
  <2>2. e = saves[1] /\ e \in Entries
    BY <1>2, SavedTypes DEF Types
  <2>3. store.writing.pairing.id \in 0..MaxCode
    BY <1>0 DEF Contents, Codes
  <2>4. Closed \subseteq Ids
    <3>1. 1..store.writing.pairing.id \subseteq Ids
      BY <1>0, <2>3, AccessAssumption
    <3>. QED  BY <3>1 DEF Closed
  <2>5. t \in Trails /\ t.over = trail.over
    BY <1>0, <2>4 DEF Trails
  <2>. HIDE DEF e, t
  <2>6. CASE e.what \in {"nonce", "proof"}
    <3>1. e.id \in Token
      BY <2>2, <2>6, EntryFields DEF Things, Token
    <3>2. [t.accepted EXCEPT ![e.id] = @ + 1] \in [Token -> Nat]
      BY <2>5, <3>1 DEF Trails
    <3>3. (IF e.grant \in trail.over THEN t.late \cup {e.grant} ELSE t.late) \subseteq Ids
      BY <1>0, <2>5 DEF Trails
    <3>4. trail' = [t EXCEPT !.accepted = [t.accepted EXCEPT ![e.id] = @ + 1],
                             !.late = IF e.grant \in trail.over THEN t.late \cup {e.grant} ELSE t.late]
      BY <2>1, <2>5, <2>6 DEF Trails
    <3>. QED  BY <2>5, <3>2, <3>3, <3>4 DEF Trails
  <2>7. CASE e.what \in {"end", "revoke"}
    <3>1. e.id \in Ids
      BY <2>2, <2>7, EntryFields DEF Things, Ids
    <3>2. trail' = t \/ trail' = [t EXCEPT !.over = @ \cup {e.id}]
      BY <2>1, <2>7
    <3>. QED  BY <2>5, <3>1, <3>2 DEF Trails
  <2>8. CASE e.what \notin {"nonce", "proof", "end", "revoke"}
    BY <2>1, <2>5, <2>8
  <2>. QED  BY <2>6, <2>7, <2>8
<1>3. CASE SaveFails
  <2>1. Head(saves) = saves[1] /\ saves[1] \in Entries
    <3>1. saves \in Seq(Entries) /\ saves # <<>>
      BY <1>3 DEF SaveFails, Types, StoreTypes
    <3>. QED  BY <3>1, SaveFailsTypes, <1>3 DEF Types
  <2>2. Loses(Head(saves).before) \subseteq Ids
    BY <1>1, <2>1, EntryFields
  <2>3. \/ trail' = trail
        \/ trail' = [trail EXCEPT !.undone = @ \cup Loses(Head(saves).before)]
        \/ trail' = [trail EXCEPT !.dead = @ \cup {code.id}]
    BY <1>3 DEF SaveFails
  <2>. QED  BY <1>0, <2>2, <2>3 DEF Trails
<1>4. ASSUME NEW t \in Token, NEW g \in Grant, UsesNonce(t, g)  PROVE trail' \in Trails
  BY <1>0, <1>4 DEF UsesNonce
<1>5. ASSUME NEW t \in Token, UsesProof(t) \/ Pruned(t)  PROVE trail' \in Trails
  BY <1>0, <1>5 DEF UsesProof, Pruned
<1>6. ASSUME NEW g \in Grant, Enrols(g) \/ Revokes(g)  PROVE trail' \in Trails
  BY <1>0, <1>6 DEF Enrols, Revokes, Trails
<1>7. ASSUME NEW s \in Session, Operates(s) \/ EndsSession(s)  PROVE trail' \in Trails
  <2>1. s \in Ids
    BY DEF Ids
  <2>. QED  BY <1>0, <1>7, <2>1 DEF Operates, EndsSession, Accept, Trails
<1>8. ASSUME NEW l \in Lease, LeaseIssued(l) \/ LeaseUsed(l) \/ LeaseChecked(l) \/ LeaseGood(l) \/ LeaseEnds(l) \/ LeaseEnded(l)
      PROVE trail' \in Trails
  <2>1. l \in Ids
    BY DEF Ids
  <2>. QED  BY <1>0, <1>8, <2>1 DEF LeaseIssued, LeaseUsed, LeaseChecked, LeaseGood, LeaseEnds, LeaseEnded, LeaseOnly, Accept, Trails
<1>9. ASSUME NEW n \in Secret, SetsSecret(n)  PROVE trail' \in Trails
  BY <1>0, <1>9 DEF SetsSecret, Trails, Vaults
<1>10. CASE VaultWritten
  <2>. DEFINE w == vault.queue[1]
  <2>1. w \in Writes /\ trail' = [trail EXCEPT !.told[w.name] = w.content[w.name]]
    BY <1>0, <1>10, WrittenEffect
  <2>2. w.name \in Secret \cup Code /\ w.content \in Records
    BY <2>1 DEF Writes
  <2>. HIDE DEF w
  <2>3. [trail.told EXCEPT ![w.name] = w.content[w.name]] \in Records
    BY <1>0, <2>2 DEF Trails, Records
  <2>. QED  BY <1>0, <2>1, <2>3 DEF Trails
<1>11. CASE VaultFails
  BY <1>0, <1>11 DEF VaultFails
<1>12. CASE Clears
  <2>1. Code \subseteq Ids
    BY <1>0 DEF Code
  <2>2. (trail.mixed \/ vault.queue # <<>>) \in BOOLEAN
    BY <1>0 DEF Trails
  <2>3. trail' = [trail EXCEPT !.mixed = trail.mixed \/ vault.queue # <<>>, !.undone = @ \cup Code]
    BY <1>0, <1>12 DEF Clears, Trails
  <2>. QED  BY <1>0, <2>1, <2>2, <2>3 DEF Trails
<1>13. CASE Cleared
  <2>1. trail' = [trail EXCEPT !.told = NoSecrets, !.undone = @ \cup Loses(Empty)]
    BY <1>13 DEF Cleared
  <2>2. Loses(Empty) \subseteq Ids
    BY <1>1, EmptyTypes
  <2>. QED  BY <1>0, <2>1, <2>2, NoSecretsType DEF Trails
<1>14. ASSUME NEW c \in Code, Issues(c)  PROVE trail' \in Trails
  <2>. DEFINE former == 1..(c - 1)
              mixed == trail.mixed \/ vault.clearing
  <2>1. former \subseteq Ids
    BY <1>0, AccessAssumption DEF Code
  <2>2. trail' = [trail EXCEPT !.dead = @ \cup former, !.mixed = mixed]
    BY <1>0, <1>14 DEF Issues, Trails
  <2>3. mixed \in BOOLEAN
    BY <1>0 DEF Trails, Vaults
  <2>4. trail' = [accepted |-> trail.accepted, over |-> trail.over, late |-> trail.late, dead |-> trail.dead \cup former,
                  gone |-> trail.gone, undone |-> trail.undone, told |-> trail.told, mixed |-> mixed]
    BY <1>0, <2>2 DEF Trails
  <2>. HIDE DEF former, mixed
  <2>. QED  BY <1>0, <2>1, <2>3, <2>4 DEF Trails
<1>15. ASSUME NEW c \in Code, Registered(c) \/ RegistrationFails(c)  PROVE trail' \in Trails
  <2>1. c \in Ids
    BY <1>0 DEF Code
  <2>2. store.memory.pairing.id \in Ids
    BY <1>0 DEF Contents, Codes, Ids
  <2>3. CASE Registered(c)
    BY <1>0, <2>2, <2>3 DEF Registered, Trails
  <2>4. CASE RegistrationFails(c)
    <3>. DEFINE undone == IF code.id # c THEN trail.undone \cup {code.id} ELSE trail.undone
    <3>1. undone \subseteq Ids
      BY <1>0 DEF Trails
    <3>2. trail' = [trail EXCEPT !.dead = @ \cup {c}, !.undone = undone]
      BY <2>4 DEF RegistrationFails
    <3>. HIDE DEF undone
    <3>. QED  BY <1>0, <2>1, <3>1, <3>2 DEF Trails
  <2>. QED  BY <1>15, <2>3, <2>4
<1>16. ASSUME NEW next, Closes(next)  PROVE trail' \in Trails
  BY <1>0, <1>16 DEF Closes, Trails
<1>17. CASE Ends \/ Mistakes
  BY <1>16, <1>17 DEF Ends, Mistakes
<1>18. CASE Restarts
  BY <1>0, <1>18 DEF Restarts, Trails
<1>19. CASE OtherSaves \/ UNCHANGED vars
  BY <1>0, <1>19 DEF OtherSaves, vars
<1>20. Nonce \subseteq Token /\ Proof \subseteq Token
  BY DEF Token
<1>. QED
  BY <1>2, <1>3, <1>4, <1>5, <1>6, <1>7, <1>8, <1>9, <1>10, <1>11, <1>12, <1>13, <1>14, <1>15, <1>17, <1>18, <1>19, <1>20
  DEF Next

LEMMA InitTypes == Init => Types
<1>. SUFFICES ASSUME Init PROVE Types
  OBVIOUS
<1>1. StoreTypes
  BY InitStore
<1>2. vault \in Vaults
  BY NoSecretsType, EmptySeq DEF Init, Vaults
<1>3. trail \in Trails
  BY NoSecretsType DEF Init, Trails
<1>. QED  BY <1>1, <1>2, <1>3 DEF Types

LEMMA TypesStay == ASSUME Types, [Next]_vars PROVE Types'
BY StoreStays, VaultStays, TrailStays DEF Types

THEOREM TypesAlways == Spec => []Types
<1>1. Init => Types
  BY InitTypes
<1>2. Types /\ [Next]_vars => Types'
  BY TypesStay
<1>. QED  BY <1>1, <1>2, PTL DEF Spec

(***************************************************************************)
(* Tokens.  The save that awaits a token's mark is alone, and its mark is   *)
(* in the memory, in what is written when its turn comes, and then on the   *)
(* disk; a roll back that takes a mark away is remembered.                  *)
(***************************************************************************)
Awaited(t) == {i \in 1..Len(saves) : saves[i].what \in {"nonce", "proof"} /\ saves[i].id = t}
Mark(t) ==
  /\ trail.accepted[t] <= 1
  /\ \A i, j \in Awaited(t) : i = j
  /\ Awaited(t) # {} => trail.accepted[t] = 0 /\ t \in store.memory.used
  /\ 1 \in Awaited(t) => t \in store.writing.used
  /\ trail.accepted[t] = 1 => t \in store.memory.used /\ t \in store.disk.used /\ (Len(saves) > 0 => t \in store.writing.used)
Marks == \A t \in Token : t \in trail.undone \/ Mark(t)

LEMMA SavedTrail ==
  ASSUME Types, Saved
  PROVE  /\ trail'.undone = trail.undone
         /\ trail'.accepted = IF saves[1].what \in {"nonce", "proof"} THEN [trail.accepted EXCEPT ![saves[1].id] = @ + 1]
                              ELSE trail.accepted
<1>. DEFINE e == Head(saves)
            t == [trail EXCEPT !.gone = @ \cup Closed]
<1>1. /\ trail' = CASE e.what \in {"nonce", "proof"} ->
                         [t EXCEPT !.accepted[e.id] = @ + 1, !.late = IF e.grant \in trail.over THEN @ \cup {e.grant} ELSE @]
                    [] e.what = "end" \/ (e.what = "revoke" /\ StaysRevoked(e.id)) -> [t EXCEPT !.over = @ \cup {e.id}]
                    [] OTHER -> t
  BY DEF Saved
<1>2. e = saves[1]
  BY SavedTypes DEF Types
<1>3. trail \in Trails
  BY DEF Types
<1>4. /\ t.undone = trail.undone /\ t.accepted = trail.accepted
      /\ "undone" \in DOMAIN t /\ "accepted" \in DOMAIN t
  BY <1>3 DEF Trails
<1>. HIDE DEF e, t
<1>5. CASE e.what \in {"nonce", "proof"}
  <2>. DEFINE late == IF e.grant \in trail.over THEN t.late \cup {e.grant} ELSE t.late
              accepted == [t.accepted EXCEPT ![e.id] = @ + 1]
  <2>1. trail' = [t EXCEPT !.accepted = accepted, !.late = late]
    BY <1>1, <1>5
  <2>. HIDE DEF late, accepted
  <2>2. trail'.undone = t.undone /\ trail'.accepted = accepted
    BY <1>4, <2>1
  <2>. QED  BY <1>2, <1>4, <1>5, <2>2 DEF accepted
<1>6. CASE e.what \notin {"nonce", "proof"}
  BY <1>1, <1>2, <1>4, <1>6
<1>. QED  BY <1>5, <1>6

LEMMA MarkStays ==
  ASSUME Types, [Next]_vars, NEW t \in Token, t \in trail.undone \/ Mark(t)
  PROVE  t \in trail'.undone \/ Mark(t)'
<1>0. /\ saves \in Seq(Entries) /\ Len(saves) \in Nat /\ trail \in Trails /\ trail.accepted[t] \in Nat
      /\ store.memory \in Contents
  BY LenProperties DEF Types, StoreTypes, Trails
<1>1. CASE Saved
  <2>1. /\ Len(saves) > 0 /\ saves' \in Seq(Entries) /\ Len(saves') = Len(saves) - 1
        /\ \A i \in 1..Len(saves') : saves'[i] = saves[i + 1]
        /\ store' = [memory |-> store.memory, disk |-> store.writing, writing |-> store.memory]
    BY <1>0, <1>1, SavedTypes, EmptySeq DEF Types
  <2>2. \A i \in Awaited(t)' : i + 1 \in Awaited(t) /\ i \in 1..Len(saves')
    BY <1>0, <2>1 DEF Awaited
  <2>3. store'.memory = store.memory /\ store'.disk = store.writing /\ store'.writing = store.memory
    BY <2>1
  <2>4. /\ trail'.undone = trail.undone
        /\ trail'.accepted[t] = IF 1 \in Awaited(t) THEN trail.accepted[t] + 1 ELSE trail.accepted[t]
    <3>1. 1 \in Awaited(t) <=> saves[1].what \in {"nonce", "proof"} /\ saves[1].id = t
      BY <1>0, <2>1 DEF Awaited
    <3>2. trail.accepted \in [Token -> Nat]
      BY <1>0 DEF Trails
    <3>. QED  BY <1>1, <3>1, <3>2, SavedTrail
  <2>5. CASE t \in trail.undone
    BY <2>4, <2>5
  <2>6. CASE Mark(t) /\ 1 \in Awaited(t)
    <3>1. Awaited(t)' = {}
      <4>1. \A i \in Awaited(t)' : i + 1 = 1 /\ i \in Nat /\ i >= 1
        BY <2>2, <2>6 DEF Mark
      <4>. QED  BY <4>1
    <3>. QED  BY <1>0, <2>3, <2>4, <2>6, <3>1 DEF Mark
  <2>7. CASE Mark(t) /\ 1 \notin Awaited(t)
    <3>1. \A i, j \in Awaited(t)' : i = j
      <4>1. \A i, j \in Awaited(t)' : i + 1 = j + 1 /\ i \in Nat /\ j \in Nat
        BY <2>2, <2>7 DEF Mark
      <4>. QED  BY <4>1
    <3>2. Awaited(t)' # {} => Awaited(t) # {}
      BY <2>2
    <3>. QED  BY <1>0, <2>1, <2>3, <2>4, <2>7, <3>1, <3>2 DEF Mark
  <2>. QED  BY <2>5, <2>6, <2>7
<1>2. CASE SaveFails
  <2>1. /\ Len(saves) > 0 /\ saves[1] \in Entries
        /\ saves' \in Seq(Entries) /\ Len(saves') \in {Len(saves) - 1, Len(saves)}
        /\ \A i \in 1..(Len(saves) - 1) : saves'[i] = saves[i + 1]
        /\ Len(saves') = Len(saves) => saves'[Len(saves)].what = "quiet"
        /\ store'.disk = store.disk
        /\ saves[1].what = "other" => store'.memory = saves[1].before
        /\ saves[1].what # "other" => store'.memory.used = store.memory.used
        /\ store'.writing \in {store.memory, store'.memory}
    BY <1>0, <1>2, SaveFailsTypes, EmptySeq DEF Types
  <2>2. /\ trail'.accepted = trail.accepted /\ trail.undone \subseteq trail'.undone
        /\ saves[1].what = "other" => Loses(saves[1].before) \subseteq trail'.undone
    <3>1. saves[1] = Head(saves)
      BY <1>0, <2>1, EmptySeq, HeadTailProperties
    <3>. QED  BY <1>0, <1>2, <3>1 DEF SaveFails, Trails
  <2>3. t \in store.memory.used => t \in trail'.undone \/ (t \in store'.memory.used /\ t \in store'.writing.used)
    BY <2>1, <2>2 DEF Loses
  <2>4. \A i \in Awaited(t)' : i + 1 \in Awaited(t) /\ i \in 1..Len(saves')
    BY <1>0, <2>1 DEF Awaited
  <2>5. CASE t \in trail.undone
    BY <2>2, <2>5
  <2>6. CASE Mark(t)
    <3>1. \A i, j \in Awaited(t)' : i = j
      <4>1. \A i, j \in Awaited(t)' : i + 1 = j + 1 /\ i \in Nat /\ j \in Nat
        BY <2>4, <2>6 DEF Mark
      <4>. QED  BY <4>1
    <3>2. Awaited(t)' # {} => Awaited(t) # {}
      BY <2>4
    <3>. QED  BY <1>0, <2>1, <2>2, <2>3, <2>6, <3>1, <3>2 DEF Mark
  <2>. QED  BY <2>5, <2>6
<1>3. CASE Restarts
  <2>1. /\ saves' = <<>> /\ store'.memory = store.disk /\ store'.disk = store.disk
        /\ trail'.accepted = trail.accepted /\ trail'.undone = trail.undone
    <3>1. saves' = <<>> /\ store' = [memory |-> store.disk, disk |-> store.disk, writing |-> store.disk]
      BY <1>3, RestartTypes
    <3>. QED  BY <1>0, <1>3, <3>1 DEF Restarts, Trails
  <2>2. Len(saves') = 0 /\ Awaited(t)' = {}
    BY <2>1, EmptySeq DEF Awaited
  <2>. QED  BY <2>1, <2>2 DEF Mark
<1>4. CASE Excuses /\ Queued
  <2>1. PICK m \in Contents, e \in Entries :
          /\ Save(m, e)
          /\ store.memory.used \ m.used \subseteq trail'.undone
          /\ e.what \in {"nonce", "proof"} => e.id \notin store.memory.used /\ e.id \in m.used
    BY <1>4 DEF Queued
  <2>2. /\ store'.memory = m /\ store'.disk = store.disk
        /\ store'.writing = IF Len(saves) = 0 THEN m ELSE store.writing
        /\ Len(saves') = Len(saves) + 1 /\ saves'[Len(saves) + 1] = e
        /\ \A i \in 1..Len(saves) : saves'[i] = saves[i]
    BY <1>0, <2>1, SaveTypes, EmptySeq DEF Types
  <2>3. trail'.accepted = trail.accepted /\ trail.undone \subseteq trail'.undone
    BY <1>4 DEF Excuses
  <2>4. Awaited(t)' = Awaited(t) \cup (IF e.what \in {"nonce", "proof"} /\ e.id = t THEN {Len(saves) + 1} ELSE {})
    BY <1>0, <2>2 DEF Awaited
  <2>5. CASE t \in trail.undone
    BY <2>3, <2>5
  <2>6. CASE Mark(t) /\ e.what \in {"nonce", "proof"} /\ e.id = t
    <3>1. Awaited(t) = {} /\ trail.accepted[t] = 0 /\ t \in m.used
      BY <1>0, <2>1, <2>6 DEF Mark
    <3>2. Awaited(t)' = {Len(saves) + 1}
      BY <2>4, <2>6, <3>1
    <3>. QED  BY <1>0, <2>2, <2>3, <3>1, <3>2 DEF Mark
  <2>7. CASE Mark(t) /\ ~(e.what \in {"nonce", "proof"} /\ e.id = t)
    <3>1. Awaited(t)' = Awaited(t)
      BY <2>4, <2>7
    <3>2. t \in store.memory.used => t \in trail'.undone \/ t \in m.used
      BY <2>1
    <3>3. 1 \in Awaited(t) => Len(saves) # 0
      BY <1>0 DEF Awaited
    <3>. QED  BY <1>0, <2>2, <2>3, <2>7, <3>1, <3>2, <3>3 DEF Mark
  <2>. QED  BY <2>5, <2>6, <2>7
<1>5. CASE Excuses /\ UNCHANGED <<store, saves>>
  BY <1>5 DEF Excuses, Mark, Awaited
<1>. QED  BY <1>1, <1>2, <1>3, <1>4, <1>5, StoreKinds

(* offlineLanAuthorizer.js:99-102, stepUpProofVerifier.js:34-44: a nonce or proof is
   accepted once, whatever else is saved, fails or restarts meanwhile. *)
THEOREM UsedOnceAlways == Spec => []UsedOnce
<1>1. Init => Marks
  <2>. SUFFICES ASSUME Init, NEW t \in Token PROVE Mark(t)
    BY DEF Marks
  <2>1. Len(saves) = 0 /\ Awaited(t) = {} /\ trail.accepted[t] = 0
    BY EmptySeq DEF Init, Awaited
  <2>. QED  BY <2>1 DEF Mark
<1>2. Types /\ Marks /\ [Next]_vars => Marks'
  BY MarkStays DEF Marks
<1>3. Types /\ Marks => UsedOnce
  BY DEF Marks, Mark, UsedOnce
<1>. QED  BY <1>1, <1>2, <1>3, TypesAlways, PTL DEF Spec

(***************************************************************************)
(* Secrets.  Each write that waits differs from the one before it in one    *)
(* record, the file has what was answered, and the memory is what the last  *)
(* write will leave there unless writes are rejected.                       *)
(***************************************************************************)
Earlier(v, i) == IF i = 1 THEN v.disk ELSE v.queue[i - 1].content
Kept ==
  \/ trail.mixed
  \/ /\ \A n \in Secret : vault.disk[n] = trail.told[n]
     /\ \A i \in 1..Len(vault.queue) : \A n \in Secret : n # vault.queue[i].name => vault.queue[i].content[n] = Earlier(vault, i)[n]
     /\ vault.clearing => Len(vault.queue) = 0 /\ vault.memory = NoSecrets
     /\ ~vault.stuck /\ ~vault.clearing => vault.memory = Earlier(vault, Len(vault.queue) + 1)

LEMMA KeptStays == ASSUME Types, [Next]_vars, Kept PROVE Kept'
<1>0. /\ vault \in Vaults /\ trail \in Trails /\ vault.queue \in Seq(Writes) /\ Len(vault.queue) \in Nat
      /\ vault.disk \in Records /\ vault.memory \in Records /\ trail.told \in Records
  BY LenProperties DEF Types, Vaults, Trails
<1>1. CASE VaultWritten
  <2>. DEFINE w == vault.queue[1]
  <2>1. /\ Len(vault.queue) > 0 /\ w \in Writes
        /\ vault'.memory = vault.memory /\ vault'.disk = w.content
        /\ vault'.stuck = vault.stuck /\ vault'.clearing = vault.clearing
        /\ Len(vault'.queue) = Len(vault.queue) - 1
        /\ \A i \in 1..Len(vault'.queue) : vault'.queue[i] = vault.queue[i + 1]
        /\ trail' = [trail EXCEPT !.told[w.name] = w.content[w.name]]
    BY <1>0, <1>1, WrittenEffect, EmptySeq
  <2>2. trail'.mixed = trail.mixed /\ trail'.told = [trail.told EXCEPT ![w.name] = w.content[w.name]]
    BY <1>0, <2>1 DEF Trails
  <2>3. CASE trail.mixed
    BY <2>2, <2>3 DEF Kept
  <2>4. CASE ~trail.mixed
    <3>1. \A n \in Secret : vault'.disk[n] = trail'.told[n]
      <4>1. \A n \in Secret : n # w.name => w.content[n] = trail.told[n]
        BY <1>0, <2>1, <2>4 DEF Kept, Earlier
      <4>. HIDE DEF w
      <4>. QED  BY <1>0, <2>1, <2>2, <4>1 DEF Records
    <3>2. \A i \in 1..(Len(vault'.queue) + 1) : Earlier(vault', i) = Earlier(vault, i + 1)
      <4>. TAKE i \in 1..(Len(vault'.queue) + 1)
      <4>1. CASE i = 1
        BY <2>1, <4>1 DEF Earlier
      <4>2. CASE i # 1
        <5>1. i - 1 \in 1..Len(vault'.queue) /\ i - 1 + 1 = i /\ i + 1 # 1 /\ i + 1 - 1 = i
          <6>1. Len(vault'.queue) \in Nat
            BY <1>0, <2>1
          <6>. QED  BY <4>2, <6>1
        <5>2. vault'.queue[i - 1] = vault.queue[i]
          BY <2>1, <5>1
        <5>. QED  BY <4>2, <5>1, <5>2 DEF Earlier
      <4>. QED  BY <4>1, <4>2
    <3>3. \A i \in 1..Len(vault'.queue) : \A n \in Secret :
            n # vault'.queue[i].name => vault'.queue[i].content[n] = Earlier(vault', i)[n]
      <4>. TAKE i \in 1..Len(vault'.queue)
      <4>1. i + 1 \in 1..Len(vault.queue) /\ i \in 1..(Len(vault'.queue) + 1) /\ vault'.queue[i] = vault.queue[i + 1]
        BY <1>0, <2>1
      <4>2. Earlier(vault', i) = Earlier(vault, i + 1)
        BY <3>2, <4>1
      <4>. QED  BY <2>4, <4>1, <4>2 DEF Kept
    <3>4. ~vault'.stuck /\ ~vault'.clearing => vault'.memory = Earlier(vault, Len(vault.queue) + 1)
      BY <2>1, <2>4 DEF Kept
    <3>5. Earlier(vault', Len(vault'.queue) + 1) = Earlier(vault, Len(vault.queue) + 1)
      <4>1. Len(vault'.queue) + 1 \in 1..(Len(vault'.queue) + 1) /\ Len(vault'.queue) + 1 + 1 = Len(vault.queue) + 1
        BY <1>0, <2>1
      <4>. QED  BY <3>2, <4>1 DEF Earlier
    <3>6. ~vault'.clearing
      BY <1>0, <2>1, <2>4 DEF Kept
    <3>. QED  BY <3>1, <3>3, <3>4, <3>5, <3>6 DEF Kept
  <2>. QED  BY <2>3, <2>4
<1>2. CASE VaultFails
  <2>1. /\ vault'.disk = vault.disk /\ vault'.memory = vault.memory /\ vault'.clearing = vault.clearing
        /\ vault'.stuck = TRUE /\ vault'.queue = <<>> /\ trail' = trail
    BY <1>0, <1>2 DEF VaultFails, Vaults
  <2>. QED  BY <2>1, EmptySeq DEF Kept, Earlier
<1>3. CASE Clears
  <2>1. /\ vault'.disk = vault.disk /\ vault'.memory = NoSecrets /\ vault'.clearing = TRUE /\ vault'.queue = vault.queue
        /\ trail'.told = trail.told /\ (trail.mixed \/ vault.queue # <<>> => trail'.mixed)
    BY <1>0, <1>3 DEF Clears, Vaults, Trails
  <2>2. vault.queue = <<>> => Len(vault.queue) = 0
    BY EmptySeq
  <2>. QED  BY <2>1, <2>2 DEF Kept, Earlier
<1>4. CASE Cleared
  <2>1. /\ vault.clearing /\ vault'.disk = NoSecrets /\ vault'.memory = vault.memory /\ vault'.clearing = FALSE
        /\ vault'.queue = vault.queue /\ trail'.told = NoSecrets /\ trail'.mixed = trail.mixed
    BY <1>0, <1>4 DEF Cleared, Vaults, Trails
  <2>. QED  BY <2>1 DEF Kept, Earlier
<1>5. CASE Restarts
  <2>1. /\ vault'.disk = vault.disk /\ vault'.memory = vault.disk /\ vault'.clearing = FALSE /\ vault'.queue = <<>>
        /\ trail'.told = trail.told /\ trail'.mixed = trail.mixed
    BY <1>0, <1>5 DEF Restarts, Trails
  <2>. QED  BY <2>1, EmptySeq DEF Kept, Earlier
<1>6. CASE Sets
  <2>1. PICK n \in Secret \cup Code, v \in Nat \ {0}, by \in {"user", "code"} :
          /\ IF by = "code" THEN n \in Code ELSE n \in Secret
          /\ Set(n, v, by)
          /\ trail'.told = trail.told /\ (trail.mixed \/ vault.clearing => trail'.mixed)
    BY <1>6 DEF Sets
  <2>2. /\ vault'.memory = [vault.memory EXCEPT ![n] = v]
        /\ vault'.disk = vault.disk /\ vault'.stuck = vault.stuck /\ vault'.clearing = vault.clearing
        /\ vault.stuck => vault'.queue = vault.queue
        /\ ~vault.stuck => /\ Len(vault'.queue) = Len(vault.queue) + 1
                           /\ \A i \in 1..Len(vault.queue) : vault'.queue[i] = vault.queue[i]
                           /\ vault'.queue[Len(vault.queue) + 1].content = vault'.memory
                           /\ vault'.queue[Len(vault.queue) + 1].name = n
    BY <1>0, <2>1, SetEffect
  <2>3. CASE trail.mixed \/ vault.clearing
    BY <2>1, <2>3 DEF Kept
  <2>4. CASE ~trail.mixed /\ ~vault.clearing /\ vault.stuck
    BY <2>1, <2>2, <2>4 DEF Kept, Earlier
  <2>5. CASE ~trail.mixed /\ ~vault.clearing /\ ~vault.stuck
    <3>1. \A i \in 1..(Len(vault.queue) + 1) : Earlier(vault', i) = Earlier(vault, i)
      <4>. TAKE i \in 1..(Len(vault.queue) + 1)
      <4>1. i # 1 => i - 1 \in 1..Len(vault.queue)
        BY <1>0
      <4>. QED  BY <2>2, <2>5, <4>1 DEF Earlier
    <3>2. \A i \in 1..Len(vault'.queue) : \A m \in Secret :
            m # vault'.queue[i].name => vault'.queue[i].content[m] = Earlier(vault', i)[m]
      <4>. TAKE i \in 1..Len(vault'.queue)
      <4>1. i \in 1..(Len(vault.queue) + 1)
        BY <2>2, <2>5
      <4>2. Earlier(vault', i) = Earlier(vault, i)
        BY <3>1, <4>1
      <4>3. CASE i \in 1..Len(vault.queue)
        BY <2>2, <2>5, <4>2, <4>3 DEF Kept
      <4>4. CASE i = Len(vault.queue) + 1
        <5>1. vault.memory = Earlier(vault, i)
          BY <2>5, <4>4 DEF Kept
        <5>2. \A m \in Secret : m # n => vault'.memory[m] = vault.memory[m]
          BY <1>0, <2>2 DEF Records
        <5>3. vault'.queue[i].content = vault'.memory /\ vault'.queue[i].name = n
          BY <2>2, <2>5, <4>4
        <5>. QED  BY <4>2, <5>1, <5>2, <5>3
      <4>. QED  BY <1>0, <4>1, <4>3, <4>4
    <3>3. Earlier(vault', Len(vault'.queue) + 1) = vault'.memory
      BY <1>0, <2>2, <2>5 DEF Earlier
    <3>4. \A m \in Secret : vault'.disk[m] = trail'.told[m]
      BY <2>1, <2>2, <2>5 DEF Kept
    <3>. QED  BY <2>2, <2>5, <3>2, <3>3, <3>4 DEF Kept
  <2>. QED  BY <2>3, <2>4, <2>5
<1>7. CASE vault' = vault /\ trail'.told = trail.told /\ trail'.mixed = trail.mixed
  BY <1>7 DEF Kept, Earlier
<1>. QED  BY <1>1, <1>2, <1>3, <1>4, <1>5, <1>6, <1>7, VaultKinds

(* secretVault.js:64-89: a secret whose set was answered is on the disk until it is set
   again or cleared, and what was cleared stays away, whatever fails or restarts. *)
THEOREM SecretsKeptAlways == Spec => []SecretsKept
<1>1. Init => Kept
  BY EmptySeq DEF Init, Kept, Earlier, NoSecrets
<1>2. Types /\ Kept /\ [Next]_vars => Kept'
  BY KeptStays
<1>3. Kept => SecretsKept
  BY DEF Kept, SecretsKept
<1>. QED  BY <1>1, <1>2, <1>3, TypesAlways, PTL DEF Spec

(***************************************************************************)
(* Grants, operator sessions and support leases.  The queue of saves is     *)
(* what makes it hard: the answer comes when the save is done, what it      *)
(* wrote is the memory of when its turn came, and a grant may have been     *)
(* enrolled again, and used, behind it.                                     *)
(***************************************************************************)
\* The i-th save that waits is one of this kind, for this thing.
Is(i, what, id) == i \in 1..Len(saves) /\ saves[i].what = what /\ saves[i].id = id
\* ... is one of a token that was used under this grant.
Under(i, g) == i \in 1..Len(saves) /\ saves[i].what \in {"nonce", "proof"} /\ saves[i].grant = g

SessionKept(s) ==
  /\ s \in trail.over => /\ s \in ended /\ s \in store.memory.ended /\ s \in store.disk.ended /\ s \in store.writing.ended
                         /\ s \notin sockets
  /\ \A i \in Nat : Is(i, "end", s) => s \in ended /\ s \in store.memory.ended
  /\ Is(1, "end", s) => s \in store.writing.ended

\* A grant whose revocation waits is valid again, or used again, only with an enrolment
\* that waits behind the revocation and, for a use, before the use; m and w are what the
\* memory and the write under way have for it.
QueueKept(g, m, w) ==
  /\ \A i \in Nat : Is(i, "revoke", g) /\ m = "valid" => \E k \in Nat : i < k /\ Is(k, "enroll", g)
  /\ Is(1, "revoke", g) /\ w = "valid" => \E k \in Nat : 1 < k /\ Is(k, "enroll", g)
  /\ \A i, j \in Nat : i < j /\ Is(i, "revoke", g) /\ Under(j, g) => \E k \in Nat : i < k /\ k < j /\ Is(k, "enroll", g)

\* One that is over is valid nowhere, and none of its uses waits.
Nowhere(g) ==
  /\ store.memory.grants[g] # "valid" /\ store.disk.grants[g] # "valid" /\ store.writing.grants[g] # "valid"
  /\ \A j \in Nat : ~Under(j, g)
GrantKept(g) ==
  /\ g \in trail.over => Nowhere(g)
  /\ QueueKept(g, store.memory.grants[g], store.writing.grants[g])

Leases == [Lease -> [kept : BOOLEAN, checks : Nat, endings : Nat]]
LeasesKept == leases \in Leases /\ \A l \in Lease : l \in trail.over => ~leases[l].kept

Revocations ==
  /\ trail.over \subseteq Grant \cup Session \cup Lease
  /\ sockets \subseteq Session
  /\ trail.late \subseteq trail.undone
  /\ \A s \in Session : s \in trail.undone \/ SessionKept(s)
  /\ \A g \in Grant : g \in trail.undone \/ GrantKept(g)
  /\ LeasesKept

(***************************************************************************)
(* The queue moves up by one, or one save joins it.                         *)
(***************************************************************************)
Lasting == {"end", "revoke", "enroll"}

LEMMA Pop ==
  ASSUME Types, Saved \/ SaveFails
  PROVE  /\ saves # <<>> /\ Len(saves) > 0 /\ saves[1] \in Entries /\ saves[1] = Head(saves)
         /\ \A id : \A i \in Nat, w \in Lasting : Is(i, w, id)' <=> i > 0 /\ Is(i + 1, w, id)
         /\ \A i \in Nat, g \in Grant : Under(i, g)' <=> i > 0 /\ Under(i + 1, g)
<1>1. saves \in Seq(Entries) /\ Len(saves) \in Nat
  BY LenProperties DEF Types, StoreTypes
<1>2. /\ saves # <<>> /\ saves[1] \in Entries /\ Len(saves') \in {Len(saves) - 1, Len(saves)}
      /\ \A i \in 1..(Len(saves) - 1) : saves'[i] = saves[i + 1]
      /\ Len(saves') = Len(saves) => saves'[Len(saves)].what = "quiet"
  <2>1. CASE Saved
    BY <1>1, <2>1, SavedTypes DEF Types
  <2>2. CASE SaveFails
    BY <2>2, SaveFailsTypes DEF Types
  <2>. QED  BY <2>1, <2>2
<1>3. Len(saves) > 0 /\ saves[1] = Head(saves)
  BY <1>1, <1>2, EmptySeq, HeadTailProperties
<1>4. \A id : \A i \in Nat, w \in Lasting : Is(i, w, id)' <=> i > 0 /\ Is(i + 1, w, id)
  BY <1>1, <1>2, <1>3 DEF Is, Lasting
<1>5. \A i \in Nat, g \in Grant : Under(i, g)' <=> i > 0 /\ Under(i + 1, g)
  BY <1>1, <1>2, <1>3 DEF Under
<1>. QED  BY <1>2, <1>3, <1>4, <1>5

LEMMA Push ==
  ASSUME Types, NEW m \in Contents, NEW e \in Entries, Save(m, e)
  PROVE  /\ Len(saves) \in Nat
         /\ \A id : \A i \in Nat, w \in Lasting : Is(i, w, id)' <=> Is(i, w, id) \/ (i = Len(saves) + 1 /\ e.what = w /\ e.id = id)
         /\ \A i \in Nat, g \in Grant : Under(i, g)' <=> Under(i, g) \/ (i = Len(saves) + 1 /\ e.what \in {"nonce", "proof"} /\ e.grant = g)
<1>1. /\ Len(saves) \in Nat /\ Len(saves') = Len(saves) + 1 /\ saves'[Len(saves) + 1] = e
      /\ \A i \in 1..Len(saves) : saves'[i] = saves[i]
  BY SaveTypes, LenProperties DEF Types, StoreTypes
<1>2. \A id : \A i \in Nat, w \in Lasting : Is(i, w, id)' <=> Is(i, w, id) \/ (i = Len(saves) + 1 /\ e.what = w /\ e.id = id)
  BY <1>1 DEF Is
<1>3. \A i \in Nat, g \in Grant : Under(i, g)' <=> Under(i, g) \/ (i = Len(saves) + 1 /\ e.what \in {"nonce", "proof"} /\ e.grant = g)
  BY <1>1 DEF Under
<1>. QED  BY <1>1, <1>2, <1>3

(***************************************************************************)
(* What a step does to what is over, to the sessions and to the leases.     *)
(***************************************************************************)
LEMMA SavedOver ==
  ASSUME Types, Saved
  PROVE  /\ trail'.over = IF \/ saves[1].what = "end"
                             \/ saves[1].what = "revoke" /\ StaysRevoked(saves[1].id)
                          THEN trail.over \cup {saves[1].id} ELSE trail.over
         /\ trail'.late = IF saves[1].what \in {"nonce", "proof"} /\ saves[1].grant \in trail.over
                          THEN trail.late \cup {saves[1].grant} ELSE trail.late
         /\ sockets' = IF saves[1].what = "end" THEN sockets \ {saves[1].id} ELSE sockets
         /\ UNCHANGED <<ended, leases>>
<1>. DEFINE e == Head(saves)
            t == [trail EXCEPT !.gone = @ \cup Closed]
<1>1. /\ trail' = CASE e.what \in {"nonce", "proof"} ->
                         [t EXCEPT !.accepted[e.id] = @ + 1, !.late = IF e.grant \in trail.over THEN @ \cup {e.grant} ELSE @]
                    [] e.what = "end" \/ (e.what = "revoke" /\ StaysRevoked(e.id)) -> [t EXCEPT !.over = @ \cup {e.id}]
                    [] OTHER -> t
      /\ sockets' = IF e.what = "end" THEN sockets \ {e.id} ELSE sockets
      /\ UNCHANGED <<ended, leases>>
  BY DEF Saved, Closing
<1>2. e = saves[1]
  BY Pop
<1>3. /\ t.over = trail.over /\ t.late = trail.late
      /\ "over" \in DOMAIN t /\ "late" \in DOMAIN t /\ "accepted" \in DOMAIN t
  BY DEF Types, Trails
<1>. HIDE DEF e, t
<1>4. CASE e.what \in {"nonce", "proof"}
  <2>. DEFINE late == IF e.grant \in trail.over THEN t.late \cup {e.grant} ELSE t.late
              accepted == [t.accepted EXCEPT ![e.id] = @ + 1]
  <2>1. trail' = [t EXCEPT !.accepted = accepted, !.late = late]
    BY <1>1, <1>4
  <2>. HIDE DEF late, accepted
  <2>2. trail'.over = t.over /\ trail'.late = late
    BY <1>3, <2>1
  <2>. QED  BY <1>1, <1>2, <1>3, <1>4, <2>2 DEF late
<1>5. CASE e.what \notin {"nonce", "proof"}
  BY <1>1, <1>2, <1>3, <1>5
<1>. QED  BY <1>4, <1>5

LEMMA SaveFailsOver ==
  ASSUME Types, SaveFails
  PROVE  /\ trail'.over = trail.over /\ trail'.late = trail.late /\ UNCHANGED <<ended, sockets, leases>>
         /\ trail.undone \subseteq trail'.undone
         /\ saves[1].what = "other" => Loses(saves[1].before) \subseteq trail'.undone
<1>1. saves[1] = Head(saves)
  BY Pop
<1>. QED  BY <1>1 DEF SaveFails, Types, Trails

LeaseSteps(l) == LeaseIssued(l) \/ LeaseUsed(l) \/ LeaseChecked(l) \/ LeaseGood(l) \/ LeaseEnds(l) \/ LeaseEnded(l)
Calm == UNCHANGED <<ended, sockets, leases>> /\ trail'.over = trail.over /\ trail'.late = trail.late

LEMMA OverKinds ==
  ASSUME Types, [Next]_vars
  PROVE  \/ Saved \/ SaveFails \/ Restarts
         \/ \E g \in Grant : Enrols(g)
         \/ \E s \in Session : Operates(s) \/ EndsSession(s)
         \/ \E l \in Lease : LeaseSteps(l)
         \/ Calm
<1>0. trail \in Trails
  BY DEF Types
<1>1. CASE OtherSaves \/ (\E t \in Nonce, g \in Grant : UsesNonce(t, g)) \/ (\E t \in Proof : UsesProof(t) \/ Pruned(t))
  BY <1>1 DEF OtherSaves, UsesNonce, UsesProof, Pruned, Calm
<1>2. CASE \E g \in Grant : Revokes(g)
  BY <1>2 DEF Revokes, Calm
<1>3. CASE (\E n \in Secret : SetsSecret(n)) \/ VaultFails
  BY <1>0, <1>3 DEF SetsSecret, VaultFails, Calm, Trails
<1>4. CASE VaultWritten
  <2>1. PICK w : trail' = [trail EXCEPT !.told[w.name] = w.content[w.name]] /\ UNCHANGED <<ended, sockets, leases>>
    BY <1>4 DEF VaultWritten
  <2>. QED  BY <1>0, <2>1 DEF Calm, Trails
<1>5. CASE Clears \/ Cleared
  BY <1>0, <1>5 DEF Clears, Cleared, Calm, Trails
<1>6. CASE \E c \in Code : Issues(c) \/ Registered(c) \/ RegistrationFails(c)
  BY <1>0, <1>6 DEF Issues, Registered, RegistrationFails, Calm, Trails
<1>7. ASSUME NEW next, Closes(next)  PROVE Calm
  BY <1>0, <1>7 DEF Closes, Calm, Trails
<1>8. CASE Ends \/ Mistakes
  BY <1>7, <1>8 DEF Ends, Mistakes
<1>9. CASE UNCHANGED vars
  BY <1>9 DEF vars, Calm
<1>. QED  BY <1>1, <1>2, <1>3, <1>4, <1>5, <1>6, <1>8, <1>9 DEF Next, LeaseSteps

\* A step that saves nothing that waits, and does not restart.
Elsewhere == Excuses /\ (Queued \/ UNCHANGED <<store, saves>>)

LEMMA OnlySome ==
  ASSUME Types, [Next]_vars
  PROVE  Saved \/ SaveFails \/ Restarts
         \/ (/\ Elsewhere
             /\ \/ \E g \in Grant : Enrols(g)
                \/ \E s \in Session : Operates(s) \/ EndsSession(s)
                \/ \E l \in Lease : LeaseSteps(l)
                \/ Calm)
BY StoreKinds, OverKinds DEF Elsewhere

LEMMA ElsewhereOver ==
  ASSUME Types, NEW s \in Session,
         \/ \E g \in Grant : Enrols(g)
         \/ \E q \in Session : Operates(q) \/ EndsSession(q)
         \/ \E l \in Lease : LeaseSteps(l)
         \/ Calm
  PROVE  /\ ended \subseteq ended'
         /\ s \in trail'.over => s \in trail.over
         /\ s \in sockets' => s \in sockets \/ s \notin ended
<1>0. trail \in Trails
  BY DEF Types
<1>1. ASSUME NEW g \in Grant, Enrols(g)  PROVE UNCHANGED <<ended, sockets>> /\ trail'.over \subseteq trail.over
  BY <1>0, <1>1 DEF Enrols, Trails
<1>2. ASSUME NEW q \in Session, Operates(q)
      PROVE  ended' = ended /\ trail'.over = trail.over /\ q \notin ended /\ sockets' \subseteq sockets \cup {q}
  BY <1>0, <1>2 DEF Operates, Accept, Tracked, Trails
<1>3. ASSUME NEW q \in Session, EndsSession(q)
      PROVE  ended \subseteq ended' /\ trail' = trail /\ sockets' = sockets
  BY <1>3 DEF EndsSession, EndedNow
<1>4. ASSUME NEW l \in Lease, LeaseSteps(l)
      PROVE  UNCHANGED <<ended, sockets>> /\ trail'.over \subseteq trail.over \cup {l}
  BY <1>0, <1>4 DEF LeaseSteps, LeaseIssued, LeaseUsed, LeaseChecked, LeaseGood, LeaseEnds, LeaseEnded, LeaseOnly, Accept, Trails
<1>5. s \notin Lease
  BY AccessAssumption
<1>. QED  BY <1>1, <1>2, <1>3, <1>4, <1>5 DEF Calm

LEMMA RestartsOver ==
  ASSUME Types, Restarts
  PROVE  /\ saves' = <<>> /\ store'.memory = store.disk /\ store'.disk = store.disk /\ store'.writing = store.disk
         /\ ended' = store.disk.ended /\ sockets' = {}
         /\ trail'.over = trail.over /\ trail'.late = trail.late /\ trail'.undone = trail.undone
         /\ \A i, w, id : ~Is(i, w, id)'
         /\ \A i, g : ~Under(i, g)'
<1>1. saves' = <<>> /\ store' = [memory |-> store.disk, disk |-> store.disk, writing |-> store.disk]
  BY RestartTypes
<1>2. Len(saves') = 0 /\ 1..0 = {}
  BY <1>1, EmptySeq
<1>3. /\ ended' = store.disk.ended /\ sockets' = {}
      /\ trail'.over = trail.over /\ trail'.late = trail.late /\ trail'.undone = trail.undone
  BY DEF Restarts, Types, Trails
<1>. QED  BY <1>1, <1>2, <1>3 DEF Is, Under

(***************************************************************************)
(* Operator sessions.                                                       *)
(***************************************************************************)
LEMMA SessionStays ==
  ASSUME Types, [Next]_vars, NEW s \in Session, s \in trail.undone \/ SessionKept(s)
  PROVE  s \in trail'.undone \/ SessionKept(s)'
<1>0. /\ s \in Ids /\ "end" \in Lasting /\ trail \in Trails /\ Len(saves) \in Nat
  BY LenProperties DEF Ids, Lasting, Types, StoreTypes
<1>1. CASE Saved
  <2>1. /\ store'.memory = store.memory /\ store'.disk = store.writing /\ store'.writing = store.memory
    BY <1>1, SavedTypes DEF Types
  <2>2. /\ saves[1] \in Entries /\ Len(saves) > 0
        /\ \A i \in Nat : Is(i, "end", s)' <=> i > 0 /\ Is(i + 1, "end", s)
    BY <1>0, <1>1, Pop
  <2>3. trail'.undone = trail.undone
    BY <1>1, SavedTrail
  <2>4. s \in trail'.over => s \in trail.over \/ (saves[1].what = "end" /\ saves[1].id = s)
    <3>1. saves[1].what = "revoke" => saves[1].id \in Grant
      BY <2>2, EntryFields DEF Things
    <3>2. s \notin Grant
      BY AccessAssumption
    <3>. QED  BY <1>1, <3>1, <3>2, SavedOver
  <2>5. /\ sockets' \subseteq sockets /\ ended' = ended
        /\ saves[1].what = "end" /\ saves[1].id = s => s \notin sockets'
    BY <1>1, SavedOver
  <2>6. CASE SessionKept(s)
    <3>1. saves[1].what = "end" /\ saves[1].id = s => Is(1, "end", s)
      BY <1>0, <2>2 DEF Is
    <3>2. \A i \in Nat : Is(i, "end", s)' => s \in ended' /\ s \in store'.memory.ended /\ s \in store'.writing.ended
      BY <2>1, <2>2, <2>5, <2>6 DEF SessionKept
    <3>3. s \in trail'.over => /\ s \in ended' /\ s \in store'.memory.ended /\ s \in store'.disk.ended /\ s \in store'.writing.ended
                               /\ s \notin sockets'
      BY <2>1, <2>4, <2>5, <2>6, <3>1 DEF SessionKept
    <3>. QED  BY <3>2, <3>3 DEF SessionKept
  <2>. QED  BY <2>3, <2>6
<1>2. CASE SaveFails
  <2>1. /\ saves[1] \in Entries
        /\ \A i \in Nat : Is(i, "end", s)' <=> i > 0 /\ Is(i + 1, "end", s)
    BY <1>0, <1>2, Pop
  <2>2. /\ store'.disk = store.disk /\ store'.writing \in {store.memory, store'.memory}
        /\ saves[1].what = "other" => store'.memory = saves[1].before
        /\ saves[1].what # "other" => store'.memory.ended = store.memory.ended
    BY <1>2, SaveFailsTypes DEF Types
  <2>3. /\ trail'.over = trail.over /\ ended' = ended /\ sockets' = sockets
        /\ trail.undone \subseteq trail'.undone
        /\ saves[1].what = "other" => Loses(saves[1].before) \subseteq trail'.undone
    BY <1>2, SaveFailsOver
  <2>4. s \in store.memory.ended => s \in trail'.undone \/ (s \in store'.memory.ended /\ s \in store'.writing.ended)
    BY <2>2, <2>3 DEF Loses
  <2>5. CASE SessionKept(s)
    BY <2>1, <2>2, <2>3, <2>4, <2>5 DEF SessionKept
  <2>. QED  BY <2>3, <2>5
<1>3. CASE Restarts
  BY <1>3, RestartsOver DEF SessionKept
<1>4. CASE /\ Elsewhere
           /\ \/ \E g \in Grant : Enrols(g)
              \/ \E q \in Session : Operates(q) \/ EndsSession(q)
              \/ \E l \in Lease : LeaseSteps(l)
              \/ Calm
  <2>1. /\ ended \subseteq ended' /\ (s \in trail'.over => s \in trail.over)
        /\ s \in sockets' => s \in sockets \/ s \notin ended
    BY <1>4, ElsewhereOver
  <2>2. trail.undone \subseteq trail'.undone
    BY <1>4 DEF Elsewhere, Excuses
  <2>3. CASE SessionKept(s) /\ UNCHANGED <<store, saves>>
    BY <2>1, <2>3 DEF SessionKept, Is
  <2>4. CASE SessionKept(s) /\ Queued
    <3>1. PICK m \in Contents, e \in Entries :
            /\ Save(m, e)
            /\ store.memory.ended \ m.ended \subseteq trail'.undone
            /\ e.what = "end" => e.id \in m.ended /\ e.id \in ended'
      BY <2>4 DEF Queued
    <3>2. /\ store'.memory = m /\ store'.disk = store.disk
          /\ store'.writing = IF Len(saves) = 0 THEN m ELSE store.writing
      BY <3>1, SaveTypes, EmptySeq DEF Types, StoreTypes
    <3>3. \A i \in Nat : Is(i, "end", s)' <=> Is(i, "end", s) \/ (i = Len(saves) + 1 /\ e.what = "end" /\ e.id = s)
      BY <1>0, <3>1, Push
    <3>4. CASE s \in store.memory.ended /\ s \notin m.ended
      BY <3>1, <3>4
    <3>5. CASE s \in store.memory.ended => s \in m.ended
      <4>1. \A i \in Nat : Is(i, "end", s)' => s \in ended' /\ s \in store'.memory.ended
        BY <2>1, <2>4, <3>1, <3>2, <3>3, <3>5 DEF SessionKept
      <4>2. Is(1, "end", s)' => s \in store'.writing.ended
        <5>1. CASE Len(saves) = 0
          BY <3>2, <4>1, <5>1
        <5>2. CASE Len(saves) # 0
          <6>1. Is(1, "end", s)' => Is(1, "end", s)
            BY <1>0, <3>3, <5>2
          <6>. QED  BY <2>4, <3>2, <5>2, <6>1 DEF SessionKept
        <5>. QED  BY <5>1, <5>2
      <4>3. s \in trail'.over => /\ s \in ended' /\ s \in store'.memory.ended /\ s \in store'.disk.ended
                                 /\ s \in store'.writing.ended /\ s \notin sockets'
        BY <2>1, <2>4, <3>2, <3>5 DEF SessionKept
      <4>. QED  BY <4>1, <4>2, <4>3 DEF SessionKept
    <3>. QED  BY <3>4, <3>5
  <2>. QED  BY <1>4, <2>2, <2>3, <2>4 DEF Elsewhere
<1>. QED  BY <1>1, <1>2, <1>3, <1>4, OnlySome

(***************************************************************************)
(* Grants.                                                                  *)
(***************************************************************************)
LEMMA QueueMoves ==
  ASSUME Types, Saved \/ SaveFails, NEW g \in Grant, NEW v, NEW w, QueueKept(g, v, w)
  PROVE  QueueKept(g, v, v)'
<1>1. /\ \A i \in Nat : Is(i, "revoke", g)' <=> i > 0 /\ Is(i + 1, "revoke", g)
      /\ \A i \in Nat : Is(i, "enroll", g)' <=> i > 0 /\ Is(i + 1, "enroll", g)
      /\ \A i \in Nat : Under(i, g)' <=> i > 0 /\ Under(i + 1, g)
  BY Pop DEF Lasting
<1>2. ASSUME NEW i \in Nat, NEW k \in Nat, i > 0, i + 1 < k, Is(k, "enroll", g)
      PROVE  k - 1 \in Nat /\ i < k - 1 /\ Is(k - 1, "enroll", g)'
  <2>1. k - 1 \in Nat /\ k - 1 > 0 /\ i < k - 1 /\ k - 1 + 1 = k
    BY <1>2
  <2>. QED  BY <1>1, <1>2, <2>1
<1>3. ASSUME NEW i \in Nat, Is(i, "revoke", g)', v = "valid"
      PROVE  \E k \in Nat : i < k /\ Is(k, "enroll", g)'
  <2>1. i > 0 /\ i + 1 \in Nat /\ Is(i + 1, "revoke", g)
    BY <1>1, <1>3
  <2>2. PICK k \in Nat : i + 1 < k /\ Is(k, "enroll", g)
    BY <1>3, <2>1 DEF QueueKept
  <2>. QED  BY <1>2, <2>1, <2>2
<1>4. ASSUME NEW i \in Nat, NEW j \in Nat, i < j, Is(i, "revoke", g)', Under(j, g)'
      PROVE  \E k \in Nat : i < k /\ k < j /\ Is(k, "enroll", g)'
  <2>1. i > 0 /\ i + 1 \in Nat /\ j + 1 \in Nat /\ i + 1 < j + 1 /\ Is(i + 1, "revoke", g) /\ Under(j + 1, g)
    BY <1>1, <1>4
  <2>2. PICK k \in Nat : i + 1 < k /\ k < j + 1 /\ Is(k, "enroll", g)
    BY <2>1 DEF QueueKept
  <2>3. k - 1 \in Nat /\ i < k - 1 /\ k - 1 < j /\ Is(k - 1, "enroll", g)'
    BY <1>2, <2>1, <2>2
  <2>. QED  BY <2>3
<1>. QED  BY <1>3, <1>4 DEF QueueKept

LEMMA QueueGrows ==
  ASSUME Types, NEW g \in Grant, NEW m \in Contents, NEW e \in Entries, Save(m, e),
         QueueKept(g, store.memory.grants[g], store.writing.grants[g]),
         \/ m.grants[g] = store.memory.grants[g]
         \/ e.what = "enroll" /\ e.id = g
         \/ e.what = "revoke" /\ e.id = g /\ m.grants[g] = "revoked",
         e.what \in {"nonce", "proof"} /\ e.grant = g => store.memory.grants[g] = "valid",
         e.what = "revoke" /\ e.id = g => m.grants[g] = "revoked",
         NEW w, w = IF saves = <<>> THEN m.grants[g] ELSE store.writing.grants[g]
  PROVE  QueueKept(g, m.grants[g], w)'
<1>. DEFINE old == store.memory.grants[g]
            new == m.grants[g]
<1>0. Len(saves) \in Nat /\ (Len(saves) = 0 => saves = <<>>)
  BY Push, EmptySeq DEF Types, StoreTypes
<1>. PICK n \in Nat : n = Len(saves)
  BY <1>0
<1>1. /\ n = Len(saves)
      /\ \A i \in Nat : Is(i, "revoke", g)' <=> Is(i, "revoke", g) \/ (i = n + 1 /\ e.what = "revoke" /\ e.id = g)
      /\ \A i \in Nat : Is(i, "enroll", g)' <=> Is(i, "enroll", g) \/ (i = n + 1 /\ e.what = "enroll" /\ e.id = g)
      /\ \A i \in Nat : Under(i, g)' <=> Under(i, g) \/ (i = n + 1 /\ e.what \in {"nonce", "proof"} /\ e.grant = g)
  BY Push DEF Lasting
<1>2. /\ \A x : \A i \in Nat : Is(i, x, g) => i <= n
      /\ \A j \in Nat : Under(j, g) => j <= n
  BY <1>1 DEF Is, Under
<1>3. ASSUME NEW i \in Nat, Is(i, "revoke", g)', new = "valid"
      PROVE  \E k \in Nat : i < k /\ Is(k, "enroll", g)'
  <2>1. Is(i, "revoke", g) /\ i <= n
    BY <1>1, <1>2, <1>3
  <2>2. CASE e.what = "enroll" /\ e.id = g
    <3>1. n + 1 \in Nat /\ i < n + 1 /\ Is(n + 1, "enroll", g)'
      BY <1>1, <2>1, <2>2
    <3>. QED  BY <3>1
  <2>3. CASE old = "valid"
    <3>1. PICK k \in Nat : i < k /\ Is(k, "enroll", g)
      BY <2>1, <2>3 DEF QueueKept
    <3>. QED  BY <1>1, <3>1
  <2>. QED  BY <1>3, <2>2, <2>3
<1>4. ASSUME Is(1, "revoke", g)', w = "valid"
      PROVE  \E k \in Nat : 1 < k /\ Is(k, "enroll", g)'
  <2>1. CASE n = 0
    BY <1>0, <1>1, <1>3, <1>4, <2>1
  <2>2. CASE n # 0
    <3>1. Is(1, "revoke", g) /\ store.writing.grants[g] = "valid"
      BY <1>1, <1>4, <2>2, EmptySeq
    <3>2. PICK k \in Nat : 1 < k /\ Is(k, "enroll", g)
      BY <3>1 DEF QueueKept
    <3>. QED  BY <1>1, <3>2
  <2>. QED  BY <2>1, <2>2
<1>5. ASSUME NEW i \in Nat, NEW j \in Nat, i < j, Is(i, "revoke", g)', Under(j, g)'
      PROVE  \E k \in Nat : i < k /\ k < j /\ Is(k, "enroll", g)'
  <2>1. CASE Under(j, g)
    <3>1. Is(i, "revoke", g)
      BY <1>1, <1>2, <1>5, <2>1
    <3>2. PICK k \in Nat : i < k /\ k < j /\ Is(k, "enroll", g)
      BY <1>5, <2>1, <3>1 DEF QueueKept
    <3>. QED  BY <1>1, <3>2
  <2>2. CASE j = n + 1 /\ e.what \in {"nonce", "proof"} /\ e.grant = g
    <3>1. Is(i, "revoke", g) /\ old = "valid"
      BY <1>1, <1>5, <2>2
    <3>2. PICK k \in Nat : i < k /\ Is(k, "enroll", g)
      BY <3>1 DEF QueueKept
    <3>3. k <= n
      BY <1>2, <3>2
    <3>4. k < j
      BY <2>2, <3>3
    <3>. QED  BY <1>1, <3>2, <3>4
  <2>. QED  BY <1>1, <1>5, <2>1, <2>2
<1>. QED  BY <1>3, <1>4, <1>5 DEF QueueKept

LEMMA GrantStays ==
  ASSUME Types, [Next]_vars, NEW g \in Grant, g \in trail.undone \/ GrantKept(g)
  PROVE  g \in trail'.undone \/ GrantKept(g)'
<1>. DEFINE old == store.memory.grants[g]
<1>0. /\ trail \in Trails /\ saves \in Seq(Entries) /\ Len(saves) \in Nat
      /\ "revoke" \in Lasting /\ "enroll" \in Lasting
  BY LenProperties DEF Lasting, Types, StoreTypes
<1>1. CASE Saved
  <2>1. /\ store'.memory = store.memory /\ store'.disk = store.writing /\ store'.writing = store.memory
        /\ trail'.undone = trail.undone
    BY <1>1, SavedTypes, SavedTrail DEF Types
  <2>2. \A j \in Nat : Under(j, g)' => j > 0 /\ Under(j + 1, g)
    BY <1>1, Pop
  <2>3. CASE GrantKept(g)
    <3>1. QueueKept(g, store.memory.grants[g], store.writing.grants[g])
      BY <2>3 DEF GrantKept
    <3>2. QueueKept(g, old, old)
      <4>1. Is(1, "revoke", g) /\ old = "valid" => \E k \in Nat : 1 < k /\ Is(k, "enroll", g)
        BY <3>1 DEF QueueKept
      <4>. QED  BY <3>1, <4>1 DEF QueueKept
    <3>3. ASSUME NEW v, v = old  PROVE QueueKept(g, v, v)'
      BY <1>1, <3>2, <3>3, QueueMoves
    <3>4. QueueKept(g, store.memory.grants[g], store.writing.grants[g])'
      BY <2>1, <3>3 DEF QueueKept
    <3>5. ASSUME g \in trail'.over, g \notin trail.over
          PROVE  Nowhere(g)'
      <4>1. saves[1].what \in {"end", "revoke"} /\ saves[1].id = g /\ (saves[1].what = "revoke" => StaysRevoked(g))
        BY <1>1, <3>5, SavedOver
      <4>2. saves[1].what = "revoke"
        <5>1. saves[1] \in Entries /\ g \notin Session
          BY <1>1, Pop, AccessAssumption
        <5>2. saves[1].what = "end" => saves[1].id \in Session
          BY <5>1, EntryFields DEF Things
        <5>. QED  BY <4>1, <5>1, <5>2
      <4>3. old = "revoked" /\ \A k \in Nat : 1 < k => ~Is(k, "enroll", g)
        BY <1>0, <4>1, <4>2 DEF StaysRevoked, Is
      <4>4. Is(1, "revoke", g)
        <5>1. Len(saves) > 0
          BY <1>1, Pop
        <5>. QED  BY <1>0, <4>1, <4>2, <5>1 DEF Is
      <4>5. store.writing.grants[g] # "valid"
        BY <3>1, <4>3, <4>4 DEF QueueKept
      <4>6. \A j \in Nat : 1 < j => ~Under(j, g)
        BY <3>1, <4>3, <4>4 DEF QueueKept
      <4>7. \A j \in Nat : ~Under(j, g)'
        BY <2>2, <4>6
      <4>. QED  BY <2>1, <4>3, <4>5, <4>7 DEF Nowhere
    <3>6. g \in trail.over => Nowhere(g)'
      BY <2>1, <2>2, <2>3 DEF GrantKept, Nowhere
    <3>. QED  BY <3>4, <3>5, <3>6 DEF GrantKept
  <2>. QED  BY <2>1, <2>3
<1>2. CASE SaveFails
  <2>1. /\ store'.disk = store.disk /\ store'.writing \in {store.memory, store'.memory}
        /\ saves[1].what = "other" => store'.memory = saves[1].before
        /\ saves[1].what # "other" => store'.memory.grants = store.memory.grants
    BY <1>2, SaveFailsTypes DEF Types
  <2>2. /\ trail'.over = trail.over /\ trail.undone \subseteq trail'.undone
        /\ saves[1].what = "other" => Loses(saves[1].before) \subseteq trail'.undone
    BY <1>2, SaveFailsOver
  <2>3. \A j \in Nat : Under(j, g)' => j > 0 /\ Under(j + 1, g)
    BY <1>2, Pop
  <2>4. g \in trail'.undone \/ (store'.memory.grants[g] = old /\ store'.writing.grants[g] = old)
    <3>1. saves[1].what = "other" => g \in trail'.undone \/ store'.memory.grants[g] = old
      BY <2>1, <2>2 DEF Loses
    <3>. QED  BY <2>1, <3>1
  <2>5. CASE GrantKept(g) /\ store'.memory.grants[g] = old /\ store'.writing.grants[g] = old
    <3>1. QueueKept(g, old, old)
      <4>1. QueueKept(g, store.memory.grants[g], store.writing.grants[g])
        BY <2>5 DEF GrantKept
      <4>2. Is(1, "revoke", g) /\ old = "valid" => \E k \in Nat : 1 < k /\ Is(k, "enroll", g)
        BY <4>1 DEF QueueKept
      <4>. QED  BY <4>1, <4>2 DEF QueueKept
    <3>2. ASSUME NEW v, v = old  PROVE QueueKept(g, v, v)'
      BY <1>2, <3>1, <3>2, QueueMoves
    <3>3. QueueKept(g, store.memory.grants[g], store.writing.grants[g])'
      BY <2>5, <3>2 DEF QueueKept
    <3>4. g \in trail'.over => Nowhere(g)'
      BY <2>1, <2>2, <2>3, <2>5 DEF GrantKept, Nowhere
    <3>. QED  BY <3>3, <3>4 DEF GrantKept
  <2>. QED  BY <2>2, <2>4, <2>5
<1>3. CASE Restarts
  <2>1. CASE GrantKept(g)
    BY <1>3, <2>1, RestartsOver DEF GrantKept, Nowhere, QueueKept
  <2>. QED  BY <1>3, <2>1, RestartsOver
<1>4. CASE /\ Elsewhere
           /\ \/ \E h \in Grant : Enrols(h)
              \/ \E q \in Session : Operates(q) \/ EndsSession(q)
              \/ \E l \in Lease : LeaseSteps(l)
              \/ Calm
  <2>1. g \in trail'.over => g \in trail.over
    <3>1. g \notin Lease
      BY AccessAssumption
    <3>2. ASSUME NEW l \in Lease, LeaseSteps(l)  PROVE trail'.over \subseteq trail.over \cup {l}
      BY <1>0, <3>2 DEF LeaseSteps, LeaseIssued, LeaseUsed, LeaseChecked, LeaseGood, LeaseEnds, LeaseEnded, Accept, Trails
    <3>3. ASSUME NEW q \in Session, Operates(q) \/ EndsSession(q)  PROVE trail'.over = trail.over
      BY <1>0, <3>3 DEF Operates, EndsSession, Accept, Trails
    <3>4. ASSUME NEW h \in Grant, Enrols(h)  PROVE trail'.over \subseteq trail.over
      BY <1>0, <3>4 DEF Enrols, Trails
    <3>. QED  BY <1>4, <3>1, <3>2, <3>3, <3>4 DEF Calm
  <2>2. trail.undone \subseteq trail'.undone
    BY <1>4 DEF Elsewhere, Excuses
  <2>3. CASE GrantKept(g) /\ UNCHANGED <<store, saves>>
    BY <2>1, <2>3 DEF GrantKept, Nowhere, QueueKept, Is, Under
  <2>4. CASE GrantKept(g) /\ Queued /\ g \notin trail'.undone
    <3>1. PICK m \in Contents, e \in Entries :
            /\ Save(m, e)
            /\ GrantsKept(m, e)
            /\ e.what = "nonce" => store.memory.grants[e.grant] = "valid"
            /\ e.what = "proof" => e.grant = 0
            /\ e.what = "enroll" => e.id \notin trail'.over
            /\ e.what = "revoke" => m.grants[e.id] = "revoked"
      BY <2>4 DEF Queued
    <3>2. /\ store'.memory = m /\ store'.disk = store.disk
          /\ store'.writing = IF saves = <<>> THEN m ELSE store.writing
      BY <3>1, SaveTypes DEF Types
    <3>3. \/ m.grants[g] = old
          \/ e.what = "enroll" /\ e.id = g
          \/ e.what = "revoke" /\ e.id = g /\ m.grants[g] = "revoked"
      BY <2>4, <3>1 DEF GrantsKept
    <3>4. QueueKept(g, store.memory.grants[g], store.writing.grants[g])'
      <4>1. QueueKept(g, store.memory.grants[g], store.writing.grants[g])
        BY <2>4 DEF GrantKept
      <4>2. ASSUME NEW w, w = IF saves = <<>> THEN m.grants[g] ELSE store.writing.grants[g]
            PROVE  QueueKept(g, m.grants[g], w)'
        BY <3>1, <3>3, <4>1, <4>2, QueueGrows, AccessAssumption
      <4>3. store'.writing.grants[g] = IF saves = <<>> THEN m.grants[g] ELSE store.writing.grants[g]
        BY <3>2
      <4>. QED  BY <3>2, <4>2, <4>3 DEF QueueKept
    <3>5. ASSUME g \in trail'.over  PROVE Nowhere(g)'
      <4>1. Nowhere(g)
        BY <2>1, <2>4, <3>5 DEF GrantKept
      <4>2. m.grants[g] # "valid" /\ ~(e.what \in {"nonce", "proof"} /\ e.grant = g)
        BY <3>1, <3>3, <3>5, <4>1, AccessAssumption DEF Nowhere
      <4>3. \A j \in Nat : ~Under(j, g)'
        BY <3>1, <4>1, <4>2, Push DEF Nowhere
      <4>. QED  BY <3>2, <4>1, <4>2, <4>3 DEF Nowhere
    <3>. QED  BY <3>4, <3>5 DEF GrantKept
  <2>. QED  BY <1>4, <2>2, <2>3, <2>4 DEF Elsewhere
<1>. QED  BY <1>1, <1>2, <1>3, <1>4, OnlySome

(***************************************************************************)
(* Leases, and what was accepted late.                                      *)
(***************************************************************************)
LEMMA LeaseStays ==
  ASSUME Types, [Next]_vars, trail.over \subseteq Grant \cup Session \cup Lease, LeasesKept
  PROVE  LeasesKept'
<1>0. trail \in Trails /\ leases \in Leases
  BY DEF Types, LeasesKept
<1>1. CASE Saved
  <2>1. leases' = leases /\ saves[1] \in Entries
    BY <1>1, SavedOver, Pop
  <2>2. \A l \in Lease : l \in trail'.over => l \in trail.over
    <3>1. saves[1].what \in {"end", "revoke"} => saves[1].id \in Grant \cup Session
      BY <2>1, EntryFields DEF Things
    <3>. QED  BY <1>1, <3>1, SavedOver, AccessAssumption
  <2>. QED  BY <2>1, <2>2 DEF LeasesKept
<1>2. CASE SaveFails
  BY <1>2, SaveFailsOver DEF LeasesKept
<1>3. CASE Restarts
  BY <1>3 DEF Restarts, LeasesKept, Leases
<1>4. ASSUME NEW g \in Grant, Enrols(g)  PROVE leases' = leases /\ trail'.over \subseteq trail.over
  BY <1>0, <1>4 DEF Enrols, Trails
<1>5. ASSUME NEW s \in Session, Operates(s) \/ EndsSession(s)  PROVE leases' = leases /\ trail'.over = trail.over
  BY <1>0, <1>5 DEF Operates, EndsSession, Accept, Trails
<1>6. ASSUME NEW l \in Lease, LeaseSteps(l)  PROVE LeasesKept'
  <2>. DEFINE x == leases[l]
  <2>0. x \in [kept : BOOLEAN, checks : Nat, endings : Nat]
    BY <1>0 DEF Leases
  <2>1. PICK y \in [kept : BOOLEAN, checks : Nat, endings : Nat] :
          /\ leases' = [leases EXCEPT ![l] = y]
          /\ trail'.over \subseteq trail.over \cup {l}
          /\ l \in trail'.over => ~y.kept
    <3>1. CASE LeaseIssued(l)
      <4>1. leases' = [leases EXCEPT ![l] = [x EXCEPT !.kept = TRUE]] /\ trail' = trail /\ l \notin trail.over
        BY <3>1 DEF LeaseIssued
      <4>. QED  BY <2>0, <4>1
    <3>2. CASE LeaseUsed(l)
      <4>1. leases' = [leases EXCEPT ![l] = x] /\ trail'.over = trail.over /\ l \notin trail.over
        BY <1>0, <3>2 DEF LeaseUsed, Principal, Accept, Trails, LeasesKept, Leases
      <4>. QED  BY <2>0, <4>1
    <3>3. CASE LeaseChecked(l)
      <4>1. leases' = [leases EXCEPT ![l] = [x EXCEPT !.checks = @ + 1]] /\ trail' = trail /\ x.kept
        BY <3>3 DEF LeaseChecked, Principal
      <4>2. l \notin trail.over
        BY <4>1 DEF LeasesKept
      <4>3. [x EXCEPT !.checks = @ + 1] \in [kept : BOOLEAN, checks : Nat, endings : Nat]
        BY <2>0
      <4>. QED  BY <4>1, <4>2, <4>3
    <3>4. CASE LeaseGood(l)
      <4>1. /\ leases' = [leases EXCEPT ![l] = [x EXCEPT !.checks = @ - 1]] /\ x.checks > 0
            /\ trail'.over = trail.over
        BY <1>0, <3>4 DEF LeaseGood, Accept, Trails
      <4>2. [x EXCEPT !.checks = @ - 1] \in [kept : BOOLEAN, checks : Nat, endings : Nat]
        BY <2>0, <4>1
      <4>3. l \in trail.over => ~x.kept
        BY DEF LeasesKept
      <4>. QED  BY <2>0, <4>1, <4>2, <4>3
    <3>5. CASE LeaseEnds(l)
      <4>1. PICK n \in 0..1 : /\ n <= x.checks /\ trail' = trail
                              /\ leases' = [leases EXCEPT ![l] = [x EXCEPT !.checks = @ - n, !.endings = @ + 1]]
        <5>1. PICK n \in 0..1 : /\ n <= x.checks /\ trail' = trail
                                /\ leases' = [leases EXCEPT ![l].checks = @ - n, ![l].endings = @ + 1]
          BY <3>5 DEF LeaseEnds
        <5>2. l \in DOMAIN leases
          BY <1>0 DEF Leases
        <5>3. leases' = [leases EXCEPT ![l] = [x EXCEPT !.checks = @ - n, !.endings = @ + 1]]
          BY <5>1, <5>2
        <5>. QED  BY <5>1, <5>3
      <4>2. [x EXCEPT !.checks = @ - n, !.endings = @ + 1] \in [kept : BOOLEAN, checks : Nat, endings : Nat]
        <5>1. x.checks \in Nat /\ x.endings \in Nat
          BY <2>0
        <5>2. x.checks - n \in Nat /\ x.endings + 1 \in Nat
          BY <4>1, <5>1
        <5>. HIDE DEF x
        <5>. QED  BY <2>0, <5>2
      <4>3. l \in trail.over => ~x.kept
        BY DEF LeasesKept
      <4>. QED  BY <2>0, <4>1, <4>2, <4>3
    <3>6. CASE LeaseEnded(l)
      <4>1. /\ leases' = [leases EXCEPT ![l] = [x EXCEPT !.endings = @ - 1, !.kept = FALSE]] /\ x.endings > 0
            /\ trail'.over = trail.over \cup {l}
        <5>1. /\ leases' = [leases EXCEPT ![l].endings = @ - 1, ![l].kept = FALSE] /\ x.endings > 0
              /\ trail'.over = trail.over \cup {l}
          BY <1>0, <3>6 DEF LeaseEnded, Trails
        <5>2. l \in DOMAIN leases
          BY <1>0 DEF Leases
        <5>3. leases' = [leases EXCEPT ![l] = [x EXCEPT !.endings = @ - 1, !.kept = FALSE]]
          BY <5>1, <5>2
        <5>. QED  BY <5>1, <5>3
      <4>2. [x EXCEPT !.endings = @ - 1, !.kept = FALSE] \in [kept : BOOLEAN, checks : Nat, endings : Nat]
        <5>1. x.endings - 1 \in Nat
          BY <2>0, <4>1
        <5>. HIDE DEF x
        <5>. QED  BY <2>0, <5>1
      <4>. QED  BY <2>0, <4>1, <4>2
    <3>. QED  BY <1>6, <3>1, <3>2, <3>3, <3>4, <3>5, <3>6 DEF LeaseSteps
  <2>2. leases' \in Leases
    BY <1>0, <2>1 DEF Leases
  <2>3. \A k \in Lease : k \in trail'.over => ~leases'[k].kept
    BY <1>0, <2>1 DEF Leases, LeasesKept
  <2>. QED  BY <2>2, <2>3 DEF LeasesKept
<1>7. CASE Calm
  BY <1>7 DEF Calm, LeasesKept
<1>. QED  BY <1>1, <1>2, <1>3, <1>4, <1>5, <1>6, <1>7, OverKinds DEF LeasesKept

LEMMA LateStays ==
  ASSUME Types, [Next]_vars, Revocations
  PROVE  /\ trail'.late \subseteq trail'.undone
         /\ trail'.over \subseteq Grant \cup Session \cup Lease
         /\ sockets' \subseteq Session
<1>0. trail \in Trails
  BY DEF Types
<1>1. CASE Saved
  <2>1. saves[1] \in Entries /\ Len(saves) > 0 /\ trail'.undone = trail.undone
    BY <1>1, Pop, SavedTrail
  <2>2. saves[1].what \in {"nonce", "proof"} /\ saves[1].grant \in trail.over => saves[1].grant \in trail.undone
    <3>. SUFFICES ASSUME saves[1].what \in {"nonce", "proof"}, saves[1].grant \in trail.over
                  PROVE  saves[1].grant \in trail.undone
      OBVIOUS
    <3>1. saves[1].grant \in Grant
      BY <2>1, EntryFields, AccessAssumption DEF Revocations
    <3>2. Under(1, saves[1].grant)
      <4>1. Len(saves) \in Nat
        BY LenProperties DEF Types, StoreTypes
      <4>. QED  BY <2>1, <4>1 DEF Under
    <3>. QED  BY <3>1, <3>2 DEF Revocations, GrantKept, Nowhere
  <2>3. saves[1].what \in {"end", "revoke"} => saves[1].id \in Grant \cup Session
    BY <2>1, EntryFields DEF Things
  <2>. QED  BY <1>1, <2>1, <2>2, <2>3, SavedOver DEF Revocations
<1>2. CASE SaveFails
  BY <1>2, SaveFailsOver DEF Revocations
<1>3. CASE Restarts
  BY <1>3, RestartsOver DEF Revocations
<1>4. CASE Excuses /\ \E g \in Grant : Enrols(g)
  BY <1>0, <1>4 DEF Enrols, Excuses, Revocations, Trails
<1>5. CASE Excuses /\ \E s \in Session : Operates(s) \/ EndsSession(s)
  <2>1. PICK s \in Session : Operates(s) \/ EndsSession(s)
    BY <1>5
  <2>2. trail.undone \subseteq trail'.undone
    BY <1>5 DEF Excuses
  <2>3. CASE Operates(s)
    <3>1. trail'.over = trail.over /\ sockets' \subseteq sockets \cup {s}
      BY <1>0, <2>3 DEF Operates, Accept, Tracked, Trails
    <3>2. trail'.late = IF s \in trail.over THEN trail.late \cup {s} ELSE trail.late
      BY <1>0, <2>3 DEF Operates, Accept, Trails
    <3>3. s \in trail.over => s \in trail.undone
      BY <2>3 DEF Operates, Revocations, SessionKept
    <3>. QED  BY <2>2, <3>1, <3>2, <3>3 DEF Revocations
  <2>4. CASE EndsSession(s)
    BY <2>2, <2>4 DEF EndsSession, Revocations
  <2>. QED  BY <2>1, <2>3, <2>4
<1>6. CASE Excuses /\ \E l \in Lease : LeaseSteps(l)
  <2>1. PICK l \in Lease : LeaseSteps(l)
    BY <1>6
  <2>2. trail.undone \subseteq trail'.undone
    BY <1>6 DEF Excuses
  <2>3. /\ trail'.late \subseteq IF leases[l].kept /\ l \in trail.over THEN trail.late \cup {l} ELSE trail.late
        /\ trail'.over \subseteq trail.over \cup {l} /\ sockets' = sockets
    BY <1>0, <2>1
    DEF LeaseSteps, LeaseIssued, LeaseUsed, LeaseChecked, LeaseGood, LeaseEnds, LeaseEnded, LeaseOnly, Principal, Accept, Trails
  <2>. QED  BY <2>2, <2>3 DEF Revocations, LeasesKept
<1>7. CASE Excuses /\ Calm
  BY <1>7 DEF Excuses, Calm, Revocations
<1>. QED  BY <1>1, <1>2, <1>3, <1>4, <1>5, <1>6, <1>7, OnlySome DEF Elsewhere

(* server.js:286-308, 1126-1172: what was revoked is not accepted once that was answered,
   and keeps no socket, whatever else is saved, fails or restarts meanwhile. *)
THEOREM RevokedStaysAlways == Spec => []RevokedStays
<1>1. Init => Revocations
  <2>. SUFFICES ASSUME Init PROVE Revocations
    OBVIOUS
  <2>1. /\ trail.over = {} /\ trail.late = {} /\ sockets = {}
        /\ leases = [l \in Lease |-> [kept |-> FALSE, checks |-> 0, endings |-> 0]]
        /\ \A i, w, id : ~Is(i, w, id)
    BY EmptySeq DEF Init, Is
  <2>. QED  BY <2>1 DEF Revocations, SessionKept, GrantKept, QueueKept, LeasesKept, Leases
<1>2. Types /\ Revocations /\ [Next]_vars => Revocations'
  <2>. SUFFICES ASSUME Types, Revocations, [Next]_vars PROVE Revocations'
    OBVIOUS
  <2>1. \A s \in Session : s \in trail'.undone \/ SessionKept(s)'
    BY SessionStays DEF Revocations
  <2>2. \A g \in Grant : g \in trail'.undone \/ GrantKept(g)'
    BY GrantStays DEF Revocations
  <2>3. LeasesKept'
    BY LeaseStays DEF Revocations
  <2>. QED  BY <2>1, <2>2, <2>3, LateStays DEF Revocations
<1>3. Revocations => RevokedStays
  <2>. SUFFICES ASSUME Revocations, NEW s \in sockets, s \in trail.over PROVE s \in trail.undone
    BY DEF RevokedStays, Revocations
  <2>. QED  BY DEF Revocations, SessionKept
<1>. QED  BY <1>1, <1>2, <1>3, TypesAlways, PTL DEF Spec

(***************************************************************************)
(* Provisioning codes.  A request passes the vault's queue, then the        *)
(* store's, then the platform, then the store's again, while other requests *)
(* and restarts replace its code.  The invariant follows a code through all *)
(* of them: codes go forward (Fresh, Newest), a request waits in one place  *)
(* (Flow), its secret reaches the file before its code does (Secured), what *)
(* is over on the disk is over in the memory and by the code (Past), and    *)
(* what goes on is over or current, and good (Present).                     *)
(***************************************************************************)

(***************************************************************************)
(* The provisioning code.  A code is over by a record of the current one    *)
(* if that is newer, or not live any more.  What is over on the disk is so  *)
(* in what is being written, in the memory and by the code itself; a code   *)
(* that is shown, or about to be, is in each of them with its platform's    *)
(* ids, or over there; and its secret is in the vault's file.               *)
(***************************************************************************)
Statuses == {"none", "saving", "registering", "registered", "shown", "failed"}
Over(p, c) == c <= p.id /\ (p.id = c => ~p.live)
Good(m, c) == Over(m.pairing, c) \/ (m.pairing.id = c /\ m.pairing.live /\ m.platform = c)

(* Codes are issued in their order; nothing knows of one that is not issued. *)
Unseen(c) ==
  /\ store.memory.pairing.id < c /\ store.disk.pairing.id < c /\ store.writing.pairing.id < c
  /\ \A i \in 1..Len(saves) : saves[i].before.pairing.id < c
Fresh ==
  \A c \in Code : attempts[c] = "none" =>
    /\ \A b \in c..MaxCode : attempts[b] = "none"
    /\ c \notin trail.dead /\ c \notin trail.gone /\ code.id < c /\ Unseen(c)
Newest ==
  /\ code.live => code.id # 0
  /\ code.id # 0 => /\ store.memory.pairing.id <= code.id
                    /\ \A i \in 1..Len(saves) : saves[i].before.pairing.id <= code.id
  /\ \A c \in Code : attempts[c] \in {"saving", "registering", "registered"} => c <= code.id

(* Where the request of a code is: its secret waits in the vault's queue, then its code
   among the saves, then its registration.  The last of the vault's codes is the current. *)
InVault(i, c) == vault.queue[i].by = "code" /\ vault.queue[i].name = c
Awaits(i, what, c) == saves[i].what = what /\ saves[i].id = c
QueuedOnce(c) ==
  \A i \in 1..Len(vault.queue) : InVault(i, c) =>
    /\ attempts[c] = "saving" /\ vault.queue[i].content[c] # 0
    /\ \A j \in 1..Len(saves) : ~Awaits(j, "code", c)
    /\ \A j \in 1..Len(vault.queue) : InVault(j, c) => i = j
    /\ \E j \in i..Len(vault.queue) : InVault(j, code.id)
SavedOnce(what, stage, c) ==
  \A i, j \in 1..Len(saves) : Awaits(i, what, c) => attempts[c] = stage /\ (Awaits(j, what, c) => i = j)
Flow ==
  /\ vault.stuck => Len(vault.queue) = 0
  /\ \A c \in Code : QueuedOnce(c) /\ SavedOnce("code", "saving", c) /\ SavedOnce("registration", "registered", c)

Written(c) == attempts[c] \in {"registering", "registered", "shown"} \/ \E i \in 1..Len(saves) : Awaits(i, "code", c)

(* The vault as it is after i more writes. *)
Layer(v, i) == IF i = 0 THEN v.disk ELSE v.queue[i].content
Layered(c) ==
  /\ ~vault.clearing
  /\ \A i, j \in 0..Len(vault.queue) : i <= j /\ Layer(vault, i)[c] # 0 => Layer(vault, j)[c] # 0
  /\ \A i \in 0..Len(vault.queue) : Layer(vault, i)[c] # 0 => vault.memory[c] # 0
Secured(c) == Layered(c) /\ (Written(c) => vault.disk[c] # 0)

Past(c) ==
  /\ code.id = c /\ code.live => c \notin trail.dead
  /\ c \in trail.gone <=> Over(store.disk.pairing, c)
  /\ Over(store.disk.pairing, c) => Over(store.writing.pairing, c)
  /\ Over(store.writing.pairing, c) => Over(store.memory.pairing, c)
  /\ code.id # 0 => /\ Over(store.memory.pairing, c) => Over(code, c)
                    /\ \A i \in 1..Len(saves) : Over(saves[i].before.pairing, c) => Over(code, c)

Present(c) ==
  /\ attempts[c] \in {"saving", "registering", "registered", "shown"} => c \in trail.dead \/ (code.id = c /\ code.live)
  /\ Written(c) => c <= store.memory.pairing.id
  /\ attempts[c] \in {"registered", "shown"} => Good(store.memory, c)
  /\ attempts[c] = "shown" => Good(store.disk, c) /\ Good(store.writing, c)
  /\ Len(saves) > 0 /\ Awaits(1, "registration", c) => Good(store.writing, c)

CodeOrder == attempts \in [Code -> Statuses] /\ Fresh /\ Newest /\ Flow
Codewise == \A c \in Code : c \in trail.undone \/ (Secured(c) /\ Past(c) /\ Present(c))

(***************************************************************************)
(* What each step does to a code.                                           *)
(***************************************************************************)
Asked == attempts \in [Code -> Statuses]

(* The memory becomes m, and at most one save joins the queue. *)
Grown(m) ==
  /\ store'.memory = m /\ store'.disk = store.disk
  /\ \A i \in 1..Len(saves) : saves'[i] = saves[i]
  /\ \/ Len(saves') = Len(saves) /\ store'.writing = store.writing
     \/ /\ Len(saves') = Len(saves) + 1 /\ saves'[Len(saves) + 1].before = store.memory
        /\ store'.writing = IF Len(saves) = 0 THEN m ELSE store.writing
Joins(what, id) ==
  /\ Len(saves') = Len(saves) + 1
  /\ saves'[Len(saves) + 1].what = what /\ saves'[Len(saves) + 1].id = id
Quietly == Len(saves') = Len(saves) \/ \E e \in Entries : saves'[Len(saves) + 1] = e /\ e.what \notin {"code", "registration"}
Still == code' = code /\ attempts' = attempts /\ trail'.dead = trail.dead /\ trail'.gone = trail.gone
Unlost == trail'.undone = trail.undone

LEMMA JoinEffect ==
  ASSUME StoreTypes, NEW m \in Contents, NEW e \in Entries, e.before = store.memory, Save(m, e)
  PROVE  Grown(m) /\ Len(saves') = Len(saves) + 1 /\ saves'[Len(saves) + 1] = e
<1>1. saves = <<>> <=> Len(saves) = 0
  BY EmptySeq DEF StoreTypes
<1>. QED  BY <1>1, SaveTypes DEF Grown

LEMMA StayEffect == ASSUME UNCHANGED <<store, saves>> PROVE Grown(store.memory) /\ Len(saves') = Len(saves) /\ Quietly
BY DEF Grown, Quietly

LEMMA PersistEffect ==
  ASSUME Types, NEW c \in Codes, Persist(c)
  PROVE  Quietly /\ \E m \in Contents : Grown(m) /\ m.pairing = c /\ m.platform = 0
<1>. DEFINE m == [store.memory EXCEPT !.pairing = c, !.platform = 0]
<1>0. store.memory \in Contents /\ 0 \in 0..MaxCode
  BY AccessAssumption DEF Types, StoreTypes
<1>1. m \in Contents /\ m.pairing = c /\ m.platform = 0
  BY <1>0 DEF Contents
<1>2. c.id \in 0..MaxCode
  BY DEF Codes
<1>3. /\ For("quiet", c.id) \in Entries /\ For("quiet", c.id).what = "quiet"
      /\ For("quiet", c.id).before = store.memory
  BY <1>2, NewEntry DEF Things, Types
<1>4. Save(m, For("quiet", c.id))
  BY DEF Persist
<1>. HIDE DEF m
<1>5. Grown(m) /\ saves'[Len(saves) + 1] = For("quiet", c.id)
  BY <1>1, <1>3, <1>4, JoinEffect DEF Types
<1>. QED  BY <1>1, <1>3, <1>5 DEF Quietly

(* Steps of other parts. *)
Aside ==
  /\ Still /\ Unlost /\ Quietly
  /\ \E m \in Contents : Grown(m) /\ m.pairing = store.memory.pairing /\ m.platform = store.memory.platform
  /\ \/ vault' = vault
     \/ VaultWritten /\ vault.queue[1].by = "user"
     \/ \E n \in Secret : Set(n, vault.memory[n] + 1, "user")

LEMMA CodeKinds ==
  ASSUME Types, [Next]_vars
  PROVE  \/ Saved \/ SaveFails \/ Restarts \/ VaultFails \/ Clears \/ Cleared
         \/ VaultWritten /\ vault.queue[1].by = "code"
         \/ \E c \in Code : Issues(c) \/ Registered(c) \/ RegistrationFails(c)
         \/ \E next \in Codes : next.id = code.id /\ Closes(next)
         \/ Aside
<1>0. /\ code \in Codes /\ store.memory \in Contents /\ trail \in Trails /\ vault \in Vaults
      /\ Revoked \in Codes /\ Revoked.id = code.id
  BY RevokedTypes DEF Types, StoreTypes
<1>. DEFINE Same(m) == m.pairing = store.memory.pairing /\ m.platform = store.memory.platform
            Other == {"nonce", "proof", "enroll", "revoke", "end", "other"}
<1>1. ASSUME NEW m \in Contents, Same(m), NEW e \in Entries, e.before = store.memory, e.what \in Other, Save(m, e),
             Still, Unlost, vault' = vault
      PROVE  Aside
  <2>1. Grown(m) /\ saves'[Len(saves) + 1] = e
    BY <1>1, JoinEffect DEF Types
  <2>2. Quietly
    BY <1>1, <2>1 DEF Quietly
  <2>. QED  BY <1>1, <2>1, <2>2 DEF Aside
<1>2. ASSUME UNCHANGED <<store, saves>>, Still, Unlost,
             vault' = vault \/ (VaultWritten /\ vault.queue[1].by = "user") \/ \E n \in Secret : Set(n, vault.memory[n] + 1, "user")
      PROVE  Aside
  BY <1>0, <1>2, StayEffect DEF Aside
<1>3. CASE OtherSaves
  <2>1. "other" \in DOMAIN Things /\ 0 \in Things["other"]
    BY DEF Things
  <2>2. For("other", 0) \in Entries /\ For("other", 0).what = "other" /\ For("other", 0).before = store.memory
    BY <2>1, NewEntry DEF Types
  <2>3. Save(store.memory, For("other", 0)) /\ Still /\ Unlost /\ vault' = vault
    BY <1>3 DEF OtherSaves, Still, Unlost
  <2>. QED  BY <1>0, <1>1, <2>2, <2>3
<1>4. ASSUME NEW t \in Nonce, NEW g \in Grant, UsesNonce(t, g)  PROVE Aside
  <2>. DEFINE e == [For("nonce", t) EXCEPT !.grant = g]
  <2>1. e = [what |-> "nonce", id |-> t, grant |-> g, before |-> store.memory]
    BY DEF For
  <2>2. e \in Entries /\ e.what = "nonce" /\ e.before = store.memory
    <3>1. "nonce" \in DOMAIN Things /\ t \in Things["nonce"]
      BY DEF Things, Token
    <3>. QED  BY <1>0, <2>1, <3>1 DEF Entries
  <2>3. Save(Marked(t), e) /\ Still /\ Unlost /\ vault' = vault
    BY <1>4 DEF UsesNonce, Still, Unlost
  <2>4. Marked(t) \in Contents /\ Same(Marked(t))
    BY <1>0 DEF Marked, Contents, Token
  <2>. HIDE DEF e, Same
  <2>. QED  BY <1>1, <2>2, <2>3, <2>4
<1>5. ASSUME NEW t \in Proof, UsesProof(t)  PROVE Aside
  <2>1. /\ For("proof", t) \in Entries /\ For("proof", t).what = "proof" /\ For("proof", t).before = store.memory
    <3>1. "proof" \in DOMAIN Things /\ t \in Things["proof"]
      BY DEF Things, Token
    <3>. QED  BY <3>1, NewEntry DEF Types
  <2>2. Save(Marked(t), For("proof", t)) /\ Still /\ Unlost /\ vault' = vault
    BY <1>5 DEF UsesProof, Still, Unlost
  <2>3. Marked(t) \in Contents /\ Same(Marked(t))
    BY <1>0 DEF Marked, Contents, Token
  <2>. HIDE DEF Same
  <2>. QED  BY <1>1, <2>1, <2>2, <2>3
<1>6. ASSUME NEW t \in Proof, Pruned(t)  PROVE Aside
  BY <1>2, <1>6 DEF Pruned, Still, Unlost
<1>7. ASSUME NEW g \in Grant, Enrols(g) \/ Revokes(g)  PROVE Aside
  <2>. DEFINE m(v) == [store.memory EXCEPT !.grants[g] = v]
  <2>1. \A v \in {"valid", "revoked"} : m(v) \in Contents /\ Same(m(v))
    <3>. TAKE v \in {"valid", "revoked"}
    <3>. DEFINE gs == [store.memory.grants EXCEPT ![g] = v]
    <3>1. gs \in [Grant -> {"none", "valid", "revoked"}]
      BY <1>0 DEF Contents
    <3>2. m(v) = [store.memory EXCEPT !.grants = gs]
      OBVIOUS
    <3>. HIDE DEF gs, m
    <3>. QED  BY <1>0, <3>1, <3>2 DEF Contents
  <2>2. \A w \in {"enroll", "revoke"} : For(w, g) \in Entries /\ For(w, g).what = w /\ For(w, g).before = store.memory
    <3>1. {"enroll", "revoke"} \subseteq DOMAIN Things /\ g \in Things["enroll"] /\ g \in Things["revoke"]
      BY DEF Things
    <3>. QED  BY <3>1, NewEntry DEF Types
  <2>3. Save(m("valid"), For("enroll", g)) \/ Save(m("revoked"), For("revoke", g))
    BY <1>7 DEF Enrols, Revokes
  <2>4. Still /\ Unlost /\ vault' = vault
    BY <1>0, <1>7 DEF Enrols, Revokes, Still, Unlost, Trails
  <2>. HIDE DEF m, Same
  <2>. QED  BY <1>1, <2>1, <2>2, <2>3, <2>4
<1>8. ASSUME NEW s \in Session, Operates(s)  PROVE Aside
  BY <1>0, <1>2, <1>8 DEF Operates, Accept, Still, Unlost, Trails
<1>9. ASSUME NEW s \in Session, EndsSession(s)  PROVE Aside
  <2>. DEFINE m == [store.memory EXCEPT !.ended = @ \cup {s}]
  <2>1. m \in Contents /\ Same(m)
    BY <1>0 DEF Contents
  <2>2. For("end", s) \in Entries /\ For("end", s).what = "end" /\ For("end", s).before = store.memory
    <3>1. "end" \in DOMAIN Things /\ s \in Things["end"]
      BY DEF Things
    <3>. QED  BY <3>1, NewEntry DEF Types
  <2>3. Save(m, For("end", s)) /\ Still /\ Unlost /\ vault' = vault
    BY <1>9 DEF EndsSession, Still, Unlost
  <2>. HIDE DEF m, Same
  <2>. QED  BY <1>1, <2>1, <2>2, <2>3
<1>10. ASSUME NEW l \in Lease, LeaseIssued(l) \/ LeaseUsed(l) \/ LeaseChecked(l) \/ LeaseGood(l) \/ LeaseEnds(l) \/ LeaseEnded(l)
       PROVE Aside
  <2>1. UNCHANGED <<store, saves>> /\ vault' = vault /\ code' = code /\ attempts' = attempts
    BY <1>10 DEF LeaseIssued, LeaseUsed, LeaseChecked, LeaseGood, LeaseEnds, LeaseEnded, LeaseOnly
  <2>2. trail'.dead = trail.dead /\ trail'.gone = trail.gone /\ trail'.undone = trail.undone
    BY <1>0, <1>10 DEF LeaseIssued, LeaseUsed, LeaseChecked, LeaseGood, LeaseEnds, LeaseEnded, Accept, Trails
  <2>. QED  BY <1>2, <2>1, <2>2 DEF Still, Unlost
<1>11. ASSUME NEW n \in Secret, SetsSecret(n)  PROVE Aside
  BY <1>0, <1>2, <1>11 DEF SetsSecret, Still, Unlost, Trails
<1>12. CASE VaultWritten /\ vault.queue[1].by # "code"
  <2>1. vault.queue[1].by = "user"
    BY <1>0, <1>12, WrittenEffect DEF Writes
  <2>2. UNCHANGED <<store, saves>> /\ code' = code /\ attempts' = attempts
    BY <1>12 DEF VaultWritten, Turn
  <2>3. trail'.dead = trail.dead /\ trail'.gone = trail.gone /\ trail'.undone = trail.undone
    BY <1>0, <1>12, WrittenEffect DEF Trails
  <2>. QED  BY <1>2, <1>12, <2>1, <2>2, <2>3 DEF Still, Unlost
<1>13. CASE Ends
  BY <1>0, <1>13 DEF Ends
<1>14. CASE Mistakes
  <2>. DEFINE next == [id |-> code.id, live |-> code.failures + 1 < MaxFailures, failures |-> code.failures + 1]
  <2>1. (code.failures + 1 < MaxFailures) \in BOOLEAN /\ code.failures + 1 \in Nat
    BY <1>0 DEF Codes
  <2>2. next \in Codes /\ next.id = code.id
    BY <1>0, <2>1 DEF Codes
  <2>. QED  BY <1>14, <2>2 DEF Mistakes
<1>15. CASE UNCHANGED vars
  BY <1>0, <1>2, <1>15 DEF vars, Still, Unlost
<1>. QED
  BY <1>3, <1>4, <1>5, <1>6, <1>7, <1>8, <1>9, <1>10, <1>11, <1>12, <1>13, <1>14, <1>15 DEF Next

(* The requests that wait at the head of the queue take their next step, or fail. *)
LEMMA SavedCode ==
  ASSUME Types, Asked, Saved
  PROVE  /\ Len(saves) > 0 /\ Len(saves') = Len(saves) - 1
         /\ \A i \in 1..Len(saves') : saves'[i] = saves[i + 1]
         /\ store'.memory = store.memory /\ store'.disk = store.writing /\ store'.writing = store.memory
         /\ code' = code /\ vault' = vault /\ Asked'
         /\ trail'.undone = trail.undone /\ trail'.dead = trail.dead
         /\ \A c \in Code : c \in trail'.gone <=> c \in trail.gone \/ Over(store.writing.pairing, c)
         /\ \A c \in Code : attempts'[c] = IF Awaits(1, "code", c) THEN "registering"
                                           ELSE IF Awaits(1, "registration", c) THEN "shown" ELSE attempts[c]
<1>. DEFINE e == Head(saves)
            t == [trail EXCEPT !.gone = @ \cup Closed]
<1>1. /\ trail' = CASE e.what \in {"nonce", "proof"} ->
                         [t EXCEPT !.accepted[e.id] = @ + 1, !.late = IF e.grant \in trail.over THEN @ \cup {e.grant} ELSE @]
                    [] e.what = "end" \/ (e.what = "revoke" /\ StaysRevoked(e.id)) -> [t EXCEPT !.over = @ \cup {e.id}]
                    [] OTHER -> t
      /\ attempts' = CASE e.what = "code" -> [attempts EXCEPT ![e.id] = "registering"]
                       [] e.what = "registration" -> [attempts EXCEPT ![e.id] = "shown"]
                       [] OTHER -> attempts
      /\ code' = code /\ vault' = vault
  BY DEF Saved
<1>2. /\ e = saves[1] /\ e \in Entries /\ saves # <<>> /\ Len(saves') = Len(saves) - 1
      /\ \A i \in 1..Len(saves') : saves'[i] = saves[i + 1]
      /\ store' = [memory |-> store.memory, disk |-> store.writing, writing |-> store.memory]
  BY SavedTypes DEF Types
<1>3. Len(saves) > 0
  BY <1>2, EmptySeq, LenProperties DEF Types, StoreTypes
<1>4. /\ t.undone = trail.undone /\ t.dead = trail.dead /\ t.gone = trail.gone \cup Closed
      /\ DOMAIN t = {"accepted", "over", "late", "dead", "gone", "undone", "told", "mixed"}
  BY DEF Types, Trails
<1>5. trail'.undone = trail.undone /\ trail'.dead = trail.dead /\ trail'.gone = trail.gone \cup Closed
  <2>. HIDE DEF e, t
  <2>. QED  BY <1>1, <1>4
<1>6. \A c \in Code : c \in Closed <=> Over(store.writing.pairing, c)
  <2>1. store.writing.pairing.id \in Nat
    BY DEF Types, StoreTypes, Contents, Codes
  <2>. QED  BY <2>1 DEF Closed, Over, Code
<1>7. /\ e.what = "code" => e.id \in Code
      /\ e.what = "registration" => e.id \in Code
  BY <1>2, EntryFields DEF Things
<1>8. Asked' /\ \A c \in Code : attempts'[c] = IF Awaits(1, "code", c) THEN "registering"
                                               ELSE IF Awaits(1, "registration", c) THEN "shown" ELSE attempts[c]
  <2>1. \A w, c : Awaits(1, w, c) <=> e.what = w /\ e.id = c
    BY <1>2 DEF Awaits
  <2>. HIDE DEF e
  <2>. QED  BY <1>1, <1>7, <2>1 DEF Asked, Statuses
<1>. QED  BY <1>1, <1>2, <1>3, <1>5, <1>6, <1>8

LEMMA FailedCode ==
  ASSUME Types, Asked, SaveFails
  PROVE  /\ Len(saves) > 0 /\ Len(saves') \in {Len(saves) - 1, Len(saves)}
         /\ \A i \in 1..(Len(saves) - 1) : saves'[i] = saves[i + 1]
         /\ Len(saves') = Len(saves) => saves'[Len(saves)].what = "quiet" /\ saves'[Len(saves)].before = store.memory
         /\ store'.disk = store.disk /\ store'.writing \in {store.memory, store'.memory}
         /\ vault' = vault /\ trail'.gone = trail.gone /\ Asked'
         /\ \A c \in Code : attempts'[c] = IF Awaits(1, "code", c) \/ Awaits(1, "registration", c) THEN "failed" ELSE attempts[c]
         /\ \/ /\ saves[1].what = "other" /\ store'.memory = saves[1].before
               /\ code' = code /\ trail'.dead = trail.dead /\ trail'.undone = trail.undone \cup Loses(saves[1].before)
            \/ /\ saves[1].what = "registration" /\ saves[1].id \in Code
               /\ store'.memory.pairing = Revoked /\ code' = Revoked
               /\ trail'.dead = trail.dead \cup {code.id} /\ trail'.undone = trail.undone
            \/ /\ saves[1].what \notin {"other", "registration"} /\ store'.memory = store.memory
               /\ code' = code /\ trail'.dead = trail.dead /\ trail'.undone = trail.undone
<1>. DEFINE e == Head(saves)
            lost == e.what = "registration"
            memory == CASE e.what = "other" -> e.before
                        [] lost -> [store.memory EXCEPT !.pairing = Revoked, !.platform = 0]
                        [] OTHER -> store.memory
<1>1. /\ saves # <<>>
      /\ saves' = Tail(saves) \o IF lost THEN <<For("quiet", code.id)>> ELSE <<>>
      /\ store' = [store EXCEPT !.memory = memory, !.writing = IF Len(saves) = 1 THEN memory ELSE store.memory]
      /\ code' = IF lost THEN Revoked ELSE code
      /\ attempts' = IF lost \/ e.what = "code" THEN [attempts EXCEPT ![e.id] = "failed"] ELSE attempts
      /\ vault' = vault
      /\ trail' = CASE e.what = "other" -> [trail EXCEPT !.undone = @ \cup Loses(e.before)]
                    [] lost -> [trail EXCEPT !.dead = @ \cup {code.id}]
                    [] OTHER -> trail
  BY DEF SaveFails
<1>2. /\ saves[1] \in Entries /\ saves \in Seq(Entries) /\ Len(saves') \in {Len(saves) - 1, Len(saves)}
      /\ \A i \in 1..(Len(saves) - 1) : saves'[i] = saves[i + 1]
      /\ Len(saves') = Len(saves) => saves'[Len(saves)].what = "quiet"
      /\ store'.disk = store.disk
  BY SaveFailsTypes DEF Types, StoreTypes
<1>3. e = saves[1] /\ Len(saves) > 0 /\ Len(saves) \in Nat
  BY <1>1, <1>2, EmptySeq, LenProperties, HeadTailProperties
<1>4. Len(saves') = Len(saves) => saves'[Len(saves)].before = store.memory
  <2>1. CASE lost
    <3>. DEFINE q == For("quiet", code.id)
    <3>1. q.before = store.memory
      BY DEF For
    <3>2. q \in Entries
      <4>1. code.id \in 0..MaxCode
        BY DEF Types, StoreTypes, Codes
      <4>. QED  BY <4>1, NewEntry DEF Types, Things
    <3>3. Tail(saves) \in Seq(Entries) /\ Len(Tail(saves)) = Len(saves) - 1
      BY <1>1, <1>2, HeadTailProperties
    <3>4. saves' = Append(Tail(saves), q)
      BY <1>1, <2>1, <3>2, <3>3, AppendIsConcat
    <3>. HIDE DEF q
    <3>. QED  BY <1>3, <3>1, <3>2, <3>3, <3>4, AppendProperties
  <2>2. CASE ~lost
    <3>1. Tail(saves) \in Seq(Entries) /\ Len(Tail(saves)) = Len(saves) - 1
      BY <1>1, <1>2, HeadTailProperties
    <3>2. saves' = Tail(saves)
      BY <1>1, <2>2, <3>1, ConcatEmptySeq
    <3>. QED  BY <1>3, <3>1, <3>2
  <2>. QED  BY <2>1, <2>2
<1>5. store'.memory = memory /\ store'.writing \in {store.memory, memory}
  <2>. HIDE DEF memory
  <2>. QED  BY <1>1 DEF Types, StoreTypes
<1>6. /\ e.what = "other" => memory = e.before
      /\ lost => memory.pairing = Revoked
      /\ e.what \notin {"other", "registration"} => memory = store.memory
  BY DEF Types, StoreTypes, Contents
<1>7. /\ trail'.gone = trail.gone
      /\ e.what = "other" => trail'.dead = trail.dead /\ trail'.undone = trail.undone \cup Loses(e.before)
      /\ lost => trail'.dead = trail.dead \cup {code.id} /\ trail'.undone = trail.undone
      /\ e.what \notin {"other", "registration"} => trail' = trail
  BY <1>1 DEF Types, Trails
<1>8. e.what \in {"code", "registration"} => e.id \in Code
  BY <1>2, <1>3, EntryFields DEF Things
<1>9. Asked' /\ \A c \in Code : attempts'[c] = IF Awaits(1, "code", c) \/ Awaits(1, "registration", c) THEN "failed" ELSE attempts[c]
  <2>1. \A w, c : Awaits(1, w, c) <=> e.what = w /\ e.id = c
    BY <1>3 DEF Awaits
  <2>. HIDE DEF e
  <2>. QED  BY <1>1, <1>8, <2>1 DEF Asked, Statuses
<1>. HIDE DEF memory
<1>. QED  BY <1>1, <1>2, <1>3, <1>4, <1>5, <1>6, <1>7, <1>8, <1>9

LEMMA RestartCode ==
  ASSUME Types, Asked, Restarts
  PROVE  /\ Len(saves') = 0 /\ store'.memory = store.disk /\ store'.disk = store.disk /\ store'.writing = store.disk
         /\ code' = Restored /\ Asked'
         /\ vault'.memory = vault.disk /\ vault'.disk = vault.disk /\ Len(vault'.queue) = 0
         /\ vault'.stuck = FALSE /\ vault'.clearing = FALSE
         /\ trail'.dead = trail.gone /\ trail'.gone = trail.gone /\ trail'.undone = trail.undone
         /\ \A c \in Code : attempts'[c] = IF attempts[c] \in {"none", "shown"} THEN attempts[c] ELSE "failed"
<1>1. /\ trail'.dead = trail.gone /\ trail'.gone = trail.gone /\ trail'.undone = trail.undone
  BY DEF Restarts, Types, Trails
<1>2. Asked' /\ \A c \in Code : attempts'[c] = IF attempts[c] \in {"none", "shown"} THEN attempts[c] ELSE "failed"
  BY DEF Restarts, Asked, Statuses
<1>. QED  BY <1>1, <1>2, EmptySeq DEF Restarts

LEMMA LosesCode ==
  ASSUME Types, NEW m \in Contents, NEW c \in Code, c \notin Loses(m)
  PROVE  (m.pairing = store.memory.pairing /\ m.platform = store.memory.platform) \/ store.memory.pairing.id < c
<1>1. store.memory.pairing.id \in Nat
  BY DEF Types, StoreTypes, Contents, Codes
<1>. QED  BY <1>1 DEF Loses, Code

LEMMA VaultFailsCode ==
  ASSUME Types, Asked, VaultFails
  PROVE  /\ Grown(store.memory) /\ Len(saves') = Len(saves) /\ code' = code /\ trail' = trail /\ Asked'
         /\ vault'.memory = vault.memory /\ vault'.disk = vault.disk /\ Len(vault'.queue) = 0
         /\ vault'.stuck = TRUE /\ vault'.clearing = vault.clearing
         /\ \A c \in Code : attempts'[c] = IF \E i \in 1..Len(vault.queue) : InVault(i, c) THEN "failed" ELSE attempts[c]
<1>1. /\ UNCHANGED <<store, saves>> /\ code' = code /\ trail' = trail
      /\ vault'.memory = vault.memory /\ vault'.disk = vault.disk /\ vault'.queue = <<>>
      /\ vault'.stuck = TRUE /\ vault'.clearing = vault.clearing
      /\ attempts' = [c \in Code |-> IF \E w \in Range(vault.queue) : w.by = "code" /\ w.name = c THEN "failed" ELSE attempts[c]]
  BY DEF VaultFails, Types, Vaults
<1>2. \A c \in Code : (\E w \in Range(vault.queue) : w.by = "code" /\ w.name = c) <=> \E i \in 1..Len(vault.queue) : InVault(i, c)
  <2>1. vault.queue \in Seq(Writes) /\ DOMAIN vault.queue = 1..Len(vault.queue)
    BY LenProperties DEF Types, Vaults
  <2>. QED  BY <2>1 DEF Range, InVault
<1>. QED  BY <1>1, <1>2, StayEffect, EmptySeq DEF Asked, Statuses

LEMMA ClearsCode ==
  ASSUME Types, Clears
  PROVE  /\ Grown(store.memory) /\ Len(saves') = Len(saves) /\ Still /\ Code \subseteq trail'.undone
         /\ vault'.queue = vault.queue /\ vault'.stuck = vault.stuck
BY StayEffect DEF Clears, Still, Types, Trails, Vaults

LEMMA ClearedCode ==
  ASSUME Types, Cleared
  PROVE  /\ vault.clearing /\ Grown(Empty) /\ Quietly /\ Still
         /\ vault'.queue = vault.queue /\ vault'.stuck = vault.stuck
<1>1. vault.clearing /\ vault'.queue = vault.queue /\ vault'.stuck = vault.stuck /\ Still /\ Save(Empty, For("reset", 0))
  BY DEF Cleared, Still, Types, Trails, Vaults
<1>2. For("reset", 0) \in Entries /\ For("reset", 0).what = "reset" /\ For("reset", 0).before = store.memory
  <2>1. "reset" \in DOMAIN Things /\ 0 \in Things["reset"]
    BY DEF Things
  <2>. QED  BY <2>1, NewEntry DEF Types
<1>3. Grown(Empty) /\ saves'[Len(saves) + 1] = For("reset", 0)
  BY <1>1, <1>2, EmptyTypes, JoinEffect DEF Types
<1>. QED  BY <1>1, <1>2, <1>3 DEF Quietly

(* The code's secret is in the vault's file: the current code is saved. *)
LEMMA VaultCode ==
  ASSUME Types, VaultWritten, vault.queue[1].by = "code"
  PROVE  /\ Len(vault.queue) > 0 /\ Still /\ Unlost
         /\ \E c \in Code : InVault(1, c) /\ Joins("code", c)
         /\ \E m \in Contents : Grown(m) /\ m.pairing = code /\ m.platform = 0
<1>. DEFINE m == [store.memory EXCEPT !.pairing = code, !.platform = 0]
            c == vault.queue[1].name
<1>1. vault.queue # <<>> /\ vault.queue[1] \in Writes
  BY WrittenEffect DEF Types
<1>2. Len(vault.queue) > 0
  BY <1>1, EmptySeq, LenProperties DEF Types, Vaults
<1>3. c \in Code /\ InVault(1, c)
  BY <1>1 DEF Writes, InVault
<1>4. Save(m, For("code", c)) /\ code' = code /\ attempts' = attempts
  BY <1>2 DEF VaultWritten, Turn, AnyTurn
<1>5. trail'.dead = trail.dead /\ trail'.gone = trail.gone /\ trail'.undone = trail.undone
  BY WrittenEffect DEF Types, Trails
<1>6. m \in Contents /\ m.pairing = code /\ m.platform = 0
  <2>1. store.memory \in Contents /\ code \in Codes /\ 0 \in 0..MaxCode
    BY AccessAssumption DEF Types, StoreTypes
  <2>. QED  BY <2>1 DEF Contents
<1>. HIDE DEF m, c
<1>7. For("code", c) \in Entries /\ For("code", c).what = "code" /\ For("code", c).id = c /\ For("code", c).before = store.memory
  <2>1. "code" \in DOMAIN Things /\ c \in Things["code"]
    BY <1>3 DEF Things
  <2>. QED  BY <2>1, NewEntry DEF Types
<1>8. Grown(m) /\ Len(saves') = Len(saves) + 1 /\ saves'[Len(saves) + 1] = For("code", c)
  BY <1>4, <1>6, <1>7, JoinEffect DEF Types
<1>9. Joins("code", c)
  BY <1>7, <1>8 DEF Joins
<1>. QED  BY <1>2, <1>3, <1>4, <1>5, <1>6, <1>8, <1>9 DEF Still, Unlost

LEMMA IssuedCode ==
  ASSUME Types, Asked, NEW c \in Code, Issues(c)
  PROVE  /\ attempts[c] = "none" /\ \A b \in 1..(c - 1) : attempts[b] # "none"
         /\ code'.id = c /\ code'.live = TRUE
         /\ Asked' /\ attempts'[c] = IF vault.stuck THEN "failed" ELSE "saving"
         /\ \A b \in Code : b # c => attempts'[b] = attempts[b]
         /\ Grown(store.memory) /\ Len(saves') = Len(saves)
         /\ Set(c, 1, "code")
         /\ trail'.dead = trail.dead \cup 1..(c - 1) /\ trail'.gone = trail.gone /\ Unlost
<1>1. attempts' = [attempts EXCEPT ![c] = IF vault.stuck THEN "failed" ELSE "saving"]
  BY DEF Issues
<1>2. Asked' /\ attempts'[c] = (IF vault.stuck THEN "failed" ELSE "saving") /\ \A b \in Code : b # c => attempts'[b] = attempts[b]
  BY <1>1 DEF Asked, Statuses
<1>3. trail'.dead = trail.dead \cup 1..(c - 1) /\ trail'.gone = trail.gone /\ trail'.undone = trail.undone
  BY DEF Issues, Types, Trails
<1>4. UNCHANGED <<store, saves>>
  BY DEF Issues
<1>5. code'.id = c /\ code'.live = TRUE /\ attempts[c] = "none" /\ Set(c, 1, "code") /\ \A b \in 1..(c - 1) : attempts[b] # "none"
  BY DEF Issues
<1>. QED  BY <1>2, <1>3, <1>4, <1>5, StayEffect DEF Unlost

LEMMA RegisteredCode ==
  ASSUME Types, Asked, NEW c \in Code, Registered(c)
  PROVE  /\ attempts[c] = "registering" /\ Asked' /\ attempts'[c] = "registered"
         /\ \A b \in Code : b # c => attempts'[b] = attempts[b]
         /\ Joins("registration", c)
         /\ \E m \in Contents : Grown(m) /\ m.pairing = store.memory.pairing /\ m.platform = c
         /\ code' = code /\ vault' = vault /\ trail'.dead = trail.dead /\ trail'.gone = trail.gone
         /\ trail'.undone = trail.undone \cup ({store.memory.pairing.id} \ {c})
<1>. DEFINE m == [store.memory EXCEPT !.platform = c]
<1>1. attempts[c] = "registering" /\ attempts' = [attempts EXCEPT ![c] = "registered"] /\ Save(m, For("registration", c))
      /\ code' = code /\ vault' = vault
  BY DEF Registered
<1>2. /\ trail'.dead = trail.dead /\ trail'.gone = trail.gone
      /\ trail'.undone = trail.undone \cup ({store.memory.pairing.id} \ {c})
  BY DEF Registered, Types, Trails
<1>3. m \in Contents /\ m.pairing = store.memory.pairing /\ m.platform = c
  <2>1. store.memory \in Contents /\ c \in 0..MaxCode
    BY DEF Types, StoreTypes, Code
  <2>. QED  BY <2>1 DEF Contents
<1>. HIDE DEF m
<1>4. /\ For("registration", c) \in Entries /\ For("registration", c).what = "registration" /\ For("registration", c).id = c
      /\ For("registration", c).before = store.memory
  <2>1. "registration" \in DOMAIN Things /\ c \in Things["registration"]
    BY DEF Things
  <2>. QED  BY <2>1, NewEntry DEF Types
<1>5. Grown(m) /\ Len(saves') = Len(saves) + 1 /\ saves'[Len(saves) + 1] = For("registration", c)
  BY <1>1, <1>3, <1>4, JoinEffect DEF Types
<1>6. Joins("registration", c)
  BY <1>4, <1>5 DEF Joins
<1>7. Asked' /\ attempts'[c] = "registered" /\ \A b \in Code : b # c => attempts'[b] = attempts[b]
  BY <1>1 DEF Asked, Statuses
<1>. QED  BY <1>1, <1>2, <1>3, <1>5, <1>6, <1>7

LEMMA UnregisteredCode ==
  ASSUME Types, Asked, NEW c \in Code, RegistrationFails(c)
  PROVE  /\ attempts[c] = "registering" /\ Asked' /\ attempts'[c] = "failed"
         /\ \A b \in Code : b # c => attempts'[b] = attempts[b]
         /\ code' = Revoked /\ Quietly /\ \E m \in Contents : Grown(m) /\ m.pairing = code' /\ m.platform = 0
         /\ vault' = vault /\ trail'.gone = trail.gone /\ trail'.dead = trail.dead \cup {c}
         /\ trail'.undone = IF code.id # c THEN trail.undone \cup {code.id} ELSE trail.undone
<1>1. attempts[c] = "registering" /\ attempts' = [attempts EXCEPT ![c] = "failed"] /\ code' = Revoked /\ Persist(Revoked) /\ vault' = vault
  BY DEF RegistrationFails
<1>2. /\ trail'.gone = trail.gone /\ trail'.dead = trail.dead \cup {c}
      /\ trail'.undone = IF code.id # c THEN trail.undone \cup {code.id} ELSE trail.undone
  BY DEF RegistrationFails, Types, Trails
<1>3. Quietly /\ \E m \in Contents : Grown(m) /\ m.pairing = Revoked /\ m.platform = 0
  BY <1>1, RevokedTypes, PersistEffect DEF Types
<1>4. Asked' /\ attempts'[c] = "failed" /\ \A b \in Code : b # c => attempts'[b] = attempts[b]
  BY <1>1 DEF Asked, Statuses
<1>. QED  BY <1>1, <1>2, <1>3, <1>4

LEMMA ClosedCode ==
  ASSUME Types, NEW next \in Codes, next.id = code.id, Closes(next)
  PROVE  /\ code.live /\ code' = next /\ attempts' = attempts /\ vault' = vault
         /\ Quietly /\ \E m \in Contents : Grown(m) /\ m.pairing = code' /\ m.platform = 0
         /\ trail'.gone = trail.gone
         /\ next.live => trail'.undone = trail.undone \cup {code.id} /\ trail'.dead = trail.dead
         /\ ~next.live => trail'.undone = trail.undone /\ trail'.dead = trail.dead \cup {code.id}
<1>1. code.live /\ code' = next /\ attempts' = attempts /\ vault' = vault /\ Persist(next)
  BY DEF Closes
<1>2. /\ trail'.gone = trail.gone
      /\ next.live => trail'.undone = trail.undone \cup {code.id} /\ trail'.dead = trail.dead
      /\ ~next.live => trail'.undone = trail.undone /\ trail'.dead = trail.dead \cup {code.id}
  BY DEF Closes, Types, Trails
<1>. QED  BY <1>1, <1>2, PersistEffect

(***************************************************************************)
(* The order of the codes and of their requests.                            *)
(***************************************************************************)
LEMMA Numbers ==
  ASSUME Types
  PROVE  /\ store.memory \in Contents /\ store.disk \in Contents /\ store.writing \in Contents
         /\ store.memory.pairing \in Codes /\ store.disk.pairing \in Codes /\ store.writing.pairing \in Codes
         /\ code \in Codes /\ code.id \in 0..MaxCode /\ MaxCode \in Nat /\ Len(saves) \in Nat /\ Len(vault.queue) \in Nat
         /\ \A i \in 1..Len(saves) : saves[i] \in Entries /\ saves[i].before \in Contents /\ saves[i].before.pairing \in Codes
         /\ \A p \in Codes : p.id \in 0..MaxCode /\ p.live \in BOOLEAN
<1>1. saves \in Seq(Entries) /\ vault.queue \in Seq(Writes)
  BY DEF Types, StoreTypes, Vaults
<1>2. \A i \in 1..Len(saves) : saves[i] \in Entries
  BY <1>1
<1>3. \A m \in Contents : m.pairing \in Codes
  BY DEF Contents
<1>4. \A p \in Codes : p.id \in 0..MaxCode /\ p.live \in BOOLEAN
  BY DEF Codes
<1>. QED  BY <1>1, <1>2, <1>3, <1>4, EntryFields, LenProperties, AccessAssumption DEF Types, StoreTypes

LEMMA UnseenGrown ==
  ASSUME Types, NEW c \in Code, Unseen(c), NEW m \in Contents, Grown(m), m.pairing.id < c
  PROVE  Unseen(c)'
BY Numbers DEF Grown, Unseen

LEMMA FreshStays ==
  ASSUME Types, CodeOrder, [Next]_vars
  PROVE  Fresh'
<1>. SUFFICES ASSUME NEW c \in Code, attempts'[c] = "none"
              PROVE  /\ \A b \in c..MaxCode : attempts'[b] = "none"
                     /\ c \notin trail'.dead /\ c \notin trail'.gone /\ code'.id < c /\ Unseen(c)'
  BY DEF Fresh
<1>0. /\ Asked /\ c..MaxCode \subseteq Code /\ c \in Nat /\ c > 0
      /\ \A b \in Code, i \in 1..Len(saves) : Awaits(i, "code", b) \/ Awaits(i, "registration", b) => attempts[b] # "none"
      /\ \A b \in Code, i \in 1..Len(vault.queue) : InVault(i, b) => attempts[b] # "none"
  BY AccessAssumption DEF CodeOrder, Asked, Flow, QueuedOnce, SavedOnce, Code
<1>1. attempts[c] = "none" => /\ \A b \in c..MaxCode : attempts[b] = "none"
                              /\ c \notin trail.dead /\ c \notin trail.gone /\ code.id < c /\ Unseen(c)
  BY DEF CodeOrder, Fresh
<1>2. CASE Saved
  <2>1. attempts[c] = "none" /\ \A b \in c..MaxCode : attempts[b] = "none" => attempts'[b] = "none"
    BY <1>0, <1>2, SavedCode, Numbers
  <2>2. Unseen(c)'
    <3>1. /\ Len(saves') = Len(saves) - 1 /\ \A i \in 1..Len(saves') : saves'[i] = saves[i + 1]
          /\ store'.memory = store.memory /\ store'.disk = store.writing /\ store'.writing = store.memory
      BY <1>0, <1>2, SavedCode
    <3>2. \A i \in 1..Len(saves') : i + 1 \in 1..Len(saves)
      BY <3>1, Numbers
    <3>. QED  BY <1>1, <2>1, <3>1, <3>2 DEF Unseen
  <2>3. ~Over(store.writing.pairing, c)
    BY <1>0, <1>1, <2>1, Numbers DEF Unseen, Over
  <2>. QED  BY <1>0, <1>1, <1>2, <2>1, <2>2, <2>3, SavedCode
<1>3. CASE SaveFails
  <2>1. attempts[c] = "none" /\ \A b \in c..MaxCode : attempts[b] = "none" => attempts'[b] = "none"
    BY <1>0, <1>3, FailedCode, Numbers
  <2>2. code'.id = code.id /\ store'.memory.pairing.id < c
    BY <1>0, <1>1, <1>3, <2>1, FailedCode, Numbers, RevokedTypes DEF Unseen, Types
  <2>3. Unseen(c)'
    <3>1. /\ Len(saves') \in {Len(saves) - 1, Len(saves)}
          /\ \A i \in 1..(Len(saves) - 1) : saves'[i] = saves[i + 1]
          /\ Len(saves') = Len(saves) => saves'[Len(saves)].before = store.memory
          /\ store'.disk = store.disk /\ store'.writing \in {store.memory, store'.memory}
      BY <1>0, <1>3, FailedCode
    <3>2. \A i \in 1..Len(saves') : 
            (i + 1 \in 1..Len(saves) /\ i \in 1..(Len(saves) - 1)) \/ (i = Len(saves) /\ Len(saves') = Len(saves))
      BY <3>1, Numbers
    <3>. QED  BY <1>1, <2>1, <2>2, <3>1, <3>2 DEF Unseen
  <2>. QED  BY <1>0, <1>1, <1>3, <2>1, <2>2, <2>3, FailedCode
<1>4. CASE Restarts
  <2>1. attempts[c] = "none" /\ \A b \in c..MaxCode : attempts[b] = "none" => attempts'[b] = "none"
    BY <1>0, <1>4, RestartCode
  <2>2. Unseen(c)'
    <3>1. Len(saves') = 0 /\ store'.memory = store.disk /\ store'.disk = store.disk /\ store'.writing = store.disk
      BY <1>0, <1>4, RestartCode
    <3>2. 1..Len(saves') = {}
      BY <3>1
    <3>. QED  BY <1>1, <2>1, <3>1, <3>2 DEF Unseen
  <2>3. code'.id < c
    BY <1>0, <1>1, <1>4, <2>1, RestartCode DEF Restored, NoCode, Unseen
  <2>. QED  BY <1>0, <1>1, <1>4, <2>1, <2>2, <2>3, RestartCode
<1>5. ASSUME NEW m \in Contents, Grown(m), m.pairing.id \in {store.memory.pairing.id, code.id, 0}, code'.id = code.id,
             \A b \in Code : attempts[b] = "none" <=> attempts'[b] = "none",
             c \in trail'.dead => c \in trail.dead \/ c = code.id \/ attempts[c] # "none", trail'.gone = trail.gone
      PROVE  /\ \A b \in c..MaxCode : attempts'[b] = "none"
             /\ c \notin trail'.dead /\ c \notin trail'.gone /\ code'.id < c /\ Unseen(c)'
  <2>1. attempts[c] = "none" /\ m.pairing.id < c
    BY <1>0, <1>1, <1>5 DEF Unseen
  <2>2. Unseen(c)'
    BY <1>1, <1>5, <2>1, UnseenGrown
  <2>. QED  BY <1>0, <1>1, <1>5, <2>1, <2>2, Numbers
<1>6. CASE VaultFails
  BY <1>0, <1>5, <1>6, VaultFailsCode, Numbers
<1>7. CASE Clears
  BY <1>5, <1>7, ClearsCode, Numbers DEF Still
<1>8. CASE Cleared
  <2>1. Empty \in Contents /\ Empty.pairing.id = 0
    BY EmptyTypes DEF Empty, NoCode
  <2>. QED  BY <1>5, <1>8, <2>1, ClearedCode DEF Still
<1>9. CASE VaultWritten /\ vault.queue[1].by = "code"
  BY <1>5, <1>9, VaultCode DEF Still
<1>10. ASSUME NEW b \in Code, Issues(b)  PROVE  /\ \A d \in c..MaxCode : attempts'[d] = "none"
                                               /\ c \notin trail'.dead /\ c \notin trail'.gone /\ code'.id < c /\ Unseen(c)'
  <2>1. c # b /\ attempts[c] = "none" /\ c \notin 1..(b - 1)
    BY <1>0, <1>10, IssuedCode
  <2>2. b < c /\ b \notin c..MaxCode
    BY <1>0, <2>1 DEF Code
  <2>3. Unseen(c)'
    BY <1>0, <1>1, <1>10, <2>1, IssuedCode, UnseenGrown, Numbers DEF Unseen
  <2>4. \A d \in c..MaxCode : d # b /\ attempts'[d] = attempts[d]
    <3>1. \A d \in c..MaxCode : d \in Code /\ d # b
      BY <1>0, <2>2
    <3>2. \A d \in Code : d # b => attempts'[d] = attempts[d]
      BY <1>0, <1>10, IssuedCode
    <3>. QED  BY <3>1, <3>2
  <2>5. code'.id = b /\ trail'.dead = trail.dead \cup 1..(b - 1) /\ trail'.gone = trail.gone
    BY <1>0, <1>10, IssuedCode
  <2>. QED  BY <1>1, <2>1, <2>2, <2>3, <2>4, <2>5
<1>11. ASSUME NEW b \in Code, Registered(b)  PROVE  /\ \A d \in c..MaxCode : attempts'[d] = "none"
                                               /\ c \notin trail'.dead /\ c \notin trail'.gone /\ code'.id < c /\ Unseen(c)'
  BY <1>0, <1>5, <1>11, RegisteredCode
<1>12. ASSUME NEW b \in Code, RegistrationFails(b)  PROVE  /\ \A d \in c..MaxCode : attempts'[d] = "none"
                                               /\ c \notin trail'.dead /\ c \notin trail'.gone /\ code'.id < c /\ Unseen(c)'
  BY <1>0, <1>5, <1>12, UnregisteredCode, RevokedTypes DEF Types
<1>13. ASSUME NEW next \in Codes, next.id = code.id, Closes(next)  PROVE  /\ \A d \in c..MaxCode : attempts'[d] = "none"
                                               /\ c \notin trail'.dead /\ c \notin trail'.gone /\ code'.id < c /\ Unseen(c)'
  BY <1>0, <1>5, <1>13, ClosedCode
<1>14. CASE Aside
  BY <1>5, <1>14 DEF Aside, Still
<1>. QED  BY <1>2, <1>3, <1>4, <1>6, <1>7, <1>8, <1>9, <1>10, <1>11, <1>12, <1>13, <1>14, CodeKinds

LEMMA NewestGrown ==
  ASSUME Types, Newest, NEW m \in Contents, Grown(m), m.pairing.id \in {store.memory.pairing.id, code.id, 0}, code'.id = code.id,
         code'.live => code'.id # 0,
         \A c \in Code : attempts'[c] \in {"saving", "registering", "registered"} => attempts[c] \in {"saving", "registering", "registered"}
  PROVE  Newest'
<1>1. code.id \in Nat
  BY Numbers
<1>2. code.id # 0 => m.pairing.id <= code.id /\ store.memory.pairing.id <= code.id
  BY <1>1, Numbers DEF Newest
<1>3. code.id # 0 => \A i \in 1..Len(saves') : saves'[i].before.pairing.id <= code.id
  BY <1>2, Numbers DEF Grown, Newest
<1>4. store'.memory = m
  BY DEF Grown
<1>. QED  BY <1>2, <1>3, <1>4 DEF Newest

LEMMA NewestStays ==
  ASSUME Types, CodeOrder, [Next]_vars
  PROVE  Newest'
<1>0. Asked /\ Newest
  BY DEF CodeOrder, Asked
<1>1. /\ \A b \in Code, i \in 1..Len(saves) : Awaits(i, "code", b) => attempts[b] = "saving"
      /\ \A b \in Code, i \in 1..Len(saves) : Awaits(i, "registration", b) => attempts[b] = "registered"
  BY DEF CodeOrder, Flow, SavedOnce
<1>2. CASE Saved
  <2>1. /\ Len(saves) > 0 /\ Len(saves') = Len(saves) - 1 /\ \A i \in 1..Len(saves') : saves'[i] = saves[i + 1]
        /\ store'.memory = store.memory /\ code' = code
    BY <1>0, <1>2, SavedCode
  <2>2. \A i \in 1..Len(saves') : i + 1 \in 1..Len(saves)
    BY <2>1, Numbers
  <2>3. 1 \in 1..Len(saves)
    BY <2>1, Numbers
  <2>4. \A c \in Code : attempts'[c] \in {"saving", "registering", "registered"} => attempts[c] \in {"saving", "registering", "registered"}
    BY <1>0, <1>1, <1>2, <2>3, SavedCode
  <2>. QED  BY <1>0, <2>1, <2>2, <2>4 DEF Newest
<1>3. CASE SaveFails
  <2>1. /\ Len(saves) > 0 /\ Len(saves') \in {Len(saves) - 1, Len(saves)}
        /\ \A i \in 1..(Len(saves) - 1) : saves'[i] = saves[i + 1]
        /\ Len(saves') = Len(saves) => saves'[Len(saves)].before = store.memory
    BY <1>0, <1>3, FailedCode
  <2>2. \A i \in 1..Len(saves') :
            (i + 1 \in 1..Len(saves) /\ i \in 1..(Len(saves) - 1)) \/ (i = Len(saves) /\ Len(saves') = Len(saves))
    BY <2>1, Numbers
  <2>3. 1 \in 1..Len(saves)
    BY <2>1, Numbers
  <2>4. \A c \in Code : attempts'[c] \in {"saving", "registering", "registered"} => attempts[c] \in {"saving", "registering", "registered"}
    BY <1>0, <1>3, FailedCode
  <2>5. code'.id = code.id /\ (code'.live => code.live) /\ store'.memory.pairing.id \in {store.memory.pairing.id, saves[1].before.pairing.id, code.id}
    BY <1>0, <1>3, FailedCode, RevokedTypes DEF Types
  <2>6. code.id # 0 => store'.memory.pairing.id <= code.id
    BY <1>0, <2>3, <2>5, Numbers DEF Newest
  <2>7. code.id # 0 => \A i \in 1..Len(saves') : saves'[i].before.pairing.id <= code.id
    BY <1>0, <2>1, <2>2 DEF Newest
  <2>. QED  BY <1>0, <2>4, <2>5, <2>6, <2>7 DEF Newest
<1>4. CASE Restarts
  <2>1. Len(saves') = 0 /\ store'.memory = store.disk /\ code' = Restored
        /\ \A c \in Code : attempts'[c] = IF attempts[c] \in {"none", "shown"} THEN attempts[c] ELSE "failed"
    BY <1>0, <1>4, RestartCode
  <2>2. 1..Len(saves') = {}
    BY <2>1
  <2>3. code' = NoCode \/ (code' = store.disk.pairing /\ code'.id # 0)
    BY <2>1 DEF Restored
  <2>4. NoCode.id = 0 /\ NoCode.live = FALSE
    BY DEF NoCode
  <2>5. store.disk.pairing.id \in Nat
    BY Numbers
  <2>. QED  BY <2>1, <2>2, <2>3, <2>4, <2>5 DEF Newest
<1>5. CASE VaultFails
  <2>1. \A c \in Code : attempts'[c] \in {"saving", "registering", "registered"} => attempts[c] \in {"saving", "registering", "registered"}
    BY <1>0, <1>5, VaultFailsCode
  <2>. QED  BY <1>0, <1>5, <2>1, VaultFailsCode, NewestGrown, Numbers DEF Newest
<1>6. CASE Clears
  BY <1>0, <1>6, ClearsCode, NewestGrown, Numbers DEF Still, Newest
<1>7. CASE Cleared
  <2>1. Empty \in Contents /\ Empty.pairing.id = 0
    BY EmptyTypes DEF Empty, NoCode
  <2>. QED  BY <1>0, <1>7, <2>1, ClearedCode, NewestGrown DEF Still, Newest
<1>8. CASE VaultWritten /\ vault.queue[1].by = "code"
  BY <1>0, <1>8, VaultCode, NewestGrown DEF Still, Newest
<1>9. ASSUME NEW b \in Code, Issues(b)  PROVE Newest'
  <2>1. code'.id = b /\ b # 0 /\ b \in Nat
    <3>1. code'.id = b
      BY <1>0, <1>9, IssuedCode
    <3>. QED  BY <3>1 DEF Code
  <2>2. Unseen(b)
    BY <1>0, <1>9, IssuedCode DEF CodeOrder, Fresh
  <2>3. \A c \in Code : attempts'[c] # "none" => c <= b
    <3>1. \A c \in Code : c > b => attempts[c] = "none"
      <4>1. \A c \in b..MaxCode : attempts[c] = "none"
        BY <1>0, <1>9, IssuedCode DEF CodeOrder, Fresh
      <4>. QED  BY <2>1, <4>1, AccessAssumption DEF Code
    <3>2. \A c \in Code : c # b => attempts'[c] = attempts[c]
      BY <1>0, <1>9, IssuedCode
    <3>. QED  BY <2>1, <3>1, <3>2 DEF Code
  <2>4. store'.memory = store.memory /\ \A i \in 1..Len(saves') : i \in 1..Len(saves) /\ saves'[i] = saves[i]
    BY <1>0, <1>9, IssuedCode DEF Grown
  <2>5. store.memory.pairing.id < b /\ \A i \in 1..Len(saves') : saves'[i].before.pairing.id < b
    BY <2>2, <2>4 DEF Unseen
  <2>6. store.memory.pairing.id <= b /\ \A i \in 1..Len(saves') : saves'[i].before.pairing.id <= b
    <3>1. store.memory.pairing.id \in Nat /\ \A i \in 1..Len(saves') : saves'[i].before.pairing.id \in Nat
      BY <2>4, Numbers
    <3>. QED  BY <2>1, <2>5, <3>1
  <2>. QED  BY <2>1, <2>3, <2>4, <2>6 DEF Newest
<1>10. ASSUME NEW b \in Code, Registered(b)  PROVE Newest'
  <2>1. \A c \in Code : attempts'[c] \in {"saving", "registering", "registered"} => attempts[c] \in {"saving", "registering", "registered"}
    BY <1>0, <1>10, RegisteredCode
  <2>. QED  BY <1>0, <1>10, <2>1, RegisteredCode, NewestGrown DEF Newest
<1>11. ASSUME NEW b \in Code, RegistrationFails(b)  PROVE Newest'
  <2>1. \A c \in Code : attempts'[c] \in {"saving", "registering", "registered"} => attempts[c] \in {"saving", "registering", "registered"}
    BY <1>0, <1>11, UnregisteredCode
  <2>2. code'.id = code.id /\ ~code'.live
    BY <1>0, <1>11, UnregisteredCode, RevokedTypes DEF Types
  <2>. QED  BY <1>0, <1>11, <2>1, <2>2, UnregisteredCode, NewestGrown
<1>12. ASSUME NEW next \in Codes, next.id = code.id, Closes(next)  PROVE Newest'
  BY <1>0, <1>12, ClosedCode, NewestGrown DEF Newest
<1>13. CASE Aside
  BY <1>0, <1>13, NewestGrown DEF Aside, Still, Newest
<1>. QED  BY <1>2, <1>3, <1>4, <1>5, <1>6, <1>7, <1>8, <1>9, <1>10, <1>11, <1>12, <1>13, CodeKinds

(* The head leaves the queue of saves, or a save joins it. *)
LEMMA OnceShifted ==
  ASSUME Types, NEW what, NEW stage, NEW c, SavedOnce(what, stage, c), Len(saves) > 0, Len(saves') \in Nat,
         \A i \in 1..Len(saves') : Awaits(i, what, c)' => i + 1 \in 1..Len(saves) /\ Awaits(i + 1, what, c),
         attempts'[c] # attempts[c] => Awaits(1, what, c) \/ \A i \in 1..Len(saves) : ~Awaits(i, what, c)
  PROVE  SavedOnce(what, stage, c)'
<1>. SUFFICES ASSUME NEW i \in 1..Len(saves'), NEW j \in 1..Len(saves'), Awaits(i, what, c)'
              PROVE  attempts'[c] = stage /\ (Awaits(j, what, c)' => i = j)
  BY DEF SavedOnce
<1>1. i \in Nat /\ j \in Nat /\ i > 0 /\ 1 \in 1..Len(saves) /\ i + 1 \in 1..Len(saves) /\ Awaits(i + 1, what, c)
  BY Numbers
<1>2. ~Awaits(1, what, c)
  BY <1>1 DEF SavedOnce
<1>3. attempts'[c] = stage
  BY <1>1, <1>2 DEF SavedOnce
<1>4. ASSUME Awaits(j, what, c)'  PROVE i = j
  <2>1. j + 1 \in 1..Len(saves) /\ Awaits(j + 1, what, c)
    BY <1>4
  <2>2. i + 1 = j + 1
    BY <1>1, <2>1 DEF SavedOnce
  <2>. QED  BY <1>1, <2>2
<1>. QED  BY <1>3, <1>4

LEMMA OnceGrown ==
  ASSUME Types, NEW what, NEW stage, NEW c, SavedOnce(what, stage, c), NEW m, Grown(m),
         \/ Len(saves') = Len(saves) \/ ~(saves'[Len(saves) + 1].what = what /\ saves'[Len(saves) + 1].id = c)
         \/ attempts'[c] = stage /\ \A i \in 1..Len(saves) : ~Awaits(i, what, c),
         (\E i \in 1..Len(saves) : Awaits(i, what, c)) => attempts'[c] = attempts[c]
  PROVE  SavedOnce(what, stage, c)'
<1>1. /\ \A i \in 1..Len(saves) : Awaits(i, what, c)' <=> Awaits(i, what, c)
      /\ \A i \in 1..Len(saves') : i \in 1..Len(saves) \/ (i = Len(saves) + 1 /\ Len(saves') = Len(saves) + 1)
  BY Numbers DEF Grown, Awaits
<1>2. CASE Len(saves') = Len(saves) \/ ~(saves'[Len(saves) + 1].what = what /\ saves'[Len(saves) + 1].id = c)
  <2>1. \A i \in 1..Len(saves') : Awaits(i, what, c)' => i \in 1..Len(saves) /\ Awaits(i, what, c)
    BY <1>1, <1>2, Numbers DEF Awaits
  <2>. QED  BY <2>1 DEF SavedOnce
<1>3. CASE attempts'[c] = stage /\ \A i \in 1..Len(saves) : ~Awaits(i, what, c)
  BY <1>1, <1>3 DEF SavedOnce
<1>. QED  BY <1>2, <1>3

(* The first k writes leave the vault's queue, and secrets of the user join it. *)
Shifted(k) ==
  /\ \A i \in (k + 1)..Len(vault.queue) : i - k \in 1..Len(vault'.queue) /\ vault'.queue[i - k] = vault.queue[i]
  /\ \A i \in 1..Len(vault'.queue) : i + k \in 1..Len(vault.queue) \/ vault'.queue[i].by = "user"

LEMMA QueuedShifted ==
  ASSUME Types, NEW c \in Code, QueuedOnce(c), NEW k \in 0..1, Shifted(k), Len(vault'.queue) \in Nat, code'.id = code.id,
         (\E i \in 1..Len(vault.queue) : i > k /\ InVault(i, c)) =>
           attempts'[c] = attempts[c] /\ \A j \in 1..Len(saves') : ~Awaits(j, "code", c)'
  PROVE  QueuedOnce(c)'
<1>. SUFFICES ASSUME NEW i \in 1..Len(vault'.queue), InVault(i, c)'
              PROVE  /\ attempts'[c] = "saving" /\ vault'.queue[i].content[c] # 0
                     /\ \A j \in 1..Len(saves') : ~Awaits(j, "code", c)'
                     /\ \A j \in 1..Len(vault'.queue) : InVault(j, c)' => i = j
                     /\ \E j \in i..Len(vault'.queue) : InVault(j, code.id)'
  BY DEF QueuedOnce
<1>1. \A j \in 1..Len(vault'.queue) : InVault(j, c)' =>
         j + k \in 1..Len(vault.queue) /\ j + k > k /\ vault'.queue[j] = vault.queue[j + k] /\ InVault(j + k, c)
  <2>. TAKE j \in 1..Len(vault'.queue)
  <2>. HAVE InVault(j, c)'
  <2>1. j + k \in 1..Len(vault.queue)
    BY DEF Shifted, InVault
  <2>2. j + k \in (k + 1)..Len(vault.queue) /\ j + k - k = j /\ j + k > k
    BY <2>1, Numbers
  <2>3. vault'.queue[j] = vault.queue[j + k]
    BY <2>2 DEF Shifted
  <2>. QED  BY <2>1, <2>2, <2>3 DEF InVault
<1>2. i + k \in 1..Len(vault.queue) /\ i + k > k /\ vault'.queue[i] = vault.queue[i + k] /\ InVault(i + k, c)
  BY <1>1
<1>3. attempts'[c] = "saving" /\ vault'.queue[i].content[c] # 0 /\ \A j \in 1..Len(saves') : ~Awaits(j, "code", c)'
  BY <1>2 DEF QueuedOnce
<1>4. \A j \in 1..Len(vault'.queue) : InVault(j, c)' => i = j
  <2>. TAKE j \in 1..Len(vault'.queue)
  <2>. HAVE InVault(j, c)'
  <2>1. i + k = j + k
    BY <1>1, <1>2 DEF QueuedOnce
  <2>. QED  BY <2>1
<1>5. \E j \in i..Len(vault'.queue) : InVault(j, code.id)'
  <2>1. PICK j \in (i + k)..Len(vault.queue) : InVault(j, code.id)
    BY <1>2 DEF QueuedOnce
  <2>2. j \in (k + 1)..Len(vault.queue) /\ i <= j - k
    BY <2>1, Numbers
  <2>3. j - k \in 1..Len(vault'.queue) /\ vault'.queue[j - k] = vault.queue[j]
    BY <2>2 DEF Shifted
  <2>4. j - k \in i..Len(vault'.queue)
    BY <2>2, <2>3
  <2>5. vault'.queue[j - k].by = "code" /\ vault'.queue[j - k].name = code'.id
    BY <2>1, <2>3 DEF InVault
  <2>. QED  BY <2>4, <2>5 DEF InVault
<1>. QED  BY <1>3, <1>4, <1>5

LEMMA QueueShifts ==
  ASSUME Types, vault.stuck => Len(vault.queue) = 0
  PROVE  /\ vault'.queue = vault.queue => Shifted(0)
         /\ VaultWritten => Shifted(1) /\ Len(vault.queue) > 0 /\ Len(vault'.queue) \in Nat /\ vault'.stuck = vault.stuck
         /\ \A n \in Secret : Set(n, vault.memory[n] + 1, "user") =>
              /\ Shifted(0) /\ Len(vault'.queue) \in Nat
              /\ vault'.stuck => Len(vault'.queue) = 0
<1>0. Len(vault.queue) \in Nat /\ vault \in Vaults /\ trail \in Trails
  BY Numbers DEF Types
<1>1. ASSUME vault'.queue = vault.queue  PROVE Shifted(0)
  <2>1. \A i \in (0 + 1)..Len(vault.queue) : i - 0 = i /\ i \in 1..Len(vault.queue)
    BY <1>0
  <2>2. \A i \in 1..Len(vault.queue) : i + 0 = i
    BY <1>0
  <2>. QED  BY <1>1, <2>1, <2>2 DEF Shifted
<1>2. ASSUME VaultWritten
      PROVE  Shifted(1) /\ Len(vault.queue) > 0 /\ Len(vault'.queue) \in Nat /\ vault'.stuck = vault.stuck
  <2>1. /\ vault.queue # <<>> /\ vault'.stuck = vault.stuck
        /\ Len(vault'.queue) = Len(vault.queue) - 1
        /\ \A i \in 1..Len(vault'.queue) : vault'.queue[i] = vault.queue[i + 1]
    BY <1>0, <1>2, WrittenEffect
  <2>2. Len(vault.queue) > 0
    BY <1>0, <2>1, EmptySeq DEF Vaults
  <2>3. \A i \in (1 + 1)..Len(vault.queue) : i - 1 \in 1..Len(vault'.queue) /\ i - 1 + 1 = i
    BY <1>0, <2>1
  <2>4. \A i \in 1..Len(vault'.queue) : i + 1 \in 1..Len(vault.queue)
    BY <1>0, <2>1
  <2>. QED  BY <1>0, <2>1, <2>2, <2>3, <2>4 DEF Shifted
<1>3. ASSUME NEW n \in Secret, Set(n, vault.memory[n] + 1, "user")
      PROVE  /\ Shifted(0) /\ Len(vault'.queue) \in Nat
             /\ vault'.stuck => Len(vault'.queue) = 0
  <2>1. vault.memory[n] + 1 \in Nat
    BY <1>0 DEF Vaults, Records
  <2>2. /\ vault'.stuck = vault.stuck
        /\ vault.stuck => vault'.queue = vault.queue
        /\ ~vault.stuck => /\ Len(vault'.queue) = Len(vault.queue) + 1
                           /\ \A i \in 1..Len(vault.queue) : vault'.queue[i] = vault.queue[i]
                           /\ vault'.queue[Len(vault.queue) + 1].by = "user"
    BY <1>0, <1>3, <2>1, SetEffect
  <2>3. CASE vault.stuck
    BY <1>0, <1>1, <2>2, <2>3
  <2>4. CASE ~vault.stuck
    <3>1. \A i \in (0 + 1)..Len(vault.queue) : i - 0 = i /\ i \in 1..Len(vault.queue) /\ i \in 1..(Len(vault.queue) + 1)
      BY <1>0
    <3>2. \A i \in 1..(Len(vault.queue) + 1) : (i + 0 = i /\ i \in 1..Len(vault.queue)) \/ i = Len(vault.queue) + 1
      BY <1>0
    <3>. QED  BY <1>0, <2>2, <2>4, <3>1, <3>2 DEF Shifted
  <2>. QED  BY <2>3, <2>4
<1>. QED  BY <1>1, <1>2, <1>3

LEMMA FlowQuiet ==
  ASSUME Types, Flow, NEW m, Grown(m), Quietly, NEW k \in 0..1, Shifted(k), Len(vault'.queue) \in Nat, code'.id = code.id,
         vault'.stuck => Len(vault'.queue) = 0,
         \A c \in Code : attempts[c] \in {"saving", "registered"} => attempts'[c] = attempts[c]
  PROVE  Flow'
<1>. SUFFICES ASSUME NEW c \in Code
              PROVE  QueuedOnce(c)' /\ SavedOnce("code", "saving", c)' /\ SavedOnce("registration", "registered", c)'
  BY DEF Flow
<1>0. QueuedOnce(c) /\ SavedOnce("code", "saving", c) /\ SavedOnce("registration", "registered", c)
  BY DEF Flow
<1>1. Len(saves') = Len(saves) \/ saves'[Len(saves) + 1].what \notin {"code", "registration"}
  BY DEF Quietly
<1>2. SavedOnce("code", "saving", c)' /\ SavedOnce("registration", "registered", c)'
  <2>1. /\ (\E i \in 1..Len(saves) : Awaits(i, "code", c)) => attempts'[c] = attempts[c]
        /\ (\E i \in 1..Len(saves) : Awaits(i, "registration", c)) => attempts'[c] = attempts[c]
    BY <1>0 DEF SavedOnce
  <2>. QED  BY <1>0, <1>1, <2>1, OnceGrown
<1>3. ASSUME NEW i \in 1..Len(vault.queue), InVault(i, c)
      PROVE  attempts'[c] = attempts[c] /\ \A j \in 1..Len(saves') : ~Awaits(j, "code", c)'
  <2>1. attempts[c] = "saving" /\ \A j \in 1..Len(saves) : ~Awaits(j, "code", c)
    BY <1>0, <1>3 DEF QueuedOnce
  <2>2. \A j \in 1..Len(saves') : j \in 1..Len(saves) \/ (j = Len(saves) + 1 /\ Len(saves') = Len(saves) + 1)
    BY Numbers DEF Grown
  <2>3. \A j \in 1..Len(saves') : ~Awaits(j, "code", c)'
    BY <1>1, <2>1, <2>2, Numbers DEF Grown, Awaits
  <2>. QED  BY <2>1, <2>3
<1>. QED  BY <1>0, <1>2, <1>3, QueuedShifted

(* The head of the queue of saves ended; the attempt it was for moves on. *)
LEMMA FlowTurned ==
  ASSUME Types, Flow, Len(saves) > 0, Len(saves') \in Nat, vault' = vault, code'.id = code.id,
         \A i \in 1..Len(saves') : \/ i + 1 \in 1..Len(saves) /\ saves'[i] = saves[i + 1]
                                   \/ saves'[i].what \notin {"code", "registration"},
         \A c \in Code : attempts'[c] # attempts[c] => Awaits(1, "code", c) \/ Awaits(1, "registration", c)
  PROVE  Flow'
<1>. SUFFICES ASSUME NEW c \in Code
              PROVE  QueuedOnce(c)' /\ SavedOnce("code", "saving", c)' /\ SavedOnce("registration", "registered", c)'
  BY DEF Flow
<1>0. QueuedOnce(c) /\ SavedOnce("code", "saving", c) /\ SavedOnce("registration", "registered", c)
  BY DEF Flow
<1>1. /\ \A i \in 1..Len(saves') : Awaits(i, "code", c)' => i + 1 \in 1..Len(saves) /\ Awaits(i + 1, "code", c)
      /\ \A i \in 1..Len(saves') : Awaits(i, "registration", c)' => i + 1 \in 1..Len(saves) /\ Awaits(i + 1, "registration", c)
  BY DEF Awaits
<1>2. 1 \in 1..Len(saves)
  BY Numbers
<1>3. /\ Awaits(1, "code", c) => attempts[c] = "saving" /\ \A i \in 1..Len(saves) : ~Awaits(i, "registration", c)
      /\ Awaits(1, "registration", c) => attempts[c] = "registered" /\ \A i \in 1..Len(saves) : ~Awaits(i, "code", c)
  BY <1>0, <1>2 DEF SavedOnce
<1>4. SavedOnce("code", "saving", c)'
  BY <1>0, <1>1, <1>3, OnceShifted
<1>5. SavedOnce("registration", "registered", c)'
  BY <1>0, <1>1, <1>3, OnceShifted
<1>6. Shifted(0) /\ Len(vault'.queue) \in Nat /\ 0 \in 0..1
  BY QueueShifts, Numbers DEF Flow
<1>7. ASSUME NEW i \in 1..Len(vault.queue), InVault(i, c)
      PROVE  attempts'[c] = attempts[c] /\ \A j \in 1..Len(saves') : ~Awaits(j, "code", c)'
  <2>1. attempts[c] = "saving" /\ \A j \in 1..Len(saves) : ~Awaits(j, "code", c)
    BY <1>0, <1>7 DEF QueuedOnce
  <2>. QED  BY <1>1, <1>2, <1>3, <2>1
<1>8. QueuedOnce(c)'
  BY <1>0, <1>6, <1>7, QueuedShifted
<1>. QED  BY <1>4, <1>5, <1>8

LEMMA FlowStays ==
  ASSUME Types, CodeOrder, [Next]_vars
  PROVE  Flow'
<1>0. /\ Asked /\ Flow /\ (vault.stuck => Len(vault.queue) = 0) /\ Len(vault.queue) \in Nat /\ Len(saves) \in Nat
      /\ 0 \in 0..1 /\ 1 \in 0..1
      /\ \A c \in Code : QueuedOnce(c) /\ SavedOnce("code", "saving", c) /\ SavedOnce("registration", "registered", c)
  BY Numbers DEF CodeOrder, Asked, Flow
<1>1. CASE Saved
  <2>1. /\ Len(saves) > 0 /\ Len(saves') = Len(saves) - 1 /\ \A i \in 1..Len(saves') : saves'[i] = saves[i + 1]
        /\ code' = code /\ vault' = vault
    BY <1>0, <1>1, SavedCode
  <2>2. Len(saves') \in Nat /\ \A i \in 1..Len(saves') : i + 1 \in 1..Len(saves)
    BY <1>0, <2>1
  <2>3. \A c \in Code : attempts'[c] # attempts[c] => Awaits(1, "code", c) \/ Awaits(1, "registration", c)
    BY <1>0, <1>1, SavedCode
  <2>. QED  BY <1>0, <2>1, <2>2, <2>3, FlowTurned
<1>2. CASE SaveFails
  <2>1. /\ Len(saves) > 0 /\ Len(saves') \in {Len(saves) - 1, Len(saves)}
        /\ \A i \in 1..(Len(saves) - 1) : saves'[i] = saves[i + 1]
        /\ Len(saves') = Len(saves) => saves'[Len(saves)].what = "quiet"
        /\ vault' = vault
    BY <1>0, <1>2, FailedCode
  <2>2. Len(saves') \in Nat /\ \A i \in 1..Len(saves') :
            (i + 1 \in 1..Len(saves) /\ i \in 1..(Len(saves) - 1)) \/ (i = Len(saves) /\ Len(saves') = Len(saves))
    BY <1>0, <2>1
  <2>3. \A c \in Code : attempts'[c] # attempts[c] => Awaits(1, "code", c) \/ Awaits(1, "registration", c)
    BY <1>0, <1>2, FailedCode
  <2>4. code'.id = code.id
    BY <1>0, <1>2, FailedCode, RevokedTypes DEF Types
  <2>5. \A i \in 1..Len(saves') : \/ i + 1 \in 1..Len(saves) /\ saves'[i] = saves[i + 1]
                                  \/ saves'[i].what \notin {"code", "registration"}
    BY <2>1, <2>2
  <2>. QED  BY <1>0, <2>1, <2>2, <2>3, <2>4, <2>5, FlowTurned
<1>3. CASE Restarts
  <2>1. Len(saves') = 0 /\ Len(vault'.queue) = 0
    BY <1>0, <1>3, RestartCode
  <2>. QED  BY <2>1 DEF Flow, QueuedOnce, SavedOnce
<1>4. CASE VaultFails
  <2>1. /\ Grown(store.memory) /\ Len(saves') = Len(saves) /\ Len(vault'.queue) = 0
        /\ \A c \in Code : attempts'[c] = IF \E i \in 1..Len(vault.queue) : InVault(i, c) THEN "failed" ELSE attempts[c]
    BY <1>0, <1>4, VaultFailsCode
  <2>2. ASSUME NEW c \in Code
        PROVE  SavedOnce("code", "saving", c)' /\ SavedOnce("registration", "registered", c)'
    <3>1. /\ (\E i \in 1..Len(saves) : Awaits(i, "code", c)) => attempts'[c] = attempts[c]
          /\ (\E i \in 1..Len(saves) : Awaits(i, "registration", c)) => attempts'[c] = attempts[c]
      BY <1>0, <2>1 DEF SavedOnce, QueuedOnce
    <3>. QED  BY <1>0, <2>1, <3>1, OnceGrown
  <2>3. \A c \in Code : QueuedOnce(c)'
    BY <2>1 DEF QueuedOnce
  <2>. QED  BY <2>1, <2>2, <2>3 DEF Flow
<1>5. CASE Clears
  <2>1. /\ Grown(store.memory) /\ Len(saves') = Len(saves) /\ code' = code /\ attempts' = attempts
        /\ vault'.queue = vault.queue /\ vault'.stuck = vault.stuck
    BY <1>5, ClearsCode DEF Still
  <2>. QED  BY <1>0, <2>1, QueueShifts, FlowQuiet DEF Quietly
<1>6. CASE Cleared
  <2>1. /\ Grown(Empty) /\ Quietly /\ code' = code /\ attempts' = attempts
        /\ vault'.queue = vault.queue /\ vault'.stuck = vault.stuck
    BY <1>6, ClearedCode DEF Still
  <2>. QED  BY <1>0, <2>1, QueueShifts, FlowQuiet
<1>7. CASE VaultWritten /\ vault.queue[1].by = "code"
  <2>1. PICK b \in Code : InVault(1, b) /\ Joins("code", b)
    BY <1>7, VaultCode
  <2>2. PICK m \in Contents : Grown(m)
    BY <1>7, VaultCode
  <2>3. code' = code /\ attempts' = attempts /\ 1 \in 1..Len(vault.queue)
    BY <1>0, <1>7, VaultCode DEF Still
  <2>4. Shifted(1) /\ Len(vault'.queue) \in Nat /\ vault'.stuck = vault.stuck /\ Len(vault.queue) > 0
    BY <1>0, <1>7, QueueShifts
  <2>5. attempts[b] = "saving" /\ \A j \in 1..Len(saves) : ~Awaits(j, "code", b)
    BY <1>0, <2>1, <2>3 DEF QueuedOnce
  <2>6. ASSUME NEW c \in Code  PROVE QueuedOnce(c)' /\ SavedOnce("code", "saving", c)' /\ SavedOnce("registration", "registered", c)'
    <3>1. SavedOnce("registration", "registered", c)'
      BY <1>0, <2>1, <2>2, <2>3, OnceGrown DEF Joins
    <3>2. SavedOnce("code", "saving", c)'
      BY <1>0, <2>1, <2>2, <2>3, <2>5, OnceGrown DEF Joins
    <3>3. ASSUME NEW i \in 1..Len(vault.queue), i > 1, InVault(i, c)
          PROVE  \A j \in 1..Len(saves') : ~Awaits(j, "code", c)'
      <4>1. b # c
        BY <1>0, <2>1, <2>3, <3>3 DEF QueuedOnce
      <4>2. \A j \in 1..Len(saves) : ~Awaits(j, "code", c)
        BY <1>0, <3>3 DEF QueuedOnce
      <4>3. \A j \in 1..Len(saves') : j \in 1..Len(saves) \/ j = Len(saves) + 1
        BY <1>0, <2>1 DEF Joins
      <4>. QED  BY <2>1, <2>2, <4>1, <4>2, <4>3 DEF Grown, Joins, Awaits
    <3>4. QueuedOnce(c)'
      BY <1>0, <2>3, <2>4, <3>3, QueuedShifted
    <3>. QED  BY <3>1, <3>2, <3>4
  <2>. QED  BY <1>0, <2>4, <2>6 DEF Flow
<1>8. ASSUME NEW b \in Code, Issues(b)  PROVE Flow'
  <2>1. /\ attempts[b] = "none" /\ code'.id = b /\ Grown(store.memory) /\ Len(saves') = Len(saves) /\ Set(b, 1, "code")
        /\ attempts'[b] = IF vault.stuck THEN "failed" ELSE "saving"
    BY <1>0, <1>8, IssuedCode
  <2>2. \A c \in Code : c # b => attempts'[c] = attempts[c]
    BY <1>0, <1>8, IssuedCode
  <2>3. /\ vault' \in Vaults /\ vault'.memory = [vault.memory EXCEPT ![b] = 1]
        /\ vault'.stuck = vault.stuck
        /\ vault.stuck => vault'.queue = vault.queue
        /\ ~vault.stuck => /\ Len(vault'.queue) = Len(vault.queue) + 1
                           /\ \A i \in 1..Len(vault.queue) : vault'.queue[i] = vault.queue[i]
                           /\ vault'.queue[Len(vault.queue) + 1].content = vault'.memory
                           /\ vault'.queue[Len(vault.queue) + 1].name = b
                           /\ vault'.queue[Len(vault.queue) + 1].by = "code"
    BY <2>1, SetEffect DEF Types
  <2>4. vault'.memory[b] = 1
    BY <2>3 DEF Types, Vaults, Records
  <2>5. ASSUME NEW c \in Code  PROVE SavedOnce("code", "saving", c)' /\ SavedOnce("registration", "registered", c)'
    <3>1. /\ (\E i \in 1..Len(saves) : Awaits(i, "code", c)) => attempts'[c] = attempts[c]
          /\ (\E i \in 1..Len(saves) : Awaits(i, "registration", c)) => attempts'[c] = attempts[c]
      BY <1>0, <2>1, <2>2 DEF SavedOnce
    <3>. QED  BY <1>0, <2>1, <3>1, OnceGrown
  <2>6. CASE vault.stuck
    <3>1. Len(vault'.queue) = 0
      BY <1>0, <2>3, <2>6
    <3>. QED  BY <2>5, <3>1 DEF Flow, QueuedOnce
  <2>7. CASE ~vault.stuck
    <3>0. PICK last \in Nat : last = Len(vault.queue) + 1
      BY <1>0
    <3>1. /\ last \in 1..Len(vault'.queue) /\ InVault(last, b)' /\ vault'.queue[last].content[b] # 0
          /\ Len(vault'.queue) = last
          /\ \A i \in 1..last : i = last \/ (i \in 1..Len(vault.queue) /\ vault'.queue[i] = vault.queue[i])
      <4>1. /\ Len(vault'.queue) = last /\ last \in 1..last
            /\ vault'.queue[last].content = vault'.memory /\ vault'.queue[last].name = b /\ vault'.queue[last].by = "code"
        BY <1>0, <2>3, <2>7, <3>0
      <4>2. \A i \in 1..last : i = last \/ i \in 1..Len(vault.queue)
        BY <1>0, <3>0
      <4>. QED  BY <2>3, <2>4, <2>7, <4>1, <4>2 DEF InVault
    <3>2. \A i \in 1..Len(vault.queue) : ~InVault(i, b)
      BY <1>0, <2>1 DEF QueuedOnce
    <3>3. ASSUME NEW c \in Code, NEW i \in 1..Len(vault'.queue), InVault(i, c)'
          PROVE  /\ attempts'[c] = "saving" /\ vault'.queue[i].content[c] # 0
                 /\ \A j \in 1..Len(saves') : ~Awaits(j, "code", c)'
                 /\ \A j \in 1..Len(vault'.queue) : InVault(j, c)' => i = j
                 /\ \E j \in i..Len(vault'.queue) : InVault(j, b)'
      <4>1. \A j \in 1..Len(saves') : j \in 1..Len(saves) /\ saves'[j] = saves[j]
        BY <2>1 DEF Grown
      <4>2. CASE c = b
        <5>1. i = last /\ \A j \in 1..Len(vault'.queue) : InVault(j, c)' => j = last
          BY <3>1, <3>2, <3>3, <4>2 DEF InVault
        <5>2. \A j \in 1..Len(saves') : ~Awaits(j, "code", c)'
          BY <1>0, <2>1, <4>1, <4>2 DEF SavedOnce, Awaits
        <5>3. last \in i..Len(vault'.queue)
          BY <3>1, <5>1
        <5>. QED  BY <2>1, <2>7, <3>1, <4>2, <5>1, <5>2, <5>3
      <4>3. CASE c # b
        <5>1. vault'.queue[last].name = b
          BY <3>1 DEF InVault
        <5>2. \A j \in 1..Len(vault'.queue) : InVault(j, c)' => j \in 1..Len(vault.queue) /\ InVault(j, c)
          BY <3>1, <4>3, <5>1 DEF InVault
        <5>3. vault'.queue[i] = vault.queue[i] /\ i \in 1..Len(vault.queue) /\ InVault(i, c)
          <6>1. i \in 1..Len(vault.queue) /\ InVault(i, c)
            BY <3>3, <5>2
          <6>. QED  BY <2>3, <2>7, <6>1
        <5>4. /\ attempts[c] = "saving" /\ vault.queue[i].content[c] # 0 /\ \A j \in 1..Len(saves) : ~Awaits(j, "code", c)
              /\ \A j \in 1..Len(vault.queue) : InVault(j, c) => i = j
          BY <1>0, <5>3 DEF QueuedOnce
        <5>5. last \in i..Len(vault'.queue)
          BY <3>1
        <5>6. \A j \in 1..Len(saves') : ~Awaits(j, "code", c)'
          BY <4>1, <5>4 DEF Awaits
        <5>. QED  BY <2>2, <3>1, <4>3, <5>2, <5>3, <5>4, <5>5, <5>6
      <4>. QED  BY <4>2, <4>3
    <3>4. \A c \in Code : QueuedOnce(c)'
      BY <2>1, <3>3 DEF QueuedOnce
    <3>. QED  BY <2>3, <2>5, <2>7, <3>4 DEF Flow
  <2>. QED  BY <2>6, <2>7
<1>9. ASSUME NEW b \in Code, Registered(b)  PROVE Flow'
  <2>1. /\ attempts[b] = "registering" /\ attempts'[b] = "registered" /\ Joins("registration", b) /\ vault' = vault /\ code' = code
    BY <1>0, <1>9, RegisteredCode
  <2>2. PICK m \in Contents : Grown(m)
    BY <1>0, <1>9, RegisteredCode
  <2>3. \A c \in Code : c # b => attempts'[c] = attempts[c]
    BY <1>0, <1>9, RegisteredCode
  <2>4. ASSUME NEW c \in Code  PROVE QueuedOnce(c)' /\ SavedOnce("code", "saving", c)' /\ SavedOnce("registration", "registered", c)'
    <3>1. /\ (\E i \in 1..Len(saves) : Awaits(i, "code", c)) => attempts'[c] = attempts[c]
          /\ (\E i \in 1..Len(saves) : Awaits(i, "registration", c)) => attempts'[c] = attempts[c]
      BY <1>0, <2>1, <2>3 DEF SavedOnce
    <3>2. SavedOnce("code", "saving", c)'
      BY <1>0, <2>1, <2>2, <3>1, OnceGrown DEF Joins
    <3>3. \A i \in 1..Len(saves) : ~Awaits(i, "registration", b)
      BY <1>0, <2>1 DEF SavedOnce
    <3>4. SavedOnce("registration", "registered", c)'
      BY <1>0, <2>1, <2>2, <3>1, <3>3, OnceGrown DEF Joins
    <3>5. ASSUME NEW i \in 1..Len(vault.queue), InVault(i, c)
          PROVE  attempts'[c] = attempts[c] /\ \A j \in 1..Len(saves') : ~Awaits(j, "code", c)'
      <4>1. attempts[c] = "saving" /\ \A j \in 1..Len(saves) : ~Awaits(j, "code", c)
        BY <1>0, <3>5 DEF QueuedOnce
      <4>2. \A j \in 1..Len(saves') : j \in 1..Len(saves) \/ j = Len(saves) + 1
        BY <1>0, <2>1 DEF Joins
      <4>3. \A j \in 1..Len(saves') : ~Awaits(j, "code", c)'
        BY <2>1, <2>2, <4>1, <4>2 DEF Grown, Joins, Awaits
      <4>. QED  BY <2>1, <2>3, <4>1, <4>3
    <3>6. Shifted(0) /\ Len(vault'.queue) \in Nat
      BY <1>0, <2>1, QueueShifts
    <3>7. QueuedOnce(c)'
      BY <1>0, <2>1, <3>5, <3>6, QueuedShifted
    <3>. QED  BY <3>2, <3>4, <3>7
  <2>. QED  BY <1>0, <2>1, <2>4 DEF Flow
<1>10. ASSUME NEW b \in Code, RegistrationFails(b)  PROVE Flow'
  <2>1. attempts[b] = "registering" /\ code' = Revoked /\ Quietly /\ vault' = vault
    BY <1>0, <1>10, UnregisteredCode
  <2>2. PICK m \in Contents : Grown(m)
    BY <1>0, <1>10, UnregisteredCode
  <2>3. \A c \in Code : attempts[c] \in {"saving", "registered"} => attempts'[c] = attempts[c]
    BY <1>0, <1>10, <2>1, UnregisteredCode
  <2>4. code'.id = code.id
    BY <2>1, RevokedTypes DEF Types
  <2>. QED  BY <1>0, <2>1, <2>2, <2>3, <2>4, QueueShifts, FlowQuiet
<1>11. ASSUME NEW next \in Codes, next.id = code.id, Closes(next)  PROVE Flow'
  <2>1. code'.id = code.id /\ attempts' = attempts /\ Quietly /\ vault' = vault
    BY <1>11, ClosedCode
  <2>2. PICK m \in Contents : Grown(m)
    BY <1>11, ClosedCode
  <2>. QED  BY <1>0, <2>1, <2>2, QueueShifts, FlowQuiet
<1>12. CASE Aside
  <2>1. code' = code /\ attempts' = attempts /\ Quietly
    BY <1>12 DEF Aside, Still
  <2>2. PICK m \in Contents : Grown(m)
    BY <1>12 DEF Aside
  <2>3. PICK k \in 0..1 : Shifted(k) /\ Len(vault'.queue) \in Nat /\ (vault'.stuck => Len(vault'.queue) = 0)
    <3>1. CASE vault' = vault
      BY <1>0, <3>1, QueueShifts
    <3>2. CASE VaultWritten
      BY <1>0, <3>2, QueueShifts
    <3>3. CASE \E n \in Secret : Set(n, vault.memory[n] + 1, "user")
      BY <1>0, <3>3, QueueShifts
    <3>. QED  BY <1>12, <3>1, <3>2, <3>3 DEF Aside
  <2>. QED  BY <1>0, <2>1, <2>2, <2>3, FlowQuiet
<1>. QED  BY <1>1, <1>2, <1>3, <1>4, <1>5, <1>6, <1>7, <1>8, <1>9, <1>10, <1>11, <1>12, CodeKinds

LEMMA AskedStays == ASSUME Types, CodeOrder, [Next]_vars PROVE Asked'
<1>0. Asked
  BY DEF CodeOrder, Asked
<1>1. ASSUME attempts' = attempts  PROVE Asked'
  BY <1>0, <1>1 DEF Asked
<1>2. CASE Clears \/ Cleared \/ Aside \/ (VaultWritten /\ vault.queue[1].by = "code")
  BY <1>1, <1>2, ClearsCode, ClearedCode, VaultCode DEF Aside, Still
<1>. QED
  BY <1>0, <1>1, <1>2, CodeKinds, SavedCode, FailedCode, RestartCode, VaultFailsCode, IssuedCode, RegisteredCode, UnregisteredCode, ClosedCode

LEMMA CodeOrderStays == ASSUME Types, CodeOrder, [Next]_vars PROVE CodeOrder'
<1>1. Asked'
  BY AskedStays
<1>. QED  BY <1>1, FreshStays, NewestStays, FlowStays DEF CodeOrder, Asked

LEMMA UndoneGrows ==
  ASSUME Types, CodeOrder, [Next]_vars
  PROVE  trail.undone \subseteq trail'.undone
<1>1. CASE Saved
  BY <1>1, SavedCode DEF CodeOrder, Asked
<1>2. CASE SaveFails
  BY <1>2, FailedCode DEF CodeOrder, Asked
<1>3. CASE Restarts
  BY <1>3, RestartCode DEF CodeOrder, Asked
<1>. QED  BY <1>1, <1>2, <1>3, StoreKinds DEF Excuses

(***************************************************************************)
(* The secrets of the codes that are shown are in the vault's file.         *)
(***************************************************************************)
LEMMA LayersStay ==
  ASSUME Types, CodeOrder, [Next]_vars, NEW c \in Code, Layered(c), c \notin trail'.undone
  PROVE  Layered(c)' /\ (vault.disk[c] # 0 => vault'.disk[c] # 0)
<1>0. /\ vault \in Vaults /\ trail \in Trails /\ Len(vault.queue) \in Nat /\ ~vault.clearing
      /\ \A i, j \in 0..Len(vault.queue) : i <= j /\ Layer(vault, i)[c] # 0 => Layer(vault, j)[c] # 0
      /\ \A i \in 0..Len(vault.queue) : Layer(vault, i)[c] # 0 => vault.memory[c] # 0
  BY Numbers DEF Types, Layered
<1>1. CASE VaultWritten
  <2>1. /\ vault.queue # <<>> /\ vault'.memory = vault.memory /\ vault'.disk = vault.queue[1].content
        /\ vault'.clearing = vault.clearing /\ Len(vault'.queue) = Len(vault.queue) - 1
        /\ \A i \in 1..Len(vault'.queue) : vault'.queue[i] = vault.queue[i + 1]
    BY <1>0, <1>1, WrittenEffect
  <2>2. Len(vault.queue) > 0
    BY <1>0, <2>1, EmptySeq DEF Vaults
  <2>3. \A i \in 0..Len(vault'.queue) : i + 1 \in 0..Len(vault.queue) /\ Layer(vault', i) = Layer(vault, i + 1)
    <3>. TAKE i \in 0..Len(vault'.queue)
    <3>1. i + 1 \in 0..Len(vault.queue) /\ i + 1 # 0 /\ (i # 0 => i \in 1..Len(vault'.queue))
      BY <1>0, <2>1, <2>2
    <3>2. Layer(vault, i + 1) = vault.queue[i + 1].content
      BY <3>1 DEF Layer
    <3>3. CASE i = 0
      BY <2>1, <3>1, <3>2, <3>3 DEF Layer
    <3>4. CASE i # 0
      BY <2>1, <3>1, <3>2, <3>4 DEF Layer
    <3>. QED  BY <3>1, <3>3, <3>4
  <2>4. vault.disk[c] # 0 => vault'.disk[c] # 0
    <3>1. 0 \in 0..Len(vault.queue) /\ 1 \in 0..Len(vault.queue) /\ 0 <= 1
      BY <1>0, <2>2
    <3>2. Layer(vault, 0) = vault.disk /\ Layer(vault, 1) = vault'.disk
      BY <2>1 DEF Layer
    <3>. QED  BY <1>0, <3>1, <3>2
  <2>5. \A i, j \in 0..Len(vault'.queue) : i <= j => i + 1 <= j + 1
    BY <1>0, <2>1
  <2>6. \A i, j \in 0..Len(vault'.queue) : i <= j /\ Layer(vault', i)[c] # 0 => Layer(vault', j)[c] # 0
    BY <1>0, <2>3, <2>5
  <2>7. \A i \in 0..Len(vault'.queue) : Layer(vault', i)[c] # 0 => vault'.memory[c] # 0
    BY <1>0, <2>1, <2>3
  <2>. QED  BY <1>0, <2>1, <2>4, <2>6, <2>7 DEF Layered
<1>2. CASE VaultFails \/ Restarts
  <2>1. vault'.disk = vault.disk /\ ~vault'.clearing /\ vault'.queue = <<>> /\ vault'.memory \in {vault.memory, vault.disk}
    <3>1. CASE VaultFails
      BY <1>0, <3>1 DEF VaultFails, Vaults
    <3>2. CASE Restarts
      BY <3>2 DEF Restarts
    <3>. QED  BY <1>2, <3>1, <3>2
  <2>2. Len(vault'.queue) = 0
    BY <2>1, EmptySeq
  <2>3. 0 \in 0..Len(vault.queue) /\ Layer(vault, 0) = vault.disk
    BY <1>0 DEF Layer
  <2>4. \A i \in 0..Len(vault'.queue) : i = 0 /\ Layer(vault', i) = vault.disk
    BY <2>1, <2>2 DEF Layer
  <2>5. \A i, j \in 0..Len(vault'.queue) : i <= j /\ Layer(vault', i)[c] # 0 => Layer(vault', j)[c] # 0
    BY <2>4
  <2>6. \A i \in 0..Len(vault'.queue) : Layer(vault', i)[c] # 0 => vault'.memory[c] # 0
    BY <1>0, <2>1, <2>3, <2>4
  <2>. QED  BY <2>1, <2>5, <2>6 DEF Layered
<1>3. CASE Clears
  BY <1>3, ClearsCode
<1>4. CASE Cleared
  BY <1>0, <1>4 DEF Cleared
<1>5. CASE Sets
  <2>1. PICK n \in Secret \cup Code, v \in Nat \ {0}, by \in {"user", "code"} :
          (IF by = "code" THEN n \in Code ELSE n \in Secret) /\ Set(n, v, by)
    BY <1>5 DEF Sets
  <2>2. /\ vault'.memory = [vault.memory EXCEPT ![n] = v]
        /\ vault'.disk = vault.disk /\ vault'.clearing = vault.clearing
        /\ vault.stuck => vault'.queue = vault.queue
        /\ ~vault.stuck => /\ Len(vault'.queue) = Len(vault.queue) + 1
                           /\ \A i \in 1..Len(vault.queue) : vault'.queue[i] = vault.queue[i]
                           /\ vault'.queue[Len(vault.queue) + 1].content = vault'.memory
    BY <1>0, <2>1, SetEffect
  <2>3. vault.memory[c] # 0 => vault'.memory[c] # 0
    BY <1>0, <2>1, <2>2 DEF Vaults, Records
  <2>4. \A i \in 0..Len(vault.queue) : Layer(vault', i) = Layer(vault, i)
    <3>. TAKE i \in 0..Len(vault.queue)
    <3>1. i # 0 => i \in 1..Len(vault.queue)
      BY <1>0
    <3>. QED  BY <2>2, <3>1 DEF Layer
  <2>5. \A i \in 0..Len(vault'.queue) : i \in 0..Len(vault.queue)
                                        \/ (i = Len(vault.queue) + 1 /\ Layer(vault', i) = vault'.memory)
    <3>. TAKE i \in 0..Len(vault'.queue)
    <3>1. i \in 0..Len(vault.queue) \/ (i = Len(vault.queue) + 1 /\ i # 0 /\ ~vault.stuck)
      BY <1>0, <2>2
    <3>2. i = Len(vault.queue) + 1 /\ i # 0 /\ ~vault.stuck => Layer(vault', i) = vault'.memory
      BY <2>2 DEF Layer
    <3>. QED  BY <3>1, <3>2
  <2>6. \A i \in 0..Len(vault'.queue) : Layer(vault', i)[c] # 0 => vault'.memory[c] # 0
    BY <1>0, <2>3, <2>4, <2>5
  <2>7. ASSUME NEW i \in 0..Len(vault'.queue), NEW j \in 0..Len(vault'.queue), i <= j, Layer(vault', i)[c] # 0
        PROVE  Layer(vault', j)[c] # 0
    <3>1. CASE j \in 0..Len(vault.queue)
      <4>1. i \in 0..Len(vault.queue)
        BY <1>0, <2>7, <3>1
      <4>. QED  BY <1>0, <2>4, <2>7, <3>1, <4>1
    <3>2. CASE j \notin 0..Len(vault.queue)
      BY <2>5, <2>6, <2>7, <3>2
    <3>. QED  BY <3>1, <3>2
  <2>. QED  BY <1>0, <2>2, <2>6, <2>7 DEF Layered
<1>6. CASE vault' = vault
  BY <1>0, <1>6 DEF Layered
<1>. QED  BY <1>1, <1>2, <1>3, <1>4, <1>5, <1>6, VaultKinds

LEMMA WrittenGrows ==
  ASSUME Types, CodeOrder, [Next]_vars, NEW c \in Code, Written(c)'
  PROVE  Written(c) \/ (VaultWritten /\ InVault(1, c) /\ Len(vault.queue) > 0)
<1>0. /\ Asked /\ Len(saves) \in Nat /\ SavedOnce("code", "saving", c) /\ SavedOnce("registration", "registered", c)
  BY Numbers DEF CodeOrder, Asked, Flow
<1>. DEFINE Stages == {"registering", "registered", "shown"}
<1>1. ASSUME attempts'[c] \in Stages => attempts[c] \in Stages \/ \E i \in 1..Len(saves) : Awaits(i, "code", c),
             \A i \in 1..Len(saves') : Awaits(i, "code", c)' => \E j \in 1..Len(saves) : Awaits(j, "code", c)
      PROVE  Written(c)
  BY <1>1 DEF Written
<1>2. CASE Saved
  <2>1. /\ Len(saves) > 0 /\ Len(saves') = Len(saves) - 1 /\ \A i \in 1..Len(saves') : saves'[i] = saves[i + 1]
        /\ attempts'[c] = IF Awaits(1, "code", c) THEN "registering"
                          ELSE IF Awaits(1, "registration", c) THEN "shown" ELSE attempts[c]
    BY <1>0, <1>2, SavedCode
  <2>2. 1 \in 1..Len(saves) /\ \A i \in 1..Len(saves') : i + 1 \in 1..Len(saves)
    BY <1>0, <2>1
  <2>3. \A i \in 1..Len(saves') : Awaits(i, "code", c)' => Awaits(i + 1, "code", c)
    BY <2>1 DEF Awaits
  <2>. QED  BY <1>0, <1>1, <2>1, <2>2, <2>3 DEF SavedOnce
<1>3. CASE SaveFails
  <2>1. /\ Len(saves) > 0 /\ Len(saves') \in {Len(saves) - 1, Len(saves)}
        /\ \A i \in 1..(Len(saves) - 1) : saves'[i] = saves[i + 1]
        /\ Len(saves') = Len(saves) => saves'[Len(saves)].what = "quiet"
        /\ attempts'[c] = IF Awaits(1, "code", c) \/ Awaits(1, "registration", c) THEN "failed" ELSE attempts[c]
    BY <1>0, <1>3, FailedCode
  <2>2. \A i \in 1..Len(saves') :
            (i + 1 \in 1..Len(saves) /\ i \in 1..(Len(saves) - 1)) \/ (i = Len(saves) /\ Len(saves') = Len(saves))
    BY <1>0, <2>1
  <2>3. \A i \in 1..Len(saves') : Awaits(i, "code", c)' => i + 1 \in 1..Len(saves) /\ Awaits(i + 1, "code", c)
    BY <2>1, <2>2 DEF Awaits
  <2>. QED  BY <1>1, <2>1, <2>3
<1>4. CASE Restarts
  <2>1. Len(saves') = 0 /\ attempts'[c] = IF attempts[c] \in {"none", "shown"} THEN attempts[c] ELSE "failed"
    BY <1>0, <1>4, RestartCode
  <2>. QED  BY <1>1, <2>1
<1>5. ASSUME NEW m, Grown(m), Quietly \/ Len(saves') = Len(saves) \/ (Len(saves') = Len(saves) + 1 /\ saves'[Len(saves) + 1].what = "registration"),
             attempts'[c] \in Stages => attempts[c] \in Stages
      PROVE  Written(c)
  <2>1. \A i \in 1..Len(saves') : i \in 1..Len(saves) \/ i = Len(saves) + 1
    BY <1>0, <1>5 DEF Grown
  <2>2. Len(saves') = Len(saves) \/ saves'[Len(saves) + 1].what # "code"
    BY <1>5 DEF Quietly
  <2>3. \A i \in 1..Len(saves') : Awaits(i, "code", c)' => i \in 1..Len(saves) /\ Awaits(i, "code", c)
    BY <1>0, <1>5, <2>1, <2>2 DEF Grown, Awaits
  <2>. QED  BY <1>1, <1>5, <2>3
<1>6. CASE VaultFails
  BY <1>0, <1>5, <1>6, VaultFailsCode
<1>7. CASE Clears
  BY <1>5, <1>7, ClearsCode DEF Still
<1>8. CASE Cleared
  BY <1>5, <1>8, ClearedCode DEF Still
<1>9. CASE VaultWritten /\ vault.queue[1].by = "code"
  <2>1. PICK b \in Code : InVault(1, b) /\ Joins("code", b)
    BY <1>9, VaultCode
  <2>2. PICK m \in Contents : Grown(m)
    BY <1>9, VaultCode
  <2>3. attempts' = attempts /\ Len(vault.queue) > 0
    BY <1>9, VaultCode DEF Still
  <2>4. CASE b = c
    BY <1>9, <2>1, <2>3, <2>4
  <2>5. CASE b # c
    <3>1. \A i \in 1..Len(saves') : i \in 1..Len(saves) \/ i = Len(saves) + 1
      BY <1>0, <2>2 DEF Grown
    <3>2. \A i \in 1..Len(saves') : Awaits(i, "code", c)' => i \in 1..Len(saves) /\ Awaits(i, "code", c)
      BY <2>1, <2>2, <2>5, <3>1 DEF Grown, Joins, Awaits
    <3>. QED  BY <1>1, <2>3, <3>2
  <2>. QED  BY <2>4, <2>5
<1>10. ASSUME NEW b \in Code, Issues(b)  PROVE Written(c)
  <2>1. attempts'[c] \in Stages => attempts[c] \in Stages
    BY <1>0, <1>10, IssuedCode
  <2>2. Grown(store.memory) /\ Len(saves') = Len(saves)
    BY <1>0, <1>10, IssuedCode
  <2>. QED  BY <1>5, <2>1, <2>2
<1>11. ASSUME NEW b \in Code, Registered(b)  PROVE Written(c)
  <2>1. attempts'[c] \in Stages => attempts[c] \in Stages
    BY <1>0, <1>11, RegisteredCode
  <2>2. PICK m \in Contents : Grown(m)
    BY <1>0, <1>11, RegisteredCode
  <2>3. Len(saves') = Len(saves) + 1 /\ saves'[Len(saves) + 1].what = "registration"
    BY <1>0, <1>11, RegisteredCode DEF Joins
  <2>. QED  BY <1>5, <2>1, <2>2, <2>3
<1>12. ASSUME NEW b \in Code, RegistrationFails(b)  PROVE Written(c)
  BY <1>0, <1>5, <1>12, UnregisteredCode
<1>13. ASSUME NEW next \in Codes, next.id = code.id, Closes(next)  PROVE Written(c)
  BY <1>5, <1>13, ClosedCode
<1>14. CASE Aside
  BY <1>5, <1>14 DEF Aside, Still
<1>. QED  BY <1>2, <1>3, <1>4, <1>6, <1>7, <1>8, <1>9, <1>10, <1>11, <1>12, <1>13, <1>14, CodeKinds

LEMMA SecuredStays ==
  ASSUME Types, CodeOrder, [Next]_vars, NEW c \in Code, Secured(c), c \notin trail'.undone
  PROVE  Secured(c)'
<1>1. Layered(c)' /\ (vault.disk[c] # 0 => vault'.disk[c] # 0)
  BY LayersStay DEF Secured
<1>2. ASSUME VaultWritten, InVault(1, c), Len(vault.queue) > 0  PROVE vault'.disk[c] # 0
  <2>1. vault'.disk = vault.queue[1].content
    BY <1>2, WrittenEffect DEF Types
  <2>2. 1 \in 1..Len(vault.queue) /\ QueuedOnce(c)
    BY <1>2, Numbers DEF CodeOrder, Flow
  <2>. QED  BY <1>2, <2>1, <2>2 DEF QueuedOnce
<1>. QED  BY <1>1, <1>2, WrittenGrows DEF Secured

(***************************************************************************)
(* What is over stays over, in the memory and by the code; what is good in  *)
(* the memory stays good there.                                             *)
(***************************************************************************)
Settled == {"registered", "shown"}
Carries(c) ==
  /\ Over(store.memory.pairing, c) => Over(store'.memory.pairing, c)
  /\ c <= store.memory.pairing.id => c <= store'.memory.pairing.id
  /\ attempts[c] \in Settled /\ Good(store.memory, c) => Good(store'.memory, c)
  /\ code'.id # 0 => /\ Over(store.memory.pairing, c) \/ Over(store'.memory.pairing, c) => Over(code', c)
                     /\ \A i \in 1..Len(saves) : Over(saves[i].before.pairing, c) => Over(code', c)

(* The memory takes the code as it is, or as it ends; but for a wrong code of its own. *)
LEMMA CarriesCode ==
  ASSUME Types, CodeOrder, NEW c \in Code, Past(c), code.id # 0, store'.memory.pairing = code', code'.id = code.id,
         ~code'.live \/ c # code.id
  PROVE  Carries(c)
<1>0. c \in Nat /\ code.id \in Nat /\ store.memory.pairing.id \in Nat
  BY Numbers DEF Code
<1>1. /\ store.memory.pairing.id <= code.id
      /\ Over(store.memory.pairing, c) => Over(code, c)
      /\ \A i \in 1..Len(saves) : Over(saves[i].before.pairing, c) => Over(code, c)
  BY DEF CodeOrder, Newest, Past
<1>2. Over(code, c) => Over(code', c)
  BY <1>0 DEF Over
<1>3. c <= code.id => Over(code', c)
  BY <1>0 DEF Over
<1>4. Good(store.memory, c) => Over(code', c)
  BY <1>0, <1>1, <1>2, <1>3 DEF Good
<1>. QED  BY <1>0, <1>1, <1>2, <1>4 DEF Carries, Good

LEMMA CarriesSame ==
  ASSUME Types, NEW c \in Code, Past(c), code' = code,
         store'.memory.pairing = store.memory.pairing, store'.memory.platform = store.memory.platform
  PROVE  Carries(c)
BY DEF Carries, Past, Good

LEMMA CodeCarries ==
  ASSUME Types, CodeOrder, [Next]_vars, ~Restarts, NEW c \in Code, Secured(c), Past(c), c \notin trail'.undone
  PROVE  Carries(c) /\ (Saved \/ SaveFails \/ (trail'.gone = trail.gone /\ \E m \in Contents : Grown(m)))
<1>0. /\ Asked /\ Newest /\ c \in Nat /\ code.id \in Nat /\ store.memory.pairing.id \in Nat /\ Len(saves) \in Nat
      /\ \A b \in Code : b \in Nat /\ b > 0
      /\ Revoked.id = code.id /\ Revoked.live = FALSE
  <2>1. Asked /\ Newest /\ Revoked.id = code.id /\ Revoked.live = FALSE
    BY RevokedTypes DEF CodeOrder, Asked, Types
  <2>2. \A b \in Code : b \in Nat /\ b > 0
    BY DEF Code
  <2>. QED  BY <2>1, <2>2, Numbers
<1>1. CASE Saved
  BY <1>0, <1>1, SavedCode, CarriesSame
<1>2. CASE SaveFails
  <2>1. Len(saves) > 0 /\ 1 \in 1..Len(saves)
    BY <1>0, <1>2, FailedCode
  <2>2. CASE saves[1].what = "other"
    <3>1. store'.memory = saves[1].before /\ code' = code /\ trail'.undone = trail.undone \cup Loses(saves[1].before)
      BY <1>0, <1>2, <2>2, FailedCode
    <3>2. CASE store'.memory.pairing = store.memory.pairing /\ store'.memory.platform = store.memory.platform
      BY <1>2, <3>1, <3>2, CarriesSame
    <3>3. CASE store.memory.pairing.id < c
      <4>1. ~Over(store.memory.pairing, c) /\ ~Good(store.memory, c) /\ ~(c <= store.memory.pairing.id)
        BY <1>0, <3>3 DEF Over, Good
      <4>2. code.id # 0 => \A i \in 1..Len(saves) : Over(saves[i].before.pairing, c) => Over(code, c)
        BY DEF Past
      <4>. QED  BY <1>2, <2>1, <3>1, <4>1, <4>2 DEF Carries
    <3>. QED  BY <2>1, <3>1, <3>2, <3>3, LosesCode, Numbers
  <2>3. CASE saves[1].what = "registration"
    <3>1. store'.memory.pairing = Revoked /\ code' = Revoked /\ saves[1].id \in Code
      BY <1>0, <1>2, <2>3, FailedCode
    <3>2. code.id # 0
      <4>1. Awaits(1, "registration", saves[1].id)
        BY <2>3 DEF Awaits
      <4>2. attempts[saves[1].id] = "registered"
        BY <2>1, <3>1, <4>1 DEF CodeOrder, Flow, SavedOnce
      <4>3. saves[1].id <= code.id
        BY <1>0, <3>1, <4>2 DEF Newest
      <4>4. saves[1].id \in Nat /\ saves[1].id > 0
        BY <1>0, <3>1
      <4>. QED  BY <1>0, <4>3, <4>4
    <3>. QED  BY <1>0, <1>2, <3>1, <3>2, CarriesCode
  <2>4. CASE saves[1].what \notin {"other", "registration"}
    BY <1>0, <1>2, <2>4, FailedCode, CarriesSame
  <2>. QED  BY <2>2, <2>3, <2>4
<1>3. CASE VaultFails
  BY <1>0, <1>3, VaultFailsCode, CarriesSame, Numbers DEF Grown
<1>4. CASE Clears
  BY <1>4, ClearsCode
<1>5. CASE Cleared
  BY <1>5, ClearedCode DEF Secured, Layered
<1>6. CASE VaultWritten /\ vault.queue[1].by = "code"
  <2>1. PICK b \in Code : InVault(1, b)
    BY <1>6, VaultCode
  <2>2. PICK m \in Contents : Grown(m) /\ m.pairing = code
    BY <1>6, VaultCode
  <2>3. code' = code /\ trail'.gone = trail.gone /\ Len(vault.queue) > 0
    BY <1>6, VaultCode DEF Still
  <2>4. 1 \in 1..Len(vault.queue) /\ QueuedOnce(b)
    BY <2>3, Numbers DEF CodeOrder, Flow
  <2>5. attempts[b] = "saving" /\ \E j \in 1..Len(vault.queue) : InVault(j, code.id)
    BY <2>1, <2>4 DEF QueuedOnce
  <2>6. code.id # 0
    BY <1>0, <2>5 DEF Newest
  <2>7. CASE ~code.live \/ c # code.id
    BY <2>2, <2>3, <2>6, <2>7, CarriesCode DEF Grown
  <2>8. CASE c = code.id
    <3>1. attempts[c] = "saving"
      BY <2>5, <2>8 DEF CodeOrder, Flow, QueuedOnce
    <3>2. /\ store.memory.pairing.id <= code.id
          /\ Over(store.memory.pairing, c) => Over(code, c)
          /\ \A i \in 1..Len(saves) : Over(saves[i].before.pairing, c) => Over(code, c)
      BY <1>0, <2>6 DEF Newest, Past
    <3>3. store'.memory.pairing = code
      BY <2>2 DEF Grown
    <3>. QED  BY <1>0, <2>2, <2>3, <2>8, <3>1, <3>2, <3>3 DEF Carries, Settled
  <2>. QED  BY <2>7, <2>8
<1>7. ASSUME NEW b \in Code, Issues(b)
      PROVE  Carries(c) /\ trail'.gone = trail.gone /\ \E m \in Contents : Grown(m)
  <2>1. code'.id = b /\ Grown(store.memory) /\ trail'.gone = trail.gone /\ attempts[b] = "none"
    BY <1>0, <1>7, IssuedCode
  <2>2. Unseen(b)
    BY <2>1 DEF CodeOrder, Fresh
  <2>3. Over(store.memory.pairing, c) => Over(code', c)
    <3>1. store.memory.pairing.id < b /\ b \in Nat
      BY <1>0, <2>2 DEF Unseen
    <3>. QED  BY <1>0, <2>1, <3>1 DEF Over
  <2>4. \A i \in 1..Len(saves) : Over(saves[i].before.pairing, c) => Over(code', c)
    <3>. TAKE i \in 1..Len(saves)
    <3>1. saves[i].before.pairing.id < b /\ saves[i].before.pairing.id \in Nat
      BY <2>2, Numbers DEF Unseen
    <3>2. b \in Nat /\ c \in Nat
      BY <1>0
    <3>. QED  BY <2>1, <3>1, <3>2 DEF Over
  <2>5. store'.memory = store.memory
    BY <2>1 DEF Grown
  <2>. QED  BY <2>1, <2>3, <2>4, <2>5, Numbers DEF Carries
<1>8. ASSUME NEW b \in Code, Registered(b)
      PROVE  Carries(c) /\ trail'.gone = trail.gone /\ \E m \in Contents : Grown(m)
  <2>1. PICK m \in Contents : Grown(m) /\ m.pairing = store.memory.pairing /\ m.platform = b
    BY <1>0, <1>8, RegisteredCode
  <2>2. /\ code' = code /\ trail'.gone = trail.gone
        /\ trail'.undone = trail.undone \cup ({store.memory.pairing.id} \ {b})
    BY <1>0, <1>8, RegisteredCode
  <2>3. store'.memory.pairing = store.memory.pairing /\ store'.memory.platform = b
    BY <2>1 DEF Grown
  <2>4. Good(store.memory, c) => Good(store'.memory, c)
    BY <2>2, <2>3 DEF Good
  <2>. QED  BY <2>1, <2>2, <2>3, <2>4 DEF Carries, Past
<1>9. ASSUME NEW b \in Code, RegistrationFails(b)
      PROVE  Carries(c) /\ trail'.gone = trail.gone /\ \E m \in Contents : Grown(m)
  <2>1. PICK m \in Contents : Grown(m) /\ m.pairing = code'
    BY <1>0, <1>9, UnregisteredCode
  <2>2. code' = Revoked /\ trail'.gone = trail.gone /\ attempts[b] = "registering"
    BY <1>0, <1>9, UnregisteredCode
  <2>3. code.id # 0
    BY <1>0, <2>2 DEF Newest
  <2>. QED  BY <1>0, <2>1, <2>2, <2>3, CarriesCode DEF Grown
<1>10. ASSUME NEW next \in Codes, next.id = code.id, Closes(next)
       PROVE  Carries(c) /\ trail'.gone = trail.gone /\ \E m \in Contents : Grown(m)
  <2>1. PICK m \in Contents : Grown(m) /\ m.pairing = code'
    BY <1>10, ClosedCode
  <2>2. /\ code' = next /\ trail'.gone = trail.gone /\ code.live
        /\ next.live => trail'.undone = trail.undone \cup {code.id}
    BY <1>10, ClosedCode
  <2>3. code.id # 0
    BY <1>0, <2>2 DEF Newest
  <2>4. ~code'.live \/ c # code.id
    BY <2>2, Numbers
  <2>. QED  BY <1>10, <2>1, <2>2, <2>3, <2>4, CarriesCode DEF Grown
<1>11. CASE Aside
  <2>1. PICK m \in Contents : Grown(m) /\ m.pairing = store.memory.pairing /\ m.platform = store.memory.platform
    BY <1>11 DEF Aside
  <2>. QED  BY <1>11, <2>1, CarriesSame DEF Aside, Still, Grown
<1>. QED  BY <1>1, <1>2, <1>3, <1>4, <1>5, <1>6, <1>7, <1>8, <1>9, <1>10, <1>11, CodeKinds

LEMMA LiveStays ==
  ASSUME Types, CodeOrder, [Next]_vars, NEW c \in Code, Secured(c), Past(c), c \notin trail'.undone, code'.id = c, code'.live
  PROVE  c \notin trail'.dead
<1>0. /\ Asked /\ c \in Nat /\ c # 0 /\ Revoked.live = FALSE
      /\ code.id = c /\ code.live => c \notin trail.dead
  <2>1. Asked /\ Revoked.live = FALSE
    BY RevokedTypes DEF CodeOrder, Asked, Types
  <2>2. c \in Nat /\ c # 0
    BY DEF Code
  <2>. QED  BY <2>1, <2>2 DEF Past
<1>1. CASE Saved
  BY <1>0, <1>1, SavedCode
<1>2. CASE SaveFails
  BY <1>0, <1>2, FailedCode
<1>3. CASE Restarts
  <2>1. code' = Restored /\ trail'.dead = trail.gone
    BY <1>0, <1>3, RestartCode
  <2>2. store.disk.pairing.id = c /\ store.disk.pairing.live
    BY <1>0, <2>1 DEF Restored, NoCode
  <2>. QED  BY <2>1, <2>2 DEF Past, Over
<1>4. CASE VaultFails
  BY <1>0, <1>4, VaultFailsCode
<1>5. CASE Clears \/ Cleared
  BY <1>5, ClearsCode, ClearedCode DEF Secured, Layered
<1>6. CASE VaultWritten /\ vault.queue[1].by = "code"
  BY <1>0, <1>6, VaultCode DEF Still
<1>7. ASSUME NEW b \in Code, Issues(b)  PROVE c \notin trail'.dead
  <2>1. code'.id = b /\ attempts[b] = "none" /\ trail'.dead = trail.dead \cup 1..(b - 1)
    BY <1>0, <1>7, IssuedCode
  <2>2. b \notin trail.dead
    BY <2>1 DEF CodeOrder, Fresh
  <2>3. c \notin 1..(c - 1)
    BY <1>0
  <2>. QED  BY <2>1, <2>2, <2>3
<1>8. ASSUME NEW b \in Code, Registered(b)  PROVE c \notin trail'.dead
  BY <1>0, <1>8, RegisteredCode
<1>9. ASSUME NEW b \in Code, RegistrationFails(b)  PROVE c \notin trail'.dead
  BY <1>0, <1>9, UnregisteredCode
<1>10. ASSUME NEW next \in Codes, next.id = code.id, Closes(next)  PROVE c \notin trail'.dead
  BY <1>10, ClosedCode
<1>11. CASE Aside
  BY <1>0, <1>11 DEF Aside, Still
<1>. QED  BY <1>1, <1>2, <1>3, <1>4, <1>5, <1>6, <1>7, <1>8, <1>9, <1>10, <1>11, CodeKinds

LEMMA PastStays ==
  ASSUME Types, CodeOrder, [Next]_vars, NEW c \in Code, Secured(c), Past(c), c \notin trail'.undone
  PROVE  Past(c)'
<1>0. /\ Asked /\ c # 0 /\ Len(saves) \in Nat
      /\ c \in trail.gone <=> Over(store.disk.pairing, c)
      /\ Over(store.disk.pairing, c) => Over(store.writing.pairing, c)
      /\ Over(store.writing.pairing, c) => Over(store.memory.pairing, c)
  BY Numbers DEF CodeOrder, Asked, Code, Past
<1>1. code'.id = c /\ code'.live => c \notin trail'.dead
  BY LiveStays
<1>2. CASE Restarts
  <2>1. /\ store'.memory = store.disk /\ store'.disk = store.disk /\ store'.writing = store.disk
        /\ code' = Restored /\ trail'.gone = trail.gone /\ Len(saves') = 0
    BY <1>0, <1>2, RestartCode
  <2>2. code'.id # 0 => code' = store.disk.pairing
    BY <2>1 DEF Restored, NoCode
  <2>3. c \in trail'.gone <=> Over(store'.disk.pairing, c)
    BY <1>0, <2>1
  <2>4. code'.id # 0 /\ Over(store'.memory.pairing, c) => Over(code', c)
    BY <2>1, <2>2
  <2>. QED  BY <1>1, <2>1, <2>3, <2>4 DEF Past
<1>3. CASE Saved /\ ~Restarts
  <2>1. Carries(c)
    BY <1>3, CodeCarries
  <2>2. /\ store'.memory = store.memory /\ store'.disk = store.writing /\ store'.writing = store.memory
        /\ Len(saves) > 0 /\ Len(saves') = Len(saves) - 1 /\ \A i \in 1..Len(saves') : saves'[i] = saves[i + 1]
        /\ c \in trail'.gone <=> c \in trail.gone \/ Over(store.writing.pairing, c)
    BY <1>0, <1>3, SavedCode
  <2>3. \A i \in 1..Len(saves') : i + 1 \in 1..Len(saves) /\ saves'[i].before = saves[i + 1].before
    BY <1>0, <2>2
  <2>4. c \in trail'.gone <=> Over(store'.disk.pairing, c)
    BY <1>0, <2>2
  <2>5. /\ Over(store'.disk.pairing, c) => Over(store'.writing.pairing, c)
        /\ Over(store'.writing.pairing, c) => Over(store'.memory.pairing, c)
    BY <1>0, <2>2
  <2>6. code'.id # 0 => \A i \in 1..Len(saves') : Over(saves'[i].before.pairing, c) => Over(code', c)
    BY <2>1, <2>3 DEF Carries
  <2>. QED  BY <1>1, <2>1, <2>4, <2>5, <2>6 DEF Past, Carries
<1>4. CASE SaveFails /\ ~Restarts
  <2>1. Carries(c)
    BY <1>4, CodeCarries
  <2>2. /\ store'.disk = store.disk /\ store'.writing \in {store.memory, store'.memory} /\ trail'.gone = trail.gone
        /\ Len(saves) > 0 /\ Len(saves') \in {Len(saves) - 1, Len(saves)}
        /\ \A i \in 1..(Len(saves) - 1) : saves'[i] = saves[i + 1]
        /\ Len(saves') = Len(saves) => saves'[Len(saves)].before = store.memory
    BY <1>0, <1>4, FailedCode
  <2>3. \A i \in 1..Len(saves') : (i \in 1..(Len(saves) - 1) /\ i + 1 \in 1..Len(saves)) \/ (i = Len(saves) /\ Len(saves') = Len(saves))
    BY <1>0, <2>2
  <2>4. \A i \in 1..Len(saves') : saves'[i].before = store.memory \/ \E j \in 1..Len(saves) : saves'[i].before = saves[j].before
    BY <2>2, <2>3
  <2>5. /\ Over(store'.disk.pairing, c) => Over(store'.writing.pairing, c)
        /\ Over(store'.writing.pairing, c) => Over(store'.memory.pairing, c)
    BY <1>0, <2>1, <2>2 DEF Carries
  <2>6. code'.id # 0 => \A i \in 1..Len(saves') : Over(saves'[i].before.pairing, c) => Over(code', c)
    BY <2>1, <2>4 DEF Carries
  <2>. QED  BY <1>0, <1>1, <2>1, <2>2, <2>5, <2>6 DEF Past, Carries
<1>5. CASE ~Restarts /\ ~Saved /\ ~SaveFails
  <2>1. Carries(c) /\ trail'.gone = trail.gone
    BY <1>5, CodeCarries
  <2>2. PICK m \in Contents : Grown(m)
    BY <1>5, CodeCarries
  <2>3. \A i \in 1..Len(saves') : i \in 1..Len(saves) \/ (i = Len(saves) + 1 /\ Len(saves') = Len(saves) + 1)
    BY <1>0, <2>2 DEF Grown
  <2>4. \A i \in 1..Len(saves') : saves'[i].before = store.memory \/ \E j \in 1..Len(saves) : saves'[i].before = saves[j].before
    BY <1>0, <2>2, <2>3 DEF Grown
  <2>5. store'.disk = store.disk /\ store'.writing \in {store.writing, store'.memory}
    BY <2>2 DEF Grown
  <2>6. /\ Over(store'.disk.pairing, c) => Over(store'.writing.pairing, c)
        /\ Over(store'.writing.pairing, c) => Over(store'.memory.pairing, c)
    BY <1>0, <2>1, <2>5 DEF Carries
  <2>7. code'.id # 0 => \A i \in 1..Len(saves') : Over(saves'[i].before.pairing, c) => Over(code', c)
    BY <2>1, <2>4 DEF Carries
  <2>. QED  BY <1>0, <1>1, <2>1, <2>5, <2>6, <2>7 DEF Past, Carries
<1>. QED  BY <1>2, <1>3, <1>4, <1>5

(***************************************************************************)
(* A code whose request goes on is over, or it is the current one; and it   *)
(* is good in the memory once its registration joined the saves.            *)
(***************************************************************************)
Active == {"saving", "registering", "registered", "shown"}

LEMMA ActiveStays ==
  ASSUME Types, CodeOrder, [Next]_vars, NEW c \in Code, Secured(c), Past(c), Present(c), c \notin trail'.undone,
         attempts'[c] \in Active
  PROVE  c \in trail'.dead \/ (code'.id = c /\ code'.live)
<1>0. /\ Asked /\ c \in Nat /\ c # 0 /\ Len(saves) \in Nat
      /\ attempts[c] \in Active => c \in trail.dead \/ (code.id = c /\ code.live)
      /\ SavedOnce("code", "saving", c) /\ SavedOnce("registration", "registered", c)
  <2>1. c \in Nat /\ c # 0 /\ Len(saves) \in Nat
    BY Numbers DEF Code
  <2>. QED  BY <2>1 DEF CodeOrder, Asked, Flow, Present, Active
<1>1. CASE Saved
  <2>1. 1 \in 1..Len(saves)
    BY <1>0, <1>1, SavedCode
  <2>2. attempts[c] \in Active
    BY <1>0, <1>1, <2>1, SavedCode DEF SavedOnce, Active
  <2>. QED  BY <1>0, <1>1, <2>2, SavedCode
<1>2. CASE SaveFails
  <2>1. attempts[c] \in Active
    BY <1>0, <1>2, FailedCode DEF Active
  <2>. QED  BY <1>0, <1>2, <2>1, FailedCode
<1>3. CASE Restarts
  <2>1. /\ code' = Restored /\ trail'.dead = trail.gone
        /\ attempts'[c] = IF attempts[c] \in {"none", "shown"} THEN attempts[c] ELSE "failed"
    BY <1>0, <1>3, RestartCode
  <2>2. attempts[c] = "shown"
    BY <2>1 DEF Active
  <2>3. Good(store.disk, c) /\ vault.disk[c] # 0
    BY <2>2 DEF Present, Secured, Written
  <2>4. CASE Over(store.disk.pairing, c)
    BY <2>1, <2>4 DEF Past
  <2>5. CASE store.disk.pairing.id = c /\ store.disk.pairing.live
    BY <1>0, <2>1, <2>3, <2>5 DEF Restored
  <2>. QED  BY <2>3, <2>4, <2>5 DEF Good
<1>4. CASE VaultFails
  <2>1. attempts[c] \in Active
    BY <1>0, <1>4, VaultFailsCode DEF Active
  <2>. QED  BY <1>0, <1>4, <2>1, VaultFailsCode
<1>5. CASE Clears \/ Cleared
  BY <1>5, ClearsCode, ClearedCode DEF Secured, Layered
<1>6. CASE VaultWritten /\ vault.queue[1].by = "code"
  BY <1>0, <1>6, VaultCode DEF Still
<1>7. ASSUME NEW b \in Code, Issues(b)  PROVE c \in trail'.dead \/ (code'.id = c /\ code'.live)
  <2>1. /\ code'.id = b /\ code'.live = TRUE /\ attempts[b] = "none" /\ trail'.dead = trail.dead \cup 1..(b - 1)
        /\ c # b => attempts'[c] = attempts[c]
    BY <1>0, <1>7, IssuedCode
  <2>2. CASE c # b
    <3>1. c \notin b..MaxCode
      BY <2>1, <2>2 DEF CodeOrder, Fresh, Active
    <3>2. c \in 1..(b - 1)
      BY <3>1, Numbers DEF Code
    <3>. QED  BY <2>1, <3>2
  <2>. QED  BY <2>1, <2>2
<1>8. ASSUME NEW b \in Code, Registered(b)  PROVE c \in trail'.dead \/ (code'.id = c /\ code'.live)
  <2>1. attempts[c] \in Active
    BY <1>0, <1>8, RegisteredCode DEF Active
  <2>. QED  BY <1>0, <1>8, <2>1, RegisteredCode
<1>9. ASSUME NEW b \in Code, RegistrationFails(b)  PROVE c \in trail'.dead \/ (code'.id = c /\ code'.live)
  <2>1. c # b
    BY <1>0, <1>9, UnregisteredCode DEF Active
  <2>2. attempts[c] \in Active /\ trail'.dead = trail.dead \cup {b} /\ (code.id # b => code.id \in trail'.undone)
    BY <1>0, <1>9, <2>1, UnregisteredCode
  <2>. QED  BY <1>0, <2>1, <2>2
<1>10. ASSUME NEW next \in Codes, next.id = code.id, Closes(next)  PROVE c \in trail'.dead \/ (code'.id = c /\ code'.live)
  <2>1. CASE next.live
    BY <1>0, <1>10, <2>1, ClosedCode
  <2>2. CASE ~next.live
    BY <1>0, <1>10, <2>2, ClosedCode
  <2>. QED  BY <2>1, <2>2
<1>11. CASE Aside
  BY <1>0, <1>11 DEF Aside, Still
<1>. QED  BY <1>1, <1>2, <1>3, <1>4, <1>5, <1>6, <1>7, <1>8, <1>9, <1>10, <1>11, CodeKinds

LEMMA WrittenStored ==
  ASSUME Types, CodeOrder, [Next]_vars, NEW c \in Code, Secured(c), Past(c), Present(c), c \notin trail'.undone, Written(c)'
  PROVE  c <= store'.memory.pairing.id
<1>0. Asked /\ (Written(c) => c <= store.memory.pairing.id)
  BY DEF CodeOrder, Asked, Present
<1>1. CASE Restarts
  <2>1. /\ Len(saves') = 0 /\ store'.memory = store.disk
        /\ attempts'[c] = IF attempts[c] \in {"none", "shown"} THEN attempts[c] ELSE "failed"
    BY <1>0, <1>1, RestartCode
  <2>2. attempts[c] = "shown"
    BY <2>1 DEF Written
  <2>3. Good(store.disk, c)
    BY <2>2 DEF Present
  <2>4. c <= store.disk.pairing.id
    BY <2>3, Numbers DEF Good, Over, Code
  <2>. QED  BY <2>1, <2>4
<1>2. CASE ~Restarts /\ Written(c)
  BY <1>0, <1>2, CodeCarries DEF Carries
<1>3. CASE VaultWritten /\ InVault(1, c) /\ Len(vault.queue) > 0
  <2>1. vault.queue[1].by = "code"
    BY <1>3 DEF InVault
  <2>2. PICK m \in Contents : Grown(m) /\ m.pairing = code
    BY <1>3, <2>1, VaultCode
  <2>3. 1 \in 1..Len(vault.queue)
    BY <1>3, Numbers
  <2>4. attempts[c] = "saving"
    BY <1>3, <2>3 DEF CodeOrder, Flow, QueuedOnce
  <2>5. c <= code.id
    BY <2>4 DEF CodeOrder, Newest
  <2>. QED  BY <2>2, <2>5 DEF Grown
<1>. QED  BY <1>1, <1>2, <1>3, WrittenGrows

LEMMA SettledGrows ==
  ASSUME Types, CodeOrder, [Next]_vars, NEW c \in Code, attempts'[c] \in Settled
  PROVE  attempts[c] \in Settled \/ Registered(c)
<1>0. Asked /\ Len(saves) \in Nat /\ SavedOnce("registration", "registered", c)
  BY Numbers DEF CodeOrder, Asked, Flow
<1>1. CASE Saved
  <2>1. 1 \in 1..Len(saves)
    BY <1>0, <1>1, SavedCode
  <2>. QED  BY <1>0, <1>1, <2>1, SavedCode DEF SavedOnce, Settled
<1>2. CASE SaveFails
  BY <1>0, <1>2, FailedCode DEF Settled
<1>3. CASE Restarts
  BY <1>0, <1>3, RestartCode DEF Settled
<1>4. CASE VaultFails
  BY <1>0, <1>4, VaultFailsCode DEF Settled
<1>5. CASE Clears \/ Cleared
  BY <1>5, ClearsCode, ClearedCode DEF Still
<1>6. CASE VaultWritten /\ vault.queue[1].by = "code"
  BY <1>6, VaultCode DEF Still
<1>7. ASSUME NEW b \in Code, Issues(b)  PROVE attempts[c] \in Settled
  BY <1>0, <1>7, IssuedCode DEF Settled
<1>8. ASSUME NEW b \in Code, Registered(b)  PROVE attempts[c] \in Settled \/ Registered(c)
  BY <1>0, <1>8, RegisteredCode
<1>9. ASSUME NEW b \in Code, RegistrationFails(b)  PROVE attempts[c] \in Settled
  BY <1>0, <1>9, UnregisteredCode DEF Settled
<1>10. ASSUME NEW next \in Codes, next.id = code.id, Closes(next)  PROVE attempts[c] \in Settled
  BY <1>10, ClosedCode
<1>11. CASE Aside
  BY <1>11 DEF Aside, Still
<1>. QED  BY <1>1, <1>2, <1>3, <1>4, <1>5, <1>6, <1>7, <1>8, <1>9, <1>10, <1>11, CodeKinds

LEMMA SettledGood ==
  ASSUME Types, CodeOrder, [Next]_vars, NEW c \in Code, Secured(c), Past(c), Present(c), c \notin trail'.undone,
         attempts'[c] \in Settled
  PROVE  Good(store'.memory, c)
<1>0. Asked /\ c \in Nat /\ (attempts[c] \in Settled => Good(store.memory, c))
  BY Numbers DEF CodeOrder, Asked, Present, Settled, Code
<1>1. CASE Restarts
  <2>1. /\ store'.memory = store.disk
        /\ attempts'[c] = IF attempts[c] \in {"none", "shown"} THEN attempts[c] ELSE "failed"
    BY <1>0, <1>1, RestartCode
  <2>2. attempts[c] = "shown"
    BY <2>1 DEF Settled
  <2>. QED  BY <2>1, <2>2 DEF Present
<1>2. CASE ~Restarts /\ attempts[c] \in Settled
  BY <1>0, <1>2, CodeCarries DEF Carries
<1>3. CASE Registered(c)
  <2>1. attempts[c] = "registering"
    BY <1>0, <1>3, RegisteredCode
  <2>2. c <= store.memory.pairing.id
    BY <2>1 DEF Present, Written
  <2>3. PICK m \in Contents : Grown(m) /\ m.pairing = store.memory.pairing /\ m.platform = c
    BY <1>0, <1>3, RegisteredCode
  <2>4. store'.memory = m
    BY <2>3 DEF Grown
  <2>. QED  BY <2>2, <2>3, <2>4 DEF Good, Over
<1>. QED  BY <1>1, <1>2, <1>3, SettledGrows

LEMMA StepShows ==
  ASSUME Types, CodeOrder, [Next]_vars, ~Restarts, ~Saved, ~SaveFails, NEW c \in Code, attempts'[c] = "shown"
  PROVE  attempts[c] = "shown"
<1>0. Asked
  BY DEF CodeOrder, Asked
<1>1. CASE VaultFails
  BY <1>0, <1>1, VaultFailsCode
<1>2. CASE Clears \/ Cleared
  BY <1>2, ClearsCode, ClearedCode DEF Still
<1>3. CASE VaultWritten /\ vault.queue[1].by = "code"
  BY <1>3, VaultCode DEF Still
<1>4. ASSUME NEW b \in Code, Issues(b) \/ Registered(b) \/ RegistrationFails(b)  PROVE attempts[c] = "shown"
  BY <1>0, <1>4, IssuedCode, RegisteredCode, UnregisteredCode
<1>5. ASSUME NEW next \in Codes, next.id = code.id, Closes(next)  PROVE attempts[c] = "shown"
  BY <1>5, ClosedCode
<1>6. CASE Aside
  BY <1>6 DEF Aside, Still
<1>. QED  BY <1>1, <1>2, <1>3, <1>4, <1>5, <1>6, CodeKinds

LEMMA ShownGood ==
  ASSUME Types, CodeOrder, [Next]_vars, NEW c \in Code, Secured(c), Past(c), Present(c), c \notin trail'.undone,
         attempts'[c] = "shown"
  PROVE  Good(store'.disk, c) /\ Good(store'.writing, c)
<1>0. /\ Asked /\ Len(saves) \in Nat /\ SavedOnce("registration", "registered", c) /\ SavedOnce("code", "saving", c)
      /\ attempts[c] \in Settled => Good(store.memory, c)
      /\ attempts[c] = "shown" => Good(store.disk, c) /\ Good(store.writing, c)
      /\ Len(saves) > 0 /\ Awaits(1, "registration", c) => Good(store.writing, c)
  BY Numbers DEF CodeOrder, Asked, Flow, Present, Settled
<1>1. Good(store'.memory, c)
  BY SettledGood DEF Settled
<1>2. CASE Saved
  <2>1. /\ Len(saves) > 0 /\ store'.memory = store.memory /\ store'.disk = store.writing /\ store'.writing = store.memory
        /\ attempts'[c] = IF Awaits(1, "code", c) THEN "registering"
                          ELSE IF Awaits(1, "registration", c) THEN "shown" ELSE attempts[c]
    BY <1>0, <1>2, SavedCode
  <2>. QED  BY <1>0, <1>1, <2>1
<1>3. CASE SaveFails
  <2>1. /\ store'.disk = store.disk /\ store'.writing \in {store.memory, store'.memory}
        /\ attempts'[c] = IF Awaits(1, "code", c) \/ Awaits(1, "registration", c) THEN "failed" ELSE attempts[c]
    BY <1>0, <1>3, FailedCode
  <2>2. attempts[c] = "shown"
    BY <2>1
  <2>. QED  BY <1>0, <1>1, <2>1, <2>2 DEF Settled
<1>4. CASE Restarts
  <2>1. /\ store'.disk = store.disk /\ store'.writing = store.disk
        /\ attempts'[c] = IF attempts[c] \in {"none", "shown"} THEN attempts[c] ELSE "failed"
    BY <1>0, <1>4, RestartCode
  <2>. QED  BY <1>0, <2>1
<1>5. CASE ~Restarts /\ ~Saved /\ ~SaveFails
  <2>1. PICK m \in Contents : Grown(m)
    BY <1>5, CodeCarries
  <2>2. attempts[c] = "shown"
    BY <1>0, <1>5, StepShows
  <2>. QED  BY <1>0, <1>1, <2>1, <2>2 DEF Grown
<1>. QED  BY <1>2, <1>3, <1>4, <1>5

LEMMA WrittenGood ==
  ASSUME Types, CodeOrder, [Next]_vars, NEW c \in Code, Secured(c), Past(c), Present(c), c \notin trail'.undone,
         Len(saves') > 0, Awaits(1, "registration", c)'
  PROVE  Good(store'.writing, c)
<1>0. /\ Asked /\ Len(saves) \in Nat /\ SavedOnce("registration", "registered", c)
      /\ attempts[c] \in Settled => Good(store.memory, c)
      /\ Len(saves) > 0 /\ Awaits(1, "registration", c) => Good(store.writing, c)
  BY Numbers DEF CodeOrder, Asked, Flow, Present, Settled
<1>1. CASE Saved
  <2>1. /\ Len(saves') = Len(saves) - 1 /\ \A i \in 1..Len(saves') : saves'[i] = saves[i + 1]
        /\ store'.writing = store.memory
    BY <1>0, <1>1, SavedCode
  <2>2. 1 \in 1..Len(saves') /\ 2 \in 1..Len(saves)
    BY <1>0, <2>1
  <2>3. Awaits(2, "registration", c)
    BY <2>1, <2>2 DEF Awaits
  <2>. QED  BY <1>0, <2>1, <2>2, <2>3 DEF SavedOnce, Settled
<1>2. CASE SaveFails /\ ~Restarts
  <2>1. /\ Len(saves) > 0 /\ Len(saves') \in {Len(saves) - 1, Len(saves)}
        /\ \A i \in 1..(Len(saves) - 1) : saves'[i] = saves[i + 1]
        /\ Len(saves') = Len(saves) => saves'[Len(saves)].what = "quiet"
        /\ store'.writing \in {store.memory, store'.memory}
    BY <1>0, <1>2, FailedCode
  <2>2. Len(saves) # 1
    BY <1>0, <2>1 DEF Awaits
  <2>3. 1 \in 1..(Len(saves) - 1) /\ 2 \in 1..Len(saves)
    <3>1. PICK n \in Nat : n = Len(saves)
      BY <1>0
    <3>2. n > 0 /\ n # 1
      BY <2>1, <2>2, <3>1
    <3>3. n >= 2
      BY <3>1, <3>2
    <3>4. 1 \in 1..(n - 1) /\ 2 \in 1..n
      BY <3>3
    <3>. QED  BY <3>1, <3>4
  <2>4. Awaits(2, "registration", c)
    BY <2>1, <2>3 DEF Awaits
  <2>5. attempts[c] \in Settled
    BY <1>0, <2>3, <2>4 DEF SavedOnce, Settled
  <2>6. Carries(c)
    BY <1>2, CodeCarries
  <2>. QED  BY <1>0, <2>1, <2>5, <2>6 DEF Carries
<1>3. CASE Restarts
  BY <1>0, <1>3, RestartCode
<1>4. CASE ~Restarts /\ ~Saved /\ ~SaveFails
  <2>1. PICK m \in Contents : Grown(m)
    BY <1>4, CodeCarries
  <2>2. CASE Len(saves) > 0
    <3>1. 1 \in 1..Len(saves) /\ Len(saves) # 0
      BY <1>0, <2>2
    <3>2. Awaits(1, "registration", c) /\ store'.writing = store.writing
      BY <2>1, <3>1 DEF Grown, Awaits
    <3>. QED  BY <1>0, <2>2, <3>2
  <2>3. CASE Len(saves) = 0
    <3>1. Len(saves') = 1 /\ store'.writing = store'.memory
      BY <2>1, <2>3 DEF Grown
    <3>2. SavedOnce("registration", "registered", c)'
      BY CodeOrderStays DEF CodeOrder, Flow
    <3>3. attempts'[c] = "registered"
      BY <3>1, <3>2 DEF SavedOnce
    <3>. QED  BY <3>1, <3>3, SettledGood DEF Settled
  <2>. QED  BY <1>0, <2>2, <2>3
<1>. QED  BY <1>1, <1>2, <1>3, <1>4

LEMMA PresentStays ==
  ASSUME Types, CodeOrder, [Next]_vars, NEW c \in Code, Secured(c), Past(c), Present(c), c \notin trail'.undone
  PROVE  Present(c)'
<1>1. attempts'[c] \in {"saving", "registering", "registered", "shown"} => c \in trail'.dead \/ (code'.id = c /\ code'.live)
  BY ActiveStays DEF Active
<1>2. attempts'[c] \in {"registered", "shown"} => Good(store'.memory, c)
  BY SettledGood DEF Settled
<1>. QED  BY <1>1, <1>2, WrittenStored, ShownGood, WrittenGood DEF Present, Good, Over

LEMMA CodewiseStays == ASSUME Types, CodeOrder, Codewise, [Next]_vars PROVE Codewise'
BY UndoneGrows, SecuredStays, PastStays, PresentStays DEF Codewise

LEMMA CodeInit == Init => CodeOrder /\ Codewise
<1>. SUFFICES ASSUME Init PROVE CodeOrder /\ Codewise
  OBVIOUS
<1>1. /\ attempts = [c \in Code |-> "none"] /\ code = NoCode /\ vault.queue = <<>> /\ saves = <<>>
      /\ Len(saves) = 0 /\ Len(vault.queue) = 0 /\ vault.stuck = FALSE /\ vault.clearing = FALSE /\ vault.disk = NoSecrets
      /\ store.memory = Empty /\ store.disk = Empty /\ store.writing = Empty
      /\ trail.dead = {} /\ trail.gone = {}
  BY EmptySeq DEF Init
<1>2. /\ NoCode.id = 0 /\ NoCode.live = FALSE /\ Empty.pairing = NoCode
      /\ \A c \in Code : c \in Nat /\ 0 < c /\ ~Over(NoCode, c) /\ NoSecrets[c] = 0
  BY DEF NoCode, Empty, NoSecrets, Over, Code
<1>3. \A c \in Code : c..MaxCode \subseteq Code /\ attempts[c] = "none"
  BY <1>1, <1>2, AccessAssumption DEF Code
<1>4. CodeOrder
  <2>1. attempts \in [Code -> Statuses]
    BY <1>1 DEF Statuses
  <2>2. Fresh
    BY <1>1, <1>2, <1>3 DEF Fresh, Unseen
  <2>3. Newest
    BY <1>1, <1>2, <1>3 DEF Newest
  <2>4. Flow
    BY <1>1 DEF Flow, QueuedOnce, SavedOnce
  <2>. QED  BY <2>1, <2>2, <2>3, <2>4 DEF CodeOrder
<1>5. ASSUME NEW c \in Code  PROVE Secured(c) /\ Past(c) /\ Present(c)
  <2>1. Secured(c)
    <3>1. \A i \in 0..Len(vault.queue) : Layer(vault, i)[c] = 0
      BY <1>1, <1>2 DEF Layer
    <3>2. ~Written(c)
      BY <1>1, <1>3 DEF Written
    <3>. QED  BY <1>1, <3>1, <3>2 DEF Secured, Layered
  <2>2. Past(c)
    BY <1>1, <1>2 DEF Past
  <2>3. Present(c)
    BY <1>1, <1>3 DEF Present, Written
  <2>. QED  BY <2>1, <2>2, <2>3
<1>. QED  BY <1>4, <1>5 DEF Codewise

LEMMA CodewiseImplies == ASSUME Types, CodeOrder, Codewise PROVE CodeEnds
<1>1. ASSUME code.live  PROVE code.id \notin trail.dead \/ code.id \in trail.undone
  <2>1. code.id \in Code
    BY <1>1, Numbers DEF CodeOrder, Newest, Code
  <2>. QED  BY <1>1, <2>1 DEF Codewise, Past
<1>2. ASSUME NEW c \in Code, attempts[c] = "shown", c \notin trail.dead \cup trail.undone
      PROVE  code.id = c /\ code.live /\ store.memory.platform = c
  <2>1. code.id = c /\ code.live /\ Good(store.memory, c) /\ Past(c)
    BY <1>2 DEF Codewise, Present
  <2>2. ~Over(code, c) /\ code.id # 0
    BY <2>1 DEF Over, Code
  <2>. QED  BY <2>1, <2>2 DEF Past, Good
<1>. QED  BY <1>1, <1>2 DEF CodeEnds

(* provisioningPairing.js:22-126: a code that was revoked, redeemed or replaced is not
   live again, also after a restart once that was saved; and a code that was shown stays
   good, with the platform's ids of its registration. *)
THEOREM CodeEndsAlways == Spec => []CodeEnds
<1>1. Init => CodeOrder /\ Codewise
  BY CodeInit
<1>2. Types /\ CodeOrder /\ Codewise /\ [Next]_vars => CodeOrder' /\ Codewise'
  BY CodeOrderStays, CodewiseStays
<1>3. Types /\ CodeOrder /\ Codewise => CodeEnds
  BY CodewiseImplies
<1>. QED  BY <1>1, <1>2, <1>3, TypesAlways, PTL DEF Spec
=============================================================================
