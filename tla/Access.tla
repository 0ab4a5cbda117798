----------------------------------- MODULE Access -----------------------------------
(***************************************************************************)
(* What the hub keeps to decide who may do what: nonces and proofs that are *)
(* used once, grants of phones without the cloud, ended operator sessions,  *)
(* support leases, the provisioning code, and the vault with its secrets.   *)
(*                                                                          *)
(* Saves of the store wait for each other; each writes the memory as it was *)
(* when its turn came.  A save of these parts that fails leaves the memory  *)
(* as it is; one of the store's other parts puts back the state from before *)
(* it (StateStore).  The vault has a queue of its own.                      *)
(***************************************************************************)
EXTENDS Naturals, FiniteSets, SequencesExt, Functions, TLC

CONSTANTS
  Nonce, Proof,   \* one-time tokens: LAN challenges, step-up proofs
  Grant,          \* grants for phones on the LAN
  Session,        \* operator sessions, by jti
  Lease,          \* support leases
  Secret,         \* the vault's records but the codes'
  MaxCode,        \* bound: codes that are issued
  MaxFailures,    \* wrong codes that revoke a code (5 in the code)
  MaxSaves,       \* bound: saves that wait
  Scenarios       \* bounds: how often each kind of event happens

ASSUME AccessAssumption ==
  /\ MaxCode \in Nat /\ MaxFailures \in Nat /\ MaxSaves \in Nat
  /\ Grant \cap Session = {} /\ Grant \cap Lease = {} /\ Session \cap Lease = {}
  /\ 0 \notin Grant \cup Session \cup Lease

Token == Nonce \cup Proof
Code == 1..MaxCode
Kinds == {"tokens", "grants", "sessions", "leases", "secrets", "codes", "others", "faults", "crashes", "resets"}

VARIABLES
  store,      \* the parts of the state above: in memory, on disk, as being written
  saves,      \* the saves that wait, and what each is for
  used,       \* StepUpProofVerifier: used
  ended,      \* revokedOperatorJtis
  sockets,    \* RevocationCoordinator: sockets, by session
  leases,     \* supportBrowserSessions: kept, checks and revocations under way
  code,       \* ProvisioningPairingService: current
  attempts,   \* the setup requests that show a code
  vault,      \* SecretVault: records, the file, writeQueue and whether it is rejected
  budget,     \* the events that are left of the scenario
  trail       \* history
vars == <<store, saves, used, ended, sockets, leases, code, attempts, vault, budget, trail>>

Spend(kind) == budget[kind] > 0 /\ budget' = [budget EXCEPT ![kind] = @ - 1]

NoCode == [id |-> 0, live |-> FALSE, failures |-> 0]
Empty == [used |-> {}, grants |-> [g \in Grant |-> "none"], ended |-> {}, pairing |-> NoCode, platform |-> 0]
NoSecrets == [n \in Secret \cup Code |-> 0]

Init ==
  /\ store = [memory |-> Empty, disk |-> Empty, writing |-> Empty] /\ saves = <<>>
  /\ used = {} /\ ended = {} /\ sockets = {}
  /\ leases = [l \in Lease |-> [kept |-> FALSE, checks |-> 0, endings |-> 0]]
  /\ code = NoCode /\ attempts = [c \in Code |-> "none"]
  /\ vault = [memory |-> NoSecrets, disk |-> NoSecrets, queue |-> <<>>, stuck |-> FALSE, clearing |-> FALSE]
  /\ budget \in Scenarios
  /\ trail = [accepted |-> [t \in Token |-> 0], over |-> {}, late |-> {}, dead |-> {}, gone |-> {}, undone |-> {},
              told |-> NoSecrets, mixed |-> FALSE]

(***************************************************************************)
(* The store's queue.                                                       *)
(***************************************************************************)
For(what, id) == [what |-> what, id |-> id, grant |-> 0, before |-> store.memory]
Save(memory, entry) ==
  /\ Len(saves) < MaxSaves
  /\ saves' = Append(saves, entry)
  /\ store' = [store EXCEPT !.memory = memory, !.writing = IF saves = <<>> THEN memory ELSE @]

\* Quietly saved: nobody awaits it.
Persist(current) == Save([store.memory EXCEPT !.pairing = current, !.platform = 0], For("quiet", current.id))

\* revoke, unless the code was consumed: then it is not live either.
Revoked == [code EXCEPT !.live = FALSE]

\* RevocationCoordinator: a socket is tracked under its credential until it closes, and
\* revoke closes every one of a credential.
Tracked(s, stays) == IF stays THEN sockets \cup {s} ELSE sockets
Closing(s) == sockets \ {s}

\* A grant that no save behind the first one enrols again.
StaysRevoked(g) == store.memory.grants[g] = "revoked" /\ \A i \in 2..Len(saves) : saves[i].what = "enroll" => saves[i].id # g

\* The codes that are over on the disk from now on.
Closed == LET c == store.writing.pairing IN 1..c.id \ (IF c.live THEN {c.id} ELSE {})

Saved ==
  /\ saves # <<>>
  /\ saves' = Tail(saves)
  /\ store' = [store EXCEPT !.disk = store.writing, !.writing = store.memory]
  /\ LET e == Head(saves)
     IN /\ attempts' = CASE e.what = "code" -> [attempts EXCEPT ![e.id] = "registering"]
                         [] e.what = "registration" -> [attempts EXCEPT ![e.id] = "shown"]
                         [] OTHER -> attempts
        /\ sockets' = IF e.what = "end" THEN Closing(e.id) ELSE sockets
        /\ trail' = LET t == [trail EXCEPT !.gone = @ \cup Closed]
                    IN CASE e.what \in {"nonce", "proof"} ->
                              [t EXCEPT !.accepted[e.id] = @ + 1, !.late = IF e.grant \in trail.over THEN @ \cup {e.grant} ELSE @]
                         [] e.what = "end" \/ (e.what = "revoke" /\ StaysRevoked(e.id)) -> [t EXCEPT !.over = @ \cup {e.id}]
                         [] OTHER -> t
  /\ UNCHANGED <<used, ended, leases, code, vault, budget>>

\* What the roll back takes from the memory.
Loses(before) ==
  (store.memory.used \ before.used) \cup (store.memory.ended \ before.ended)
  \cup {g \in Grant : before.grants[g] # store.memory.grants[g]}
  \cup (IF before.pairing # store.memory.pairing \/ before.platform # store.memory.platform THEN 1..store.memory.pairing.id ELSE {})

SaveFails ==
  /\ Spend("faults") /\ saves # <<>>
  /\ LET e == Head(saves)
         lost == e.what = "registration"   \* which revokes the current code
         memory == CASE e.what = "other" -> e.before
                     [] lost -> [store.memory EXCEPT !.pairing = Revoked, !.platform = 0]
                     [] OTHER -> store.memory
     IN /\ saves' = Tail(saves) \o IF lost THEN <<For("quiet", code.id)>> ELSE <<>>
        /\ store' = [store EXCEPT !.memory = memory, !.writing = IF Len(saves) = 1 THEN memory ELSE store.memory]
        /\ code' = IF lost THEN Revoked ELSE code
        /\ trail' = CASE e.what = "other" -> [trail EXCEPT !.undone = @ \cup Loses(e.before)]
                      [] lost -> [trail EXCEPT !.dead = @ \cup {code.id}]
                      [] OTHER -> trail
        /\ attempts' = IF lost \/ e.what = "code" THEN [attempts EXCEPT ![e.id] = "failed"] ELSE attempts
  /\ UNCHANGED <<used, ended, sockets, leases, vault>>

\* Another part of the state is saved.
OtherSaves ==
  /\ Spend("others") /\ Save(store.memory, For("other", 0))
  /\ UNCHANGED <<used, ended, sockets, leases, code, attempts, vault, trail>>

(***************************************************************************)
(* Tokens, grants and sessions.                                             *)
(***************************************************************************)
\* Faulty variant: what was used is looked up on the disk.
UsedOnDisk(t) == t \in store.disk.used
Known(t) == t \in store.memory.used \cup (used \cap Proof)

Marked(t) == [store.memory EXCEPT !.used = @ \cup {t}]

UsesNonce(t, g) ==
  /\ Spend("tokens") /\ store.memory.grants[g] = "valid" /\ ~Known(t)
  /\ Save(Marked(t), [For("nonce", t) EXCEPT !.grant = g])
  /\ UNCHANGED <<used, ended, sockets, leases, code, attempts, vault, trail>>

UsesProof(t) ==
  /\ Spend("tokens") /\ ~Known(t)
  /\ used' = used \cup {t}
  /\ Save(Marked(t), For("proof", t))
  /\ UNCHANGED <<ended, sockets, leases, code, attempts, vault, trail>>

Pruned(t) == t \in used /\ used' = used \ {t} /\ UNCHANGED <<store, saves, ended, sockets, leases, code, attempts, vault, budget, trail>>

\* enroll, also of a grant that exists: it is valid again.
Enrols(g) ==
  /\ Spend("grants")
  /\ Save([store.memory EXCEPT !.grants[g] = "valid"], For("enroll", g))
  /\ trail' = [trail EXCEPT !.over = @ \ {g}]
  /\ UNCHANGED <<used, ended, sockets, leases, code, attempts, vault>>

Revokes(g) ==
  /\ Spend("grants") /\ store.memory.grants[g] # "none"
  /\ Save([store.memory EXCEPT !.grants[g] = "revoked"], For("revoke", g))
  /\ UNCHANGED <<used, ended, sockets, leases, code, attempts, vault, trail>>

Accept(id) == IF id \in trail.over THEN [trail EXCEPT !.late = @ \cup {id}] ELSE trail

\* A request, or a socket that stays, of an operator.
Operates(s) ==
  /\ s \notin ended
  /\ \E stays \in BOOLEAN : sockets' = Tracked(s, stays)
  /\ trail' = Accept(s)
  /\ UNCHANGED <<store, saves, used, ended, leases, code, attempts, vault, budget>>

\* Faulty variant: the session is only saved as ended.
EndedBySave(s) == ended
EndedNow(s) == ended \cup {s}

EndsSession(s) ==
  /\ Spend("sessions")
  /\ ended' = EndedNow(s)
  /\ Save([store.memory EXCEPT !.ended = @ \cup {s}], For("end", s))
  /\ UNCHANGED <<used, sockets, leases, code, attempts, vault, trail>>

(***************************************************************************)
(* Support leases.                                                          *)
(***************************************************************************)
LeaseOnly == UNCHANGED <<store, saves, used, ended, sockets, code, attempts, vault>>

\* The browser's cookie names a lease that is kept.
Principal(l) == leases[l].kept

LeaseIssued(l) ==
  /\ Spend("leases") /\ ~leases[l].kept /\ l \notin trail.over
  /\ leases' = [leases EXCEPT ![l].kept = TRUE]
  /\ LeaseOnly /\ UNCHANGED trail

\* Within five seconds of a check the lease is good, then the platform is asked.
LeaseUsed(l) == Principal(l) /\ trail' = Accept(l) /\ LeaseOnly /\ UNCHANGED <<leases, budget>>
LeaseChecked(l) == Principal(l) /\ leases[l].checks < 2 /\ leases' = [leases EXCEPT ![l].checks = @ + 1] /\ LeaseOnly /\ UNCHANGED <<trail, budget>>

\* Active, or no answer: accepted if the lease is still kept.
LeaseGood(l) ==
  /\ leases[l].checks > 0
  /\ leases' = [leases EXCEPT ![l].checks = @ - 1]
  /\ trail' = IF Principal(l) THEN Accept(l) ELSE trail
  /\ LeaseOnly /\ UNCHANGED budget

\* Not active any more, expired, or revoked by its user: the platform is told first.
LeaseEnds(l) ==
  /\ leases[l].endings < 2
  /\ \E checked \in {n \in 0..1 : n <= leases[l].checks /\ (n = 0 => Principal(l))} :
       leases' = [leases EXCEPT ![l].checks = @ - checked, ![l].endings = @ + 1]
  /\ LeaseOnly /\ UNCHANGED <<trail, budget>>
LeaseEnded(l) ==
  /\ leases[l].endings > 0
  /\ leases' = [leases EXCEPT ![l].endings = @ - 1, ![l].kept = FALSE]
  /\ trail' = [trail EXCEPT !.over = @ \cup {l}]
  /\ LeaseOnly /\ UNCHANGED budget

(***************************************************************************)
(* The vault.                                                               *)
(***************************************************************************)
\* set: the records change at once; what is written is taken then, not in its turn.
Set(n, v, by) ==
  vault' = [vault EXCEPT !.memory[n] = v, !.queue = IF vault.stuck THEN @ ELSE Append(@, [content |-> [vault.memory EXCEPT ![n] = v], by |-> by, name |-> n])]

SetsSecret(n) ==
  /\ Spend("secrets")
  /\ Set(n, vault.memory[n] + 1, "user")
  /\ trail' = [trail EXCEPT !.mixed = @ \/ vault.clearing]
  /\ UNCHANGED <<store, saves, used, ended, sockets, leases, code, attempts>>

\* Faulty variant: writes do not wait for each other.
AnyTurn == 1..Len(vault.queue)
Turn == {i \in AnyTurn : i = 1}

VaultWritten ==
  \E i \in Turn :
    LET w == vault.queue[i]
    IN /\ vault' = [vault EXCEPT !.disk = w.content, !.queue = RemoveAt(@, i)]
       /\ trail' = [trail EXCEPT !.told[w.name] = w.content[w.name]]
       /\ IF w.by = "code" THEN Save([store.memory EXCEPT !.pairing = code, !.platform = 0], For("code", w.name)) ELSE UNCHANGED <<store, saves>>
       /\ UNCHANGED <<used, ended, sockets, leases, code, attempts, budget>>

\* Every write that waits behind a failed one is rejected, and every later one.
VaultFails ==
  /\ Spend("faults") /\ vault.queue # <<>>
  /\ vault' = [vault EXCEPT !.queue = <<>>, !.stuck = TRUE]
  /\ attempts' = [c \in Code |-> IF \E w \in Range(vault.queue) : w.by = "code" /\ w.name = c THEN "failed" ELSE attempts[c]]
  /\ UNCHANGED <<store, saves, used, ended, sockets, leases, code, trail>>

\* The factory reset: clearAll passes the queue, then the store.
Clears ==
  /\ Spend("resets") /\ ~vault.clearing
  /\ vault' = [vault EXCEPT !.memory = NoSecrets, !.clearing = TRUE]
  /\ trail' = [trail EXCEPT !.mixed = @ \/ vault.queue # <<>>, !.undone = @ \cup Code]
  /\ UNCHANGED <<store, saves, used, ended, sockets, leases, code, attempts>>
Cleared ==
  /\ vault.clearing
  /\ vault' = [vault EXCEPT !.disk = NoSecrets, !.clearing = FALSE]
  /\ Save(Empty, For("reset", 0))
  /\ trail' = [trail EXCEPT !.told = NoSecrets, !.undone = @ \cup Loses(Empty)]
  /\ UNCHANGED <<used, ended, sockets, leases, code, attempts, budget>>

(***************************************************************************)
(* The provisioning code.                                                   *)
(***************************************************************************)
Issues(c) ==
  /\ Spend("codes") /\ attempts[c] = "none" /\ \A b \in 1..(c - 1) : attempts[b] # "none"
  /\ code' = [id |-> c, live |-> TRUE, failures |-> 0]
  /\ attempts' = [attempts EXCEPT ![c] = IF vault.stuck THEN "failed" ELSE "saving"]
  /\ Set(c, 1, "code")
  /\ trail' = [trail EXCEPT !.dead = @ \cup 1..(c - 1), !.mixed = @ \/ vault.clearing]
  /\ UNCHANGED <<store, saves, used, ended, sockets, leases>>

\* The platform's ids join whatever code is stored by now.
Registered(c) ==
  /\ attempts[c] = "registering"
  /\ attempts' = [attempts EXCEPT ![c] = "registered"]
  /\ Save([store.memory EXCEPT !.platform = c], For("registration", c))
  /\ trail' = [trail EXCEPT !.undone = @ \cup ({store.memory.pairing.id} \ {c})]
  /\ UNCHANGED <<used, ended, sockets, leases, code, vault, budget>>

\* A failed registration revokes whatever code is current by now.
RegistrationFails(c) ==
  /\ Spend("faults") /\ attempts[c] = "registering"
  /\ attempts' = [attempts EXCEPT ![c] = "failed"]
  /\ code' = Revoked
  /\ Persist(Revoked)
  /\ trail' = [trail EXCEPT !.dead = @ \cup {c}, !.undone = IF code.id # c THEN @ \cup {code.id} ELSE @]
  /\ UNCHANGED <<used, ended, sockets, leases, vault>>

\* Cancelled by the setup page, redeemed, or tried with a wrong code.
Closes(next) ==
  /\ Spend("codes") /\ code.live
  /\ code' = next
  /\ Persist(next)
  /\ trail' = IF next.live THEN [trail EXCEPT !.undone = @ \cup {code.id}] ELSE [trail EXCEPT !.dead = @ \cup {code.id}]
  /\ UNCHANGED <<used, ended, sockets, leases, attempts, vault>>
Ends == Closes(Revoked)
Mistakes == Closes([id |-> code.id, live |-> code.failures + 1 < MaxFailures, failures |-> code.failures + 1])

(***************************************************************************)
(* Restart.                                                                 *)
(***************************************************************************)
\* Faulty variant: the code comes back without the marks of its end.
RestoredAnew == [store.disk.pairing EXCEPT !.live = @ \/ store.disk.pairing.id # 0]
Restored == IF store.disk.pairing.id # 0 /\ vault.disk[store.disk.pairing.id] # 0 THEN store.disk.pairing ELSE NoCode

Restarts ==
  /\ Spend("crashes")
  /\ store' = [memory |-> store.disk, disk |-> store.disk, writing |-> store.disk] /\ saves' = <<>>
  /\ used' = store.disk.used \cap Proof
  /\ ended' = store.disk.ended
  /\ sockets' = {}
  /\ leases' = [l \in Lease |-> [kept |-> FALSE, checks |-> 0, endings |-> 0]]
  /\ code' = Restored
  /\ attempts' = [c \in Code |-> IF attempts[c] \in {"none", "shown"} THEN attempts[c] ELSE "failed"]
  /\ vault' = [memory |-> vault.disk, disk |-> vault.disk, queue |-> <<>>, stuck |-> FALSE, clearing |-> FALSE]
  /\ trail' = [trail EXCEPT !.dead = trail.gone]

Next ==
  \/ Saved \/ SaveFails \/ OtherSaves
  \/ \E t \in Nonce, g \in Grant : UsesNonce(t, g)
  \/ \E t \in Proof : UsesProof(t) \/ Pruned(t)
  \/ \E g \in Grant : Enrols(g) \/ Revokes(g)
  \/ \E s \in Session : Operates(s) \/ EndsSession(s)
  \/ \E l \in Lease : LeaseIssued(l) \/ LeaseUsed(l) \/ LeaseChecked(l) \/ LeaseGood(l) \/ LeaseEnds(l) \/ LeaseEnded(l)
  \/ \E n \in Secret : SetsSecret(n)
  \/ VaultWritten \/ VaultFails \/ Clears \/ Cleared
  \/ \E c \in Code : Issues(c) \/ Registered(c) \/ RegistrationFails(c)
  \/ Ends \/ Mistakes
  \/ Restarts

Spec == Init /\ [][Next]_vars

(***************************************************************************)
(* Properties.                                                              *)
(***************************************************************************)
\* offlineLanAuthorizer.js:99-102, stepUpProofVerifier.js:34-44: a nonce or proof is
\* accepted once, also by requests at the same time and across restarts.  Excused are
\* marks that the roll back of another save, or a factory reset, took away.
UsedOnce == \A t \in Token : trail.accepted[t] <= 1 \/ t \in trail.undone

\* server.js:1126-1172, 286-308: what was revoked is not accepted once that was
\* answered, and keeps no socket, also after a restart.  Excused as above.
RevokedStays ==
  /\ trail.late \subseteq trail.undone
  /\ sockets \cap trail.over \subseteq trail.undone

\* secretVault.js:64-89: a secret whose set was answered is on the disk until it is set
\* again or cleared, and what was cleared stays away.  Excused are sets under way while
\* everything is cleared.
SecretsKept == trail.mixed \/ \A n \in Secret : vault.disk[n] = trail.told[n]

\* provisioningPairing.js:22-126: a code that was revoked, redeemed or replaced is not
\* live again, also after a restart once that was saved; and a code that was shown stays
\* good, with the platform's ids of its registration.  Excused are codes of setup
\* requests at the same time, wrong codes, roll backs and factory resets.
CodeEnds ==
  /\ code.live => code.id \notin trail.dead \/ code.id \in trail.undone
  /\ \A c \in Code : attempts[c] = "shown" => c \in trail.dead \cup trail.undone
                                             \/ (code.id = c /\ code.live /\ store.memory.platform = c)
=============================================================================
