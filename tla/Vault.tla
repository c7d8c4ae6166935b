------------------------------- MODULE Vault -------------------------------
(***************************************************************************)
(* Custody of one vault field (src/lib/vault).  A seal encrypts the secret *)
(* with a fresh key and leaves that key in two places: the owner's         *)
(* envelope, one row per field, and a delegation grant from which the node *)
(* decrypts.  Grants that stop being active lose their key material.       *)
(*                                                                         *)
(* A grant has a subject and a grantee.  sealAndStoreV2, which rotation    *)
(* uses too, grants from the node to itself, sealAndGrantStaticSecret from *)
(* a principal to a connector's app, and each replaces the active grant of *)
(* its own pair only; entry and envelope are the field's, whoever seals.   *)
(*                                                                         *)
(* Seals, answers of the owner agent, revocations and expiry sweeps are    *)
(* requests to one server whose statements interleave.  In tier 0 the node *)
(* grants to itself as the last steps of a seal; in tier 1 it queues a     *)
(* request that an external owner agent answers.                           *)
(*                                                                         *)
(* A key is named by the seal that made it.  The keyId of the source names *)
(* the node's signing key, is the same for every seal, and so is left out. *)
(*                                                                         *)
(* Before some definitions stands a deliberately wrong variant, used       *)
(* nowhere in the modules; README.md, `Mutants', lists them.               *)
(***************************************************************************)
EXTENDS Naturals, FiniteSets

CONSTANTS Seals,    \* calls of sealAndStoreV2 or sealAndGrantStaticSecret
          Answers,  \* POSTs of the owner agent to delegation/grant
          Erasers,  \* calls of delegation/revoke and of the expiry sweep
          NoKey,    \* no entry, no envelope, or erased key material
          Pairs,    \* who grants the field to whom: <<subject, grantee>>
          Node,     \* the node's own DID
          Tiers,    \* subset of {0, 1}: is the owner agent external?
          Overlaps, \* subset of BOOLEAN: may seals of the field overlap?
          Faults    \* subset of {"throw"}

Jobs   == Seals \cup Answers \cup Erasers
Grants == Seals \cup Answers  \* a grant is named by the job that inserts it

ASSUME VaultAssumption ==
    /\ Seals \cap Answers = {} /\ Seals \cap Erasers = {} /\ Answers \cap Erasers = {}
    /\ NoKey \notin Jobs
    /\ <<Node, Node>> \in Pairs
    /\ Tiers \subseteq {0, 1}
    /\ Overlaps \subseteq BOOLEAN
    /\ Faults \subseteq {"throw"}

VARIABLES
    tier,      \* of this deployment
    overlap,   \* may a seal of the field start while another is in progress?
    entry,     \* the key of the latest entry in the vault file
    envelope,  \* the key in the field's owner envelope
    pair,      \* the subject and the grantee of each delegation grant
    status,    \* of each delegation grant
    wrapped,   \* the key each grant wraps
    age,       \* how far each grant is from its expiry
    request,   \* the grant request each seal queued
    offer,     \* what the owner agent read before it answers
    pc,        \* where each job is
    todo,      \* the grants whose key material a job has still to erase
    dead       \* jobs that threw

vars == <<tier, overlap, entry, envelope, pair, status, wrapped, age, request, offer, pc,
          todo, dead>>
stored == <<entry, envelope, pair, status, wrapped, age, request>>

Keys == Seals \cup {NoKey}

\* The pairs that the two ways to seal a field grant for.
Self   == <<Node, Node>>
Static == {p \in Pairs : Node \notin {p[1], p[2]}}

PCs  == {"idle", "sealed", "enveloped", "offered", "resolved", "erasing",
         "collided", "retrying", "granted", "done"}

TypeOK ==
    /\ tier \in {0, 1}
    /\ overlap \in BOOLEAN
    /\ entry \in Keys
    /\ envelope \in Keys
    /\ pair \in [Grants -> Pairs]
    /\ status \in [Grants -> {"none", "active", "superseded", "revoked"}]
    /\ wrapped \in [Grants -> Keys]
    /\ age \in [Grants -> {"fresh", "due", "expired"}]
    /\ request \in [Seals -> {"none", "pending", "fulfilled", "expired"}]
    /\ offer \in [Answers -> [key : Keys, request : Keys]]
    /\ pc \in [Jobs -> PCs]
    /\ todo \in [Jobs -> SUBSET Grants]
    /\ dead \subseteq Jobs

Init ==
    /\ tier \in Tiers
    /\ overlap \in Overlaps
    /\ entry = NoKey
    /\ envelope = NoKey
    /\ pair = [g \in Grants |-> Self]
    /\ status = [g \in Grants |-> "none"]
    /\ wrapped = [g \in Grants |-> NoKey]
    /\ age = [g \in Grants |-> "fresh"]
    /\ request = [s \in Seals |-> "none"]
    /\ offer = [a \in Answers |-> [key |-> NoKey, request |-> NoKey]]
    /\ pc = [j \in Jobs |-> "idle"]
    /\ todo = [j \in Jobs |-> {}]
    /\ dead = {}

-----------------------------------------------------------------------------
At(j, place)   == j \notin dead /\ pc[j] = place
Goto(j, place) == pc' = [pc EXCEPT ![j] = place]
Busy(j)        == j \notin dead /\ pc[j] \notin {"idle", "done"}

Active      == {g \in Grants : status[g] = "active"}
ActiveOf(p) == {g \in Active : pair[g] = p}
From(did)   == {g \in Active : pair[g][1] = did}
To(did)     == {g \in Active : pair[g][2] = did}

(* Sealing. *)

\* vaultService.set: the entry replaces the field's latest one, whatever pair that
\* one was sealed for.
SetEntry(s) ==
    /\ At(s, "idle")
    /\ overlap \/ \A t \in Seals : ~Busy(t)
    /\ entry' = s
    /\ \E p \in {Self} \cup Static : pair' = [pair EXCEPT ![s] = p]
    /\ Goto(s, "sealed")
    /\ UNCHANGED <<tier, overlap, envelope, status, wrapped, age, request, offer, todo, dead>>

\* writeOwnerEnvelope: one row per field, upserted.
KeepFirstEnvelope(s) ==
    /\ At(s, "sealed")
    /\ envelope' = IF envelope = NoKey THEN s ELSE envelope
    /\ Goto(s, "enveloped")
    /\ UNCHANGED <<tier, overlap, entry, pair, status, wrapped, age, request, offer, todo, dead>>

WriteEnvelope(s) ==
    /\ At(s, "sealed")
    /\ envelope' = s
    /\ Goto(s, "enveloped")
    /\ UNCHANGED <<tier, overlap, entry, pair, status, wrapped, age, request, offer, todo, dead>>

\* Tier 1: the field key goes to the owner agent; the active grant stays.
QueueRequest(s) ==
    /\ tier = 1 /\ At(s, "enveloped")
    /\ request' = [request EXCEPT ![s] = "pending"]
    /\ Goto(s, "done")
    /\ UNCHANGED <<tier, overlap, entry, envelope, pair, status, wrapped, age, offer, todo, dead>>

-----------------------------------------------------------------------------
(* Taking grants out of `active' and erasing their keys. *)

\* One UPDATE ... RETURNING; what it returns is erased grant by grant.
Retire(j, gs, reason, next) ==
    /\ status' = [g \in Grants |-> IF g \in gs THEN reason ELSE status[g]]
    /\ todo' = [todo EXCEPT ![j] = gs]
    /\ Goto(j, next)
    /\ UNCHANGED <<tier, overlap, entry, envelope, pair, wrapped, age, request, offer, dead>>

\* supersedeGrants, before the insert and after an insert that collided: the active
\* grant of the same pair.
SupersedeOnCollision(j) ==
    \/ /\ \/ tier = 0 /\ j \in Seals /\ At(j, "enveloped")
          \/ At(j, "resolved")
       /\ Retire(j, {}, "superseded", "erasing")
    \/ /\ At(j, "collided")
       /\ Retire(j, ActiveOf(pair[j]), "superseded", "retrying")

Supersede(j) ==
    \/ /\ \/ tier = 0 /\ j \in Seals /\ At(j, "enveloped")
          \/ At(j, "resolved")
       /\ Retire(j, ActiveOf(pair[j]), "superseded", "erasing")
    \/ /\ At(j, "collided")
       /\ Retire(j, ActiveOf(pair[j]), "superseded", "retrying")

\* delegation/revoke takes what the node has granted, revokeStaticSecretGrant what an
\* app was granted, the disconnect of a connector all grants of the field.
Revocable == {From(Node), Active} \cup {To(p[2]) : p \in Static}

RevokeKeepsKeys(r) ==
    /\ At(r, "idle")
    /\ \E gs \in Revocable :
         gs # {} /\ status' = [g \in Grants |-> IF g \in gs THEN "revoked" ELSE status[g]]
    /\ Goto(r, "done")
    /\ UNCHANGED <<tier, overlap, entry, envelope, pair, wrapped, age, request, offer, todo, dead>>

Revoke(r) ==
    /\ At(r, "idle")
    /\ \E gs \in Revocable : gs # {} /\ Retire(r, gs, "revoked", "erasing")

\* cron/vault-grant-expiry.
SweepMarksExpired(r) ==
    /\ At(r, "idle")
    /\ \E g \in Active : age[g] = "expired"
    /\ Retire(r, {g \in Active : age[g] = "expired"}, "expired", "erasing")

SweepExpired(r) ==
    /\ At(r, "idle")
    /\ \E g \in Active : age[g] = "expired"
    /\ Retire(r, {g \in Active : age[g] = "expired"}, "revoked", "erasing")

\* eraseGrantKeyMaterial for one grant, if the field has an owner envelope.
Erase(j, g) ==
    /\ At(j, "erasing") \/ At(j, "retrying")
    /\ g \in todo[j]
    /\ wrapped' = [wrapped EXCEPT ![g] = IF envelope = NoKey THEN @ ELSE NoKey]
    /\ todo' = [todo EXCEPT ![j] = @ \ {g}]
    /\ UNCHANGED <<tier, overlap, entry, envelope, pair, status, age, request, offer, pc, dead>>

EraserReturns(r) ==
    /\ r \in Erasers /\ At(r, "erasing") /\ todo[r] = {}
    /\ Goto(r, "done")
    /\ UNCHANGED <<tier, overlap, offer, todo, dead>> /\ UNCHANGED stored

-----------------------------------------------------------------------------
(* Inserting the new grant.  A unique index allows a pair one active grant. *)

Inserting(j) == j \in Grants /\ (At(j, "erasing") \/ At(j, "retrying")) /\ todo[j] = {}
KeyOf(j)     == IF j \in Seals THEN j ELSE offer[j].key

Insert(j) ==
    /\ Inserting(j) /\ ActiveOf(pair[j]) = {}
    /\ status' = [status EXCEPT ![j] = "active"]
    /\ wrapped' = [wrapped EXCEPT ![j] = KeyOf(j)]
    /\ Goto(j, IF j \in Answers /\ offer[j].request # NoKey THEN "granted" ELSE "done")
    /\ UNCHANGED <<tier, overlap, entry, envelope, pair, age, request, offer, todo, dead>>

\* Only a seal's insert heals itself, and only once (insertActiveGrant).
Collide(j) ==
    /\ Inserting(j) /\ ActiveOf(pair[j]) # {}
    /\ IF j \in Seals /\ pc[j] = "erasing"
       THEN Goto(j, "collided") /\ UNCHANGED dead
       ELSE dead' = dead \cup {j} /\ UNCHANGED pc
    /\ UNCHANGED <<tier, overlap, offer, todo>> /\ UNCHANGED stored

-----------------------------------------------------------------------------
(* The owner agent.  It polls two worklists and answers later. *)

\* grants/pending: the request names the pair to sign for.
ReadRequest(a, s) ==
    /\ At(a, "idle") /\ request[s] = "pending"
    /\ offer' = [offer EXCEPT ![a] = [key |-> s, request |-> s]]
    /\ pair' = [pair EXCEPT ![a] = pair[s]]
    /\ Goto(a, "offered")
    /\ UNCHANGED <<tier, overlap, entry, envelope, status, wrapped, age, request, todo, dead>>

\* grants/renewable, for the node and whoever was ever granted the field: there is
\* no active grant, or the one that is read expires soon.
Known(did)     == did = Node \/ \E g \in Grants : status[g] # "none" /\ pair[g][2] = did
Renewable(did) == /\ envelope # NoKey /\ Known(did)
                  /\ To(did) = {} \/ \E g \in To(did) : age[g] # "fresh"

\* The list names the grantee; whose grant it is, is for the agent to say.
ReadEnvelope(a) ==
    /\ tier = 1 /\ At(a, "idle")
    /\ offer' = [offer EXCEPT ![a] = [key |-> envelope, request |-> NoKey]]
    /\ \E p \in Pairs : Renewable(p[2]) /\ pair' = [pair EXCEPT ![a] = p]
    /\ Goto(a, "offered")
    /\ UNCHANGED <<tier, overlap, entry, envelope, status, wrapped, age, request, todo, dead>>

\* resolveHandshake and resolveRenewal.
Resolves(a) ==
    IF offer[a].request # NoKey
    THEN request[offer[a].request] = "pending"
    ELSE entry # NoKey /\ envelope # NoKey /\ Known(pair[a][2])

Resolve(a) ==
    /\ At(a, "offered")
    /\ Goto(a, IF Resolves(a) THEN "resolved" ELSE "done")
    /\ UNCHANGED <<tier, overlap, offer, todo, dead>> /\ UNCHANGED stored

Fulfil(a) ==
    /\ At(a, "granted")
    /\ request' = [request EXCEPT ![offer[a].request] = "fulfilled"]
    /\ Goto(a, "done")
    /\ UNCHANGED <<tier, overlap, entry, envelope, pair, status, wrapped, age, offer, todo, dead>>

-----------------------------------------------------------------------------
\* deleteFromVault: a tombstone hides the field; its grants are left alone.
DeleteField ==
    /\ entry # NoKey
    /\ entry' = NoKey
    /\ UNCHANGED <<tier, overlap, envelope, pair, status, wrapped, age, request, offer, pc, todo, dead>>

\* Time passes for a grant, and for a request no one has answered.
GetsOlder(g) ==
    /\ g \in Active /\ age[g] # "expired"
    /\ age' = [age EXCEPT ![g] = IF @ = "fresh" THEN "due" ELSE "expired"]
    /\ UNCHANGED <<tier, overlap, entry, envelope, pair, status, wrapped, request, offer, pc, todo, dead>>

ExpireRequest(s) ==
    /\ request[s] = "pending"
    /\ request' = [request EXCEPT ![s] = "expired"]
    /\ UNCHANGED <<tier, overlap, entry, envelope, pair, status, wrapped, age, offer, pc, todo, dead>>

\* A statement throws, or the process dies: the job goes no further.
Throw(j) ==
    /\ "throw" \in Faults /\ Busy(j)
    /\ dead' = dead \cup {j}
    /\ UNCHANGED <<tier, overlap, offer, pc, todo>> /\ UNCHANGED stored

Progress(j) ==
    \/ j \in Seals /\ (WriteEnvelope(j) \/ QueueRequest(j))
    \/ Supersede(j)
    \/ \E g \in Grants : Erase(j, g)
    \/ EraserReturns(j)
    \/ Insert(j) \/ Collide(j)
    \/ j \in Answers /\ (Resolve(j) \/ Fulfil(j))

Start ==
    \/ \E s \in Seals : SetEntry(s)
    \/ \E r \in Erasers : Revoke(r) \/ SweepExpired(r)
    \/ \E a \in Answers : ReadEnvelope(a) \/ \E s \in Seals : ReadRequest(a, s)

Environment ==
    \/ DeleteField
    \/ \E g \in Grants : GetsOlder(g)
    \/ \E s \in Seals : ExpireRequest(s)
    \/ \E j \in Jobs : Throw(j)

Next == (\E j \in Jobs : Progress(j)) \/ Start \/ Environment

Spec == Init /\ [][Next]_vars

-----------------------------------------------------------------------------
(* Properties.                                                             *)

\* The owner's envelope tracks the current field key (index.ts:95): when seals of
\* the field do not overlap, once the seal of the latest entry is past its
\* envelope step the envelope holds that entry's key, whatever the owner agent,
\* revocations, sweeps and seals that died have done, so the owner can re-issue
\* every grant that is lost.
EnvelopeTracksEntry ==
    ~overlap /\ entry # NoKey /\ pc[entry] # "sealed" => envelope = entry

\* In tier 0, when seals of the field do not overlap, the active grant of the pair
\* that the latest entry was sealed for opens it, unless the seal has not got to
\* superseding the grant before, or died before it did: re-sealing orphans the old
\* ciphertext and the old grant together (index.ts:498).  An active grant of another
\* pair wraps an earlier key and opens nothing.
ActiveGrantOpensEntry ==
    tier = 0 /\ ~overlap /\ entry # NoKey =>
        \A g \in ActiveOf(pair[entry]) :
            wrapped[g] = entry \/ pc[entry] \in {"sealed", "enveloped"}

\* Revocation, expiry and superseding have real effect (index.ts:157): a grant
\* that left `active' has lost its key material, or a job has still to erase it
\* (a job that died never will, and no other job looks at the grant again).
RetiredGrantIsErased ==
    \A g \in Grants :
        status[g] \in {"superseded", "revoked"} /\ wrapped[g] # NoKey
            => \E j \in Jobs : g \in todo[j]

=============================================================================
