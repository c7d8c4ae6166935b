----------------------------- MODULE VaultProofs -----------------------------
(***************************************************************************)
(* Theorems about Vault, for any number of seals, answers and erasers, in  *)
(* both tiers and with any job dying: every key that leaves custody is     *)
(* erased, and when seals do not overlap the envelope and the active grant *)
(* of the latest entry's pair hold the key of that entry.                  *)
(***************************************************************************)
EXTENDS Vault, TLAPS

USE DEF stored

(* The actions by name: every lemma about a step of Next has one case each. *)
SealStep(s)   == SetEntry(s) \/ WriteEnvelope(s) \/ QueueRequest(s)
RetireStep(j) == Supersede(j) \/ (j \in Erasers /\ (Revoke(j) \/ SweepExpired(j)))
AnswerStep(a) == ReadEnvelope(a) \/ Resolve(a) \/ Fulfil(a) \/ \E s \in Seals : ReadRequest(a, s)

LEMMA NextIsAStep ==
    ASSUME Next
    PROVE  \/ \E s \in Seals : SealStep(s)
           \/ \E j \in Jobs : RetireStep(j) \/ EraserReturns(j) \/ Insert(j) \/ Collide(j)
                              \/ \E g \in Grants : Erase(j, g)
           \/ \E a \in Answers : AnswerStep(a)
           \/ Environment
BY DEF Next, Start, Progress, SealStep, RetireStep, AnswerStep, Jobs

\* Whoever retires grants: they were active, and the job goes on to erase them.
LEMMA RetireStepRetires ==
    ASSUME NEW j \in Jobs, RetireStep(j)
    PROVE  \E gs \in SUBSET Active, reason \in {"superseded", "revoked"},
              next \in {"erasing", "retrying"} :
               /\ Retire(j, gs, reason, next)
               /\ j \in Seals => /\ gs = ActiveOf(pair[j]) /\ j \notin dead
                                 /\ pc[j] \in {"enveloped", "resolved", "collided"}
               /\ pc[j] \in {"idle", "enveloped", "resolved", "collided"}
<1>1. CASE Supersede(j)
  <2>1. ActiveOf(pair[j]) \in SUBSET Active
    BY DEF ActiveOf
  <2> QED BY <1>1, <2>1 DEF Supersede, At
<1>2. CASE j \in Erasers /\ Revoke(j)
  <2>1. PICK gs \in Revocable : gs # {} /\ Retire(j, gs, "revoked", "erasing")
    BY <1>2 DEF Revoke
  <2>2. gs \in SUBSET Active
    BY DEF Revocable, From, To
  <2>3. pc[j] = "idle" /\ j \notin Seals
    BY <1>2, VaultAssumption DEF Revoke, At
  <2> QED BY <2>1, <2>2, <2>3
<1>3. CASE j \in Erasers /\ SweepExpired(j)
  <2> DEFINE gs == {g \in Active : age[g] = "expired"}
  <2>1. gs \in SUBSET Active
    OBVIOUS
  <2>2. Retire(j, gs, "revoked", "erasing") /\ pc[j] = "idle" /\ j \notin Seals
    BY <1>3, VaultAssumption DEF SweepExpired, At
  <2> HIDE DEF gs
  <2> QED BY <2>1, <2>2
<1> QED BY <1>1, <1>2, <1>3 DEF RetireStep

-----------------------------------------------------------------------------
(* Type correctness.                                                       *)

LEMMA PairsSealed == Self \in Pairs /\ Static \subseteq Pairs
BY VaultAssumption DEF Self, Static

LEMMA InitType == Init => TypeOK
BY VaultAssumption, PairsSealed DEF Init, TypeOK, Keys, PCs

LEMMA SealStepType ==
    ASSUME TypeOK, NEW s \in Seals, SealStep(s)
    PROVE  TypeOK'
<1>0. s \in Jobs /\ s \in Keys
  BY DEF Jobs, Keys
<1>1. CASE SetEntry(s)
  <2>1. pair' \in [Grants -> Pairs]
    BY <1>1, PairsSealed DEF SetEntry, TypeOK
  <2> QED BY <1>0, <1>1, <2>1 DEF SetEntry, Goto, TypeOK, PCs
<1>2. CASE WriteEnvelope(s)
  BY <1>0, <1>2 DEF WriteEnvelope, Goto, TypeOK, PCs
<1>3. CASE QueueRequest(s)
  BY <1>0, <1>3 DEF QueueRequest, Goto, TypeOK, PCs
<1> QED BY <1>1, <1>2, <1>3 DEF SealStep

LEMMA RetireStepType ==
    ASSUME TypeOK, NEW j \in Jobs, RetireStep(j)
    PROVE  TypeOK'
<1>1. PICK gs \in SUBSET Active, reason \in {"superseded", "revoked"},
           next \in {"erasing", "retrying"} : Retire(j, gs, reason, next)
  BY RetireStepRetires
<1>2. gs \in SUBSET Grants
  BY DEF Active
<1>3. status' \in [Grants -> {"none", "active", "superseded", "revoked"}]
  BY <1>1 DEF Retire, TypeOK
<1>4. todo' \in [Jobs -> SUBSET Grants] /\ pc' \in [Jobs -> PCs]
  BY <1>1, <1>2 DEF Retire, Goto, TypeOK, PCs
<1> QED BY <1>1, <1>3, <1>4 DEF Retire, TypeOK

LEMMA EraseType ==
    ASSUME TypeOK, NEW j \in Jobs, NEW g \in Grants, Erase(j, g)
    PROVE  TypeOK'
<1>1. wrapped' \in [Grants -> Keys]
  BY DEF Erase, TypeOK, Keys
<1>2. todo' \in [Jobs -> SUBSET Grants]
  BY DEF Erase, TypeOK
<1> QED BY <1>1, <1>2 DEF Erase, TypeOK

LEMMA KeyOfIsAKey ==
    ASSUME TypeOK, NEW j \in Grants
    PROVE  KeyOf(j) \in Keys
<1>1. CASE j \in Seals
  BY <1>1 DEF KeyOf, Keys
<1>2. CASE j \notin Seals
  <2>1. offer[j] \in [key : Keys, request : Keys]
    BY <1>2 DEF TypeOK, Grants
  <2> QED BY <1>2, <2>1 DEF KeyOf
<1> QED BY <1>1, <1>2

LEMMA InsertType ==
    ASSUME TypeOK, NEW j \in Jobs, EraserReturns(j) \/ Insert(j) \/ Collide(j)
    PROVE  TypeOK'
<1>1. CASE EraserReturns(j)
  BY <1>1 DEF EraserReturns, Goto, TypeOK, PCs
<1>2. CASE Insert(j)
  <2>1. j \in Grants
    BY <1>2 DEF Insert, Inserting
  <2>2. wrapped' \in [Grants -> Keys]
    BY <1>2, <2>1, KeyOfIsAKey DEF Insert, TypeOK
  <2>3. status' \in [Grants -> {"none", "active", "superseded", "revoked"}]
    BY <1>2, <2>1 DEF Insert, TypeOK
  <2>4. pc' \in [Jobs -> PCs]
    BY <1>2 DEF Insert, Goto, TypeOK, PCs
  <2> QED BY <1>2, <2>2, <2>3, <2>4 DEF Insert, TypeOK
<1>3. CASE Collide(j)
  BY <1>3 DEF Collide, Goto, TypeOK, PCs
<1> QED BY <1>1, <1>2, <1>3

LEMMA AnswerStepType ==
    ASSUME TypeOK, NEW a \in Answers, AnswerStep(a)
    PROVE  TypeOK'
<1>0. a \in Jobs
  BY DEF Jobs
<1>1. CASE ReadEnvelope(a)
  <2>1. pair' \in [Grants -> Pairs]
    BY <1>1 DEF ReadEnvelope, TypeOK
  <2> QED BY <1>0, <1>1, <2>1 DEF ReadEnvelope, Goto, TypeOK, PCs, Keys
<1>2. ASSUME NEW s \in Seals, ReadRequest(a, s) PROVE TypeOK'
  <2>1. pair' \in [Grants -> Pairs]
    BY <1>2 DEF ReadRequest, TypeOK, Grants
  <2> QED BY <1>0, <1>2, <2>1 DEF ReadRequest, Goto, TypeOK, PCs, Keys
<1>3. CASE Resolve(a)
  BY <1>0, <1>3 DEF Resolve, Goto, TypeOK, PCs
<1>4. CASE Fulfil(a)
  BY <1>0, <1>4 DEF Fulfil, Goto, TypeOK, PCs
<1> QED BY <1>1, <1>2, <1>3, <1>4 DEF AnswerStep

LEMMA EnvironmentType ==
    ASSUME TypeOK, Environment
    PROVE  TypeOK'
<1>1. CASE DeleteField
  BY <1>1 DEF DeleteField, TypeOK, Keys
<1>2. ASSUME NEW g \in Grants, GetsOlder(g) PROVE TypeOK'
  BY <1>2 DEF GetsOlder, TypeOK
<1>3. ASSUME NEW s \in Seals, ExpireRequest(s) PROVE TypeOK'
  BY <1>3 DEF ExpireRequest, TypeOK
<1>4. ASSUME NEW j \in Jobs, Throw(j) PROVE TypeOK'
  BY <1>4 DEF Throw, TypeOK
<1> QED BY <1>1, <1>2, <1>3, <1>4 DEF Environment

LEMMA NextType == TypeOK /\ [Next]_vars => TypeOK'
<1> SUFFICES ASSUME TypeOK, [Next]_vars PROVE TypeOK'
  OBVIOUS
<1>1. CASE UNCHANGED vars
  BY <1>1 DEF vars, TypeOK
<1>2. CASE Next
  BY <1>2, NextIsAStep, SealStepType, RetireStepType, EraseType, InsertType,
     AnswerStepType, EnvironmentType
<1> QED BY <1>1, <1>2

\* The variables keep the types of the tables' columns and the request stages.
THEOREM TypeCorrect == Spec => []TypeOK
BY InitType, NextType, PTL DEF Spec

-----------------------------------------------------------------------------
(* Retired grants are erased.  No key leaves a seal before the owner's     *)
(* envelope is written, so whoever erases finds an envelope; and a job has *)
(* nothing left to erase whenever it retires grants.                       *)

EnvelopeFirst ==
    envelope = NoKey =>
        /\ \A s \in Seals : pc[s] \in {"idle", "sealed"} /\ request[s] = "none"
        /\ \A a \in Answers : offer[a].key = NoKey /\ offer[a].request = NoKey
        /\ \A g \in Grants : wrapped[g] = NoKey

TodoOfErasers ==
    \A j \in Jobs : pc[j] \notin {"erasing", "retrying"} => todo[j] = {}

EraseInv == TypeOK /\ EnvelopeFirst /\ TodoOfErasers /\ RetiredGrantIsErased

LEMMA EraseInit == Init => EraseInv
BY InitType DEF Init, EraseInv, EnvelopeFirst, TodoOfErasers, RetiredGrantIsErased, Jobs

LEMMA SealStepErases ==
    ASSUME EraseInv, NEW s \in Seals, SealStep(s)
    PROVE  EnvelopeFirst' /\ TodoOfErasers' /\ RetiredGrantIsErased'
<1>0. s \in Jobs /\ s # NoKey /\ TypeOK /\ s \notin Answers
  BY VaultAssumption DEF Jobs, EraseInv
<1>1. CASE SetEntry(s)
  <2>1. pc' = [pc EXCEPT ![s] = "sealed"]
    BY <1>1 DEF SetEntry, Goto
  <2>2. EnvelopeFirst'
    BY <1>0, <1>1, <2>1 DEF SetEntry, EraseInv, EnvelopeFirst, TypeOK, Jobs
  <2>3. TodoOfErasers'
    BY <1>0, <1>1, <2>1 DEF SetEntry, At, EraseInv, TodoOfErasers, TypeOK
  <2> QED BY <1>1, <2>2, <2>3 DEF SetEntry, EraseInv, RetiredGrantIsErased
<1>2. CASE WriteEnvelope(s)
  <2>1. EnvelopeFirst'
    BY <1>0, <1>2 DEF WriteEnvelope, EnvelopeFirst
  <2>2. TodoOfErasers'
    BY <1>0, <1>2 DEF WriteEnvelope, At, Goto, EraseInv, TodoOfErasers, TypeOK
  <2> QED BY <1>2, <2>1, <2>2 DEF WriteEnvelope, EraseInv, RetiredGrantIsErased
<1>3. CASE QueueRequest(s)
  <2>1. envelope # NoKey
    BY <1>3 DEF QueueRequest, At, EraseInv, EnvelopeFirst
  <2>2. EnvelopeFirst'
    BY <1>3, <2>1 DEF QueueRequest, EnvelopeFirst
  <2>3. TodoOfErasers'
    BY <1>0, <1>3 DEF QueueRequest, At, Goto, EraseInv, TodoOfErasers, TypeOK
  <2> QED BY <1>3, <2>2, <2>3 DEF QueueRequest, EraseInv, RetiredGrantIsErased
<1> QED BY <1>1, <1>2, <1>3 DEF SealStep

LEMMA RetireStepErases ==
    ASSUME EraseInv, NEW j \in Jobs, RetireStep(j)
    PROVE  EnvelopeFirst' /\ TodoOfErasers' /\ RetiredGrantIsErased'
<1>1. PICK gs \in SUBSET Active, reason \in {"superseded", "revoked"},
           next \in {"erasing", "retrying"} :
               /\ Retire(j, gs, reason, next)
               /\ j \in Seals => pc[j] \in {"enveloped", "resolved", "collided"}
               /\ pc[j] \in {"idle", "enveloped", "resolved", "collided"}
  BY RetireStepRetires
<1>2. TypeOK /\ todo[j] = {}
  BY <1>1 DEF EraseInv, TodoOfErasers
<1>3. /\ pc' = [pc EXCEPT ![j] = next] /\ todo' = [todo EXCEPT ![j] = gs]
      /\ status' = [g \in Grants |-> IF g \in gs THEN reason ELSE status[g]]
      /\ UNCHANGED <<envelope, wrapped, request, offer>>
  BY <1>1 DEF Retire, Goto
<1>4. EnvelopeFirst'
  BY <1>1, <1>2, <1>3 DEF EraseInv, EnvelopeFirst, TypeOK, Jobs
<1>5. TodoOfErasers'
  BY <1>2, <1>3 DEF EraseInv, TodoOfErasers, TypeOK
<1>6. RetiredGrantIsErased'
  <2> SUFFICES ASSUME NEW g \in Grants, status'[g] \in {"superseded", "revoked"},
                      wrapped'[g] # NoKey
               PROVE  \E k \in Jobs : g \in todo'[k]
    BY DEF RetiredGrantIsErased
  <2>1. CASE g \in gs
    BY <1>2, <1>3, <2>1 DEF TypeOK
  <2>2. CASE g \notin gs
    <3>1. PICK k \in Jobs : g \in todo[k]
      BY <1>3, <2>2 DEF EraseInv, RetiredGrantIsErased
    <3> QED BY <1>2, <1>3, <3>1 DEF TypeOK
  <2> QED BY <2>1, <2>2
<1> QED BY <1>4, <1>5, <1>6

LEMMA EraseErases ==
    ASSUME EraseInv, NEW j \in Jobs, NEW g \in Grants, Erase(j, g)
    PROVE  EnvelopeFirst' /\ TodoOfErasers' /\ RetiredGrantIsErased'
<1>0. TypeOK
  BY DEF EraseInv
<1>1. wrapped' = [wrapped EXCEPT ![g] = NoKey]
  BY <1>0 DEF Erase, EraseInv, EnvelopeFirst, TypeOK
<1>2. todo' = [todo EXCEPT ![j] = todo[j] \ {g}] /\ UNCHANGED <<envelope, status, request, offer, pc>>
  BY DEF Erase
<1>3. EnvelopeFirst' /\ TodoOfErasers'
  BY <1>0, <1>1, <1>2 DEF EraseInv, EnvelopeFirst, TodoOfErasers, TypeOK
<1>4. RetiredGrantIsErased'
  BY <1>0, <1>1, <1>2 DEF EraseInv, RetiredGrantIsErased, TypeOK
<1> QED BY <1>3, <1>4

LEMMA InsertErases ==
    ASSUME EraseInv, NEW j \in Jobs, EraserReturns(j) \/ Insert(j) \/ Collide(j)
    PROVE  EnvelopeFirst' /\ TodoOfErasers' /\ RetiredGrantIsErased'
<1>0. TypeOK
  BY DEF EraseInv
<1>1. CASE EraserReturns(j)
  <2>1. j \notin Seals /\ todo[j] = {}
    BY <1>1, VaultAssumption DEF EraserReturns
  <2> QED BY <1>0, <1>1, <2>1 DEF EraserReturns, Goto, EraseInv, EnvelopeFirst, TodoOfErasers,
             RetiredGrantIsErased, TypeOK
<1>2. CASE Insert(j)
  <2> DEFINE next == IF j \in Answers /\ offer[j].request # NoKey THEN "granted" ELSE "done"
  <2>1. /\ j \in Grants /\ todo[j] = {} /\ pc[j] \in {"erasing", "retrying"}
        /\ status' = [status EXCEPT ![j] = "active"]
        /\ wrapped' = [wrapped EXCEPT ![j] = KeyOf(j)]
        /\ pc' = [pc EXCEPT ![j] = next]
        /\ UNCHANGED <<envelope, request, offer, todo>>
    BY <1>2 DEF Insert, Inserting, At, Goto
  <2>2. EnvelopeFirst'
    <3>1. SUFFICES ASSUME envelope = NoKey PROVE EnvelopeFirst'
      BY <2>1 DEF EnvelopeFirst
    <3>2. j \notin Seals
      BY <2>1, <3>1 DEF EraseInv, EnvelopeFirst
    <3>3. KeyOf(j) = NoKey
      BY <2>1, <3>1, <3>2 DEF KeyOf, EraseInv, EnvelopeFirst, Grants
    <3> HIDE DEF next
    <3> QED BY <1>0, <2>1, <3>2, <3>3 DEF EraseInv, EnvelopeFirst, TypeOK
  <2>3. TodoOfErasers'
    BY <1>0, <2>1 DEF EraseInv, TodoOfErasers, TypeOK
  <2>4. RetiredGrantIsErased'
    BY <1>0, <2>1 DEF EraseInv, RetiredGrantIsErased, TypeOK
  <2> QED BY <2>2, <2>3, <2>4
<1>3. CASE Collide(j)
  <2>1. /\ pc' = pc \/ (j \in Seals /\ pc[j] = "erasing" /\ pc' = [pc EXCEPT ![j] = "collided"])
        /\ todo[j] = {}
        /\ UNCHANGED <<envelope, status, wrapped, request, offer, todo>>
    BY <1>3 DEF Collide, Inserting, Goto
  <2>2. EnvelopeFirst'
    BY <1>0, <2>1 DEF EraseInv, EnvelopeFirst, TypeOK, Jobs
  <2>3. TodoOfErasers'
    BY <1>0, <2>1 DEF EraseInv, TodoOfErasers, TypeOK
  <2> QED BY <2>1, <2>2, <2>3 DEF EraseInv, RetiredGrantIsErased
<1> QED BY <1>1, <1>2, <1>3

LEMMA AnswerStepErases ==
    ASSUME EraseInv, NEW a \in Answers, AnswerStep(a)
    PROVE  EnvelopeFirst' /\ TodoOfErasers' /\ RetiredGrantIsErased'
<1>0. a \in Jobs /\ TypeOK /\ a \notin Seals
  BY VaultAssumption DEF Jobs, EraseInv
<1>1. /\ UNCHANGED <<envelope, status, wrapped, todo>>
      /\ \E next \in PCs : pc' = [pc EXCEPT ![a] = next]
      /\ pc[a] \notin {"erasing", "retrying"}
  BY DEF AnswerStep, ReadEnvelope, ReadRequest, Resolve, Fulfil, Goto, At, PCs
<1>2. TodoOfErasers' /\ RetiredGrantIsErased'
  BY <1>0, <1>1 DEF EraseInv, TodoOfErasers, RetiredGrantIsErased, TypeOK
<1>3. EnvelopeFirst'
  <2>1. SUFFICES ASSUME envelope = NoKey PROVE EnvelopeFirst'
    BY <1>1 DEF EnvelopeFirst
  <2>2. ~ReadEnvelope(a) /\ \A s \in Seals : ~ReadRequest(a, s)
    BY <2>1 DEF ReadEnvelope, Renewable, ReadRequest, EraseInv, EnvelopeFirst
  <2>3. offer' = offer
    BY <2>2 DEF AnswerStep, Resolve, Fulfil
  <2>4. request' = request
    <3>1. CASE Fulfil(a)
      <4>1. offer[a].request \notin Seals
        BY <2>1, VaultAssumption DEF EraseInv, EnvelopeFirst, Jobs
      <4> QED BY <1>0, <3>1, <4>1 DEF Fulfil, TypeOK
    <3> QED BY <2>2, <3>1 DEF AnswerStep, Resolve
  <2> QED BY <1>0, <1>1, <2>3, <2>4 DEF EraseInv, EnvelopeFirst, TypeOK
<1> QED BY <1>2, <1>3

LEMMA EnvironmentErases ==
    ASSUME EraseInv, Environment
    PROVE  EnvelopeFirst' /\ TodoOfErasers' /\ RetiredGrantIsErased'
<1>1. CASE DeleteField
  BY <1>1 DEF DeleteField, EraseInv, EnvelopeFirst, TodoOfErasers, RetiredGrantIsErased
<1>2. ASSUME NEW g \in Grants, GetsOlder(g)
      PROVE  EnvelopeFirst' /\ TodoOfErasers' /\ RetiredGrantIsErased'
  BY <1>2 DEF GetsOlder, EraseInv, EnvelopeFirst, TodoOfErasers, RetiredGrantIsErased
<1>3. ASSUME NEW s \in Seals, ExpireRequest(s)
      PROVE  EnvelopeFirst' /\ TodoOfErasers' /\ RetiredGrantIsErased'
  BY <1>3 DEF ExpireRequest, EraseInv, EnvelopeFirst, TodoOfErasers, RetiredGrantIsErased
<1>4. ASSUME NEW j \in Jobs, Throw(j)
      PROVE  EnvelopeFirst' /\ TodoOfErasers' /\ RetiredGrantIsErased'
  BY <1>4 DEF Throw, EraseInv, EnvelopeFirst, TodoOfErasers, RetiredGrantIsErased
<1> QED BY <1>1, <1>2, <1>3, <1>4 DEF Environment

LEMMA EraseNext == EraseInv /\ [Next]_vars => EraseInv'
<1> SUFFICES ASSUME EraseInv, [Next]_vars PROVE EraseInv'
  OBVIOUS
<1>1. TypeOK'
  BY NextType DEF EraseInv
<1>2. CASE UNCHANGED vars
  BY <1>1, <1>2 DEF vars, EraseInv, EnvelopeFirst, TodoOfErasers, RetiredGrantIsErased
<1>3. CASE Next
  BY <1>1, <1>3, NextIsAStep, SealStepErases, RetireStepErases, EraseErases, InsertErases,
     AnswerStepErases, EnvironmentErases DEF EraseInv
<1> QED BY <1>2, <1>3

\* Every grant that was revoked, swept or superseded has lost its key, or is on
\* the list of a job that has still to erase it.
THEOREM RetiredGrantsAreErased == Spec => []RetiredGrantIsErased
<1>1. EraseInv => RetiredGrantIsErased
  BY DEF EraseInv
<1> QED BY <1>1, EraseInit, EraseNext, PTL DEF Spec

-----------------------------------------------------------------------------
(* Custody of the latest entry.  When seals do not overlap the one in      *)
(* progress, if any, is the seal of the latest entry; a grant is inserted  *)
(* once, by a job that then has nothing left to do but to close a request; *)
(* and in tier 0 the owner agent has nothing to answer.                    *)

OneSealAtATime ==
    ~overlap => \A s \in Seals : Busy(s) =>
                    /\ entry # NoKey => s = entry
                    /\ \A t \in Seals : Busy(t) => t = s

GrantedOnce ==
    /\ \A g \in Grants : status[g] # "none" => pc[g] \in {"granted", "done"}
    /\ \A j \in Jobs : \A g \in todo[j] : status[g] \notin {"none", "active"}

NothingToAnswer ==
    tier = 0 => /\ \A s \in Seals : request[s] = "none"
                /\ \A a \in Answers : pc[a] = "idle"

CustodyInv ==
    /\ TypeOK
    /\ OneSealAtATime /\ GrantedOnce /\ NothingToAnswer
    /\ EnvelopeTracksEntry /\ ActiveGrantOpensEntry

Custody == OneSealAtATime /\ GrantedOnce /\ NothingToAnswer
           /\ EnvelopeTracksEntry /\ ActiveGrantOpensEntry

LEMMA CustodyInit == Init => CustodyInv
BY InitType DEF Init, CustodyInv, OneSealAtATime, GrantedOnce, NothingToAnswer,
   EnvelopeTracksEntry, ActiveGrantOpensEntry, Busy, Jobs, Grants

\* Only SetEntry puts a seal in progress.
LEMMA OneSealKept ==
    ASSUME OneSealAtATime, overlap' = overlap, entry' \in {entry, NoKey},
           \A s \in Seals : Busy(s)' => Busy(s)
    PROVE  OneSealAtATime'
BY DEF OneSealAtATime

LEMMA SealStepCustody ==
    ASSUME CustodyInv, NEW s \in Seals, SealStep(s)
    PROVE  Custody'
<1>0. s \in Jobs /\ s \in Grants /\ s # NoKey /\ s \notin Answers /\ TypeOK
  BY VaultAssumption DEF Jobs, Grants, CustodyInv
<1>1. \A t \in Seals : t \in Jobs /\ t \in Grants
  BY DEF Jobs, Grants
<1>2. CASE SetEntry(s)
  <2>1. /\ s \notin dead /\ pc[s] = "idle" /\ entry' = s /\ pc' = [pc EXCEPT ![s] = "sealed"]
        /\ ~overlap => \A t \in Seals : ~Busy(t)
        /\ UNCHANGED <<tier, overlap, envelope, status, wrapped, request, todo, dead>>
    BY <1>2 DEF SetEntry, At, Goto
  <2>2. OneSealAtATime'
    BY <1>0, <1>1, <2>1 DEF OneSealAtATime, Busy, TypeOK
  <2>3. GrantedOnce' /\ NothingToAnswer'
    BY <1>0, <2>1 DEF CustodyInv, GrantedOnce, NothingToAnswer, TypeOK
  <2>4. EnvelopeTracksEntry' /\ ActiveGrantOpensEntry'
    BY <1>0, <2>1 DEF EnvelopeTracksEntry, ActiveGrantOpensEntry, TypeOK
  <2> QED BY <2>2, <2>3, <2>4 DEF Custody
<1>3. CASE WriteEnvelope(s)
  <2>1. /\ Busy(s) /\ pc[s] = "sealed" /\ envelope' = s /\ pc' = [pc EXCEPT ![s] = "enveloped"]
        /\ UNCHANGED <<tier, overlap, entry, pair, status, wrapped, request, todo, dead>>
    BY <1>3 DEF WriteEnvelope, At, Goto, Busy
  <2>2. OneSealAtATime'
    BY <1>0, <1>1, <2>1, OneSealKept DEF CustodyInv, Busy, TypeOK
  <2>3. GrantedOnce' /\ NothingToAnswer'
    BY <1>0, <2>1 DEF CustodyInv, GrantedOnce, NothingToAnswer, TypeOK
  <2>4. ~overlap /\ entry # NoKey => entry = s
    BY <2>1 DEF CustodyInv, OneSealAtATime
  <2>5. EnvelopeTracksEntry'
    BY <2>1, <2>4 DEF EnvelopeTracksEntry
  <2>6. ActiveGrantOpensEntry'
    BY <1>0, <2>1, <2>4 DEF ActiveGrantOpensEntry, TypeOK
  <2> QED BY <2>2, <2>3, <2>5, <2>6 DEF Custody
<1>4. CASE QueueRequest(s)
  <2>1. /\ tier = 1 /\ Busy(s) /\ pc[s] = "enveloped" /\ pc' = [pc EXCEPT ![s] = "done"]
        /\ UNCHANGED <<tier, overlap, entry, envelope, pair, status, wrapped, todo, dead>>
    BY <1>4 DEF QueueRequest, At, Goto, Busy
  <2>2. OneSealAtATime'
    BY <1>0, <1>1, <2>1, OneSealKept DEF CustodyInv, Busy, TypeOK
  <2>3. GrantedOnce' /\ NothingToAnswer' /\ ActiveGrantOpensEntry'
    BY <1>0, <2>1 DEF CustodyInv, GrantedOnce, NothingToAnswer, ActiveGrantOpensEntry, TypeOK
  <2>4. EnvelopeTracksEntry'
    BY <1>0, <2>1 DEF CustodyInv, EnvelopeTracksEntry, TypeOK
  <2> QED BY <2>2, <2>3, <2>4 DEF Custody
<1> QED BY <1>2, <1>3, <1>4 DEF SealStep

LEMMA RetireStepCustody ==
    ASSUME CustodyInv, NEW j \in Jobs, RetireStep(j)
    PROVE  Custody'
<1>1. PICK gs \in SUBSET Active, reason \in {"superseded", "revoked"},
           next \in {"erasing", "retrying"} :
               /\ Retire(j, gs, reason, next)
               /\ j \in Seals => /\ gs = ActiveOf(pair[j]) /\ j \notin dead
                                 /\ pc[j] \in {"enveloped", "resolved", "collided"}
               /\ pc[j] \in {"idle", "enveloped", "resolved", "collided"}
  BY RetireStepRetires
<1>2. TypeOK /\ (tier = 0 => j \notin Answers)
  <2>1. CASE tier = 0 /\ j \in Answers
    <3>1. pc[j] = "idle"
      BY <2>1 DEF CustodyInv, NothingToAnswer
    <3>2. j \notin Seals /\ j \notin Erasers
      BY <2>1, VaultAssumption
    <3> QED BY <3>1, <3>2 DEF RetireStep, Supersede, At
  <2> QED BY <2>1 DEF CustodyInv
<1>3. /\ pc' = [pc EXCEPT ![j] = next] /\ todo' = [todo EXCEPT ![j] = gs]
      /\ status' = [g \in Grants |-> IF g \in gs THEN reason ELSE status[g]]
      /\ UNCHANGED <<tier, overlap, entry, envelope, pair, wrapped, request, dead>>
  BY <1>1 DEF Retire, Goto
<1>4. \A g \in gs : g \in Grants /\ status[g] = "active"
  BY <1>1 DEF Active
<1>5. OneSealAtATime'
  BY <1>1, <1>2, <1>3, OneSealKept DEF CustodyInv, Busy, TypeOK, Jobs
<1>6. GrantedOnce'
  <2>1. ASSUME NEW g \in Grants, status'[g] # "none"
        PROVE  pc'[g] \in {"granted", "done"}
    BY <1>1, <1>2, <1>3, <1>4, <2>1 DEF CustodyInv, GrantedOnce, TypeOK, Jobs, Grants
  <2>2. ASSUME NEW k \in Jobs, NEW g \in todo'[k]
        PROVE  status'[g] \notin {"none", "active"}
    <3>1. g \in gs \/ g \in todo[k]
      BY <1>2, <1>3 DEF TypeOK
    <3>2. g \in Grants
      BY <1>2, <1>4, <3>1 DEF TypeOK
    <3> QED BY <1>3, <3>1, <3>2 DEF CustodyInv, GrantedOnce
  <2> QED BY <2>1, <2>2 DEF GrantedOnce
<1>7. NothingToAnswer'
  BY <1>2, <1>3 DEF CustodyInv, NothingToAnswer, TypeOK, Jobs
<1>8. EnvelopeTracksEntry'
  BY <1>1, <1>2, <1>3 DEF CustodyInv, EnvelopeTracksEntry, TypeOK, Keys, Jobs
<1>9. ActiveGrantOpensEntry'
  <2>1. \A g \in Active' : g \in Active /\ g \notin gs
    BY <1>1, <1>3 DEF Active
  <2>2. CASE j \in Seals
    <3>1. ~overlap /\ entry # NoKey => j = entry
      BY <1>1, <2>2 DEF CustodyInv, OneSealAtATime, Busy
    <3>2. \A g \in gs : g \notin Active'
      BY <1>1, <1>3, <1>4 DEF Active
    <3>3. ~overlap /\ entry # NoKey => ActiveOf(pair[entry])' = {}
      BY <1>1, <1>3, <2>1, <2>2, <3>1, <3>2 DEF ActiveOf
    <3> QED BY <1>3, <3>3 DEF ActiveGrantOpensEntry
  <2>3. CASE j \notin Seals
    <3>1. entry # NoKey => pc'[entry] = pc[entry]
      BY <1>2, <1>3, <2>3 DEF TypeOK, Keys, Jobs
    <3> QED BY <1>3, <2>1, <3>1 DEF CustodyInv, ActiveGrantOpensEntry, ActiveOf
  <2> QED BY <2>2, <2>3
<1> QED BY <1>5, <1>6, <1>7, <1>8, <1>9 DEF Custody

LEMMA EraseCustody ==
    ASSUME CustodyInv, NEW j \in Jobs, NEW g \in Grants, Erase(j, g)
    PROVE  Custody'
<1>0. TypeOK
  BY DEF CustodyInv
<1>1. /\ g \in todo[j] /\ todo' = [todo EXCEPT ![j] = todo[j] \ {g}]
      /\ \A h \in Grants : h # g => wrapped'[h] = wrapped[h]
      /\ UNCHANGED <<tier, overlap, entry, envelope, pair, status, request, pc, dead>>
  BY <1>0 DEF Erase, TypeOK
<1>2. OneSealAtATime'
  BY <1>1, OneSealKept DEF CustodyInv, Busy
<1>3. GrantedOnce' /\ NothingToAnswer' /\ EnvelopeTracksEntry'
  BY <1>0, <1>1 DEF CustodyInv, GrantedOnce, NothingToAnswer, EnvelopeTracksEntry, TypeOK
<1>4. ActiveGrantOpensEntry'
  <2>1. g \notin Active /\ Active' = Active
    BY <1>1 DEF CustodyInv, GrantedOnce, Active
  <2>2. \A h \in Active : wrapped'[h] = wrapped[h]
    BY <1>1, <2>1 DEF Active
  <2> QED BY <1>1, <2>1, <2>2 DEF CustodyInv, ActiveGrantOpensEntry, ActiveOf
<1> QED BY <1>2, <1>3, <1>4 DEF Custody

LEMMA InsertCustody ==
    ASSUME CustodyInv, NEW j \in Jobs, EraserReturns(j) \/ Insert(j) \/ Collide(j)
    PROVE  Custody'
<1>0. TypeOK /\ \A s \in Seals : s \in Jobs
  BY DEF CustodyInv, Jobs
<1>1. CASE EraserReturns(j)
  <2>1. /\ j \notin Grants /\ pc' = [pc EXCEPT ![j] = "done"]
        /\ UNCHANGED <<tier, overlap, entry, envelope, pair, status, wrapped, request, todo, dead>>
    BY <1>1, VaultAssumption DEF EraserReturns, Goto, Grants
  <2>2. OneSealAtATime'
    BY <1>0, <2>1, OneSealKept DEF CustodyInv, Busy, TypeOK, Grants
  <2>3. \A g \in Grants : pc'[g] = pc[g]
    BY <1>0, <2>1 DEF TypeOK, Jobs, Grants
  <2>4. GrantedOnce' /\ NothingToAnswer'
    BY <2>1, <2>3 DEF CustodyInv, GrantedOnce, NothingToAnswer, Grants
  <2>5. entry # NoKey => pc'[entry] = pc[entry]
    BY <1>0, <2>3 DEF TypeOK, Keys, Grants
  <2>6. EnvelopeTracksEntry' /\ ActiveGrantOpensEntry'
    BY <2>1, <2>5 DEF CustodyInv, EnvelopeTracksEntry, ActiveGrantOpensEntry, ActiveOf, Active
  <2> QED BY <2>2, <2>4, <2>6 DEF Custody
<1>2. CASE Insert(j)
  <2> DEFINE next == IF j \in Answers /\ offer[j].request # NoKey THEN "granted" ELSE "done"
  <2>1. /\ j \in Grants /\ ActiveOf(pair[j]) = {} /\ pc[j] \in {"erasing", "retrying"} /\ j \notin dead
        /\ status' = [status EXCEPT ![j] = "active"]
        /\ wrapped' = [wrapped EXCEPT ![j] = KeyOf(j)]
        /\ pc' = [pc EXCEPT ![j] = next]
        /\ UNCHANGED <<tier, overlap, entry, envelope, pair, request, todo, dead>>
    BY <1>2 DEF Insert, Inserting, At, Goto
  <2>2. next \in {"granted", "done"}
    OBVIOUS
  <2> HIDE DEF next
  <2>3. j \in Seals => Busy(j)
    BY <2>1 DEF Busy
  <2>4. \A s \in Seals : Busy(s)' => Busy(s)
    BY <1>0, <2>1, <2>2, <2>3 DEF Busy, TypeOK
  <2>5. OneSealAtATime'
    BY <2>1, <2>4, OneSealKept DEF CustodyInv
  <2>6. status[j] = "none"
    BY <2>1 DEF CustodyInv, GrantedOnce
  <2>7. GrantedOnce'
    BY <1>0, <2>1, <2>2, <2>6 DEF CustodyInv, GrantedOnce, TypeOK, Jobs, Grants
  <2>8. NothingToAnswer'
    BY <1>0, <2>1 DEF CustodyInv, NothingToAnswer, TypeOK
  <2>9. EnvelopeTracksEntry'
    BY <1>0, <2>1, <2>2 DEF CustodyInv, EnvelopeTracksEntry, TypeOK, Keys
  <2>10. ActiveGrantOpensEntry'
    <3>1. SUFFICES ASSUME tier = 0, ~overlap, entry # NoKey,
                          NEW g \in ActiveOf(pair[entry])'
                   PROVE  wrapped'[g] = entry
      BY <2>1 DEF ActiveGrantOpensEntry
    <3>2. j \in Seals
      BY <2>1, <3>1 DEF CustodyInv, NothingToAnswer, Grants
    <3>3. wrapped'[j] = j
      BY <1>0, <2>1, <3>2 DEF KeyOf, TypeOK
    <3>4. j = entry
      BY <2>3, <3>1, <3>2 DEF CustodyInv, OneSealAtATime
    <3>5. g = j
      BY <1>0, <2>1, <3>1, <3>4 DEF ActiveOf, Active, TypeOK
    <3> QED BY <3>3, <3>4, <3>5
  <2> QED BY <2>5, <2>7, <2>8, <2>9, <2>10 DEF Custody
<1>3. CASE Collide(j)
  <2>1. /\ j \in Grants /\ pc[j] \in {"erasing", "retrying"}
        /\ pc' = pc \/ (j \in Seals /\ pc[j] = "erasing" /\ pc' = [pc EXCEPT ![j] = "collided"])
        /\ dead \subseteq dead'
        /\ UNCHANGED <<tier, overlap, entry, envelope, pair, status, wrapped, request, todo>>
    BY <1>3 DEF Collide, Inserting, At, Goto
  <2>2. \A s \in Seals : Busy(s)' => Busy(s)
    BY <1>0, <2>1 DEF Busy, TypeOK
  <2>3. OneSealAtATime'
    BY <2>1, <2>2, OneSealKept DEF CustodyInv
  <2>4. status[j] = "none"
    BY <2>1 DEF CustodyInv, GrantedOnce
  <2>5. GrantedOnce' /\ NothingToAnswer'
    BY <1>0, <2>1, <2>4, VaultAssumption
       DEF CustodyInv, GrantedOnce, NothingToAnswer, TypeOK, Jobs, Grants
  <2>6. EnvelopeTracksEntry' /\ ActiveGrantOpensEntry'
    BY <1>0, <2>1 DEF CustodyInv, EnvelopeTracksEntry, ActiveGrantOpensEntry, ActiveOf, Active,
                      TypeOK, Keys
  <2> QED BY <2>3, <2>5, <2>6 DEF Custody
<1> QED BY <1>1, <1>2, <1>3

LEMMA AnswerStepCustody ==
    ASSUME CustodyInv, NEW a \in Answers, AnswerStep(a)
    PROVE  Custody'
<1>0. a \in Jobs /\ a \in Grants /\ a \notin Seals /\ TypeOK
  BY VaultAssumption DEF Jobs, Grants, CustodyInv
<1>1. /\ \E next \in {"offered", "resolved", "done"} : pc' = [pc EXCEPT ![a] = next]
      /\ pc[a] \in {"idle", "offered", "granted"}
      /\ pc[a] = "granted" => pc'[a] = "done"
      /\ UNCHANGED <<tier, overlap, entry, envelope, status, wrapped, todo, dead>>
  BY <1>0 DEF AnswerStep, ReadEnvelope, ReadRequest, Resolve, Fulfil, Goto, At, TypeOK
<1>2. tier = 1
  <2>1. CASE tier = 0
    <3>1. pc[a] = "idle" /\ \A s \in Seals : request[s] = "none"
      BY <2>1 DEF CustodyInv, NothingToAnswer
    <3> QED BY <2>1, <3>1 DEF AnswerStep, ReadEnvelope, ReadRequest, Resolve, Fulfil, At
  <2> QED BY <1>0, <2>1 DEF TypeOK
<1>3. \A s \in Seals : pc'[s] = pc[s]
  BY <1>0, <1>1 DEF TypeOK, Jobs
<1>4. OneSealAtATime'
  BY <1>1, <1>3, OneSealKept DEF CustodyInv, Busy
<1>5. GrantedOnce'
  BY <1>0, <1>1 DEF CustodyInv, GrantedOnce, TypeOK, Jobs, Grants
<1>6. EnvelopeTracksEntry'
  BY <1>0, <1>1, <1>3 DEF CustodyInv, EnvelopeTracksEntry, TypeOK, Keys
<1> QED BY <1>1, <1>2, <1>4, <1>5, <1>6 DEF Custody, NothingToAnswer, ActiveGrantOpensEntry

LEMMA EnvironmentCustody ==
    ASSUME CustodyInv, Environment
    PROVE  Custody'
<1>1. CASE DeleteField
  <2>1. entry' = NoKey /\ UNCHANGED <<tier, overlap, pair, status, request, pc, todo, dead>>
    BY <1>1 DEF DeleteField
  <2>2. OneSealAtATime'
    BY <2>1, OneSealKept DEF CustodyInv, Busy
  <2> QED BY <2>1, <2>2 DEF CustodyInv, Custody, GrantedOnce, NothingToAnswer,
             EnvelopeTracksEntry, ActiveGrantOpensEntry
<1>2. ASSUME NEW g \in Grants, GetsOlder(g) PROVE Custody'
  BY <1>2 DEF GetsOlder, CustodyInv, Custody, OneSealAtATime, GrantedOnce, NothingToAnswer,
     EnvelopeTracksEntry, ActiveGrantOpensEntry, ActiveOf, Active, Busy
<1>3. ASSUME NEW s \in Seals, ExpireRequest(s) PROVE Custody'
  <2>1. tier # 0
    BY <1>3 DEF ExpireRequest, CustodyInv, NothingToAnswer
  <2>2. UNCHANGED <<tier, overlap, entry, envelope, pair, status, wrapped, pc, todo, dead>>
    BY <1>3 DEF ExpireRequest
  <2> QED BY <2>1, <2>2 DEF CustodyInv, Custody, OneSealAtATime, GrantedOnce,
             NothingToAnswer, EnvelopeTracksEntry, ActiveGrantOpensEntry, ActiveOf, Active, Busy
<1>4. ASSUME NEW j \in Jobs, Throw(j) PROVE Custody'
  <2>1. /\ dead \subseteq dead'
        /\ UNCHANGED <<tier, overlap, entry, envelope, pair, status, wrapped, request, pc, todo>>
    BY <1>4 DEF Throw
  <2>2. OneSealAtATime'
    BY <2>1, OneSealKept DEF CustodyInv, Busy
  <2> QED BY <2>1, <2>2 DEF CustodyInv, Custody, GrantedOnce, NothingToAnswer,
             EnvelopeTracksEntry, ActiveGrantOpensEntry, ActiveOf, Active
<1> QED BY <1>1, <1>2, <1>3, <1>4 DEF Environment

LEMMA CustodyNext == CustodyInv /\ [Next]_vars => CustodyInv'
<1> SUFFICES ASSUME CustodyInv, [Next]_vars PROVE CustodyInv'
  OBVIOUS
<1>1. TypeOK'
  BY NextType DEF CustodyInv
<1>2. CASE UNCHANGED vars
  BY <1>1, <1>2 DEF vars, CustodyInv, OneSealAtATime, GrantedOnce, NothingToAnswer,
     EnvelopeTracksEntry, ActiveGrantOpensEntry, ActiveOf, Active, Busy
<1>3. CASE Next
  <2>1. Custody'
    BY <1>3, NextIsAStep, SealStepCustody, RetireStepCustody, EraseCustody, InsertCustody,
       AnswerStepCustody, EnvironmentCustody
  <2> QED BY <1>1, <2>1 DEF CustodyInv, Custody
<1> QED BY <1>2, <1>3

\* When seals of the field do not overlap, the owner's envelope holds the key of
\* the latest entry from the envelope step of its seal on.
THEOREM EnvelopeTracksTheEntry == Spec => []EnvelopeTracksEntry
<1>1. CustodyInv => EnvelopeTracksEntry
  BY DEF CustodyInv
<1> QED BY <1>1, CustodyInit, CustodyNext, PTL DEF Spec

\* In tier 0, when seals of the field do not overlap, the active grant of the pair
\* the latest entry was sealed for opens that entry, once its seal has superseded the
\* grant before it (index.ts:491).
THEOREM ActiveGrantOpensTheEntry == Spec => []ActiveGrantOpensEntry
<1>1. CustodyInv => ActiveGrantOpensEntry
  BY DEF CustodyInv
<1> QED BY <1>1, CustodyInit, CustodyNext, PTL DEF Spec

=============================================================================
