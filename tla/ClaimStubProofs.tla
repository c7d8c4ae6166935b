-------------------------- MODULE ClaimStubProofs ---------------------------
(***************************************************************************)
(* Theorems about ClaimStub, for any number of calls, identities and       *)
(* invites: whichever half comes second closes the ratchet, nothing is     *)
(* claimed from one side only, and calls that do not overlap claim nothing *)
(* that has lapsed.                                                        *)
(***************************************************************************)
EXTENDS ClaimStub, TLAPS

Step(c) == Resolve(c) \/ Onboard(c) \/ Ratchet(c) \/ Accept(c) \/ Sweep(c) \/ Die(c)

\* What a call holds once it is past the statement that finds it.
HoldsDid == Places \ {"idle", "accruing", "minting", "recalling", "closing"}
HoldsTarget == {"indexing", "verifying", "checking", "countersigning", "activating", "crediting",
                "accepting"}
Holds(r) == /\ r \in CallType
            /\ r.at \in HoldsDid => r.did \in Dids
            /\ r.at \in HoldsTarget => r.target \in Dids
CallsHold == \A c \in Calls : Holds(call[c])
PendingTo == \A i \in Invites : status[i] = "pending" => to[i] \in Dids
TypeInv == TypeOK /\ CallsHold /\ PendingTo

-----------------------------------------------------------------------------
(* What a call holds after each of its steps.                              *)

LEMMA PutCall ==
    ASSUME TypeOK, NEW c \in Calls, NEW now, Put(c, now)
    PROVE  call'[c] = now /\ \A x \in Calls \ {c} : call'[x] = call[x]
BY DEF TypeOK, Put

LEMMA IdleHolds == Holds(Idle)
BY DEF Holds, Idle, CallType, Places, Ops, HoldsDid, HoldsTarget

\* A call that only goes on keeps what it has.
LEMMA MovedHolds ==
    ASSUME TypeInv, NEW c \in Calls, NEW where \in Places,
           where \in HoldsDid => call[c].did \in Dids,
           where \in HoldsTarget => call[c].target \in Dids
    PROVE  /\ Holds([call[c] EXCEPT !.at = where])
           /\ [call[c] EXCEPT !.at = where].at = where
           /\ [call[c] EXCEPT !.at = where].op = call[c].op
           /\ [call[c] EXCEPT !.at = where].did = call[c].did
           /\ [call[c] EXCEPT !.at = where].target = call[c].target
           /\ [call[c] EXCEPT !.at = where].work = call[c].work
<1> DEFINE r == call[c]
<1>1. r \in CallType
  BY DEF TypeInv, TypeOK
<1>2. where \in HoldsDid => r.did \in Dids
  OBVIOUS
<1>3. where \in HoldsTarget => r.target \in Dids
  OBVIOUS
<1> HIDE DEF r
<1>4. /\ Holds([r EXCEPT !.at = where])
      /\ [r EXCEPT !.at = where].at = where
      /\ [r EXCEPT !.at = where].op = r.op
      /\ [r EXCEPT !.at = where].did = r.did
      /\ [r EXCEPT !.at = where].target = r.target
      /\ [r EXCEPT !.at = where].work = r.work
  BY <1>1, <1>2, <1>3 DEF Holds, CallType
<1> QED BY <1>4 DEF r

LEMMA ResolveHolds ==
    ASSUME TypeInv, NEW c \in Calls, Resolve(c)
    PROVE  \E now : Put(c, now) /\ Holds(now)
<1> DEFINE r == call[c]
<1>1. r \in CallType /\ Holds(r)
  BY DEF TypeInv, TypeOK, CallsHold
<1>2. CASE StartInvite(c)
  <2>1. PICK i \in Invites : Put(c, [Idle EXCEPT !.at = IF cred = NoOne THEN "accruing" ELSE "inviting",
                                 !.op = "invite", !.did = cred, !.work = {i}])
    BY <1>2 DEF StartInvite, Start
  <2>2. Holds([Idle EXCEPT !.at = IF cred = NoOne THEN "accruing" ELSE "inviting",
                                 !.op = "invite", !.did = cred, !.work = {i}])
    BY DEF TypeInv, TypeOK, Holds, Idle, CallType, Places, Ops, HoldsDid, HoldsTarget
  <2> QED BY <2>1, <2>2
<1>3. CASE StartSoft(c)
  <2>1. Holds([Idle EXCEPT !.at = "accruing", !.op = "soft"])
    BY DEF Holds, Idle, CallType, Places, Ops, HoldsDid, HoldsTarget
  <2> QED BY <1>3, <2>1 DEF StartSoft, Start
<1>4. CASE Accrue(c)
  <2>1. CASE Goto(c, "minting")
    BY <2>1, MovedHolds DEF Goto, Places, HoldsDid, HoldsTarget
  <2>2. ASSUME NEW d \in Live, Put(c, [r EXCEPT !.at = AfterMint(r.op), !.did = d, !.target = d])
        PROVE  \E now : Put(c, now) /\ Holds(now)
    <3> HIDE DEF r
    <3>1. Holds([r EXCEPT !.at = AfterMint(r.op), !.did = d, !.target = d])
      BY <1>1 DEF Holds, CallType, Places, HoldsDid, HoldsTarget, AfterMint, Live
    <3> QED BY <2>2, <3>1
  <2> QED BY <1>4, <2>1, <2>2 DEF Accrue
<1>5. CASE MintIdentity(c)
  <2>1. PICK d \in Dids : Put(c, [r EXCEPT !.at = "indexing", !.did = d, !.target = d])
    BY <1>5 DEF MintIdentity
  <2> HIDE DEF r
  <2>2. Holds([r EXCEPT !.at = "indexing", !.did = d, !.target = d])
    BY <1>1 DEF Holds, CallType, Places
  <2> QED BY <2>1, <2>2
<1>6. CASE IndexStub(c)
  <2>1. CASE Goto(c, AfterMint(call[c].op))
    <3>1. call[c].did \in Dids /\ call[c].target \in Dids
      BY <1>1, <1>6 DEF IndexStub, At, Holds, HoldsDid, HoldsTarget, Places
    <3>2. AfterMint(call[c].op) \in Places
      BY DEF AfterMint, Places
    <3> QED BY <2>1, <3>1, <3>2, MovedHolds DEF Goto
  <2> QED BY <1>6, <2>1, IdleHolds DEF IndexStub, End
<1>7. CASE InsertInvite(c)
  BY <1>7, IdleHolds DEF InsertInvite, End
<1> QED BY <1>2, <1>3, <1>4, <1>5, <1>6, <1>7 DEF Resolve

\* Any place a call that holds both may go on to.
LEMMA GotoHolds ==
    ASSUME TypeInv, NEW c \in Calls, NEW where \in Places, Goto(c, where),
           call[c].did \in Dids \/ where \notin HoldsDid,
           call[c].target \in Dids \/ where \notin HoldsTarget
    PROVE  \E now : Put(c, now) /\ Holds(now)
BY MovedHolds DEF Goto

LEMMA LeaveHolds ==
    ASSUME TypeInv, NEW c \in Calls, Leave(c), call[c].did \in Dids
    PROVE  \E now : Put(c, now) /\ Holds(now)
BY GotoHolds, IdleHolds DEF Leave, End, Places, HoldsTarget

LEMMA OnboardHolds ==
    ASSUME TypeInv, NEW c \in Calls, Onboard(c)
    PROVE  \E now : Put(c, now) /\ Holds(now)
<1> DEFINE r == call[c]
<1>1. r \in CallType /\ Holds(r)
  BY DEF TypeInv, TypeOK, CallsHold
<1>2. CASE StartOnboard(c)
  <2>1. Holds([Idle EXCEPT !.at = "recalling", !.op = "onboard"])
    BY DEF Holds, Idle, CallType, Places, Ops, HoldsDid, HoldsTarget
  <2>2. ASSUME NEW d \in Live
        PROVE  Holds([Idle EXCEPT !.at = "selecting", !.op = "onboard", !.did = d])
    BY DEF Live, Holds, Idle, CallType, Places, Ops, HoldsDid, HoldsTarget
  <2> QED BY <1>2, <2>1, <2>2 DEF StartOnboard, Start
<1>3. CASE Recall(c)
  <2>1. Put(c, [r EXCEPT !.at = IF cred = NoOne THEN "accruing" ELSE "consuming", !.did = cred])
    BY <1>3 DEF Recall
  <2>2. cred \in Dids \cup {NoOne}
    BY DEF TypeInv, TypeOK
  <2> HIDE DEF r
  <2>3. Holds([r EXCEPT !.at = IF cred = NoOne THEN "accruing" ELSE "consuming", !.did = cred])
    BY <1>1, <2>2 DEF Holds, CallType, Places, HoldsDid, HoldsTarget
  <2> QED BY <2>1, <2>3
<1>4. CASE Select(c)
  <2>1. r.did \in Dids
    BY <1>1, <1>4 DEF Select, At, Holds, HoldsDid, Places
  <2>2. CASE Goto(c, "consuming")
    BY <2>1, <2>2, GotoHolds DEF Places, HoldsTarget
  <2>3. ASSUME NEW d \in Live, Put(c, [r EXCEPT !.at = "verifying", !.target = d])
        PROVE  \E now : Put(c, now) /\ Holds(now)
    <3> HIDE DEF r
    <3>1. Holds([r EXCEPT !.at = "verifying", !.target = d])
      BY <1>1, <2>1 DEF Holds, CallType, Places, Live
    <3> QED BY <2>3, <3>1
  <2> QED BY <1>4, <2>2, <2>3 DEF Select
<1>5. CASE Verify(c)
  <2>1. r.did \in Dids /\ r.target \in Dids
    BY <1>1, <1>5 DEF Verify, At, Holds, HoldsDid, HoldsTarget, Places
  <2> QED BY <1>5, <2>1, GotoHolds DEF Verify, Places
<1> QED BY <1>2, <1>3, <1>4, <1>5 DEF Onboard

LEMMA RatchetHolds ==
    ASSUME TypeInv, NEW c \in Calls, Ratchet(c)
    PROVE  \E now : Put(c, now) /\ Holds(now)
<1>1. Holds(call[c]) /\ call[c].at \in {"checking", "countersigning", "activating", "crediting"}
  BY DEF TypeInv, CallsHold, Ratchet, CheckStub, CheckCountersign, Activate, InsertCredential, At
<1>2. call[c].did \in Dids /\ call[c].target \in Dids
  BY <1>1 DEF Holds, HoldsDid, HoldsTarget, Places
<1>3. Leave(c) \/ \E where \in {"countersigning", "activating", "crediting", "accepting"} : Goto(c, where)
  BY DEF Ratchet, CheckStub, CheckCountersign, Activate, InsertCredential
<1> QED BY <1>2, <1>3, LeaveHolds, GotoHolds DEF Places

LEMMA AcceptHolds ==
    ASSUME TypeInv, NEW c \in Calls, Accept(c)
    PROVE  \E now : Put(c, now) /\ Holds(now)
<1> DEFINE r == call[c]
<1>1. r \in CallType /\ Holds(r)
  BY DEF TypeInv, TypeOK, CallsHold
<1>2. CASE ReadPending(c)
  <2>1. r.did \in Dids
    BY <1>1, <1>2 DEF ReadPending, At, Holds, HoldsDid, Places
  <2>2. CASE Put(c, [r EXCEPT !.at = "draining", !.work = Pending])
    <3> HIDE DEF r
    <3>1. Holds([r EXCEPT !.at = "draining", !.work = Pending])
      BY <1>1, <2>1 DEF Holds, CallType, Places, HoldsTarget, Pending
    <3> QED BY <2>2, <3>1
  <2> QED BY <1>2, <2>2, IdleHolds DEF ReadPending, End
<1>3. CASE ConsumeInvite(c)
  <2>1. r.at = "draining" /\ r.did \in Dids
    BY <1>1, <1>3 DEF ConsumeInvite, At, Holds, HoldsDid, Places
  <2>2. ASSUME NEW i \in Invites, Put(c, [r EXCEPT !.work = @ \ {i}])
        PROVE  \E now : Put(c, now) /\ Holds(now)
    <3> HIDE DEF r
    <3>1. Holds([r EXCEPT !.work = @ \ {i}])
      BY <1>1, <2>1 DEF Holds, CallType, HoldsTarget
    <3> QED BY <2>2, <3>1
  <2>3. \E i \in r.work : End(c) \/ Put(c, [r EXCEPT !.work = @ \ {i}])
    BY <1>3 DEF ConsumeInvite
  <2> QED BY <1>1, <2>2, <2>3, IdleHolds DEF CallType, End
<1>4. CASE StartAccept(c)
  <2>1. PICK i \in Pending :
           \/ Put(c, [Idle EXCEPT !.at = "identifying", !.op = "accept",
                                  !.did = to[i], !.work = {i}])
           \/ \E s \in sessions : Put(c, [Idle EXCEPT !.at = "accepting", !.op = "accept",
                                          !.did = s, !.target = s, !.work = {i}])
    BY <1>4 DEF StartAccept, Start
  <2>2. i \in Invites /\ to[i] \in Dids /\ sessions \subseteq Dids
    BY DEF Pending, TypeInv, TypeOK, PendingTo
  <2>3. Holds([Idle EXCEPT !.at = "identifying", !.op = "accept", !.did = to[i], !.work = {i}])
    BY <2>2 DEF Holds, Idle, CallType, Places, Ops, HoldsTarget
  <2>4. ASSUME NEW s \in sessions
        PROVE  Holds([Idle EXCEPT !.at = "accepting", !.op = "accept",
                                          !.did = s, !.target = s, !.work = {i}])
    BY <2>2 DEF Holds, Idle, CallType, Places, Ops, HoldsTarget
  <2> QED BY <2>1, <2>3, <2>4
<1>5. CASE IdentifyClicker(c)
  <2>1. r.did \in Dids
    BY <1>1, <1>5 DEF IdentifyClicker, At, Holds, HoldsDid, Places
  <2>2. CASE Put(c, [r EXCEPT !.at = "accepting", !.target = r.did])
    <3> HIDE DEF r
    <3>1. Holds([r EXCEPT !.at = "accepting", !.target = r.did])
      BY <1>1, <2>1 DEF Holds, CallType, Places
    <3> QED BY <2>2, <3>1
  <2> QED BY <1>5, <2>2, IdleHolds DEF IdentifyClicker, End
<1>6. CASE WriteAccept(c)
  <2>1. r.did \in Dids /\ r.target \in Dids
    BY <1>1, <1>6 DEF WriteAccept, At, Holds, HoldsDid, HoldsTarget, Places
  <2>2. CASE Goto(c, "checking")
    BY <2>1, <2>2, GotoHolds DEF Places
  <2> QED BY <1>6, <2>2, IdleHolds DEF WriteAccept, End
<1>7. CASE StartRegister(c)
  <2>1. PICK d \in Dids, w \in {{}} \cup {{i} : i \in Pending} :
          Put(c, [Idle EXCEPT !.at = "crediting", !.op = "register",
                              !.did = d, !.target = d, !.work = w])
    BY <1>7 DEF StartRegister, Start
  <2>2. w \subseteq Invites
    BY DEF Pending
  <2>3. Holds([Idle EXCEPT !.at = "crediting", !.op = "register",
                              !.did = d, !.target = d, !.work = w])
    BY <2>2 DEF Holds, Idle, CallType, Places, Ops
  <2> QED BY <2>1, <2>3
<1>8. CASE StartClose(c)
  <2>1. PICK i \in Pending : Put(c, [Idle EXCEPT !.at = "closing", !.op = "close", !.work = {i}])
    BY <1>8 DEF StartClose, Start
  <2>2. Holds([Idle EXCEPT !.at = "closing", !.op = "close", !.work = {i}])
    BY DEF Pending, Holds, Idle, CallType, Places, Ops, HoldsDid, HoldsTarget
  <2> QED BY <2>1, <2>2
<1>9. CASE WriteClose(c)
  BY <1>9, IdleHolds DEF WriteClose, End
<1> QED BY <1>2, <1>3, <1>4, <1>5, <1>6, <1>7, <1>8, <1>9 DEF Accept

LEMMA SweepHolds ==
    ASSUME TypeInv, NEW c \in Calls, Sweep(c)
    PROVE  \E now : Put(c, now) /\ Holds(now)
<1>1. CASE StartSweep(c)
  <2>1. PICK d \in Live : Put(c, [Idle EXCEPT !.at = "sweeping", !.op = "sweep", !.did = d])
    BY <1>1 DEF StartSweep, Start
  <2>2. Holds([Idle EXCEPT !.at = "sweeping", !.op = "sweep", !.did = d])
    BY DEF Live, Holds, Idle, CallType, Places, Ops, HoldsTarget
  <2> QED BY <2>1, <2>2
<1>2. CASE SweepGuard(c)
  <2>1. call[c].did \in Dids
    BY <1>2 DEF TypeInv, CallsHold, SweepGuard, At, Holds, HoldsDid, Places
  <2> QED BY <1>2, <2>1, GotoHolds, IdleHolds DEF SweepGuard, End, Places, HoldsTarget
<1>3. CASE Tombstone(c)
  BY <1>3, IdleHolds DEF Tombstone, End
<1> QED BY <1>1, <1>2, <1>3 DEF Sweep

LEMMA StepHolds ==
    ASSUME TypeInv, NEW c \in Calls, Step(c)
    PROVE  \E now : Put(c, now) /\ Holds(now)
BY ResolveHolds, OnboardHolds, RatchetHolds, AcceptHolds, SweepHolds, IdleHolds
   DEF Step, Die, End

LEMMA StepKeepsCalls ==
    ASSUME TypeInv, NEW c \in Calls, Step(c)
    PROVE  /\ call' \in [Calls -> CallType] /\ CallsHold'
           /\ \A x \in Calls \ {c} : call'[x] = call[x]
<1>1. PICK now : Put(c, now) /\ Holds(now)
  BY StepHolds
<1>2. now \in CallType /\ call \in [Calls -> CallType]
  BY <1>1 DEF Holds, TypeInv, TypeOK
<1>3. call'[c] = now /\ \A x \in Calls \ {c} : call'[x] = call[x]
  BY <1>1, PutCall DEF TypeInv
<1>4. call' \in [Calls -> CallType]
  BY <1>1, <1>2 DEF Put
<1>5. \A x \in Calls : Holds(call'[x])
  BY <1>1, <1>3 DEF TypeInv, CallsHold
<1> QED BY <1>3, <1>4, <1>5 DEF CallsHold, Holds

-----------------------------------------------------------------------------
(* Type correctness.                                                       *)

\* The part of TypeOK that is not about the calls.
DbOK ==
    /\ tier \in [Dids -> Tiers]
    /\ stub \in [Dids -> StubStatuses]
    /\ overdue \subseteq Dids
    /\ verified \subseteq Dids
    /\ cred \in Dids \cup {NoOne}
    /\ status \in [Invites -> InviteStatuses]
    /\ to \in [Invites -> Dids \cup {NoOne}]
    /\ sessions \subseteq Dids
    /\ claimed \subseteq Dids
    /\ countersigned \subseteq Dids
    /\ missed \subseteq Dids \X Reasons
    /\ overlap \in BOOLEAN
    /\ OneIsLive

LEMMA CallFacts ==
    ASSUME TypeInv, NEW c \in Calls
    PROVE  /\ call[c].at \in HoldsDid => call[c].did \in Dids
           /\ call[c].at \in HoldsTarget => call[c].target \in Dids
           /\ call[c].work \subseteq Invites
           /\ call[c].did \in Dids \cup {NoOne} /\ call[c].target \in Dids \cup {NoOne}
BY DEF TypeInv, CallsHold, Holds, CallType

LEMMA StepKeepsFlag ==
    ASSUME TypeInv, NEW c \in Calls, NEW now, Start(c, now)
    PROVE  overlap' \in BOOLEAN /\ UNCHANGED <<claimed, countersigned, missed>>
<1>1. overlap' \in BOOLEAN
  BY Zenon DEF TypeInv, TypeOK, Start
<1> QED BY <1>1 DEF Start

LEMMA ResolveKeepsDb ==
    ASSUME TypeInv, NEW c \in Calls, Resolve(c)
    PROVE  DbOK' /\ PendingTo'
<1>0. DbOK /\ PendingTo
  BY DEF TypeInv, TypeOK, DbOK
<1>1. CASE StartInvite(c) \/ StartSoft(c)
  BY <1>0, <1>1, StepKeepsFlag DEF StartInvite, StartSoft, db, DbOK, PendingTo, OneIsLive
<1>2. CASE Accrue(c)
  BY <1>0, <1>2 DEF Accrue, db, history, DbOK, PendingTo, OneIsLive
<1>3. CASE MintIdentity(c)
  BY <1>0, <1>3 DEF MintIdentity, history, DbOK, PendingTo, OneIsLive, Tiers
<1>4. CASE IndexStub(c)
  BY <1>0, <1>4 DEF IndexStub, history, DbOK, PendingTo, OneIsLive, StubStatuses, Live
<1>5. CASE InsertInvite(c)
  <2>1. call[c].did \in Dids
    BY <1>5, CallFacts DEF InsertInvite, At, HoldsDid, Places
  <2> QED BY <1>0, <1>5, <2>1 DEF InsertInvite, history, DbOK, PendingTo, OneIsLive, InviteStatuses
<1> QED BY <1>1, <1>2, <1>3, <1>4, <1>5 DEF Resolve

LEMMA OnboardKeepsDb ==
    ASSUME TypeInv, NEW c \in Calls, Onboard(c)
    PROVE  DbOK' /\ PendingTo'
<1>0. DbOK /\ PendingTo
  BY DEF TypeInv, TypeOK, DbOK
<1>1. CASE StartOnboard(c)
  <2>1. \E now : Start(c, now)
    BY <1>1 DEF StartOnboard
  <2> QED BY <1>0, <1>1, <2>1, StepKeepsFlag DEF StartOnboard, db, DbOK, PendingTo, OneIsLive
<1>2. CASE Recall(c) \/ Select(c)
  BY <1>0, <1>2 DEF Recall, Select, db, history, DbOK, PendingTo, OneIsLive
<1>3. CASE Verify(c)
  <2>1. (Live \ {call[c].target}) \X {"stray"} \subseteq Dids \X Reasons
    BY DEF Live, Reasons
  <2>2. verified' \subseteq Dids
    BY <1>0, <1>3 DEF Verify, DbOK, Live
  <2> QED BY <1>0, <1>3, <2>1, <2>2 DEF Verify, DbOK, PendingTo, OneIsLive
<1> QED BY <1>1, <1>2, <1>3 DEF Onboard

LEMMA RatchetKeepsDb ==
    ASSUME TypeInv, NEW c \in Calls, Ratchet(c)
    PROVE  DbOK' /\ PendingTo'
<1>0. DbOK /\ PendingTo
  BY DEF TypeInv, TypeOK, DbOK
<1>1. CASE CheckStub(c) \/ CheckCountersign(c)
  BY <1>0, <1>1 DEF CheckStub, CheckCountersign, db, history, DbOK, PendingTo, OneIsLive
<1>2. CASE Activate(c)
  <2>1. call[c].target \in Dids
    BY <1>2, CallFacts DEF Activate, At, HoldsTarget
  <2> QED BY <1>0, <1>2, <2>1 DEF Activate, DbOK, PendingTo, OneIsLive, Tiers
<1>3. CASE InsertCredential(c)
  <2>1. call[c].target \in Dids
    BY <1>3, CallFacts DEF InsertCredential, At, HoldsTarget
  <2> QED BY <1>0, <1>3, <2>1 DEF InsertCredential, history, DbOK, PendingTo, OneIsLive
<1> QED BY <1>1, <1>2, <1>3 DEF Ratchet

LEMMA AcceptKeepsDb ==
    ASSUME TypeInv, NEW c \in Calls, Accept(c)
    PROVE  DbOK' /\ PendingTo'
<1>0. DbOK /\ PendingTo
  BY DEF TypeInv, TypeOK, DbOK
<1>1. CASE ReadPending(c)
  <2>1. call[c].did \in Dids
    BY <1>1, CallFacts DEF ReadPending, At, HoldsDid, Places
  <2>2. sessions' \subseteq Dids
    BY <1>0, <1>1, <2>1 DEF ReadPending, DbOK
  <2> QED BY <1>0, <1>1, <2>2 DEF ReadPending, history, DbOK, PendingTo, OneIsLive
<1>2. CASE ConsumeInvite(c)
  <2>1. call[c].did \in Dids
    BY <1>2, CallFacts DEF ConsumeInvite, At, HoldsDid, Places
  <2>2. <<call[c].did, "consumed">> \in Dids \X Reasons
    BY <2>1 DEF Reasons
  <2>3. UNCHANGED <<tier, stub, overdue, verified, cred, sessions, claimed, overlap>>
    BY <1>2 DEF ConsumeInvite
  <2>4. CASE UNCHANGED <<status, to, countersigned, missed>>
    BY <1>0, <2>3, <2>4 DEF DbOK, PendingTo, OneIsLive
  <2>5. ASSUME NEW i \in Invites,
               status' = [status EXCEPT ![i] = "accepted"], to' = [to EXCEPT ![i] = call[c].did],
               countersigned' = countersigned \cup {call[c].did},
               missed' = missed \cup {<<call[c].did, "consumed">>}
        PROVE  DbOK' /\ PendingTo'
    BY <1>0, <2>1, <2>2, <2>3, <2>5 DEF DbOK, PendingTo, OneIsLive, InviteStatuses
  <2> QED BY <1>2, <2>4, <2>5, CallFacts DEF ConsumeInvite
<1>3. CASE StartAccept(c) \/ StartClose(c)
  <2>1. UNCHANGED db /\ \E now : Start(c, now)
    BY <1>3 DEF StartAccept, StartClose
  <2> QED BY <1>0, <2>1, StepKeepsFlag DEF db, DbOK, PendingTo, OneIsLive
<1>4. CASE IdentifyClicker(c)
  BY <1>0, <1>4 DEF IdentifyClicker, db, history, DbOK, PendingTo, OneIsLive
<1>5. CASE WriteAccept(c)
  <2>1. call[c].did \in Dids
    BY <1>5, CallFacts DEF WriteAccept, At, HoldsDid, Places
  <2> QED BY <1>0, <1>5, <2>1 DEF WriteAccept, Accepted, DbOK, PendingTo, OneIsLive, InviteStatuses
<1>6. CASE StartRegister(c)
  <2>1. \E now : Start(c, now)
    BY <1>6 DEF StartRegister
  <2> QED BY <1>0, <1>6, <2>1, StepKeepsFlag DEF StartRegister, DbOK, PendingTo, OneIsLive, Tiers
<1>7. CASE WriteClose(c)
  BY <1>0, <1>7 DEF WriteClose, history, DbOK, PendingTo, OneIsLive, InviteStatuses
<1> QED BY <1>1, <1>2, <1>3, <1>4, <1>5, <1>6, <1>7 DEF Accept

LEMMA SweepKeepsDb ==
    ASSUME TypeInv, NEW c \in Calls, Sweep(c)
    PROVE  DbOK' /\ PendingTo'
<1>0. DbOK /\ PendingTo
  BY DEF TypeInv, TypeOK, DbOK
<1>1. CASE StartSweep(c)
  <2>1. UNCHANGED db /\ \E now : Start(c, now)
    BY <1>1 DEF StartSweep
  <2> QED BY <1>0, <2>1, StepKeepsFlag DEF db, DbOK, PendingTo, OneIsLive
<1>2. CASE SweepGuard(c)
  BY <1>0, <1>2 DEF SweepGuard, db, history, DbOK, PendingTo, OneIsLive
<1>3. CASE Tombstone(c)
  BY <1>0, <1>3 DEF Tombstone, history, DbOK, PendingTo, OneIsLive, Live, Pending,
     StubStatuses, InviteStatuses
<1> QED BY <1>1, <1>2, <1>3 DEF Sweep

LEMMA TypeInit == Init => TypeInv
BY IdleHolds DEF Init, TypeInv, TypeOK, OneIsLive, CallsHold, PendingTo, Holds,
   Tiers, StubStatuses, InviteStatuses

LEMMA TypeNext == TypeInv /\ [Next]_vars => TypeInv'
<1> SUFFICES ASSUME TypeInv, [Next]_vars PROVE TypeInv'
  OBVIOUS
<1>0. DbOK /\ PendingTo
  BY DEF TypeInv, TypeOK, DbOK
<1>1. ASSUME NEW c \in Calls, Step(c) PROVE TypeInv'
  <2>1. DbOK' /\ PendingTo'
    <3>1. CASE Die(c)
      <4>1. ({call[c].did, call[c].target} \ {NoOne}) \X {"died"} \subseteq Dids \X Reasons
        BY CallFacts DEF Reasons
      <4> QED BY <1>0, <3>1, <4>1 DEF Die, db, DbOK, PendingTo, OneIsLive
    <3> QED BY <1>1, <3>1, ResolveKeepsDb, OnboardKeepsDb, RatchetKeepsDb, AcceptKeepsDb,
               SweepKeepsDb DEF Step
  <2>2. call' \in [Calls -> CallType] /\ CallsHold'
    BY <1>1, StepKeepsCalls
  <2> QED BY <2>1, <2>2 DEF TypeInv, TypeOK, DbOK
<1>2. CASE Lapse
  BY <1>0, <1>2 DEF Lapse, history, TypeInv, TypeOK, CallsHold, PendingTo, OneIsLive, Live
<1>3. CASE Qualify
  BY <1>0, <1>3 DEF Qualify, history, TypeInv, TypeOK, CallsHold, PendingTo, OneIsLive, Tiers
<1>4. CASE UNCHANGED vars
  BY <1>0, <1>4 DEF vars, TypeInv, TypeOK, CallsHold, PendingTo, OneIsLive
<1> QED BY <1>1, <1>2, <1>3, <1>4 DEF Next, Step

\* Every reachable state is of the type TypeOK says, and one stub is live at most.
THEOREM TypeCorrect == Spec => []TypeOK
<1>1. TypeInv => TypeOK
  BY DEF TypeInv
<1> QED BY <1>1, TypeInit, TypeNext, PTL DEF Spec

-----------------------------------------------------------------------------
(* Which statement a call has just run.                                    *)

LEMMA GoneTo ==
    ASSUME TypeInv, NEW c \in Calls, NEW where \in Places, Goto(c, where)
    PROVE  /\ call'[c].at = where /\ call'[c].op = call[c].op
           /\ call'[c].did = call[c].did /\ call'[c].target = call[c].target
           /\ call'[c].work = call[c].work
<1>1. call'[c] = [call[c] EXCEPT !.at = where]
  BY PutCall DEF Goto, TypeInv
<1>2. call[c] \in CallType
  BY DEF TypeInv, TypeOK
<1> QED BY <1>1, <1>2 DEF CallType

LEMMA Ended == ASSUME TypeInv, NEW c \in Calls, End(c) PROVE call'[c] = Idle
BY PutCall DEF End, TypeInv

LEMMA Left ==
    ASSUME TypeInv, NEW c \in Calls, Leave(c)
    PROVE  call'[c].at \in {"idle", "consuming"}
BY GoneTo, Ended DEF Leave, Places, Idle

\* Another place, unless a call has just gone there.
Elsewhere == Places \ {"indexing", "checking", "countersigning", "activating", "accepting",
                       "crediting", "identifying", "tombstoning"}

LEMMA PlaceAfter ==
    ASSUME TypeInv, NEW c \in Calls, Step(c)
    PROVE  \/ call'[c].at \in Elsewhere
           \/ call'[c].at = "indexing" /\ MintIdentity(c)
           \/ call'[c].at = "checking" /\ (Verify(c) \/ WriteAccept(c))
           \/ call'[c].at = "countersigning" /\ CheckStub(c)
           \/ call'[c].at = "activating" /\ CheckCountersign(c)
           \/ call'[c].at = "accepting"
              /\ (StartAccept(c) \/ IdentifyClicker(c) \/ InsertCredential(c))
           \/ call'[c].at = "crediting"
              /\ (Accrue(c) \/ IndexStub(c) \/ Activate(c) \/ StartRegister(c))
           \/ call'[c].at = "identifying" /\ StartAccept(c)
           \/ call'[c].at = "tombstoning" /\ SweepGuard(c)
<1> USE DEF Elsewhere, Places
<1>0. /\ \A now : Put(c, now) => call'[c] = now
      /\ \A now : Start(c, now) => call'[c] = now
      /\ End(c) => call'[c].at = "idle"
  BY PutCall, Ended DEF TypeInv, Idle, Start
<1>1. CASE Resolve(c)
  <2>1. CASE StartInvite(c) \/ StartSoft(c)
    BY <1>0, <2>1 DEF StartInvite, StartSoft, Idle
  <2>2. CASE Accrue(c)
    <3>1. CASE Goto(c, "minting")
      BY <3>1, GoneTo
    <3>2. ASSUME NEW d \in Live,
                 Put(c, [call[c] EXCEPT !.at = AfterMint(call[c].op), !.did = d, !.target = d])
          PROVE  call'[c].at \in {"inviting", "consuming", "crediting"}
      <4> DEFINE r == call[c]
      <4>1. r \in CallType /\ call'[c] = [r EXCEPT !.at = AfterMint(r.op), !.did = d, !.target = d]
        BY <1>0, <3>2 DEF TypeInv, TypeOK
      <4> HIDE DEF r
      <4> QED BY <4>1 DEF CallType, AfterMint
    <3> QED BY <2>2, <3>1, <3>2 DEF Accrue
  <2>3. CASE MintIdentity(c)
    <3>1. PICK d \in Dids : Put(c, [call[c] EXCEPT !.at = "indexing", !.did = d, !.target = d])
      BY <2>3 DEF MintIdentity
    <3> DEFINE r == call[c]
    <3>2. r \in CallType /\ call'[c] = [r EXCEPT !.at = "indexing", !.did = d, !.target = d]
      BY <1>0, <3>1 DEF TypeInv, TypeOK
    <3> HIDE DEF r
    <3>3. call'[c].at = "indexing"
      BY <3>2 DEF CallType
    <3> QED BY <2>3, <3>3
  <2>4. CASE IndexStub(c)
    <3>1. AfterMint(call[c].op) \in {"inviting", "consuming", "crediting"}
      BY DEF AfterMint
    <3>2. Goto(c, AfterMint(call[c].op)) \/ End(c)
      BY <2>4 DEF IndexStub
    <3> QED BY <1>0, <2>4, <3>1, <3>2, GoneTo
  <2>5. CASE InsertInvite(c)
    BY <1>0, <2>5 DEF InsertInvite
  <2> QED BY <1>1, <2>1, <2>2, <2>3, <2>4, <2>5 DEF Resolve
<1>2. CASE Onboard(c)
  <2>1. CASE StartOnboard(c)
    BY <1>0, <2>1 DEF StartOnboard, Idle
  <2>2. CASE Recall(c)
    <3> DEFINE r == call[c]
    <3>1. r \in CallType /\ call'[c] = [r EXCEPT !.at = IF cred = NoOne THEN "accruing" ELSE "consuming",
                              !.did = cred]
      BY <1>0, <2>2 DEF Recall, TypeInv, TypeOK
    <3> HIDE DEF r
    <3> QED BY <3>1 DEF CallType
  <2>3. CASE Select(c)
    <3>1. CASE Goto(c, "consuming")
      BY <3>1, GoneTo
    <3>2. ASSUME NEW d \in Live, Put(c, [call[c] EXCEPT !.at = "verifying", !.target = d])
          PROVE  call'[c].at = "verifying"
      <4> DEFINE r == call[c]
      <4>1. r \in CallType /\ call'[c] = [r EXCEPT !.at = "verifying", !.target = d]
        BY <1>0, <3>2 DEF TypeInv, TypeOK
      <4> HIDE DEF r
      <4> QED BY <4>1 DEF CallType
    <3> QED BY <2>3, <3>1, <3>2 DEF Select
  <2>4. CASE Verify(c)
    BY <2>4, GoneTo DEF Verify
  <2> QED BY <1>2, <2>1, <2>2, <2>3, <2>4 DEF Onboard
<1>3. CASE Ratchet(c)
  BY <1>3, GoneTo, Left DEF Ratchet, CheckStub, CheckCountersign, Activate, InsertCredential
<1>4. CASE Accept(c)
  <2>1. CASE ReadPending(c)
    <3>1. CASE Put(c, [call[c] EXCEPT !.at = "draining", !.work = Pending])
      <4> DEFINE r == call[c]
      <4>1. r \in CallType /\ call'[c] = [r EXCEPT !.at = "draining", !.work = Pending]
        BY <1>0, <3>1 DEF TypeInv, TypeOK
      <4> HIDE DEF r
      <4> QED BY <4>1 DEF CallType
    <3> QED BY <1>0, <2>1, <3>1 DEF ReadPending
  <2>2. CASE ConsumeInvite(c)
    <3>1. ASSUME NEW i, Put(c, [call[c] EXCEPT !.work = @ \ {i}]) PROVE call'[c].at = "draining"
      <4> DEFINE r == call[c]
      <4>1. r \in CallType /\ call'[c] = [r EXCEPT !.work = @ \ {i}] /\ r.at = "draining"
        BY <1>0, <2>2, <3>1 DEF TypeInv, TypeOK, ConsumeInvite, At
      <4> HIDE DEF r
      <4> QED BY <4>1 DEF CallType
    <3>2. End(c) \/ \E i : Put(c, [call[c] EXCEPT !.work = @ \ {i}])
      BY <2>2 DEF ConsumeInvite
    <3> QED BY <1>0, <3>1, <3>2
  <2>3. CASE StartAccept(c)
    BY <1>0, <2>3 DEF StartAccept, Idle
  <2>4. CASE IdentifyClicker(c)
    <3>1. CASE Put(c, [call[c] EXCEPT !.at = "accepting", !.target = call[c].did])
      <4> DEFINE r == call[c]
      <4>1. r \in CallType /\ call'[c] = [r EXCEPT !.at = "accepting", !.target = r.did]
        BY <1>0, <3>1 DEF TypeInv, TypeOK
      <4> HIDE DEF r
      <4>2. call'[c].at = "accepting"
        BY <4>1 DEF CallType
      <4> QED BY <2>4, <4>2
    <3> QED BY <1>0, <2>4, <3>1 DEF IdentifyClicker
  <2>5. CASE WriteAccept(c)
    BY <1>0, <2>5, GoneTo DEF WriteAccept
  <2>6. CASE StartRegister(c) \/ StartClose(c)
    BY <1>0, <2>6 DEF StartRegister, StartClose, Idle
  <2>7. CASE WriteClose(c)
    BY <1>0, <2>7 DEF WriteClose
  <2> QED BY <1>4, <2>1, <2>2, <2>3, <2>4, <2>5, <2>6, <2>7 DEF Accept
<1>5. CASE Sweep(c)
  <2>1. CASE StartSweep(c)
    BY <1>0, <2>1 DEF StartSweep, Idle
  <2>2. CASE SweepGuard(c) \/ Tombstone(c)
    BY <1>0, <2>2, GoneTo DEF SweepGuard, Tombstone
  <2> QED BY <1>5, <2>1, <2>2 DEF Sweep
<1>6. CASE Die(c)
  BY <1>0, <1>6 DEF Die
<1> QED BY <1>1, <1>2, <1>3, <1>4, <1>5, <1>6 DEF Step

-----------------------------------------------------------------------------
(* What a step changes in the database.                                    *)

\* An invite that is accepted was, or is accepted by this very call.
InvitesMove(c) ==
    \A i \in Invites : status'[i] = "accepted" =>
        \/ status[i] = "accepted" /\ to'[i] = to[i]
        \/ /\ to'[i] = call[c].did /\ call[c].did \in countersigned'
           /\ WriteAccept(c) \/ <<call[c].did, "consumed">> \in missed'
StubsMove(c) ==
    \A d \in Dids :
        \/ stub'[d] = stub[d]
        \/ IndexStub(c) /\ d = call[c].did /\ stub'[d] = "active"
        \/ Tombstone(c) /\ d = call[c].did /\ stub[d] = "active" /\ stub'[d] = "expired"
TiersMove(c) ==
    \A d \in Dids :
        \/ tier'[d] = tier[d]
        \/ tier[d] = "none" /\ (MintIdentity(c) \/ StartRegister(c)) /\ tier'[d] # "none"
        \/ tier[d] = "soft" /\ tier'[d] = "preliminary"
Grow(c) ==
    /\ verified \subseteq verified' /\ countersigned \subseteq countersigned'
    /\ missed \subseteq missed'
    /\ \A d \in verified' \ verified :
          Verify(c) /\ d \in Live /\ (d = call[c].target \/ <<d, "stray">> \in missed')
    /\ \/ claimed' = claimed
       \/ /\ Activate(c) /\ claimed' = claimed \cup {call[c].target}
          /\ tier'[call[c].target] = "preliminary"
Moves(c) == InvitesMove(c) /\ StubsMove(c) /\ TiersMove(c) /\ Grow(c)

LEMMA Untouched ==
    ASSUME NEW c \in Calls, UNCHANGED <<tier, stub, verified, status, to>>,
           UNCHANGED <<claimed, countersigned, missed>>
    PROVE  Moves(c)
BY DEF Moves, InvitesMove, StubsMove, TiersMove, Grow

LEMMA StepMoves ==
    ASSUME TypeInv, NEW c \in Calls, Step(c)
    PROVE  Moves(c)
<1>0. /\ tier \in [Dids -> Tiers] /\ stub \in [Dids -> StubStatuses]
      /\ status \in [Invites -> InviteStatuses] /\ to \in [Invites -> Dids \cup {NoOne}]
  BY DEF TypeInv, TypeOK
<1>1. CASE \/ StartInvite(c) \/ StartSoft(c) \/ Accrue(c) \/ StartOnboard(c) \/ Recall(c)
           \/ Select(c) \/ CheckStub(c) \/ CheckCountersign(c) \/ InsertCredential(c)
  BY <1>1, Untouched DEF StartInvite, StartSoft, Accrue, StartOnboard, Recall, Select, CheckStub,
     CheckCountersign, InsertCredential, Start, db, history
<1>2. CASE \/ ReadPending(c) \/ StartAccept(c) \/ IdentifyClicker(c) \/ StartClose(c)
           \/ StartSweep(c) \/ SweepGuard(c)
  BY <1>2, Untouched DEF ReadPending, StartAccept, IdentifyClicker, StartClose, StartSweep,
     SweepGuard, Start, db, history
<1>3. CASE MintIdentity(c)
  BY <1>0, <1>3 DEF MintIdentity, history, Moves, InvitesMove, StubsMove, TiersMove, Grow
<1>4. CASE IndexStub(c)
  <2>1. StubsMove(c)
    BY <1>0, <1>4 DEF IndexStub, StubsMove
  <2> QED BY <1>4, <2>1 DEF IndexStub, history, Moves, InvitesMove, TiersMove, Grow
<1>5. CASE InsertInvite(c)
  BY <1>0, <1>5 DEF InsertInvite, history, Moves, InvitesMove, StubsMove, TiersMove, Grow
<1>6. CASE Verify(c)
  <2>1. Grow(c)
    BY <1>6 DEF Verify, Grow
  <2> QED BY <1>6, <2>1 DEF Verify, Moves, InvitesMove, StubsMove, TiersMove
<1>7. CASE Activate(c)
  <2>1. call[c].target \in Dids
    BY <1>7, CallFacts DEF Activate, At, HoldsTarget
  <2>2. TiersMove(c)
    BY <1>0, <1>7, <2>1 DEF Activate, TiersMove
  <2>3. Grow(c)
    BY <1>0, <1>7, <2>1 DEF Activate, Grow
  <2> QED BY <1>7, <2>2, <2>3 DEF Activate, Moves, InvitesMove, StubsMove
<1>8. CASE ConsumeInvite(c)
  <2>1. UNCHANGED <<tier, stub, verified, claimed>>
    BY <1>8 DEF ConsumeInvite
  <2>2. InvitesMove(c)
    BY <1>0, <1>8 DEF ConsumeInvite, InvitesMove
  <2>3. Grow(c)
    BY <1>8, <2>1 DEF ConsumeInvite, Grow
  <2> QED BY <2>1, <2>2, <2>3 DEF Moves, StubsMove, TiersMove
<1>9. CASE WriteAccept(c)
  <2>1. InvitesMove(c)
    BY <1>0, <1>9 DEF WriteAccept, Accepted, InvitesMove
  <2> QED BY <1>9, <2>1 DEF WriteAccept, Accepted, Moves, StubsMove, TiersMove, Grow
<1>10. CASE StartRegister(c)
  <2>1. TiersMove(c)
    BY <1>0, <1>10 DEF StartRegister, TiersMove
  <2>2. UNCHANGED <<stub, verified, status, to, claimed, countersigned, missed>>
    BY <1>10 DEF StartRegister, Start
  <2> QED BY <2>1, <2>2 DEF Moves, InvitesMove, StubsMove, Grow
<1>11. CASE WriteClose(c)
  BY <1>0, <1>11 DEF WriteClose, history, Moves, InvitesMove, StubsMove, TiersMove, Grow
<1>12. CASE Tombstone(c)
  <2>1. StubsMove(c)
    BY <1>0, <1>12 DEF Tombstone, StubsMove, Live
  <2>2. InvitesMove(c)
    BY <1>0, <1>12 DEF Tombstone, InvitesMove
  <2> QED BY <1>12, <2>1, <2>2 DEF Tombstone, history, Moves, TiersMove, Grow
<1>13. CASE Die(c)
  BY <1>13 DEF Die, db, Moves, InvitesMove, StubsMove, TiersMove, Grow
<1> QED BY <1>1, <1>2, <1>3, <1>4, <1>5, <1>6, <1>7, <1>8, <1>9, <1>10, <1>11, <1>12, <1>13
        DEF Step, Resolve, Onboard, Ratchet, Accept, Sweep

-----------------------------------------------------------------------------
(* Nothing is claimed from one side.                                       *)

Witnessed ==
    /\ \A c \in Calls : call[c].at \in {"countersigning", "activating"} =>
          call[c].target \in verified
    /\ \A c \in Calls : call[c].at = "activating" => call[c].target \in countersigned
    /\ \A i \in Invites : status[i] = "accepted" => to[i] \in countersigned
    /\ claimed \subseteq verified \cap countersigned
SidesInv == TypeInv /\ Witnessed

LEMMA SidesNext == SidesInv /\ [Next]_vars => SidesInv'
<1> SUFFICES ASSUME SidesInv, [Next]_vars PROVE SidesInv'
  OBVIOUS
<1>1. TypeInv /\ TypeInv'
  BY TypeNext DEF SidesInv
<1>2. ASSUME NEW c \in Calls, Step(c) PROVE Witnessed'
  <2>1. Moves(c) /\ \A x \in Calls \ {c} : call'[x] = call[x]
    BY <1>1, <1>2, StepMoves, StepKeepsCalls
  <2>2. call'[c].at = "countersigning" => call'[c].target \in verified
    <3> SUFFICES ASSUME call'[c].at = "countersigning" PROVE call'[c].target \in verified
      OBVIOUS
    <3>1. CheckStub(c)
      BY <1>1, <1>2, PlaceAfter DEF Elsewhere
    <3>2. ~Leave(c)
      BY <1>1, Left
    <3> QED BY <1>1, <3>1, <3>2, GoneTo DEF CheckStub, Places
  <2>3. call'[c].at = "activating" => call'[c].target \in verified \cap countersigned
    <3> SUFFICES ASSUME call'[c].at = "activating"
                 PROVE  call'[c].target \in verified \cap countersigned
      OBVIOUS
    <3>1. CheckCountersign(c)
      BY <1>1, <1>2, PlaceAfter DEF Elsewhere
    <3>2. ~Leave(c)
      BY <1>1, Left
    <3>3. call'[c].target = call[c].target
      BY <1>1, <3>1, <3>2, GoneTo DEF CheckCountersign, Places
    <3> QED BY <3>1, <3>2, <3>3 DEF CheckCountersign, At, SidesInv, Witnessed
  <2>4. claimed' \subseteq verified' \cap countersigned'
    BY <2>1 DEF Moves, Grow, Activate, At, SidesInv, Witnessed
  <2>5. \A i \in Invites : status'[i] = "accepted" => to'[i] \in countersigned'
    BY <2>1 DEF Moves, Grow, InvitesMove, SidesInv, Witnessed
  <2>6. verified \subseteq verified' /\ countersigned \subseteq countersigned'
    BY <2>1 DEF Moves, Grow
  <2>7. \A x \in Calls : x # c => call'[x] = call[x]
    BY <2>1
  <2> QED BY <2>2, <2>3, <2>4, <2>5, <2>6, <2>7 DEF SidesInv, Witnessed
<1>3. CASE Lapse \/ Qualify \/ UNCHANGED vars
  BY <1>1, <1>3 DEF Lapse, Qualify, history, vars, SidesInv, Witnessed
<1> QED BY <1>1, <1>2, <1>3 DEF Next, Step, SidesInv

LEMMA SidesInit == Init => SidesInv
BY TypeInit DEF Init, SidesInv, Witnessed, Idle

\* The ratchet turns no identity whose owner has not verified the address or whom
\* no invite was ever accepted by, whichever calls run into each other.
THEOREM ClaimsTakeBothSides == Spec => []ClaimedFromBothSides
<1>1. SidesInv => ClaimedFromBothSides
  BY DEF SidesInv, Witnessed, ClaimedFromBothSides
<1> QED BY <1>1, SidesInit, SidesNext, PTL DEF Spec

-----------------------------------------------------------------------------
(* The ratchet.                                                            *)

\* A call keeps its operation until it ends.
LEMMA OpAfter ==
    ASSUME TypeInv, NEW c \in Calls, Step(c)
    PROVE  call'[c].op = call[c].op \/ call'[c].op # "register" \/ StartRegister(c)
<1>0. /\ \A now : Put(c, now) => call'[c] = now
      /\ \A now : Start(c, now) => call'[c] = now
      /\ End(c) => call'[c].op = "none" /\ call'[c].at = "idle"
      /\ \A where \in Places : Goto(c, where) => call'[c].op = call[c].op
      /\ call[c] \in CallType
  BY PutCall, Ended, GoneTo DEF TypeInv, TypeOK, Idle, Start
<1> DEFINE r == call[c]
<1>2. CASE Leave(c)
  BY <1>0, <1>2 DEF Leave, Places
<1>3. CASE StartInvite(c) \/ StartSoft(c) \/ StartOnboard(c) \/ StartClose(c) \/ StartSweep(c)
  BY <1>0, <1>3 DEF StartInvite, StartSoft, StartOnboard, StartClose, StartSweep, Idle
<1>4. CASE StartAccept(c)
  BY <1>0, <1>4 DEF StartAccept, Idle
<1>5. CASE StartRegister(c)
  BY <1>5
<1>6. CASE Accrue(c) \/ MintIdentity(c) \/ Recall(c) \/ Select(c)
  <2>1. \/ Goto(c, "minting") \/ Goto(c, "consuming")
        \/ \E p, d : Put(c, [r EXCEPT !.at = p, !.did = d])
        \/ \E p, t : Put(c, [r EXCEPT !.at = p, !.target = t])
        \/ \E p, d, t : Put(c, [r EXCEPT !.at = p, !.did = d, !.target = t])
    BY <1>6 DEF Accrue, MintIdentity, Recall, Select
  <2>2. CASE Goto(c, "minting") \/ Goto(c, "consuming")
    BY <1>0, <2>2 DEF Places
  <2>3. ASSUME NEW p, NEW d, Put(c, [r EXCEPT !.at = p, !.did = d])
        PROVE  call'[c].op = call[c].op
    <3>1. r \in CallType /\ call'[c] = [r EXCEPT !.at = p, !.did = d]
      BY <1>0, <2>3
    <3>2. call'[c].op = r.op
      <4> HIDE DEF r
      <4> QED BY <3>1 DEF CallType
    <3> QED BY <3>2
  <2>4. ASSUME NEW p, NEW t, Put(c, [r EXCEPT !.at = p, !.target = t])
        PROVE  call'[c].op = call[c].op
    <3>1. r \in CallType /\ call'[c] = [r EXCEPT !.at = p, !.target = t]
      BY <1>0, <2>4
    <3>2. call'[c].op = r.op
      <4> HIDE DEF r
      <4> QED BY <3>1 DEF CallType
    <3> QED BY <3>2
  <2>5. ASSUME NEW p, NEW d, NEW t, Put(c, [r EXCEPT !.at = p, !.did = d, !.target = t])
        PROVE  call'[c].op = call[c].op
    <3>1. r \in CallType /\ call'[c] = [r EXCEPT !.at = p, !.did = d, !.target = t]
      BY <1>0, <2>5
    <3>2. call'[c].op = r.op
      <4> HIDE DEF r
      <4> QED BY <3>1 DEF CallType
    <3> QED BY <3>2
  <2> QED BY <2>1, <2>2, <2>3, <2>4, <2>5
<1>7. CASE IndexStub(c)
  <2>1. AfterMint(call[c].op) \in Places
    BY DEF AfterMint, Places
  <2> QED BY <1>0, <1>7, <2>1 DEF IndexStub
<1>8. CASE InsertInvite(c) \/ Verify(c) \/ WriteAccept(c) \/ WriteClose(c) \/ SweepGuard(c)
           \/ Tombstone(c) \/ Die(c)
  BY <1>0, <1>8 DEF InsertInvite, Verify, WriteAccept, WriteClose, SweepGuard, Tombstone, Die, Places
<1>9. CASE ReadPending(c) \/ ConsumeInvite(c) \/ IdentifyClicker(c)
  <2>1. \/ End(c)
        \/ \E p, w : Put(c, [r EXCEPT !.at = p, !.work = w])
        \/ \E i : Put(c, [r EXCEPT !.work = @ \ {i}])
        \/ \E p, t : Put(c, [r EXCEPT !.at = p, !.target = t])
    BY <1>9 DEF ReadPending, ConsumeInvite, IdentifyClicker
  <2>2. CASE End(c)
    BY <1>0, <2>2
  <2>3. ASSUME NEW p, NEW w, Put(c, [r EXCEPT !.at = p, !.work = w])
        PROVE  call'[c].op = call[c].op
    <3>1. r \in CallType /\ call'[c] = [r EXCEPT !.at = p, !.work = w]
      BY <1>0, <2>3
    <3>2. call'[c].op = r.op
      <4> HIDE DEF r
      <4> QED BY <3>1 DEF CallType
    <3> QED BY <3>2
  <2>4. ASSUME NEW i, Put(c, [r EXCEPT !.work = @ \ {i}])
        PROVE  call'[c].op = call[c].op
    <3>1. r \in CallType /\ call'[c] = [r EXCEPT !.work = @ \ {i}]
      BY <1>0, <2>4
    <3>2. call'[c].op = r.op
      <4> HIDE DEF r
      <4> QED BY <3>1 DEF CallType
    <3> QED BY <3>2
  <2>5. ASSUME NEW p, NEW t, Put(c, [r EXCEPT !.at = p, !.target = t])
        PROVE  call'[c].op = call[c].op
    <3>1. r \in CallType /\ call'[c] = [r EXCEPT !.at = p, !.target = t]
      BY <1>0, <2>5
    <3>2. call'[c].op = r.op
      <4> HIDE DEF r
      <4> QED BY <3>1 DEF CallType
    <3> QED BY <3>2
  <2> QED BY <2>1, <2>2, <2>3, <2>4, <2>5
<1>10. CASE CheckStub(c) \/ CheckCountersign(c) \/ Activate(c) \/ InsertCredential(c)
  BY <1>0, <1>2, <1>10 DEF CheckStub, CheckCountersign, Activate, InsertCredential, Places
<1> QED BY <1>3, <1>4, <1>5, <1>6, <1>7, <1>8, <1>9, <1>10
        DEF Step, Resolve, Onboard, Ratchet, Accept, Sweep

\* Where an identity comes from: a stub is minted once and indexed by who minted
\* it, a registered identity is never soft.
Minted ==
    /\ \A d \in Dids : stub[d] # "none" => tier[d] # "none"
    /\ \A d \in verified : stub[d] # "none"
    /\ \A c \in Calls : call[c].at = "indexing" =>
          stub[call[c].did] = "none" /\ tier[call[c].did] # "none"
    /\ \A c, x \in Calls :
          call[c].at = "indexing" /\ call[x].at = "indexing" /\ call[c].did = call[x].did => c = x
Registers(c) ==
    /\ call[c].op = "register" =>
          /\ call[c].at \in {"crediting", "accepting"} /\ call[c].target = call[c].did
          /\ call[c].did \in Dids /\ tier[call[c].did] = "preliminary"
    /\ call[c].at = "identifying" => call[c].op = "accept"
    /\ call[c].at = "accepting" =>
          call[c].op \in {"accept", "register"} /\ call[c].target = call[c].did

\* A call that will look at both halves of d again.
Trying(c, d) ==
    call[c].target = d /\ call[c].at \in {"checking", "countersigning", "activating"}
SomebodyTries ==
    \A d \in Dids : Unclosed(d) => Excused(d, Reasons) \/ \E c \in Calls : Trying(c, d)
RatchetInv == TypeInv /\ Minted /\ (\A c \in Calls : Registers(c)) /\ SomebodyTries

LEMMA MintedNext ==
    ASSUME TypeInv, TypeInv', Minted, NEW c \in Calls, Step(c)
    PROVE  Minted'
<1>1. Moves(c) /\ \A x \in Calls \ {c} : call'[x] = call[x]
  BY StepMoves, StepKeepsCalls
<1>2. \A x \in Calls : call[x].at = "indexing" => call[x].did \in Dids
  BY CallFacts DEF HoldsDid, Places
<1>3. \A d \in Dids : tier[d] # "none" => tier'[d] # "none"
  BY <1>1 DEF Moves, TiersMove
<1>4. \A d \in Dids : stub[d] # "none" => stub'[d] # "none"
  BY <1>1 DEF Moves, StubsMove
<1>5. \A d \in Dids : stub'[d] # "none" => tier'[d] # "none"
  BY <1>1, <1>2, <1>3 DEF Moves, StubsMove, Minted, IndexStub, At
<1>6. \A d \in verified' : stub'[d] # "none"
  BY <1>1, <1>4 DEF Moves, Grow, Live, Minted, TypeInv, TypeOK
<1>7. call'[c].at = "indexing" =>
        /\ call'[c].did \in Dids /\ tier[call'[c].did] = "none"
        /\ stub'[call'[c].did] = "none" /\ tier'[call'[c].did] # "none"
  <2> SUFFICES ASSUME call'[c].at = "indexing"
               PROVE  /\ call'[c].did \in Dids /\ tier[call'[c].did] = "none"
                      /\ stub'[call'[c].did] = "none" /\ tier'[call'[c].did] # "none"
    OBVIOUS
  <2>1. MintIdentity(c)
    BY PlaceAfter DEF Elsewhere
  <2>2. PICK d \in Dids :
          /\ tier[d] = "none" /\ tier' = [tier EXCEPT ![d] = "soft"]
          /\ Put(c, [call[c] EXCEPT !.at = "indexing", !.did = d, !.target = d])
    BY <2>1 DEF MintIdentity
  <2>3. call'[c].did = d
    <3> DEFINE r == call[c]
    <3>1. r \in CallType /\ call'[c] = [r EXCEPT !.at = "indexing", !.did = d, !.target = d]
      BY <2>2, PutCall DEF TypeInv, TypeOK
    <3> HIDE DEF r
    <3> QED BY <3>1 DEF CallType
  <2>4. stub'[d] = "none"
    BY <2>1, <2>2 DEF MintIdentity, Minted, TypeInv, TypeOK
  <2>5. tier'[d] = "soft"
    BY <2>2 DEF TypeInv, TypeOK
  <2> QED BY <2>2, <2>3, <2>4, <2>5
<1>8. \A x \in Calls : x # c /\ call[x].at = "indexing" =>
        stub'[call[x].did] = "none" /\ tier'[call[x].did] # "none"
  <2> SUFFICES ASSUME NEW x \in Calls, x # c, call[x].at = "indexing"
               PROVE  stub'[call[x].did] = "none" /\ tier'[call[x].did] # "none"
    OBVIOUS
  <2>1. stub[call[x].did] = "none" /\ tier[call[x].did] # "none" /\ call[x].did \in Dids
    BY <1>2 DEF Minted
  <2>2. ~(IndexStub(c) /\ call[x].did = call[c].did)
    BY DEF Minted, IndexStub, At
  <2> QED BY <1>1, <1>3, <2>1, <2>2 DEF Moves, StubsMove
<1>9. \A x \in Calls : x # c => call'[x] = call[x]
  BY <1>1
<1>10. \A x, y \in Calls :
          call'[x].at = "indexing" /\ call'[y].at = "indexing" /\ call'[x].did = call'[y].did => x = y
  BY <1>7, <1>8, <1>9 DEF Minted
<1> QED BY <1>5, <1>6, <1>7, <1>8, <1>9, <1>10 DEF Minted

LEMMA RegisteredCall ==
    ASSUME TypeInv, NEW c \in Calls, StartRegister(c)
    PROVE  /\ call'[c].at = "crediting" /\ call'[c].did = call'[c].target
           /\ call'[c].did \in Dids /\ tier'[call'[c].did] = "preliminary"
<1>1. PICK d \in Dids, w \in {{}} \cup {{i} : i \in Pending} :
        /\ tier' = [tier EXCEPT ![d] = "preliminary"]
        /\ Start(c, [Idle EXCEPT !.at = "crediting", !.op = "register",
                                 !.did = d, !.target = d, !.work = w])
  BY DEF StartRegister
<1>2. call'[c].did = d /\ call'[c].target = d /\ call'[c].at = "crediting"
  <2>1. call'[c] = [Idle EXCEPT !.at = "crediting", !.op = "register",
                                !.did = d, !.target = d, !.work = w]
    BY <1>1, PutCall DEF Start, TypeInv
  <2> QED BY <2>1 DEF Idle
<1>3. tier'[d] = "preliminary"
  BY <1>1 DEF TypeInv, TypeOK
<1> QED BY <1>2, <1>3

LEMMA RegistersNext ==
    ASSUME TypeInv, TypeInv', \A x \in Calls : Registers(x), NEW c \in Calls, Step(c)
    PROVE  \A x \in Calls : Registers(x)'
<1>1. Moves(c) /\ \A x \in Calls \ {c} : call'[x] = call[x]
  BY StepMoves, StepKeepsCalls
<1>2. \A d \in Dids : tier[d] = "preliminary" => tier'[d] = "preliminary"
  BY <1>1 DEF Moves, TiersMove
<1>3. ASSUME NEW x \in Calls \ {c} PROVE Registers(x)'
  BY <1>1, <1>2, <1>3 DEF Registers
<1>4. ASSUME StartAccept(c)
      PROVE  /\ call'[c].op = "accept"
             /\ call'[c].at = "accepting" => call'[c].target = call'[c].did
  <2>1. PICK i \in Pending :
           \/ Start(c, [Idle EXCEPT !.at = "identifying", !.op = "accept",
                                    !.did = to[i], !.work = {i}])
           \/ \E s \in sessions :
                 Start(c, [Idle EXCEPT !.at = "accepting", !.op = "accept",
                                          !.did = s, !.target = s, !.work = {i}])
    BY <1>4 DEF StartAccept
  <2>2. \/ call'[c] = [Idle EXCEPT !.at = "identifying", !.op = "accept",
                                   !.did = to[i], !.work = {i}]
        \/ \E s \in sessions :
              call'[c] = [Idle EXCEPT !.at = "accepting", !.op = "accept",
                                      !.did = s, !.target = s, !.work = {i}]
    <3>1. \A now : Start(c, now) => call'[c] = now
      BY PutCall DEF Start, TypeInv
    <3> QED BY <2>1, <3>1
  <2> QED BY <2>2 DEF Idle
<1>5. call'[c].at = "identifying" => call'[c].op = "accept"
  BY <1>4, PlaceAfter DEF Elsewhere
<1>6. ASSUME call'[c].op = "register"
      PROVE  /\ call'[c].at \in {"crediting", "accepting"} /\ call'[c].target = call'[c].did
             /\ call'[c].did \in Dids /\ tier'[call'[c].did] = "preliminary"
  <2>1. CASE StartRegister(c)
    BY <2>1, RegisteredCall
  <2>2. CASE call[c].op = "register" /\ ~StartRegister(c)
    <3>1. InsertCredential(c) \/ WriteAccept(c) \/ Die(c)
      <4>1. call[c].at \in {"crediting", "accepting"}
        BY <2>2 DEF Registers
      <4>2. ~Resolve(c)
        BY <4>1 DEF Resolve, StartInvite, StartSoft, Accrue, MintIdentity, IndexStub, InsertInvite,
           Start, At
      <4>3. ~Onboard(c)
        BY <4>1 DEF Onboard, StartOnboard, Recall, Select, Verify, Start, At
      <4>4. ~Sweep(c)
        BY <4>1 DEF Sweep, StartSweep, SweepGuard, Tombstone, Start, At
      <4>5. Ratchet(c) => InsertCredential(c)
        BY <4>1 DEF Ratchet, CheckStub, CheckCountersign, Activate, At
      <4>6. Accept(c) => WriteAccept(c)
        BY <4>1 DEF Accept, ReadPending, ConsumeInvite, StartAccept, IdentifyClicker, StartRegister,
           StartClose, WriteClose, Start, At
      <4> QED BY <4>2, <4>3, <4>4, <4>5, <4>6 DEF Step
    <3>2. ~End(c)
      BY <1>6, Ended DEF Idle
    <3>3. Goto(c, "accepting")
      BY <2>2, <3>1, <3>2 DEF InsertCredential, WriteAccept, Die, Leave
    <3>4. call[c].did \in Dids /\ tier[call[c].did] = "preliminary" /\ call[c].target = call[c].did
      BY <2>2 DEF Registers
    <3> QED BY <1>2, <3>3, <3>4, GoneTo DEF Places
  <2> QED BY <1>6, <2>1, <2>2, OpAfter
<1>7. ASSUME call'[c].at = "accepting"
      PROVE  call'[c].op \in {"accept", "register"} /\ call'[c].target = call'[c].did
  <2>1. CASE StartAccept(c)
    BY <1>4, <1>7, <2>1
  <2>2. CASE IdentifyClicker(c)
    <3>1. call[c].op = "accept"
      BY <2>2 DEF IdentifyClicker, At, Registers
    <3>2. Put(c, [call[c] EXCEPT !.at = "accepting", !.target = call[c].did])
      BY <1>7, <2>2, Ended DEF IdentifyClicker, Idle
    <3> DEFINE r == call[c]
    <3>3. r \in CallType /\ call'[c] = [r EXCEPT !.at = "accepting", !.target = r.did]
      BY <3>2, PutCall DEF TypeInv, TypeOK
    <3>4. call'[c].op = r.op /\ call'[c].target = r.did /\ call'[c].did = r.did
      <4> HIDE DEF r
      <4> QED BY <3>3 DEF CallType
    <3> QED BY <3>1, <3>4
  <2>3. CASE InsertCredential(c)
    <3>1. ~Leave(c)
      BY <1>7, Left
    <3>2. call[c].op = "register" /\ Goto(c, "accepting")
      BY <2>3, <3>1 DEF InsertCredential
    <3> QED BY <3>2, GoneTo DEF Registers, Places
  <2> QED BY <1>7, <2>1, <2>2, <2>3, PlaceAfter DEF Elsewhere
<1> QED BY <1>3, <1>5, <1>6, <1>7 DEF Registers

\* Whoever tries goes on trying until the identity is turned.
LEMMA TryingLasts ==
    ASSUME TypeInv, NEW c \in Calls, Step(c), NEW d \in Dids, Trying(c, d), Unclosed(d)
    PROVE  Trying(c, d)' \/ tier'[d] = "preliminary" \/ <<d, "died">> \in missed'
<1>1. call[c].target = d /\ d \in verified \cap Live /\ tier[d] = "soft"
      /\ \E i \in Invites : status[i] = "accepted" /\ to[i] = d
  BY DEF Trying, Unclosed
<1>2. call[c].at \in {"checking", "countersigning", "activating"}
  BY DEF Trying
<1>3. CheckStub(c) \/ CheckCountersign(c) \/ Activate(c) \/ Die(c)
  <2>1. ~Resolve(c)
    BY <1>2 DEF Resolve, StartInvite, StartSoft, Accrue, MintIdentity, IndexStub, InsertInvite,
       Start, At
  <2>2. ~Onboard(c)
    BY <1>2 DEF Onboard, StartOnboard, Recall, Select, Verify, Start, At
  <2>3. ~Sweep(c)
    BY <1>2 DEF Sweep, StartSweep, SweepGuard, Tombstone, Start, At
  <2>4. ~InsertCredential(c)
    BY <1>2 DEF InsertCredential, At
  <2>5. ~Accept(c)
    BY <1>2 DEF Accept, ReadPending, ConsumeInvite, StartAccept, IdentifyClicker, WriteAccept,
       StartRegister, StartClose, WriteClose, Start, At
  <2> QED BY <2>1, <2>2, <2>3, <2>4, <2>5 DEF Step, Ratchet
<1>4. CASE CheckStub(c)
  <2>1. Goto(c, "countersigning")
    BY <1>1, <1>4 DEF CheckStub
  <2> QED BY <1>1, <2>1, GoneTo DEF Trying, Places
<1>5. CASE CheckCountersign(c)
  <2>1. Goto(c, "activating")
    BY <1>1, <1>5 DEF CheckCountersign
  <2> QED BY <1>1, <2>1, GoneTo DEF Trying, Places
<1>6. CASE Activate(c)
  BY <1>1, <1>6 DEF Activate, TypeInv, TypeOK
<1>7. CASE Die(c)
  <2>1. d # NoOne
    BY ClaimStubAssumption
  <2> QED BY <1>1, <1>7, <2>1 DEF Die
<1> QED BY <1>3, <1>4, <1>5, <1>6, <1>7

\* What makes an identity unclosed sets out to close it, or says that it does not.
LEMMA UnclosedIsNoticed ==
    ASSUME RatchetInv, NEW c \in Calls, Step(c), NEW d \in Dids, Unclosed(d)', ~Unclosed(d)
    PROVE  Trying(c, d)' \/ Excused(d, Reasons)'
<1>0. /\ TypeInv /\ Minted /\ Registers(c) /\ Moves(c)
      /\ \A x \in Dids : tier[x] \in Tiers /\ stub[x] \in StubStatuses
  BY StepMoves DEF RatchetInv, TypeInv, TypeOK
<1>1. d \in verified' /\ stub'[d] = "active" /\ tier'[d] = "soft"
  BY DEF Unclosed, Live
<1>2. PICK i \in Invites : status'[i] = "accepted" /\ to'[i] = d
  BY DEF Unclosed
<1>3. CASE d \notin verified
  <2>1. Verify(c) /\ (d = call[c].target \/ <<d, "stray">> \in missed')
    BY <1>0, <1>1, <1>3 DEF Moves, Grow
  <2>2. CASE d = call[c].target
    BY <1>0, <2>1, <2>2, GoneTo DEF Verify, Trying, Places
  <2> QED BY <2>1, <2>2 DEF Excused, Reasons
<1>4. CASE d \in verified
  <2>1. stub[d] = "active"
    <3>1. stub[d] # "none"
      BY <1>0, <1>4 DEF Minted
    <3>2. ~(IndexStub(c) /\ d = call[c].did)
      BY <1>0, <3>1 DEF Minted, IndexStub, At
    <3> QED BY <1>0, <1>1, <3>2 DEF Moves, StubsMove
  <2>2. tier[d] = "soft"
    <3>1. tier[d] # "none"
      BY <1>0, <2>1 DEF Minted
    <3> QED BY <1>0, <1>1, <3>1 DEF Moves, TiersMove
  <2>3. ~(status[i] = "accepted" /\ to[i] = d)
    BY <1>4, <2>1, <2>2 DEF Unclosed, Live
  <2>4. d = call[c].did /\ (WriteAccept(c) \/ <<d, "consumed">> \in missed')
    BY <1>0, <1>2, <2>3 DEF Moves, InvitesMove
  <2>5. CASE WriteAccept(c)
    <3>1. call[c].op = "accept" /\ call[c].target = d
      BY <1>0, <2>2, <2>4, <2>5 DEF WriteAccept, At, Registers
    <3>2. Goto(c, "checking")
      BY <2>5, <3>1 DEF WriteAccept
    <3> QED BY <1>0, <3>1, <3>2, GoneTo DEF Trying, Places
  <2> QED BY <2>4, <2>5 DEF Excused, Reasons
<1> QED BY <1>3, <1>4

LEMMA RatchetNext == RatchetInv /\ [Next]_vars => RatchetInv'
<1> SUFFICES ASSUME RatchetInv, [Next]_vars PROVE RatchetInv'
  OBVIOUS
<1>1. TypeInv /\ TypeInv' /\ Minted /\ \A x \in Calls : Registers(x)
  BY TypeNext DEF RatchetInv
<1>2. ASSUME NEW c \in Calls, Step(c) PROVE RatchetInv'
  <2>1. Minted' /\ \A x \in Calls : Registers(x)'
    BY <1>1, <1>2, MintedNext, RegistersNext
  <2>2. missed \subseteq missed' /\ \A x \in Calls : x # c => call'[x] = call[x]
    BY <1>1, <1>2, StepMoves, StepKeepsCalls DEF Moves, Grow
  <2>3. ASSUME NEW d \in Dids, Unclosed(d)'
        PROVE  Excused(d, Reasons)' \/ \E x \in Calls : Trying(x, d)'
    <3>1. CASE ~Unclosed(d)
      BY <1>2, <2>3, <3>1, UnclosedIsNoticed
    <3>2. CASE Unclosed(d) /\ Excused(d, Reasons)
      BY <2>2, <3>2 DEF Excused
    <3>3. CASE Unclosed(d) /\ \E x \in Calls : Trying(x, d)
      <4>1. PICK x \in Calls : Trying(x, d)
        BY <3>3
      <4>2. CASE x = c
        <5>1. tier'[d] # "preliminary"
          BY <2>3 DEF Unclosed
        <5>2. Trying(c, d)' \/ <<d, "died">> \in missed'
          BY <1>1, <1>2, <3>3, <4>1, <4>2, <5>1, TryingLasts
        <5> QED BY <5>2 DEF Excused, Reasons
      <4>3. CASE x # c
        BY <2>2, <4>1, <4>3 DEF Trying
      <4> QED BY <4>2, <4>3
    <3> QED BY <3>1, <3>2, <3>3 DEF RatchetInv, SomebodyTries
  <2>4. SomebodyTries'
    BY <2>3 DEF SomebodyTries
  <2> QED BY <1>1, <2>1, <2>4 DEF RatchetInv
<1>3. CASE Lapse \/ UNCHANGED vars
  BY <1>1, <1>3 DEF Lapse, vars, history, RatchetInv, Minted, Registers, SomebodyTries, Unclosed, Live,
     Excused, Trying
<1>4. CASE Qualify
  <2>1. UNCHANGED <<stub, verified, status, to, call, missed>>
    BY <1>4 DEF Qualify, history
  <2>2. \A d \in Dids : tier'[d] = tier[d] \/ (tier[d] = "soft" /\ tier'[d] = "preliminary")
    BY <1>1, <1>4 DEF Qualify, TypeInv, TypeOK
  <2>3. Minted'
    <3>1. \A x \in Calls : call[x].at = "indexing" => call[x].did \in Dids
      BY <1>1, CallFacts DEF HoldsDid, Places
    <3> QED BY <1>1, <2>1, <2>2, <3>1 DEF Minted
  <2>4. \A x \in Calls : Registers(x)'
    BY <1>1, <2>1, <2>2 DEF Registers
  <2>5. SomebodyTries'
    BY <2>1, <2>2 DEF RatchetInv, SomebodyTries, Unclosed, Live, Excused, Trying
  <2> QED BY <1>1, <2>3, <2>4, <2>5 DEF RatchetInv
<1> QED BY <1>2, <1>3, <1>4 DEF Next, Step

LEMMA RatchetInit == Init => RatchetInv
BY TypeInit DEF Init, RatchetInv, Minted, Registers, SomebodyTries, Unclosed, Idle

\* Whichever of the two halves comes second, and whatever runs beside it, a live stub
\* that has both is turned by the time the calls about it have ended, unless one of
\* them died or set a half without going on to the ratchet.
THEOREM TheRatchetCloses == Spec => []RatchetCloses
<1>1. RatchetInv => RatchetCloses
  BY DEF RatchetInv, SomebodyTries, RatchetCloses, Quiet, Trying
<1> QED BY <1>1, RatchetInit, RatchetNext, PTL DEF Spec

-----------------------------------------------------------------------------
(* What lapses, without overlap.                                           *)

ClaimedIsTurned == \A d \in claimed : tier[d] = "preliminary"
OneAtATime ==
    ~overlap =>
        /\ \A c, x \in Calls : Busy(c) /\ Busy(x) => c = x
        /\ \A c \in Calls : call[c].at \in {"countersigning", "activating"} =>
              stub[call[c].target] = "active"
        /\ \A c \in Calls : call[c].at = "tombstoning" => call[c].did \notin claimed
        /\ \A d \in claimed : stub[d] # "expired"
AloneInv == TypeInv /\ ClaimedIsTurned /\ OneAtATime

\* A step is the first of its call, or another one of a call that runs already.
LEMMA StartOrGoOn ==
    ASSUME TypeInv, NEW c \in Calls, Step(c)
    PROVE  (\E now : Start(c, now)) \/ (Busy(c) /\ UNCHANGED overlap)
<1>1. CASE Resolve(c)
  BY <1>1 DEF Resolve, StartInvite, StartSoft, Accrue, MintIdentity, IndexStub, InsertInvite,
     history, Busy, At
<1>2. CASE Onboard(c)
  BY <1>2 DEF Onboard, StartOnboard, Recall, Select, Verify, history, Busy, At
<1>3. CASE Ratchet(c)
  BY <1>3 DEF Ratchet, CheckStub, CheckCountersign, Activate, InsertCredential, history, Busy, At
<1>4. CASE Accept(c)
  BY <1>4 DEF Accept, ReadPending, ConsumeInvite, StartAccept, IdentifyClicker, WriteAccept,
     StartRegister, StartClose, WriteClose, history, Busy, At
<1>5. CASE Sweep(c)
  BY <1>5 DEF Sweep, StartSweep, SweepGuard, Tombstone, history, Busy, At
<1>6. CASE Die(c)
  BY <1>6 DEF Die
<1> QED BY <1>1, <1>2, <1>3, <1>4, <1>5, <1>6 DEF Step

\* As long as nothing overlaps, whoever takes a step is alone.
LEMMA StepAlone ==
    ASSUME AloneInv, ~overlap', NEW c \in Calls, Step(c)
    PROVE  ~overlap /\ \A x \in Calls \ {c} : ~Busy(x) /\ ~Busy(x)'
<1>1. TypeInv /\ \A x \in Calls : x # c => call'[x] = call[x]
  BY StepKeepsCalls DEF AloneInv
<1>2. CASE \E now : Start(c, now)
  <2>1. ~overlap /\ \A x \in Calls : ~Busy(x)
    BY Zenon, <1>2 DEF Start
  <2> QED BY <1>1, <2>1 DEF Busy, At
<1>3. CASE Busy(c) /\ UNCHANGED overlap
  <2>1. ~overlap /\ \A x \in Calls : x # c => ~Busy(x)
    BY <1>3 DEF AloneInv, OneAtATime
  <2> QED BY <1>1, <2>1 DEF Busy, At
<1> QED BY <1>1, <1>2, <1>3, StartOrGoOn

LEMMA AloneKept ==
    ASSUME AloneInv, TypeInv', NEW c \in Calls, Step(c)
    PROVE  ClaimedIsTurned' /\ OneAtATime'
<1>0. /\ TypeInv /\ Moves(c) /\ \A x \in Calls : x # c => call'[x] = call[x]
      /\ claimed \subseteq Dids
  BY StepMoves, StepKeepsCalls DEF AloneInv, TypeInv, TypeOK
<1>1. ClaimedIsTurned'
  <2>1. \A d \in claimed : tier'[d] = "preliminary"
    BY <1>0 DEF AloneInv, ClaimedIsTurned, Moves, TiersMove
  <2> QED BY <1>0, <2>1 DEF ClaimedIsTurned, Moves, Grow
<1>2. OneAtATime'
  <2> SUFFICES ASSUME ~overlap'
               PROVE  /\ \A x, y \in Calls : Busy(x)' /\ Busy(y)' => x = y
                      /\ \A x \in Calls : call'[x].at \in {"countersigning", "activating"} =>
                            stub'[call'[x].target] = "active"
                      /\ \A x \in Calls : call'[x].at = "tombstoning" => call'[x].did \notin claimed'
                      /\ \A d \in claimed' : stub'[d] # "expired"
    BY DEF OneAtATime
  <2>1. ~overlap /\ \A x \in Calls : x # c => ~Busy(x) /\ ~Busy(x)'
    BY StepAlone
  <2>2. /\ \A x \in Calls : call[x].at \in {"countersigning", "activating"} =>
              stub[call[x].target] = "active"
        /\ \A x \in Calls : call[x].at = "tombstoning" => call[x].did \notin claimed
        /\ \A d \in claimed : stub[d] # "expired"
    BY <2>1 DEF AloneInv, OneAtATime
  <2>3. \A x \in Calls : x # c => call'[x].at = "idle"
    BY <2>1 DEF Busy, At
  <2>4. call'[c].at = "countersigning" => stub'[call'[c].target] = "active"
    <3> SUFFICES ASSUME call'[c].at = "countersigning" PROVE stub'[call'[c].target] = "active"
      OBVIOUS
    <3>1. CheckStub(c) /\ ~Leave(c)
      BY <1>0, PlaceAfter, Left DEF Elsewhere
    <3> QED BY <1>0, <3>1, GoneTo DEF CheckStub, Places, Live, db
  <2>5. call'[c].at = "activating" => stub'[call'[c].target] = "active"
    <3> SUFFICES ASSUME call'[c].at = "activating" PROVE stub'[call'[c].target] = "active"
      OBVIOUS
    <3>1. CheckCountersign(c) /\ ~Leave(c)
      BY <1>0, PlaceAfter, Left DEF Elsewhere
    <3> QED BY <1>0, <2>2, <3>1, GoneTo DEF CheckCountersign, Places, db, At
  <2>6. call'[c].at = "tombstoning" => call'[c].did \notin claimed'
    <3> SUFFICES ASSUME call'[c].at = "tombstoning" PROVE call'[c].did \notin claimed'
      OBVIOUS
    <3>1. SweepGuard(c) /\ ~End(c)
      BY <1>0, PlaceAfter, Ended DEF Elsewhere, Idle
    <3> QED BY <1>0, <3>1, GoneTo DEF SweepGuard, Places, history, AloneInv, ClaimedIsTurned
  <2>7. \A d \in claimed' : stub'[d] # "expired"
    <3> SUFFICES ASSUME NEW d \in claimed' PROVE stub'[d] # "expired"
      OBVIOUS
    <3>1. d \in Dids
      BY DEF TypeInv, TypeOK
    <3>2. CASE d \in claimed
      <4>1. ~(Tombstone(c) /\ d = call[c].did)
        BY <2>2, <3>2 DEF Tombstone, At
      <4> QED BY <1>0, <2>2, <3>1, <3>2, <4>1 DEF Moves, StubsMove
    <3>3. CASE d \notin claimed
      <4>1. Activate(c) /\ d = call[c].target
        BY <1>0, <3>3 DEF Moves, Grow
      <4> QED BY <2>2, <4>1 DEF Activate, At
    <3> QED BY <3>2, <3>3
  <2> QED BY <2>1, <2>3, <2>4, <2>5, <2>6, <2>7
<1> QED BY <1>1, <1>2

LEMMA AloneNext == AloneInv /\ [Next]_vars => AloneInv'
<1> SUFFICES ASSUME AloneInv, [Next]_vars PROVE AloneInv'
  OBVIOUS
<1>1. TypeInv /\ TypeInv' /\ claimed \subseteq Dids /\ tier \in [Dids -> Tiers]
  BY TypeNext DEF AloneInv, TypeInv, TypeOK
<1>2. ASSUME NEW c \in Calls, Step(c) PROVE AloneInv'
  BY <1>1, <1>2, AloneKept DEF AloneInv
<1>3. CASE Lapse \/ Qualify \/ UNCHANGED vars
  BY <1>1, <1>3 DEF Lapse, Qualify, history, vars, AloneInv, ClaimedIsTurned, OneAtATime, Busy, At
<1> QED BY <1>2, <1>3 DEF Next, Step

LEMMA AloneInit == Init => AloneInv
BY TypeInit DEF Init, AloneInv, ClaimedIsTurned, OneAtATime, Busy, At, Idle

\* As long as calls do not overlap, the sweep lets no stub lapse that is claimed, and
\* the ratchet turns none that has lapsed.
THEOREM LapsedStaysUnclaimed == Spec => []LapsedIsNotClaimed
<1>1. AloneInv => LapsedIsNotClaimed
  BY DEF AloneInv, OneAtATime, LapsedIsNotClaimed
<1> QED BY <1>1, AloneInit, AloneNext, PTL DEF Spec
=============================================================================
