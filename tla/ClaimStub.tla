----------------------------- MODULE ClaimStub ------------------------------
(***************************************************************************)
(* The identities of one email address: stubs minted for it before anybody *)
(* has come (src/apps/kernel/src/lib/auth/claimable-stub.ts), the invites  *)
(* sent to it, and the ratchet that turns a stub into a claimed identity   *)
(* once its owner has verified the address and an invite to it has been    *)
(* accepted, in either order.  Every statement of a handler is a step; any *)
(* number of calls runs one after another, as many at once as Calls has.   *)
(*                                                                         *)
(* Before some definitions stands a deliberately wrong variant, used       *)
(* nowhere in the modules; README.md, `Mutants', lists them.               *)
(***************************************************************************)
EXTENDS Integers, FiniteSets

CONSTANTS
    Calls,    \* HTTP requests that may run at the same time
    Dids,     \* identities that may be minted: bounds their number
    Invites,  \* invites that may be sent to the address: bounds their number
    NoOne     \* in place of an identity, where there is none

ASSUME ClaimStubAssumption == NoOne \notin Dids

VARIABLES
    tier,     \* auth.identities: the tier of an identity
    stub,     \* auth.claim_stub_index: stub_status of its row
    overdue,  \* stubs whose stub_expires_at has passed
    verified, \* stubs with a claimant_verified_at
    cred,     \* auth.credentials: whose the address is
    status,   \* connections.invites: the status of an invite
    to,       \* and its to_did
    sessions, \* identities that somebody is logged in as
    call,     \* where each call is and what it holds
    claimed,  \* history: identities the ratchet has turned
    countersigned, \* history: identities an invite was ever accepted by
    missed,   \* history: halves set by a call that did not go on to the ratchet
    overlap   \* history: a call started before another had ended

db == <<tier, stub, overdue, verified, cred, status, to, sessions>>
history == <<claimed, countersigned, missed, overlap>>
vars == <<tier, stub, overdue, verified, cred, status, to, sessions, call,
          claimed, countersigned, missed, overlap>>

Tiers == {"none", "soft", "preliminary"}
StubStatuses == {"none", "active", "expired"}
InviteStatuses == {"none", "pending", "accepted", "lapsed", "closed"}
Ops == {"none", "invite", "soft", "onboard", "register", "accept", "close", "sweep"}
Places == {"idle", "accruing", "minting", "indexing", "inviting", "recalling",
           "selecting", "verifying", "checking", "countersigning", "activating",
           "crediting", "consuming", "draining", "identifying", "accepting",
           "closing", "sweeping", "tombstoning"}
Reasons == {"consumed", "stray", "died"}

\* A call: the operation, the identity it answers with, the one it is about to
\* turn, and the invites it is to write.
CallType == [at : Places, op : Ops, did : Dids \cup {NoOne},
             target : Dids \cup {NoOne}, work : SUBSET Invites]
Idle == [at |-> "idle", op |-> "none", did |-> NoOne, target |-> NoOne, work |-> {}]

\* At most one stub of the address is live.
OneIsLive == \A d, e \in Dids : stub[d] = "active" /\ stub[e] = "active" => d = e
TypeOK ==
    /\ tier \in [Dids -> Tiers]
    /\ stub \in [Dids -> StubStatuses]
    /\ overdue \subseteq Dids
    /\ verified \subseteq Dids
    /\ cred \in Dids \cup {NoOne}
    /\ status \in [Invites -> InviteStatuses]
    /\ to \in [Invites -> Dids \cup {NoOne}]
    /\ sessions \subseteq Dids
    /\ call \in [Calls -> CallType]
    /\ claimed \subseteq Dids
    /\ countersigned \subseteq Dids
    /\ missed \subseteq Dids \X Reasons
    /\ overlap \in BOOLEAN
    /\ OneIsLive

Init ==
    /\ tier = [d \in Dids |-> "none"]
    /\ stub = [d \in Dids |-> "none"]
    /\ overdue = {} /\ verified = {}
    /\ cred = NoOne
    /\ status = [i \in Invites |-> "none"]
    /\ to = [i \in Invites |-> NoOne]
    /\ sessions = {}
    /\ call = [c \in Calls |-> Idle]
    /\ claimed = {} /\ countersigned = {} /\ missed = {}
    /\ overlap = FALSE

At(c, where) == call[c].at = where
Busy(c) == ~At(c, "idle")
Put(c, now) == call' = [call EXCEPT ![c] = now]
Goto(c, where) == Put(c, [call[c] EXCEPT !.at = where])
End(c) == Put(c, Idle)

\* A call begins and goes on to its second statement.
Start(c, now) ==
    /\ At(c, "idle")
    /\ Put(c, now)
    /\ overlap' = (overlap \/ \E x \in Calls : Busy(x))
    /\ UNCHANGED <<claimed, countersigned, missed>>

Live == {d \in Dids : stub[d] = "active"}
Pending == {i \in Invites : status[i] = "pending"}

-----------------------------------------------------------------------------
(* Finding or minting the identity of the address.                         *)

\* resolveOrMintInviteTarget: whoever has the credential, else a stub.
StartInvite(c) ==
    \E i \in Invites :
        /\ status[i] = "none" /\ \A x \in Calls : i \notin call[x].work
        /\ Start(c, [Idle EXCEPT !.at = IF cred = NoOne THEN "accruing" ELSE "inviting",
                                 !.op = "invite", !.did = cred, !.work = {i}])
        /\ UNCHANGED db

\* POST /api/session/soft; only an identity it finds as a stub gets its invites.
StartSoft(c) ==
    /\ cred = NoOne
    /\ Start(c, [Idle EXCEPT !.at = "accruing", !.op = "soft"])
    /\ UNCHANGED db

\* What mintOrAccrueClaimableStub is followed by.
AfterMint(o) ==
    CASE o = "invite" -> "inviting" [] o = "soft" -> "consuming" [] OTHER -> "crediting"

\* mintOrAccrueClaimableStub: the live stub, if there is one.
Accrue(c) ==
    /\ At(c, "accruing")
    /\ IF Live = {}
         THEN Goto(c, "minting")
         ELSE \E d \in Live :
                Put(c, [call[c] EXCEPT !.at = AfterMint(call[c].op), !.did = d, !.target = d])
    /\ UNCHANGED <<db, history>>

MintIdentity(c) ==
    /\ At(c, "minting")
    /\ \E d \in Dids :
        /\ tier[d] = "none"
        /\ tier' = [tier EXCEPT ![d] = "soft"]
        /\ Put(c, [call[c] EXCEPT !.at = "indexing", !.did = d, !.target = d])
    /\ UNCHANGED <<stub, overdue, verified, cred, status, to, sessions, history>>

\* Wrong: nothing says that one row of an address is live.
IndexStubAnyway(c) ==
    /\ At(c, "indexing")
    /\ stub' = [stub EXCEPT ![call[c].did] = "active"]
    /\ Goto(c, AfterMint(call[c].op))
    /\ UNCHANGED <<tier, overdue, verified, cred, status, to, sessions, history>>
\* A unique index admits one live row; the loser fails, and leaves its identity.
IndexStub(c) ==
    /\ At(c, "indexing")
    /\ IF Live = {}
         THEN stub' = [stub EXCEPT ![call[c].did] = "active"] /\ Goto(c, AfterMint(call[c].op))
         ELSE UNCHANGED stub /\ End(c)
    /\ UNCHANGED <<tier, overdue, verified, cred, status, to, sessions, history>>

InsertInvite(c) ==
    /\ At(c, "inviting")
    /\ \E i \in call[c].work :
        /\ status' = [status EXCEPT ![i] = "pending"]
        /\ to' = [to EXCEPT ![i] = call[c].did]
    /\ End(c)
    /\ UNCHANGED <<tier, stub, overdue, verified, cred, sessions, history>>

-----------------------------------------------------------------------------
(* Verifying the address.                                                  *)

\* resolveOnboardIdentity: the live stub first, then createOrFindSoftDid.
StartOnboard(c) ==
    /\ IF Live = {}
         THEN Start(c, [Idle EXCEPT !.at = "recalling", !.op = "onboard"])
         ELSE \E d \in Live :
                Start(c, [Idle EXCEPT !.at = "selecting", !.op = "onboard", !.did = d])
    /\ UNCHANGED db

Recall(c) ==
    /\ At(c, "recalling")
    /\ Put(c, [call[c] EXCEPT !.at = IF cred = NoOne THEN "accruing" ELSE "consuming",
                              !.did = cred])
    /\ UNCHANGED <<db, history>>

\* verifyClaimantEmail looks the stub up again.
Select(c) ==
    /\ At(c, "selecting")
    /\ IF Live = {}
         THEN Goto(c, "consuming")
         ELSE \E d \in Live :
                Put(c, [call[c] EXCEPT !.at = "verifying", !.target = d])
    /\ UNCHANGED <<db, history>>

\* The update goes by the address: it marks whichever stub is live by now.
Verify(c) ==
    /\ At(c, "verifying")
    /\ verified' = verified \cup Live
    /\ missed' = missed \cup ((Live \ {call[c].target}) \X {"stray"})
    /\ Goto(c, "checking")
    /\ UNCHANGED <<tier, stub, overdue, cred, status, to, sessions,
                   claimed, countersigned, overlap>>

-----------------------------------------------------------------------------
(* The ratchet, tryActivateClaim: called once the address is verified and  *)
(* once an invite is accepted.                                             *)

\* An onboarding goes on to the pending invites; an accepted invite is the end.
Leave(c) == IF call[c].op = "onboard" THEN Goto(c, "consuming") ELSE End(c)

\* Wrong: a tombstone is activated too.
CheckVerifiedOnly(c) ==
    /\ At(c, "checking")
    /\ IF call[c].target \in verified THEN Goto(c, "countersigning") ELSE Leave(c)
    /\ UNCHANGED <<db, history>>
\* Wrong: the claimant's half is not asked for.
CheckLiveOnly(c) ==
    /\ At(c, "checking")
    /\ IF call[c].target \in Live THEN Goto(c, "countersigning") ELSE Leave(c)
    /\ UNCHANGED <<db, history>>
CheckStub(c) ==
    /\ At(c, "checking")
    /\ IF call[c].target \in verified \cap Live THEN Goto(c, "countersigning") ELSE Leave(c)
    /\ UNCHANGED <<db, history>>

CheckCountersign(c) ==
    /\ At(c, "countersigning")
    /\ IF \E i \in Invites : status[i] = "accepted" /\ to[i] = call[c].target
         THEN Goto(c, "activating")
         ELSE Leave(c)
    /\ UNCHANGED <<db, history>>

\* An identity that is no longer soft was turned by somebody else.
Activate(c) ==
    /\ At(c, "activating")
    /\ IF tier[call[c].target] = "soft"
         THEN /\ tier' = [tier EXCEPT ![call[c].target] = "preliminary"]
              /\ claimed' = claimed \cup {call[c].target}
              /\ Goto(c, "crediting")
         ELSE UNCHANGED <<tier, claimed>> /\ Leave(c)
    /\ UNCHANGED <<stub, overdue, verified, cred, status, to, sessions,
                   countersigned, missed, overlap>>

\* recordEmailCredential, and the same insert in tryActivateClaim and in
\* createOrFindSoftDid: the first one stays.
InsertCredential(c) ==
    /\ At(c, "crediting")
    /\ cred' = IF cred = NoOne THEN call[c].target ELSE cred
    /\ IF call[c].op = "register" /\ call[c].work # {} THEN Goto(c, "accepting") ELSE Leave(c)
    /\ UNCHANGED <<tier, stub, overdue, verified, status, to, sessions, history>>

-----------------------------------------------------------------------------
(* Accepting and closing invites.                                          *)

\* consumePendingInvites; an onboarding has a session from here on.
ReadPending(c) ==
    /\ At(c, "consuming")
    /\ sessions' = IF call[c].op = "onboard" THEN sessions \cup {call[c].did} ELSE sessions
    /\ IF Pending = {}
         THEN End(c)
         ELSE Put(c, [call[c] EXCEPT !.at = "draining", !.work = Pending])
    /\ UNCHANGED <<tier, stub, overdue, verified, cred, status, to, history>>

\* Each invite is accepted, or skipped as expired; nobody tries the ratchet.
ConsumeInvite(c) ==
    /\ At(c, "draining")
    /\ \E i \in call[c].work :
        /\ \/ /\ status' = [status EXCEPT ![i] = "accepted"]
              /\ to' = [to EXCEPT ![i] = call[c].did]
              /\ countersigned' = countersigned \cup {call[c].did}
              /\ missed' = missed \cup {<<call[c].did, "consumed">>}
           \/ UNCHANGED <<status, to, countersigned, missed>>
        /\ IF call[c].work = {i}
             THEN End(c)
             ELSE Put(c, [call[c] EXCEPT !.work = @ \ {i}])
    /\ UNCHANGED <<tier, stub, overdue, verified, cred, sessions, claimed, overlap>>

\* POST .../invites/[code]/accept: by a click on the link of an invite to a stub,
\* or by somebody who is logged in.
StartAccept(c) ==
    \E i \in Pending :
        /\ \/ Start(c, [Idle EXCEPT !.at = "identifying", !.op = "accept",
                                    !.did = to[i], !.work = {i}])
           \/ \E s \in sessions :
                 /\ s = to[i] \/ cred \in {s, NoOne}
                 /\ Start(c, [Idle EXCEPT !.at = "accepting", !.op = "accept",
                                          !.did = s, !.target = s, !.work = {i}])
        /\ UNCHANGED db

\* isUnclaimedStub.
IdentifyClicker(c) ==
    /\ At(c, "identifying")
    /\ IF stub[call[c].did] = "active" /\ tier[call[c].did] = "soft"
         THEN Put(c, [call[c] EXCEPT !.at = "accepting", !.target = call[c].did])
         ELSE End(c)
    /\ UNCHANGED <<db, history>>

\* Whatever has become of the invite since it was read.
Accepted(c, i) ==
    /\ status' = [status EXCEPT ![i] = "accepted"]
    /\ to' = [to EXCEPT ![i] = call[c].did]
    /\ countersigned' = countersigned \cup {call[c].did}

\* Wrong: the ratchet is left to the owner of the address.
WriteAcceptOnly(c) ==
    /\ At(c, "accepting")
    /\ \E i \in call[c].work : Accepted(c, i)
    /\ End(c)
    /\ UNCHANGED <<tier, stub, overdue, verified, cred, sessions, claimed, missed, overlap>>
\* The accept route, and autoAcceptInvite of a registration, which ends here.
WriteAccept(c) ==
    /\ At(c, "accepting")
    /\ \E i \in call[c].work : Accepted(c, i)
    /\ IF call[c].op = "accept" THEN Goto(c, "checking") ELSE End(c)
    /\ UNCHANGED <<tier, stub, overdue, verified, cred, sessions, claimed, missed, overlap>>

\* Registration with a key of one's own, perhaps with the code of an invite.
StartRegister(c) ==
    \E d \in Dids, w \in {{}} \cup {{i} : i \in Pending} :
        /\ tier[d] = "none"
        /\ tier' = [tier EXCEPT ![d] = "preliminary"]
        /\ sessions' = sessions \cup {d}
        /\ Start(c, [Idle EXCEPT !.at = "crediting", !.op = "register",
                                 !.did = d, !.target = d, !.work = w])
        /\ UNCHANGED <<stub, overdue, verified, cred, status, to>>

\* The inviter revokes an invite, or an accept finds its week over.
StartClose(c) ==
    \E i \in Pending :
        /\ Start(c, [Idle EXCEPT !.at = "closing", !.op = "close", !.work = {i}])
        /\ UNCHANGED db

WriteClose(c) ==
    /\ At(c, "closing")
    /\ \E i \in call[c].work : status' = [status EXCEPT ![i] = "closed"]
    /\ End(c)
    /\ UNCHANGED <<tier, stub, overdue, verified, cred, to, sessions, history>>

-----------------------------------------------------------------------------
(* The expiry of stubs nobody has claimed, /api/cron/claim-stub-expiry.    *)

StartSweep(c) ==
    \E d \in Live \cap overdue :
        /\ Start(c, [Idle EXCEPT !.at = "sweeping", !.op = "sweep", !.did = d])
        /\ UNCHANGED db

\* sweepStub, inside its transaction: invites first, then the tier.
SweepGuard(c) ==
    /\ At(c, "sweeping")
    /\ IF tier[call[c].did] = "soft" /\ \A i \in Pending : to[i] # call[c].did
         THEN Goto(c, "tombstoning")
         ELSE End(c)
    /\ UNCHANGED <<db, history>>

\* Its writes, and the commit: invites that came in between lapse with the stub.
Tombstone(c) ==
    /\ At(c, "tombstoning")
    /\ IF call[c].did \in Live
         THEN /\ stub' = [stub EXCEPT ![call[c].did] = "expired"]
              /\ status' = [i \in Invites |->
                    IF i \in Pending /\ to[i] = call[c].did THEN "lapsed" ELSE status[i]]
         ELSE UNCHANGED <<stub, status>>
    /\ End(c)
    /\ UNCHANGED <<tier, overdue, verified, cred, to, sessions, history>>

-----------------------------------------------------------------------------
(* What else happens.                                                      *)

Lapse ==
    /\ \E d \in Live : overdue' = overdue \cup {d}
    /\ UNCHANGED <<tier, stub, verified, cred, status, to, sessions, call, history>>

\* checkPreliminaryEligibility: a handle and one connection will do as well.
Qualify ==
    /\ \E d \in sessions : tier[d] = "soft" /\ tier' = [tier EXCEPT ![d] = "preliminary"]
    /\ UNCHANGED <<stub, overdue, verified, cred, status, to, sessions, call, history>>

\* The process dies, or a statement fails.
Die(c) ==
    /\ Busy(c)
    /\ missed' = missed \cup (({call[c].did, call[c].target} \ {NoOne}) \X {"died"})
    /\ End(c)
    /\ UNCHANGED <<db, claimed, countersigned, overlap>>

Resolve(c) == \/ StartInvite(c) \/ StartSoft(c) \/ Accrue(c) \/ MintIdentity(c)
              \/ IndexStub(c) \/ InsertInvite(c)
Onboard(c) == StartOnboard(c) \/ Recall(c) \/ Select(c) \/ Verify(c)
Ratchet(c) == CheckStub(c) \/ CheckCountersign(c) \/ Activate(c) \/ InsertCredential(c)
Accept(c) == \/ ReadPending(c) \/ ConsumeInvite(c) \/ StartAccept(c) \/ IdentifyClicker(c)
             \/ WriteAccept(c) \/ StartRegister(c) \/ StartClose(c) \/ WriteClose(c)
Sweep(c) == StartSweep(c) \/ SweepGuard(c) \/ Tombstone(c)

Next ==
    \/ Lapse \/ Qualify
    \/ \E c \in Calls : Resolve(c) \/ Onboard(c) \/ Ratchet(c) \/ Accept(c) \/ Sweep(c) \/ Die(c)

Spec == Init /\ [][Next]_vars

-----------------------------------------------------------------------------
(* Properties.                                                             *)

Quiet(d) == \A c \in Calls : d \notin {call[c].did, call[c].target}
Unclosed(d) ==
    /\ d \in verified \cap Live /\ tier[d] = "soft"
    /\ \E i \in Invites : status[i] = "accepted" /\ to[i] = d
Excused(d, why) == \E r \in why : <<d, r>> \in missed

\* Whichever half comes second turns the identity: a live stub that has both is
\* no longer soft once the calls about it have ended, unless one of them died,
\* marked another stub than its own, or accepted without trying the ratchet.
RatchetCloses == \A d \in Dids : Unclosed(d) /\ Quiet(d) => Excused(d, Reasons)

\* The same where calls that accept need no excuse: what the comment at
\* claimable-stub.ts:342 promises.
BothHalvesClose == \A d \in Dids : Unclosed(d) /\ Quiet(d) => Excused(d, {"stray", "died"})

\* Nothing is claimed that its owner had not verified and an inviter accepted.
ClaimedFromBothSides == claimed \subseteq verified \cap countersigned

\* As long as no two calls overlap, a stub that has lapsed is not claimed.
LapsedIsNotClaimed == ~overlap => \A d \in claimed : stub[d] # "expired"
=============================================================================
