--------------------------- MODULE DecisionsProofs --------------------------
(***************************************************************************)
(* Theorems about Decisions, for any number of requests that overlap and   *)
(* die: the question is answered once, in time, by a decision that has a   *)
(* signed row, and without overlap only that decision is published.        *)
(***************************************************************************)
EXTENDS Decisions, TLAPS

\* The requests of Next by what they do to the row: Ask, Answer and Close.
Step(r) == Ask(r) \/ Answer(r) \/ Close(r) \/ Die(r)

-----------------------------------------------------------------------------
(* Type correctness.                                                       *)

LEMMA NextStatusType ==
    ASSUME NEW v \in Verdicts, kind \in Kinds
    PROVE  NextStatus(v) \in Decided
<1>1. CASE v = "approve"
  BY <1>1 DEF NextStatus, Decided
<1>2. CASE v = "withdrawn"
  BY <1>2 DEF NextStatus, Decided
<1>3. CASE v = "reject"
  BY <1>3 DEF NextStatus, Decided
<1> QED BY <1>1, <1>2, <1>3 DEF Verdicts

\* Every request on its way to the row has a verdict.
Deciders == \A r \in Requests : pc[r] \in {"signing", "deciding", "publishing"} =>
                                   verdict[r] \in Verdicts

\* What a step does to the row: nothing, a change of status that leaves the
\* decision, or a decision.
RowStep(r) ==
    \/ UNCHANGED row
    \/ row.status = "none" /\ row' = [row EXCEPT !.status = "pending"]
    \/ row.status = "pending" /\ row' = [row EXCEPT !.status = "expired"]
    \/ row.status = "approved" /\ row' = [row EXCEPT !.status = "applied"]
    \/ /\ pc[r] = "deciding"
       /\ row.status = RequiredStatus(verdict[r])
       /\ row' = [status |-> NextStatus(verdict[r]), by |-> r]

LEMMA StepMovesRow ==
    ASSUME TypeOK, NEW r \in Requests, Step(r)
    PROVE  RowStep(r) /\ kind' = kind /\ \E where \in PCs : pc' = [pc EXCEPT ![r] = where]
<1>1. CASE Ask(r)
  BY <1>1 DEF Ask, ReadProposal, InsertProposal, RaiseConsentRequest, Start, Goto, At, RowStep, PCs
<1>2. CASE Answer(r)
  BY <1>2 DEF Answer, Decide, InsertDecision, UpdateRow, PublishDecision, Start, Goto, At, RowStep, PCs
<1>3. CASE Close(r)
  BY <1>3 DEF Close, ReadCard, Expire, ReadApproved, WriteApplied, Start, Goto, At, RowStep, PCs
<1>4. CASE Die(r)
  BY <1>4 DEF Die, Goto, RowStep, PCs
<1> QED BY <1>1, <1>2, <1>3, <1>4 DEF Step

\* A request decides once: its verdict and when it read are settled at the start.
LEMMA StepKeepsVerdict ==
    ASSUME TypeOK, NEW r \in Requests, Step(r)
    PROVE  \/ UNCHANGED <<verdict, late>>
           \/ /\ pc[r] = "idle" /\ UNCHANGED row
              /\ \E v \in Verdicts : /\ verdict' = [verdict EXCEPT ![r] = v]
                                     /\ row.status = RequiredStatus(v)
              /\ late' = late \/ (due /\ late' = late \cup {r})
              /\ pc'[r] = IF kind = "approval" THEN "deciding"
                          ELSE IF due THEN "expiring" ELSE "signing"
BY DEF TypeOK, Step, Ask, ReadProposal, InsertProposal, RaiseConsentRequest,
   Answer, Decide, InsertDecision, UpdateRow, PublishDecision,
   Close, ReadCard, Expire, ReadApproved, WriteApplied, Die, Start, Goto, At

LEMMA RowStepType ==
    ASSUME TypeOK, Deciders, NEW r \in Requests, RowStep(r)
    PROVE  /\ row' \in [status : Statuses, by : Requests \cup {NoOne}]
           /\ row'.by # NoOne <=> row'.status \in Decided
<1>0. /\ row \in [status : Statuses, by : Requests \cup {NoOne}]
      /\ row.by # NoOne <=> row.status \in Decided
      /\ kind \in Kinds /\ r # NoOne
  BY DecisionsAssumption DEF TypeOK
<1>1. CASE pc[r] = "deciding" /\ row' = [status |-> NextStatus(verdict[r]), by |-> r]
  <2>1. NextStatus(verdict[r]) \in Decided
    BY <1>0, <1>1, NextStatusType DEF Deciders
  <2> HIDE DEF NextStatus
  <2> QED BY <1>0, <1>1, <2>1 DEF Decided, Statuses
<1>2. CASE row' = row
  BY <1>0, <1>2
<1>3. ASSUME NEW s \in Statuses, row' = [row EXCEPT !.status = s],
             row.status \in Decided <=> s \in Decided
      PROVE  /\ row' \in [status : Statuses, by : Requests \cup {NoOne}]
             /\ row'.by # NoOne <=> row'.status \in Decided
  BY <1>0, <1>3
<1> QED BY <1>1, <1>2, <1>3 DEF RowStep, Decided, Statuses

TypeInv == TypeOK /\ Deciders

LEMMA TypeInit == Init => TypeInv
<1> SUFFICES ASSUME Init PROVE TypeInv
  OBVIOUS
<1>1. /\ row \in [status : Statuses, by : Requests \cup {NoOne}]
      /\ row.by # NoOne <=> row.status \in Decided
  BY DEF Init, Statuses, Decided
<1>2. pc \in [Requests -> PCs] /\ verdict \in [Requests -> Verdicts \cup {"none"}]
  BY DEF Init, PCs
<1>3. Deciders
  BY DEF Init, Deciders
<1>4. due \in BOOLEAN /\ overlap \in BOOLEAN
  BY Zenon DEF Init
<1> QED BY <1>1, <1>2, <1>3, <1>4 DEF Init, TypeInv, TypeOK

LEMMA TypeNext == TypeInv /\ [Next]_vars => TypeInv'
<1> SUFFICES ASSUME TypeInv, [Next]_vars PROVE TypeInv'
  OBVIOUS
<1>0. TypeOK /\ Deciders
  BY DEF TypeInv
<1>1. ASSUME NEW r \in Requests, Step(r) PROVE TypeInv'
  <2>1. /\ row' \in [status : Statuses, by : Requests \cup {NoOne}]
        /\ row'.by # NoOne <=> row'.status \in Decided
    BY <1>0, <1>1, StepMovesRow, RowStepType
  <2>2. kind' \in Kinds /\ pc' \in [Requests -> PCs]
    BY <1>0, <1>1, StepMovesRow DEF TypeOK
  <2>3. verdict' \in [Requests -> Verdicts \cup {"none"}] /\ late' \subseteq Requests
    BY <1>0, <1>1, StepKeepsVerdict DEF TypeOK
  <2>4. signed' \subseteq Requests /\ published' \subseteq Requests /\ took' \subseteq Requests
    BY <1>0, <1>1 DEF TypeOK, Step, Ask, ReadProposal, InsertProposal, RaiseConsentRequest,
       Answer, Decide, InsertDecision, UpdateRow, PublishDecision,
       Close, ReadCard, Expire, ReadApproved, WriteApplied, Die
  <2>5. due' \in BOOLEAN /\ overlap' \in BOOLEAN
    BY <1>0, <1>1 DEF TypeOK, Step, Ask, ReadProposal, InsertProposal, RaiseConsentRequest,
       Answer, Decide, InsertDecision, UpdateRow, PublishDecision,
       Close, ReadCard, Expire, ReadApproved, WriteApplied, Die, Start
  <2>6. Deciders'
    <3>1. SUFFICES ASSUME NEW q \in Requests,
                          pc'[q] \in {"signing", "deciding", "publishing"}
                   PROVE  verdict'[q] \in Verdicts
      BY DEF Deciders
    <3>2. CASE q # r
      BY <1>0, <1>1, <3>1, <3>2, StepMovesRow, StepKeepsVerdict DEF Deciders, TypeOK
    <3>3. CASE q = r
      BY <1>0, <1>1, <3>1, <3>3 DEF TypeOK, Deciders, Step, Ask, ReadProposal, InsertProposal,
         RaiseConsentRequest, Answer, Decide, InsertDecision, UpdateRow, PublishDecision,
         Close, ReadCard, Expire, ReadApproved, WriteApplied, Die, Start, Goto, At
    <3> QED BY <3>2, <3>3
  <2> QED BY <2>1, <2>2, <2>3, <2>4, <2>5, <2>6 DEF TypeInv, TypeOK
<1>2. CASE Lapse \/ UNCHANGED vars
  BY <1>0, <1>2 DEF Lapse, vars, TypeInv, TypeOK, Deciders
<1> QED BY <1>1, <1>2 DEF Next, Step

\* A row holds a decision from the moment on that it is decided.
THEOREM TypeCorrect == Spec => []TypeOK
<1>1. TypeInv => TypeOK
  BY DEF TypeInv
<1> QED BY <1>1, TypeInit, TypeNext, PTL DEF Spec

-----------------------------------------------------------------------------
(* The row, its decision and the signed rows.                              *)

\* Who is about to change the row of a consent request has a signed row, and
\* nobody on the way to it has read a request that was due.
SignedFirst == \A r \in Requests : kind = "consent" /\ pc[r] = "deciding" => r \in signed
OnlyConsentsLapse == kind = "approval" => ~due
DecideInTime == \A r \in Requests : pc[r] \in {"idle", "signing", "deciding"} => r \notin late
RecordInv == /\ TypeInv /\ SignedFirst /\ OnlyConsentsLapse /\ DecideInTime
             /\ RowHoldsItsDecision /\ DecidedInTime
             /\ row.by # NoOne => pc[row.by] # "idle"

LEMMA StepSigns ==
    ASSUME TypeOK, NEW r \in Requests, Step(r)
    PROVE  /\ signed \subseteq signed'
           /\ due' = due
           /\ pc'[r] = "deciding" /\ kind = "consent" => r \in signed'
           /\ pc'[r] # "idle"
           /\ pc'[r] \in {"signing", "deciding"} => pc[r] \in {"idle", "signing"}
<1>1. CASE Ask(r)
  BY <1>1 DEF TypeOK, Ask, ReadProposal, InsertProposal, RaiseConsentRequest, Start, Goto, At
<1>2. CASE Answer(r)
  BY <1>2 DEF TypeOK, Answer, Decide, InsertDecision, UpdateRow, PublishDecision, Start, Goto, At
<1>3. CASE Close(r)
  BY <1>3 DEF TypeOK, Close, ReadCard, Expire, ReadApproved, WriteApplied, Start, Goto, At
<1>4. CASE Die(r)
  BY <1>4 DEF TypeOK, Die, Goto, Busy
<1> QED BY <1>1, <1>2, <1>3, <1>4 DEF Step

LEMMA RecordInit == Init => RecordInv
<1> SUFFICES ASSUME Init PROVE RecordInv
  OBVIOUS
<1>1. TypeInv
  BY TypeInit
<1>2. row.by = NoOne /\ late = {} /\ ~due /\ \A r \in Requests : pc[r] = "idle"
  BY Zenon DEF Init
<1> QED BY <1>1, <1>2 DEF RecordInv, SignedFirst, OnlyConsentsLapse, DecideInTime,
       RowHoldsItsDecision, DecidedInTime

LEMMA RecordKept ==
    ASSUME RecordInv, TypeInv', NEW r \in Requests, Step(r)
    PROVE  RecordInv'
<1>0. TypeOK /\ Deciders /\ r # NoOne /\ kind \in Kinds /\ pc \in [Requests -> PCs]
  BY DecisionsAssumption DEF RecordInv, TypeInv, TypeOK
<1>1. /\ RowStep(r) /\ kind' = kind
      /\ \A q \in Requests : q # r => pc'[q] = pc[q]
  BY <1>0, StepMovesRow
<1>2. \A q \in Requests : pc[q] # "idle" => verdict'[q] = verdict[q] /\ (q \in late' => q \in late)
  BY <1>0, StepKeepsVerdict DEF TypeOK
<1>3. SignedFirst'
  BY <1>0, <1>1, StepSigns DEF RecordInv, SignedFirst
<1>4. OnlyConsentsLapse'
  BY <1>0, <1>1, StepSigns DEF RecordInv, OnlyConsentsLapse
<1>5. DecideInTime'
  <2>1. SUFFICES ASSUME NEW q \in Requests, pc'[q] \in {"idle", "signing", "deciding"}
                 PROVE  q \notin late'
    BY DEF DecideInTime
  <2>2. CASE q # r
    <3>1. q \notin late
      BY <1>1, <2>1, <2>2 DEF RecordInv, DecideInTime
    <3> QED BY <1>0, <2>2, <3>1, StepKeepsVerdict
  <2>3. CASE q = r
    <3>1. r \notin late
      BY <1>0, <2>1, <2>3, StepSigns DEF RecordInv, DecideInTime
    <3>2. due => kind = "consent"
      BY <1>0 DEF RecordInv, OnlyConsentsLapse, Kinds
    <3> QED BY <1>0, <2>1, <2>3, <3>1, <3>2, StepKeepsVerdict
  <2> QED BY <2>2, <2>3
<1>6. /\ row'.by # NoOne => pc'[row'.by] # "idle"
      /\ RowHoldsItsDecision' /\ DecidedInTime'
  <2>1. CASE /\ pc[r] = "deciding"
             /\ row' = [status |-> NextStatus(verdict[r]), by |-> r]
    <3>1. row'.by = r /\ row'.status = NextStatus(verdict[r])
      BY <2>1
    <3>2. verdict'[r] = verdict[r] /\ r \notin late'
      BY <1>2, <2>1 DEF RecordInv, DecideInTime
    <3>3. NextStatus(verdict[r])' = NextStatus(verdict[r])
      BY <1>1, <3>2 DEF NextStatus
    <3>4. kind = "consent" => r \in signed'
      BY <1>0, <2>1, StepSigns DEF RecordInv, SignedFirst
    <3>5. pc'[r] # "idle"
      BY <1>0, StepSigns
    <3> QED BY <1>1, <3>1, <3>2, <3>3, <3>4, <3>5 DEF RowHoldsItsDecision, DecidedInTime
  <2>2. CASE /\ row'.by = row.by
             /\ row.by # NoOne =>
                   row'.status = row.status \/ (row.status = "approved" /\ row'.status = "applied")
    <3>1. CASE row.by = NoOne
      <4>1. NoOne \notin late'
        BY DecisionsAssumption DEF TypeInv, TypeOK
      <4> QED BY <2>2, <3>1, <4>1 DEF RowHoldsItsDecision, DecidedInTime
    <3>2. CASE row.by # NoOne
      <4>1. row.by \in Requests /\ pc[row.by] # "idle"
        BY <3>2 DEF RecordInv, TypeInv, TypeOK
      <4>2. verdict'[row.by] = verdict[row.by] /\ row.by \notin late' /\ pc'[row.by] # "idle"
        BY <1>0, <1>1, <1>2, <4>1, StepSigns DEF RecordInv, DecidedInTime
      <4>3. NextStatus(verdict[row.by])' = NextStatus(verdict[row.by])
        BY <1>1, <2>2, <4>2 DEF NextStatus
      <4>4. row.status = NextStatus(verdict[row.by])
            \/ (row.status = "applied" /\ verdict[row.by] = "approve")
        BY <3>2 DEF RecordInv, RowHoldsItsDecision
      <4>5. row.status = "approved" => verdict[row.by] = "approve"
        BY Zenon, <1>0, <4>4 DEF NextStatus
      <4>6. row'.status = NextStatus(verdict[row.by])
            \/ (row'.status = "applied" /\ verdict[row.by] = "approve")
        BY <2>2, <3>2, <4>4, <4>5
      <4>7. kind' = "consent" => row'.by \in signed'
        BY <1>0, <1>1, <2>2, <3>2, StepSigns DEF RecordInv, RowHoldsItsDecision
      <4> QED BY <2>2, <3>2, <4>2, <4>3, <4>6, <4>7 DEF RowHoldsItsDecision, DecidedInTime
    <3> QED BY <3>1, <3>2
  <2>3. row.status \in {"none", "pending"} => row.by = NoOne
    BY <1>0 DEF TypeOK, Decided
  <2>4. row \in [status : Statuses, by : Requests \cup {NoOne}]
    BY <1>0 DEF TypeOK
  <2> QED BY <1>1, <2>1, <2>2, <2>3, <2>4 DEF RowStep
<1> QED BY <1>3, <1>4, <1>5, <1>6 DEF RecordInv

LEMMA RecordNext == RecordInv /\ [Next]_vars => RecordInv'
<1> SUFFICES ASSUME RecordInv, [Next]_vars PROVE RecordInv'
  OBVIOUS
<1>1. TypeInv'
  BY TypeNext DEF RecordInv
<1>2. CASE Lapse \/ UNCHANGED vars
  BY <1>1, <1>2 DEF Lapse, vars, RecordInv, SignedFirst, OnlyConsentsLapse, DecideInTime,
     RowHoldsItsDecision, DecidedInTime, NextStatus
<1>3. ASSUME NEW r \in Requests, Step(r) PROVE RecordInv'
  BY <1>1, <1>3, RecordKept
<1> QED BY <1>2, <1>3 DEF Next, Step

\* Whoever dies in between, a row that has been decided holds the decision its
\* status says, and for a consent request there is a signed row of it.
THEOREM DecidedRowsHoldTheirDecision == Spec => []RowHoldsItsDecision
<1>1. RecordInv => RowHoldsItsDecision
  BY DEF RecordInv
<1> QED BY <1>1, RecordInit, RecordNext, PTL DEF Spec

\* A decision that counts was taken in time, however late it reaches the row.
THEOREM DecisionsAreInTime == Spec => []DecidedInTime
<1>1. RecordInv => DecidedInTime
  BY DEF RecordInv
<1> QED BY <1>1, RecordInit, RecordNext, PTL DEF Spec

-----------------------------------------------------------------------------
(* One life.                                                               *)

LEMMA LifeInit == Init => Life!Init
BY DEF Init, Life!Init, Verdict

\* The answer that counts changes only with a decision that takes the row.
LEMMA LifeStep ==
    ASSUME RecordInv, RecordInv', NEW r \in Requests, Step(r)
    PROVE  [Life!Next]_Life!life
<1>0. TypeOK /\ Deciders /\ r # NoOne /\ row \in [status : Statuses, by : Requests \cup {NoOne}]
  BY DecisionsAssumption DEF RecordInv, TypeInv, TypeOK
<1>1. RowStep(r) /\ kind' = kind
  BY <1>0, StepMovesRow
<1>2. CASE /\ pc[r] = "deciding" /\ row.status = RequiredStatus(verdict[r])
           /\ row' = [status |-> NextStatus(verdict[r]), by |-> r]
  <2>1. verdict'[r] = verdict[r]
    BY <1>0, <1>2, StepKeepsVerdict
  <2>2. Verdict' = verdict[r] /\ row'.status = NextStatus(verdict[r])
    BY <1>0, <1>2, <2>1 DEF Verdict
  <2>3. CASE verdict[r] = "approve"
    <3>1. row'.status = "approved" /\ row.status = "pending"
      BY <1>2, <2>2, <2>3, Zenon DEF NextStatus, RequiredStatus
    <3> QED BY <2>2, <2>3, <3>1 DEF Life!Next, Life!Approve
  <2>4. CASE verdict[r] = "withdrawn"
    <3>1. row'.status = "withdrawn" /\ row.status = "approved"
      BY <1>2, <2>2, <2>4, Zenon DEF NextStatus, RequiredStatus
    <3> QED BY <2>2, <2>4, <3>1 DEF Life!Next, Life!Withdraw
  <2>5. CASE verdict[r] = "reject"
    <3>1. row'.status \in {"denied", "rejected"} /\ row.status = "pending"
      BY <1>2, <2>2, <2>5, Zenon DEF NextStatus, RequiredStatus
    <3> QED BY <2>2, <2>5, <3>1 DEF Life!Next, Life!Refuse
  <2> QED BY <1>0, <1>2, <2>3, <2>4, <2>5 DEF Deciders, Verdicts
<1>3. CASE row'.by = row.by
  <2>1. Verdict' = Verdict
    <3>1. CASE row.by = NoOne
      BY <1>3, <3>1 DEF Verdict
    <3>2. CASE row.by # NoOne
      <4>1. row.by \in Requests /\ pc[row.by] # "idle"
        BY <1>0, <3>2 DEF RecordInv
      <4>2. verdict'[row.by] = verdict[row.by]
        BY <1>0, <4>1, StepKeepsVerdict DEF TypeOK
      <4> QED BY <1>3, <3>2, <4>2 DEF Verdict
    <3> QED BY <3>1, <3>2
  <2>2. CASE row' = row
    BY <2>1, <2>2 DEF Life!life
  <2>3. CASE row.status = "none" /\ row' = [row EXCEPT !.status = "pending"]
    BY <1>0, <2>1, <2>3 DEF Life!Next, Life!Raise
  <2>4. CASE row.status = "pending" /\ row' = [row EXCEPT !.status = "expired"]
    BY <1>0, <2>1, <2>4 DEF Life!Next, Life!Expire
  <2>5. CASE row.status = "approved" /\ row' = [row EXCEPT !.status = "applied"]
    BY <1>0, <2>1, <2>5 DEF Life!Next, Life!Apply
  <2>6. CASE /\ pc[r] = "deciding" /\ row.status = RequiredStatus(verdict[r])
             /\ row' = [status |-> NextStatus(verdict[r]), by |-> r]
    BY <1>2, <2>6
  <2> QED BY <1>1, <2>2, <2>3, <2>4, <2>5, <2>6 DEF RowStep
<1> QED BY <1>0, <1>1, <1>2, <1>3 DEF RowStep

LEMMA LifeNext == RecordInv /\ RecordInv' /\ [Next]_vars => [Life!Next]_Life!life
<1> SUFFICES ASSUME RecordInv, RecordInv', [Next]_vars PROVE [Life!Next]_Life!life
  OBVIOUS
<1>1. CASE Lapse \/ UNCHANGED vars
  BY <1>1 DEF Lapse, vars, Life!life, Verdict
<1>2. ASSUME NEW r \in Requests, Step(r) PROVE [Life!Next]_Life!life
  BY <1>2, LifeStep
<1> QED BY <1>1, <1>2 DEF Next, Step

\* However decisions, expiry, the plugin and its retries overlap, the question is
\* answered once and nothing rewinds: Decisions implements DecisionLife.
THEOREM DecisionsImplementOneLife == Spec => DecisionsHaveOneLife
BY RecordInit, RecordNext, LifeInit, LifeNext, PTL DEF Spec, DecisionsHaveOneLife, Life!Spec

-----------------------------------------------------------------------------
(* What is published without overlap.                                      *)

\* One request at a time; the row is still what it read, and has taken what it is
\* going to publish.
OneAtATime ==
    ~overlap =>
        /\ \A q, r \in Requests : Busy(q) /\ Busy(r) => q = r
        /\ \A r \in Requests : pc[r] \in {"signing", "deciding"} =>
              row.status = RequiredStatus(verdict[r])
        /\ \A r \in Requests : pc[r] = "publishing" => r \in took
        /\ published \subseteq took
AloneInv == TypeInv /\ OneAtATime

\* A request that is alone has nobody on the way beside it.
LEMMA StepAlone ==
    ASSUME AloneInv, ~overlap', NEW r \in Requests, Step(r)
    PROVE  /\ ~overlap
           /\ \A q \in Requests : Busy(q) => q = r
           /\ \A q \in Requests : Busy(q)' => q = r
<1>0. TypeOK
  BY DEF AloneInv, TypeInv
<1>1. ~overlap /\ (pc[r] = "idle" => \A q \in Requests : ~Busy(q))
      /\ (pc[r] # "idle" => Busy(r))
  <2>1. ASSUME NEW where, Start(r, where)
        PROVE  ~overlap /\ pc[r] = "idle" /\ \A q \in Requests : ~Busy(q)
    BY Zenon, <2>1 DEF Start, At
  <2>2. CASE UNCHANGED overlap /\ Busy(r)
    BY <2>2 DEF Busy
  <2>3. CASE Ask(r)
    <3>1. CASE ReadProposal(r) \/ RaiseConsentRequest(r)
      BY Zenon, <2>1, <3>1 DEF ReadProposal, RaiseConsentRequest
    <3>2. CASE InsertProposal(r)
      BY <2>2, <3>2 DEF InsertProposal, At, Busy
    <3> QED BY <2>3, <3>1, <3>2 DEF Ask
  <2>4. CASE Answer(r)
    <3>1. ASSUME NEW v \in Verdicts, Decide(r, v)
          PROVE  ~overlap /\ pc[r] = "idle" /\ \A q \in Requests : ~Busy(q)
      BY Zenon, <2>1, <3>1 DEF Decide
    <3>2. CASE InsertDecision(r) \/ UpdateRow(r) \/ PublishDecision(r)
      BY <2>2, <3>2 DEF InsertDecision, UpdateRow, PublishDecision, At, Busy
    <3> QED BY <2>4, <3>1, <3>2 DEF Answer
  <2>5. CASE Close(r)
    <3>1. CASE ReadCard(r) \/ ReadApproved(r)
      BY Zenon, <2>1, <3>1 DEF ReadCard, ReadApproved
    <3>2. CASE Expire(r) \/ WriteApplied(r)
      BY <2>2, <3>2 DEF Expire, WriteApplied, At, Busy
    <3> QED BY <2>5, <3>1, <3>2 DEF Close
  <2>6. CASE Die(r)
    BY <2>2, <2>6 DEF Die
  <2> QED BY <2>3, <2>4, <2>5, <2>6 DEF Step
<1>2. \A q \in Requests : Busy(q) => q = r
  BY <1>1 DEF AloneInv, OneAtATime
<1>3. \A q \in Requests : q # r => pc'[q] = pc[q]
  BY <1>0, StepMovesRow DEF TypeOK
<1> QED BY <1>1, <1>2, <1>3 DEF Busy

LEMMA AloneKept ==
    ASSUME AloneInv, TypeInv', NEW r \in Requests, Step(r)
    PROVE  OneAtATime'
<1> SUFFICES ASSUME ~overlap'
             PROVE  /\ \A q \in Requests : Busy(q)' => q = r
                    /\ pc'[r] \in {"signing", "deciding"} =>
                          row'.status = RequiredStatus(verdict'[r])
                    /\ pc'[r] = "publishing" => r \in took'
                    /\ published' \subseteq took'
  <2>1. \A q \in Requests : pc'[q] \in {"signing", "deciding", "publishing"} => Busy(q)'
    BY DEF Busy
  <2> QED BY <2>1 DEF OneAtATime, RequiredStatus
<1>0. TypeOK /\ ~overlap /\ \A q \in Requests : Busy(q)' => q = r
  BY StepAlone DEF AloneInv, TypeInv
<1>1. /\ pc[r] \in {"signing", "deciding"} => row.status = RequiredStatus(verdict[r])
      /\ pc[r] = "publishing" => r \in took
      /\ published \subseteq took
  BY <1>0 DEF AloneInv, OneAtATime
<1>2. CASE Ask(r)
  BY <1>0, <1>1, <1>2 DEF TypeOK, Ask, ReadProposal, InsertProposal, RaiseConsentRequest,
     Start, Goto, At
<1>3. CASE Answer(r)
  <2>1. ASSUME NEW v \in Verdicts, Decide(r, v)
        PROVE  /\ pc'[r] \in {"signing", "deciding"} =>
                          row'.status = RequiredStatus(verdict'[r])
               /\ pc'[r] # "publishing" /\ UNCHANGED <<published, took>>
    BY <1>0, <2>1 DEF TypeOK, Decide, Start, Goto, At, RequiredStatus
  <2>2. CASE InsertDecision(r)
    BY <1>0, <1>1, <2>2 DEF TypeOK, InsertDecision, Goto, At, RequiredStatus
  <2>3. CASE UpdateRow(r)
    BY <1>0, <1>1, <2>3 DEF TypeOK, UpdateRow, Goto, At
  <2>4. CASE PublishDecision(r)
    BY <1>0, <1>1, <2>4 DEF TypeOK, PublishDecision, Goto, At
  <2> QED BY <1>0, <1>1, <1>3, <2>1, <2>2, <2>3, <2>4 DEF Answer
<1>4. CASE Close(r)
  BY <1>0, <1>1, <1>4 DEF TypeOK, Close, ReadCard, Expire, ReadApproved, WriteApplied,
     Start, Goto, At
<1>5. CASE Die(r)
  BY <1>0, <1>1, <1>5 DEF TypeOK, Die, Goto
<1> QED BY <1>2, <1>3, <1>4, <1>5 DEF Step

LEMMA AloneInit == Init => AloneInv
<1> SUFFICES ASSUME Init PROVE AloneInv
  OBVIOUS
<1>1. published = {} /\ \A r \in Requests : pc[r] = "idle"
  BY DEF Init
<1> QED BY <1>1, TypeInit DEF AloneInv, OneAtATime, Busy

LEMMA AloneNext == AloneInv /\ [Next]_vars => AloneInv'
<1> SUFFICES ASSUME AloneInv, [Next]_vars PROVE AloneInv'
  OBVIOUS
<1>1. TypeInv'
  BY TypeNext DEF AloneInv
<1>2. CASE Lapse \/ UNCHANGED vars
  BY <1>1, <1>2 DEF Lapse, vars, AloneInv, OneAtATime, Busy, RequiredStatus
<1>3. ASSUME NEW r \in Requests, Step(r) PROVE AloneInv'
  BY <1>1, <1>3, AloneKept DEF AloneInv
<1> QED BY <1>2, <1>3 DEF Next, Step

\* As long as no two requests overlap, only a decision that counts is published.
THEOREM OnlyWhatCountsIsPublished == Spec => []PublishedStands
<1>1. AloneInv => PublishedStands
  BY DEF AloneInv, OneAtATime, PublishedStands
<1> QED BY <1>1, AloneInit, AloneNext, PTL DEF Spec
=============================================================================
