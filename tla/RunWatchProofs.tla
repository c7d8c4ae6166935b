--------------------------- MODULE RunWatchProofs ---------------------------
(***************************************************************************)
(* Theorems about RunWatch, for any number of follow-ups and of ticks that *)
(* overlap, whoever dies and whenever: no segment is reported twice, and   *)
(* while nobody reads a state that Warp is about to leave, nobody claims a *)
(* segment that is yet to begin.                                           *)
(***************************************************************************)
EXTENDS RunWatch, FiniteSetTheorems, TLAPS

(* What every step of a process does to what is known of it.               *)
ProcStep(p) ==
    \/ p \in Followups /\ Followup(p)
    \/ p \in Watchers /\ Poll(p)
    \/ p \in Sweeps /\ Sweep(p)
    \/ Claim(p) \/ PublishOutcome(p) \/ GiveUp(p)

LEMMA NextIsAStep ==
    ASSUME Next
    PROVE  \/ Work \/ Resume \/ WriteRow \/ LoseRow
           \/ \E w \in Watchers : NotifyIfBlocked(w)
           \/ \E p \in Procs : ProcStep(p)
BY DEF Next, ProcStep, Watch, Procs, Watchers

-----------------------------------------------------------------------------
(* Type correctness.                                                       *)

LEMMA RowsAreInTheLog ==
    ASSUME TypeOK, NEW kinds
    PROVE  /\ IsFiniteSet(DOMAIN log) /\ DOMAIN log = 1 .. Len(log) /\ Len(log) \in Nat
           /\ Rows(kinds) \subseteq DOMAIN log /\ IsFiniteSet(Rows(kinds))
           /\ Cardinality(Rows(kinds)) \in Nat
<1>1. log \in Seq(Event)
  BY DEF TypeOK
<1>2. DOMAIN log = 1 .. Len(log) /\ Len(log) \in Nat
  BY <1>1
<1>3. IsFiniteSet(1 .. Len(log))
  BY <1>2, FS_Interval
<1>4. Rows(kinds) \subseteq DOMAIN log
  BY DEF Rows
<1> QED BY <1>2, <1>3, <1>4, FS_Subset, FS_CardinalityType

\* A step of a process takes it somewhere, and whoever goes on knows its segment.
LEMMA StepLearns ==
    ASSUME TypeOK, NEW p \in Procs, ProcStep(p)
    PROVE  \E where \in PCs, known \in Knowledge :
              /\ Learn(p, where, known)
              /\ where \notin {"idle", "done"} => known.segment > 0
<1>1. about[p] \in Knowledge /\ Unknown \in Knowledge
  BY DEF TypeOK, Unknown, Knowledge, Terminal
<1>2. Resumes \in Nat
  BY RowsAreInTheLog DEF Resumes
<1>3. ASSUME NEW where \in PCs, Goto(p, where), pc[p] \notin {"idle", "done"}
      PROVE  \E w \in PCs, known \in Knowledge :
              /\ Learn(p, w, known)
              /\ w \notin {"idle", "done"} => known.segment > 0
  <2>1. about[p].segment > 0
    BY <1>3 DEF TypeOK
  <2> QED BY <1>1, <1>3, <2>1 DEF Goto
<1>4. ASSUME Rest(p)
      PROVE  \E w \in PCs, known \in Knowledge :
              /\ Learn(p, w, known)
              /\ w \notin {"idle", "done"} => known.segment > 0
  <2>1. \E w \in {"idle", "done"} : Learn(p, w, Unknown)
    BY <1>4 DEF Rest
  <2> QED BY <1>1, <2>1 DEF PCs
<1>5. CASE p \in Followups /\ Followup(p)
  <2>1. CASE CountResumes(p)
    <3>1. [about[p] EXCEPT !.segment = Resumes + 2] \in Knowledge
      BY <1>1, <1>2 DEF Knowledge
    <3>2. [about[p] EXCEPT !.segment = Resumes + 2].segment > 0
      BY <1>1, <1>2 DEF Knowledge
    <3> QED BY <2>1, <3>1, <3>2 DEF CountResumes, PCs
  <2>2. CASE ReadBeforeResume(p) \/ SendFollowup(p) \/ SendMessage(p) \/ PublishResumed(p)
    <3>1. Rest(p) \/ \E where \in {"messaging", "sending", "sent", "poll"} :
                        Goto(p, where) /\ pc[p] \notin {"idle", "done"}
      BY <2>2 DEF ReadBeforeResume, SendFollowup, SendMessage, PublishResumed, At
    <3> QED BY <1>3, <1>4, <3>1 DEF PCs
  <2> QED BY <1>5, <2>1, <2>2 DEF Followup
<1>6. CASE p \in Watchers /\ Poll(p)
  BY <1>3, <1>6 DEF Poll, At, PCs
<1>7. CASE p \in Sweeps /\ Sweep(p)
  <2>1. CASE ListInFlight(p)
    <3>1. PICK i \in DOMAIN log : Learn(p, "read", [segment |-> Resumes + 1, since |-> i,
                                                   verdict |-> "completed"])
      BY <2>1 DEF ListInFlight
    <3>2. i \in Nat
      BY RowsAreInTheLog
    <3>3. [segment |-> Resumes + 1, since |-> i, verdict |-> "completed"] \in Knowledge
      BY <1>2, <3>2 DEF Knowledge, Terminal
    <3> QED BY <1>2, <3>1, <3>3 DEF PCs
  <2>2. CASE ReadRun(p)
    <3>1. CASE Learn(p, "check", [about[p] EXCEPT !.verdict = "timeout"])
      <4>1. pc[p] = "read"
        BY <2>2 DEF ReadRun, At
      <4>2. about[p].segment > 0
        BY <4>1 DEF TypeOK
      <4>3. [about[p] EXCEPT !.verdict = "timeout"] \in Knowledge
        BY <1>1 DEF Knowledge, Terminal
      <4>4. [about[p] EXCEPT !.verdict = "timeout"].segment = about[p].segment
        BY <1>1 DEF Knowledge
      <4> QED BY <3>1, <4>2, <4>3, <4>4 DEF PCs
    <3>2. CASE Rest(p) \/ \E where \in {"check", "nudge"} : Goto(p, where)
      BY <1>3, <1>4, <2>2, <3>2 DEF ReadRun, At, PCs
    <3> QED BY <2>2, <3>1, <3>2 DEF ReadRun
  <2>3. CASE Nudge(p) \/ CheckLog(p)
    BY <1>3, <1>4, <2>3 DEF Nudge, CheckLog, At, PCs
  <2> QED BY <1>7, <2>1, <2>2, <2>3 DEF Sweep
<1>8. CASE Claim(p) \/ PublishOutcome(p) \/ GiveUp(p)
  BY <1>3, <1>4, <1>8 DEF Claim, PublishOutcome, GiveUp, At, PCs
<1> QED BY <1>5, <1>6, <1>7, <1>8 DEF ProcStep
\* The rest of the state a step of a process touches.
LEMMA StepAppends ==
    ASSUME TypeOK, NEW p \in Procs, ProcStep(p)
    PROVE  /\ UNCHANGED <<run, segment>>
           /\ clean' \in BOOLEAN /\ resuming' \in BOOLEAN /\ told' \in BOOLEAN
           /\ claims' = claims \/ claims' = claims \cup {about[p].segment}
           /\ log' = log \/ \E e \in Event : log' = Append(log, e)
<1>1. about[p] \in Knowledge
  BY DEF TypeOK
<1>2. ASSUME NEW kind \in Activity \cup Terminal, NEW s \in Nat, Publish(kind, s)
      PROVE  \E e \in Event : log' = Append(log, e)
  BY <1>2 DEF Publish, Event
<1>3. CASE p \in Followups /\ Followup(p)
  <2>1. CASE PublishResumed(p)
    <3>1. Publish("resumed", 0)
      BY <2>1 DEF PublishResumed
    <3>2. \E e \in Event : log' = Append(log, e)
      BY <1>2, <3>1 DEF Activity
    <3> QED BY <2>1, <3>2 DEF PublishResumed, TypeOK
  <2> QED BY <1>3, <2>1 DEF Followup, CountResumes, ReadBeforeResume, SendFollowup, SendMessage, TypeOK
<1>4. CASE p \in Watchers /\ Poll(p)
  BY <1>4 DEF Poll, TypeOK
<1>5. CASE p \in Sweeps /\ Sweep(p)
  BY <1>5 DEF Sweep, ListInFlight, ReadRun, Nudge, CheckLog, TypeOK
<1>6. CASE Claim(p) \/ GiveUp(p)
  BY <1>6 DEF Claim, GiveUp, TypeOK
<1>7. CASE PublishOutcome(p)
  <2>1. \E e \in Event : log' = Append(log, e)
    BY <1>1, <1>2, <1>7 DEF PublishOutcome, Knowledge
  <2> QED BY <1>7, <2>1 DEF PublishOutcome, TypeOK
<1> QED BY <1>3, <1>4, <1>5, <1>6, <1>7 DEF ProcStep

LEMMA ProcStepType ==
    ASSUME TypeOK, NEW p \in Procs, ProcStep(p)
    PROVE  TypeOK'
<1>1. PICK where \in PCs, known \in Knowledge :
              /\ Learn(p, where, known)
              /\ where \notin {"idle", "done"} => known.segment > 0
  BY StepLearns
<1>2. pc' \in [Procs -> PCs] /\ about' \in [Procs -> Knowledge]
  BY <1>1 DEF Learn, TypeOK
<1>3. \A q \in Procs : pc'[q] \notin {"idle", "done"} => about'[q].segment > 0
  BY <1>1 DEF Learn, TypeOK
<1>4. claims' \subseteq Nat
  <2>1. about[p].segment \in Nat
    BY DEF TypeOK, Knowledge
  <2>2. claims \subseteq Nat
    BY DEF TypeOK
  <2> QED BY <2>1, <2>2, StepAppends
<1>5. log' \in Seq(Event)
  BY StepAppends DEF TypeOK
<1>6. /\ run' \in {"working", "blocked", "ended"} /\ segment' \in Nat \ {0}
      /\ clean' \in BOOLEAN /\ resuming' \in BOOLEAN /\ told' \in BOOLEAN
  BY StepAppends DEF TypeOK
<1> QED BY <1>2, <1>3, <1>4, <1>5, <1>6 DEF TypeOK

\* What becomes of a row changes neither the type nor the segment of any event.
LEMMA SettlingKeepsEvents ==
    ASSUME TypeOK, WriteRow \/ LoseRow
    PROVE  /\ log' \in Seq(Event) /\ DOMAIN log' = DOMAIN log
           /\ \A i \in DOMAIN log : log'[i].kind = log[i].kind /\ log'[i].segment = log[i].segment
           /\ UNCHANGED <<run, segment, resuming, told, claims, pc, about, clean>>
<1>1. PICK i \in DOMAIN log, row \in {"written", "lost"} : log' = [log EXCEPT ![i].row = row]
  BY DEF WriteRow, LoseRow, Settle
<1>2. log \in Seq(Event) /\ log[i] \in Event
  BY DEF TypeOK
<1> DEFINE new == [log[i] EXCEPT !.row = row]
<1>3. new \in Event /\ new.kind = log[i].kind /\ new.segment = log[i].segment
  BY <1>2 DEF Event
<1>4. log' = [log EXCEPT ![i] = new]
  BY <1>1
<1> HIDE DEF new
<1>5. log' \in Seq(Event) /\ DOMAIN log' = DOMAIN log
  BY <1>2, <1>3, <1>4
<1> QED BY <1>2, <1>3, <1>4, <1>5 DEF WriteRow, LoseRow, Settle

LEMMA TypeInit == Init => TypeOK
<1> SUFFICES ASSUME Init PROVE TypeOK
  OBVIOUS
<1> DEFINE first == [kind |-> "dispatched", segment |-> 0, row |-> "queued"]
<1>1. first \in Event
  BY DEF Event, Activity
<1>2. log = <<first>>
  BY DEF Init
<1> HIDE DEF first
<1>3. log \in Seq(Event)
  BY <1>1, <1>2
<1>4. pc \in [Procs -> PCs]
  BY DEF Init, PCs
<1>5. /\ [Unknown EXCEPT !.segment = 1] \in Knowledge /\ Unknown \in Knowledge
      /\ [Unknown EXCEPT !.segment = 1].segment = 1
  BY DEF Unknown, Knowledge, Terminal
<1>6. about \in [Procs -> Knowledge]
  BY <1>5 DEF Init
<1>7. \A p \in Procs : pc[p] \notin {"idle", "done"} => about[p].segment > 0
  BY <1>5 DEF Init
<1>8. /\ run \in {"working", "blocked", "ended"} /\ segment \in Nat \ {0} /\ claims \subseteq Nat
      /\ clean \in BOOLEAN /\ resuming \in BOOLEAN /\ told \in BOOLEAN
  <2>1. /\ run = "working" /\ segment = 1 /\ claims = {}
        /\ clean = TRUE /\ resuming = FALSE /\ told = FALSE
    BY Zenon DEF Init
  <2>2. clean \in BOOLEAN /\ resuming \in BOOLEAN /\ told \in BOOLEAN
    BY Zenon, <2>1
  <2> QED BY <2>1, <2>2
<1> QED BY <1>3, <1>4, <1>6, <1>7, <1>8 DEF TypeOK

LEMMA TypeNext == TypeOK /\ [Next]_vars => TypeOK'
<1> SUFFICES ASSUME TypeOK, [Next]_vars PROVE TypeOK'
  OBVIOUS
<1>1. CASE Work \/ Resume
  <2>1. /\ run' \in {"working", "blocked", "ended"} /\ segment' \in Nat \ {0}
        /\ resuming' \in BOOLEAN
        /\ UNCHANGED <<log, told, claims, pc, about, clean>>
    <3>1. segment \in Nat \ {0} /\ resuming \in BOOLEAN
      BY DEF TypeOK
    <3>2. CASE Work
      BY <3>1, <3>2 DEF Work
    <3>3. CASE Resume
      <4>1. /\ resuming' = FALSE /\ run' = "working" /\ segment' = segment + 1
            /\ UNCHANGED <<log, told, claims, pc, about, clean>>
        BY Zenon, <3>3 DEF Resume
      <4>2. resuming' \in BOOLEAN
        BY Zenon, <4>1
      <4> QED BY <3>1, <4>1, <4>2
    <3> QED BY <1>1, <3>2, <3>3
  <2> QED BY <2>1 DEF TypeOK
<1>2. CASE WriteRow \/ LoseRow
  BY <1>2, SettlingKeepsEvents DEF TypeOK
<1>3. ASSUME NEW w \in Watchers, NotifyIfBlocked(w) PROVE TypeOK'
  BY <1>3 DEF NotifyIfBlocked, TypeOK
<1>4. ASSUME NEW p \in Procs, ProcStep(p) PROVE TypeOK'
  BY <1>4, ProcStepType
<1>5. CASE UNCHANGED vars
  BY <1>5 DEF vars, TypeOK
<1> QED BY <1>1, <1>2, <1>3, <1>4, <1>5, NextIsAStep

\* Whoever looks at the run knows which segment it looks for.
THEOREM TypeCorrect == Spec => []TypeOK
BY TypeInit, TypeNext, PTL DEF Spec

-----------------------------------------------------------------------------
(* Every end is reported once.                                             *)

\* What was published was claimed before, and a claim has one holder, who has yet
\* to publish.
EndsAreClaimed == \A i \in Ends : log[i].segment \in claims
HoldersAreAlone ==
    \A p \in Procs : pc[p] = "publish" =>
        /\ about[p].segment \in claims
        /\ \A i \in Ends : log[i].segment # about[p].segment
        /\ \A q \in Procs : pc[q] = "publish" /\ about[q].segment = about[p].segment => p = q
Reports == EndsAreClaimed /\ HoldersAreAlone /\ ReportedOnce
ReportInv == TypeOK /\ Reports

\* No step but a publication adds an end.
LEMMA EndsOfAppend ==
    ASSUME TypeOK, NEW e \in Event, log' = Append(log, e)
    PROVE  /\ Ends' = IF e.kind \in Terminal THEN Ends \cup {Len(log) + 1} ELSE Ends
           /\ \A i \in Ends : i \in 1 .. Len(log) /\ log'[i] = log[i]
           /\ Len(log) \in Nat /\ log'[Len(log) + 1] = e /\ Len(log) + 1 \notin Ends
<1>1. log \in Seq(Event)
  BY DEF TypeOK
<1>2. /\ DOMAIN log = 1 .. Len(log) /\ Len(log) \in Nat
      /\ DOMAIN log' = 1 .. (Len(log) + 1) /\ log'[Len(log) + 1] = e
      /\ \A i \in 1 .. Len(log) : log'[i] = log[i]
  BY <1>1
<1>3. Ends' = {i \in 1 .. (Len(log) + 1) : log'[i].kind \in Terminal}
  BY <1>2 DEF Ends
<1>4. Ends = {i \in 1 .. Len(log) : log[i].kind \in Terminal}
  BY <1>2 DEF Ends
<1>5. CASE e.kind \in Terminal
  BY <1>2, <1>3, <1>4, <1>5
<1>6. CASE e.kind \notin Terminal
  BY <1>2, <1>3, <1>4, <1>6
<1> QED BY <1>2, <1>4, <1>5, <1>6

\* A step that publishes no end and takes nobody to publication.
LEMMA QuietStep ==
    ASSUME Reports, claims \subseteq claims',
           Ends' = Ends, \A i \in Ends : log'[i].segment = log[i].segment,
           \A p \in Procs : pc'[p] = "publish" => pc[p] = "publish" /\ about'[p] = about[p]
    PROVE  Reports'
<1>1. EndsAreClaimed'
  BY DEF Reports, EndsAreClaimed
<1>2. ReportedOnce'
  BY DEF Reports, ReportedOnce
<1>3. HoldersAreAlone'
  BY DEF Reports, HoldersAreAlone
<1> QED BY <1>1, <1>2, <1>3 DEF Reports

LEMMA ReportsKept ==
    ASSUME ReportInv, NEW p \in Procs, ProcStep(p)
    PROVE  Reports'
<1>0. TypeOK /\ Reports /\ about \in [Procs -> Knowledge] /\ pc \in [Procs -> PCs]
  BY DEF ReportInv, TypeOK
<1>1. PICK where \in PCs, known \in Knowledge : Learn(p, where, known)
  BY <1>0, StepLearns
<1>2. pc'[p] = where /\ about'[p] = known
      /\ \A q \in Procs : q # p => pc'[q] = pc[q] /\ about'[q] = about[q]
  BY <1>0, <1>1 DEF Learn
<1>3. claims \subseteq claims'
  BY <1>0, StepAppends
<1>4. CASE log' = log /\ where # "publish"
  <2>1. Ends' = Ends /\ \A i \in Ends : log'[i].segment = log[i].segment
    BY <1>4 DEF Ends
  <2>2. \A q \in Procs : pc'[q] = "publish" => pc[q] = "publish" /\ about'[q] = about[q]
    BY <1>2, <1>4
  <2> QED BY <1>0, <1>3, <2>1, <2>2, QuietStep
<1>5. CASE PublishResumed(p)
  <2>1. log' = Append(log, [kind |-> "resumed", segment |-> 0, row |-> "queued"])
        /\ pc'[p] # "publish"
    BY <1>0, <1>5 DEF PublishResumed, Publish, Goto, Learn
  <2>2. [kind |-> "resumed", segment |-> 0, row |-> "queued"] \in Event
        /\ "resumed" \notin Terminal
    BY DEF Event, Activity, Terminal
  <2>3. Ends' = Ends /\ \A i \in Ends : log'[i].segment = log[i].segment
    BY <1>0, <2>1, <2>2, EndsOfAppend
  <2>4. \A q \in Procs : pc'[q] = "publish" => pc[q] = "publish" /\ about'[q] = about[q]
    BY <1>2, <2>1
  <2> QED BY <1>0, <1>3, <2>3, <2>4, QuietStep
<1>6. CASE Claim(p) /\ where = "publish"
  <2>1. /\ about[p].segment \notin claims /\ claims' = claims \cup {about[p].segment}
        /\ about'[p] = about[p] /\ log' = log
    <3>1. ~ Rest(p)
      BY <1>0, <1>2, <1>6 DEF Rest, Learn
    <3> QED BY <1>0, <1>6, <3>1 DEF Claim, Goto, Learn
  <2>2. Ends' = Ends
    BY <2>1 DEF Ends
  <2>3. EndsAreClaimed' /\ ReportedOnce'
    BY <1>0, <2>1, <2>2 DEF Reports, EndsAreClaimed, ReportedOnce
  <2>4. HoldersAreAlone'
    BY <1>0, <1>2, <2>1, <2>2 DEF Reports, EndsAreClaimed, HoldersAreAlone
  <2> QED BY <2>3, <2>4 DEF Reports
<1>7. CASE PublishOutcome(p)
  <2> DEFINE s == about[p].segment
             e == [kind |-> about[p].verdict, segment |-> s, row |-> "queued"]
  <2>1. e \in Event /\ e.kind \in Terminal /\ e.segment = s
    BY <1>0 DEF Event, Knowledge
  <2>2. log' = Append(log, e) /\ pc[p] = "publish" /\ UNCHANGED claims /\ pc'[p] # "publish"
    BY <1>0, <1>7 DEF PublishOutcome, Publish, At, Rest, Learn
  <2> HIDE DEF e
  <2>3. /\ Ends' = Ends \cup {Len(log) + 1}
        /\ \A i \in Ends : i \in 1 .. Len(log) /\ log'[i] = log[i]
        /\ log'[Len(log) + 1].segment = s
    BY <1>0, <2>1, <2>2, EndsOfAppend
  <2>4. s \in claims /\ (\A i \in Ends : log[i].segment # s)
        /\ \A q \in Procs : pc[q] = "publish" /\ about[q].segment = s => q = p
    BY <1>0, <2>2 DEF Reports, HoldersAreAlone
  <2>5. EndsAreClaimed'
    BY <1>0, <2>2, <2>3, <2>4 DEF Reports, EndsAreClaimed
  <2>6. ReportedOnce'
    BY <1>0, <2>3, <2>4 DEF Reports, ReportedOnce
  <2>7. HoldersAreAlone'
    BY <1>0, <1>2, <2>2, <2>3, <2>4 DEF Reports, HoldersAreAlone
  <2> QED BY <2>5, <2>6, <2>7 DEF Reports
<1> QED
  <2>1. PublishResumed(p) \/ PublishOutcome(p) \/ (log' = log /\ (Claim(p) \/ where # "publish"))
    BY <1>0, <1>2 DEF ProcStep, Followup, Sweep, CountResumes, ReadBeforeResume, SendFollowup, SendMessage,
       Poll, ListInFlight, ReadRun, Nudge, CheckLog, Claim, GiveUp, Goto, Rest, Learn
  <2> QED BY <1>4, <1>5, <1>6, <1>7, <2>1

LEMMA ReportInit == Init => ReportInv
<1> SUFFICES ASSUME Init PROVE ReportInv
  OBVIOUS
<1>1. TypeOK
  BY TypeInit
<1>2. Ends = {}
  BY DEF Init, Ends, Terminal
<1>3. \A p \in Procs : pc[p] # "publish"
  BY DEF Init
<1> QED BY <1>1, <1>2, <1>3 DEF ReportInv, Reports, EndsAreClaimed, HoldersAreAlone, ReportedOnce

LEMMA ReportNext == ReportInv /\ [Next]_vars => ReportInv'
<1> SUFFICES ASSUME ReportInv, [Next]_vars PROVE ReportInv'
  OBVIOUS
<1>0. TypeOK /\ TypeOK' /\ Reports
  BY TypeNext DEF ReportInv
<1>1. CASE Work \/ Resume \/ UNCHANGED vars \/ \E w \in Watchers : NotifyIfBlocked(w)
  <2>1. UNCHANGED <<log, claims, pc, about>>
    BY <1>1 DEF Work, Resume, NotifyIfBlocked, vars
  <2> QED BY <1>0, <2>1, QuietStep DEF ReportInv, Ends
<1>2. CASE WriteRow \/ LoseRow
  <2>1. Ends' = Ends /\ \A i \in Ends : log'[i].segment = log[i].segment
    BY <1>0, <1>2, SettlingKeepsEvents DEF Ends
  <2> QED BY <1>0, <1>2, <2>1, SettlingKeepsEvents, QuietStep DEF ReportInv
<1>3. ASSUME NEW p \in Procs, ProcStep(p) PROVE ReportInv'
  BY <1>0, <1>3, ReportsKept DEF ReportInv
<1> QED BY <1>1, <1>2, <1>3, NextIsAStep

\* However watches and overlapping sweeps race for the same end, no segment is
\* reported twice.
THEOREM NoSegmentIsReportedTwice == Spec => []ReportedOnce
<1>1. ReportInv => ReportedOnce
  BY DEF ReportInv, Reports
<1> QED BY <1>1, ReportInit, ReportNext, PTL DEF Spec

-----------------------------------------------------------------------------
(* Reports are of segments that have ended.                                *)

Resumed == {i \in DOMAIN log : log[i].kind = "resumed"}
Sent == {f \in Followups : pc[f] = "sent"}
Count == Cardinality(Resumed)
Begun == segment + (IF resuming THEN 1 ELSE 0)

\* What a process believes of its segment: a follow-up before it is sent that
\* there is at most one resume more than were published, everybody else that its
\* segment has begun, and whoever saw an end that it has ended.
Sound(p) ==
    /\ pc[p] \in {"counted", "sending"} => about[p].segment <= Count + 2
    /\ pc[p] \in {"sent", "poll", "read", "nudge", "check", "claim", "publish"} =>
          about[p].segment <= Begun
    /\ pc[p] \in {"check", "claim", "publish"} /\ about[p].verdict = "completed" =>
          about[p].segment <= Finished

EndsBeforeResume == resuming => run = "ended"
WatchesSeeEnds == \A w \in Watchers : about[w].verdict = "completed"
ResumesAreSent == Count + Cardinality(Sent) + 1 <= Begun
AllAreSound == \A p \in Procs : Sound(p)
Real ==
    /\ ResumesAreSent /\ AllAreSound
    /\ \A s \in claims : s <= Begun
    /\ \A i \in Ends : log[i].kind = "completed" => log[i].segment <= Finished
RealInv == TypeOK /\ EndsBeforeResume /\ WatchesSeeEnds /\ (clean => Real)

BoundsAreNumbers ==
    /\ IsFiniteSet(Resumed) /\ Count \in Nat /\ Resumes <= Count /\ Resumes \in Nat
    /\ IsFiniteSet(Sent) /\ Cardinality(Sent) \in Nat
    /\ Begun \in Nat /\ Finished \in Nat

LEMMA CountsAreNumbers == TypeOK => BoundsAreNumbers
<1> SUFFICES ASSUME TypeOK PROVE BoundsAreNumbers
  OBVIOUS
<1>1. IsFiniteSet(Resumed)
  <2>1. IsFiniteSet(DOMAIN log) /\ Resumed \subseteq DOMAIN log
    BY RowsAreInTheLog DEF Resumed
  <2> QED BY <2>1, FS_Subset
<1>2. IsFiniteSet(Sent)
  <2>1. Sent \subseteq Followups
    BY DEF Sent
  <2> QED BY <2>1, RunWatchAssumption, FS_Subset
<1>3. Rows({"resumed"}) \subseteq Resumed
  BY DEF Rows, Resumed
<1>4. Count \in Nat /\ Resumes <= Count /\ Resumes \in Nat /\ Cardinality(Sent) \in Nat
  BY <1>1, <1>2, <1>3, FS_Subset, FS_CardinalityType DEF Count, Resumes
<1>5. Begun \in Nat /\ Finished \in Nat
  BY DEF TypeOK, Begun, Finished
<1> QED BY <1>1, <1>2, <1>4, <1>5 DEF BoundsAreNumbers

LEMMA CountsStayNumbers == TypeOK' => BoundsAreNumbers'
BY CountsAreNumbers, PTL

\* Only the publication of a resume is counted.
LEMMA CountOfAppend ==
    ASSUME TypeOK, NEW e \in Event, log' = Append(log, e)
    PROVE  Count' = IF e.kind = "resumed" THEN Count + 1 ELSE Count
<1>1. log \in Seq(Event)
  BY DEF TypeOK
<1>2. /\ DOMAIN log = 1 .. Len(log) /\ Len(log) \in Nat
      /\ DOMAIN log' = 1 .. (Len(log) + 1) /\ log'[Len(log) + 1] = e
      /\ \A i \in 1 .. Len(log) : log'[i] = log[i]
  BY <1>1
<1>3. Resumed' = {i \in 1 .. (Len(log) + 1) : log'[i].kind = "resumed"}
  BY <1>2 DEF Resumed
<1>4. Resumed = {i \in 1 .. Len(log) : log[i].kind = "resumed"}
  BY <1>2 DEF Resumed
<1>5. CASE e.kind = "resumed"
  <2>1. Resumed' = Resumed \cup {Len(log) + 1} /\ Len(log) + 1 \notin Resumed
    BY <1>2, <1>3, <1>4, <1>5
  <2> QED BY <1>5, <2>1, CountsAreNumbers, FS_AddElement DEF Count, BoundsAreNumbers
<1>6. CASE e.kind # "resumed"
  <2>1. Resumed' = Resumed
    BY <1>2, <1>3, <1>4, <1>6
  <2> QED BY <1>6, <2>1 DEF Count
<1> QED BY <1>5, <1>6

\* A step that lowers none of the bounds, and leaves a process where it is.
LEMMA SoundKept ==
    ASSUME TypeOK, TypeOK', NEW p \in Procs, Sound(p),
           Count <= Count', Begun <= Begun', Finished <= Finished',
           pc'[p] = pc[p], about'[p] = about[p]
    PROVE  Sound(p)'
<1>1. /\ Count \in Nat /\ Count' \in Nat /\ Begun \in Nat /\ Begun' \in Nat
      /\ Finished \in Nat /\ Finished' \in Nat
  BY CountsAreNumbers, CountsStayNumbers DEF BoundsAreNumbers
<1>2. about[p].segment \in Nat
  BY DEF TypeOK, Knowledge
<1> QED BY <1>1, <1>2 DEF Sound

\* A watch reports nothing but an end it has read.
LEMMA WatchesKeepSeeing ==
    ASSUME TypeOK, WatchesSeeEnds, NEW p \in Procs, ProcStep(p)
    PROVE  WatchesSeeEnds'
<1>0. about \in [Procs -> Knowledge] /\ Watchers \subseteq Procs
  BY DEF TypeOK, Procs
<1>1. PICK where \in PCs, known \in Knowledge : Learn(p, where, known)
  BY StepLearns
<1>2. about'[p] = known /\ \A q \in Procs : q # p => about'[q] = about[q]
  BY <1>0, <1>1 DEF Learn
<1>3. CASE p \in Sweeps
  <2>1. p \notin Watchers
    BY <1>3, RunWatchAssumption DEF Watchers
  <2> QED BY <1>0, <1>2, <2>1 DEF WatchesSeeEnds
<1>4. CASE p \notin Sweeps
  <2>1. about' = about \/ about' = [about EXCEPT ![p] = Unknown]
        \/ about' = [about EXCEPT ![p] = [about[p] EXCEPT !.segment = Resumes + 2]]
    BY <1>0, <1>4 DEF ProcStep, Followup, CountResumes, ReadBeforeResume, SendFollowup, SendMessage,
       PublishResumed, Poll, Claim, PublishOutcome, GiveUp, Goto, Rest, Learn
  <2>2. Unknown.verdict = "completed"
    BY DEF Unknown
  <2>3. [about[p] EXCEPT !.segment = Resumes + 2].verdict = about[p].verdict
    BY <1>0 DEF Knowledge
  <2>4. \A w \in Watchers : about'[w].verdict \in {about[w].verdict, "completed"}
    BY <1>0, <2>1, <2>2, <2>3
  <2> QED BY <2>4 DEF WatchesSeeEnds
<1> QED BY <1>3, <1>4

\* One process moves and no bound sinks.
LEMMA AllStaySound ==
    ASSUME TypeOK, TypeOK', AllAreSound, NEW p \in Procs, NEW where, NEW known,
           Learn(p, where, known), Sound(p)',
           Count <= Count', Begun <= Begun', Finished <= Finished'
    PROVE  AllAreSound'
<1> SUFFICES ASSUME NEW q \in Procs PROVE Sound(q)'
  BY DEF AllAreSound
<1>1. CASE q = p
  BY <1>1
<1>2. CASE q # p
  <2>1. pc'[q] = pc[q] /\ about'[q] = about[q]
    BY <1>2 DEF Learn, TypeOK
  <2> QED BY <2>1, SoundKept DEF AllAreSound
<1> QED BY <1>1, <1>2

\* A process moves, publishes nothing and has no message taken.
LEMMA QuietlyReal ==
    ASSUME TypeOK, TypeOK', Real, NEW p \in Procs, NEW where, NEW known,
           Learn(p, where, known), Sound(p)',
           UNCHANGED <<run, segment, resuming, log>>, pc[p] # "sent", where # "sent",
           \A s \in claims' : s \in claims \/ s <= Begun
    PROVE  Real'
<1>1. Count' = Count /\ Begun' = Begun /\ Finished' = Finished /\ Ends' = Ends
  BY DEF Count, Resumed, Begun, Finished, Ends
<1>2. Sent' = Sent
  BY DEF Sent, Learn, TypeOK
<1>3. Count \in Nat /\ Begun \in Nat /\ Finished \in Nat
  BY CountsAreNumbers DEF BoundsAreNumbers
<1>4. AllAreSound'
  BY <1>1, <1>3, AllStaySound DEF Real
<1> QED BY <1>1, <1>2, <1>4 DEF Real, ResumesAreSent

LEMMA FollowupIsReal ==
    ASSUME TypeOK, TypeOK', EndsBeforeResume, Real, clean', NEW f \in Followups, Followup(f)
    PROVE  Real'
<1>0. f \in Procs /\ about[f].segment \in Nat /\ Sound(f) /\ BoundsAreNumbers
  BY CountsAreNumbers DEF Procs, Watchers, TypeOK, Knowledge, Real, AllAreSound
<1>a. about \in [Procs -> Knowledge] /\ pc \in [Procs -> PCs]
  BY DEF TypeOK
<1>b. Followups \subseteq Procs
  BY DEF Procs, Watchers
<1>1. CASE CountResumes(f)
  <2> DEFINE known == [about[f] EXCEPT !.segment = Resumes + 2]
  <2>1. Learn(f, "counted", known) /\ known.segment = Resumes + 2
    BY <1>0, <1>a, <1>1 DEF CountResumes, Knowledge
  <2> HIDE DEF known
  <2>2. pc'[f] = "counted" /\ about'[f].segment = Resumes + 2
    BY <1>0, <1>a, <2>1 DEF Learn
  <2>3. UNCHANGED <<run, segment, resuming, log, claims>> /\ pc[f] # "sent"
    BY <1>1 DEF CountResumes, At
  <2>4. Count' = Count
    BY <2>3 DEF Count, Resumed
  <2>5. Sound(f)'
    BY <1>0, <2>2, <2>4 DEF Sound, BoundsAreNumbers
  <2> QED BY <1>0, <2>1, <2>3, <2>5, QuietlyReal
<1>2. CASE ReadBeforeResume(f)
  <2>1. UNCHANGED <<run, segment, resuming, log, claims>> /\ pc[f] = "counted"
    BY <1>2 DEF ReadBeforeResume, At
  <2>2. PICK where \in {"sending", "messaging"} : Learn(f, where, about[f])
    BY <1>2 DEF ReadBeforeResume, Goto
  <2>3. pc'[f] = where /\ about'[f] = about[f]
    BY <1>0, <1>a, <2>2 DEF Learn
  <2>4. Count' = Count
    BY <2>1 DEF Count, Resumed
  <2>5. Sound(f)'
    BY <1>0, <2>1, <2>2, <2>3, <2>4 DEF Sound
  <2> QED BY <1>0, <2>1, <2>2, <2>5, QuietlyReal
<1>3. CASE SendFollowup(f)
  <2>1. /\ pc[f] = "sending" /\ Learn(f, "sent", about[f])
        /\ UNCHANGED <<run, segment, log, claims>>
        /\ run = "ended" /\ ~resuming /\ resuming'
    BY <1>3 DEF SendFollowup, At, Goto
  <2>2. pc'[f] = "sent" /\ about'[f] = about[f]
    BY <1>0, <1>a, <2>1 DEF Learn
  <2>3. Count' = Count /\ Finished' = Finished /\ Ends' = Ends
    BY <2>1 DEF Count, Resumed, Finished, Ends
  <2>4. Begun = segment /\ Begun' = segment + 1 /\ segment \in Nat
    BY <2>1 DEF Begun, TypeOK
  <2>5. Sent' = Sent \cup {f} /\ f \notin Sent
    BY <1>a, <1>b, <2>1 DEF Sent, Learn
  <2>6. Cardinality(Sent') = Cardinality(Sent) + 1
    BY <1>0, <2>5, FS_AddElement DEF BoundsAreNumbers
  <2>7. ResumesAreSent'
    BY <1>0, <2>3, <2>4, <2>6 DEF Real, ResumesAreSent, BoundsAreNumbers
  <2>8. about[f].segment <= Begun'
    BY <1>0, <2>1, <2>4 DEF Sound, Real, ResumesAreSent, BoundsAreNumbers
  <2>9. Sound(f)'
    BY <2>2, <2>8 DEF Sound
  <2>10. AllAreSound'
    BY <1>0, <2>1, <2>3, <2>4, <2>9, AllStaySound DEF Real, BoundsAreNumbers
  <2>11. \A s \in claims' : s <= Begun'
    BY <2>1, <2>4 DEF Real, TypeOK
  <2> QED BY <2>1, <2>3, <2>7, <2>10, <2>11 DEF Real
<1>4. CASE PublishResumed(f)
  <2> DEFINE e == [kind |-> "resumed", segment |-> 0, row |-> "queued"]
  <2>1. /\ pc[f] = "sent" /\ Learn(f, "poll", about[f]) /\ log' = Append(log, e)
        /\ UNCHANGED <<run, segment, resuming, claims>>
    BY <1>4 DEF PublishResumed, At, Goto, Publish
  <2>2. e \in Event /\ e.kind = "resumed" /\ "resumed" \notin Terminal
    BY DEF Event, Activity, Terminal
  <2> HIDE DEF e
  <2>3. Count' = Count + 1
    BY <2>1, <2>2, CountOfAppend
  <2>4. Ends' = Ends /\ \A i \in Ends : log'[i] = log[i]
    BY <2>1, <2>2, EndsOfAppend
  <2>5. Begun' = Begun /\ Finished' = Finished
    BY <2>1 DEF Begun, Finished
  <2>6. pc'[f] = "poll" /\ about'[f] = about[f]
    BY <1>0, <1>a, <2>1 DEF Learn
  <2>7. Sent' = Sent \ {f} /\ f \in Sent
    BY <1>a, <1>b, <2>1 DEF Sent, Learn
  <2>8. Cardinality(Sent') = Cardinality(Sent) - 1
    BY <1>0, <2>7, FS_RemoveElement DEF BoundsAreNumbers
  <2>9. ResumesAreSent'
    BY <1>0, <2>3, <2>5, <2>8 DEF Real, ResumesAreSent, BoundsAreNumbers
  <2>10. Sound(f)'
    BY <1>0, <2>1, <2>5, <2>6 DEF Sound
  <2>11. AllAreSound'
    BY <1>0, <2>1, <2>3, <2>5, <2>10, AllStaySound DEF Real, BoundsAreNumbers
  <2> QED BY <2>1, <2>4, <2>5, <2>9, <2>11 DEF Real
<1>5. CASE SendMessage(f)
  <2>1. run # "ended" /\ pc[f] = "messaging" /\ UNCHANGED <<run, segment, log, claims>>
    BY Zenon, <1>5 DEF SendMessage, At
  <2>2. ~resuming /\ resuming' = resuming
    BY Zenon, <1>5, <2>1 DEF SendMessage, EndsBeforeResume, TypeOK
  <2>3. PICK where \in {"idle", "done"} : Learn(f, where, Unknown)
    BY <1>5 DEF SendMessage, Rest
  <2>4. Sound(f)'
    BY <1>0, <1>a, <2>3 DEF Sound, Learn
  <2> QED BY <1>0, <2>1, <2>2, <2>3, <2>4, QuietlyReal
<1> QED BY <1>1, <1>2, <1>3, <1>4, <1>5 DEF Followup

LEMMA WatchIsReal ==
    ASSUME TypeOK, TypeOK', Real, clean', NEW w \in Watchers, Poll(w)
    PROVE  Real'
<1>0. w \in Procs /\ about \in [Procs -> Knowledge] /\ pc \in [Procs -> PCs] /\ Sound(w)
  BY DEF Procs, TypeOK, Real, AllAreSound
<1>1. /\ pc[w] = "poll" /\ run = "ended" /\ ~resuming /\ Learn(w, "claim", about[w])
      /\ UNCHANGED <<run, segment, resuming, log, claims>>
  BY DEF Poll, At, Goto
<1>2. pc'[w] = "claim" /\ about'[w] = about[w]
  BY <1>0, <1>1 DEF Learn
<1>3. Finished' = segment /\ Begun' = segment /\ Begun = segment /\ segment \in Nat
  BY <1>1 DEF Begun, Finished, TypeOK
<1>4. Sound(w)'
  BY <1>0, <1>1, <1>2, <1>3 DEF Sound
<1> QED BY <1>0, <1>1, <1>4, QuietlyReal

LEMMA SweepIsReal ==
    ASSUME TypeOK, TypeOK', Real, clean', NEW s \in Sweeps, Sweep(s)
    PROVE  Real'
<1>0. /\ s \in Procs /\ about \in [Procs -> Knowledge] /\ pc \in [Procs -> PCs]
      /\ Sound(s) /\ BoundsAreNumbers /\ about[s].segment \in Nat
  BY CountsAreNumbers DEF Procs, TypeOK, Real, AllAreSound, Knowledge
<1>1. UNCHANGED <<run, segment, resuming, log, claims>>
      /\ pc[s] \in {"idle", "read", "nudge", "check"}
  BY DEF Sweep, ListInFlight, ReadRun, Nudge, CheckLog, At
<1>2. Count' = Count /\ Begun' = Begun /\ Finished' = Finished
  BY <1>1 DEF Count, Resumed, Begun, Finished
<1>3. CASE ListInFlight(s)
  <2>1. PICK i \in DOMAIN log : Learn(s, "read", [segment |-> Resumes + 1, since |-> i,
                                                 verdict |-> "completed"])
    BY <1>3 DEF ListInFlight
  <2>2. pc'[s] = "read" /\ about'[s].segment = Resumes + 1
    BY <1>0, <2>1 DEF Learn
  <2>3. Resumes + 1 <= Begun
    BY <1>0 DEF BoundsAreNumbers, Real, ResumesAreSent
  <2>4. Sound(s)'
    BY <1>2, <2>2, <2>3 DEF Sound
  <2> QED BY <1>0, <1>1, <2>1, <2>4, QuietlyReal
<1>4. CASE ReadRun(s)
  <2>1. PICK where \in {"check", "nudge", "idle", "done"},
             known \in {Unknown, about[s], [about[s] EXCEPT !.verdict = "timeout"]} :
           /\ Learn(s, where, known)
           /\ \/ known = Unknown /\ where \in {"idle", "done"}
              \/ known = about[s] /\ (where = "nudge" \/ run = "ended")
              \/ known = [about[s] EXCEPT !.verdict = "timeout"]
    BY <1>4 DEF ReadRun, Goto, Rest
  <2>2. pc'[s] = where /\ about'[s] = known
    BY <1>0, <2>1 DEF Learn
  <2>3. about[s].segment <= Begun
    BY <1>4, <1>0 DEF Sound, ReadRun, At
  <2>4. run = "ended" => Finished = Begun
    <3>1. ~resuming
      BY Zenon, <1>4 DEF ReadRun
    <3>2. segment \in Nat
      BY DEF TypeOK
    <3> QED BY <3>1, <3>2 DEF Finished, Begun
  <2>5. [about[s] EXCEPT !.verdict = "timeout"].verdict = "timeout"
        /\ [about[s] EXCEPT !.verdict = "timeout"].segment = about[s].segment
    BY <1>0 DEF Knowledge
  <2>6. Sound(s)'
    BY <1>2, <2>1, <2>2, <2>3, <2>4, <2>5 DEF Sound
  <2> QED BY <1>0, <1>1, <2>1, <2>6, QuietlyReal
<1>5. CASE Nudge(s) \/ CheckLog(s)
  <2>1. PICK where \in {"claim", "idle", "done"}, known \in {about[s], Unknown} :
           /\ Learn(s, where, known)
           /\ where = "claim" => known = about[s] /\ pc[s] = "check"
    BY <1>5 DEF Nudge, CheckLog, Goto, Rest, At
  <2>2. pc'[s] = where /\ about'[s] = known
    BY <1>0, <2>1 DEF Learn
  <2>3. Sound(s)'
    BY <1>0, <1>2, <2>1, <2>2 DEF Sound
  <2> QED BY <1>0, <1>1, <2>1, <2>3, QuietlyReal
<1> QED BY <1>3, <1>4, <1>5 DEF Sweep

LEMMA EndingIsReal ==
    ASSUME TypeOK, TypeOK', Real, NEW p \in Procs, Claim(p) \/ PublishOutcome(p) \/ GiveUp(p)
    PROVE  Real'
<1>0. /\ about \in [Procs -> Knowledge] /\ pc \in [Procs -> PCs]
      /\ Sound(p) /\ BoundsAreNumbers /\ about[p].segment \in Nat
  BY CountsAreNumbers DEF TypeOK, Real, AllAreSound, Knowledge
<1>1. CASE Claim(p) \/ GiveUp(p)
  <2>1. PICK where \in {"publish", "idle", "done"}, known \in {about[p], Unknown} :
           /\ Learn(p, where, known)
           /\ where = "publish" => known = about[p] /\ pc[p] = "claim"
    BY <1>1 DEF Claim, GiveUp, Goto, Rest, At
  <2>2. /\ UNCHANGED <<run, segment, resuming, log>> /\ pc[p] # "sent"
        /\ claims' = claims \/ (pc[p] = "claim" /\ claims' = claims \cup {about[p].segment})
    BY <1>1 DEF Claim, GiveUp, At
  <2>3. Count' = Count /\ Begun' = Begun /\ Finished' = Finished
    BY <2>2 DEF Count, Resumed, Begun, Finished
  <2>4. pc'[p] = where /\ about'[p] = known
    BY <1>0, <2>1 DEF Learn
  <2>5. Sound(p)'
    BY <1>0, <2>1, <2>3, <2>4 DEF Sound
  <2>6. \A s \in claims' : s \in claims \/ s <= Begun
    BY <1>0, <2>2 DEF Sound
  <2> QED BY <1>0, <2>1, <2>2, <2>5, <2>6, QuietlyReal
<1>2. CASE PublishOutcome(p)
  <2> DEFINE s == about[p].segment
             e == [kind |-> about[p].verdict, segment |-> s, row |-> "queued"]
  <2>1. e \in Event /\ e.kind \in Terminal /\ e.kind = about[p].verdict /\ e.segment = s
    BY <1>0 DEF Event, Knowledge
  <2>2. /\ log' = Append(log, e) /\ pc[p] = "publish"
        /\ UNCHANGED <<run, segment, resuming, claims>>
    BY <1>2 DEF PublishOutcome, Publish, At
  <2>3. PICK where \in {"idle", "done"} : Learn(p, where, Unknown)
    BY <1>2 DEF PublishOutcome, Rest
  <2> HIDE DEF e
  <2>4. /\ Ends' = Ends \cup {Len(log) + 1}
        /\ \A i \in Ends : log'[i] = log[i]
        /\ log'[Len(log) + 1] = e
    BY <2>1, <2>2, EndsOfAppend
  <2>5. Count' = Count
    BY <2>1, <2>2, CountOfAppend DEF Terminal
  <2>6. Begun' = Begun /\ Finished' = Finished
    BY <2>2 DEF Begun, Finished
  <2>7. Sent' = Sent
    BY <1>0, <2>2, <2>3 DEF Sent, Learn
  <2>8. ResumesAreSent'
    BY <2>5, <2>6, <2>7 DEF Real, ResumesAreSent
  <2>9. Sound(p)'
    BY <1>0, <2>3 DEF Sound, Learn
  <2>10. AllAreSound'
    BY <1>0, <2>3, <2>5, <2>6, <2>9, AllStaySound DEF Real, BoundsAreNumbers
  <2>11. about[p].verdict = "completed" => s <= Finished
    BY <1>0, <2>2 DEF Sound
  <2>12. \A i \in Ends' : log'[i].kind = "completed" => log'[i].segment <= Finished'
    BY <2>1, <2>4, <2>6, <2>11 DEF Real
  <2> QED BY <2>2, <2>6, <2>8, <2>10, <2>12 DEF Real
<1> QED BY <1>1, <1>2

LEMMA RealInit == Init => RealInv
<1> SUFFICES ASSUME Init PROVE RealInv
  OBVIOUS
<1>1. TypeOK
  BY TypeInit
<1>2. Resumed = {} /\ Ends = {} /\ Sent = {}
  <2>1. \A f \in Followups : f \in Procs /\ f # Dispatcher
    BY RunWatchAssumption DEF Procs, Watchers
  <2>2. Sent = {}
    BY <2>1 DEF Init, Sent
  <2>3. log = <<[kind |-> "dispatched", segment |-> 0, row |-> "queued"]>>
    BY Zenon DEF Init
  <2>4. Resumed = {} /\ Ends = {}
    BY <2>3 DEF Resumed, Ends, Terminal
  <2> QED BY <2>2, <2>4
<1>3. Count = 0 /\ Cardinality(Sent) = 0
  BY <1>2, FS_EmptySet DEF Count
<1>4. run = "working" /\ segment = 1 /\ resuming = FALSE /\ claims = {}
  BY Zenon DEF Init
<1>5. EndsBeforeResume
  BY Zenon, <1>4 DEF EndsBeforeResume
<1>6. Begun = 1
  <2>1. ~resuming
    BY Zenon, <1>4
  <2> QED BY <1>4, <2>1 DEF Begun
<1>7. WatchesSeeEnds
  <2>1. Unknown.verdict = "completed" /\ [Unknown EXCEPT !.segment = 1].verdict = "completed"
    BY DEF Unknown
  <2>2. \A w \in Watchers : w \in Procs
    BY DEF Procs
  <2> QED BY <2>1, <2>2 DEF Init, WatchesSeeEnds
<1>8. AllAreSound
  <2> SUFFICES ASSUME NEW p \in Procs PROVE Sound(p)
    BY DEF AllAreSound
  <2>1. pc[p] = "idle" \/ (p = Dispatcher /\ pc[p] = "poll")
    BY DEF Init
  <2>2. p = Dispatcher => about[p] = [Unknown EXCEPT !.segment = 1]
    BY Zenon DEF Init
  <2>3. [Unknown EXCEPT !.segment = 1].segment = 1
    BY DEF Unknown
  <2>4. CASE pc[p] = "idle"
    BY <2>4 DEF Sound
  <2>5. CASE p = Dispatcher /\ pc[p] = "poll"
    <3>1. about[p].segment = 1
      BY <2>2, <2>3, <2>5
    <3> QED BY <1>6, <2>5, <3>1 DEF Sound
  <2> QED BY <2>1, <2>4, <2>5
<1>9. Real
  BY <1>2, <1>3, <1>4, <1>6, <1>8 DEF Real, ResumesAreSent
<1> QED BY <1>1, <1>5, <1>7, <1>9 DEF RealInv

\* Warp and the event log: what has begun or ended stays so.
LEMMA EnvironmentIsReal ==
    ASSUME TypeOK, TypeOK', EndsBeforeResume, WatchesSeeEnds, clean => Real,
           \/ Work \/ Resume \/ WriteRow \/ LoseRow \/ UNCHANGED vars
           \/ \E w \in Watchers : NotifyIfBlocked(w)
    PROVE  EndsBeforeResume' /\ WatchesSeeEnds' /\ (clean' => Real')
<1>0. segment \in Nat /\ log \in Seq(Event)
  BY DEF TypeOK
<1>1. UNCHANGED <<claims, pc, about, clean>>
  BY SettlingKeepsEvents DEF Work, Resume, NotifyIfBlocked, vars
<1>2. /\ DOMAIN log' = DOMAIN log
      /\ \A i \in DOMAIN log : log'[i].kind = log[i].kind /\ log'[i].segment = log[i].segment
  BY SettlingKeepsEvents DEF Work, Resume, NotifyIfBlocked, vars
<1>3. Resumed' = Resumed /\ Ends' = Ends
  BY <1>2 DEF Resumed, Ends
<1>4. Sent' = Sent /\ Count' = Count
  BY <1>1, <1>3 DEF Sent, Count
<1>5. EndsBeforeResume' /\ Begun' = Begun /\ Finished <= Finished'
  <2>1. CASE Work
    <3>1. ~resuming /\ ~resuming' /\ segment' = segment /\ run # "ended"
      BY Zenon, <2>1 DEF Work, EndsBeforeResume
    <3> QED BY <1>0, <3>1 DEF EndsBeforeResume, Begun, Finished
  <2>2. CASE Resume
    <3>1. resuming /\ ~resuming' /\ segment' = segment + 1 /\ run = "ended" /\ run' = "working"
      BY Zenon, <2>2 DEF Resume, EndsBeforeResume
    <3> QED BY <1>0, <3>1 DEF EndsBeforeResume, Begun, Finished
  <2>3. CASE UNCHANGED <<run, segment, resuming>>
    <3>1. Finished \in Nat
      BY CountsAreNumbers DEF BoundsAreNumbers
    <3> QED BY <2>3, <3>1 DEF EndsBeforeResume, Begun, Finished
  <2> QED BY <2>1, <2>2, <2>3, SettlingKeepsEvents DEF NotifyIfBlocked, vars
<1>6. WatchesSeeEnds'
  BY <1>1 DEF WatchesSeeEnds
<1>7. ASSUME Real PROVE Real'
  <2>1. BoundsAreNumbers /\ BoundsAreNumbers'
    BY CountsAreNumbers, CountsStayNumbers
  <2>2. AllAreSound'
    BY <1>1, <1>4, <1>5, <1>7, <2>1, SoundKept DEF Real, AllAreSound, BoundsAreNumbers
  <2>3. \A i \in Ends : log[i].segment \in Nat
    <3>1. \A i \in DOMAIN log : log[i] \in Event
      BY <1>0
    <3> QED BY <3>1 DEF Ends, Event
  <2>4. \A i \in Ends' : log'[i].kind = "completed" => log'[i].segment <= Finished'
    <3>1. SUFFICES ASSUME NEW i \in Ends, log[i].kind = "completed"
                   PROVE  log[i].segment <= Finished'
      BY <1>2, <1>3 DEF Ends
    <3>2. log[i].segment <= Finished
      BY <1>7, <3>1 DEF Real
    <3> QED BY <1>5, <2>1, <2>3, <3>1, <3>2 DEF BoundsAreNumbers
  <2> QED BY <1>1, <1>4, <1>5, <1>7, <2>2, <2>4 DEF Real, ResumesAreSent
<1> QED BY <1>1, <1>5, <1>6, <1>7

LEMMA RealNext == RealInv /\ [Next]_vars => RealInv'
<1> SUFFICES ASSUME RealInv, [Next]_vars PROVE RealInv'
  OBVIOUS
<1>0. TypeOK /\ TypeOK' /\ EndsBeforeResume /\ WatchesSeeEnds /\ (clean => Real)
  BY TypeNext DEF RealInv
<1>1. ASSUME NEW p \in Procs, ProcStep(p) PROVE RealInv'
  <2>1. EndsBeforeResume'
    BY <1>0, <1>1, StepAppends
       DEF EndsBeforeResume, ProcStep, Followup, CountResumes, ReadBeforeResume, SendFollowup, SendMessage,
           PublishResumed, Poll, Sweep, ListInFlight, ReadRun, Nudge, CheckLog, Claim,
           PublishOutcome, GiveUp
  <2>2. WatchesSeeEnds'
    BY <1>0, <1>1, WatchesKeepSeeing
  <2>3. clean' => clean
    BY <1>1
       DEF ProcStep, Followup, CountResumes, ReadBeforeResume, SendFollowup, SendMessage,
           PublishResumed, Poll, Sweep, ListInFlight, ReadRun, Nudge, CheckLog, Claim,
           PublishOutcome, GiveUp
  <2>4. clean' => Real'
    BY <1>0, <1>1, <2>3, FollowupIsReal, WatchIsReal, SweepIsReal, EndingIsReal DEF ProcStep
  <2> QED BY <1>0, <2>1, <2>2, <2>4 DEF RealInv
<1>2. CASE \/ Work \/ Resume \/ WriteRow \/ LoseRow \/ UNCHANGED vars
           \/ \E w \in Watchers : NotifyIfBlocked(w)
  BY <1>0, <1>2, EnvironmentIsReal DEF RealInv
<1> QED BY <1>1, <1>2, NextIsAStep

\* As long as nobody reads a state that Warp is about to leave, nobody claims a
\* segment that is yet to begin, and only a segment that has ended is reported as
\* completed.
THEOREM OnlyWhatEndedIsReported == Spec => []ReportsAreReal
<1>1. RealInv => ReportsAreReal
  BY DEF RealInv, Real, ReportsAreReal, Begun
<1> QED BY <1>1, RealInit, RealNext, PTL DEF Spec
=============================================================================
