------------------------------ MODULE RunWatch ------------------------------
(***************************************************************************)
(* How the end of a Warp agent run is reported (src/apps/kernel/src/lib/   *)
(* warp).  A request that dispatches a run, or resumes one that has ended, *)
(* goes on to watch it after it has answered; a scheduled sweep looks      *)
(* again at every run whose rows in the event log say it is in flight, for *)
(* the watch may die with its process.  Both read the run from Warp, and   *)
(* before they publish its end they claim the segment in a table.  Rows of *)
(* the event log are written behind the publication, in any order, and a   *)
(* row that cannot be written is lost.                                     *)
(*                                                                         *)
(* Before some definitions stands a deliberately wrong variant, used       *)
(* nowhere in the modules; README.md, `Mutants', lists them.               *)
(***************************************************************************)
EXTENDS Integers, FiniteSets, Sequences

CONSTANTS
    Dispatcher,   \* the request that dispatched the run, and its watch
    Followups,    \* requests that resume it, each with its own watch
    Sweeps,       \* ticks of the cron that may overlap
    ClaimantDies  \* whether a process may die between claim and publication

ASSUME RunWatchAssumption ==
    /\ IsFiniteSet(Followups)
    /\ Dispatcher \notin Followups \cup Sweeps
    /\ Followups \cap Sweeps = {}
    /\ ClaimantDies \in BOOLEAN

Watchers == {Dispatcher} \cup Followups
Procs == Watchers \cup Sweeps

VARIABLES
    run,      \* the state of the run that Warp reports
    segment,  \* Warp's current segment: 1, and one more for every resume
    resuming, \* Warp has accepted a resume that it has not applied yet
    log,      \* the events published, in the order of their timestamps
    told,     \* whether warp.run.blocked was published
    claims,   \* kernel.warp_terminal_publish_claims
    pc,       \* where each request, watch and sweep is
    about,    \* what each knows of the run
    clean     \* history: no read of a state that Warp was about to leave

vars == <<run, segment, resuming, log, told, claims, pc, about, clean>>

Activity == {"dispatched", "resumed"}
Terminal == {"completed", "timeout"}
PCs == {"idle", "counted", "messaging", "sending", "sent", "poll", "read", "nudge", "check",
        "claim", "publish", "done"}

\* An event: its type, the segment it ends (0 for an activity), and its row in
\* kernel.event_subscription_log, which is there, or yet to come, or never to come.
Event == [kind : Activity \cup Terminal, segment : Nat, row : {"queued", "written", "lost"}]

\* The segment a process acts for, the time of the latest activity it read, and
\* what it is going to publish.
Knowledge == [segment : Nat, since : Nat, verdict : Terminal]
Unknown == [segment |-> 0, since |-> 0, verdict |-> "completed"]

\* Whoever looks at the run knows which segment it looks for.
TypeOK ==
    /\ run \in {"working", "blocked", "ended"}
    /\ segment \in Nat \ {0}
    /\ resuming \in BOOLEAN
    /\ log \in Seq(Event)
    /\ told \in BOOLEAN
    /\ claims \subseteq Nat
    /\ pc \in [Procs -> PCs]
    /\ about \in [Procs -> Knowledge]
    /\ clean \in BOOLEAN
    /\ \A p \in Procs : pc[p] \notin {"idle", "done"} => about[p].segment > 0

\* The run has just been dispatched: warp.agent.dispatched is published and the
\* dispatch route watches segment 1.
Init ==
    /\ run = "working" /\ segment = 1 /\ resuming = FALSE
    /\ log = <<[kind |-> "dispatched", segment |-> 0, row |-> "queued"]>>
    /\ told = FALSE
    /\ claims = {}
    /\ pc = [p \in Procs |-> IF p = Dispatcher THEN "poll" ELSE "idle"]
    /\ about = [p \in Procs |->
                   IF p = Dispatcher THEN [Unknown EXCEPT !.segment = 1] ELSE Unknown]
    /\ clean = TRUE

At(p, where) == pc[p] = where

\* A process goes on, with what it now knows of the run.
Learn(p, where, known) ==
    /\ pc' = [pc EXCEPT ![p] = where]
    /\ about' = [about EXCEPT ![p] = known]
Goto(p, where) == Learn(p, where, about[p])

\* A watch ends for good, a sweep until its next tick.
Rest(p) == Learn(p, IF p \in Sweeps THEN "idle" ELSE "done", Unknown)

\* publish: the event has its timestamp now, nobody waits for its row.
Publish(kind, s) ==
    log' = Append(log, [kind |-> kind, segment |-> s, row |-> "queued"])

\* The rows of the event log, each named by the time of its publication.
Rows(kinds) == {i \in DOMAIN log : log[i].row = "written" /\ log[i].kind \in kinds}
Latest(i, kinds) == i \in Rows(kinds) /\ \A j \in Rows(kinds) : j <= i
Resumes == Cardinality(Rows({"resumed"}))

-----------------------------------------------------------------------------
(* Warp and the event log.                                                 *)

Work ==
    /\ run # "ended"
    /\ run' \in {"working", "blocked", "ended"} \ {run}
    /\ UNCHANGED <<segment, resuming, log, told, claims, pc, about, clean>>

\* An accepted resume takes effect.
Resume ==
    /\ resuming
    /\ run' = "working" /\ segment' = segment + 1 /\ resuming' = FALSE
    /\ UNCHANGED <<log, told, claims, pc, about, clean>>

\* deliverToSubscribers inserts the row of an event.
Settle(row) ==
    /\ \E i \in DOMAIN log :
          log[i].row = "queued" /\ log' = [log EXCEPT ![i].row = row]
    /\ UNCHANGED <<run, segment, resuming, told, claims, pc, about, clean>>
WriteRow == Settle("written")

\* The insert fails, which is only logged, or the process dies before it:
\* nobody tries again.
LoseRow == Settle("lost")

-----------------------------------------------------------------------------
(* Follow-ups that resume the run.                                         *)

\* Wrong: the watch is not told its segment.
CountNothing(f) ==
    /\ At(f, "idle")
    /\ Goto(f, "counted")
    /\ UNCHANGED <<run, segment, resuming, log, told, claims, clean>>
\* countPriorResumes: before anything is sent, the resumes whose rows are there.
CountResumes(f) ==
    /\ At(f, "idle")
    /\ Learn(f, "counted", [about[f] EXCEPT !.segment = Resumes + 2])
    /\ UNCHANGED <<run, segment, resuming, log, told, claims, clean>>

\* sendFollowup reads the run: only one that has ended is to be resumed.
ReadBeforeResume(f) ==
    /\ At(f, "counted")
    /\ Goto(f, IF run = "ended" THEN "sending" ELSE "messaging")
    /\ clean' = (clean /\ ~ resuming)
    /\ UNCHANGED <<run, segment, resuming, log, told, claims>>

\* Warp takes the message: a run that has ended is resumed, one that goes on
\* gets it as any other message.
SendFollowup(f) ==
    /\ At(f, "sending")
    /\ resuming' = (resuming \/ run = "ended")
    /\ clean' = (clean /\ run = "ended" /\ ~ resuming)
    /\ Goto(f, "sent")
    /\ UNCHANGED <<run, segment, log, told, claims>>

\* A message to a run that was going on resumes it if it has ended since, and
\* nothing is published.
SendMessage(f) ==
    /\ At(f, "messaging")
    /\ resuming' = (resuming \/ run = "ended")
    /\ clean' = (clean /\ run # "ended")
    /\ Rest(f)
    /\ UNCHANGED <<run, segment, log, told, claims>>

\* In both cases of SendFollowup the request publishes a resume and arms a watch for it.
PublishResumed(f) ==
    /\ At(f, "sent")
    /\ Publish("resumed", 0)
    /\ Goto(f, "poll")
    /\ UNCHANGED <<run, segment, resuming, told, claims, clean>>

-----------------------------------------------------------------------------
(* The watch.                                                              *)

Poll(w) ==
    /\ At(w, "poll")
    /\ run = "ended"
    /\ Goto(w, "claim")
    /\ clean' = (clean /\ ~ resuming)
    /\ UNCHANGED <<run, segment, resuming, log, told, claims>>

\* A watch remembers in memory that it has told the owner: no log is asked.
NotifyIfBlocked(w) ==
    /\ At(w, "poll")
    /\ run = "blocked"
    /\ told' = TRUE
    /\ UNCHANGED <<run, segment, resuming, log, claims, pc, about, clean>>

\* Wrong: the claim's answer is ignored.
ClaimAnyway(p) ==
    /\ At(p, "claim")
    /\ claims' = claims \cup {about[p].segment}
    /\ Goto(p, "publish")
    /\ UNCHANGED <<run, segment, resuming, log, told, clean>>
\* claimTerminalPublish: INSERT ... ON CONFLICT DO NOTHING.
Claim(p) ==
    /\ At(p, "claim")
    /\ claims' = claims \cup {about[p].segment}
    /\ IF about[p].segment \in claims THEN Rest(p) ELSE Goto(p, "publish")
    /\ UNCHANGED <<run, segment, resuming, log, told, clean>>

PublishOutcome(p) ==
    /\ At(p, "publish")
    /\ Publish(about[p].verdict, about[p].segment)
    /\ Rest(p)
    /\ UNCHANGED <<run, segment, resuming, told, claims, clean>>

\* The process is suspended or dies, a call fails, or the budget of a watch
\* elapses (warp.run.still_running ends nothing).  A request that dies before its
\* watch is one that stays where it is.
GiveUp(p) ==
    /\ pc[p] \in {"poll", "read", "nudge", "check", "claim", "publish"}
    /\ pc[p] = "publish" => ClaimantDies
    /\ Rest(p)
    /\ UNCHANGED <<run, segment, resuming, log, told, claims, clean>>

-----------------------------------------------------------------------------
(* The sweep.                                                              *)

\* Wrong: only a run that was resumed is listed.
ResumedSince(i) ==
    /\ Latest(i, {"resumed"})
    /\ \A j \in Rows(Terminal) : j < i
\* A run is in flight when its latest activity, i, is newer than its latest end.
InFlightSince(i) ==
    /\ Rows({"dispatched"}) # {}
    /\ Latest(i, Activity)
    /\ \A j \in Rows(Terminal) : j < i

\* Wrong: the segment is counted as a follow-up counts it.
ListOneTooFar(s) ==
    /\ At(s, "idle")
    /\ \E i \in DOMAIN log :
          /\ InFlightSince(i)
          /\ Learn(s, "read", [segment |-> Resumes + 2, since |-> i, verdict |-> "completed"])
    /\ UNCHANGED <<run, segment, resuming, log, told, claims, clean>>
\* listInFlightRuns.
ListInFlight(s) ==
    /\ At(s, "idle")
    /\ \E i \in DOMAIN log :
          /\ InFlightSince(i)
          /\ Learn(s, "read", [segment |-> Resumes + 1, since |-> i, verdict |-> "completed"])
    /\ UNCHANGED <<run, segment, resuming, log, told, claims, clean>>

\* checkOneRun: a run that still works may be past the lookback.
ReadRun(s) ==
    /\ At(s, "read")
    /\ \/ run = "ended" /\ Goto(s, "check")
       \/ run = "blocked" /\ Goto(s, "nudge")
       \/ run = "working" /\ Rest(s)
       \/ run = "working" /\ Learn(s, "check", [about[s] EXCEPT !.verdict = "timeout"])
    /\ clean' = (clean /\ ~ resuming)
    /\ UNCHANGED <<run, segment, resuming, log, told, claims>>

\* Wrong: a blocked run is only counted as in flight.
NudgeNobody(s) ==
    /\ At(s, "nudge")
    /\ Rest(s)
    /\ UNCHANGED <<run, segment, resuming, log, told, claims, clean>>
\* Unless hasPublishedBlockedNotice finds the row, the sweep publishes.
Nudge(s) ==
    /\ At(s, "nudge")
    /\ told' = TRUE
    /\ Rest(s)
    /\ UNCHANGED <<run, segment, resuming, log, claims, clean>>

\* hasTerminalEventForSegment: an end since the activity that was listed.
CheckLog(s) ==
    /\ At(s, "check")
    /\ IF \E i \in Rows(Terminal) : i >= about[s].since
         THEN Rest(s) ELSE Goto(s, "claim")
    /\ UNCHANGED <<run, segment, resuming, log, told, claims, clean>>

-----------------------------------------------------------------------------
Followup(f) == CountResumes(f) \/ ReadBeforeResume(f) \/ SendFollowup(f)
               \/ SendMessage(f) \/ PublishResumed(f)
Watch(w) == Poll(w) \/ NotifyIfBlocked(w)
Sweep(s) == ListInFlight(s) \/ ReadRun(s) \/ Nudge(s) \/ CheckLog(s)

Next ==
    \/ Work \/ Resume \/ WriteRow \/ LoseRow
    \/ \E f \in Followups : Followup(f)
    \/ \E w \in Watchers : Watch(w)
    \/ \E s \in Sweeps : Sweep(s)
    \/ \E p \in Procs : Claim(p) \/ PublishOutcome(p) \/ GiveUp(p)

\* An insert ends, one way or the other; whoever has claimed publishes; and the
\* cron goes on: what a tick tries again and again, it does in the end.  Neither
\* Warp, nor a follow-up, nor a watch has to do anything.
Fairness ==
    /\ WF_vars(WriteRow \/ LoseRow)
    /\ \A p \in Procs : WF_vars(PublishOutcome(p))
    /\ \A s \in Sweeps :
          /\ WF_vars(ListInFlight(s))
          /\ SF_vars(ReadRun(s)) /\ SF_vars(CheckLog(s))
          /\ SF_vars(Nudge(s)) /\ SF_vars(Claim(s))

Spec == Init /\ [][Next]_vars
FairSpec == Spec /\ Fairness

-----------------------------------------------------------------------------
(* Properties.                                                             *)

Ends == {i \in DOMAIN log : log[i].kind \in Terminal}

\* However watches and overlapping sweeps race for the same end, no segment is
\* reported twice.
ReportedOnce == \A i, j \in Ends : log[i].segment = log[j].segment => i = j

\* The segments of the run that have ended.
Finished == IF run = "ended" THEN segment ELSE segment - 1

\* As long as nobody has read a state that Warp was about to leave, nobody claims
\* a segment that is yet to begin, which would silence it, and only a segment that
\* has ended is reported as completed.
ReportsAreReal ==
    clean =>
        /\ \A s \in claims : s <= segment + (IF resuming THEN 1 ELSE 0)
        /\ \A i \in Ends : log[i].kind = "completed" => log[i].segment <= Finished

\* The row of the dispatch was lost, so that no sweep will ever list the run.
NeverListed == \E i \in DOMAIN log : log[i].kind = "dispatched" /\ log[i].row = "lost"

\* When every watch may die, every tick of the sweep may fail and any row but that
\* of the dispatch may be lost, but nobody dies between claim and publication, the
\* end of a run that is not resumed is reported.
EndIsReported ==
    (run = "ended" /\ segment = 1)
        ~> (Ends # {} \/ segment > 1 \/ resuming \/ NeverListed)

\* Under the same conditions the owner of a run that stays blocked is told.
BlockedIsTold ==
    (run = "blocked" /\ segment = 1)
        ~> (told \/ run # "blocked" \/ Ends # {} \/ NeverListed)
=============================================================================
