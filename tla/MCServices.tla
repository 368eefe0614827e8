---------------------------- MODULE MCServices ------------------------------
(***************************************************************************)
(* Instances for TLC of the services that share no state with one another *)
(* in the model: a behaviour is one of one service, chosen at the start.   *)
(***************************************************************************)
EXTENDS Reports, ReportPoller, DmInbox, GiftWrapFetch, DmSender, Enforcement,
        Escalation, Detector, DeleteSweep, ReplicaBackfill, RelayWalk, Classifier,
        DeleteProbe, VineRollback, TLC

CONSTANTS
  ann, ben, cat,          \* people
  r1, r2, r3, upload,     \* reports over HTTP, and a message of the queue
  p1, p2, e1, e2, e3, e4, \* polls, and reports on the relay
  y1, y2, w1, w2,         \* reads of the inbox, and gift wraps
  warn, tell,             \* a warning, and the outcome of a report
  d1, d2, d3, d4, ba, bb, \* deletions and blobs
  v1, v2, v3, v4          \* videos on the relay

VARIABLE service

\* Three users report, the third of them the uploader.
MCReporterOf == r1 :> ann @@ r2 :> ben @@ r3 :> cat
MCSourceOf == r1 :> "user-report" @@ r2 :> "user-report" @@ r3 :> "user-report"

\* Two deletions of one blob, one of another, and one that names none.
MCShaOf == d1 :> ba @@ d2 :> ba @@ d3 :> bb @@ d4 :> NoSha

\* Two videos with a sha256 of the same second, one without, and an older one.
MCClipTime == v1 :> 2 @@ v2 :> 2 @@ v3 :> 2 @@ v4 :> 1

\* Scores of two categories at the boundaries of the code, oaths and slurs within and
\* above the limits; a mute, thresholds of which one is given, two that leave the
\* quarantine threshold between them, and a pair that is refused.
MCScorings ==
  {[NoScores EXCEPT ![c] = Pct(h), ![d] = Pct(k)] :
     <<c, d, h, k>> \in {"nudity", "violence", "offensive", "self_harm", "ai_generated"}
                       \X {"violence", "military"} \X {50, 60, 70, 80, 95} \X {0, 65, 85}}

Matches(hate, threats, profanity) ==
  [hate_speech |-> hate, threats |-> threats, harassment |-> 0, self_harm |-> 0, grooming |-> 0,
   profanity |-> profanity]
MCWeight == "oaths" :> Matches(0, 0, 6) @@ "slurs" :> Matches(5, 0, 0)
            @@ "rant" :> Matches(4, 4, 7)

HighOnly(n) == [k \in {"high"} |-> Pct(n)]
MCOffers ==
  {[c \in {"offensive", "ai_generated"} |-> HighOnly(0)],
   "violence" :> HighOnly(60) @@ "nudity" :> [k \in {"medium"} |-> Pct(50)],
   [c \in {"violence", "self_harm"} |-> [high |-> Pct(90), medium |-> Pct(80)]],
   [c \in {"offensive"} |-> [high |-> Pct(60), medium |-> Pct(80)]]}

\* A list that names one video twice, the second time with its metadata, and something
\* that is no hash; the enforcement was recorded, or a SAFE row has a key left.
MCList == <<"ha", "no hash", "hb", "ha">>
MCSignals == "ha" :> "undated" @@ "hb" :> "since 2018"
MCTagsOf == "ha" :> {"x", "d"} @@ "hb" :> {"d"}
MCEnforced ==
  {[row |-> "QUARANTINE", keys |-> {"quarantine"}, blob |-> "restricted"],
   [row |-> "SAFE", keys |-> {"permanent-ban"}, blob |-> "restricted"]}

\* One scenario of the probe, or both.
MCPlans == {<<"cron">>, <<"sync", "cron">>}

Services == {"reports", "poller", "inbox", "wraps", "sender", "enforcement", "escalation",
             "detector", "sweep", "replica", "walk", "classifier",
             "probe", "rollback"}

\* A service that is not chosen stays in one of its initial states.
MCInit ==
  /\ service \in Services
  /\ ReportsInit /\ (service = "reports" \/ reviewRow = Nobody)
  /\ PollInit /\ InboxInit
  /\ FetchInit /\ (service = "wraps" \/ (gated /\ accepting))
  /\ DmInit /\ EnforcementInit
  /\ EscalationInit /\ (service = "escalation" \/ \A v \in Video : ~fake[v] /\ mark[v] = "none")
  /\ DetectorInit /\ SweepInit /\ BackfillInit
  /\ RelayWalkInit /\ (service = "walk" \/ (published = {} /\ script = "moderation"))
  /\ ClassifierInit /\ (service = "classifier" \/ (judgment = {} /\ transcript = "absent"))
  /\ DeleteProbeInit
  /\ service = "probe" \/ (probe.todo = <<"cron">> /\ ~probe.skipCleanup)
  /\ VineRollbackInit
  /\ enforced["hb"].row = "SAFE"
  /\ \/ service = "rollback"
     \/ operator.mode = "execute" /\ \A h \in Hash : enforced[h].row = "SAFE"

\* What bounds the overlaps and the faults where the rest of a service is large:
\* faults and scans meet two reports, overlapping polls two events of the first
\* seconds, overlapping reads one wrap of the first day; failures of KV and D1 one
\* message, whose clock stands still; a second attempt the other message only if the
\* first one reached no relay; an escalation that fails, and the dashboard, no decision; a
\* walk three videos, and only the moderation's fails.
Small ==
  /\ \/ reportFaults = 0 /\ scanning[upload] = "queued"
     \/ Cardinality({r \in Report : filing[r].pc # "start"}) <= 2
  /\ pollFaults = 0 \/ Cardinality(Stored) <= 2
  /\ late = {} \/ Cardinality(Stored) <= 2
  /\ poll[p2].pc = "idle" \/ (/\ Cardinality(Stored) <= 2 /\ clock <= 2
                              /\ pollFaults = 0 /\ late = {})
  /\ sync[y2].pc = "idle" \/ (OnRelay \subseteq {w1} /\ inboxFaults = 0 /\ day <= 1)
  /\ dmFaults = 0 \/ AtStep(tell, "idle")
  /\ dmTime = 0 \/ (sent # <<>> /\ dmFaults = 0)
  /\ \/ attempt[warn].number < MaxSends \/ AtStep(tell, "idle")
     \/ Ended(tell) /\ \A r \in Relay : holds[<<warn, 1>>][r] = "unseen"
  /\ (breaks = 0 /\ viewing = {}) \/ \A v \in Video : human[v].at = "none"
  /\ Cardinality(published) <= 3 /\ (walkFaults = 0 \/ script = "moderation")

MCNext ==
  /\ UNCHANGED service
  /\ IF service = "reports" THEN ReportsNext ELSE UNCHANGED reportsVars
  /\ IF service = "poller" THEN PollNext ELSE UNCHANGED pollVars
  /\ IF service = "inbox" THEN InboxNext ELSE UNCHANGED inboxVars
  /\ IF service = "wraps" THEN FetchNext ELSE UNCHANGED fetchVars
  /\ IF service = "sender" THEN DmNext ELSE UNCHANGED dmVars
  /\ IF service = "enforcement" THEN EnforcementNext ELSE UNCHANGED enforcementVars
  /\ IF service = "escalation" THEN EscalationNext ELSE UNCHANGED escalationVars
  /\ IF service = "detector" THEN DetectorNext ELSE UNCHANGED detectorVars
  /\ IF service = "sweep" THEN SweepNext ELSE UNCHANGED sweepVars
  /\ IF service = "replica" THEN BackfillNext ELSE UNCHANGED backfillVars
  /\ IF service = "walk" THEN RelayWalkNext ELSE UNCHANGED walkVars
  /\ IF service = "classifier" THEN ClassifierNext ELSE UNCHANGED classifierVars
  /\ IF service = "probe" THEN DeleteProbeNext ELSE UNCHANGED probeVars
  /\ IF service = "rollback" THEN VineRollbackNext ELSE UNCHANGED rollbackVars
  /\ Small'

MCVars ==
  <<service, reportsVars, pollVars, inboxVars, fetchVars, dmVars, enforcementVars,
    escalationVars, detectorVars, sweepVars, backfillVars, walkVars, classifierVars, probeVars,
    rollbackVars>>

\* Fairness is assumed of the poller only, and of one of its invocations: what
\* keeps the other one small must not bind it to go on.
MCSpec ==
  /\ MCInit /\ [][MCNext]_MCVars
  /\ WF_pollVars(service = "poller" /\ BeginPoll(p1))
  /\ WF_pollVars(service = "poller" /\ PollSteps(p1))
=============================================================================
