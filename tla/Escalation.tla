----------------------------- MODULE Escalation -----------------------------
(***************************************************************************)
(* The second opinion on quarantined videos (src/moderation/               *)
(* realness-client.mjs and the cron of src/index.mjs): a video is          *)
(* submitted to Reality Defender, the cron polls for the result, and one   *)
(* that is confirmed as a fake goes from QUARANTINE to PERMANENT_BAN, one  *)
(* store after the other. Runs of the cron overlap, the dashboard polls    *)
(* too, and at any time somebody may decide on the video, once: a moderator *)
(* in the admin, a caller of the API, or the rollback of classic Vines.    *)
(* Nothing in src/ calls submitToRealityDefender: who does is left open.   *)
(***************************************************************************)
EXTENDS Naturals, FiniteSets

CONSTANTS
  Video,       \* videos, numbered in the order of their keys
  Cron,        \* runs of the cron that can overlap
  HumanActions, \* what a moderator, or a caller of the API, decides
  ListLimit,   \* keys that a run lists
  MaxRuns,     \* bound on the runs (model checking)
  MaxBreaks    \* bound on failures and ended runs (model checking)

ASSUME EscalationAssumption ==
  /\ Video \subseteq Nat
  /\ HumanActions \subseteq {"SAFE", "REVIEW", "QUARANTINE", "AGE_RESTRICTED", "PERMANENT_BAN"}
  /\ ListLimit \in Nat \ {0} /\ MaxRuns \in Nat /\ MaxBreaks \in Nat

VARIABLES
  fake,       \* external: what Reality Defender finds
  rd,         \* rd:<sha256>
  submitting, \* videos on their way to Reality Defender
  viewing,    \* videos whose result the dashboard is polling
  mark,       \* moderation:<sha256>
  flags,      \* the action keys that are set
  verdicts,   \* the action in D1
  blob,       \* external: the state of the blob
  cron,       \* the state of each run
  human,      \* what a moderator is deciding, or has decided, and where
  runs,       \* runs so far
  breaks,     \* failures so far
  cutOff,     \* history: videos of which a step failed or never came
  raced       \* history: videos that somebody decided on during an escalation

escalationVars ==
  <<fake, rd, submitting, viewing, mark, flags, verdicts, blob, cron, human, runs,
    breaks, cutOff, raced>>
stores == <<mark, flags, verdicts, blob>>
past == <<breaks, cutOff, raced>>
bounds == <<runs, past>>

\* act: the decision; mirror: what it leaves in moderation:<sha256>; taken: D1
\* has it, or is to get it; stale: the keys that a rollback has found.
NoDecision == [at |-> "none", by |-> "admin", act |-> "none", mirror |-> "none",
               taken |-> FALSE, stale |-> {}]
IdleRun == [at |-> "idle", left |-> {}, on |-> CHOOSE v \in Video : TRUE]

\* A video that is new, or one whose quarantine still has its mirror in KV: scans
\* do not write one, moderators and the code of old do.
EscalationInit ==
  /\ fake \in [Video -> BOOLEAN] /\ rd = [v \in Video |-> "none"]
  /\ submitting = {} /\ viewing = {}
  /\ mark \in [Video -> {"none", "QUARANTINE"}] /\ verdicts = mark
  /\ flags = [v \in Video |-> {mark[v]} \ {"none"}]
  /\ blob = [v \in Video |-> IF mark[v] = "none" THEN "active" ELSE "restricted"]
  /\ cron = [c \in Cron |-> IdleRun]
  /\ human = [v \in Video |-> NoDecision]
  /\ runs = 0 /\ breaks = 0 /\ cutOff = {} /\ raced = {}

On(c, v, at) == cron[c].at = at /\ cron[c].on = v
Advance(c, at) == cron' = [cron EXCEPT ![c].at = at]
Fails(v) == breaks < MaxBreaks /\ breaks' = breaks + 1 /\ cutOff' = cutOff \cup {v}
Works == UNCHANGED <<breaks, cutOff>>
Escalating(v) ==
  \E c \in Cron : cron[c].at \in {"mirror", "unset", "set", "row", "blossom"} /\ cron[c].on = v

-----------------------------------------------------------------------------
(* Around the cron: submission, the scan, the dashboard, the moderator.    *)

\* submitToRealityDefender: nothing is submitted twice. The upload may fail.
BeginSubmit(v) ==
  /\ rd[v] = "none" /\ v \notin submitting /\ submitting' = submitting \cup {v}
  /\ UNCHANGED <<fake, rd, viewing, stores, cron, human, bounds>>
EndSubmit(v) ==
  /\ v \in submitting /\ submitting' = submitting \ {v}
  /\ rd' \in {rd, [rd EXCEPT ![v] = "pending"]}
  /\ UNCHANGED <<fake, viewing, stores, cron, human, bounds>>

\* The scan quarantines a video that it suspects: in D1, by its key and in
\* Blossom; it writes no mirror.
StoreQuarantine(v) ==
  /\ verdicts[v] = "none"
  /\ verdicts' = [verdicts EXCEPT ![v] = "QUARANTINE"]
  /\ flags' = [flags EXCEPT ![v] = @ \cup {"QUARANTINE"}]
  /\ blob' = [blob EXCEPT ![v] = "restricted"]
  /\ UNCHANGED <<fake, rd, submitting, viewing, mark, cron, human, bounds>>

\* getRealnessResult: the dashboard polls for what is pending, and stores the
\* result over whatever has become of the entry.
BeginView(v) ==
  /\ rd[v] = "pending" /\ v \notin viewing /\ viewing' = viewing \cup {v}
  /\ UNCHANGED <<fake, rd, submitting, stores, cron, human, bounds>>
EndView(v) ==
  /\ v \in viewing /\ viewing' = viewing \ {v}
  /\ rd' \in {rd, [rd EXCEPT ![v] = "complete"]}
  /\ UNCHANGED <<fake, submitting, stores, cron, human, bounds>>

\* A result is kept for KV_RESULT_TTL.
Lapse(v) ==
  /\ rd[v] # "none" /\ rd' = [rd EXCEPT ![v] = "none"]
  /\ UNCHANGED <<fake, submitting, viewing, stores, cron, human, bounds>>

\* POST /admin/api/moderate: the mirror, then D1, then the keys and Blossom.
RacedNow(v) == raced' = IF Escalating(v) THEN raced \cup {v} ELSE raced
HumanMirror(v, a) ==
  /\ human[v].at = "none" /\ RacedNow(v)
  /\ mark' = [mark EXCEPT ![v] = a]
  /\ human' = [human EXCEPT ![v] =
                 [at |-> "row", by |-> "admin", act |-> a, mirror |-> a, taken |-> TRUE,
                  stale |-> {}]]
  /\ UNCHANGED <<fake, rd, submitting, viewing, flags, verdicts, blob, cron, runs, breaks, cutOff>>
HumanRow(v) ==
  /\ human[v].at = "row" /\ human' = [human EXCEPT ![v].at = "rest"]
  /\ verdicts' = [verdicts EXCEPT ![v] = human[v].act]
  /\ UNCHANGED <<fake, rd, submitting, viewing, mark, flags, blob, cron, bounds>>

\* POST /api/v1/moderate, POST /api/v1/quarantine and the rollback of classic Vines
\* begin with D1 and never write the mirror; the first also takes DELETE, and the
\* UPDATE of the second finds no row where there is none.
Elsewhere ==
  {<<"api", a>> : a \in HumanActions \cup {"DELETE"}}
    \cup {<<"quarantine", "QUARANTINE">>, <<"quarantine", "REVIEW">>, <<"rollback", "SAFE">>}
HumanElsewhere(v, by, a) ==
  /\ human[v].at = "none" /\ RacedNow(v)
  /\ LET taken == by # "quarantine" \/ verdicts[v] # "none"
     IN  /\ verdicts' = [verdicts EXCEPT ![v] = IF taken THEN a ELSE @]
         /\ human' = [human EXCEPT ![v] =
                        [at |-> "rest", by |-> by, act |-> a, mirror |-> mark[v], taken |-> taken,
                         stale |-> IF by = "rollback" THEN flags[v] ELSE {}]]
  /\ UNCHANGED <<fake, rd, submitting, viewing, mark, flags, blob, cron, runs, breaks, cutOff>>

\* The keys and Blossom: the admin clears all keys and sets its own, the quarantine
\* endpoint works on one, the rollback deletes those it has found, the moderate
\* endpoint has none.
FlagsAfter(h, old) ==
  CASE h.by = "admin" -> {h.act} \ {"SAFE"}
    [] h.by = "quarantine" -> (old \ {"QUARANTINE"}) \cup ({h.act} \cap {"QUARANTINE"})
    [] h.by = "rollback" -> old \ h.stale
    [] OTHER -> old
BlobAfter(a, old) ==
  CASE a = "SAFE" -> "active" [] a = "AGE_RESTRICTED" -> "age_restricted"
    [] a = "QUARANTINE" -> "restricted" [] a = "PERMANENT_BAN" -> "banned" [] a = "DELETE" -> "deleted"
    [] OTHER -> old
HumanRest(v) ==
  /\ human[v].at = "rest" /\ human' = [human EXCEPT ![v].at = "decided"]
  /\ flags' = [flags EXCEPT ![v] = FlagsAfter(human[v], @)]
  /\ blob' = [blob EXCEPT ![v] = BlobAfter(human[v].act, @)]
  /\ UNCHANGED <<fake, rd, submitting, viewing, mark, verdicts, cron, bounds>>

-----------------------------------------------------------------------------
(* A run of the cron.                                                      *)

\* The first ListLimit entries in the order of the keys, finished ones too.
Listed == {v \in Video : /\ rd[v] # "none"
                         /\ Cardinality({u \in Video : u < v /\ rd[u] # "none"}) < ListLimit}

StartRun(c) ==
  /\ cron[c].at = "idle" /\ runs < MaxRuns /\ runs' = runs + 1
  /\ cron' = [cron EXCEPT ![c].at = "next", ![c].left = Listed]
  /\ UNCHANGED <<fake, rd, submitting, viewing, stores, human, past>>

\* A pending entry is polled, a confirmed one that is not marked is taken up
\* again, any other is passed over.
TakeEntry(c, v) ==
  /\ cron[c].at = "next" /\ v \in cron[c].left /\ \A u \in cron[c].left : v <= u
  /\ cron' = [cron EXCEPT ![c] =
                [left |-> @.left \ {v}, on |-> v,
                 at |-> CASE rd[v] = "pending" -> "poll"
                          [] rd[v] = "complete" /\ fake[v] -> "look"
                          [] OTHER -> "next"]]
  /\ UNCHANGED <<fake, rd, submitting, viewing, stores, human, bounds>>

EndRun(c) ==
  /\ cron[c].at = "next" /\ cron[c].left = {}
  /\ cron' = [cron EXCEPT ![c] = IdleRun]
  /\ UNCHANGED <<fake, rd, submitting, viewing, stores, human, bounds>>

\* pollRealityDefender: not ready or failed, or a result that is stored.
PollResult(c, v) ==
  /\ On(c, v, "poll")
  /\ \/ rd' = [rd EXCEPT ![v] = "complete"] /\ Advance(c, IF fake[v] THEN "look" ELSE "next")
     \/ UNCHANGED rd /\ Advance(c, "next")
  /\ UNCHANGED <<fake, submitting, viewing, stores, human, bounds>>

\* Mutant: what a moderator has decided does not matter.
LookBansAll(c, v) ==
  /\ On(c, v, "look")
  /\ Advance(c, IF mark[v] = "none" THEN "next" ELSE "mirror")
  /\ UNCHANGED <<fake, rd, submitting, viewing, stores, human, bounds>>

\* Mutant: a video that has no mirror is settled too.
LookSettlesAll(c, v) ==
  /\ On(c, v, "look")
  /\ Advance(c, IF mark[v] = "QUARANTINE" THEN "mirror" ELSE "mark")
  /\ UNCHANGED <<fake, rd, submitting, viewing, stores, human, bounds>>

\* Only what is quarantined is escalated; what is not is marked, so that it is
\* not looked at again; what has no mirror is left for every later run.
LookUp(c, v) ==
  /\ On(c, v, "look")
  /\ Advance(c, CASE mark[v] = "none" -> "next" [] mark[v] = "QUARANTINE" -> "mirror"
                  [] OTHER -> "mark")
  /\ UNCHANGED <<fake, rd, submitting, viewing, stores, human, bounds>>

\* The stores, one after the other.
WriteMirror(c, v) ==
  /\ On(c, v, "mirror") /\ Advance(c, "unset") /\ mark' = [mark EXCEPT ![v] = "PERMANENT_BAN"]
  /\ UNCHANGED <<fake, rd, submitting, viewing, flags, verdicts, blob, human, bounds>>
UnsetQuarantine(c, v) ==
  /\ On(c, v, "unset") /\ Advance(c, "set") /\ flags' = [flags EXCEPT ![v] = @ \ {"QUARANTINE"}]
  /\ UNCHANGED <<fake, rd, submitting, viewing, mark, verdicts, blob, human, bounds>>
SetBan(c, v) ==
  /\ On(c, v, "set") /\ Advance(c, "row") /\ flags' = [flags EXCEPT ![v] = @ \cup {"PERMANENT_BAN"}]
  /\ UNCHANGED <<fake, rd, submitting, viewing, mark, verdicts, blob, human, bounds>>

\* An UPDATE whatever the row says by now; its failure, and Blossom's, are logged.
UpdateRow(c, v) ==
  /\ On(c, v, "row") /\ Advance(c, "blossom")
  /\ \/ verdicts' = [verdicts EXCEPT ![v] = IF @ = "none" THEN @ ELSE "PERMANENT_BAN"] /\ Works
     \/ UNCHANGED verdicts /\ Fails(v)
  /\ UNCHANGED <<fake, rd, submitting, viewing, mark, flags, blob, human, runs, raced>>
NotifyBan(c, v) ==
  /\ On(c, v, "blossom") /\ Advance(c, "mark")
  /\ \/ blob' = [blob EXCEPT ![v] = "banned"] /\ Works
     \/ UNCHANGED blob /\ Fails(v)
  /\ UNCHANGED <<fake, rd, submitting, viewing, mark, flags, verdicts, human, runs, raced>>

\* The mark is set on what the entry holds by now, unless it has lapsed.
MarkEscalated(c, v) ==
  /\ On(c, v, "mark") /\ Advance(c, "next")
  /\ rd' = [rd EXCEPT ![v] = IF @ = "none" THEN @ ELSE "escalated"]
  /\ UNCHANGED <<fake, submitting, viewing, stores, human, bounds>>

\* KV fails or the run ends: nothing of it is taken up where it was left.
EndEarly(c) ==
  /\ cron[c].at # "idle" /\ Fails(cron[c].on)
  /\ cron' = [cron EXCEPT ![c] = IdleRun]
  /\ UNCHANGED <<fake, rd, submitting, viewing, stores, human, runs, raced>>

EscalationNext ==
  \/ \E v \in Video :
       \/ BeginSubmit(v) \/ EndSubmit(v) \/ StoreQuarantine(v) \/ BeginView(v)
       \/ EndView(v) \/ Lapse(v) \/ \E a \in HumanActions : HumanMirror(v, a)
       \/ HumanRow(v) \/ HumanRest(v)
       \/ \E d \in Elsewhere : HumanElsewhere(v, d[1], d[2])
  \/ \E c \in Cron, v \in Video :
       \/ TakeEntry(c, v) \/ PollResult(c, v) \/ LookUp(c, v) \/ WriteMirror(c, v)
       \/ UnsetQuarantine(c, v) \/ SetBan(c, v) \/ UpdateRow(c, v) \/ NotifyBan(c, v)
       \/ MarkEscalated(c, v)
  \/ \E c \in Cron : StartRun(c) \/ EndRun(c) \/ EndEarly(c)

EscalationSpec == EscalationInit /\ [][EscalationNext]_escalationVars

-----------------------------------------------------------------------------
BusyOn(v) == \E c \in Cron : cron[c].at \notin {"idle", "next"} /\ cron[c].on = v

(* The mark is what stops the retries (index.mjs:5537), so it must not be  *)
(* set on a video that is still quarantined: unless somebody decided, or a *)
(* step failed, a marked video is banned in D1, in KV and in Blossom -     *)
(* although overlapping runs and the dashboard write its entry as well, and *)
(* the mirror that a run goes by may be missing.                           *)
(* And a decision that D1 took stands where its mirror is not a quarantine, *)
(* unless it fell between a run's look at the mirror and its writes. That   *)
(* is all that is left of "Human decisions are never overridden."           *)
(* (index.mjs:5461): the API, the quarantine endpoint and the rollback leave *)
(* the mirror of a quarantine where it is, and the next run makes a ban of  *)
(* their decision, though never anything but a ban.                        *)
EscalationSettles ==
  \A v \in Video :
    /\ rd[v] = "escalated" /\ ~BusyOn(v) /\ human[v].at = "none" /\ v \notin cutOff =>
         /\ verdicts[v] = "PERMANENT_BAN" /\ mark[v] = "PERMANENT_BAN"
         /\ flags[v] = {"PERMANENT_BAN"} /\ blob[v] = "banned"
    /\ human[v].at = "decided" /\ human[v].taken =>
         /\ verdicts[v] \in {human[v].act, "PERMANENT_BAN"}
         /\ human[v].mirror # "QUARANTINE" /\ v \notin raced =>
              verdicts[v] = human[v].act /\ mark[v] = human[v].mirror
=============================================================================
