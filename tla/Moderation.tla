----------------------------- MODULE Moderation -----------------------------
(***************************************************************************)
(* The decisions about one video (src/index.mjs and src/moderation/): who  *)
(* writes them, and the stores that each writer brings into line one after *)
(* the other - the moderation_results row in D1, the mirror and the action *)
(* keys in KV, the state of the blob in Blossom and the quarantine of its  *)
(* event on the relay.                                                     *)
(*                                                                         *)
(* The writers are moderators (admin, quarantine and rollback endpoints),  *)
(* other services (the moderate endpoint), viewers' reports, the queue of  *)
(* uploads, the cron that reclassifies once a transcript has arrived, and  *)
(* the cron that bans a quarantined video which a detector calls a fake    *)
(* (whose entries and retries are the subject of Escalation).              *)
(* Their invocations overlap in any way, may end at any await, and a call  *)
(* to Blossom or to the relay may fail, with or without its effect.        *)
(***************************************************************************)
EXTENDS Naturals, FiniteSets

CONSTANTS
  Worker,      \* invocations that can run at the same time
  Reactive,    \* REACTIVE_MODERATION_ONLY: the queue is drained unread
  Decisions,   \* the actions that callers and the classifier choose
  Enforcements, \* what may be in force for the uploader when a scan looks
  MaxAttempts, \* deliveries of a message before it is logged as failed
  MaxRequests, \* bound on invocations (model checking)
  MaxFaults,   \* bound on failed calls and ended invocations (model checking)
  Nothing      \* no value

MODERATION_ACTIONS ==
  {"SAFE", "REVIEW", "QUARANTINE", "AGE_RESTRICTED", "PERMANENT_BAN", "DELETE"}
ADMIN_MODERATION_ACTIONS == MODERATION_ACTIONS \ {"DELETE"}

\* The actions that have a KV key of their own (review:, quarantine:, ...).
KeyActions == {"REVIEW", "QUARANTINE", "AGE_RESTRICTED", "PERMANENT_BAN"}

\* What Blossom makes of an action; REVIEW is internal and not sent.
BlobStates == {"active", "restricted", "age_restricted", "banned", "deleted"}
BLOSSOM_ACTION_MAP ==
  [a \in MODERATION_ACTIONS \ {"REVIEW"} |->
     CASE a = "SAFE" -> "active" [] a = "QUARANTINE" -> "restricted"
       [] a = "AGE_RESTRICTED" -> "age_restricted"
       [] a = "PERMANENT_BAN" -> "banned" [] a = "DELETE" -> "deleted"]
Enforces(a) == {BLOSSOM_ACTION_MAP[b] : b \in {a} \ {"REVIEW", Nothing}}

ASSUME DecisionAssumption ==
  /\ Enforcements \subseteq {"none", "approval_required", "relay_banned"}
  /\ Decisions \subseteq MODERATION_ACTIONS /\ Reactive \in BOOLEAN
  /\ MaxAttempts \in Nat \ {0} /\ MaxRequests \in Nat /\ MaxFaults \in Nat
  /\ Nothing \notin MODERATION_ACTIONS

VARIABLES
  row,      \* moderation_results, or Nothing
  mirror,   \* the action under moderation:<sha256>, or Nothing
  keys,     \* the actions whose key is set
  notified, \* transcript-reprocess-notified:<sha256>:<from>:<to>
  queue,    \* the messages of video-moderation-queue
  blossom,  \* external: the state of the blob
  relay,    \* external: the video event is served, hidden or deleted
  job,      \* the state of each invocation
  requests, \* invocations so far
  faults,   \* faults so far
  recorded, \* history: the blob states that D1 or KV has asked for
  rested    \* history: the reviewed decision that has come to rest

vars == <<row, mirror, keys, notified, queue, blossom, relay, job, requests,
          faults, recorded, rested>>
kv == <<mirror, keys, notified>>
outside == <<queue, blossom, relay>>
history == <<recorded, rested>>

Row == [action : MODERATION_ACTIONS, reviewed : BOOLEAN, pending : BOOLEAN,
        event : BOOLEAN]
\* open: what the mirror says, or would be put to say, is QUARANTINE, which
\* the escalation takes for the decision in force.
Rested == [action : MODERATION_ACTIONS, blossom : BlobStates, open : BOOLEAN]
ASSUME RowAssumption == Nothing \notin Row \cup Rested

Message == [attempt : 1..MaxAttempts, forced : BOOLEAN]
Ops == {"admin", "api", "quarantine", "rollback", "repair", "verify",
        "remoderate", "scan", "reprocess", "escalate"}
Steps == {"mirror", "upsert", "clear", "set", "flag", "blossom", "event", "relay",
          "look", "unflag", "peek", "restore", "unset", "replay", "send",
          "classify", "fetch", "resolve", "abandon", "remirror", "check", "mark", "ban"}

\* An invocation that has carried out its decision is done, and idle as soon
\* as another one moves; one that failed or found nothing to do is idle.
Job == [op : Ops, at : Steps \cup {"done", "idle"},
        act : MODERATION_ACTIONS \cup {Nothing}, \* the decision it carries out
        saw : MODERATION_ACTIONS \cup {Nothing}, \* the action it has read
        event : BOOLEAN,          \* it knows the id of the relay event
        mirrored : BOOLEAN,       \* it has read a mirror
        stale : SUBSET KeyActions, \* the keys it has read
        attempt : 1..MaxAttempts, forced : BOOLEAN,  \* of its message
        alone : BOOLEAN]          \* history: no other invocation has moved since it began

Busy(w) == job[w].at \notin {"done", "idle"}
Known == row # Nothing /\ row.event

TypeOK ==
  /\ row \in Row \cup {Nothing}
  /\ mirror \in MODERATION_ACTIONS \cup {Nothing}
  /\ keys \subseteq KeyActions
  /\ notified \subseteq MODERATION_ACTIONS \X MODERATION_ACTIONS
  /\ queue \subseteq Message
  /\ blossom \in BlobStates /\ relay \in {"served", "hidden", "deleted"}
  /\ job \in [Worker -> Job]
  /\ requests \in 0..MaxRequests /\ faults \in 0..MaxFaults
  /\ recorded \subseteq BlobStates
  /\ rested \in Rested \cup {Nothing}

NewJob(op, at, act) ==
  [op |-> op, at |-> at, act |-> act, saw |-> Nothing, event |-> FALSE,
   mirrored |-> FALSE, stale |-> {}, attempt |-> 1, forced |-> FALSE, alone |-> FALSE]

Idle == NewJob("admin", "idle", Nothing)

\* An uploaded video: nobody has decided anything, and Blossom serves it.
Init ==
  /\ row = Nothing /\ mirror = Nothing /\ keys = {} /\ notified = {} /\ queue = {}
  /\ blossom = "active" /\ relay = "served"
  /\ job = [w \in Worker |-> Idle]
  /\ requests = 0 /\ faults = 0 /\ recorded = {"active"} /\ rested = Nothing

-----------------------------------------------------------------------------
(* Invocations.                                                            *)

\* w moves to j; the others are no longer alone. What has ended is forgotten.
Rest(j) == IF j.at = "idle" \/ (j.at = "done" /\ ~j.alone) THEN Idle ELSE j
Become(w, j) ==
  job' = [v \in Worker |-> Rest(IF v = w THEN j ELSE [job[v] EXCEPT !.alone = FALSE])]
Goto(w, at) == Become(w, [job[w] EXCEPT !.at = at])

Alone(w) == \A v \in Worker \ {w} : ~Busy(v)
Request == requests < MaxRequests /\ requests' = requests + 1
Start(w, j) ==
  /\ ~Busy(w) /\ Request
  /\ Become(w, [j EXCEPT !.alone = Alone(w)])
  /\ UNCHANGED faults

\* A request that decides anew: not once a decision has come to rest.
Decide(w, j) == rested = Nothing /\ Start(w, j)

At(w, op, at) == job[w].op \in op /\ job[w].at = at /\ UNCHANGED requests
Record(a) == recorded' = recorded \cup Enforces(a) /\ UNCHANGED rested

-----------------------------------------------------------------------------
(* Steps that several operations share.                                    *)

\* Mutant: the deletion of one of the four keys is missing.
ClearKeysButOne(w) ==
  /\ At(w, {"admin", "reprocess"}, "clear")
  /\ keys' = keys \cap {"QUARANTINE"}
  /\ Goto(w, IF job[w].act \in KeyActions THEN "set" ELSE "blossom")
  /\ UNCHANGED <<row, mirror, notified, outside, faults, history>>

\* The keys of the four actions are deleted, then that of the decision is put.
ClearKeys(w) ==
  /\ At(w, {"admin", "reprocess"}, "clear")
  /\ keys' = {}
  /\ Goto(w, IF job[w].act \in KeyActions THEN "set" ELSE "blossom")
  /\ UNCHANGED <<row, mirror, notified, outside, faults, history>>

SetKey(w) ==
  /\ At(w, {"admin", "reprocess", "escalate"}, "set")
  /\ keys' = keys \cup {job[w].act}
  /\ Goto(w, IF job[w].op = "escalate" THEN "ban" ELSE "blossom")
  /\ UNCHANGED <<row, mirror, notified, outside, faults, history>>

\* notifyBlossom: REVIEW is skipped; a failure ends the request with a 502,
\* or is logged only (handleModerationResult, and the escalation).
AfterBlossom ==
  [op \in Ops |-> CASE op = "api" -> "event"
                    [] op \in {"admin", "scan", "reprocess", "escalate"} -> "relay"
                    [] OTHER -> "done"]

NotifyBlossom(w) ==
  /\ At(w, Ops, "blossom")
  /\ \/ /\ blossom' \in IF job[w].act = "REVIEW" THEN {blossom} ELSE Enforces(job[w].act)
        /\ Goto(w, AfterBlossom[job[w].op])
        /\ UNCHANGED faults
     \/ /\ job[w].act # "REVIEW" /\ faults < MaxFaults /\ faults' = faults + 1
        /\ blossom' \in {blossom} \cup Enforces(job[w].act)
        /\ Goto(w, IF job[w].op \in {"scan", "reprocess", "escalate"} THEN "relay" ELSE "idle")
  /\ UNCHANGED <<row, kv, queue, relay, history>>

\* The API reads the event id after Blossom has answered.
ReadEvent(w) ==
  /\ At(w, {"api"}, "event")
  /\ Become(w, [job[w] EXCEPT !.event = Known, !.at = "relay"])
  /\ UNCHANGED <<row, kv, outside, faults, history>>

\* notifyRelay, which needs the event id, and the deletion of a banned event,
\* which looks the event up; neither answer changes the outcome.
RelayWanted(w) ==
  IF relay = "deleted" THEN {}
  ELSE CASE job[w].act = "PERMANENT_BAN" /\ job[w].op # "api" -> {"deleted"}
         [] job[w].act = "QUARANTINE" /\ job[w].event -> {"hidden"}
         [] job[w].act \in {"SAFE", "AGE_RESTRICTED"} /\ job[w].event -> {"served"}
         [] OTHER -> {}

NotifyRelay(w) ==
  /\ At(w, {"admin", "api", "scan", "reprocess", "escalate"}, "relay")
  /\ \/ relay' \in (IF RelayWanted(w) = {} THEN {relay} ELSE RelayWanted(w)) /\ UNCHANGED faults
     \/ RelayWanted(w) # {} /\ faults < MaxFaults /\ faults' = faults + 1 /\ UNCHANGED relay
  /\ Goto(w, IF job[w].op = "reprocess" THEN "mark" ELSE "done")
  /\ UNCHANGED <<row, kv, queue, blossom, history>>

\* The put of the mirror: the admin's, that of the escalation, and those of a
\* verification and of an abandoned transcript, which put what they have read.
AfterMirror ==
  [op \in Ops |-> CASE op = "admin" -> "upsert" [] op = "escalate" -> "unset" [] OTHER -> "done"]

PutMirror(w) ==
  /\ At(w, {"admin", "verify", "reprocess", "escalate"}, "mirror")
  /\ mirror' = job[w].act /\ Record(job[w].act)
  /\ Goto(w, AfterMirror[job[w].op])
  /\ UNCHANGED <<row, keys, notified, outside, faults>>

\* The invocation ends, or one of its calls throws: a request is answered
\* with a 500, the cron goes on with the next video, the queue redelivers.
\* Of deletions that were sent together, some may have been carried out.
Deleting(w) ==
  CASE job[w].at = "clear" -> keys
    [] job[w].at = "unflag" -> keys \ {"QUARANTINE"}
    [] job[w].at = "unset" -> keys \cap job[w].stale
    [] OTHER -> {}

Crash(w) ==
  /\ Busy(w) /\ faults < MaxFaults /\ faults' = faults + 1
  /\ Goto(w, "idle")
  /\ \E deleted \in SUBSET Deleting(w) : keys' = keys \ deleted
  /\ queue' = IF job[w].op = "scan" /\ job[w].attempt < MaxAttempts
              THEN queue \cup {[attempt |-> job[w].attempt + 1, forced |-> job[w].forced]}
              ELSE queue
  /\ UNCHANGED <<row, mirror, notified, blossom, relay, requests, history>>

-----------------------------------------------------------------------------
(* Moderators and other services.                                          *)

\* Mutant: Blossom is told before anything is recorded.
AdminModerateUnrecorded(w) ==
  /\ \E a \in Decisions \cap ADMIN_MODERATION_ACTIONS :
       Decide(w, [NewJob("admin", "blossom", a) EXCEPT !.event = Known])
  /\ UNCHANGED <<row, kv, outside, history>>

\* POST /admin/api/moderate: the row is read for the id of the event.
AdminModerate(w) ==
  /\ \E a \in Decisions \cap ADMIN_MODERATION_ACTIONS :
       Decide(w, [NewJob("admin", "mirror", a) EXCEPT !.event = Known])
  /\ UNCHANGED <<row, kv, outside, history>>

\* The upsert names the reviewer and ends the wait for a transcript.
AdminUpsert(w) ==
  /\ At(w, {"admin"}, "upsert")
  /\ row' = [action |-> job[w].act, reviewed |-> TRUE, pending |-> FALSE, event |-> Known]
  /\ Record(job[w].act)
  /\ Goto(w, "clear")
  /\ UNCHANGED <<kv, outside, faults>>

\* POST /api/v1/moderate: the upsert sets the action and no reviewer.
ApiModerate(w) ==
  /\ \E a \in Decisions :
       /\ row' = IF row = Nothing
                 THEN [action |-> a, reviewed |-> FALSE, pending |-> FALSE, event |-> FALSE]
                 ELSE [row EXCEPT !.action = a]
       /\ Record(a) /\ Decide(w, NewJob("api", "blossom", a))
  /\ UNCHANGED <<kv, outside>>

\* POST /api/v1/quarantine: an UPDATE, which finds no row for an unknown video.
ApiQuarantine(w) ==
  /\ \E a \in {"QUARANTINE", "REVIEW"} :
       /\ row' = IF row = Nothing THEN Nothing
                 ELSE [row EXCEPT !.action = a, !.reviewed = TRUE]
       /\ Record(IF row = Nothing THEN Nothing ELSE a)
       /\ Decide(w, NewJob("quarantine", "flag", a))
  /\ UNCHANGED <<kv, outside>>

\* The quarantine key: the API sets or deletes it, a scan only sets it.
Flag(w) ==
  /\ At(w, {"quarantine", "scan"}, "flag")
  /\ keys' = IF job[w].act = "QUARANTINE" THEN keys \cup {"QUARANTINE"}
             ELSE keys \ IF job[w].op = "quarantine" THEN {"QUARANTINE"} ELSE {}
  /\ Record(job[w].act)
  /\ Goto(w, "blossom")
  /\ UNCHANGED <<row, mirror, notified, outside, faults>>

\* POST /admin/api/verify-category: works on the mirror, or else on the row;
\* a rejected category may leave no major flag, which approves the video.
Verified(j, seen) ==
  {[j EXCEPT !.at = "mirror", !.act = seen]}
    \cup {[j EXCEPT !.at = "unflag", !.act = "SAFE"] : a \in {seen} \ {"SAFE"}}

VerifyCategory(w) ==
  /\ LET j == NewJob("verify", "look", Nothing)
     IN  \E k \in IF mirror = Nothing THEN {j} ELSE Verified(j, mirror) : Start(w, k)
  /\ UNCHANGED <<row, kv, outside, history>>

Look(w) ==
  /\ At(w, {"verify"}, "look")
  /\ \E j \in IF row = Nothing THEN {[job[w] EXCEPT !.at = "idle"]}
              ELSE Verified(job[w], row.action) : Become(w, j)
  /\ UNCHANGED <<row, kv, outside, faults, history>>

Unflag(w) ==
  /\ At(w, {"verify"}, "unflag")
  /\ keys' = keys \cap {"QUARANTINE"}
  /\ Goto(w, "mirror")
  /\ UNCHANGED <<row, mirror, notified, outside, faults, history>>

\* executeClassicVineRollback: the row is read, then the keys; nothing is left
\* to do when the row is SAFE and no key is set.
ClassicVineRollback(w) ==
  /\ Decide(w, [NewJob("rollback", "peek", "SAFE")
                  EXCEPT !.saw = IF row = Nothing THEN Nothing ELSE row.action])
  /\ UNCHANGED <<row, kv, outside, history>>

Peek(w) ==
  /\ At(w, {"rollback"}, "peek")
  /\ Become(w, [job[w] EXCEPT !.stale = keys,
                              !.at = IF job[w].saw # "SAFE" THEN "restore"
                                     ELSE IF keys # {} THEN "unset" ELSE "done"])
  /\ UNCHANGED <<row, kv, outside, faults, history>>

Restore(w) ==
  /\ At(w, {"rollback"}, "restore")
  /\ row' = IF row = Nothing
            THEN [action |-> "SAFE", reviewed |-> TRUE, pending |-> FALSE, event |-> FALSE]
            ELSE [row EXCEPT !.action = "SAFE", !.reviewed = TRUE]
  /\ Record("SAFE")
  /\ Goto(w, IF job[w].stale = {} THEN "blossom" ELSE "unset")
  /\ UNCHANGED <<kv, outside, faults>>

\* The keys that the rollback has found, or the quarantine of the escalation.
Unset(w) ==
  /\ At(w, {"rollback", "escalate"}, "unset")
  /\ keys' = keys \ job[w].stale
  /\ Goto(w, IF job[w].op = "escalate" THEN "set" ELSE "blossom")
  /\ UNCHANGED <<row, mirror, notified, outside, faults, history>>

\* The age-restricted reconcile: the preview lists rows whose blob is
\* restricted; the operator has them applied, which looks at the blob again.
ReconcilePreview(w) ==
  /\ row # Nothing /\ row.action = "AGE_RESTRICTED" /\ blossom = "restricted"
  /\ Decide(w, NewJob("repair", "replay", "AGE_RESTRICTED"))
  /\ UNCHANGED <<row, kv, outside, history>>

ReconcileApply(w) ==
  /\ At(w, {"repair"}, "replay")
  /\ Goto(w, IF blossom = "restricted" THEN "blossom" ELSE "idle")
  /\ UNCHANGED <<row, kv, outside, faults, history>>

\* POST /test-moderate with force: the row is deleted, then a message is sent.
TestModerate(w) ==
  /\ row' = Nothing
  /\ Decide(w, NewJob("remoderate", "send", Nothing))
  /\ UNCHANGED <<kv, outside, history>>

Send(w) ==
  /\ At(w, {"remoderate"}, "send")
  /\ queue' = queue \cup {[attempt |-> 1, forced |-> FALSE]}
  /\ Goto(w, "done")
  /\ UNCHANGED <<row, kv, blossom, relay, faults, history>>

-----------------------------------------------------------------------------
(* The queue of uploads.                                                   *)

\* A producer queues the video, possibly with an override that forces a scan.
Enqueue(forced) ==
  /\ Request /\ (forced => rested = Nothing)
  /\ queue' = queue \cup {[attempt |-> 1, forced |-> forced]}
  /\ UNCHANGED <<row, kv, blossom, relay, job, faults, history>>

\* queue(): a video with a row is skipped unless the scan is forced.
Deliver(w) ==
  /\ ~Busy(w)
  /\ \E m \in queue :
       /\ queue' = queue \ {m}
       /\ IF Reactive \/ (row # Nothing /\ ~m.forced)
          THEN UNCHANGED job
          ELSE Become(w, [NewJob("scan", "classify", Nothing)
                           EXCEPT !.attempt = m.attempt, !.forced = m.forced, !.alone = Alone(w)])
  /\ UNCHANGED <<row, kv, blossom, relay, requests, faults, history>>

\* applyUploaderEnforcementToResult.
ApplyEnforcement(action, enforcement) ==
  CASE enforcement = "relay_banned" -> "PERMANENT_BAN"
    [] enforcement = "approval_required" /\ action \in {"SAFE", "REVIEW"} -> "QUARANTINE"
    [] OTHER -> action

\* moderateVideo asks for a review of every upload; the INSERT OR REPLACE
\* leaves nothing of an earlier row.
Scan(w) ==
  /\ At(w, {"scan"}, "classify")
  /\ \E enforcement \in Enforcements, p, e \in BOOLEAN :
       LET a == ApplyEnforcement("REVIEW", enforcement)
       IN  /\ row' = [action |-> a, reviewed |-> FALSE, pending |-> p, event |-> e]
           /\ Record(a)
           /\ Become(w, [job[w] EXCEPT !.act = a, !.event = e, !.at = "flag"])
  /\ UNCHANGED <<kv, outside, faults>>

-----------------------------------------------------------------------------
(* The cron: transcripts that were not ready (processPendingTranscriptReprocess). *)

SelectPending(w) ==
  /\ row # Nothing /\ row.pending
  /\ Start(w, [NewJob("reprocess", "fetch", Nothing) EXCEPT !.saw = row.action])
  /\ UNCHANGED <<row, kv, outside, history>>

\* Mutant: the UPDATE does not look at reviewed_by.
AnyPending == row # Nothing /\ row.pending

\* UPDATE ... WHERE transcript_pending = 1 AND reviewed_by IS NULL, and where
\* the invocation goes on if it has changed the row.
Unreviewed == row # Nothing /\ row.pending /\ ~row.reviewed

UpdatePending(w, a, at) ==
  IF Unreviewed
  THEN row' = [row EXCEPT !.action = a, !.pending = FALSE] /\ Become(w, [job[w] EXCEPT !.act = a, !.at = at])
  ELSE UNCHANGED row /\ Goto(w, "idle")

\* The transcript is there, with the mirror that the cron reads; or it is
\* still pending; or there is none; or the row has waited too long.
Fetch(w) ==
  /\ At(w, {"reprocess"}, "fetch")
  /\ \/ Become(w, [job[w] EXCEPT !.mirrored = mirror # Nothing, !.at = "resolve"]) /\ UNCHANGED row
     \/ Goto(w, "idle") /\ UNCHANGED row
     \/ row # Nothing /\ UpdatePending(w, row.action, "idle")
     \/ row # Nothing /\ UpdatePending(w, row.action, "abandon")
  /\ UNCHANGED <<kv, outside, faults, history>>

\* An abandoned row: the mirror is read, and put again.
Abandon(w) ==
  /\ At(w, {"reprocess"}, "abandon")
  /\ Become(w, [job[w] EXCEPT !.act = IF mirror # Nothing THEN mirror ELSE job[w].saw,
                              !.at = "mirror"])
  /\ UNCHANGED <<row, kv, outside, faults, history>>

Resolve(w) ==
  /\ At(w, {"reprocess"}, "resolve")
  /\ \E a \in Decisions \cap ADMIN_MODERATION_ACTIONS :
       /\ UpdatePending(w, a, "remirror")
       /\ Record(IF Unreviewed THEN a ELSE Nothing)
  /\ UNCHANGED <<kv, outside, faults>>

Remirror(w) ==
  /\ At(w, {"reprocess"}, "remirror")
  /\ mirror' = IF job[w].mirrored THEN job[w].act ELSE mirror
  /\ Goto(w, IF job[w].saw = job[w].act THEN "done" ELSE "check")
  /\ UNCHANGED <<row, keys, notified, outside, faults, history>>

Check(w) ==
  /\ At(w, {"reprocess"}, "check")
  /\ Goto(w, IF <<job[w].saw, job[w].act>> \in notified THEN "done" ELSE "clear")
  /\ UNCHANGED <<row, kv, outside, faults, history>>

Mark(w) ==
  /\ At(w, {"reprocess"}, "mark")
  /\ notified' = notified \cup {<<job[w].saw, job[w].act>>}
  /\ Goto(w, "done")
  /\ UNCHANGED <<row, mirror, keys, outside, faults, history>>

-----------------------------------------------------------------------------
(* The cron: confirmed fakes (scheduled, the results of Reality Defender). *)

\* Mutant: a ban is due whatever the mirror says.
AnyMirror == mirror # Nothing

\* It goes by the mirror, whatever the row says: its retries end here too.
Escalatable == mirror = "QUARANTINE"

Escalate(w) ==
  /\ Escalatable
  /\ Start(w, [NewJob("escalate", "mirror", "PERMANENT_BAN") EXCEPT !.stale = {"QUARANTINE"}])
  /\ UNCHANGED <<row, kv, outside, history>>

\* An UPDATE without a condition on the reviewer, which it replaces. A failure
\* is logged only.
Ban(w) ==
  /\ At(w, {"escalate"}, "ban")
  /\ \/ /\ row' = IF row = Nothing THEN Nothing
                   ELSE [row EXCEPT !.action = job[w].act, !.reviewed = TRUE]
        /\ UNCHANGED faults
     \/ faults < MaxFaults /\ faults' = faults + 1 /\ UNCHANGED row
  /\ Goto(w, "blossom")
  /\ UNCHANGED <<kv, outside, history>>

-----------------------------------------------------------------------------
(* What else writes the row.                                               *)

Disturb == job' = [v \in Worker |-> Rest([job[v] EXCEPT !.alone = FALSE])]

\* recordReportForReview, by its upsert: a report asks for a review, or, with
\* enough reporters, for the age gate.
Reported(a) ==
  IF \/ row = Nothing
     \/ ~row.reviewed /\ row.action \in IF a = "REVIEW" THEN {"SAFE"} ELSE {"SAFE", "REVIEW"}
  THEN a ELSE row.action

Report(a) ==
  /\ Request
  /\ row' = IF row = Nothing
            THEN [action |-> a, reviewed |-> FALSE, pending |-> FALSE, event |-> FALSE]
            ELSE [row EXCEPT !.action = Reported(a)]
  /\ Record(Reported(a)) /\ Disturb
  /\ UNCHANGED <<kv, outside, faults>>

\* The backfill finds the event of a row that has none.
Backfill ==
  /\ row # Nothing /\ ~row.event
  /\ row' = [row EXCEPT !.event = TRUE] /\ Disturb
  /\ UNCHANGED <<kv, outside, requests, faults, history>>

-----------------------------------------------------------------------------
(* A decision comes to rest: the row names a reviewer, no scan is forced,  *)
(* and nobody is at work but runs of the cron that still wait for a        *)
(* transcript of a row which they selected, maybe before the review. From  *)
(* here on nobody decides anew, and only what the service does by itself   *)
(* goes on.                                                                *)

Waiting(j) == j.op = "reprocess" /\ j.at \in {"fetch", "resolve"}
Quiet ==
  /\ \A w \in Worker : ~Busy(w) \/ Waiting(job[w])
  /\ row # Nothing /\ row.reviewed
  /\ \A m \in queue : ~m.forced

ComeToRest ==
  /\ rested = Nothing /\ Quiet
  /\ rested' = [action |-> row.action, blossom |-> blossom,
                open |-> "QUARANTINE" = IF mirror = Nothing THEN row.action ELSE mirror]
  /\ UNCHANGED <<row, kv, outside, job, requests, faults, recorded>>

Next ==
  \/ ComeToRest \/ Backfill
  \/ \E forced \in BOOLEAN : Enqueue(forced)
  \/ \E a \in {"REVIEW", "AGE_RESTRICTED"} : Report(a)
  \/ \E w \in Worker :
       \/ AdminModerate(w) \/ ApiModerate(w) \/ ApiQuarantine(w)
       \/ VerifyCategory(w) \/ ClassicVineRollback(w)
       \/ ReconcilePreview(w) \/ TestModerate(w)
       \/ Deliver(w) \/ SelectPending(w) \/ Escalate(w) \/ Ban(w) \/ Crash(w)
       \/ ClearKeys(w) \/ SetKey(w) \/ NotifyBlossom(w) \/ ReadEvent(w)
       \/ NotifyRelay(w) \/ PutMirror(w) \/ AdminUpsert(w) \/ Flag(w)
       \/ Look(w) \/ Unflag(w) \/ Peek(w) \/ Restore(w) \/ Unset(w)
       \/ ReconcileApply(w) \/ Send(w) \/ Scan(w) \/ Fetch(w) \/ Abandon(w)
       \/ Resolve(w) \/ Remirror(w) \/ Check(w) \/ Mark(w)

Spec == Init /\ [][Next]_vars

-----------------------------------------------------------------------------
(* Properties.                                                             *)

\* A blob is never in a state, and its event never hidden or deleted, without
\* D1 or the quarantine key having asked for it before: every writer records
\* the decision first and enforces it afterwards, so a crash in between leaves
\* a decision to repeat and never an enforcement that nobody can explain.
EnforcedMeansRecorded ==
  /\ blossom \in recorded
  /\ relay = "hidden" => "restricted" \in recorded
  /\ relay = "deleted" => "banned" \in recorded

\* What has to agree with the decision a of an operation. A message for the
\* scan that /test-moderate asks for is read in its turn, and thrown away by a
\* queue that is drained unread.
Decided(a) == row # Nothing /\ row.action = a
Landed(j) ==
  CASE j.op = "admin" ->
         /\ Decided(j.act) /\ row.reviewed /\ ~row.pending
         /\ mirror = j.act /\ keys = {j.act} \cap KeyActions
         /\ Enforces(j.act) \subseteq {blossom}
    [] j.op = "api" -> Decided(j.act) /\ Enforces(j.act) \subseteq {blossom}
    [] j.op = "quarantine" ->
         /\ row # Nothing => row.action = j.act /\ row.reviewed
         /\ "QUARANTINE" \in keys <=> j.act = "QUARANTINE"
         /\ Enforces(j.act) \subseteq {blossom}
    [] j.op = "rollback" ->
         /\ Decided("SAFE") /\ keys = {}
         /\ j.saw # "SAFE" \/ j.stale # {} => blossom = "active"
    [] j.op = "repair" -> blossom = "age_restricted"
    [] j.op = "verify" -> mirror = j.act
    [] j.op = "remoderate" -> row = Nothing /\ (Reactive \/ queue # {})
    [] j.op = "scan" -> Decided(j.act) /\ (j.act = "QUARANTINE" => "QUARANTINE" \in keys)
    [] j.op = "escalate" ->
         mirror = j.act /\ j.act \in keys /\ "QUARANTINE" \notin keys
    [] j.op = "reprocess" -> TRUE

\* A request that reports success, and that nothing has run beside, leaves all
\* the stores it writes in agreement on its decision, whatever earlier
\* requests that failed or crashed half way have left in them: repeating a
\* request until it succeeds repairs what its failures left.
DecisionLands == \A w \in Worker : job[w].at = "done" /\ job[w].alone => Landed(job[w])

\* Once a reviewed decision has come to rest, nothing that the service does by
\* itself - redelivered messages, reports, transcripts that arrive for a row
\* selected before the review, category verifications, backfills - changes the
\* decision or the state of the blob again, but for the escalation of a
\* confirmed fake: it turns a decision into a ban, and only where the mirror in
\* KV says QUARANTINE or a verification can copy it there from the row. That is
\* a quarantine at rest (index.mjs:2551, "QUARANTINE is temporary"), but also a
\* decision whose writer left an older QUARANTINE in the mirror, although
\* "Human decisions are never overridden." (index.mjs:5461).
RestedDecisionStands ==
  rested # Nothing =>
    /\ row # Nothing /\ row.reviewed
    /\ row.action = rested.action \/ (rested.open /\ row.action = "PERMANENT_BAN")
    /\ blossom = rested.blossom \/ (rested.open /\ blossom = "banned")

\* The design of the rollback: for a video that is already SAFE the job is a
\* success after ensuring that Blossom is told SAFE.
RollbackTellsBlossom ==
  \A w \in Worker : job[w].op = "rollback" /\ job[w].at = "done" /\ job[w].alone => blossom = "active"
=============================================================================
