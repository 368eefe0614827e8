# Verification of the divine-moderation-service

TLA+ modules, TLC model-checking runs and TLAPS proofs about the moderation
service: a Cloudflare Worker whose requests, cron ticks and queue batches run
concurrently and share D1 tables, KV keys, a Nostr relay and the Blossom media
store. Nothing in it takes a lock that spans an `await`; what keeps it correct
are conditional SQL statements, primary keys, idempotent calls and watermarks.
The models keep exactly those, and every `await` between them.

Paths below are relative to the repository; `M.tla:Action` names an action of
module `M`.

## 1. Inventory

The worker has three entry points: `fetch` (HTTP), `queue` (batches of new
uploads) and `scheduled` (`* * * * *` and `*/5 * * * *`). Invocations of any of
them overlap, with themselves as well: a cron tick does not wait for the
previous one.

| Component | State | Operations | What is hard | What makes it correct |
|---|---|---|---|---|
| **Creator-delete rows** `src/creator-delete/process.mjs`, `d1.mjs` | D1 `creator_deletions` (status, `accepted_at`, `retry_count`), Blossom's blobs | `processKind5`: claim, decide, re-claim, fetch the target, delete the blob, record the outcome | invocations race on a row; a claim outlives its holder; lost answers; crash between two writes | one holder per claim; success means gone; only the author's deletion erases; retries bounded; outcomes final |
| **Creator-delete cron** `cron.mjs` | KV `last-poll` | poll a window, process events, retry transient rows | outages longer than the window, overlapping ticks, a crash or exception halfway | no acknowledged event falls out of the window unseen; everything is settled eventually |
| **Creator-delete endpoints** `sync-endpoint.mjs`, `status-endpoint.mjs`, `rate-limit.mjs`, `nip98.mjs`, `request-event.mjs` | KV rate-limit counters | start `processKind5`, answer within 8 s, continue in `waitUntil` | the work outlives the answer; non-atomic counters | the answer reflects the rows; authenticated authors only |
| **Community label sweep** `src/community-labels/` | KV cursor and settings, D1 decisions, strikes, warnings; the relay's votes and labels | poll, tally, claim, publish, confirm, strike, count, warn, move the watermark | partial failure in any step, lost acknowledgements, overlapping sweeps, truncated pages | one label per crossing, one warning per level, no strike without a label, no vote left behind |
| **Divine identities** `community-labels/identity.mjs` | KV cache | look up a pubkey | stale answers | transient failures are never read as "no" |
| **Reports** `src/reports.mjs`, `moderation/report-review.mjs` | D1 `user_reports`, `moderation_results` | upsert by (sha256, reporter), count, escalate at 2 reporters, reconcile self-reports | arrival order of three sources and of the uploader's identity | a source only moves up; a self-report never escalates |
| **Report poller** `nostr/report-poller.mjs`, `index.mjs:5238` | KV checkpoint, last-run, processed markers | page backwards, resume a saturated poll, advance a safe checkpoint | saturation, retryable reports, several relays | nothing retryable is left behind the checkpoint |
| **DM inbox** `nostr/dm-reader.mjs`, `dm-store.mjs` | KV last-sync, D1 `dm_log` | read gift wraps from a relay that may ask for authentication, record, classify reports | randomised timestamps, page limit, overlapping syncs; the order of the relay's frames | none is lost; no read waits for an answer that will not come |
| **DM sender** `nostr/dm-sender.mjs` | KV rate limit, D1 `dm_log` | look at the limit, find relays, publish, settle what failed | lost acknowledgements, a retry after an ambiguous failure | no second copy of a message that may have landed |
| **Private report outbox** `moderation/private-report-intake.mjs` | D1 `private_report_intake` | record, hand over by priority, back off, settle, prune | lost answers, overlapping runs, budget | handed over at least once, settled once, urgent first |
| **Moderation decisions** `index.mjs` | D1 `moderation_results`, KV `moderation:*` and the action keys, Blossom, the relay's quarantine | moderator override, category verification, API, quarantine, rollback, reconcile, queue consumer, transcript cron, escalation cron | four stores written in sequence by concurrent actors, each write after an `await`; calls that fail halfway; redelivery | nothing is enforced that is not recorded; a success means that the stores agree; a reviewed decision at rest is changed by the escalation of a confirmed fake only, and only into a ban |
| **Uploader enforcement** `uploader-enforcement.mjs`, `index.mjs:826` | D1 `uploader_enforcement`, relay bans | require approval, ban, delete single events | read-modify-write around a call; a call carried out after its timeout | the row says what the relay enforces |
| **Escalation** `moderation/realness-client.mjs`, `index.mjs:5428` | KV `rd:*`, the stores of a decision | submit, poll, turn a confirmed fake into a ban store by store | overlapping runs, moderators, a run that ends half way | a confirmed fake ends banned in every store, or somebody has decided; a decision makes way for a ban only, and only if it left the mirror at QUARANTINE or raced a run |
| **Notifiers and clients** `blossom-client.mjs`, `nostr/*` | none | call Blossom, publish events, send DMs, query relays | failures that may have taken effect | callers treat ambiguity as ambiguity |
| **AI detector** `moderation/ai-detector-*.mjs` | circuit breaker of the isolate | allow, record, probe | late answers of earlier calls, bodies without a timer | one probe at a time |
| **Physical-delete sweep** `scripts/sweep-creator-deletes.mjs` | D1 stamps, Blossom's bytes | preflight, concurrent calls, stamps in batches, signals | Blossom's flag is toggled, answers are lost, runs are killed | a stamp means destroyed bytes; a clean exit means all candidates |
| **Replica backfill** `scripts/backfill-relay-replica.mjs` | a checkpoint file | walk the rows that lack a field behind a three-column cursor | rows change their place while runs stop and resume | every row that stays in place is tried |
| **Relay walks** `scripts/backfill-moderation.mjs`, `backfill-classification.mjs` | checkpoint files | page backwards over the relay, treat each video | a run dies in a page; dry runs share the checkpoint | a walk that ends has seen what was there |
| **End-to-end probe** `scripts/e2e-creator-delete.mjs` | a blob and a row in production | upload, publish, delete, assert, clean up | signals beside a running scenario, lost answers, the cron taking the row up again | what is left in production is reported |
| **Rollback and reconcile** `moderation/classic-vine-rollback.mjs`, `age-restricted-reconcile.mjs` | the stores of a decision | page through a list, look metadata up, restore | repeated and overlapping pages, failures between the stores | idempotence |
| **Maintenance** `admin/backfill-lookup-columns.mjs`, other scripts | D1 columns, a KV mutex | paged batch jobs | restarts | idempotence |
| **Classifier** `moderation/classifier.mjs`, `text-classifier.mjs`, `pipeline.mjs` | KV `admin:thresholds`, the row | thresholds, verdict, the transcript cron | boundaries between branches, overrides per category, zero | SAFE only below every threshold that is said to be in force |
| **Topics, labels, admin pages, ATProto** | D1 and KV records | pure transformation, UI | | |

The components meet in few places: the probe drives the creator-delete pipeline;
the sync endpoint and the cron both call
`processKind5` and share the rows and nothing else; the sweep reads the relay
that everybody writes; reports, moderators, the API, the queue and the
escalation job meet in the row of `moderation_results`.

## 2. Plan

1. `CreatorDelete` (the rows), its abstract specification `DeletionLedger`, the
   proofs. *Done.*
2. `CreatorDeleteCron` (the polling and the retries, with liveness). *Done.*
3. `LabelSweep` (one module for the sweep and its tables) and the proofs of its
   safety invariants, the watermark included. *Done.*
4. `Moderation`: the row of D1, the KV keys, Blossom and the relay under every
   writer of a decision, and the proofs of its safety invariants. *Done.*
   There is no abstract register of decisions
   to refine: concurrent writers interleave their stores freely, so the code
   promises agreement only to a request that has run alone.
5. `PrivateReports`: the intake as an outbox (its abstract specification), with
   deduplication by relay-manager, liveness of the delivery, and proofs. *Done.*
6. `ReportPoller`, `DmInbox` and `GiftWrapFetch`: the checkpoints of the two
   readers of the relay, and the handshake of a gated one. *Done.*
7. `Reports`: the lattice of sources and the two reporters. *Done.*
8. `Detector` (the circuit breaker with its calls), `Enforcement`, `Escalation`,
   `DmSender`. *Done.*
9. The scripts: `DeleteSweep`, `ReplicaBackfill`, `RelayWalk`, `DeleteProbe`; the
   rollback of a list, `VineRollback`; the thresholds, `Classifier`. *Done.*
10. The proof of every safety invariant that a run checks: the window of the
    cron, `DecisionLands`, and the modules of steps 6 to 9. *Done*; section 6.
11. Liveness of the sweep. The script that downgrades classic Vines, and the
    paging of the reconcile.

Step 11 is what is left. The modules of steps 6 to 9 share no state in the model
(in the code they meet in tables that `Moderation` and `LabelSweep` have), so
they are composed in one module for TLC, `MCServices`, in which a behaviour is
of one of them.

## 3. The modules

| Module | Models | Kind |
|---|---|---|
| `DeletionLedger` | what the creator-delete pipeline promises | abstract specification |
| `CreatorDelete` | `processKind5` and the rows it shares | detailed specification |
| `CreatorDelete_proofs` | theorems about `CreatorDelete` | proofs |
| `CreatorDeleteCron` | how the cron finds the deletions it has to work on | specification with fairness |
| `CreatorDeleteCron_proofs` | theorems about `CreatorDeleteCron` | proofs |
| `LabelSweep` | the community label sweep and its tables | specification |
| `LabelSweep_proofs` | theorems about `LabelSweep` | proofs |
| `Outbox` | what the hand-over of private reports promises | abstract specification |
| `PrivateReports` | intake, delivery and retention of private reports | detailed specification, with and without fairness |
| `PrivateReports_proofs` | theorems about `PrivateReports` | proofs |
| `Moderation` | the decisions about a video and the stores they are written to | specification |
| `Moderation_proofs` | theorems about `Moderation` | proofs |
| `Reports` | reports about one video, from upsert to review row | specification |
| `ReportPoller` | the cron that polls the relay for reports | specification with fairness |
| `DmInbox` | the checkpoint of the inbox | specification |
| `GiftWrapFetch` | one read of a gated relay | specification |
| `Inbound_proofs` | theorems about the four modules above | proofs |
| `DmSender` | outgoing messages | specification |
| `Enforcement` | the row of an uploader and the relay's ban | specification |
| `Escalation` | the second opinion on quarantined videos | specification |
| `Detector` | the circuit breaker and its calls | specification |
| `Classifier` | thresholds, verdicts and the transcript cron | specification |
| `Outbound_proofs` | theorems about the five modules above | proofs |
| `DeleteSweep` | the sweep that destroys bytes | specification |
| `ReplicaBackfill` | the walk over sparse rows | specification |
| `RelayWalk` | the walks over the relay | specification |
| `DeleteProbe` | the end-to-end probe and its clean-up | specification |
| `VineRollback` | the rollback of a list of classic Vines | specification |
| `Scripts_proofs` | theorems about the five modules above | proofs |
| `MCServices` | one of the modules from `Reports` on, chosen at the start | instance for TLC |
| `MC...` | the instances TLC checks | model values only |

Every specification module also holds *faulty variants*: operators like
`ReclaimAlways` or `PollForgetful`, introduced as such, that change one
operation the way a plausible bug would. No specification uses them. For each
property of a run, PROJECT.json names a variant that breaks it; replacing the
operation by it must make TLC report that property, which shows that the
property is not true by the shape of the model.

### CreatorDelete

A worker of the model is one invocation of `processKind5`
(`process.mjs:35`), whoever called it: the sync endpoint with a signed event
(`Start`), the cron with a polled one (`Start`), or the cron with the synthetic
event it builds from a retryable row (`StartRetry`). `pc` names the `await` the
invocation is about to make; `todo` the targets it has left, `stamp` its
`acceptedIso`, `seen` the row it read after a conflict, `verdict` what it will
write.

| Action | Code |
|---|---|
| `Insert`, `Read` | the INSERT and the SELECT of `claimRow`, `d1.mjs` |
| `Decide` | `decideAction`, with the clock of that moment and the row of the SELECT |
| `Reclaim` | the conditional UPDATE, `process.mjs:82` |
| `Fetch` | `fetchTargetEvent` and the checks of author and hash |
| `Blossom` | `notifyBlossom`: a failure may have deleted the blob |
| `Write` | `updateToSuccess`, `updateToFailed` |
| `Abort` | a D1 call throws or the platform ends the invocation |
| `Tick` | the clock |

Folded: the subcategories of `failed:transient:*` and `failed:permanent:*`, and
the columns that no decision reads. A `Stop`ped worker forgets everything, which
keeps the state space small. `overrun` is a history variable: it becomes TRUE
when a claim is held so long that another invocation may take it over. The
comment on `IN_PROGRESS_TIMEOUT_MS` takes for granted that this does not happen.
The sync endpoint does bound its work, the cron does not; so the properties that need it say `~overrun`,
and `PromptSpec` is the specification of the executions without it.

### CreatorDeleteCron

The rows again, coarser: a claim is one step and its outcome another, because
here the question is not who wins a row but whether anybody comes back for it.
`window` is the set of events a poll with the stored `last-poll` would ask for,
`asked` and `stale` freeze what an invocation read at its start, `todo` and
`retryable` are its two work lists. Times are ages that saturate where nothing
depends on them any more. Simplifications: a kind 5 event names one target; its
`created_at` is when it is published; `last-poll` has been set (before the
first successful poll `cron.mjs:25` looks back one hour from the current time).

### LabelSweep

A sweep of the model is one `runCommunityLabelSweep`; its local variables are
the record `job[s]`, whose `pc` is again the next `await`.

| Action | Code (`sweep.mjs` unless named) |
|---|---|
| `Begin`, `ReadCursor` | `index.mjs:5576`; settings and `getCursor` |
| `Poll` | `fetchLabelsSince`, the page limit, grouping, sorting and the batch limit |
| `Fetch` | `fetchVideoEvent`, `fetchLabelsForVideo`, the identities, `decideCrossings` |
| `Check`, `Claim`, `BuildFails`, `Publish`, `Confirm` | one crossing: `hasDecision` to `confirmDecision` |
| `Strike`, `StrikeThrows` | `recordStrike` and the catch around it |
| `Count`, `ClaimWarning`, `Send`, `Settle` | `strikeCount` to `releaseWarning` |
| `Throws` | the catch of the loop over videos |
| `Finish` | the watermark and `setCursor` |
| `Crash` | the invocation ends, or a call outside the loop throws |
| `Sign`, `Arrive`, `DeleteVideo`, `Tick` | viewers, relay, clock |

`late` is a history variable: a vote is late when it reaches the relay after a
watermark, stored or about to be stored, has passed its `created_at`.
Simplifications: an event carries one label; events of other namespaces only
make a page full, or are votes whose `LabelOf` is `Nothing`; the moderation
account's own votes are left out, as the code skips them; identities do not
change; a cursor has been stored before the first state; `claimDecision`'s
INSERT and SELECT are one step, which is sound because a row is never deleted
and its event never replaced.

### PrivateReports

An invocation of the model is one run of the cron steps at `index.mjs:5328-5394`:
read the inbox, deliver, prune. `job[c]` holds its local variables: the wraps it
has `left`, the `batch` of its SELECT with the `current` row, the attempts it
`read`, the `answer` it has got, its consecutive `timeouts` and the budget it has
`used`. `untried` is what was due at the SELECT and has not been tried, with the
rows that the limit cut off; only the property `UrgentFirst` reads it.

| Action | Code (`private-report-intake.mjs` unless named) |
|---|---|
| `Begin` | `dm-reader.mjs:152-205`, up to the loop over gift wraps |
| `RecordReport`, `RecordThrows` | `dm-reader.mjs:447-535`: the batch of the inbox copy and the intake row, or the row alone, and their catches |
| `Select` | the SELECT, its ORDER BY and its LIMIT |
| `Accept`, `Complete`, `GiveUp` | external: relay-manager answers, opens the item, or drops its lease |
| `TimeOut`, `Break` | the catch of `postHandoff`; 401, 403 and 302 |
| `Settle` | `settlePendingRow`, and whether the loop goes on |
| `Prune` | `prunePrivateReportIntake`, when the retention is on and due |
| `Crash` | the invocation ends, or the catch of the delivery |
| `Deploy`, `Expire`, `Tick` | relay-manager's validation changes, a year passes, a cron period passes |

relay-manager is outside this repository: that it opens one item per (reporter,
report id), answers the second attempt with `duplicate: true` and keeps
concurrent attempts apart by a lease is taken from the comment on
`deliverPendingPrivateReports`.

Simplifications. Times are cron periods: `next` is what is left until
`next_attempt_at`, and a settle subtracts what has passed since its run began,
because the code computes it from `nowMs`; a jitter that lets a retry miss the
next selection is below that unit. Attempts beyond those at which the delay has
reached its cap are not told apart. A report is its key; a resend under the same
key that names another account changes nothing but the log. The two days in which
a gift wrap is read again end before its row is a year old (`Polled`, `Expire`).
The retention of `dm_log` is left out, so `logged` remembers what the inbox once
held. The inbox may also be read by an administrator (`index.mjs:3802`), which is
an invocation that ends after its reading.

### Moderation

One video. The row of `moderation_results` is `Nothing` or its action and three
facts: whether `reviewed_by` is set, `transcript_pending`, and whether the row
has an `event_id`. KV is the action in `moderation:<sha256>` (`mirror`), the set of action
keys, and the marks of the transcript cron (`notified`). The queue is a set of
messages, which differ in their attempt and in whether they force a scan.
Blossom and the relay are external: the state of the blob, and whether the event is
served, hidden or deleted.

An invocation is a record: its operation, the `await` it stands before (`at`),
the decision it carries and what it has read so far. Steps that several writers
share (`ClearKeys`, `SetKey`, `NotifyBlossom`, `NotifyRelay`, `PutMirror`,
`Unset`, `Flag`) are one action each; `AfterBlossom` and `AfterMirror` say where an
operation goes on.

| Operation | Code | Steps |
|---|---|---|
| `admin` | `index.mjs:2346` `/admin/api/moderate` | `AdminModerate`, `PutMirror`, `AdminUpsert`, `ClearKeys`, `SetKey`, `NotifyBlossom`, `NotifyRelay` |
| `api` | `index.mjs:4366` `/api/v1/moderate` | `ApiModerate`, `NotifyBlossom`, `ReadEvent`, `NotifyRelay` |
| `quarantine` | `index.mjs:4591` `/api/v1/quarantine` | `ApiQuarantine`, `Flag`, `NotifyBlossom` |
| `verify` | `index.mjs:2597` `/admin/api/verify-category` | `VerifyCategory`, `Look`, `Unflag`, `PutMirror` |
| `rollback` | `classic-vine-rollback.mjs:262` | `ClassicVineRollback`, `Peek`, `Restore`, `Unset`, `NotifyBlossom` |
| `repair` | `age-restricted-reconcile.mjs:241` | `ReconcilePreview`, `ReconcileApply`, `NotifyBlossom` |
| `remoderate` | `index.mjs:3394` `/test-moderate` | `TestModerate`, `Send` |
| `scan` | `index.mjs:4885` `queue` | `Deliver`, `Scan`, `Flag`, `NotifyBlossom`, `NotifyRelay` |
| `reprocess` | `index.mjs:531` the transcript cron | `SelectPending`, `Fetch`, `Abandon`, `Resolve`, `Remirror`, `Check`, `ClearKeys`, `SetKey`, `NotifyBlossom`, `NotifyRelay`, `Mark` |
| `escalate` | `index.mjs:5428` the escalation cron, for one confirmed fake | `Escalate`, `PutMirror`, `Unset`, `SetKey`, `Ban`, `NotifyBlossom`, `NotifyRelay` |
| | `report-review.mjs:93`, `backfill-lookup-columns.mjs:100` | `Report`, `Backfill`: one statement each |

Reads of a handler come with the step in which the code makes them, so a
handler's decision may rest on a row that has changed since. Deletions that the
code sends together (`Promise.all`) are one step, of which `Crash` may leave any
part done. `Crash` is the end of an invocation or a call that throws; for a scan
it brings the message back with one more attempt.

Two parts of the state are for the properties only. `job[w].alone` says that no
other invocation has moved since this one began; `recorded` is the set of blob states
that D1, the mirror or the quarantine key has asked for. `ComeToRest` notes the decision when
the row is reviewed, no forced scan is queued and nobody is at work (`Quiet`), runs of
the transcript cron excepted that still wait for the transcript of a row which they
selected before the review; from then on nobody decides anew (`Decide`), while
reports, redeliveries, producers, verifications, both crons and the backfill go on.
`rested` also notes whether the mirror says QUARANTINE, or would be put to say so by
a verification that reads the row (`open`): the escalation goes by the mirror
(`index.mjs:5463-5466`) and its UPDATE has no condition on the reviewer
(`5491-5500`), so such a decision may still become a ban, and no other may become
anything. The entries `rd:*` of the escalation, its retries and its overlapping runs
are in `Escalation`; here a run is about one fake that has been confirmed.

The key of the quarantine expires after 90 days, like the mirror, and the marks of
the cron after seven; expiry is not modelled. `verify` may approve or not: which
flags are left is a choice. Labels, reports on Nostr and DMs are not modelled.

### Reports

All reports about one video, each in hand (`filing[r]`) through one of the paths
`user-report`, `dm-report`, `relay-report`, `relay-report-untrusted`.

| Action | Code |
|---|---|
| `LookupUploader`, `AddReport`, `CountReporters`, `WriteReview` | the statements of `recordReportForReview` and `addReport`, `report-review.mjs`, `reports.mjs:126-209` |
| `FailFiling`, `RepeatFiling` | a statement throws or the invocation ends; the caller reports again |
| `CheckExisting`, `StoreScan`, `ReconcileSelfReports` | the scan of the video, which replaces the row, and then turns reports of its uploader into `self-report` |
| `ReviewByModerator` | a decision; the rest is in `Moderation` |

`backers` is a history variable: the reporters that should count when a report
restricts. Simplifications: one row of `user_reports` per reporter, keyed by the
reporter as in the code; the types of reports count only as NSFW or not.

### ReportPoller, DmInbox and GiftWrapFetch

`ReportPoller` models the poll of reports, `report-poller.mjs` and
`index.mjs:5238-5296`; `poll[p]` holds `since`, `until`, the page it has received
and what it has still to process. `BeginPoll` reads the checkpoint and
`resumeUntil`; `Receive` is a page (the newest events that match, up to the limit),
`CutOff` an answer that the timer or the socket ended, `FetchFails` a refusal;
`ProcessReport` brings a report to its end or leaves it to the next run; `TurnPage`
goes on, or stops with a new `resumeUntil`; `SetCheckpoint` writes the safe
checkpoint, `SetLastRun` the rest of the state, each of which may fail.
`Arrive` is a viewer's report, which may reach the relay `late`.

`DmInbox` is `syncInbox`: `Look`, `RecordContent`, `FindDm`, `InsertDm` are the
awaits of one wrap, `EndSync` the move of the checkpoint. A read is complete or
partial (`FetchComplete`, `FetchPartial`); why it is one or the other is
`GiftWrapFetch`, which models one subscription to a relay that may demand NIP-42
authentication, frame by frame. `excused` remembers the wraps that the limit, a
failure or the end-of-sync checkpoint leaves behind, and those that are older than
a week before a first sync has been completed: until there is a `last-sync`, each
read begins a week before the present, so they are never asked for. Time is in
days; gift wraps are dated up to two days back (`Drift`).

### DmSender

`attempt[m]` is one `sendModerationDM` (or its kin): `CheckRateLimit`, `Discover`,
`PublishToRelays`, `HearRelay`, `Settle`, `ReadRateLimit`, `RecordRateLimit`,
`LogSent`. `Notify` is `notifyReporters`, which tells one reporter after the
other; `SendAgain` the caller of `sendCommunityWarning`, who repeats a send that
certainly failed. `RelayDecides` is external, and is independent of whether
anybody still listens. Encryption and the wording of messages are left out.

### Enforcement

`demand[w]` is a request of a moderator: an approval, a ban, both or a note
(`Enforce`), or the deletion of the events of one video (`DeleteEvent`).
`ReadCurrent`, `ReadExisting` and `WriteRow` are the two reads and the write of
`uploader-enforcement.mjs`; between them a ban that differs from the recorded one
is sent to the relay, which carries it out (`RelayCarriesOut`), refuses it
(`RelayRefuses`) or is given up on (`TimeOut`), in which case the call may be
carried out at any later time (`RelayIsLate`). `FindEvents`, `AskDelete` and
`HearDelete` are `deleteEventFromRelayBySha256`. `doubt` is a history variable:
requests have overlapped, or an answer or a write was lost, and no ban has been
confirmed since.

### Escalation

`BeginSubmit` and `EndSubmit` are `submitToRealityDefender`, which nothing in the
repository calls any more: entries from `rd:` keys that exist are still worked on.
`StartRun` to `EndEarly` are the cron (`index.mjs:5428-5560`), one action for each
store it writes; `BeginView`, `EndView` the dashboard, which polls too;
`StoreQuarantine` a scan; `Lapse` the end of a result's time to live.

A decision comes by one of four paths. `/admin/api/moderate` writes the mirror
first and then D1 (`HumanMirror`, `HumanRow`). `/api/v1/moderate`,
`/api/v1/quarantine` and the rollback of classic Vines begin with D1 and leave the
mirror as it is (`HumanElsewhere`). `HumanRest` are the keys and Blossom, which each
path treats in its own way (`FlagsAfter`, `BlobAfter`). `human[v]` keeps who decided
(`by`) and what (`act`), what the decision leaves in the mirror, whether D1 took it
(the quarantine endpoint's UPDATE finds no row where there is none) and the keys a
rollback has found. A video is decided on once: that is a bound of the model.
Verifications of a category, which write the mirror too, are in `Moderation`.
`raced` and `cutOff` remember a decision between a run's look and its writes, and a
run that ended half way.

### Detector

One isolate's circuit breaker, and the calls that share it. `Admit` is `shouldAllow`
with the start of a call, `Answer` the headers of a 2xx (which clear the timer),
`ReadBody` its body, `Again` and `Wake` a retry with its backoff, `CallFails` the
end of attempts or time, `LoseCall` an invocation that ends and of which the
breaker never hears. `PassTime` does not let a timer's deadline go by.

### DeleteSweep

A run of `sweep-creator-deletes.mjs`: `FetchCandidates`, `Preflight`,
`CallBlossom` for the concurrent calls, `TakeResult` for the loop over their
results, `Flush` for a batch of stamps, `Surface` for the signals and the exit
code, `Interrupt` and `Kill` for one and two interrupts, `Rerun`. `FinishRow` and
`ToggleFlag` are external: the live pipeline adds rows, and Blossom's operator
turns physical deletion on and off.

### ReplicaBackfill

`backfill-relay-replica.mjs`: `LoadCheckpoint`, `QuerySparseRows` (the predicate on
the three-column cursor, written out as `Follows`), `ProcessReplicaBatch` and
`BatchFails` (some chunks written, then the end), `SaveCheckpoint`,
`StopBackfill`, `RunBackfill`. `Redecide` moves a row meanwhile. A row lacks a
field or not; which one does not matter.

### RelayWalk

Two scripts that differ in what they ask of the service (`Treat`), how they treat
a page (one video, or chunks of `Concurrency`) and in their checkpoint, but not in
the walk. The actions of one script are guarded by `script`. `FetchVideos` /
`FetchUnique`, `NextVideo` / `NextVideos`, `CheckModerated` / `CheckClassified`,
`QueueModeration` / `ClassifyVideo`, `TurnVideos` / `TurnUnique` and `StopWalk`
follow the loops of `backfill-moderation.mjs:222-341` and
`backfill-classification.mjs:204-310`. `intended` and `leftOut` are history: what was
there when the walk began, and what was passed over because it failed, was only
counted, or has the second at which a page ended. Left out are `--since` and
`--until`, which bound the walk to a window (a checkpoint goes before `--until`), and
the replacement of an addressable 34236 event by its author during the walk.

### Classifier

Pure functions with two small pieces of state. `Classified` is
`classifyModerationResult` as the table of its `Branches` in the order of the
code; `TextScore` is `classifyText`; `Effective` is the merge of defaults,
deployment and overrides; `Valid` what `/admin/api/thresholds` accepts.
`UpdateThresholds`, `ResetThresholds`, `ModerateVideo`, `Transcribe`,
`BeginReprocess`, `ResolveUnheard`, `LeavePending` and `Judge` are the steps around
them: a run of the transcript cron reads the thresholds once, for all its rows.
Numbers are 240ths, so that thresholds in hundredths and the quotients of text
scores can be compared exactly where the code compares doubles; `Pct` rounds down.
A text is known by the weights of the patterns it matches. `Judge` takes the scores
that the row has by then, where the code takes those of its SELECT (`index.mjs:632-646`).

### DeleteProbe

A run of `e2e-creator-delete.mjs`: `BeginScenario`, `UploadToBlossom`,
`PublishVideo`, `WaitForIndexing`, `PublishDeletion`, `CallSyncEndpoint`,
`PollStatus`, `CleanupBlossom`, `CleanupD1Row`, `EndScenario`, `Summarize`, with `Throw` for
an error anywhere and `Signal` for an interrupt, which begins the removal beside the scenario that goes on.
`StoreBlob`, `TakeUp` and `FinishRow` are external: Blossom stores what was
uploaded, possibly after the script gave up, and the worker takes the deletion up.
A run has the scenarios of its plan, `sync`, `cron`, or both in this order
(`e2e-creator-delete.mjs:827-835`).

### VineRollback

What `Moderation` leaves out of the rollback: the list, its pages and the
metadata. `Request`, `HearSummary`, `RepeatPage` and `StartOver` are the operator,
who repeats a page whose answer was lost while its invocation may go on;
`FetchBatch` is the pair of relay queries, by `x` and then by `d` tag;
`Confirmed`, `PassOver` and `Preview` the classification of an item; `ReadRow`,
`ReadKeys`, `RestoreRow`, `ClearKeys`, `TellBlossom` the restoration
(`classic-vine-rollback.mjs:262-327`), of which each step may fail. `untold`
remembers a video of which an attempt broke off after it had removed what a later
attempt goes by.

### MCServices

The last fourteen modules share no state in the model, so their product would
only multiply states. A behaviour of `MCServices` is of one `service`, chosen in
the first state; the others stay as they are. Each keeps its own specification
(`ReportsSpec`, `PollSpec`, ...), about which the theorems speak.

## 4. The runs

| Run | Specification | Shows |
|---|---|---|
| `creator_delete` | `Spec` | unique claims, one holder, success means gone, erased for its author, bounded retries, settled for good |
| `creator_delete_prompt` | `PromptSpec` | refinement of `DeletionLedger` |
| `creator_delete_cron` | `Spec` with fairness | an unclaimed event stays in the window; everything is settled or stranded |
| `label_sweep` | `Spec` | no vote left behind; one label, one warning per level; strikes and warnings have their cause |
| `private_reports` | `Spec` | types, inbox and intake agree, settled rows rest, refinement of `Outbox` |
| `private_reports_timely` | `TimelySpec` | urgent reports first, nobody starves |
| `moderation` | `Spec` | enforced means recorded, a success lands, a reviewed decision at rest makes way for an escalation only |
| `services` | `MCSpec` | what each of the modules from `Reports` on promises; the poller's liveness |
| `creator_delete_stale` | `Spec` | *violated*: success is terminal |
| `creator_delete_audit` | `Spec` with fairness | *violated*: the audit trail eventually becomes complete |
| `label_sweep_late` | `Spec` | *violated*: no vote is ever left behind |
| `moderation_rollback` | `Spec` | *violated*: a rollback has told Blossom |

The type invariants are theorems (section 6). The runs do not repeat those of
`CreatorDelete`, `LabelSweep` and `Moderation`; they do check those of
`CreatorDeleteCron` (theorem `CronTypes`) and of `PrivateReports`, which also bounds
the backoff.

**Bounds, and why they are enough.**

- `creator_delete`: two invocations, because every claim involves a holder and
  a challenger; two targets plus a third tag that `MaxTargets` cuts off, one of
  them somebody else's; `MaxRetries` 2, so that the promotion to permanent
  happens on the second failure; a clock of 3 with a timeout of 3, so that a
  claim can be outlived exactly once. The cron's work window (4) exceeds the
  timeout, the sync endpoint's (2) does not, as in the code.
- `creator_delete_prompt`: three invocations (a holder, and two challengers
  that read the same row), one target, `MaxRetries` 3, so that a row is retried
  twice, and time for it.
- `creator_delete_cron`: two overlapping cron invocations and a sync request on
  one event, one fault. A tick is the minute between two cron triggers, so
  `Timeout` is the code's 120 s; the overlap of the windows, five minutes in the
  code, is three ticks, which keeps it above both the timeout and the relay's
  lag (one tick: an acknowledged event that the relay serves only after the
  overlap cannot be promised anything). Events do not influence each other
  except through `window`, which is the same for all.
- `label_sweep`: one sweep over two votes by different authors on two videos with a
  batch limit of one, so that a video is deferred, and two overlapping sweeps over
  one crossing (`OneVoteWhenTwoSweep` in `MCLabelSweep`), threshold and warning
  count one, so that label, strike and warning are all contended. One video was
  labelled by its creator, so one crossing leads to a strike and the other does
  not; two ticks, so that votes fall on both sides of a watermark. Two sweeps over
  two votes grow the space by two orders of magnitude and no new contention
  appears: the tables' keys are a video and label, and a creator and level.
- `private_reports`: two invocations that overlap in any way, so that one can be
  late with every answer; two reports of different priority with a limit of one,
  so that a report is always left over; a cap of two periods, which the second
  retry reaches; one crash, failure or deploy. Reports meet only in the batch.
- `private_reports_timely`: two urgent reports that always time out and a limit of
  two, so that they can fill a batch and end a run by themselves, a third report
  that arrives by two wraps, and a budget of three timeouts, the code's 90 s.
  The proportions matter: a run loses at most two timeouts, so in the twelve
  periods of the longest delay (an hour) up to 24 attempts can be lost, and with
  24 or more urgent reports that always time out the others could indeed starve. The
  run has two of them and a longest delay of two periods, hence up to four; the
  flat delay of the variant `DelayFlat` is the starving case.

- `moderation`: two invocations, because the races of this code are between a
  decision and one other writer; three requests, so that an earlier one can fail
  or end halfway, or two can interleave, before a third runs alone and must
  repair what they left; one crash or failed call. `Decisions` are the extremes, SAFE and
  PERMANENT_BAN, which differ in every store, and QUARANTINE, which the escalation
  looks for in the mirror and which the quarantine endpoint and the uploader's
  enforcement choose as well; REVIEW and
  AGE_RESTRICTED come from scans, reports and the reconcile. Two deliveries of a message show
  a retry and the end of the retries. `Reactive` is FALSE: `wrangler.toml:84`
  sets it, which drains the queue unread and leaves a subset of these behaviours.
  Deadlock is not checked, because requests are bounded.

- `services`: the constants are in `Services.cfg`, and `Small` in `MCServices`
  names what bounds the overlaps further, where the rest of a service is large.
  - `reports`: three reporters, of whom one is the uploader; a fault, or a scan
    that replaces the row, meets two reports in progress. All reports of the run come
    by the path `user-report`; the weaker paths are covered by the theorems alone.
  - `poller`: pages of two, two pages a run, four reports, one of which never has a
    target: the window outgrows a run. Faults, late reports and overlapping
    runs meet two reports, the last in the first two seconds.
  - `inbox`: a limit of one wrap, two wraps, a drift of two days in three days;
    overlapping reads meet one wrap. `wraps`: everything.
  - `sender`: one message that may be repeated and one that may not, two relays,
    a limit of one per window. A failing KV or D1 meets one message; a second
    attempt of a message meets the other message only if the first attempt
    reached no relay.
  - `enforcement`: two requests by two moderators, two versions of an event, one
    lost answer. `escalation`: two runs and the dashboard on one video, and
    one decision by any of the four paths (SAFE, the API also DELETE, the quarantine
    endpoint QUARANTINE or REVIEW); a run that fails, or the
    dashboard, meets no decision.
  - `detector`: two calls with two attempts, a threshold of one failure, time for
    two openings. `sweep`: four rows, two of one blob and one without a hash;
    batches of one; a fault and two turns of the flag.
  - `replica`: three rows in batches of one, one of them incomplete at the relay;
    all begin with the same `moderated_at`, so that order by time matters only for rows
    that have moved.
    `walk`: pages of two; up to three of four videos exist, of which three share
    a second and one has no hash. Only the first script's calls fail.
  - `classifier`: scores of two categories at the boundaries of the code (.5, .6,
    .65, .7, .8, .85, .95), texts within and above the limits, four overrides: a
    mute, one key of two, two that surround the quarantine threshold, and a pair
    that is refused.
  - `probe`: the scenario of the cron, or both; one fault; the
    worker takes a deletion up twice. `rollback`: a list that names one video twice,
    the second time with metadata, and an entry that is no hash; pages of two;
    four requests, two faults.


**The violated runs** are disagreements between the code and its documentation.

- `creator_delete_stale`: an invocation that outlives its claim, or whose
  re-claim rests on a row read before another settled it, overwrites a success.
  `docs/integrations/blossom-creator-delete.md:26` calls `success` terminal.
- `creator_delete_audit`: a row left `accepted` by an invocation that ended is
  returned by no SELECT of the cron, and its event may be out of the polling
  window by the time the claim is stale. The design document promises that the
  audit trail eventually becomes complete.
- `label_sweep_late`: the watermark moves to the start of the sweep and the
  next poll begins there, so a vote that reaches the relay with an earlier
  `created_at` is not counted until a later vote touches its video. The comment
  at `sweep.mjs:77` promises that no vote is ever left behind.
- `moderation_rollback`: SAFE is recorded and Blossom is not told, because the
  call failed or the invocation ended; the rollback of the same video then finds
  SAFE and no keys (`classic-vine-rollback.mjs:314`), and reports success without
  a call. The design (`2026-03-31-classic-vine-enforcement-rollback-design.md:156`)
  has it ensure that Blossom is told SAFE.

The corresponding properties that do hold (`SettledForGood`,
`SettledOrStranded`, `NoVoteLeftBehind`, `DecisionLands`) state exactly what is left of those
promises.

## 5. Fairness

`CreatorDelete`, `LabelSweep`, `Moderation` and the `Spec` of `PrivateReports` are checked for
safety, with crashes and exceptions at any point. `CreatorDeleteCron` and
`TimelySpec` state fairness. In `CreatorDeleteCron`:

- `WF(Tick)`: time passes. `WF(Serve(k))`: the relay serves what it stored.
- `WF(Begin(c))`: the cron trigger of `wrangler.toml` fires every minute.
- `WF(Step(c))`, `WF(Settle(w))`: an invocation goes on; a call returns or
  throws. Crashes and throwing D1 calls are bounded by `MaxFaults`, which says
  that faults do not go on for ever, not that they are rare.
- `SF(QueryAnswers(c))`: strong, because an outage lets a query fail each time
  it is enabled; an outage of any finite length is allowed, one that never ends
  is not.

`Publish`, `SyncRequest` and the faults are not fair: nothing obliges anybody to
make them happen.

In `TimelySpec`:

- `WF(TimelyTick)`: the trigger fires every five minutes, and finds the previous
  invocation done: the budget and one more timeout make 120 s.
- `WF(Runs(c))`: an invocation goes on.
- `WF(Accept(c) \/ TimeOut(c))`: a handoff is answered or aborted, since
  `postHandoff` arms a timer. Outside `Stuck`, timeouts are faults, bounded by
  `MaxFaults`.
- `WF(Complete(x))`: relay-manager finishes what it has taken, unless the report
  is `Stuck`.

In `MCServices`, only one invocation of the report poller is fair: `WF(BeginPoll(p1))`,
because the trigger of `wrangler.toml` fires again and again, and `WF(PollSteps(p1))`,
because its awaits return, throw or time out (the relay's answer has a timer,
`report-poller.mjs:161`). Faults are bounded. `ReportsCatchUp` needs no more: a
second invocation, which nothing obliges to run, must not keep the first from
catching up. The other modules of that run are checked for safety.

## 6. What is proved

TLAPS checks every theorem for all values of the constants that the named
assumptions allow; the assumptions are evaluated by TLC on every instance.

### CreatorDelete (`CreatorDelete_proofs`)

From `DataAssumption` (shapes), `TimeAssumption` (limits are naturals) and
`ClaimAssumption` (a D1 call ends well before a row becomes retryable).

| Theorem | Property | Inductive invariant |
|---|---|---|
| `TypeCorrect` | `TypeOK` | `WellFormed` |
| `ClaimsAreUnique` | `ClaimsUnique` | `ClaimInv` |
| `SuccessIsReal`, `ErasureIsAccountedFor` | `SuccessMeansGone`, `ErasedForItsAuthor` | `EffectInv` |
| `HoldersAreSingle`, `RetriesAreBounded`, `SettledIsFinal` | `SingleHolder`, `RetriesBounded`, `SettledForGood` | `SafeInv` |
| `PromptImplementsLedger` | `ImplementsLedger` | `SafeInv` |

`WellFormed` adds to the types that a running invocation has a target and,
after its INSERT, a row. `Cases` then restates `Next` as a short list of effects
on one row and one invocation, so that every later proof has one case per
effect. `ClaimInv` says that the `accepted_at` of a row is at least every stamp
held on it, and that an invocation about to re-claim carries a later stamp than
the row it read, because that row was older than a D1 call can take: that is
why the conditional UPDATE has one winner. `EffectInv` says that an
invocation about to write success has seen its blob deleted. `SafeInv` adds,
while no claim has been outlived, that whoever holds a row has the row's stamp
and the row is `accepted` (`Owns`), that the row a challenger read is still what it was, with nobody
working on it, or its UPDATE or decision will fail (`UpToDate`), and that retries are within their limit (`Limited`).
The refinement maps a row to `none`, `open`, `success` or `failed`
(`LedgerStep`: every step is a step of the ledger or leaves it alone).

### CreatorDeleteCron (`CreatorDeleteCron_proofs`)

From `CronAssumption` (bounds are naturals; the overlap of two polls covers the lag
of the relay, which is what `cron.mjs` has it for).

| Theorem | Property | Inductive invariant |
|---|---|---|
| `CronTypes` | `TypeOK` | `CronInv`, by `CronInvariant` |
| `UnclaimedStaysInWindowHolds` | `UnclaimedStaysInWindow` | `CronInv` |

The property says that an unclaimed deletion stays in the window, and is lost as an
induction hypothesis at the write of `last-poll`, which moves the window past all
that the invocation was to claim. `CronInv` adds where those are meanwhile: an event
is served within the lag (`ServedInTime`), so whatever an invocation is about to
move out of the window is served, is among what it asks for until it has asked,
and among what it has to do after (`StaleInHand`); one that has no answer does not
move the window.

### LabelSweep (`LabelSweep_proofs`)

From `SweepAssumption` (shapes; limits are positive), `FinitenessAssumption`
(votes, videos and labels are finite, so that cardinalities add up) and
`NothingAssumption`.

| Theorem | Property | Inductive invariant |
|---|---|---|
| `TypeCorrect` | `TypeOK` | `WellFormed` |
| `OneLabel`, `NoUnearnedStrike` | `LabelledOnce`, `StrikesAccountedFor` | `LabelInv` |
| `OneWarning`, `NoUnearnedWarning` | `WarnedOnce`, `WarningsEarned` | `WarnInv` |
| `NothingLeftBehind` | `NoVoteLeftBehind` | `WatermarkInv` |

`LabelInv`: what is on the relay, and what a sweep is about to publish, is the
event stored with the decision; a decision never changes its event
(`DecisionsGrow`). `WarnInv`: a level that somebody is sending has one holder
and nothing delivered yet; a released level has nothing delivered; a claimed
level has its strikes. `WatermarkInv` is what makes a watermark safe when any
call may fail: everything behind the stored cursor, and behind the cursor each
sweep began from, is `Settled`; a sweep whose page was not full knows every vote
up to its start (`PageComplete`); each video of its page is gone, queued, holds
the watermark, or is `Done` (`PageCovered`); and for the video in hand, unless
it has failed, each label with a consensus is still listed or handled
(`VideoCovered`). `NoVoteLeftBehind` alone is not inductive: it says nothing of
the votes a running sweep is about to pass over.

### PrivateReports (`PrivateReports_proofs`)

From `ReportsAssumption` (shapes; finitely many reports; limits are positive) and
`NothingAssumption`. The theorems are about `Spec`, with any number of
overlapping invocations.

| Theorem | Property | Inductive invariant |
|---|---|---|
| `TypeCorrect` | `TypeOK` | `WellFormed` |
| `LoggedRecorded` | `LoggedMeansRecorded` | with `WellFormed` |
| `RowsRest` | `SettledRowsRest` | with `WellFormed` |
| `UrgentAlways` | `UrgentFirst` | `InTurn` with `WellFormed` |
| `Implements` | `ImplementsOutbox` | `WellFormed` |

`WellFormed` says more than types: rows in hand and rows under a lease are never
old enough to be pruned, only the invocation that waits for a report holds its
lease, and an invocation that was told "success" has its report's item before
it; the last is why `Settle` is a `Deliver` of the outbox. `InTurn` says that the
ids are a strict order of the rows, that the current row is the first of its
batch, and that no row which the limit cut off comes before one of the batch. The
latter is a counting argument (`BatchCut`): whoever precedes a row that is among the first `Limit` has
fewer predecessors still. Pruned and re-recorded reports do not disturb it,
because a new row comes after all others (`OrderStays`).

### Moderation (`Moderation_proofs`)

From `DecisionAssumption` (the vocabulary and the limits) and `RowAssumption`
(`Nothing` is neither a row nor a note of a decision at rest).

| Theorem | Property | Inductive invariant |
|---|---|---|
| `TypeCorrect` | `TypeOK` | `WellFormed` |
| `RecordedFirst` | `EnforcedMeansRecorded` | `WellFormed` |
| `RestedStands` | `RestedDecisionStands` | `RestInv` |
| `DecisionLandsHolds` | `DecisionLands` | `LandingInv`, by `LandingInvariant` |

`EnforcedMeansRecorded` looks at the stores alone, but what a step enforces was
decided earlier: `WellFormed` adds that the action of the row has been recorded, that an invocation
beyond its first write carries an action (`Deciding`), and that what it is about to
enforce is in `recorded` (`Enforcing`). The reconcile needs the row's clause,
because it carries an action that it has only read. `RestInv` adds that, once a
decision rests, no forced scan is queued and every invocation is `Harmless`: it
verifies categories, which writes the mirror and the keys only, it is a
transcript job before its UPDATE, which matches no reviewed row, or it is an
escalation, and then the decision was `open`. For that the mirror is followed: while
the decision is not open, neither the mirror nor a verification that is to write it,
nor the row one has yet to read, says QUARANTINE, so no escalation begins. A redelivered
scan cannot start because there is a row, and a row that is reviewed stays so
because no such invocation deletes or replaces it.

`LandingInv` is the history of a request that nothing has run beside, in what it
leaves: `OnWay` has a clause for each operation (`AdminOnWay`, `RollbackOnWay`, ...)
that says what the stores hold at each of its steps, whatever they held before; it
ends where somebody else moves, because the request is then no longer `alone`. What
the proof found is in `Landed`: `/test-moderate` promises a scan only as far as the queue consumer is
reactive or the message is in the queue (`index.mjs:4888-4897`).

### What comes in (`Inbound_proofs`)

One proof module for `Reports`, `ReportPoller`, `DmInbox` and `GiftWrapFetch`, with
a part for each, in which only the assumptions of its module are used.

| Theorem | Property | Inductive invariant | Assumptions |
|---|---|---|---|
| `AutomaticMeansTwoHolds` | `AutomaticMeansTwo` | `ReportsInv`, by `ReportsInvariant` | `ReportsAssumption`, `ReportersAssumption` (finitely many reporters), `NobodyAssumption` |
| `TwoReportersRestrictHolds` | `TwoReportersRestrict` | `ReportsInv` | the same |
| `NothingPassedOverHolds` | `NothingPassedOver` | `PollInv`, by `PollInvariant` | `PollAssumption`, `RelayReportAssumption` (finitely many reports) |
| `NoMessageSlipsHolds` | `NoMessageSlips` | `InboxInv`, by `InboxInvariant` | `InboxAssumption` |
| `HandshakeNeverStalls` | `NeverWaitsInVain` | `FetchInv`, by `FetchInvariant` | none |

*Reports.* A count and a verdict are two statements, so what a filing has counted may
have changed. `ReportersKnown`: only the uploader has a self-report, which stays one, and who
counts for the escalation was recorded through a path that may escalate. `RestrictsForTwo` keeps with a
filing the reporters it has counted. `OneSawTheOther` is the argument for
`TwoReportersRestrict`: of two viewers who have both counted, the one that
counted last saw both, since each had been added before it counted.
`RestrictionStands`: what a review has restricted is SAFE or REVIEW again only
by a moderator.

*ReportPoller.* `Passed(t)` says that everything older than `t` has come to its end.
The checkpoint and the `since` of every run satisfy it. A run that is under
way adds what it will say about the rest: what it has seen is processed or among its
`retryable` (`SeenIn`), and what it has overtaken without seeing is still below the
next page, or on a full page that it has in hand, or it knows that the poll was
`saturated` (`CoveredIn`). The safe checkpoint is the minimum of the times that are
left, so it passes none of them.

*DmInbox.* The checkpoint moves to the start of a complete read. `ReadsAll`: what a
complete read has answered for is handled, in the hands of the invocation, or
still to be done; `KnowsItsWrap`: what an invocation found out about the wrap in
hand stays true, because rows are never removed. The attempt to prove it
showed that a wrap can be older than a week before any sync has been completed; it
is among the `excused` since.

*GiftWrapFetch.* `FetchInv`: a relay that is not gated never closes for want of a key; a reader that
waits and has not asked again has a challenge under way or a confirmed key, and an
answer to its first request under way or a closed subscription, but not both a
confirmed key and a closed subscription; one that has asked again has that request
or its answer under way.

### What goes out (`Outbound_proofs`)

One proof module for `DmSender`, `Enforcement`, `Escalation`, `Detector` and
`Classifier`, in the same way.

| Theorem | Property | Inductive invariant | Assumptions |
|---|---|---|---|
| `NoSecondCopyHolds` | `NoSecondCopy` | `DmInv`, by `DmInvariant` | `DmSenderAssumption` |
| `RecordedBansHold` | `EnforcementIsInForce` | `EnforcementInv`, by `EnforcementInvariant` | `EnforcementAssumption` |
| `EscalationSettlesHolds` | `EscalationSettles` | `EscalationInv`, by `EscalationInvariant` | `EscalationAssumption` |
| `ProbesOneAtATime` | `OneProbeAtATime` | `DetectorInv`, by `DetectorInvariant` | `DetectorAssumption` |
| `SafeMeansQuietHolds` | `SafeMeansQuiet` | `ClassifierInv`, by `ClassifierInvariant` | `ClassifierAssumption` |

*DmSender.* `AttemptSafe`: a wrap with a number above that of the attempt has not been
seen by any relay; one of an earlier attempt was refused everywhere or not seen;
the present one is unseen before it is published, and after that it is only at the
relays it was sent to, refused by those that said so. So the attempts that may be
repeated, the ones that certainly failed, are the ones nothing can come of.

*Enforcement.* From `EnforcementAssumption` (`Unset` is neither a Boolean, nor a version, nor a row; limits
are naturals).
The property compares two stores that a request changes one after the other. The
invariant follows the request in between: a request that is `alone` has nobody
else at work and no late ban before it (`AloneInv`), so that the ban the relay
has confirmed to it is in force (`InHand`); and while there is no `doubt`, one
request at most is about the row, what it has read is what is recorded, and
the relay's ban is the recorded one or the one confirmed to it; with no such
request, the two agree (`Undoubted`). `CallsMatch` says
that every call under way, belated ones too, is one that its request has made. For
the deletions, `DeletesInv` says that what a request has found and is still served
is what it has yet to delete, unless one of its calls failed.

*Escalation.* `VideoSafe` has three parts. While nobody has decided
(`Undecided`), the mirror of a ban means a ban in every store, or a run still at
work on it, or a run that was cut off. Once somebody has, whose decision leaves no
QUARANTINE in the mirror and met no run that was writing to the video (`Upheld`),
no run ever writes to it: none is beyond its look at the mirror. In every other case
what D1 took is still the decision or has become a ban (`Accepted`). `RunSafe`
says what a run has done at each of its steps. Overlapping runs write the same
values, so the order of their writes does not matter.

*Detector.* From `DetectorAssumption` (limits are positive, and a call's deadline is shorter
than the cooldown, as the defaults have it: 5 s and 10 s).
`InTime`: a timed call is within its deadline. `OpenedLater`: while the circuit is
open, each probe under way began no later than the circuit opened. `HalfOpenProbes`: a half-open circuit has its probe in flight, so the
code's branch for a half-open circuit without one is never taken. A circuit that
opened again can probe only after a cooldown, by which time the deadline of the
earlier probe has passed; that is where `Timeout < Cooldown` is needed.

*Classifier.* `ClassifierInv` is `SafeMeansQuiet` and the types. The cron's verdict
is the first branch that applies; a verdict of SAFE means that none above it did,
and `SafeIsQuiet` turns that into bounds, category by category and for whatever
thresholds are set, which the runs of TLC can only sample.

### The scripts (`Scripts_proofs`)

One proof module for `DeleteSweep`, `VineRollback`, `ReplicaBackfill`, `RelayWalk`
and `DeleteProbe`.

| Theorem | Property | Inductive invariant | Assumptions |
|---|---|---|---|
| `StampsTellTheTruth` | `StampsAreTrue` | `SweepInv`, by `SweepInvariant` | `DeleteSweepAssumption` |
| `RollbackReachesHolds` | `RollbackReaches` | `RollbackInv`, by `RollbackInvariant` | `VineRollbackAssumption` |
| `EveryRowTriedHolds` | `EveryRowTried` | `BackfillInv`, by `BackfillInvariant` | `BackfillAssumption` |
| `WalkSeesAllHolds` | `WalkSeesAll` | `WalkInv`, by `WalkInvariant` | `RelayWalkAssumption` |
| `LeftoversReportedHolds` | `LeftoversReported` | `ProbeInv`, by `ProbeInvariant` | `DeleteProbeAssumption` |

*DeleteSweep.* From `DeleteSweepAssumption` (`ShaOf` is defined on the rows, which are finitely many;
limits are naturals, and the batch is positive).
`BelievedIsTrue`: what a run believes to be destroyed (an answer taken for success,
a stamp waiting for its batch) is destroyed, since bytes do not come back.
`NoneForgotten`: every candidate is to be called, has an answer to be taken, waits
to be stamped, is stamped, or is among the failures that the exit code counts;
and a run that has come to its stamps has nothing left to call or to take.

*VineRollback.* `InvocationInv` is what one invocation knows: its page is in the list
(`InList`); what it has removed and restored for the item in hand (`DoneSoFar`); the
metadata of what is left of its page is there unless a lookup came back short
(`Equipped`); and its answers are true (`Sound`), which stays so because steps on
other items only restore more (`Restores`, `OthersStand`). An invocation that the operator
still waits for has answered every item before the one it is at (`AnswersPage`), so
that the cursor only passes answered items (`GoneThrough`); an abandoned one may
go on and only restores. `Traced` is the one exception, of a video that is not
yet told to Blossom and of which no store tells any more.

*ReplicaBackfill.* `Settled`: behind a cursor, the saved one or the walk's, lies only
what has been tried or has moved. It is the order of the query (`Follows`, three
columns) that makes a batch leave nothing between the two cursors; `GreatestNat` gives
a batch its last row.

*RelayWalk.* `InFront`: no video that the walk still owes is newer than a cursor,
the saved one or that of the pass. `PageCovers`: a page in hand has it or is full; a
full page is what moves the cursor, a short one ends the walk.

*DeleteProbe.* `InOrder`: the script knows of nothing in a scenario to come, and of a
finished one that its removal ended. `RemovedSoFar`: what a removal that has
reported success leaves behind came later, or is what the script takes no note of (a
wrangler that was killed, a deletion without its OK). `Concluded`: what
the exit code says. `AgendaRule` spells the three plans out, so that no
induction over the list of scenarios is needed.

## 7. What is only model-checked

Every safety invariant that a passing run checks, the action property and the two
refinements are theorems. TLC alone checks

- the liveness properties: `PendingSettled` (the delivery of private reports),
  `SettledOrStranded` (the retries of the cron) and `ReportsCatchUp` (the poller).
  Liveness under fairness and ENABLED are out of this prover's reach;
- that the promises are violated (section 4): these are TLC's counterexamples.

No theorem needs an induction over data, which is out of reach too: `VineRollback`
speaks of the positions of its list, `DeleteProbe` of its three plans, and a text
of `Classifier` is known by the weights it is given.

The theorems hold for every value of the constants, the bounds included. They
do not say that the bounds are reached: that the cases happen is what the runs
and the faulty variants show.

## 8. What is not modelled, and why

- Of the decisions: the expiry of KV keys; the copy of KV results to D1
  (`/admin/api/migrate`), a one-off; the deletion of the same blob by its creator,
  which `CreatorDelete` models; the pages that list and select videos. The paging
  of the age-restricted reconcile is that of `VineRollback` without the metadata.
- Liveness of the label sweep: a video that fails in every sweep holds the watermark
  for all, and with more votes in one second than the batch limit the same
  videos can be deferred again and again. A fair specification would state
  what is left besides these, and is in the plan.
- The sync endpoint's HTTP answer, NIP-98 and the rate limiter: the answer
  reflects rows that are modelled; the limiter documents itself as approximate.
- Private reports re-driven by hand (a moderator who edits rows).
- The identity cache: its answers may be as old as its expiry. `LabelSweep`
  takes identities as constant.
- The poller of new videos: `wrangler.toml` sets `reactive_skip`, under which it queues
  nothing; what the queue consumer does with messages is in `Moderation`.
- Encryption, decryption and listing of DMs; the providers of scores, which are no
  longer asked for new uploads; the script that downgrades classic Vines.
- Topics, admin pages, authentication, ATProto labels and transcription: pure
  transformation or I/O without shared state of their own. `classify-batch`
  (`index.mjs:3514`) uses `env.MODERATION_DB`, which `wrangler.toml` does not bind, so it
  answers 500 whatever it is asked.

### Divergences without a run

Met while modelling. Each is in its model as the code has it, and the properties that
pass except it openly. Some contradict a sentence of the repository, and have no run
of their own because a passing property states what is left of that sentence:
"Human decisions are never overridden." (`index.mjs:5461`; below under
*Escalation*), and the exit code 0 of the end-to-end design, "all requested scenarios
passed; all cleanup succeeded"
(`docs/superpowers/specs/2026-04-18-creator-delete-e2e-test-design.md:225`; below
under *Probe*).

- *Rollback.* `Number(null) < 1514764800` (`classic-vine-rollback.mjs:234`) makes every
  listed video whose event has no `published_at` a classic Vine when the source is
  the default `sha-list`; the design and `isOriginalVine` ask for a date. Errors of
  the relay are swallowed (`relay-client.mjs:267`), so `relay-lookup-failed`
  never occurs, and a failed lookup counts as `missing-vine-metadata`, skipped.
- *Escalation.* A scan writes no `moderation:` mirror, so a video that was
  quarantined automatically is never escalated. Finished entries stay seven days
  in a list of which each run takes the first 20 keys. A run that ended between the mirror
  and D1 is repeated, sees PERMANENT_BAN and marks the video done (`cutOff`). A
  decision between a run's look and its writes is overridden (`raced`), and so is, at
  any time, one by `/api/v1/moderate` (`index.mjs:4398`), `/api/v1/quarantine` (4613) or
  the rollback (`classic-vine-rollback.mjs:284`) on a video whose mirror still says
  QUARANTINE: the guard at 5463 asks the mirror, which these do not write. A
  verification of a category can put the mirror back to the QUARANTINE it has read.
  What remains is that such a decision becomes a ban and nothing else
  (`EscalationSettles`, `RestedDecisionStands`).
- *Poller.* What was cut off in the very second of the checkpoint is not resumed.
- *Enforcement.* Overlapping requests lose updates; a ban that equals a stale
  recorded row makes no call and reports success. A ban that is changed in relay-manager
  itself is outside the model.
- *Detector.* Reading a body has no timer: a probe stalled there blocks the breaker
  until the isolate ends.
- *Replica backfill and walks.* Rows and videos that fail are passed by the cursor;
  videos of the second at which a page ends are skipped; a dry run's checkpoint is
  resumed by a real run; a full page of videos without a hash is read for ever.
- *Reports.* A self-report that is upserted after its reconcile keeps its
  escalating source. *Inbox.* Two overlapping reads log a message twice.
- *Classifier.* New uploads have no scores, so only oaths, slurs and threats keep a
  transcribed video from SAFE, while `pipeline.mjs` says a team's review is required.
  The verdict is not monotone: violence .75 is QUARANTINE, .85 AGE_RESTRICTED, and
  nudity from its high threshold on is SAFE, which `wrangler.toml:99` comments as
  age-restricted. A high threshold of 0 mutes the bans and quarantines between .7 and
  the default. `GET /admin/api/thresholds` shows the defaults of the code while the
  deployment's variables are in force.
- *Probe.* `PollStatus` throws on the 404 of a row that is not there yet
  (`status-endpoint.mjs:59`), so the scenario of the cron fails unless the cron was
  faster. A killed or missing `wrangler` counts as success (`r.status ?? 0`,
  `e2e-creator-delete.mjs:184`), so the probe can end with 0 and leave the row. The row
  of a deletion whose OK was lost is not removed either: the id is built in the script,
  but kept only with the OK (`:649`). `LeftoversReported` excepts both. An abort
  in the second scenario forgets a failed clean-up of the first.
