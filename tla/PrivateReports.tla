--------------------------- MODULE PrivateReports ---------------------------
(***************************************************************************)
(* Private reports (src/moderation/private-report-intake.mjs and its part  *)
(* of src/nostr/dm-reader.mjs): the cron reads report DMs, records each    *)
(* report once, hands the pending ones to relay-manager by priority, backs *)
(* off after a failure, and prunes what was settled a year ago.            *)
(*                                                                         *)
(* Invocations of the cron may overlap.  relay-manager is external: it     *)
(* opens one review item per report and keeps two attempts apart by a      *)
(* lease.  A tick is the period of the cron, and the row's next_attempt_at *)
(* is kept as the ticks that are left until then.                          *)
(***************************************************************************)
EXTENDS Integers, FiniteSets

CONSTANTS
  Cron,       \* invocations of the cron that can run at the same time
  Wrap,       \* gift wraps, each a DM with one private report
  Report,     \* (reporter, report id), the key of private_report_intake
  ReportOf,   \* [Wrap -> Report]; a resend is another wrap of its report
  Priority,   \* [Report -> 0..3]: csam, child_safety, underage_user, others
  Stuck,      \* external: reports whose route in relay-manager is too slow
  Limit,      \* DEFAULT_DELIVERY_BATCH_LIMIT
  Budget,     \* DELIVERY_RUN_BUDGET_MS, in units of DELIVERY_TIMEOUT_MS
  BaseDelay,  \* RETRY_BASE_DELAY_MS, in ticks
  MaxDelay,   \* RETRY_MAX_DELAY_MS, in ticks
  Nothing,    \* no value
  MaxFaults   \* bound on crashes and failures outside Stuck (model checking)

CONSECUTIVE_TIMEOUTS_TO_STOP == 2

ASSUME ReportsAssumption ==
  /\ ReportOf \in [Wrap -> Report] /\ Priority \in [Report -> 0..3]
  /\ Stuck \subseteq Report /\ IsFiniteSet(Report)
  /\ Limit \in Nat \ {0} /\ Budget \in Nat \ {0}
  /\ BaseDelay \in Nat \ {0} /\ MaxDelay \in Nat \ {0} /\ MaxFaults \in Nat

VARIABLES
  row,     \* private_report_intake: [Report -> Row or Nothing]
  before,  \* the order of the rows' ids
  old,     \* the rows recorded more than a year ago
  logged,  \* the wraps in dm_log
  pruned,  \* history: reports whose row the retention deleted
  items,   \* external: the reports with a review item at relay-manager
  lease,   \* external: who holds relay-manager's lease on a report
  refused, \* external: reports that relay-manager's validation refuses
  fired,   \* the cron trigger has fired and nobody has started
  faults,  \* crashes and failures so far
  job      \* the state of each invocation

vars == <<row, before, old, logged, pruned, items, lease, refused, fired, faults, job>>
intake == <<row, before, old, logged, pruned>>
manager == <<items, lease, refused>>

\* Attempts beyond MaxDelay + 1 are not told apart: the delay has reached its
\* cap by then.
Attempts == 0..(MaxDelay + 1)
Row == [status : {"pending", "delivered", "rejected"}, attempts : Attempts,
        next : (0..MaxDelay) \cup {Nothing}]

\* relay-manager's answers to a handoff, and what a caller makes of none.
Answer == {"success", "invalid", "busy", "unauthorized", "broken", "timeout"}

ASSUME NothingAssumption ==
  /\ Nothing \notin Row \cup Report \cup Cron \cup Answer \cup {"orphan"} \cup Int
  /\ "orphan" \notin Cron

Job == [pc : {"idle", "sync", "handoff", "prune"}, left : SUBSET Wrap,
        elapsed : 0..MaxDelay, untried : SUBSET Report, batch : SUBSET Report,
        current : Report \cup {Nothing}, read : [Report -> Attempts],
        timeouts : 0..CONSECUTIVE_TIMEOUTS_TO_STOP, used : 0..Budget,
        answer : Answer \cup {Nothing}]

Idle == [pc |-> "idle", left |-> {}, elapsed |-> 0, untried |-> {}, batch |-> {},
         current |-> Nothing, read |-> [x \in Report |-> 0], timeouts |-> 0,
         used |-> 0, answer |-> Nothing]

Rows == {x \in Report : row[x] # Nothing}
Pending == {x \in Rows : row[x].status = "pending"}

\* ORDER BY priority, id.
Precedes(x, y) ==
  \/ Priority[x] < Priority[y]
  \/ Priority[x] = Priority[y] /\ <<x, y>> \in before

TypeOK ==
  /\ row \in [Report -> Row \cup {Nothing}]
  /\ before \subseteq Rows \X Rows
  /\ old \subseteq Rows
  /\ logged \subseteq Wrap /\ pruned \subseteq Report
  /\ items \subseteq Report /\ refused \subseteq Report
  /\ lease \in [Report -> Cron \cup {"orphan", Nothing}]
  /\ fired \in BOOLEAN /\ faults \in 0..MaxFaults
  /\ job \in [Cron -> Job]
  /\ \A c \in Cron :
       /\ job[c].pc = "handoff" => job[c].current \in job[c].batch
       /\ job[c].batch \subseteq Rows

Init ==
  /\ row = [x \in Report |-> Nothing]
  /\ before = {} /\ old = {} /\ logged = {} /\ pruned = {}
  /\ items = {} /\ refused = {}
  /\ lease = [x \in Report |-> Nothing]
  /\ fired = TRUE /\ faults = 0
  /\ job = [c \in Cron |-> Idle]

-----------------------------------------------------------------------------
(* Intake (dm-reader.mjs).                                                 *)

\* The wraps a poll may return: those of a report that has been recorded for
\* a year are long out of the two days that are polled again, unless new.
Polled == {w \in Wrap : w \in logged => ReportOf[w] \notin old \cup pruned}

\* syncInbox: the wraps the relay returns, none of them if the read fails.
Begin(c) ==
  /\ job[c].pc = "idle" /\ fired
  /\ fired' = FALSE
  /\ \E W \in SUBSET Polled :
       job' = [job EXCEPT ![c] = [Idle EXCEPT !.pc = "sync", !.left = W]]
  /\ UNCHANGED <<intake, manager, faults>>

NewRow == [status |-> "pending", attempts |-> 0, next |-> Nothing]

\* INSERT ... ON CONFLICT(reporter_pubkey, report_id) DO NOTHING.
InsertRow(x) ==
  IF x \in Rows THEN UNCHANGED <<row, before>>
  ELSE row' = [row EXCEPT ![x] = NewRow] /\ before' = before \cup (Rows \X {x})

\* Faulty variant: the DM and its intake row are written apart.
RecordApart(c) ==
  /\ job[c].pc = "sync"
  /\ \E w \in job[c].left :
       /\ job' = [job EXCEPT ![c].left = @ \ {w}]
       /\ logged' = logged \cup {w}
       /\ InsertRow(ReportOf[w]) \/ UNCHANGED <<row, before>>
  /\ UNCHANGED <<old, pruned, manager, fired, faults>>

\* processRumor: one D1 batch writes the dm_log and the intake row; a DM that
\* dm_log holds already gets the intake row alone.
RecordReport(c) ==
  /\ job[c].pc = "sync"
  /\ \E w \in job[c].left :
       /\ job' = [job EXCEPT ![c].left = @ \ {w}]
       /\ logged' = logged \cup {w}
       /\ InsertRow(ReportOf[w])
  /\ UNCHANGED <<old, pruned, manager, fired, faults>>

\* The write throws without effect; syncInbox counts an error and goes on.
RecordThrows(c) ==
  /\ job[c].pc = "sync"
  /\ \E w \in job[c].left : job' = [job EXCEPT ![c].left = @ \ {w}]
  /\ UNCHANGED <<intake, manager, fired, faults>>

-----------------------------------------------------------------------------
(* Delivery (private-report-intake.mjs).                                   *)

\* Faulty variant: LIMIT takes the oldest rows, which are then sorted.
BatchByArrival(due) == {x \in due : Cardinality({y \in due : <<y, x>> \in before}) < Limit}

BatchOf(due) == {x \in due : Cardinality({y \in due : Precedes(y, x)}) < Limit}

\* postHandoff for the first row of a batch; nothing is left to do without.
Hand(j, batch) ==
  IF batch = {} THEN {[Idle EXCEPT !.pc = "prune"]}
  ELSE {[j EXCEPT !.pc = "handoff", !.batch = batch, !.current = x, !.answer = Nothing] :
          x \in {y \in batch : \A z \in batch \ {y} : Precedes(y, z)}}

\* The SELECT of the due rows.  nowMs is the time of this step.
Select(c) ==
  LET due == {x \in Pending : row[x].next \in {0, Nothing}}
      read == [x \in Report |-> IF x \in due THEN row[x].attempts ELSE 0]
  IN  /\ job[c].pc = "sync" /\ job[c].left = {}
      /\ \E j \in Hand([Idle EXCEPT !.untried = due, !.read = read], BatchOf(due)) :
           job' = [job EXCEPT ![c] = j]
      /\ UNCHANGED <<intake, manager, fired, faults>>

\* Faulty variant: relay-manager is busy with the report, so it has it.
KindBusyDelivered(answer) ==
  CASE answer \in {"success", "busy"} -> "delivered"
    [] answer = "invalid" -> "rejected"
    [] OTHER -> "retry"

\* What an answer is taken for: 200 with success, 400, or anything else.
Kind(answer) ==
  CASE answer = "success" -> "delivered"
    [] answer = "invalid" -> "rejected"
    [] OTHER -> "retry"

Smaller(m, n) == IF m < n THEN m ELSE n
Larger(m, n) == IF m > n THEN m ELSE n

\* Faulty variant: the delay does not grow.
DelayFlat(attempts) == BaseDelay

\* Faulty variant: the delay grows without a cap.
DelayUncapped(attempts) == BaseDelay * 2 ^ (attempts - 1)

privateReportRetryDelayMs(attempts) == Smaller(BaseDelay * 2 ^ (attempts - 1), MaxDelay)

Count(attempts) == Smaller(attempts + 1, MaxDelay + 1)

\* The row after a settle.  attempts counts up in SQL; the delay is computed
\* from the attempts that the run has read, and counts from its start.
Settled(r, kind, read, elapsed) ==
  [status |-> IF kind = "retry" THEN r.status ELSE kind,
   attempts |-> Count(r.attempts),
   next |-> IF kind # "retry" THEN Nothing
            ELSE Larger(privateReportRetryDelayMs(read + 1) - elapsed, 0)]

\* How much of the budget an answer may have used.
Duration(answer) == IF answer = "timeout" THEN {1} ELSE {0, 1}

\* The run after an answer: it goes on with the next row, unless the failure
\* is one that the others would meet too or its budget is used.
AfterAnswer(j, slow) ==
  LET used == Smaller(j.used + slow, Budget)
      timeouts == IF j.answer = "timeout" THEN j.timeouts + 1 ELSE 0
      stop == \/ j.answer \in {"unauthorized", "broken"}
              \/ timeouts >= CONSECUTIVE_TIMEOUTS_TO_STOP
              \/ used >= Budget
  IN  Hand([j EXCEPT !.untried = @ \ {j.current}, !.read[j.current] = 0,
                     !.used = used, !.timeouts = timeouts],
           IF stop THEN {} ELSE j.batch \ {j.current})

Outcome(c) ==
  Settled(row[job[c].current], Kind(job[c].answer), job[c].read[job[c].current],
          job[c].elapsed)

\* The run goes on after a settle.
Proceed(c) ==
  \E slow \in Duration(job[c].answer) : \E j \in AfterAnswer(job[c], slow) :
    job' = [job EXCEPT ![c] = j]

\* Faulty variant: the row is settled whatever its status.
SettleUnguarded(c) ==
  /\ job[c].pc = "handoff" /\ job[c].answer # Nothing
  /\ row' = [row EXCEPT ![job[c].current] = Outcome(c)]
  /\ Proceed(c)
  /\ UNCHANGED <<before, old, logged, pruned, manager, fired, faults>>

\* settlePendingRow: ... WHERE id = ? AND status = 'pending'.
Settle(c) ==
  /\ job[c].pc = "handoff" /\ job[c].answer # Nothing
  /\ row' = IF job[c].current \in Pending
            THEN [row EXCEPT ![job[c].current] = Outcome(c)] ELSE row
  /\ Proceed(c)
  /\ UNCHANGED <<before, old, logged, pruned, manager, fired, faults>>

\* prunePrivateReportIntake, when the retention is enabled and due.
Prune(c) ==
  /\ job[c].pc = "prune"
  /\ job' = [job EXCEPT ![c] = Idle]
  /\ \/ LET gone == old \ Pending
        IN  /\ row' = [x \in Report |-> IF x \in gone THEN Nothing ELSE row[x]]
            /\ before' = before \cap ((Rows \ gone) \X (Rows \ gone))
            /\ old' = old \ gone
            /\ pruned' = pruned \cup gone
     \/ UNCHANGED <<row, before, old, pruned>>
  /\ UNCHANGED <<logged, manager, fired, faults>>

-----------------------------------------------------------------------------
(* relay-manager, and what may become of a handoff.                        *)

Fault == faults < MaxFaults /\ faults' = faults + 1

\* Slow answers are the rule for a stuck report and a fault for any other.
Hiccup(x) == IF x \in Stuck THEN UNCHANGED faults ELSE Fault

\* The report whose handoff an invocation is waiting for.
Waiting(c) == job[c].pc = "handoff" /\ job[c].answer = Nothing

Reply(c, answer) == job' = [job EXCEPT ![c].answer = answer]

\* relay-manager answers at once, or takes the lease and goes to work.
Accept(c) ==
  /\ Waiting(c)
  /\ LET x == job[c].current
     IN  /\ lease[x] # c
         /\ \/ x \in refused /\ Reply(c, "invalid") /\ UNCHANGED lease
            \/ x \notin refused /\ x \in items /\ Reply(c, "success") /\ UNCHANGED lease
            \/ /\ x \notin refused \cup items /\ lease[x] # Nothing
               /\ Reply(c, "busy") /\ UNCHANGED lease
            \/ /\ x \notin refused \cup items /\ lease[x] = Nothing
               /\ lease' = [lease EXCEPT ![x] = c] /\ UNCHANGED job
  /\ UNCHANGED <<intake, items, refused, fired, faults>>

\* The answer to whoever holds the lease and still waits for it.
ReplyToHolder(x, answer) ==
  IF lease[x] \in Cron THEN Reply(lease[x], answer) ELSE UNCHANGED job

\* The review item is created.
Complete(x) ==
  /\ lease[x] # Nothing /\ x \notin Stuck
  /\ items' = items \cup {x}
  /\ lease' = [lease EXCEPT ![x] = Nothing]
  /\ ReplyToHolder(x, "success")
  /\ UNCHANGED <<intake, refused, fired, faults>>

\* The work fails, or the lease runs out.
GiveUp(x) ==
  /\ lease[x] # Nothing
  /\ Hiccup(x)
  /\ lease' = [lease EXCEPT ![x] = Nothing]
  /\ ReplyToHolder(x, "busy")
  /\ UNCHANGED <<intake, items, refused, fired>>

\* An attempt nobody waits for any more goes on, if it reached relay-manager.
Abandoned(c, x) ==
  IF lease[x] = c THEN {[lease EXCEPT ![x] = "orphan"]}
  ELSE IF lease[x] = Nothing /\ x \notin items \cup refused
       THEN {lease, [lease EXCEPT ![x] = "orphan"]}
  ELSE {lease}

\* No answer within DELIVERY_TIMEOUT_MS.
TimeOut(c) ==
  /\ Waiting(c)
  /\ Hiccup(job[c].current)
  /\ lease' \in Abandoned(c, job[c].current)
  /\ Reply(c, "timeout")
  /\ UNCHANGED <<intake, items, refused, fired>>

\* The connection fails, with the request perhaps taken, or relay-manager or
\* Access turns the service away.
Break(c) ==
  /\ Waiting(c) /\ Fault
  /\ \/ lease' \in Abandoned(c, job[c].current) /\ Reply(c, "broken")
     \/ lease[job[c].current] # c /\ UNCHANGED lease /\ Reply(c, "unauthorized")
  /\ UNCHANGED <<intake, items, refused, fired>>

\* relay-manager's validation is changed by a deploy.
Deploy(x) ==
  /\ Fault
  /\ refused' \in {refused \ {x}, refused \cup {x}}
  /\ UNCHANGED <<intake, items, lease, fired, job>>

\* An invocation ends; or the SELECT or an UPDATE throws, which ends the
\* delivery but not the invocation.
Crash(c) ==
  /\ job[c].pc # "idle" /\ Fault
  /\ \/ job' = [job EXCEPT ![c] = Idle]
     \/ /\ job[c].pc = "handoff" \/ (job[c].pc = "sync" /\ job[c].left = {})
        /\ job' = [job EXCEPT ![c] = [Idle EXCEPT !.pc = "prune"]]
  /\ lease' = [x \in Report |-> IF lease[x] = c THEN "orphan" ELSE lease[x]]
  /\ UNCHANGED <<intake, items, refused, fired>>

-----------------------------------------------------------------------------
(* Time.                                                                   *)

\* A year passes over a settled row; nothing that was under way still is.
Expire(x) ==
  /\ x \in Rows \ (Pending \cup old)
  /\ lease[x] = Nothing
  /\ \A c \in Cron :
       /\ x \notin job[c].batch
       /\ \A w \in job[c].left : ReportOf[w] # x
  /\ old' = old \cup {x}
  /\ UNCHANGED <<row, before, logged, pruned, manager, fired, faults, job>>

Sooner(n) == IF n \in Nat \ {0} THEN n - 1 ELSE n

Tick ==
  /\ fired' = TRUE
  /\ row' = [x \in Report |-> IF row[x] = Nothing THEN Nothing
                              ELSE [row[x] EXCEPT !.next = Sooner(@)]]
  /\ job' = [c \in Cron |-> IF job[c].pc = "handoff"
                            THEN [job[c] EXCEPT !.elapsed = Smaller(@ + 1, MaxDelay)]
                            ELSE job[c]]
  /\ UNCHANGED <<before, old, logged, pruned, manager, faults>>

Runs(c) == Begin(c) \/ RecordReport(c) \/ Select(c) \/ Settle(c) \/ Prune(c)

Works ==
  \/ \E c \in Cron : Runs(c) \/ RecordThrows(c) \/ Accept(c) \/ TimeOut(c) \/ Break(c) \/ Crash(c)
  \/ \E x \in Report : Complete(x) \/ GiveUp(x) \/ Deploy(x) \/ Expire(x)

Next == Works \/ Tick

Spec == Init /\ [][Next]_vars

\* The cron keeps its period: DELIVERY_RUN_BUDGET_MS and one timeout, 120 s,
\* are less than the 5 minutes between two triggers, so an invocation is done
\* before the next one starts, and each trigger starts one.
TimelyTick == ~fired /\ (\A c \in Cron : job[c].pc = "idle") /\ Tick

TimelySpec ==
  /\ Init /\ [][Works \/ TimelyTick]_vars
  /\ WF_vars(TimelyTick)
  /\ \A c \in Cron : WF_vars(Runs(c)) /\ WF_vars(Accept(c) \/ TimeOut(c))
  /\ \A x \in Report : WF_vars(Complete(x))

-----------------------------------------------------------------------------
(* Properties.                                                             *)

\* A report DM in the inbox has its report recorded, or the report has been
\* settled and pruned: the poller of the inbox, which skips what dm_log holds,
\* never leaves a report behind.
LoggedMeansRecorded == \A w \in logged : ReportOf[w] \in Rows \cup pruned

\* A settled row is at rest: overlapping runs, whose answers come late, never
\* schedule it again, and a pending row that failed always has a time to be
\* retried at.
SettledRowsRest ==
  \A x \in Rows :
    IF x \in Pending THEN row[x].attempts > 0 => row[x].next # Nothing
    ELSE row[x].next = Nothing

\* A run tries no report while a more urgent one, which was due when the run
\* began, waits for its turn: the batch limit does not cut off urgent reports.
UrgentFirst ==
  \A c \in Cron : job[c].pc = "handoff" =>
    \A y \in job[c].untried : ~Precedes(y, job[c].current)

\* The intake implements the outbox.
Entry(x) == IF x \in Rows THEN row[x].status ELSE "none"

Box == INSTANCE Outbox WITH
  Reports <- Report, entry <- [x \in Report |-> Entry(x)], review <- items

ImplementsOutbox == Box!Spec

\* Every pending report whose route works is settled in the end, although
\* more urgent reports time out again and again and end the runs: their
\* growing delays leave runs to the others.
PendingSettled == \A x \in Report \ Stuck : x \in Pending ~> x \notin Pending
=============================================================================
