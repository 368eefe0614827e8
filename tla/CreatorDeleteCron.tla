-------------------------- MODULE CreatorDeleteCron -------------------------
(***************************************************************************)
(* How the every-minute cron (src/creator-delete/cron.mjs) finds the       *)
(* deletions it has to work on: the kind 5 events of a polling window that *)
(* moves with KV's last-poll, and the rows it SELECTs as retryable.        *)
(*                                                                         *)
(* CreatorDelete studies how two invocations race for one row; here a      *)
(* claim is one step and its outcome another, so that an invocation can    *)
(* fail in between.  Each kind 5 event names one target.  Time is kept as  *)
(* ages, which stop growing when nothing depends on them any more.         *)
(***************************************************************************)
EXTENDS Naturals

CONSTANTS
  Kind5,        \* kind 5 events
  Cron,         \* cron invocations that may overlap
  Sync,         \* invocations of the sync endpoint
  Overlap,      \* POLL_OVERLAP_SECONDS, in ticks
  Lag,          \* bound on the delay before the relay serves an event
  Timeout,      \* IN_PROGRESS_TIMEOUT_MS, in ticks
  MaxRetries,   \* MAX_RETRY_COUNT
  Backoff,      \* [retries -> ticks before the next retry]
  Nothing,      \* no current deletion
  MaxFaults     \* bound on crashes and failing D1 calls (model checking only)

ASSUME CronAssumption ==
  /\ Overlap \in Nat /\ Lag \in Nat /\ Timeout \in Nat /\ MaxFaults \in Nat
  /\ MaxRetries \in Nat \ {0}
  /\ Backoff \in [1..(MaxRetries - 1) -> 0..Timeout]
  /\ Lag <= Overlap
  /\ Nothing \notin Kind5

Worker == Cron \cup Sync
Status == {"none", "accepted", "success", "transient", "permanent"}

VARIABLES
  age,        \* since created_at, at most Overlap + 1; 0 before publication
  relay,      \* external: "absent", "stored" (acknowledged) or "served"
  window,     \* the events with created_at >= last-poll - Overlap
  row,        \* creator_deletions: status, age of accepted_at, retry_count
  pc,         \* where each cron invocation is
  asked,      \* the window when it read last-poll
  stale,      \* the events older than Overlap at that time (its nowMs)
  todo,       \* the events its query returned, to be processed
  retryable,  \* the transient rows it selected, to be retried
  answered,   \* querySucceeded
  at,         \* the deletion each invocation works on
  faults,     \* crashes and failed D1 calls so far
  thrown      \* history: events whose claim failed in a cron invocation

vars == <<age, relay, window, row, pc, asked, stale, todo, retryable, answered,
          at, faults, thrown>>
cron == <<pc, asked, stale, todo, retryable, answered>>

Row == [status : Status, age : 0..Timeout, retries : 0..MaxRetries]

TypeOK ==
  /\ age \in [Kind5 -> 0..(Overlap + 1)]
  /\ relay \in [Kind5 -> {"absent", "stored", "served"}]
  /\ window \in SUBSET Kind5
  /\ row \in [Kind5 -> Row]
  /\ pc \in [Cron -> {"idle", "query", "poll", "retry"}]
  /\ asked \in [Cron -> SUBSET Kind5] /\ stale \in [Cron -> SUBSET Kind5]
  /\ todo \in [Cron -> SUBSET Kind5] /\ retryable \in [Cron -> SUBSET Kind5]
  /\ answered \in [Cron -> BOOLEAN]
  /\ at \in [Worker -> Kind5 \cup {Nothing}]
  /\ faults \in 0..MaxFaults
  /\ thrown \in SUBSET Kind5

Init ==
  /\ age = [k \in Kind5 |-> 0]
  /\ relay = [k \in Kind5 |-> "absent"]
  /\ window = Kind5
  /\ row = [k \in Kind5 |-> [status |-> "none", age |-> 0, retries |-> 0]]
  /\ pc = [c \in Cron |-> "idle"]
  /\ asked = [c \in Cron |-> {}] /\ stale = [c \in Cron |-> {}]
  /\ todo = [c \in Cron |-> {}] /\ retryable = [c \in Cron |-> {}]
  /\ answered = [c \in Cron |-> FALSE]
  /\ at = [w \in Worker |-> Nothing]
  /\ faults = 0
  /\ thrown = {}

-----------------------------------------------------------------------------
(* The creator and the relay (external).                                   *)

Publish(k) ==
  /\ relay[k] = "absent"
  /\ relay' = [relay EXCEPT ![k] = "stored"]
  /\ UNCHANGED <<age, window, row, cron, at, faults, thrown>>

Serve(k) ==
  /\ relay[k] = "stored"
  /\ relay' = [relay EXCEPT ![k] = "served"]
  /\ UNCHANGED <<age, window, row, cron, at, faults, thrown>>

AtMost(n, bound) == IF n > bound THEN bound ELSE n

\* A tick is one minute.  The relay serves an event within Lag.
Tick ==
  /\ \A k \in Kind5 : relay[k] = "stored" => age[k] < Lag
  /\ age' = [k \in Kind5 |->
       IF relay[k] = "absent" THEN 0 ELSE AtMost(age[k] + 1, Overlap + 1)]
  /\ row' = [k \in Kind5 |->
       IF row[k].status \in {"accepted", "transient"}
       THEN [row[k] EXCEPT !.age = AtMost(@ + 1, Timeout)] ELSE row[k]]
  /\ UNCHANGED <<relay, window, cron, at, faults, thrown>>

-----------------------------------------------------------------------------
(* One deletion: claim, then outcome.                                      *)

MayProceed(r) ==
  \/ r.status = "none"
  \/ r.status = "accepted" /\ r.age >= Timeout
  \/ r.status = "transient" /\ r.retries < MaxRetries /\ r.age >= Backoff[r.retries]

\* claimRow, decideAction and the conditional re-claim: the row is taken, or
\* the deletion is skipped.
Take(w, k) ==
  IF MayProceed(row[k])
  THEN /\ row' = [row EXCEPT ![k].status = "accepted", ![k].age = 0]
       /\ at' = [at EXCEPT ![w] = k]
  ELSE UNCHANGED <<row, at>>

\* Faulty variant: a status that lacks the prefix of its family.
OutcomesUnlabelled(r) ==
  {[r EXCEPT !.status = "success", !.age = 0],
   [r EXCEPT !.status = "failed", !.retries = AtMost(@ + 1, MaxRetries)]}

\* The target is fetched, Blossom is called, and the row is written: a
\* success, a permanent failure, or a transient one, which is promoted when
\* it is the last.
Outcomes(r) ==
  {[r EXCEPT !.status = "success", !.age = 0],
   [r EXCEPT !.status = "permanent", !.age = 0],
   [status |-> IF r.retries + 1 >= MaxRetries THEN "permanent" ELSE "transient",
    age |-> IF r.retries + 1 >= MaxRetries THEN 0 ELSE r.age,
    retries |-> AtMost(r.retries + 1, MaxRetries)]}

Settle(w) ==
  /\ at[w] # Nothing
  /\ \E r \in Outcomes(row[at[w]]) : row' = [row EXCEPT ![at[w]] = r]
  /\ at' = [at EXCEPT ![w] = Nothing]
  /\ UNCHANGED <<age, relay, window, cron, faults, thrown>>

\* The D1 call that writes the outcome throws: the row stays accepted.
SettleThrows(w) ==
  /\ at[w] # Nothing /\ faults < MaxFaults
  /\ at' = [at EXCEPT ![w] = Nothing]
  /\ faults' = faults + 1
  /\ UNCHANGED <<age, relay, window, row, cron, thrown>>

\* The sync endpoint takes a signed event with the request, published or not.
SyncRequest(s) ==
  /\ at[s] = Nothing
  /\ \E k \in Kind5 : MayProceed(row[k]) /\ Take(s, k)
  /\ UNCHANGED <<age, relay, window, cron, faults, thrown>>

-----------------------------------------------------------------------------
(* One cron invocation.                                                    *)

\* Faulty variant: the SELECT leaves the last retry out.
TransientButLast(k) == row[k].status = "transient" /\ row[k].retries < MaxRetries - 1

Transient(k) == row[k].status = "transient" /\ row[k].retries < MaxRetries

\* Reads last-poll and the clock, and selects the rows to retry.
Begin(c) ==
  /\ pc[c] = "idle"
  /\ pc' = [pc EXCEPT ![c] = "query"]
  /\ asked' = [asked EXCEPT ![c] = window]
  /\ stale' = [stale EXCEPT ![c] = {k \in Kind5 : age[k] > Overlap}]
  /\ retryable' = [retryable EXCEPT ![c] = {k \in Kind5 : Transient(k)}]
  /\ UNCHANGED <<age, relay, window, row, todo, answered, at, faults, thrown>>

\* The relay answers with what it serves of the window.
QueryAnswers(c) ==
  /\ pc[c] = "query"
  /\ pc' = [pc EXCEPT ![c] = "poll"]
  /\ todo' = [todo EXCEPT ![c] = {k \in asked[c] : relay[k] = "served"}]
  /\ answered' = [answered EXCEPT ![c] = TRUE]
  /\ UNCHANGED <<age, relay, window, row, asked, stale, retryable, at, faults, thrown>>

\* A relay outage, of any length.
QueryFails(c) ==
  /\ pc[c] = "query"
  /\ pc' = [pc EXCEPT ![c] = "retry"]
  /\ UNCHANGED <<age, relay, window, row, asked, stale, todo, retryable, answered,
                 at, faults, thrown>>

\* The next event of the answer.
Process(c) ==
  /\ pc[c] = "poll" /\ at[c] = Nothing
  /\ \E k \in todo[c] :
       /\ todo' = [todo EXCEPT ![c] = @ \ {k}]
       /\ Take(c, k)
  /\ UNCHANGED <<age, relay, window, pc, asked, stale, retryable, answered, faults, thrown>>

\* Its claim throws.  The error is recorded and the loop goes on.
ProcessThrows(c) ==
  /\ pc[c] = "poll" /\ at[c] = Nothing /\ faults < MaxFaults
  /\ faults' = faults + 1
  /\ \E k \in todo[c] :
       /\ todo' = [todo EXCEPT ![c] = @ \ {k}]
       /\ thrown' = thrown \cup {k}
  /\ UNCHANGED <<age, relay, window, row, pc, asked, stale, retryable, answered, at>>

PollDone(c) ==
  /\ pc[c] = "poll" /\ at[c] = Nothing /\ todo[c] = {}
  /\ pc' = [pc EXCEPT ![c] = "retry"]
  /\ UNCHANGED <<age, relay, window, row, asked, stale, todo, retryable, answered,
                 at, faults, thrown>>

Retry(c) ==
  /\ pc[c] = "retry" /\ at[c] = Nothing
  /\ \E k \in retryable[c] :
       /\ retryable' = [retryable EXCEPT ![c] = @ \ {k}]
       /\ Take(c, k)
  /\ UNCHANGED <<age, relay, window, pc, asked, stale, todo, answered, faults, thrown>>

RetryThrows(c) ==
  /\ pc[c] = "retry" /\ at[c] = Nothing /\ faults < MaxFaults
  /\ faults' = faults + 1
  /\ \E k \in retryable[c] : retryable' = [retryable EXCEPT ![c] = @ \ {k}]
  /\ UNCHANGED <<age, relay, window, row, pc, asked, stale, todo, answered, at, thrown>>

Reset(c) ==
  /\ pc' = [pc EXCEPT ![c] = "idle"]
  /\ asked' = [asked EXCEPT ![c] = {}]
  /\ stale' = [stale EXCEPT ![c] = {}]
  /\ todo' = [todo EXCEPT ![c] = {}]
  /\ retryable' = [retryable EXCEPT ![c] = {}]
  /\ answered' = [answered EXCEPT ![c] = FALSE]

\* Faulty variant: last-poll moves whatever became of the query.
FinishAlways(c) ==
  /\ pc[c] = "retry" /\ at[c] = Nothing /\ retryable[c] = {}
  /\ window' = Kind5 \ stale[c]
  /\ Reset(c)
  /\ UNCHANGED <<age, relay, row, at, faults, thrown>>

\* last-poll becomes the time at which this invocation started, if its query
\* succeeded.
Finish(c) ==
  /\ pc[c] = "retry" /\ at[c] = Nothing /\ retryable[c] = {}
  /\ window' = IF answered[c] THEN Kind5 \ stale[c] ELSE window
  /\ Reset(c)
  /\ UNCHANGED <<age, relay, row, at, faults, thrown>>

\* The platform ends an invocation.
CrashCron(c) ==
  /\ pc[c] # "idle" /\ faults < MaxFaults
  /\ faults' = faults + 1
  /\ at' = [at EXCEPT ![c] = Nothing]
  /\ Reset(c)
  /\ UNCHANGED <<age, relay, window, row, thrown>>

Step(c) == QueryFails(c) \/ Process(c) \/ PollDone(c) \/ Retry(c) \/ Finish(c)

Next ==
  \/ \E k \in Kind5 : Publish(k) \/ Serve(k)
  \/ Tick
  \/ \E w \in Worker : Settle(w) \/ SettleThrows(w)
  \/ \E s \in Sync : SyncRequest(s)
  \/ \E c \in Cron : \/ Begin(c) \/ QueryAnswers(c) \/ Step(c)
                     \/ ProcessThrows(c) \/ RetryThrows(c) \/ CrashCron(c)

\* The platform triggers the cron every minute and runs what it started, calls
\* return, and an outage of the relay ends.
Fairness ==
  /\ WF_vars(Tick)
  /\ \A k \in Kind5 : WF_vars(Serve(k))
  /\ \A w \in Worker : WF_vars(Settle(w))
  /\ \A c \in Cron : WF_vars(Begin(c)) /\ WF_vars(Step(c)) /\ SF_vars(QueryAnswers(c))

Spec == Init /\ [][Next]_vars /\ Fairness

-----------------------------------------------------------------------------
(* Properties.                                                             *)

Settled(k) == row[k].status \in {"success", "permanent"}
Worked(k) == \E w \in Worker : at[w] = k

\* An event that the relay has accepted and nobody has claimed stays in the
\* polling window, however long the relay cannot be queried and whatever
\* invocations crash, unless its own claim failed.
UnclaimedStaysInWindow ==
  \A k \in Kind5 :
    relay[k] # "absent" /\ row[k].status = "none" /\ k \notin thrown => k \in window

\* Nothing finds a deletion again: it is not in the window, no SELECT returns
\* its row, and nobody works on it.
Stranded(k) ==
  /\ k \notin window /\ ~Worked(k)
  /\ row[k].status \in {"none", "accepted"}

\* Every published deletion is settled or ends up stranded: the retries, the
\* overlap of the windows and the takeovers leave no third way.
SettledOrStranded ==
  \A k \in Kind5 : relay[k] = "served" ~> (Settled(k) \/ Stranded(k))

\* What the design document says: the audit trail eventually becomes complete.
AuditTrailCompletes ==
  \A k \in Kind5 : relay[k] = "served" ~> Settled(k)
=============================================================================
