---------------------------- MODULE ReportPoller ----------------------------
(***************************************************************************)
(* The cron that polls the relay for reports (src/nostr/report-poller.mjs  *)
(* and the second part of scheduled() in src/index.mjs): it reads the      *)
(* reports since a checkpoint in pages, newest first, resumes below        *)
(* resumeUntil what a run could not finish, and moves the checkpoint only  *)
(* as far as every report behind it has come to an end.                    *)
(*                                                                         *)
(* Invocations may overlap, end at any await, and meet reports that the    *)
(* relay stores meanwhile.  Without a checkpoint a run looks back 24 hours,*)
(* longer than the history of the model.                                   *)
(***************************************************************************)
EXTENDS Integers, FiniteSets, FiniteSetsExt

CONSTANTS
  Poll,           \* invocations that can run at the same time
  RelayReport,    \* kind 1984 events
  Refused,        \* those that processReportEvent skips for what they are
  Unavailable,    \* those whose target no relay has
  PageLimit,      \* REPORT_POLLING_LIMIT
  MaxPages,       \* REPORT_POLLING_MAX_PAGES
  NoTime,         \* no checkpoint, no resumeUntil
  MaxPollTime,    \* bound of the clock, in seconds (model checking)
  MaxPollFaults   \* bound on faults (model checking)

ASSUME PollAssumption ==
  /\ Refused \subseteq RelayReport /\ Unavailable \subseteq RelayReport
  /\ PageLimit \in Nat \ {0} /\ MaxPages \in Nat \ {0}
  /\ NoTime \notin Nat /\ MaxPollTime \in Nat \ {0} /\ MaxPollFaults \in Nat

ASSUME RelayReportAssumption == IsFiniteSet(RelayReport)

VARIABLES
  clock,
  createdAt,   \* created_at of each event, 0 before the relay stores it
  late,        \* history: events that the relay stored after a newer one
  missing,     \* history: events that an answer lacked because it was cut off
  processed,   \* KV report-poller:processed:<id>
  checkpoint,  \* KV report-poller:last-poll
  resumeUntil, \* KV report-poller:last-run, its resumeUntil
  poll,        \* the state of each invocation
  pollFaults   \* faults so far

pollVars == <<clock, createdAt, late, missing, processed, checkpoint, resumeUntil, poll, pollFaults>>

Stored == {e \in RelayReport : createdAt[e] > 0}
Times(events) == {createdAt[e] : e \in events}

IdlePoll == [pc |-> "idle", since |-> 0, until |-> NoTime, page |-> 0, fetched |-> {},
             todo |-> {}, seen |-> {}, fresh |-> FALSE, terminal |-> {}, retryable |-> {},
             unbounded |-> FALSE, resume |-> NoTime, saturated |-> FALSE]

PollInit ==
  /\ clock = 1
  /\ createdAt = [e \in RelayReport |-> 0]
  /\ late = {} /\ missing = {} /\ processed = {}
  /\ checkpoint = NoTime /\ resumeUntil = NoTime
  /\ poll = [p \in Poll |-> IdlePoll]
  /\ pollFaults = 0

PollFault == pollFaults < MaxPollFaults /\ pollFaults' = pollFaults + 1

\* External: a viewer reports.  The page limit exceeds the reports of one second.
Arrive(e) ==
  /\ createdAt[e] = 0
  /\ \E t \in {clock, clock - 1} \ {0} :
       /\ Cardinality({x \in Stored : createdAt[x] = t}) < PageLimit - 1
       /\ createdAt' = [createdAt EXCEPT ![e] = t]
       /\ late' = IF \E x \in Stored : createdAt[x] > t THEN late \cup {e} ELSE late
  /\ UNCHANGED <<clock, missing, processed, checkpoint, resumeUntil, poll, pollFaults>>

Second ==
  /\ clock < MaxPollTime /\ clock' = clock + 1
  /\ UNCHANGED <<createdAt, late, missing, processed, checkpoint, resumeUntil, poll, pollFaults>>

-----------------------------------------------------------------------------
(* One invocation *)

\* A run reads since the checkpoint, below what the run before has resumed from.
BeginPoll(p) ==
  /\ poll[p].pc = "idle"
  /\ LET since == IF checkpoint = NoTime THEN 0 ELSE checkpoint
     IN poll' = [poll EXCEPT ![p] = [IdlePoll EXCEPT
          !.pc = "fetch", !.since = since, !.page = 1,
          !.until = IF resumeUntil # NoTime /\ resumeUntil > since THEN resumeUntil ELSE NoTime]]
  /\ UNCHANGED <<clock, createdAt, late, missing, processed, checkpoint, resumeUntil, pollFaults>>

\* The events that match the filter, and the answers a relay may give to it:
\* the newest ones, up to the limit.
Matching(p) ==
  {e \in Stored : createdAt[e] >= poll[p].since
                  /\ (poll[p].until # NoTime => createdAt[e] <= poll[p].until)}
Pages(p) ==
  {s \in SUBSET Matching(p) :
     /\ Cardinality(s) <= PageLimit
     /\ s # Matching(p) => Cardinality(s) = PageLimit
     /\ \A e \in s, x \in Matching(p) \ s : createdAt[e] >= createdAt[x]}

Receive(p, page) ==
  poll' = [poll EXCEPT ![p].pc = "process", ![p].fetched = page,
                       ![p].todo = page \ poll[p].seen, ![p].seen = @ \cup page,
                       ![p].fresh = ~(page \subseteq poll[p].seen)]

\* Thirty seconds pass, or the socket closes, before the relay is done: what
\* has come so far is taken for the answer.
CutOff(p) ==
  /\ poll[p].pc = "fetch" /\ PollFault
  /\ \E page \in Pages(p) : \E part \in SUBSET page \ {page} :
       /\ \A e \in part, x \in page \ part : createdAt[e] >= createdAt[x]
       /\ Receive(p, part) /\ missing' = missing \cup (Matching(p) \ part)
  /\ UNCHANGED <<clock, createdAt, late, processed, checkpoint, resumeUntil>>

FetchReports(p) ==
  /\ poll[p].pc = "fetch"
  /\ \E page \in Pages(p) : Receive(p, page)
  /\ UNCHANGED <<clock, createdAt, late, missing, processed, checkpoint, resumeUntil, pollFaults>>

\* The relay closes the subscription, or the connection fails.
FetchFails(p) ==
  /\ poll[p].pc = "fetch" /\ PollFault
  /\ poll' = [poll EXCEPT ![p].pc = "finish", ![p].unbounded = TRUE]
  /\ UNCHANGED <<clock, createdAt, late, missing, processed, checkpoint, resumeUntil>>

\* Mutant: a report that is left to the next run takes the rest of its page along.
ProcessReportOrStop(p) ==
  /\ poll[p].pc = "process"
  /\ \E e \in poll[p].todo :
       /\ \A x \in poll[p].todo : createdAt[e] >= createdAt[x]
       /\ \/ /\ e \in processed \cup Refused \cup (RelayReport \ Unavailable)
             /\ processed' = processed \cup {e}
             /\ poll' = [poll EXCEPT ![p].todo = @ \ {e},
                                     ![p].terminal = @ \cup {createdAt[e]}]
          \/ /\ e \in Unavailable \ (Refused \cup processed)
             /\ poll' = [poll EXCEPT ![p].todo = {},
                                     ![p].retryable = @ \cup {createdAt[e]}]
             /\ UNCHANGED processed
  /\ UNCHANGED <<clock, createdAt, late, missing, checkpoint, resumeUntil, pollFaults>>

\* processReportEvent: a report that was recorded or refused is at its end; one
\* whose target is unavailable, or whose recording fails, is for the next run.
\* The relay sends the newest first.
ProcessReport(p) ==
  /\ poll[p].pc = "process"
  /\ \E e \in poll[p].todo :
       /\ \A x \in poll[p].todo : createdAt[e] >= createdAt[x]
       /\ \/ /\ e \in processed \cup Refused \cup (RelayReport \ Unavailable)
             /\ processed' = processed \cup {e}
             /\ poll' = [poll EXCEPT ![p].todo = @ \ {e},
                                     ![p].terminal = @ \cup {createdAt[e]}]
             /\ UNCHANGED pollFaults
          \/ /\ e \notin processed
             /\ (e \in Unavailable \ Refused /\ UNCHANGED pollFaults) \/ PollFault
             /\ poll' = [poll EXCEPT ![p].todo = @ \ {e},
                                     ![p].retryable = @ \cup {createdAt[e]}]
             /\ UNCHANGED processed
  /\ UNCHANGED <<clock, createdAt, late, missing, checkpoint, resumeUntil>>

\* The end of a page.  A page without a new report and the last page allowed
\* both leave the rest to the next run, from the oldest second of the page.
TurnPage(p) ==
  /\ poll[p].pc = "process" /\ poll[p].todo = {}
  /\ LET fetched == poll[p].fetched
         full == Cardinality(fetched) >= PageLimit
         oldest == Min(Times(fetched))
     IN poll' = [poll EXCEPT ![p] =
          IF ~full THEN [@ EXCEPT !.pc = "finish"]
          ELSE IF ~@.fresh \/ @.page >= MaxPages
          THEN [@ EXCEPT !.pc = "finish", !.saturated = TRUE, !.resume = oldest]
          ELSE [@ EXCEPT !.pc = "fetch", !.page = poll[p].page + 1, !.until = oldest]]
  /\ UNCHANGED <<clock, createdAt, late, missing, processed, checkpoint, resumeUntil, pollFaults>>

\* Mutant: the newest report that came to an end, past those that did not.
NewestTerminal(p) ==
  IF poll[p].unbounded \/ poll[p].saturated THEN {} ELSE poll[p].terminal

\* Every report of the run up to this second has come to an end.
SafeCheckpoints(p) ==
  IF poll[p].unbounded \/ poll[p].saturated THEN {}
  ELSE {t \in poll[p].terminal : \A r \in poll[p].retryable : t < r}

\* The write of the checkpoint may fail, and is then only logged.
SetCheckpoint(p) ==
  /\ poll[p].pc = "finish"
  /\ \/ /\ checkpoint' = IF SafeCheckpoints(p) = {} THEN checkpoint
                         ELSE Max(SafeCheckpoints(p))
        /\ UNCHANGED pollFaults
     \/ SafeCheckpoints(p) # {} /\ PollFault /\ UNCHANGED checkpoint
  /\ poll' = [poll EXCEPT ![p].pc = "stats"]
  /\ UNCHANGED <<clock, createdAt, late, missing, processed, resumeUntil>>

SetLastRun(p) ==
  /\ poll[p].pc = "stats"
  /\ \/ resumeUntil' = poll[p].resume /\ UNCHANGED pollFaults
     \/ PollFault /\ UNCHANGED resumeUntil
  /\ poll' = [poll EXCEPT ![p] = IdlePoll]
  /\ UNCHANGED <<clock, createdAt, late, missing, processed, checkpoint>>

\* The invocation ends.
CrashPoll(p) ==
  /\ poll[p].pc # "idle" /\ PollFault
  /\ poll' = [poll EXCEPT ![p] = IdlePoll]
  /\ UNCHANGED <<clock, createdAt, late, missing, processed, checkpoint, resumeUntil>>

PollSteps(p) ==
  FetchReports(p) \/ ProcessReport(p) \/ TurnPage(p) \/ SetCheckpoint(p) \/ SetLastRun(p)

PollNext ==
  \/ \E e \in RelayReport : Arrive(e)
  \/ Second
  \/ \E p \in Poll : PollSteps(p) \/ BeginPoll(p) \/ CutOff(p) \/ FetchFails(p) \/ CrashPoll(p)

\* The cron starts a run again and again, and what has begun goes on.
PollFairness == \A p \in Poll : WF_pollVars(BeginPoll(p)) /\ WF_pollVars(PollSteps(p))
PollSpec == PollInit /\ [][PollNext]_pollVars /\ PollFairness

-----------------------------------------------------------------------------
(* Properties *)

\* The checkpoint never passes a report that has not come to its end: not when
\* a run is saturated and resumed, a report before the newest ones fails, the
\* invocation ends anywhere, an overlapping run writes an older checkpoint, or
\* reports arrive between two pages.  Only a report that the relay got late,
\* or that was missing from an answer cut off, is left behind
\* (report-poller.mjs 449-489, index.mjs 5238-5296).
NothingPassedOver ==
  checkpoint # NoTime =>
    \A e \in Stored \ (late \cup missing) : createdAt[e] < checkpoint => e \in processed

\* Every report is handled, whatever else fails, and even while another one
\* whose target is gone holds the checkpoint for ever and makes the window
\* outgrow the pages of a run: resuming reaches every page.
ReportsCatchUp ==
  \A e \in RelayReport \ (Unavailable \ Refused) :
    e \in Stored ~> e \in processed \cup late \cup missing
=============================================================================
