------------------------------ MODULE DmInbox -------------------------------
(***************************************************************************)
(* The inbox of the moderation account (syncInbox of nostr/dm-reader.mjs   *)
(* and nostr/dm-store.mjs): gift wraps are read from the relay since two   *)
(* days before the last complete read, and each is looked up, recorded as  *)
(* a report when it is one of content, and logged.                         *)
(*                                                                         *)
(* The cron and the Refresh of a moderator may overlap and may end at any  *)
(* await.  Private reports have a module of their own (PrivateReports),    *)
(* the recording of a report too (Reports), and so has the reading of the  *)
(* relay (GiftWrapFetch).  Time is counted in days.                        *)
(***************************************************************************)
EXTENDS Integers, FiniteSets

CONSTANTS
  Sync,         \* invocations of syncInbox that can run at the same time
  Wrap,         \* kind 1059 events for the moderation account
  ContentReport, \* those that report a video
  FetchLimit,   \* the limit of the filter
  Drift,        \* how far back a client may date a wrap (NIP-17: two days)
  NoSync,       \* no last sync
  MaxDay,       \* bound of the clock (model checking)
  MaxInboxFaults \* bound on faults (model checking)

TWO_DAYS == 2
FirstRunLookback == 7

ASSUME InboxAssumption ==
  /\ ContentReport \subseteq Wrap /\ FetchLimit \in Nat \ {0} /\ NoSync \notin Int
  /\ Drift \in 0..TWO_DAYS /\ MaxDay \in Nat /\ MaxInboxFaults \in Nat

VARIABLES
  day,       \* the clock
  wrapAt,    \* external: created_at of the wraps on the relay, or NoSync
  dmLog,     \* dm_log: how many rows each wrap has
  reported,  \* the reports that have a user_reports and a moderation_results row
  lastSync,  \* KV dm-inbox:last-sync
  sync,      \* the state of each invocation
  excused,   \* history: wraps of a truncated or failed processing, that arrived
             \* between the read and the end of a sync, or that aged out before
             \* any sync was complete
  inboxFaults

inboxVars == <<day, wrapAt, dmLog, reported, lastSync, sync, excused, inboxFaults>>

OnRelay == {w \in Wrap : wrapAt[w] # NoSync}
IdleSync == [pc |-> "idle", todo |-> {}, wrap |-> NoSync, complete |-> FALSE, logged |-> FALSE]
Busy == {s \in Sync : sync[s].pc # "idle"}
At(s, pc) == sync[s].pc = pc
Go(s, pc) == sync' = [sync EXCEPT ![s].pc = pc]

InboxInit ==
  /\ day = 0
  /\ wrapAt = [w \in Wrap |-> NoSync]
  /\ dmLog = [w \in Wrap |-> 0]
  /\ reported = {}
  /\ lastSync = NoSync
  /\ sync = [s \in Sync |-> IdleSync]
  /\ excused = {}
  /\ inboxFaults = 0

InboxFault == inboxFaults < MaxInboxFaults /\ inboxFaults' = inboxFaults + 1

\* External: somebody writes to the account.
Write(w) ==
  /\ w \notin OnRelay
  /\ \E t \in (day - Drift)..day : wrapAt' = [wrapAt EXCEPT ![w] = t]
  /\ excused' = IF Busy # {} THEN excused \cup {w} ELSE excused
  /\ UNCHANGED <<day, dmLog, reported, lastSync, sync, inboxFaults>>

\* As long as no sync was complete the window moves with the clock.
Day ==
  /\ day < MaxDay /\ day' = day + 1
  /\ excused' = IF lastSync # NoSync THEN excused
                 ELSE excused \cup {w \in OnRelay : wrapAt[w] < day' - FirstRunLookback}
  /\ UNCHANGED <<wrapAt, dmLog, reported, lastSync, sync, inboxFaults>>

-----------------------------------------------------------------------------
(* syncInbox *)

Since == IF lastSync = NoSync THEN day - FirstRunLookback ELSE lastSync - TWO_DAYS
InWindow == {w \in OnRelay : wrapAt[w] >= Since}

\* The newest ones up to the limit, and the relay says that these are all.
FetchComplete(s) ==
  /\ At(s, "idle")
  /\ \E got \in SUBSET InWindow :
       /\ Cardinality(got) <= FetchLimit
       /\ got # InWindow => Cardinality(got) = FetchLimit
       /\ \A w \in got, x \in InWindow \ got : wrapAt[w] >= wrapAt[x]
       /\ sync' = [sync EXCEPT ![s] = [IdleSync EXCEPT !.pc = "next", !.todo = got,
                                                       !.complete = TRUE]]
       /\ excused' = excused \cup (InWindow \ got)
  /\ UNCHANGED <<day, wrapAt, dmLog, reported, lastSync, inboxFaults>>

\* The time is up or the socket closes: some have come.
FetchPartial(s) ==
  /\ At(s, "idle") /\ InboxFault
  /\ \E got \in SUBSET InWindow :
       sync' = [sync EXCEPT ![s] = [IdleSync EXCEPT !.pc = "next", !.todo = got]]
  /\ UNCHANGED <<day, wrapAt, dmLog, reported, lastSync, excused>>

\* processRumor: is the wrap in dm_log?
Look(s) ==
  /\ At(s, "next")
  /\ \E w \in sync[s].todo :
       sync' = [sync EXCEPT ![s].pc = IF w \in ContentReport THEN "record" ELSE "find",
                            ![s].todo = @ \ {w}, ![s].wrap = w,
                            ![s].logged = dmLog[w] > 0]
  /\ UNCHANGED <<day, wrapAt, dmLog, reported, lastSync, excused, inboxFaults>>

\* A report that has both its rows and was logged is left alone; a failure to
\* record it is logged, and the message is stored all the same.
RecordContent(s) ==
  /\ At(s, "record") /\ Go(s, "find")
  /\ \/ reported' = reported \cup {sync[s].wrap} /\ UNCHANGED <<excused, inboxFaults>>
     \/ /\ ~(sync[s].logged /\ sync[s].wrap \in reported) /\ InboxFault
        /\ excused' = excused \cup {sync[s].wrap} /\ UNCHANGED reported
  /\ UNCHANGED <<day, wrapAt, dmLog, lastSync>>

\* What was in dm_log at first sight is skipped; logDm looks again ...
FindDm(s) ==
  /\ At(s, "find")
  /\ Go(s, IF sync[s].logged \/ dmLog[sync[s].wrap] > 0 THEN "next" ELSE "insert")
  /\ UNCHANGED <<day, wrapAt, dmLog, reported, lastSync, excused, inboxFaults>>

\* ... and inserts: two invocations that overlap may both do.
InsertDm(s) ==
  /\ At(s, "insert") /\ Go(s, "next")
  /\ dmLog' = [dmLog EXCEPT ![sync[s].wrap] = @ + 1]
  /\ UNCHANGED <<day, wrapAt, reported, lastSync, excused, inboxFaults>>

\* A lookup or the insert throws: an error is counted and the next wrap is up.
ProcessFails(s) ==
  /\ sync[s].pc \in {"record", "find", "insert"} /\ InboxFault /\ Go(s, "next")
  /\ excused' = excused \cup {sync[s].wrap}
  /\ UNCHANGED <<day, wrapAt, dmLog, reported, lastSync>>

\* Mutant: the checkpoint moves whether the read was complete or not.
EndSyncAlways(s) ==
  /\ At(s, "next") /\ sync[s].todo = {}
  /\ sync' = [sync EXCEPT ![s] = IdleSync]
  /\ lastSync' = day
  /\ UNCHANGED <<day, wrapAt, dmLog, reported, excused, inboxFaults>>

\* The checkpoint becomes the clock, after a complete read only.
EndSync(s) ==
  /\ At(s, "next") /\ sync[s].todo = {}
  /\ sync' = [sync EXCEPT ![s] = IdleSync]
  /\ lastSync' = IF sync[s].complete THEN day ELSE lastSync
  /\ UNCHANGED <<day, wrapAt, dmLog, reported, excused, inboxFaults>>

CrashSync(s) ==
  /\ s \in Busy /\ InboxFault
  /\ sync' = [sync EXCEPT ![s] = IdleSync]
  /\ UNCHANGED <<day, wrapAt, dmLog, reported, lastSync, excused>>

InboxSteps(s) == Look(s) \/ RecordContent(s) \/ FindDm(s) \/ InsertDm(s) \/ EndSync(s)

InboxNext ==
  \/ \E w \in Wrap : Write(w)
  \/ Day
  \/ \E s \in Sync : \/ FetchComplete(s) \/ FetchPartial(s) \/ InboxSteps(s)
                      \/ ProcessFails(s) \/ CrashSync(s)

InboxSpec == InboxInit /\ [][InboxNext]_inboxVars

-----------------------------------------------------------------------------
(* Properties *)

Handled(w) == dmLog[w] > 0 /\ (w \in ContentReport => w \in reported)

\* A wrap that has not been both logged and, as a report, recorded is still
\* inside the window that the next sync reads, however far back it was dated:
\* reads that were cut short, invocations that ended and overlapping ones
\* never move the checkpoint past it (dm-reader.mjs 177-187, 236-252).  Excused
\* are the wraps beyond the limit of an answer that called itself complete,
\* those whose processing failed, those that arrived during a sync, whose end and
\* not whose read becomes the checkpoint, and those that were older than a week
\* before a first sync was complete.
NoMessageSlips ==
  \A w \in OnRelay \ excused :
    Handled(w) \/ wrapAt[w] >= Since
=============================================================================
