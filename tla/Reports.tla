------------------------------ MODULE Reports -------------------------------
(***************************************************************************)
(* The reports about one video (src/reports.mjs, moderation/report-review  *)
(* and their callers): every reporter has one row of user_reports, whose   *)
(* source says through which path it came; a report is recorded, counted   *)
(* and turned into a decision in three statements, beside other reports,   *)
(* the scan of the video, and moderators.                                  *)
(*                                                                         *)
(* The row of moderation_results is kept here by its action, whether a     *)
(* moderator has reviewed it, and uploaded_by; Moderation.tla has the rest *)
(* of its life.                                                            *)
(***************************************************************************)
EXTENDS Naturals, FiniteSets

CONSTANTS
  Report,       \* invocations of recordReportForReview
  Reporter,     \* public keys
  ReporterOf,   \* [Report -> Reporter]
  SourceOf,     \* [Report -> the path a report comes in through]
  NsfwReport,   \* the reports of an NSFW type
  ScanMessage,  \* messages of the queue about the video
  Uploader,     \* the public key that uploaded the video
  Nobody,       \* no key, no row
  MaxReportFaults \* bound on failing statements (model checking)

NON_ESCALATING_SOURCES == {"dm-report", "relay-report-untrusted", "self-report"}
SUPERSEDABLE_SOURCES == {"dm-report", "relay-report-untrusted"}
\* The paths that name the uploader: relay reports carry the signed target.
RelaySources == {"relay-report", "relay-report-untrusted"}
ReportPaths == {"user-report", "dm-report"} \cup RelaySources
ReportSources == ReportPaths \cup {"self-report"}
ReportActions == {"SAFE", "REVIEW", "QUARANTINE", "AGE_RESTRICTED", "PERMANENT_BAN"}

ASSUME ReportsAssumption ==
  /\ ReporterOf \in [Report -> Reporter] /\ SourceOf \in [Report -> ReportPaths]
  /\ NsfwReport \subseteq Report /\ Uploader \in Reporter /\ Nobody \notin Reporter
  /\ MaxReportFaults \in Nat

ASSUME ReportersAssumption == IsFiniteSet(Reporter)

VARIABLES
  userReports, \* user_reports: the source of each reporter's row, or Nobody
  reviewRow,   \* moderation_results, or Nobody
  filing,      \* each recordReportForReview: its pc, self (the reporter is the
               \* uploader), the action it will write, and backers (history: the
               \* reporters that should count when a report restricts)
  scanning,    \* the state of each message of the queue
  strong,      \* history: reporters recorded through an escalating source
  reconciled,  \* history: reporters whose row was made a self-report
  standing,    \* history: reports whose review the present row has taken in
  reportFaults \* failed statements so far

reportsVars == <<userReports, reviewRow, filing, scanning, strong, reconciled, standing, reportFaults>>

ReviewRow == [action : ReportActions, reviewed : BOOLEAN, uploader : {Uploader, Nobody}]
ASSUME NobodyAssumption ==
  Nobody \notin ReviewRow /\ Nobody \notin ReportSources /\ Nobody \notin ReportActions

\* A video has no row, or one of a scan of former times, which let most of them
\* through and did not always know the uploader.
ReportsInit ==
  /\ userReports = [k \in Reporter |-> Nobody]
  /\ reviewRow \in {Nobody, [action |-> "SAFE", reviewed |-> FALSE, uploader |-> Nobody]}
  /\ filing = [r \in Report |-> [pc |-> "start", self |-> FALSE, action |-> Nobody,
                                backers |-> {}]]
  /\ scanning = [m \in ScanMessage |-> "queued"]
  /\ strong = {} /\ reconciled = {} /\ standing = {}
  /\ reportFaults = 0

ReportFault == reportFaults < MaxReportFaults /\ reportFaults' = reportFaults + 1

-----------------------------------------------------------------------------
(* recordReportForReview *)

\* The uploader: the author of the signed target, or what the row says; a
\* lookup that fails names nobody.
KnownUploader(r) ==
  IF SourceOf[r] \in RelaySources THEN Uploader
  ELSE IF reviewRow = Nobody THEN Nobody ELSE reviewRow.uploader

LookupUploader(r) ==
  /\ filing[r].pc = "start"
  /\ \/ filing' = [filing EXCEPT ![r].pc = "add",
                                 ![r].self = KnownUploader(r) = ReporterOf[r]]
        /\ UNCHANGED reportFaults
     \/ SourceOf[r] \notin RelaySources /\ ReportFault
        /\ filing' = [filing EXCEPT ![r].pc = "add", ![r].self = FALSE]
  /\ UNCHANGED <<userReports, reviewRow, scanning, strong, reconciled, standing>>

EffectiveSource(r) == IF filing[r].self THEN "self-report" ELSE SourceOf[r]

\* Mutant: a self-report may be superseded like the other weak sources.
SupersedesAll(old, new) ==
  IF old \in NON_ESCALATING_SOURCES \cup {Nobody} THEN new ELSE old

\* The source of a row after the upsert: the first one stays, unless a source
\* that escalates comes upon one that may be superseded.
SourceAfter(old, new) ==
  IF old = Nobody \/ (old \in SUPERSEDABLE_SOURCES /\ new \notin NON_ESCALATING_SOURCES)
  THEN new ELSE old

AddReport(r) ==
  /\ filing[r].pc = "add"
  /\ LET k == ReporterOf[r]
         source == SourceAfter(userReports[k], EffectiveSource(r))
     IN /\ userReports' = [userReports EXCEPT ![k] = source]
        /\ strong' = IF EffectiveSource(r) \in NON_ESCALATING_SOURCES \/ k \in reconciled
                     THEN strong ELSE strong \cup {k}
  /\ filing' = [filing EXCEPT ![r].pc = "count"]
  /\ UNCHANGED <<reviewRow, scanning, reconciled, standing, reportFaults>>

EscalationReporters ==
  {k \in Reporter : userReports[k] \notin NON_ESCALATING_SOURCES \cup {Nobody}}

\* Only the HTTP endpoint may restrict, and only with a second reporter.
ReportAction(r, reporters) ==
  IF /\ SourceOf[r] = "user-report" /\ ~filing[r].self
     /\ r \in NsfwReport /\ Cardinality(reporters) >= 2
  THEN "AGE_RESTRICTED" ELSE "REVIEW"

CountReporters(r) ==
  /\ filing[r].pc = "count"
  /\ LET action == ReportAction(r, EscalationReporters)
     IN filing' = [filing EXCEPT
          ![r].pc = "write", ![r].action = action,
          ![r].backers = IF action = "AGE_RESTRICTED" THEN strong ELSE {}]
  /\ UNCHANGED <<userReports, reviewRow, scanning, strong, reconciled, standing, reportFaults>>

\* Mutant: the latest review wins.
LatestActionWins(old, a) == IF old \in {"SAFE", "REVIEW", "AGE_RESTRICTED"} THEN a ELSE old

\* The CASE of the upsert into moderation_results.
ActionAfter(old, a) ==
  IF a = "AGE_RESTRICTED" /\ old \in {"SAFE", "REVIEW"} THEN a
  ELSE IF a = "REVIEW" /\ old = "SAFE" THEN a ELSE old

VerifiedUploader(r) == IF SourceOf[r] \in RelaySources THEN Uploader ELSE Nobody

ReviewAfter(r) ==
  IF reviewRow = Nobody
  THEN [action |-> filing[r].action, reviewed |-> FALSE, uploader |-> VerifiedUploader(r)]
  ELSE [reviewRow EXCEPT
          !.action = IF reviewRow.reviewed THEN @ ELSE ActionAfter(@, filing[r].action),
          !.uploader = IF @ = Nobody THEN VerifiedUploader(r) ELSE @]

\* A write that fails is reported as such; the report itself has succeeded.
WriteReview(r) ==
  /\ filing[r].pc = "write"
  /\ filing' = [filing EXCEPT ![r].pc = "done"]
  /\ \/ reviewRow' = ReviewAfter(r) /\ standing' = standing \cup {r}
        /\ UNCHANGED reportFaults
     \/ ReportFault /\ UNCHANGED <<reviewRow, standing>>
  /\ UNCHANGED <<userReports, scanning, strong, reconciled>>

\* The first two statements throw, or the invocation ends: the caller has no
\* answer, whether or not the row is there, and may send the report again.
FailFiling(r) ==
  /\ filing[r].pc \in {"add", "count", "write"} /\ ReportFault
  /\ filing' = [filing EXCEPT ![r].pc = "failed", ![r].action = Nobody,
                              ![r].backers = {}]
  /\ UNCHANGED <<userReports, reviewRow, scanning, strong, reconciled, standing>>

RepeatFiling(r) ==
  /\ filing[r].pc = "failed"
  /\ filing' = [filing EXCEPT ![r].pc = "start", ![r].self = FALSE]
  /\ UNCHANGED <<userReports, reviewRow, scanning, strong, reconciled, standing, reportFaults>>

-----------------------------------------------------------------------------
(* The scan of the video, and moderators *)

\* A video that has a row is not scanned again, unless the message forces it.
CheckExisting(m) ==
  /\ scanning[m] = "queued"
  /\ \/ scanning' = [scanning EXCEPT ![m] = "scan"]
     \/ reviewRow # Nobody /\ scanning' = [scanning EXCEPT ![m] = "reconcile"]
  /\ UNCHANGED <<userReports, reviewRow, filing, strong, reconciled, standing, reportFaults>>

\* moderateVideo asks for a review, which uploader enforcement may turn into
\* more.  INSERT OR REPLACE: what the row has become during the scan is lost.
StoreScan(m) ==
  /\ scanning[m] = "scan"
  /\ \E a \in {"REVIEW", "QUARANTINE", "PERMANENT_BAN"} :
       reviewRow' = [action |-> a, reviewed |-> FALSE, uploader |-> Uploader]
  /\ scanning' = [scanning EXCEPT ![m] = "reconcile"] /\ standing' = {}
  /\ UNCHANGED <<userReports, filing, strong, reconciled, reportFaults>>

\* reconcileSelfReportsForUploader; a failure is logged and forgotten.
ReconcileSelfReports(m) ==
  /\ scanning[m] = "reconcile"
  /\ scanning' = [scanning EXCEPT ![m] = "acked"]
  /\ \/ /\ userReports' = [userReports EXCEPT ![Uploader] =
                             IF @ = Nobody THEN @ ELSE "self-report"]
        /\ reconciled' = reconciled \cup {k \in {Uploader} : userReports[k] # Nobody}
        /\ strong' = strong \ {Uploader}
        /\ UNCHANGED reportFaults
     \/ ReportFault /\ UNCHANGED <<userReports, strong, reconciled>>
  /\ UNCHANGED <<reviewRow, filing, standing>>

\* A moderator decides; see Moderation.tla.
ReviewByModerator ==
  /\ reviewRow # Nobody /\ ~reviewRow.reviewed
  /\ \E a \in ReportActions : reviewRow' = [reviewRow EXCEPT !.action = a, !.reviewed = TRUE]
  /\ UNCHANGED <<userReports, filing, scanning, strong, reconciled, standing, reportFaults>>

ReportsNext ==
  \/ \E r \in Report : \/ LookupUploader(r) \/ AddReport(r) \/ CountReporters(r)
                       \/ WriteReview(r) \/ FailFiling(r) \/ RepeatFiling(r)
  \/ \E m \in ScanMessage : CheckExisting(m) \/ StoreScan(m) \/ ReconcileSelfReports(m)
  \/ ReviewByModerator

ReportsSpec == ReportsInit /\ [][ReportsNext]_reportsVars
-----------------------------------------------------------------------------
(* Properties *)

\* A video is restricted without a moderator only by a report of the HTTP
\* endpoint, and only when two reporters back it: each recorded through a path
\* that may escalate, and not found to be the uploader.  However the weaker
\* paths, the upgrades of a source, stale looks at the uploader, repeated
\* reports and the reconciling of self-reports come in between the statements,
\* no one else counts (reports.mjs 60-78, 126-131, 168-209).
AutomaticMeansTwo ==
  \A r \in Report : filing[r].action = "AGE_RESTRICTED" =>
    SourceOf[r] = "user-report" /\ Cardinality(filing[r].backers) >= 2

\* Two HTTP reports of an NSFW type by two viewers restrict the video, if both
\* wrote their review into the same row and no moderator decides, in whatever
\* order their statements ran: upsert and count are two statements and each
\* may miss the other's row, never both (reports.mjs 178-208,
\* report-review.mjs 80-104).
TwoReportersRestrict ==
  \A r, s \in standing \cap NsfwReport :
    /\ SourceOf[r] = "user-report" /\ SourceOf[s] = "user-report"
    /\ ReporterOf[r] # ReporterOf[s] /\ Uploader \notin {ReporterOf[r], ReporterOf[s]}
    /\ reviewRow # Nobody /\ ~reviewRow.reviewed
    => reviewRow.action \notin {"SAFE", "REVIEW"}
=============================================================================
