--------------------------- MODULE Inbound_proofs ---------------------------
(***************************************************************************)
(* Theorems about what comes in: the reports and their review, the poller  *)
(* that fetches them, the inbox of direct messages and the handshake that  *)
(* its wraps are fetched with. Each part is about one module, for every    *)
(* value of its constants, and rests on the assumptions of that module     *)
(* alone.                                                                  *)
(***************************************************************************)
EXTENDS Reports, ReportPoller, DmInbox, GiftWrapFetch,
        FiniteSetTheorems, WellFoundedInduction, TLAPS

-----------------------------------------------------------------------------
(* Reports. A row that no moderator has written restricts a video only     *)
(* while two people who may be heard have reported it: what a filing has   *)
(* counted is never more than what is there, and what has been reported is *)
(* not taken back.                                                         *)

Filing == [pc : {"start", "add", "count", "write", "done", "failed"}, self : BOOLEAN,
           action : {Nobody, "AGE_RESTRICTED", "REVIEW"}, backers : SUBSET Reporter]

ReportsTyped ==
  /\ userReports \in [Reporter -> ReportSources \cup {Nobody}]
  /\ reviewRow \in ReviewRow \cup {Nobody}
  /\ filing \in [Report -> Filing]
  /\ \A r \in Report : filing[r].pc \in {"write", "done"} => filing[r].action # Nobody
  /\ strong \subseteq Reporter

\* Whose row says self-report is the uploader, and stays so; who counts as a
\* reporter that escalates has been recorded as one.
ReportersKnown ==
  /\ \A k \in reconciled : userReports[k] = "self-report"
  /\ \A k \in Reporter : userReports[k] = "self-report" => k = Uploader
  /\ EscalationReporters \subseteq strong
  /\ \A r \in Report : filing[r].self => ReporterOf[r] = Uploader

RestrictsForTwo ==
  \A r \in Report : filing[r].action = "AGE_RESTRICTED" =>
    /\ SourceOf[r] = "user-report"
    /\ IsFiniteSet(filing[r].backers) /\ Cardinality(filing[r].backers) >= 2

\* A viewer's report over HTTP: neither the uploader's nor a message's.
Viewer(r) == SourceOf[r] = "user-report" /\ ReporterOf[r] # Uploader
Counted(r) == filing[r].pc \in {"write", "done"}

\* A viewer counts once the report is added; of two that have counted, one has
\* seen the other.
ViewersCount ==
  \A r \in Report : Viewer(r) /\ (filing[r].pc = "count" \/ Counted(r)) =>
    ReporterOf[r] \in EscalationReporters
OneSawTheOther ==
  \A r, s \in NsfwReport :
    /\ Viewer(r) /\ Viewer(s) /\ ReporterOf[r] # ReporterOf[s]
    /\ Counted(r) /\ Counted(s)
    => "AGE_RESTRICTED" \in {filing[r].action, filing[s].action}

\* What a review has restricted stays so until a moderator or a scan decides.
RestrictionStands ==
  \A r \in standing :
    /\ r \in Report /\ filing[r].pc = "done" /\ reviewRow # Nobody
    /\ filing[r].action = "AGE_RESTRICTED" /\ ~reviewRow.reviewed =>
         reviewRow.action \notin {"SAFE", "REVIEW"}

ReportsInv ==
  /\ ReportsTyped /\ ReportersKnown /\ RestrictsForTwo
  /\ ViewersCount /\ OneSawTheOther /\ RestrictionStands
-----------------------------------------------------------------------------
LEMMA TwoDistinct == ASSUME NEW x, NEW y, x # y PROVE Cardinality({x} \cup {y}) = 2
<1> DEFINE one == {x}
<1>1. IsFiniteSet(one) /\ Cardinality(one) = 1 /\ y \notin one
  BY FS_Singleton
<1> HIDE DEF one
<1>2. Cardinality(one \cup {y}) = Cardinality(one) + 1
  BY <1>1, FS_AddElement
<1> QED
  BY <1>1, <1>2 DEF one

USE ReportsAssumption, NobodyAssumption

FilingPcs == {"start", "add", "count", "write", "done", "failed"}
FilingActions == {Nobody, "AGE_RESTRICTED", "REVIEW"}

LEMMA FilingPc ==
  ASSUME NEW f \in Filing, NEW p \in FilingPcs
  PROVE  LET g == [f EXCEPT !.pc = p]
         IN g \in Filing /\ g.pc = p /\ g.self = f.self /\ g.action = f.action /\ g.backers = f.backers
  BY DEF Filing, FilingPcs

LEMMA FilingSelf ==
  ASSUME NEW f \in Filing, NEW b \in BOOLEAN
  PROVE  LET g == [f EXCEPT !.self = b]
         IN g \in Filing /\ g.pc = f.pc /\ g.self = b /\ g.action = f.action /\ g.backers = f.backers
  BY DEF Filing

LEMMA FilingAction ==
  ASSUME NEW f \in Filing, NEW a \in FilingActions
  PROVE  LET g == [f EXCEPT !.action = a]
         IN g \in Filing /\ g.pc = f.pc /\ g.self = f.self /\ g.action = a /\ g.backers = f.backers
  BY DEF Filing, FilingActions

LEMMA FilingBackers ==
  ASSUME NEW f \in Filing, NEW b \in SUBSET Reporter
  PROVE  LET g == [f EXCEPT !.backers = b]
         IN g \in Filing /\ g.pc = f.pc /\ g.self = f.self /\ g.action = f.action /\ g.backers = b
  BY DEF Filing

\* Two ways in which a filing goes on.
Started(f, p, b) == [f EXCEPT !.pc = p, !.self = b]
Decided(f, p, a, b) == [f EXCEPT !.pc = p, !.action = a, !.backers = b]

LEMMA FilingStarted ==
  ASSUME NEW f \in Filing, NEW p \in FilingPcs, NEW b \in BOOLEAN
  PROVE  LET g == Started(f, p, b)
         IN g \in Filing /\ g.pc = p /\ g.self = b /\ g.action = f.action /\ g.backers = f.backers
<1> DEFINE h == [f EXCEPT !.pc = p]
<1>1. h \in Filing /\ h.pc = p /\ h.action = f.action /\ h.backers = f.backers
  BY FilingPc
<1>2. Started(f, p, b) = [h EXCEPT !.self = b]
  BY DEF Started
<1> HIDE DEF h
<1> QED
  BY <1>1, <1>2, FilingSelf

LEMMA FilingDecided ==
  ASSUME NEW f \in Filing, NEW p \in FilingPcs, NEW a \in FilingActions, NEW b \in SUBSET Reporter
  PROVE  LET g == Decided(f, p, a, b)
         IN g \in Filing /\ g.pc = p /\ g.self = f.self /\ g.action = a /\ g.backers = b
<1> DEFINE h == [f EXCEPT !.pc = p]
           i == [h EXCEPT !.action = a]
<1>1. h \in Filing /\ h.pc = p /\ h.self = f.self
  BY FilingPc
<1>2. Decided(f, p, a, b) = [i EXCEPT !.backers = b]
  BY DEF Decided
<1> HIDE DEF h
<1>3. i \in Filing /\ i.pc = p /\ i.self = f.self /\ i.action = a
  BY <1>1, FilingAction
<1> HIDE DEF i
<1> QED
  BY <1>2, <1>3, FilingBackers
-----------------------------------------------------------------------------
LEMMA ReportsInitInv == ReportsInit => ReportsInv
<1> SUFFICES ASSUME ReportsInit PROVE ReportsInv
  OBVIOUS
<1>1. ReportsTyped
  <2> [pc |-> "start", self |-> FALSE, action |-> Nobody, backers |-> {}] \in Filing
    BY DEF Filing
  <2> [action |-> "SAFE", reviewed |-> FALSE, uploader |-> Nobody] \in ReviewRow
    BY DEF ReviewRow, ReportActions
  <2> QED
    BY DEF ReportsInit, ReportsTyped
<1>2. ReportersKnown
  BY DEF ReportsInit, ReportersKnown, EscalationReporters, ReportSources
<1> QED
  BY <1>1, <1>2 DEF ReportsInit, ReportsInv, RestrictsForTwo, ViewersCount, OneSawTheOther,
     RestrictionStands, Counted, ReportActions

LEMMA LookupUploaderInv ==
  ASSUME ReportsInv, NEW r \in Report, LookupUploader(r)
  PROVE  ReportsInv'
<1>1. PICK b \in BOOLEAN : /\ filing' = [filing EXCEPT ![r].pc = "add", ![r].self = b]
                           /\ b => KnownUploader(r) = ReporterOf[r]
  BY DEF LookupUploader
<1>2. filing[r] \in Filing /\ filing \in [Report -> Filing]
  BY DEF ReportsInv, ReportsTyped
<1> DEFINE g == Started(filing[r], "add", b)
<1>3. filing' = [filing EXCEPT ![r] = g]
  BY <1>1, <1>2 DEF Started
<1>4. g \in Filing /\ g.pc = "add" /\ g.self = b /\ g.action = filing[r].action
      /\ g.backers = filing[r].backers
  <2>1. CASE b = TRUE
    BY <1>2, <2>1, FilingStarted DEF FilingPcs
  <2>2. CASE b = FALSE
    BY <1>2, <2>2, FilingStarted DEF FilingPcs
  <2> QED
    BY <1>1, <2>1, <2>2
<1> HIDE DEF g
<1>5. b => ReporterOf[r] = Uploader
  BY <1>1 DEF KnownUploader, ReportsInv, ReportsTyped, ReviewRow
<1>6. UNCHANGED <<userReports, reviewRow, scanning, strong, reconciled, standing>> /\ filing[r].pc = "start"
  BY DEF LookupUploader
<1>7. ReportsTyped'
  BY <1>2, <1>3, <1>4, <1>6 DEF ReportsInv, ReportsTyped
<1>8. ReportersKnown'
  BY <1>2, <1>3, <1>4, <1>5, <1>6 DEF ReportsInv, ReportersKnown, EscalationReporters
<1>9. RestrictsForTwo'
  BY <1>2, <1>3, <1>4, <1>6 DEF ReportsInv, RestrictsForTwo
<1>10. ViewersCount' /\ OneSawTheOther'
  BY <1>2, <1>3, <1>4, <1>6
  DEF ReportsInv, ViewersCount, OneSawTheOther, Counted, Viewer, EscalationReporters
<1>11. RestrictionStands'
  BY <1>2, <1>3, <1>4, <1>6 DEF ReportsInv, RestrictionStands
<1> QED
  BY <1>7, <1>8, <1>9, <1>10, <1>11 DEF ReportsInv

\* A source that escalates is not lost to another path, but to the uploader's.
LEMMA SourceKept ==
  ASSUME NEW old \in ReportSources \cup {Nobody}, NEW new \in ReportSources
  PROVE  /\ SourceAfter(old, new) \in ReportSources
         /\ SourceAfter(old, new) \in {old, new}
         /\ old \notin NON_ESCALATING_SOURCES \cup {Nobody} => SourceAfter(old, new) = old
         /\ old = "self-report" => SourceAfter(old, new) = old
         /\ SourceAfter(old, new) = "self-report" => "self-report" \in {old, new}
         /\ new = "user-report" /\ old # "self-report" =>
              SourceAfter(old, new) \notin NON_ESCALATING_SOURCES \cup {Nobody}
         /\ SourceAfter(old, new) \notin NON_ESCALATING_SOURCES \cup {Nobody} =>
              \/ old \notin NON_ESCALATING_SOURCES \cup {Nobody}
              \/ new \notin NON_ESCALATING_SOURCES /\ old # "self-report"
  BY DEF SourceAfter, NON_ESCALATING_SOURCES, SUPERSEDABLE_SOURCES, ReportSources, ReportPaths,
     RelaySources

LEMMA AddReportInv ==
  ASSUME ReportsInv, NEW r \in Report, AddReport(r)
  PROVE  ReportsInv'
<1> DEFINE k == ReporterOf[r]
           new == EffectiveSource(r)
           source == SourceAfter(userReports[k], new)
           g == [filing[r] EXCEPT !.pc = "count"]
<1>1. filing[r] \in Filing /\ filing \in [Report -> Filing] /\ filing[r].pc = "add"
  BY DEF ReportsInv, ReportsTyped, AddReport
<1>2. filing' = [filing EXCEPT ![r] = g] /\ g \in Filing /\ g.pc = "count"
      /\ g.self = filing[r].self /\ g.action = filing[r].action /\ g.backers = filing[r].backers
  BY <1>1, FilingPc DEF AddReport, FilingPcs
<1>3. k \in Reporter /\ new \in ReportSources /\ SourceOf[r] \in ReportPaths
      /\ userReports[k] \in ReportSources \cup {Nobody} /\ userReports \in [Reporter -> ReportSources \cup {Nobody}]
  BY DEF ReportsInv, ReportsTyped, EffectiveSource, ReportSources
<1>4. userReports' = [userReports EXCEPT ![k] = source]
  BY DEF AddReport
<1>5. strong' = IF new \in NON_ESCALATING_SOURCES \/ k \in reconciled THEN strong ELSE strong \cup {k}
  BY DEF AddReport
<1>6. UNCHANGED <<reviewRow, reconciled, standing>>
  BY DEF AddReport
<1>7. /\ new = "self-report" => k = Uploader
      /\ Viewer(r) => new = "user-report" /\ k # Uploader
  BY DEF EffectiveSource, ReportsInv, ReportersKnown, Viewer, ReportPaths, RelaySources
<1> HIDE DEF g
<1>8. /\ source \in ReportSources
      /\ userReports[k] \notin NON_ESCALATING_SOURCES \cup {Nobody} => source = userReports[k]
      /\ userReports[k] = "self-report" => source = "self-report"
      /\ source = "self-report" => userReports[k] = "self-report" \/ new = "self-report"
      /\ new = "user-report" /\ userReports[k] # "self-report" =>
           source \notin NON_ESCALATING_SOURCES \cup {Nobody}
      /\ source \notin NON_ESCALATING_SOURCES \cup {Nobody} =>
           \/ userReports[k] \notin NON_ESCALATING_SOURCES \cup {Nobody}
           \/ new \notin NON_ESCALATING_SOURCES /\ userReports[k] # "self-report"
  BY <1>3, SourceKept
<1> HIDE DEF k, new, source
<1>9. ReportsTyped'
  BY <1>1, <1>2, <1>3, <1>4, <1>5, <1>6, <1>8 DEF ReportsInv, ReportsTyped
<1>10. \A j \in Reporter : j \in EscalationReporters' <=>
         IF j = k THEN source \notin NON_ESCALATING_SOURCES \cup {Nobody} ELSE j \in EscalationReporters
  BY <1>3, <1>4 DEF EscalationReporters
<1>11. \A j \in Reporter : j \in EscalationReporters => j \in EscalationReporters'
  BY <1>8, <1>10 DEF EscalationReporters
<1>12. ReportersKnown'
  <2>1. \A j \in reconciled : userReports'[j] = "self-report"
    BY <1>3, <1>4, <1>8 DEF ReportsInv, ReportersKnown
  <2>2. \A j \in Reporter : userReports'[j] = "self-report" => j = Uploader
    BY <1>3, <1>4, <1>7, <1>8 DEF ReportsInv, ReportersKnown
  <2>3. EscalationReporters' \subseteq strong'
    BY <1>5, <1>8, <1>10 DEF ReportsInv, ReportersKnown, EscalationReporters
  <2>4. \A s \in Report : filing'[s].self => ReporterOf[s] = Uploader
    BY <1>1, <1>2 DEF ReportsInv, ReportersKnown
  <2> QED
    BY <1>6, <2>1, <2>2, <2>3, <2>4 DEF ReportersKnown
<1>13. RestrictsForTwo'
  BY <1>1, <1>2 DEF ReportsInv, RestrictsForTwo
<1>14. Viewer(r) => k \in EscalationReporters'
  BY <1>3, <1>7, <1>8, <1>10 DEF ReportsInv, ReportersKnown
<1>15. ViewersCount'
  BY <1>1, <1>2, <1>11, <1>14 DEF ReportsInv, ViewersCount, Counted, Viewer, k
<1>16. OneSawTheOther'
  BY <1>1, <1>2 DEF ReportsInv, OneSawTheOther, Counted, Viewer
<1>17. RestrictionStands'
  BY <1>1, <1>2, <1>6 DEF ReportsInv, RestrictionStands
<1> QED
  BY <1>9, <1>12, <1>13, <1>15, <1>16, <1>17 DEF ReportsInv

LEMMA CountReportersInv ==
  ASSUME ReportsInv, NEW r \in Report, CountReporters(r)
  PROVE  ReportsInv'
<1> DEFINE a == ReportAction(r, EscalationReporters)
           b == IF a = "AGE_RESTRICTED" THEN strong ELSE {}
           g == Decided(filing[r], "write", a, b)
<1>1. filing[r] \in Filing /\ filing \in [Report -> Filing] /\ filing[r].pc = "count"
  BY DEF ReportsInv, ReportsTyped, CountReporters
<1>2. a \in FilingActions /\ b \in SUBSET Reporter /\ a # Nobody
  BY DEF ReportAction, FilingActions, ReportsInv, ReportsTyped, ReportActions
<1>3. g \in Filing /\ g.pc = "write" /\ g.self = filing[r].self /\ g.action = a /\ g.backers = b
  <2> HIDE DEF a, b
  <2> QED
    BY <1>1, <1>2, FilingDecided DEF FilingPcs
<1>4. filing' = [filing EXCEPT ![r] = g]
  BY <1>1 DEF CountReporters, Decided
<1>5. UNCHANGED <<userReports, reviewRow, scanning, strong, reconciled, standing>>
  BY DEF CountReporters
<1>6. IsFiniteSet(strong) /\ IsFiniteSet(EscalationReporters)
      /\ Cardinality(EscalationReporters) <= Cardinality(strong)
      /\ Cardinality(EscalationReporters) \in Nat /\ Cardinality(strong) \in Nat
  <2>1. strong \subseteq Reporter /\ EscalationReporters \subseteq strong
    BY DEF ReportsInv, ReportsTyped, ReportersKnown
  <2> QED
    BY <2>1, ReportersAssumption, FS_Subset, FS_CardinalityType
<1>7. a = "AGE_RESTRICTED" =>
        SourceOf[r] = "user-report" /\ IsFiniteSet(b) /\ Cardinality(b) >= 2
  BY <1>6 DEF ReportAction
<1>8. ASSUME NEW s \in NsfwReport, r \in NsfwReport, Viewer(r), Viewer(s),
             ReporterOf[r] # ReporterOf[s], Counted(s)
      PROVE  a = "AGE_RESTRICTED"
  <2>1. ReporterOf[r] \in EscalationReporters /\ ReporterOf[s] \in EscalationReporters
    BY <1>1, <1>8 DEF ReportsInv, ViewersCount
  <2>2. Cardinality({ReporterOf[r]} \cup {ReporterOf[s]}) = 2
    BY <1>8, TwoDistinct
  <2>3. Cardinality(EscalationReporters) >= 2
    BY <1>6, <2>1, <2>2, FS_Subset, {ReporterOf[r]} \cup {ReporterOf[s]} \subseteq EscalationReporters
  <2>4. ~filing[r].self
    BY <1>8 DEF ReportsInv, ReportersKnown, Viewer
  <2> QED
    BY <1>8, <2>3, <2>4 DEF ReportAction, Viewer
<1> HIDE DEF g, b, a
<1>9. ReportsTyped'
  BY <1>1, <1>2, <1>3, <1>4, <1>5 DEF ReportsInv, ReportsTyped
<1>10. ReportersKnown'
  BY <1>1, <1>3, <1>4, <1>5 DEF ReportsInv, ReportersKnown, EscalationReporters
<1>11. RestrictsForTwo'
  BY <1>1, <1>3, <1>4, <1>7 DEF ReportsInv, RestrictsForTwo
<1>12. ViewersCount'
  BY <1>1, <1>3, <1>4, <1>5 DEF ReportsInv, ViewersCount, Counted, Viewer, EscalationReporters
<1>13. OneSawTheOther'
  <2> SUFFICES ASSUME NEW s \in NsfwReport, NEW t \in NsfwReport, Viewer(s), Viewer(t),
                      ReporterOf[s] # ReporterOf[t], Counted(s)', Counted(t)'
               PROVE  "AGE_RESTRICTED" \in {filing'[s].action, filing'[t].action}
    BY DEF OneSawTheOther, Viewer
  <2>1. s # t /\ s \in Report /\ t \in Report
    OBVIOUS
  <2>2. CASE r = s
    BY <1>1, <1>3, <1>4, <1>8, <2>1, <2>2 DEF Counted
  <2>3. CASE r = t
    BY <1>1, <1>3, <1>4, <1>8, <2>1, <2>3 DEF Counted
  <2>4. CASE r # s /\ r # t
    BY <1>1, <1>4, <2>1, <2>4 DEF Counted, ReportsInv, OneSawTheOther
  <2> QED
    BY <2>2, <2>3, <2>4
<1>14. RestrictionStands'
  BY <1>1, <1>3, <1>4, <1>5 DEF ReportsInv, RestrictionStands
<1> QED
  BY <1>9, <1>10, <1>11, <1>12, <1>13, <1>14 DEF ReportsInv

\* A review restricts a row that nobody has restricted, and keeps any other.
LEMMA ReviewAfterRow ==
  ASSUME ReportsTyped, NEW r \in Report, filing[r].action \in ReportActions
  PROVE  /\ ReviewAfter(r) \in ReviewRow /\ ReviewAfter(r) # Nobody
         /\ filing[r].action = "AGE_RESTRICTED" /\ ~ReviewAfter(r).reviewed =>
              ReviewAfter(r).action \notin {"SAFE", "REVIEW"}
         /\ reviewRow # Nobody /\ (~reviewRow.reviewed => reviewRow.action \notin {"SAFE", "REVIEW"})
            /\ ~ReviewAfter(r).reviewed => ReviewAfter(r).action \notin {"SAFE", "REVIEW"}
<1>1. VerifiedUploader(r) \in {Uploader, Nobody}
  BY DEF VerifiedUploader
<1>2. CASE reviewRow = Nobody
  <2>1. ReviewAfter(r) = [action |-> filing[r].action, reviewed |-> FALSE,
                          uploader |-> VerifiedUploader(r)]
    BY <1>2 DEF ReviewAfter
  <2>2. ReviewAfter(r) \in ReviewRow
    BY <1>1, <2>1 DEF ReviewRow
  <2>3. ReviewAfter(r) # Nobody
    BY <2>2
  <2> QED
    BY <1>2, <2>1, <2>2, <2>3
<1>3. CASE reviewRow # Nobody
  <2> DEFINE a == IF reviewRow.reviewed THEN reviewRow.action
                  ELSE ActionAfter(reviewRow.action, filing[r].action)
             u == IF reviewRow.uploader = Nobody THEN VerifiedUploader(r) ELSE reviewRow.uploader
             q == [reviewRow EXCEPT !.action = a]
  <2>1. reviewRow \in ReviewRow
    BY <1>3 DEF ReportsTyped
  <2>2. ReviewAfter(r) = [q EXCEPT !.uploader = u]
    BY <1>3, <2>1 DEF ReviewAfter, ReviewRow
  <2>3. a \in ReportActions /\ u \in {Uploader, Nobody}
    BY <1>1, <2>1 DEF ActionAfter, ReviewRow
  <2>4. q \in ReviewRow /\ q.action = a /\ q.reviewed = reviewRow.reviewed
    BY <2>1, <2>3 DEF ReviewRow
  <2>5. /\ filing[r].action = "AGE_RESTRICTED" /\ ~reviewRow.reviewed => a \notin {"SAFE", "REVIEW"}
        /\ ~reviewRow.reviewed /\ reviewRow.action \notin {"SAFE", "REVIEW"} => a \notin {"SAFE", "REVIEW"}
    BY DEF ActionAfter
  <2> HIDE DEF q, u, a
  <2>6. ReviewAfter(r) \in ReviewRow /\ ReviewAfter(r).action = a
        /\ ReviewAfter(r).reviewed = reviewRow.reviewed
    BY <2>2, <2>3, <2>4 DEF ReviewRow
  <2>7. ReviewAfter(r) # Nobody
    BY <2>6
  <2> QED
    BY <2>5, <2>6, <2>7
<1> QED
  BY <1>2, <1>3

LEMMA WriteReviewInv ==
  ASSUME ReportsInv, NEW r \in Report, WriteReview(r)
  PROVE  ReportsInv'
<1> DEFINE g == [filing[r] EXCEPT !.pc = "done"]
<1>1. filing[r] \in Filing /\ filing \in [Report -> Filing] /\ filing[r].pc = "write"
      /\ filing[r].action # Nobody
  BY DEF ReportsInv, ReportsTyped, WriteReview
<1>9. filing[r].action \in ReportActions
  BY <1>1 DEF Filing, ReportActions
<1>2. filing' = [filing EXCEPT ![r] = g] /\ g \in Filing /\ g.pc = "done"
      /\ g.self = filing[r].self /\ g.action = filing[r].action /\ g.backers = filing[r].backers
  BY <1>1, FilingPc DEF WriteReview, FilingPcs
<1> HIDE DEF g
<1>3. UNCHANGED <<userReports, strong, reconciled>>
  BY DEF WriteReview
<1>4. \/ reviewRow' = ReviewAfter(r) /\ standing' = standing \cup {r}
      \/ UNCHANGED <<reviewRow, standing>>
  BY DEF WriteReview
<1>5. ReportsTyped'
  <2>1. reviewRow' \in ReviewRow \cup {Nobody}
    BY <1>4, <1>9, ReviewAfterRow DEF ReportsInv, ReportsTyped
  <2> QED
    BY <1>1, <1>2, <1>3, <2>1 DEF ReportsInv, ReportsTyped
<1>6. ReportersKnown' /\ RestrictsForTwo'
  BY <1>1, <1>2, <1>3 DEF ReportsInv, ReportersKnown, EscalationReporters, RestrictsForTwo
<1>7. ViewersCount' /\ OneSawTheOther'
  BY <1>1, <1>2, <1>3
  DEF ReportsInv, ViewersCount, OneSawTheOther, Counted, Viewer, EscalationReporters
<1>8. RestrictionStands'
  <2>1. CASE UNCHANGED <<reviewRow, standing>>
    BY <1>1, <1>2, <2>1 DEF ReportsInv, RestrictionStands
  <2>2. CASE reviewRow' = ReviewAfter(r) /\ standing' = standing \cup {r}
    <3> SUFFICES ASSUME NEW s \in standing \cup {r}
                 PROVE  /\ s \in Report /\ filing'[s].pc = "done" /\ reviewRow' # Nobody
                        /\ filing'[s].action = "AGE_RESTRICTED" /\ ~reviewRow'.reviewed =>
                             reviewRow'.action \notin {"SAFE", "REVIEW"}
      BY <2>2 DEF RestrictionStands
    <3>1. CASE s = r
      BY <1>1, <1>2, <1>9, <2>2, <3>1, ReviewAfterRow DEF ReportsInv
    <3>2. CASE s # r
      <4>1. /\ s \in Report /\ filing[s].pc = "done" /\ reviewRow # Nobody
            /\ filing[s].action = "AGE_RESTRICTED" /\ ~reviewRow.reviewed =>
                 reviewRow.action \notin {"SAFE", "REVIEW"}
        BY <3>2 DEF ReportsInv, RestrictionStands
      <4>2. filing'[s] = filing[s]
        BY <1>1, <1>2, <3>2, <4>1
      <4> QED
        BY <1>9, <2>2, <4>1, <4>2, ReviewAfterRow DEF ReportsInv
    <3> QED
      BY <3>1, <3>2
  <2> QED
    BY <1>4, <2>1, <2>2
<1> QED
  BY <1>5, <1>6, <1>7, <1>8 DEF ReportsInv

\* A filing that no longer counts.
LEMMA DroppedInv ==
  ASSUME ReportsInv, NEW r \in Report, NEW g \in Filing, filing' = [filing EXCEPT ![r] = g],
         filing[r].pc # "done", g.pc \in {"start", "failed"}, g.self => filing[r].self,
         g.action = "AGE_RESTRICTED" => g.action = filing[r].action /\ g.backers = filing[r].backers,
         UNCHANGED <<userReports, reviewRow, strong, reconciled, standing>>
  PROVE  ReportsInv'
<1>1. filing \in [Report -> Filing]
  BY DEF ReportsInv, ReportsTyped
<1>2. ReportsTyped' /\ ReportersKnown'
  BY <1>1 DEF ReportsInv, ReportsTyped, ReportersKnown, EscalationReporters
<1>3. RestrictsForTwo'
  BY <1>1 DEF ReportsInv, RestrictsForTwo
<1>4. ViewersCount' /\ OneSawTheOther'
  BY <1>1 DEF ReportsInv, ViewersCount, OneSawTheOther, Counted, Viewer, EscalationReporters
<1>5. RestrictionStands'
  BY <1>1 DEF ReportsInv, RestrictionStands
<1> QED
  BY <1>2, <1>3, <1>4, <1>5 DEF ReportsInv

LEMMA FailFilingInv == ASSUME ReportsInv, NEW r \in Report, FailFiling(r) PROVE ReportsInv'
<1> DEFINE g == Decided(filing[r], "failed", Nobody, {})
<1>1. filing[r] \in Filing /\ filing \in [Report -> Filing] /\ filing[r].pc # "done"
  BY DEF ReportsInv, ReportsTyped, FailFiling
<1>2. filing' = [filing EXCEPT ![r] = g]
  BY <1>1 DEF FailFiling, Decided
<1>3. {} \in SUBSET Reporter /\ Nobody \in FilingActions /\ "failed" \in FilingPcs
  BY DEF FilingActions, FilingPcs
<1>4. g \in Filing /\ g.pc = "failed" /\ g.self = filing[r].self /\ g.action = Nobody
  BY <1>1, <1>3, FilingDecided
<1>5. g.action # "AGE_RESTRICTED"
  BY <1>4 DEF ReportActions
<1> HIDE DEF g
<1>6. UNCHANGED <<userReports, reviewRow, strong, reconciled, standing>>
  BY DEF FailFiling
<1>7. g.self => filing[r].self
  BY <1>4
<1> QED
  BY <1>1, <1>2, <1>4, <1>5, <1>6, <1>7, DroppedInv

LEMMA RepeatFilingInv == ASSUME ReportsInv, NEW r \in Report, RepeatFiling(r) PROVE ReportsInv'
<1> DEFINE g == Started(filing[r], "start", FALSE)
<1>1. filing[r] \in Filing /\ filing \in [Report -> Filing] /\ filing[r].pc = "failed"
  BY DEF ReportsInv, ReportsTyped, RepeatFiling
<1>2. filing' = [filing EXCEPT ![r] = g]
  BY <1>1 DEF RepeatFiling, Started
<1>3. g \in Filing /\ g.pc = "start" /\ ~g.self /\ g.action = filing[r].action
      /\ g.backers = filing[r].backers
  BY <1>1, FilingStarted DEF FilingPcs
<1> HIDE DEF g
<1> QED
  BY <1>1, <1>2, <1>3, DroppedInv DEF RepeatFiling

-----------------------------------------------------------------------------
(* The scan and the moderators.                                            *)

LEMMA CheckExistingInv ==
  ASSUME ReportsInv, NEW m \in ScanMessage, CheckExisting(m) PROVE ReportsInv'
  BY DEF CheckExisting, ReportsInv, ReportsTyped, ReportersKnown, EscalationReporters,
     RestrictsForTwo, ViewersCount, OneSawTheOther, Counted, Viewer, RestrictionStands

LEMMA StoreScanInv ==
  ASSUME ReportsInv, NEW m \in ScanMessage, StoreScan(m) PROVE ReportsInv'
<1>1. reviewRow' \in ReviewRow
  BY DEF StoreScan, ReviewRow, ReportActions
<1> QED
  BY <1>1 DEF StoreScan, ReportsInv, ReportsTyped, ReportersKnown, EscalationReporters,
     RestrictsForTwo, ViewersCount, OneSawTheOther, Counted, Viewer, RestrictionStands

LEMMA ReconcileSelfReportsInv ==
  ASSUME ReportsInv, NEW m \in ScanMessage, ReconcileSelfReports(m) PROVE ReportsInv'
<1>1. UNCHANGED <<reviewRow, filing, standing>>
  BY DEF ReconcileSelfReports
<1>2. RestrictsForTwo' /\ OneSawTheOther' /\ RestrictionStands'
  BY <1>1 DEF ReportsInv, RestrictsForTwo, OneSawTheOther, Counted, Viewer, RestrictionStands
<1>3. CASE UNCHANGED <<userReports, strong, reconciled>>
  BY <1>1, <1>2, <1>3 DEF ReportsInv, ReportsTyped, ReportersKnown, EscalationReporters,
     ViewersCount, Counted, Viewer
<1>4. CASE /\ userReports' = [userReports EXCEPT ![Uploader] = IF @ = Nobody THEN @ ELSE "self-report"]
           /\ reconciled' = reconciled \cup {k \in {Uploader} : userReports[k] # Nobody}
           /\ strong' = strong \ {Uploader}
  <2>1. /\ userReports \in [Reporter -> ReportSources \cup {Nobody}]
        /\ "self-report" \in ReportSources /\ Nobody # "self-report"
    BY DEF ReportsInv, ReportsTyped, ReportSources
  <2>2. ReportsTyped'
    BY <1>1, <1>4, <2>1 DEF ReportsInv, ReportsTyped
  <2>3. \A k \in Reporter : k \in EscalationReporters' <=> k \in EscalationReporters /\ k # Uploader
    BY <1>4, <2>1 DEF EscalationReporters, NON_ESCALATING_SOURCES
  <2>4. ReportersKnown'
    <3>1. \A k \in Reporter : userReports'[k] = "self-report" => k = Uploader
      BY <1>4, <2>1 DEF ReportsInv, ReportersKnown
    <3>2. \A k \in reconciled' : userReports'[k] = "self-report"
      BY <1>4, <2>1 DEF ReportsInv, ReportersKnown
    <3>3. EscalationReporters' \subseteq strong'
      BY <1>4, <2>3 DEF ReportsInv, ReportersKnown, EscalationReporters
    <3> QED
      BY <1>1, <3>1, <3>2, <3>3 DEF ReportsInv, ReportersKnown
  <2>5. ViewersCount'
    BY <1>1, <2>3 DEF ReportsInv, ViewersCount, Counted, Viewer
  <2> QED
    BY <1>2, <2>2, <2>4, <2>5 DEF ReportsInv
<1> QED
  BY <1>3, <1>4 DEF ReconcileSelfReports

LEMMA ReviewByModeratorInv == ASSUME ReportsInv, ReviewByModerator PROVE ReportsInv'
<1>1. PICK a \in ReportActions : reviewRow' = [reviewRow EXCEPT !.action = a, !.reviewed = TRUE]
  BY DEF ReviewByModerator
<1>2. reviewRow \in ReviewRow
  BY DEF ReviewByModerator, ReportsInv, ReportsTyped
<1> DEFINE q == [reviewRow EXCEPT !.action = a]
<1>3. q \in ReviewRow
  BY <1>2 DEF ReviewRow
<1>4. reviewRow' = [q EXCEPT !.reviewed = TRUE]
  BY <1>1
<1> HIDE DEF q
<1>5. reviewRow' \in ReviewRow /\ reviewRow'.reviewed
  BY <1>3, <1>4 DEF ReviewRow
<1>6. reviewRow' # Nobody
  BY <1>5
<1>7. UNCHANGED <<userReports, filing, strong, reconciled, standing>>
  BY DEF ReviewByModerator
<1> QED
  BY <1>5, <1>6, <1>7 DEF ReportsInv, ReportsTyped, ReportersKnown, EscalationReporters,
     RestrictsForTwo, ViewersCount, OneSawTheOther, Counted, Viewer, RestrictionStands

LEMMA ReportsNextInv == ReportsInv /\ [ReportsNext]_reportsVars => ReportsInv'
<1> SUFFICES ASSUME ReportsInv, [ReportsNext]_reportsVars PROVE ReportsInv'
  OBVIOUS
<1>1. CASE UNCHANGED reportsVars
  BY <1>1 DEF reportsVars, ReportsInv, ReportsTyped, ReportersKnown, EscalationReporters,
     RestrictsForTwo, ViewersCount, OneSawTheOther, Counted, Viewer, RestrictionStands
<1>2. CASE \E r \in Report : LookupUploader(r) \/ AddReport(r) \/ CountReporters(r)
  BY <1>2, LookupUploaderInv, AddReportInv, CountReportersInv
<1>3. CASE \E r \in Report : WriteReview(r) \/ FailFiling(r) \/ RepeatFiling(r)
  BY <1>3, WriteReviewInv, FailFilingInv, RepeatFilingInv
<1>4. CASE \E m \in ScanMessage : CheckExisting(m) \/ StoreScan(m) \/ ReconcileSelfReports(m)
  BY <1>4, CheckExistingInv, StoreScanInv, ReconcileSelfReportsInv
<1>5. CASE ReviewByModerator
  BY <1>5, ReviewByModeratorInv
<1> QED
  BY <1>1, <1>2, <1>3, <1>4, <1>5 DEF ReportsNext

\* The strengthening holds in every state of the reports (reports.mjs): whatever a
\* filing has counted is still recorded, so a restriction has two people behind it.
THEOREM ReportsInvariant == ReportsSpec => []ReportsInv
  BY ReportsInitInv, ReportsNextInv, PTL DEF ReportsSpec

\* recordReportForReview restricts for two: whatever upgrades, self-reports,
\* repeated reports and failing statements come between the statements of a
\* report, a video is restricted without a moderator only over HTTP and only
\* with two reporters recorded through a path that may escalate.
THEOREM AutomaticMeansTwoHolds == ReportsSpec => []AutomaticMeansTwo
<1>1. ReportsInv => AutomaticMeansTwo
  BY DEF ReportsInv, RestrictsForTwo, AutomaticMeansTwo
<1> QED
  BY <1>1, ReportsInvariant, PTL

\* Two viewers' NSFW reports restrict the video, in whatever order their
\* upserts, counts and reviews ran: each count may miss the other report, never
\* both do, and what one review has restricted no other review releases.
THEOREM TwoReportersRestrictHolds == ReportsSpec => []TwoReportersRestrict
<1>1. ReportsInv => TwoReportersRestrict
  BY DEF ReportsInv, TwoReportersRestrict, OneSawTheOther, RestrictionStands, Viewer, Counted
<1> QED
  BY <1>1, ReportsInvariant, PTL

HIDE ReportsAssumption

-----------------------------------------------------------------------------
(* ReportPoller. A report that is neither in nor excused lies above the    *)
(* watermark of every invocation, and below the page that one is still to  *)
(* ask for, or on the page at hand.                                        *)

PollPcs == {"idle", "fetch", "process", "finish", "stats"}
PollTyped(a) ==
  /\ DOMAIN a = {"pc", "since", "until", "page", "fetched", "todo", "seen", "fresh",
                 "terminal", "retryable", "unbounded", "resume", "saturated"}
  /\ a.pc \in PollPcs /\ a.since \in Nat
  /\ a.until \in Nat \cup {NoTime} /\ a.resume \in Nat \cup {NoTime}

Excused == late \cup missing

\* Nothing older than t is still to be handled, but for what is exempt; what
\* comes later is not older.
PassedIn(t, exempt, done) ==
  /\ t = 0 \/ t \in Times(Stored)
  /\ \A e \in Stored \ exempt : createdAt[e] < t => e \in done
Passed(t) == PassedIn(t, Excused, processed)

\* What a run has seen and has no longer to do is handled or to be retried.
SeenIn(a, done) ==
  /\ a.seen \subseteq Stored /\ a.todo \subseteq a.seen /\ a.fetched \subseteq a.seen
  /\ a.terminal \subseteq Times(a.seen)
  /\ a.pc # "process" => a.todo = {}
  /\ \A e \in a.seen \ a.todo : e \in done \/ createdAt[e] \in a.retryable

\* A report of the window that the run has overtaken without seeing it is still
\* below its pages, or the run says that it left a rest.
Overtaken(a, exempt) ==
  {e \in Stored \ (exempt \cup a.seen) :
     createdAt[e] >= a.since /\ \E x \in a.seen : createdAt[x] > createdAt[e]}
Below(a, e) ==
  /\ a.pc = "fetch" => a.until # NoTime /\ createdAt[e] <= a.until
  /\ a.pc = "process" => /\ Cardinality(a.fetched) >= PageLimit
                         /\ \A z \in a.fetched : createdAt[e] <= createdAt[z]
  /\ a.pc \in {"finish", "stats"} => a.unbounded \/ a.saturated
CoveredIn(a, exempt) == \A e \in Overtaken(a, exempt) : Below(a, e)

RunOk(a) ==
  PollTyped(a) /\ Passed(a.since) /\ SeenIn(a, processed) /\ CoveredIn(a, Excused)

PollWorld ==
  /\ clock \in Nat \ {0} /\ createdAt \in [RelayReport -> Nat]
  /\ \A e \in RelayReport : createdAt[e] <= clock
  /\ checkpoint \in Nat \cup {NoTime} /\ resumeUntil \in Nat \cup {NoTime}
  /\ checkpoint # NoTime => Passed(checkpoint)
  /\ DOMAIN poll = Poll

PollInv == PollWorld /\ \A p \in Poll : RunOk(poll[p])
-----------------------------------------------------------------------------
USE PollAssumption

LEMMA PollMinNat ==
  ASSUME NEW S, S \subseteq Nat, S # {}
  PROVE  Min(S) \in S /\ \A y \in S : Min(S) <= y
<1> DEFINE R == {q \in Nat \X Nat : q[1] < q[2]}
<1>1. IsWellFoundedOn(R, Nat)
  BY NatLessThanWellFounded, Zenon DEF OpToRel
<1> HIDE DEF R
<1>2. PICK x \in S : \A y \in S : ~ <<y, x>> \in R
  BY <1>1, WFMin
<1>3. ASSUME NEW y \in S PROVE x <= y
  <2>1. x \in Nat /\ y \in Nat /\ <<y, x>> \notin R
    BY <1>2
  <2> QED
    BY <2>1 DEF R
<1> QED
  BY <1>3 DEF Min

LEMMA PollMaxNat ==
  ASSUME NEW n \in Nat, NEW S, S \subseteq 0..n, S # {}
  PROVE  Max(S) \in S
<1> DEFINE T == {n - x : x \in S}
<1>1. T \subseteq Nat /\ T # {}
  <2>1. \A x \in S : x \in 0..n /\ n - x \in Nat
    OBVIOUS
  <2> QED
    BY <2>1
<1>2. Min(T) \in T /\ \A y \in T : Min(T) <= y
  BY <1>1, PollMinNat
<1>3. PICK x \in S : Min(T) = n - x
  BY <1>2
<1>4. ASSUME NEW y \in S PROVE x >= y
  <2>1. n - y \in T
    OBVIOUS
  <2>2. n - x <= n - y
    BY <1>2, <1>3, <2>1
  <2> QED
    BY <2>2
<1> QED
  BY <1>4 DEF Max

LEMMA PollInitInv == PollInit => PollInv
<1> SUFFICES ASSUME PollInit PROVE PollInv
  OBVIOUS
<1>1. Stored = {}
  BY DEF PollInit, Stored
<1>2. PollWorld
  BY DEF PollInit, PollWorld
<1>3. RunOk(IdlePoll)
  BY <1>1 DEF RunOk, PollTyped, PollPcs, IdlePoll, Passed, PassedIn, SeenIn, CoveredIn, Overtaken
<1> QED
  BY <1>2, <1>3 DEF PollInit, PollInv

\* A step of one run that leaves what the relay holds.
LEMMA PollStep ==
  ASSUME PollInv, NEW p \in Poll, NEW a, poll' = [poll EXCEPT ![p] = a],
         UNCHANGED <<clock, createdAt, late>>,
         missing \subseteq missing', processed \subseteq processed',
         checkpoint' \in Nat \cup {NoTime}, resumeUntil' \in Nat \cup {NoTime},
         checkpoint' # NoTime => checkpoint' = checkpoint \/ Passed(checkpoint'),
         PollTyped(a), Passed(a.since), SeenIn(a, processed'), CoveredIn(a, late \cup missing')
  PROVE  PollInv'
<1>1. poll'[p] = a /\ DOMAIN poll' = Poll /\ \A q \in Poll \ {p} : poll'[q] = poll[q]
  BY DEF PollInv, PollWorld
<1>2. Stored' = Stored /\ createdAt' = createdAt /\ Excused' = late \cup missing'
      /\ Excused \subseteq Excused'
  BY DEF Stored, Excused
<1>3. \A t : Passed(t) => PassedIn(t, Excused', processed')
  BY <1>2 DEF Passed, PassedIn
<1>4. PollWorld'
  BY <1>1, <1>2, <1>3 DEF PollInv, PollWorld, Passed, PassedIn, Times
<1>5. RunOk(poll[p])'
  BY <1>1, <1>2, <1>3 DEF RunOk, PollTyped, Passed, PassedIn, SeenIn, CoveredIn, Overtaken, Below, Times
<1>6. ASSUME NEW q \in Poll, q # p PROVE RunOk(poll[q])'
  <2>1. RunOk(poll[q]) /\ poll'[q] = poll[q]
    BY <1>1, <1>6 DEF PollInv
  <2> QED
    BY <1>2, <2>1 DEF RunOk, PollTyped, Passed, PassedIn, SeenIn, CoveredIn, Overtaken, Below, Times
<1> QED
  BY <1>4, <1>5, <1>6 DEF PollInv
-----------------------------------------------------------------------------
(* The relay and the clock.                                                *)

LEMMA ArriveInv == ASSUME PollInv, NEW e \in RelayReport, Arrive(e) PROVE PollInv'
<1>1. PICK t \in {clock, clock - 1} \ {0} :
        /\ createdAt' = [createdAt EXCEPT ![e] = t]
        /\ late' = IF \E x \in Stored : createdAt[x] > t THEN late \cup {e} ELSE late
  BY DEF Arrive
<1>2. /\ clock \in Nat \ {0} /\ createdAt \in [RelayReport -> Nat] /\ createdAt[e] = 0
      /\ \A x \in RelayReport : createdAt[x] <= clock
      /\ UNCHANGED <<clock, missing, processed, checkpoint, resumeUntil, poll>>
  BY DEF Arrive, PollInv, PollWorld
<1>3. t \in Nat /\ t > 0 /\ t <= clock
  BY <1>1, <1>2
<1>4. /\ createdAt' \in [RelayReport -> Nat] /\ createdAt'[e] = t /\ e \notin Stored
      /\ \A x \in RelayReport : createdAt'[x] <= clock
      /\ \A x \in Stored : createdAt'[x] = createdAt[x]
      /\ Stored' = Stored \cup {e} /\ Stored \subseteq RelayReport
  BY <1>1, <1>2, <1>3 DEF Stored
<1>5. /\ e \notin Excused' => \A x \in Stored : createdAt[x] <= t
      /\ Excused \subseteq Excused'
      /\ \A x \in Stored : createdAt[x] \in Nat
  BY <1>1, <1>2, <1>3, <1>4 DEF Excused
<1>6. ASSUME NEW s, Passed(s) PROVE PassedIn(s, Excused, processed)'
  <2>1. CASE s = 0
    BY <1>4, <2>1 DEF PassedIn, Stored
  <2>2. CASE s \in Times(Stored)
    <3>1. PICK x \in Stored : s = createdAt[x]
      BY <2>2 DEF Times
    <3>2. s \in Times(Stored)'
      BY <1>4, <3>1 DEF Times
    <3>3. \A y \in Stored' \ Excused' : createdAt'[y] < s => y \in processed'
      BY <1>2, <1>3, <1>4, <1>5, <3>1, <1>6 DEF Passed, PassedIn
    <3> QED
      BY <3>2, <3>3 DEF PassedIn
  <2> QED
    BY <1>6, <2>1, <2>2 DEF Passed, PassedIn
<1>7. PollWorld'
  BY <1>2, <1>4, <1>6 DEF PollInv, PollWorld, Passed
<1>8. ASSUME NEW p \in Poll PROVE RunOk(poll[p])'
  <2>1. PICK a : a = poll[p]
    OBVIOUS
  <2>2. RunOk(a) /\ poll'[p] = a
    BY <1>2, <2>1 DEF PollInv
  <2>3. \A set \in SUBSET Stored : Times(set)' = Times(set)
    BY <1>4 DEF Times
  <2>4. SeenIn(a, processed)'
    BY <1>2, <1>4, <2>2, <2>3 DEF RunOk, SeenIn
  <2>5. CoveredIn(a, Excused)'
    <3> SUFFICES ASSUME NEW x \in Overtaken(a, Excused)' PROVE Below(a, x)'
      BY DEF CoveredIn
    <3>1. a.seen \subseteq Stored
      BY <2>2 DEF RunOk, SeenIn
    <3>2. x # e
      BY <1>3, <1>4, <1>5, <3>1 DEF Overtaken
    <3>3. x \in Overtaken(a, Excused)
      BY <1>4, <1>5, <3>1, <3>2 DEF Overtaken
    <3>4. Below(a, x) /\ createdAt'[x] = createdAt[x]
      BY <1>4, <2>2, <3>3 DEF RunOk, CoveredIn, Overtaken
    <3>5. \A z \in a.fetched : createdAt'[z] = createdAt[z]
      BY <1>4, <2>2 DEF RunOk, SeenIn
    <3> QED
      BY <3>4, <3>5 DEF Below
  <2> QED
    BY <1>6, <2>2, <2>4, <2>5 DEF RunOk, PollTyped, Passed
<1> QED
  BY <1>7, <1>8 DEF PollInv

LEMMA SecondInv == ASSUME PollInv, Second PROVE PollInv'
<1>1. UNCHANGED <<createdAt, late, missing, processed, checkpoint, resumeUntil, poll>>
      /\ clock' = clock + 1
  BY DEF Second
<1>2. PollWorld'
  BY <1>1 DEF PollInv, PollWorld, Passed, PassedIn, Times, Stored, Excused
<1>3. \A p \in Poll : RunOk(poll[p])'
  BY <1>1 DEF PollInv, RunOk, PollTyped, Passed, PassedIn, SeenIn, CoveredIn, Overtaken, Below,
     Times, Stored, Excused
<1> QED
  BY <1>2, <1>3 DEF PollInv

-----------------------------------------------------------------------------
(* One invocation.                                                         *)

LEMMA BeginPollInv == ASSUME PollInv, NEW p \in Poll, BeginPoll(p) PROVE PollInv'
<1> DEFINE since == IF checkpoint = NoTime THEN 0 ELSE checkpoint
           until == IF resumeUntil # NoTime /\ resumeUntil > since THEN resumeUntil ELSE NoTime
           a == [IdlePoll EXCEPT !.pc = "fetch", !.since = since, !.page = 1, !.until = until]
<1>1. poll' = [poll EXCEPT ![p] = a]
  BY DEF BeginPoll
<1>2. UNCHANGED <<clock, createdAt, late, missing, processed, checkpoint, resumeUntil>>
  BY DEF BeginPoll
<1>3. since \in Nat /\ until \in Nat \cup {NoTime} /\ Passed(since)
  BY DEF PollInv, PollWorld, Passed, PassedIn, Stored
<1> HIDE DEF since, until
<1>4. /\ DOMAIN a = {"pc", "since", "until", "page", "fetched", "todo", "seen", "fresh",
                      "terminal", "retryable", "unbounded", "resume", "saturated"}
      /\ a.pc = "fetch" /\ a.since = since /\ a.until = until /\ a.resume = NoTime
      /\ a.seen = {} /\ a.todo = {} /\ a.fetched = {} /\ a.terminal = {}
  BY DEF IdlePoll
<1> HIDE DEF a
<1>5. PollTyped(a) /\ a.since = since
  BY <1>3, <1>4 DEF PollTyped, PollPcs
<1>6. SeenIn(a, processed') /\ CoveredIn(a, late \cup missing')
  BY <1>4 DEF SeenIn, CoveredIn, Overtaken
<1> QED
  BY <1>1, <1>2, <1>3, <1>5, <1>6, PollStep DEF PollInv, PollWorld

\* What a page adds to a run.
LEMMA ReceiveFields ==
  ASSUME PollInv, NEW p \in Poll, NEW page, Receive(p, page)
  PROVE  \E a : /\ poll' = [poll EXCEPT ![p] = a] /\ DOMAIN a = DOMAIN poll[p]
               /\ a.pc = "process" /\ a.fetched = page /\ a.todo = page \ poll[p].seen
               /\ a.seen = poll[p].seen \cup page
               /\ a.since = poll[p].since /\ a.until = poll[p].until /\ a.terminal = poll[p].terminal
               /\ a.retryable = poll[p].retryable /\ a.resume = poll[p].resume
<1> DEFINE d == poll[p]
           d1 == [d EXCEPT !.pc = "process"]
           d2 == [d1 EXCEPT !.fetched = page]
           d3 == [d2 EXCEPT !.todo = page \ d.seen]
           d4 == [d3 EXCEPT !.seen = d.seen \cup page]
           d5 == [d4 EXCEPT !.fresh = ~(page \subseteq d.seen)]
<1>1. PollTyped(d) /\ DOMAIN poll = Poll
  BY DEF PollInv, PollWorld, RunOk
<1>2. poll' = [poll EXCEPT ![p] = d5]
  BY <1>1 DEF Receive, PollTyped
<1>3. DOMAIN d5 = DOMAIN d /\ d5.pc = "process" /\ d5.fetched = page /\ d5.todo = page \ d.seen
  BY <1>1 DEF PollTyped
<1>4. d5.seen = d.seen \cup page /\ d5.since = d.since /\ d5.until = d.until
  BY <1>1 DEF PollTyped
<1>5. d5.terminal = d.terminal /\ d5.retryable = d.retryable /\ d5.resume = d.resume
  BY <1>1 DEF PollTyped
<1> HIDE DEF d5
<1> QED
  BY <1>2, <1>3, <1>4, <1>5

\* An answer of the relay, or as much of it as came.
LEMMA PageInv ==
  ASSUME PollInv, NEW p \in Poll, poll[p].pc = "fetch", NEW page \in Pages(p), NEW part,
         part = page \/ (part \subseteq page /\ Matching(p) \ part \subseteq missing'),
         Receive(p, part), missing \subseteq missing',
         UNCHANGED <<clock, createdAt, late, processed, checkpoint, resumeUntil>>
  PROVE  PollInv'
<1>1. PICK d : d = poll[p]
  OBVIOUS
<1>2. RunOk(d) /\ d.pc = "fetch" /\ createdAt \in [RelayReport -> Nat]
  BY <1>1 DEF PollInv, PollWorld
<1>3. PICK a : /\ poll' = [poll EXCEPT ![p] = a] /\ DOMAIN a = DOMAIN d
               /\ a.pc = "process" /\ a.fetched = part /\ a.todo = part \ d.seen
               /\ a.seen = d.seen \cup part
               /\ a.since = d.since /\ a.until = d.until /\ a.terminal = d.terminal
               /\ a.retryable = d.retryable /\ a.resume = d.resume
  BY <1>1, ReceiveFields
<1>4. PollTyped(a)
  BY <1>2, <1>3 DEF RunOk, PollTyped, PollPcs
<1>5. /\ part \subseteq page /\ page \subseteq Matching(p) /\ Matching(p) \subseteq Stored
      /\ page # Matching(p) => Cardinality(page) = PageLimit
      /\ \A z \in page, x \in Matching(p) \ page : createdAt[z] >= createdAt[x]
  BY DEF Pages, Matching
<1>8. \A e \in Stored : createdAt[e] \in Nat
  BY <1>2 DEF Stored
<1>9. Matching(p) = {e \in Stored : createdAt[e] >= d.since
                                    /\ (d.until # NoTime => createdAt[e] <= d.until)}
  BY <1>1 DEF Matching
<1>6. SeenIn(a, processed')
  <2>1. d.seen \subseteq Stored /\ d.todo = {} /\ d.terminal \subseteq Times(d.seen)
        /\ \A e \in d.seen : e \in processed \/ createdAt[e] \in d.retryable
    BY <1>2 DEF RunOk, SeenIn
  <2>2. Times(d.seen) \subseteq Times(a.seen)
    BY <1>3 DEF Times
  <2> QED
    BY <1>3, <1>5, <2>1, <2>2 DEF SeenIn
<1>7. CoveredIn(a, late \cup missing')
  <2> SUFFICES ASSUME NEW e \in Overtaken(a, late \cup missing') PROVE Below(a, e)
    BY DEF CoveredIn
  <2>1. PICK x \in a.seen : createdAt[x] > createdAt[e]
    BY DEF Overtaken
  <2>2. e \in Stored /\ e \notin Excused /\ e \notin missing' /\ e \notin d.seen /\ e \notin part
        /\ createdAt[e] >= d.since
    BY <1>3 DEF Overtaken, Excused
  <2>3. e \in Matching(p)
    <3>1. CASE x \in d.seen
      <4>1. e \in Overtaken(d, Excused)
        BY <2>1, <2>2, <3>1 DEF Overtaken
      <4> QED
        BY <1>2, <1>9, <2>2, <4>1 DEF RunOk, CoveredIn, Below
    <3>2. CASE x \in part
      <4>1. x \in Matching(p) /\ createdAt[x] \in Nat /\ createdAt[e] \in Nat
            /\ d.until \in Nat \cup {NoTime}
        BY <1>2, <1>5, <1>8, <2>2, <3>2 DEF RunOk, PollTyped
      <4>2. d.until # NoTime => createdAt[x] <= d.until
        BY <1>9, <4>1
      <4> QED
        BY <1>9, <2>1, <2>2, <4>1, <4>2
    <3> QED
      BY <1>3, <3>1, <3>2
  <2>4. part = page
    BY <2>2, <2>3
  <2>5. Cardinality(a.fetched) >= PageLimit /\ \A z \in a.fetched : createdAt[e] <= createdAt[z]
    BY <1>3, <1>5, <2>2, <2>3, <2>4
  <2> QED
    BY <1>3, <2>5 DEF Below
<1> QED
  BY <1>2, <1>3, <1>4, <1>6, <1>7, PollStep DEF PollInv, PollWorld, RunOk

LEMMA FetchReportsInv == ASSUME PollInv, NEW p \in Poll, FetchReports(p) PROVE PollInv'
  BY PageInv DEF FetchReports

LEMMA CutOffInv == ASSUME PollInv, NEW p \in Poll, CutOff(p) PROVE PollInv'
<1>0. PICK page \in Pages(p) : \E part \in SUBSET page \ {page} :
        Receive(p, part) /\ missing' = missing \cup (Matching(p) \ part)
  BY DEF CutOff
<1>1. PICK part \in SUBSET page \ {page} :
        Receive(p, part) /\ missing' = missing \cup (Matching(p) \ part)
  BY <1>0
<1>2. part \subseteq page /\ Matching(p) \ part \subseteq missing' /\ missing \subseteq missing'
  BY <1>1
<1>3. poll[p].pc = "fetch" /\ UNCHANGED <<clock, createdAt, late, processed, checkpoint, resumeUntil>>
  BY DEF CutOff
<1> QED
  BY <1>1, <1>2, <1>3, PageInv

\* Steps that change only the record of a run, to a state a that is typed and
\* keeps what was seen.
LEMMA RunStep ==
  ASSUME PollInv, NEW p \in Poll, NEW a, poll' = [poll EXCEPT ![p] = a], PollTyped(a),
         UNCHANGED <<clock, createdAt, late, missing, processed, checkpoint, resumeUntil>>,
         a.since = poll[p].since, a.seen = poll[p].seen, a.todo = poll[p].todo,
         a.fetched = poll[p].fetched, a.terminal = poll[p].terminal,
         a.retryable = poll[p].retryable, a.pc # "process" => a.todo = {},
         \A e \in Overtaken(poll[p], Excused) : Below(poll[p], e) => Below(a, e)
  PROVE  PollInv'
<1>1. RunOk(poll[p])
  BY DEF PollInv
<1>2. Passed(a.since) /\ SeenIn(a, processed')
  BY <1>1 DEF RunOk, SeenIn
<1>3. CoveredIn(a, late \cup missing')
  BY <1>1 DEF RunOk, CoveredIn, Overtaken, Excused
<1> QED
  BY <1>2, <1>3, PollStep DEF PollInv, PollWorld

LEMMA FetchFailsInv == ASSUME PollInv, NEW p \in Poll, FetchFails(p) PROVE PollInv'
<1> DEFINE b == [poll[p] EXCEPT !.pc = "finish"]
           a == [b EXCEPT !.unbounded = TRUE]
<1>1. PollTyped(poll[p]) /\ poll[p].pc = "fetch" /\ poll[p].todo = {}
  BY DEF FetchFails, PollInv, RunOk, SeenIn
<1>2. poll' = [poll EXCEPT ![p] = a]
  BY DEF FetchFails, PollInv, PollWorld
<1>3. PollTyped(a) /\ a.pc = "finish" /\ a.unbounded /\ a.since = poll[p].since
      /\ a.seen = poll[p].seen /\ a.todo = poll[p].todo /\ a.fetched = poll[p].fetched
      /\ a.terminal = poll[p].terminal /\ a.retryable = poll[p].retryable
  BY <1>1 DEF PollTyped, PollPcs
<1> HIDE DEF a
<1>4. \A e : Below(a, e)
  BY <1>3 DEF Below
<1> QED
  BY <1>1, <1>2, <1>3, <1>4, RunStep DEF FetchFails

\* A report that is handled, or left to the next run.
LEMMA ProcessReportInv == ASSUME PollInv, NEW p \in Poll, ProcessReport(p) PROVE PollInv'
<1>1. PICK d : d = poll[p]
  OBVIOUS
<1>2. RunOk(d) /\ d.pc = "process" /\ UNCHANGED <<clock, createdAt, late, missing, checkpoint, resumeUntil>>
  BY <1>1 DEF PollInv, ProcessReport
<1>3. PICK e \in d.todo :
        \/ /\ processed' = processed \cup {e}
           /\ poll' = [poll EXCEPT ![p].todo = @ \ {e}, ![p].terminal = @ \cup {createdAt[e]}]
        \/ /\ processed' = processed
           /\ poll' = [poll EXCEPT ![p].todo = @ \ {e}, ![p].retryable = @ \cup {createdAt[e]}]
  BY <1>1 DEF ProcessReport
<1> DEFINE b == [d EXCEPT !.todo = d.todo \ {e}]
           a1 == [b EXCEPT !.terminal = d.terminal \cup {createdAt[e]}]
           a2 == [b EXCEPT !.retryable = d.retryable \cup {createdAt[e]}]
<1>4. DOMAIN poll = Poll /\ PollTyped(d) /\ SeenIn(d, processed)
  BY <1>2 DEF PollInv, PollWorld, RunOk
<1>5. \/ processed' = processed \cup {e} /\ poll' = [poll EXCEPT ![p] = a1]
      \/ processed' = processed /\ poll' = [poll EXCEPT ![p] = a2]
  BY <1>1, <1>3, <1>4 DEF PollTyped
<1>6. ASSUME NEW a \in {a1, a2}
      PROVE  /\ PollTyped(a) /\ a.pc = "process" /\ a.since = d.since /\ a.seen = d.seen
             /\ a.fetched = d.fetched /\ a.todo = d.todo \ {e}
  BY <1>2, <1>4 DEF PollTyped
<1>7. /\ a1.terminal = d.terminal \cup {createdAt[e]} /\ a1.retryable = d.retryable
      /\ a2.terminal = d.terminal /\ a2.retryable = d.retryable \cup {createdAt[e]}
  BY <1>4 DEF PollTyped
<1> HIDE DEF a1, a2
<1>8. CASE processed' = processed \cup {e} /\ poll' = [poll EXCEPT ![p] = a1]
  <2>1. SeenIn(a1, processed')
    BY <1>3, <1>4, <1>6, <1>7, <1>8 DEF SeenIn, Times
  <2>2. CoveredIn(a1, late \cup missing')
    BY <1>2, <1>6 DEF RunOk, CoveredIn, Overtaken, Excused, Below
  <2> QED
    BY <1>2, <1>6, <1>8, <2>1, <2>2, PollStep DEF PollInv, PollWorld, RunOk
<1>9. CASE processed' = processed /\ poll' = [poll EXCEPT ![p] = a2]
  <2>1. SeenIn(a2, processed')
    BY <1>3, <1>4, <1>6, <1>7, <1>9 DEF SeenIn, Times
  <2>2. CoveredIn(a2, late \cup missing')
    BY <1>2, <1>6 DEF RunOk, CoveredIn, Overtaken, Excused, Below
  <2> QED
    BY <1>2, <1>6, <1>9, <2>1, <2>2, PollStep DEF PollInv, PollWorld, RunOk
<1> QED
  BY <1>5, <1>8, <1>9

LEMMA TurnPageInv == ASSUME PollInv, NEW p \in Poll, TurnPage(p) PROVE PollInv'
<1>1. PICK d : d = poll[p]
  OBVIOUS
<1> DEFINE full == Cardinality(d.fetched) >= PageLimit
           oldest == Min(Times(d.fetched))
           done == [d EXCEPT !.pc = "finish"]
           rest1 == [done EXCEPT !.saturated = TRUE]
           rest == [rest1 EXCEPT !.resume = oldest]
           next1 == [d EXCEPT !.pc = "fetch"]
           next2 == [next1 EXCEPT !.page = d.page + 1]
           next == [next2 EXCEPT !.until = oldest]
<1>2. RunOk(d) /\ d.pc = "process" /\ d.todo = {} /\ DOMAIN poll = Poll
      /\ UNCHANGED <<clock, createdAt, late, missing, processed, checkpoint, resumeUntil>>
  BY <1>1 DEF PollInv, PollWorld, TurnPage
<1>3. PollTyped(d) /\ createdAt \in [RelayReport -> Nat]
  BY <1>2 DEF RunOk, PollInv, PollWorld
<1>4. poll' = [poll EXCEPT ![p] =
                 IF ~full THEN done ELSE IF ~d.fresh \/ d.page >= MaxPages THEN rest ELSE next]
  <2>1. next1.page = d.page
    BY <1>3 DEF PollTyped
  <2>2. CASE ~full
    BY <1>1, <2>2 DEF TurnPage
  <2>3. CASE full /\ (~d.fresh \/ d.page >= MaxPages)
    BY <1>1, <2>3 DEF TurnPage
  <2>4. CASE full /\ ~(~d.fresh \/ d.page >= MaxPages)
    <3>1. full /\ ~(~poll[p].fresh \/ poll[p].page >= MaxPages)
      BY <1>1, <2>4
    <3>2. poll' = [poll EXCEPT ![p] =
                     [poll[p] EXCEPT !.pc = "fetch", !.page = poll[p].page + 1, !.until = oldest]]
      BY <1>1, <3>1 DEF TurnPage
    <3> QED
      BY <1>1, <2>1, <2>4, <3>2
  <2> QED
    BY <2>2, <2>3, <2>4
<1>5. full => /\ oldest \in Nat
              /\ \A e : (\A z \in d.fetched : createdAt[e] <= createdAt[z]) => createdAt[e] <= oldest
  <2> SUFFICES ASSUME full
               PROVE  /\ oldest \in Nat
                      /\ \A e : (\A z \in d.fetched : createdAt[e] <= createdAt[z]) =>
                           createdAt[e] <= oldest
    OBVIOUS
  <2>1. d.fetched # {}
    BY FS_EmptySet
  <2>2. d.fetched \subseteq RelayReport
    BY <1>2 DEF RunOk, SeenIn, Stored
  <2>3. Times(d.fetched) \subseteq Nat /\ Times(d.fetched) # {}
    BY <1>3, <2>1, <2>2 DEF Times
  <2>4. oldest \in Times(d.fetched)
    BY <2>3, PollMinNat
  <2> QED
    BY <2>3, <2>4 DEF Times
<1> HIDE DEF oldest, full
<1>6. /\ PollTyped(done) /\ done.pc = "finish" /\ done.since = d.since /\ done.seen = d.seen
      /\ done.todo = {} /\ d.todo = {} /\ done.fetched = d.fetched
      /\ done.terminal = d.terminal /\ done.retryable = d.retryable
  BY <1>2, <1>3 DEF PollTyped, PollPcs
<1>7. full => /\ PollTyped(rest) /\ rest.pc = "finish" /\ rest.saturated
              /\ rest.since = d.since /\ rest.seen = d.seen
              /\ rest.todo = {} /\ d.todo = {} /\ rest.fetched = d.fetched
              /\ rest.terminal = d.terminal /\ rest.retryable = d.retryable
  BY <1>2, <1>3, <1>5 DEF PollTyped, PollPcs
<1>8. full => /\ PollTyped(next) /\ next.pc = "fetch" /\ next.until = oldest
              /\ next.since = d.since /\ next.seen = d.seen
              /\ next.todo = {} /\ d.todo = {} /\ next.fetched = d.fetched
              /\ next.terminal = d.terminal /\ next.retryable = d.retryable
  BY <1>2, <1>3, <1>5 DEF PollTyped, PollPcs
<1> HIDE DEF done, rest, next
<1>9. CASE ~full
  <2>1. \A e : ~Below(d, e)
    BY <1>2, <1>9 DEF Below, full
  <2> QED
    BY <1>1, <1>2, <1>4, <1>6, <1>9, <2>1, RunStep
<1>10. CASE full /\ (~d.fresh \/ d.page >= MaxPages)
  <2>1. \A e : Below(rest, e)
    BY <1>7, <1>10 DEF Below
  <2> QED
    BY <1>1, <1>2, <1>4, <1>7, <1>10, <2>1, RunStep
<1>11. CASE full /\ ~(~d.fresh \/ d.page >= MaxPages)
  <2>1. \A e : Below(d, e) => Below(next, e)
    BY <1>2, <1>5, <1>8, <1>11 DEF Below
  <2> QED
    BY <1>1, <1>2, <1>4, <1>8, <1>11, <2>1, RunStep
<1> QED
  BY <1>9, <1>10, <1>11

\* The checkpoint: nothing of the window is older and still to be handled.
LEMMA SafeCheckpointPassed ==
  ASSUME PollInv, NEW p \in Poll, poll[p].pc = "finish", NEW t \in SafeCheckpoints(p)
  PROVE  Passed(t)
<1>1. PICK d : d = poll[p]
  OBVIOUS
<1>2. RunOk(d) /\ d.pc = "finish" /\ createdAt \in [RelayReport -> Nat]
  BY <1>1 DEF PollInv, PollWorld
<1>3. ~d.unbounded /\ ~d.saturated /\ t \in d.terminal /\ \A r \in d.retryable : t < r
  BY <1>1 DEF SafeCheckpoints
<1>4. PICK x \in d.seen : t = createdAt[x]
  BY <1>2, <1>3 DEF RunOk, SeenIn, Times
<1>5. x \in Stored /\ t \in Nat
  BY <1>2, <1>4 DEF RunOk, SeenIn, Stored
<1>6. ASSUME NEW e \in Stored \ Excused, createdAt[e] < t PROVE e \in processed
  <2>1. d.since \in Nat /\ createdAt[e] \in Nat
    BY <1>2 DEF RunOk, PollTyped, Stored
  <2>2. CASE createdAt[e] < d.since
    BY <1>2, <2>2 DEF RunOk, Passed, PassedIn
  <2>3. CASE createdAt[e] >= d.since
    <3>1. e \notin Overtaken(d, Excused)
      BY <1>2, <1>3 DEF RunOk, CoveredIn, Below
    <3>2. e \in d.seen
      BY <1>4, <1>6, <2>3, <3>1 DEF Overtaken
    <3>3. e \in processed \/ createdAt[e] \in d.retryable
      BY <1>2, <3>2 DEF RunOk, SeenIn
    <3> QED
      BY <1>3, <1>5, <1>6, <2>1, <3>3
  <2> QED
    BY <2>1, <2>2, <2>3
<1> QED
  BY <1>4, <1>5, <1>6 DEF Passed, PassedIn, Times

LEMMA SetCheckpointInv == ASSUME PollInv, NEW p \in Poll, SetCheckpoint(p) PROVE PollInv'
<1>1. PICK d : d = poll[p]
  OBVIOUS
<1> DEFINE a == [d EXCEPT !.pc = "stats"]
<1>2. RunOk(d) /\ d.pc = "finish" /\ DOMAIN poll = Poll
      /\ UNCHANGED <<clock, createdAt, late, missing, processed, resumeUntil>>
  BY <1>1 DEF PollInv, PollWorld, SetCheckpoint
<1>3. poll' = [poll EXCEPT ![p] = a]
  BY <1>1, <1>2 DEF SetCheckpoint
<1>4. /\ PollTyped(a) /\ a.pc = "stats" /\ a.since = d.since /\ a.seen = d.seen
      /\ a.todo = d.todo /\ a.fetched = d.fetched /\ a.terminal = d.terminal
      /\ a.retryable = d.retryable /\ a.unbounded = d.unbounded /\ a.saturated = d.saturated
  BY <1>2 DEF RunOk, PollTyped, PollPcs
<1> HIDE DEF a
<1>5. SeenIn(a, processed') /\ CoveredIn(a, late \cup missing') /\ Passed(a.since)
  BY <1>2, <1>4 DEF RunOk, SeenIn, CoveredIn, Overtaken, Below, Excused
<1>6. checkpoint' = checkpoint \/ (checkpoint' \in Nat /\ Passed(checkpoint'))
  <2>1. CASE UNCHANGED checkpoint
    BY <2>1
  <2>2. CASE SafeCheckpoints(p) # {} /\ checkpoint' = Max(SafeCheckpoints(p))
    <3>1. clock \in Nat /\ createdAt \in [RelayReport -> Nat]
          /\ \A e \in RelayReport : createdAt[e] <= clock
      BY DEF PollInv, PollWorld
    <3>2. SafeCheckpoints(p) \subseteq Times(Stored)
      BY <1>1, <1>2 DEF SafeCheckpoints, RunOk, SeenIn, Times
    <3>3. SafeCheckpoints(p) \subseteq 0..clock
      BY <3>1, <3>2 DEF Times, Stored
    <3>4. checkpoint' \in SafeCheckpoints(p)
      BY <2>2, <3>1, <3>3, PollMaxNat
    <3>5. Passed(checkpoint')
      <4>1. \A t \in SafeCheckpoints(p) : Passed(t)
        BY <1>1, <1>2, SafeCheckpointPassed
      <4> QED
        BY <3>4, <4>1
    <3> QED
      BY <3>1, <3>3, <3>4, <3>5
  <2> QED
    BY <2>1, <2>2 DEF SetCheckpoint
<1>7. checkpoint' \in Nat \cup {NoTime} /\ resumeUntil' \in Nat \cup {NoTime}
  BY <1>2, <1>6 DEF PollInv, PollWorld
<1> QED
  BY <1>2, <1>3, <1>4, <1>5, <1>6, <1>7, PollStep

\* The end of an invocation, wherever it comes.
LEMMA PollEnds ==
  ASSUME PollInv, NEW p \in Poll, poll' = [poll EXCEPT ![p] = IdlePoll],
         resumeUntil' \in {resumeUntil, poll[p].resume},
         UNCHANGED <<clock, createdAt, late, missing, processed, checkpoint>>
  PROVE  PollInv'
<1>1. PollTyped(IdlePoll) /\ Passed(IdlePoll.since) /\ SeenIn(IdlePoll, processed')
      /\ CoveredIn(IdlePoll, late \cup missing')
  BY DEF PollInv, PollWorld, PollTyped, PollPcs, IdlePoll, Passed, PassedIn, Stored, SeenIn,
     CoveredIn, Overtaken
<1>2. resumeUntil' \in Nat \cup {NoTime} /\ checkpoint' \in Nat \cup {NoTime}
  BY DEF PollInv, PollWorld, RunOk, PollTyped
<1> QED
  BY <1>1, <1>2, PollStep

LEMMA SetLastRunInv == ASSUME PollInv, NEW p \in Poll, SetLastRun(p) PROVE PollInv'
  BY PollEnds DEF SetLastRun

LEMMA CrashPollInv == ASSUME PollInv, NEW p \in Poll, CrashPoll(p) PROVE PollInv'
  BY PollEnds DEF CrashPoll

LEMMA PollNextInv == PollInv /\ [PollNext]_pollVars => PollInv'
<1> SUFFICES ASSUME PollInv, [PollNext]_pollVars PROVE PollInv'
  OBVIOUS
<1>1. CASE UNCHANGED pollVars
  <2>1. UNCHANGED <<clock, createdAt, late, missing, processed, checkpoint, resumeUntil, poll>>
    BY <1>1 DEF pollVars
  <2> QED
    BY <2>1 DEF PollInv, PollWorld, RunOk, PollTyped, Passed, PassedIn, SeenIn, CoveredIn, Overtaken,
       Below, Times, Stored, Excused
<1>2. CASE \E e \in RelayReport : Arrive(e)
  BY <1>2, ArriveInv
<1>3. CASE Second
  BY <1>3, SecondInv
<1>4. CASE \E p \in Poll : BeginPoll(p) \/ FetchReports(p) \/ CutOff(p) \/ FetchFails(p)
  BY <1>4, BeginPollInv, FetchReportsInv, CutOffInv, FetchFailsInv
<1>5. CASE \E p \in Poll : ProcessReport(p) \/ TurnPage(p)
  BY <1>5, ProcessReportInv, TurnPageInv
<1>6. CASE \E p \in Poll : SetCheckpoint(p) \/ SetLastRun(p) \/ CrashPoll(p)
  BY <1>6, SetCheckpointInv, SetLastRunInv, CrashPollInv
<1> QED
  BY <1>1, <1>2, <1>3, <1>4, <1>5, <1>6 DEF PollNext, PollSteps

\* The strengthening holds in every state of the report poller: what has not come to
\* its end is not behind the checkpoint, and a run that has overtaken a report that it
\* has not seen is still to ask for it, or knows that it left a rest.
THEOREM PollInvariant == PollSpec => []PollInv
  BY PollInitInv, PollNextInv, PTL DEF PollSpec

\* The checkpoint of the report poller never passes a report that has not come
\* to its end, for any number of reports, overlapping runs and pages, whatever
\* fails: but for those that the relay stored late, or that an answer cut off
\* left out (report-poller.mjs 449-489, index.mjs 5238-5296).
THEOREM NothingPassedOverHolds == PollSpec => []NothingPassedOver
<1>1. PollInv => NothingPassedOver
  BY DEF PollInv, PollWorld, Passed, PassedIn, Excused, NothingPassedOver
<1> QED
  BY <1>1, PollInvariant, PTL

HIDE PollAssumption

-----------------------------------------------------------------------------
(* DmInbox. A wrap that no log has is one that a sync in progress still    *)
(* has before it, or one that the next sync asks for.                      *)

SyncSteps == {"idle", "next", "record", "find", "insert"}
Syncs == [pc : SyncSteps, todo : SUBSET Wrap, wrap : Wrap \cup {NoSync},
          complete : BOOLEAN, logged : BOOLEAN]
Handling(a, w) == a.pc \in {"record", "find", "insert"} /\ a.wrap = w

InboxTyped ==
  /\ day \in Nat /\ wrapAt \in [Wrap -> Int \cup {NoSync}] /\ dmLog \in [Wrap -> Nat]
  /\ lastSync \in Nat \cup {NoSync} /\ (lastSync # NoSync => lastSync <= day)
  /\ sync \in [Sync -> Syncs]

\* What a complete read answered for is handled, in hand, or still to be done ...
ReadsAll(a) ==
  a.pc # "idle" /\ a.complete =>
    \A w \in OnRelay \ excused : Handled(w) \/ w \in a.todo \/ Handling(a, w)
\* ... and what an invocation has found out about the wrap in hand stays true.
KnowsItsWrap(a) ==
  a.pc \in {"record", "find", "insert"} =>
    /\ a.wrap \in Wrap /\ (a.logged => dmLog[a.wrap] > 0)
    /\ a.pc # "record" /\ a.wrap \in ContentReport => a.wrap \in reported \cup excused

InboxInv ==
  /\ InboxTyped /\ NoMessageSlips
  /\ \A s \in Sync : ReadsAll(sync[s]) /\ KnowsItsWrap(sync[s])
-----------------------------------------------------------------------------
USE InboxAssumption DEF TWO_DAYS, FirstRunLookback

LEMMA InboxInitInv == InboxInit => InboxInv
<1> SUFFICES ASSUME InboxInit PROVE InboxInv
  OBVIOUS
<1>1. InboxTyped
  BY DEF InboxInit, InboxTyped, Syncs, SyncSteps, IdleSync
<1>2. OnRelay = {}
  BY DEF InboxInit, OnRelay
<1>3. \A s \in Sync : sync[s].pc = "idle"
  BY DEF InboxInit, IdleSync
<1> QED
  BY <1>1, <1>2, <1>3 DEF InboxInv, NoMessageSlips, ReadsAll, KnowsItsWrap

\* Rows are only ever added, and what was excused stays so.
Grows ==
  /\ \A w \in Wrap : dmLog[w] > 0 => dmLog'[w] > 0
  /\ reported \subseteq reported' /\ excused \subseteq excused'

LEMMA HandledStays ==
  ASSUME Grows, NEW w \in Wrap, Handled(w) PROVE Handled(w)'
  BY DEF Grows, Handled

\* What an invocation knows survives a step that only adds.
LEMMA KnowledgeStays ==
  ASSUME Grows, wrapAt' = wrapAt, NEW a \in Syncs, ReadsAll(a), KnowsItsWrap(a)
  PROVE  ReadsAll(a)' /\ KnowsItsWrap(a)'
<1>1. OnRelay' = OnRelay /\ OnRelay \subseteq Wrap
  BY DEF OnRelay
<1>2. KnowsItsWrap(a)'
  BY DEF KnowsItsWrap, Grows
<1>3. ReadsAll(a)'
  BY <1>1, HandledStays DEF ReadsAll, Grows, Handling
<1> QED
  BY <1>2, <1>3

\* A step of one invocation that leaves the clock and the checkpoint alone.
LEMMA SyncStep ==
  ASSUME InboxInv, Grows, UNCHANGED <<day, wrapAt, lastSync>>, NEW s \in Sync, NEW a \in Syncs,
         dmLog' \in [Wrap -> Nat], sync' = [sync EXCEPT ![s] = a],
         ReadsAll(a)', KnowsItsWrap(a)'
  PROVE  InboxInv'
<1>1. InboxTyped'
  BY DEF InboxInv, InboxTyped
<1>2. \A n \in Sync : ReadsAll(sync[n])' /\ KnowsItsWrap(sync[n])'
  <2> TAKE n \in Sync
  <2>1. CASE n = s
    BY <2>1 DEF InboxInv, InboxTyped
  <2>2. CASE n # s
    <3>1. PICK b \in Syncs : b = sync[n]
      BY DEF InboxInv, InboxTyped
    <3>2. ReadsAll(b)' /\ KnowsItsWrap(b)'
      BY <3>1, KnowledgeStays DEF InboxInv
    <3>3. sync'[n] = b
      BY <2>2, <3>1 DEF InboxInv, InboxTyped
    <3> QED
      BY <3>2, <3>3 DEF ReadsAll, KnowsItsWrap, Handling
  <2> QED
    BY <2>1, <2>2
<1>3. Since' = Since /\ OnRelay' = OnRelay /\ OnRelay \subseteq Wrap
  BY DEF Since, OnRelay
<1>4. NoMessageSlips'
  BY <1>3, HandledStays DEF InboxInv, NoMessageSlips, Grows
<1> QED
  BY <1>1, <1>2, <1>4 DEF InboxInv

LEMMA WriteInv == ASSUME InboxInv, NEW w \in Wrap, Write(w) PROVE InboxInv'
<1>1. PICK t \in (day - Drift)..day : wrapAt' = [wrapAt EXCEPT ![w] = t]
  BY DEF Write
<1>2. /\ UNCHANGED <<day, dmLog, reported, lastSync, sync>>
      /\ excused' = IF Busy # {} THEN excused \cup {w} ELSE excused
  BY DEF Write
<1>3. InboxTyped
  BY DEF InboxInv
<1>4. OnRelay' = OnRelay \cup {w} /\ wrapAt'[w] >= Since
      /\ \A x \in Wrap \ {w} : wrapAt'[x] = wrapAt[x]
  BY <1>1, <1>3 DEF InboxTyped, OnRelay, Since
<1>5. InboxTyped'
  BY <1>1, <1>2, <1>3 DEF InboxTyped
<1>6. \A x \in Wrap : Handled(x)' = Handled(x)
  BY <1>2 DEF Handled
<1>7. Since' = Since /\ excused \subseteq excused'
  BY <1>2 DEF Since
<1>8. NoMessageSlips'
  <2> SUFFICES ASSUME NEW x \in OnRelay', x \notin excused'
               PROVE  Handled(x)' \/ wrapAt'[x] >= Since'
    BY DEF NoMessageSlips
  <2> QED
    BY <1>4, <1>6, <1>7 DEF InboxInv, NoMessageSlips, OnRelay
<1>9. ASSUME NEW s \in Sync PROVE ReadsAll(sync[s])' /\ KnowsItsWrap(sync[s])'
  <2>1. KnowsItsWrap(sync[s])'
    BY <1>2, <1>7 DEF InboxInv, KnowsItsWrap
  <2>2. sync[s].pc # "idle" => w \in excused'
    BY <1>2 DEF Busy
  <2>3. ReadsAll(sync[s])'
    <3> SUFFICES ASSUME sync[s].pc # "idle", sync[s].complete, NEW x \in OnRelay', x \notin excused'
                 PROVE  Handled(x)' \/ x \in sync[s].todo \/ Handling(sync[s], x)
      BY <1>2 DEF ReadsAll, Handling
    <3>1. x \in OnRelay \ excused /\ x \in Wrap
      BY <1>4, <1>7, <2>2 DEF OnRelay
    <3> QED
      BY <1>6, <3>1 DEF InboxInv, ReadsAll
  <2> QED
    BY <2>1, <2>3
<1> QED
  BY <1>5, <1>8, <1>9 DEF InboxInv

LEMMA DayInv == ASSUME InboxInv, Day PROVE InboxInv'
<1>1. /\ day' = day + 1 /\ UNCHANGED <<wrapAt, dmLog, reported, lastSync, sync>>
      /\ excused' = IF lastSync # NoSync THEN excused
                     ELSE excused \cup {w \in OnRelay : wrapAt[w] < day' - FirstRunLookback}
  BY DEF Day
<1>2. Grows
  BY <1>1 DEF Grows
<1>3. OnRelay' = OnRelay /\ OnRelay \subseteq Wrap /\ \A w \in OnRelay : wrapAt[w] \in Int
  BY <1>1 DEF OnRelay, InboxInv, InboxTyped
<1>4. InboxTyped'
  BY <1>1 DEF InboxInv, InboxTyped
<1>5. NoMessageSlips'
  <2> SUFFICES ASSUME NEW w \in OnRelay, w \notin excused'
               PROVE  Handled(w)' \/ wrapAt[w] >= Since'
    BY <1>1, <1>3 DEF NoMessageSlips
  <2>1. w \notin excused /\ w \in Wrap
    BY <1>2, <1>3 DEF Grows
  <2>2. CASE lastSync = NoSync
    <3>1. Since' = day' - FirstRunLookback /\ ~(wrapAt[w] < day' - FirstRunLookback)
      BY <1>1, <2>2 DEF Since
    <3>2. wrapAt[w] \in Int /\ day' \in Int
      BY <1>3, <1>4 DEF InboxTyped
    <3> QED
      BY <3>1, <3>2
  <2>3. CASE lastSync # NoSync
    <3>1. Since' = Since
      BY <1>1, <2>3 DEF Since
    <3> QED
      BY <1>2, <2>1, <3>1, HandledStays DEF InboxInv, NoMessageSlips
  <2> QED
    BY <2>2, <2>3
<1>6. ASSUME NEW s \in Sync PROVE ReadsAll(sync[s])' /\ KnowsItsWrap(sync[s])'
  <2>1. PICK b \in Syncs : b = sync[s]
    BY DEF InboxInv, InboxTyped
  <2>2. ReadsAll(b)' /\ KnowsItsWrap(b)'
    BY <1>1, <1>2, <2>1, KnowledgeStays DEF InboxInv
  <2> QED
    BY <1>1, <2>1, <2>2 DEF ReadsAll, KnowsItsWrap, Handling
<1> QED
  BY <1>4, <1>5, <1>6 DEF InboxInv

LEMMA FetchCompleteInv == ASSUME InboxInv, NEW s \in Sync, FetchComplete(s) PROVE InboxInv'
<1>1. PICK got \in SUBSET InWindow :
        /\ sync' = [sync EXCEPT ![s] = [IdleSync EXCEPT !.pc = "next", !.todo = got,
                                                        !.complete = TRUE]]
        /\ excused' = excused \cup (InWindow \ got)
  BY DEF FetchComplete
<1>2. UNCHANGED <<day, wrapAt, dmLog, reported, lastSync>>
  BY DEF FetchComplete
<1> DEFINE a1 == [IdleSync EXCEPT !.pc = "next"]
           a2 == [a1 EXCEPT !.todo = got]
           a == [a2 EXCEPT !.complete = TRUE]
<1>3. sync' = [sync EXCEPT ![s] = a]
  BY <1>1
<1>4. got \subseteq Wrap /\ IdleSync \in Syncs
  BY DEF InWindow, OnRelay, Syncs, SyncSteps, IdleSync
<1>5. a \in Syncs /\ a.pc = "next" /\ a.todo = got
  BY <1>4 DEF Syncs, SyncSteps
<1> HIDE DEF a
<1>6. Grows
  BY <1>1, <1>2 DEF Grows
<1>7. KnowsItsWrap(a)'
  BY <1>5 DEF KnowsItsWrap
<1>8. ReadsAll(a)'
  <2> SUFFICES ASSUME NEW w \in OnRelay', w \notin excused' PROVE Handled(w)' \/ w \in got
    BY <1>5 DEF ReadsAll
  <2>1. w \in OnRelay /\ w \notin excused /\ w \in Wrap /\ (w \in InWindow => w \in got)
    BY <1>1, <1>2 DEF OnRelay
  <2>2. CASE w \notin InWindow
    BY <1>6, <2>1, <2>2, HandledStays DEF InWindow, InboxInv, NoMessageSlips
  <2> QED
    BY <2>1, <2>2
<1> QED
  BY <1>2, <1>3, <1>5, <1>6, <1>7, <1>8, SyncStep DEF InboxInv, InboxTyped

LEMMA FetchPartialInv == ASSUME InboxInv, NEW s \in Sync, FetchPartial(s) PROVE InboxInv'
<1>1. PICK got \in SUBSET InWindow :
        sync' = [sync EXCEPT ![s] = [IdleSync EXCEPT !.pc = "next", !.todo = got]]
  BY DEF FetchPartial
<1>2. UNCHANGED <<day, wrapAt, dmLog, reported, lastSync, excused>>
  BY DEF FetchPartial
<1> DEFINE a1 == [IdleSync EXCEPT !.pc = "next"]
           a == [a1 EXCEPT !.todo = got]
<1>3. sync' = [sync EXCEPT ![s] = a]
  BY <1>1
<1>4. got \subseteq Wrap /\ IdleSync \in Syncs /\ ~IdleSync.complete
  BY DEF InWindow, OnRelay, Syncs, SyncSteps, IdleSync
<1>5. a \in Syncs /\ a.pc = "next" /\ ~a.complete
  BY <1>4 DEF Syncs, SyncSteps
<1> HIDE DEF a
<1>6. ReadsAll(a)' /\ KnowsItsWrap(a)'
  BY <1>5 DEF ReadsAll, KnowsItsWrap
<1> QED
  BY <1>2, <1>3, <1>5, <1>6, SyncStep DEF InboxInv, InboxTyped, Grows

LEMMA LookInv == ASSUME InboxInv, NEW s \in Sync, Look(s) PROVE InboxInv'
<1>1. PICK d \in Syncs : d = sync[s]
  BY DEF InboxInv, InboxTyped
<1>2. PICK w \in d.todo :
       sync' = [sync EXCEPT ![s].pc = IF w \in ContentReport THEN "record" ELSE "find",
                            ![s].todo = @ \ {w}, ![s].wrap = w,
                            ![s].logged = dmLog[w] > 0]
  BY <1>1 DEF Look
<1>3. d.pc = "next" /\ UNCHANGED <<day, wrapAt, dmLog, reported, lastSync, excused>>
  BY <1>1 DEF Look, At
<1>4. w \in Wrap /\ d.todo \subseteq Wrap /\ DOMAIN sync = Sync
  BY DEF Syncs, InboxInv, InboxTyped
<1>8. PICK known \in BOOLEAN : known = (dmLog[w] > 0)
  <2>1. (dmLog[w] > 0) \in BOOLEAN
    BY <1>4 DEF InboxInv, InboxTyped
  <2> QED
    BY <2>1, Zenon
<1> DEFINE a == [pc |-> IF w \in ContentReport THEN "record" ELSE "find",
                 todo |-> d.todo \ {w}, wrap |-> w, complete |-> d.complete, logged |-> known]
<1>5. sync' = [sync EXCEPT ![s] = a]
  BY <1>1, <1>2, <1>4, <1>8 DEF Syncs
<1>6. a \in Syncs
  BY <1>4 DEF Syncs, SyncSteps
<1>7. ReadsAll(a)' /\ KnowsItsWrap(a)'
  <2>1. ReadsAll(d)
    BY <1>1 DEF InboxInv
  <2>2. OnRelay' = OnRelay /\ (\A x \in Wrap : Handled(x)' = Handled(x)) /\ OnRelay \subseteq Wrap
    BY <1>3 DEF OnRelay, Handled
  <2>3. Handling(a, w) /\ a.todo = d.todo \ {w} /\ a.complete = d.complete
    BY DEF Handling
  <2>4. ReadsAll(a)'
    <3> HIDE DEF a
    <3> SUFFICES ASSUME d.complete, NEW x \in OnRelay', x \notin excused'
                 PROVE  Handled(x)' \/ x \in a.todo \/ Handling(a, x)
      BY <2>3 DEF ReadsAll
    <3>1. Handled(x) \/ x \in d.todo
      BY <1>3, <2>1, <2>2 DEF ReadsAll, Handling
    <3> QED
      BY <2>2, <2>3, <3>1
  <2> QED
    BY <1>3, <1>4, <1>8, <2>4 DEF KnowsItsWrap
<1> QED
  BY <1>3, <1>5, <1>6, <1>7, SyncStep DEF InboxInv, InboxTyped, Grows

\* An invocation goes on with the same wrap, or is done with it.
LEMMA GoOn ==
  ASSUME InboxInv, Grows, UNCHANGED <<day, wrapAt, lastSync>>, dmLog' \in [Wrap -> Nat],
         NEW s \in Sync, NEW at \in {"find", "insert", "next"}, Go(s, at),
         sync[s].pc \in {"record", "find", "insert"}, NEW x, x = sync[s].wrap,
         at # "next" /\ x \in ContentReport => x \in reported' \cup excused',
         at = "next" => x \in excused' \/ Handled(x)'
  PROVE  InboxInv'
<1>1. PICK d \in Syncs : d = sync[s]
  BY DEF InboxInv, InboxTyped
<1> DEFINE a == [d EXCEPT !.pc = at]
<1>2. sync' = [sync EXCEPT ![s] = a]
  BY <1>1 DEF Go, InboxInv, InboxTyped
<1>3. /\ a \in Syncs /\ a.pc = at /\ a.todo = d.todo /\ a.wrap = d.wrap
      /\ a.complete = d.complete /\ a.logged = d.logged
  BY DEF Syncs, SyncSteps
<1> HIDE DEF a
<1>4. ReadsAll(d)' /\ KnowsItsWrap(d)'
  BY <1>1, KnowledgeStays DEF InboxInv
<1>5. KnowsItsWrap(a)'
  BY <1>1, <1>3, <1>4 DEF KnowsItsWrap
<1>6. ReadsAll(a)'
  <2> SUFFICES ASSUME d.complete, NEW w \in OnRelay', w \notin excused'
               PROVE  Handled(w)' \/ w \in d.todo \/ (at # "next" /\ d.wrap = w)
    BY <1>3 DEF ReadsAll, Handling
  <2>1. Handled(w)' \/ w \in d.todo \/ d.wrap = w
    BY <1>1, <1>4 DEF ReadsAll, Handling
  <2> QED
    BY <1>1, <2>1
<1> QED
  BY <1>2, <1>3, <1>5, <1>6, SyncStep

LEMMA RecordContentInv == ASSUME InboxInv, NEW s \in Sync, RecordContent(s) PROVE InboxInv'
<1>1. PICK x : x = sync[s].wrap
  OBVIOUS
<1>2. /\ sync[s].pc = "record" /\ Go(s, "find") /\ UNCHANGED <<day, wrapAt, dmLog, lastSync>>
      /\ \/ reported' = reported \cup {x} /\ UNCHANGED excused
         \/ excused' = excused \cup {x} /\ UNCHANGED reported
  BY <1>1 DEF RecordContent, At
<1>3. Grows /\ dmLog' \in [Wrap -> Nat]
  BY <1>2 DEF Grows, InboxInv, InboxTyped
<1> QED
  BY <1>1, <1>2, <1>3, GoOn

LEMMA FindDmInv == ASSUME InboxInv, NEW s \in Sync, FindDm(s) PROVE InboxInv'
<1>1. PICK x : x = sync[s].wrap
  OBVIOUS
<1>2. /\ sync[s].pc = "find"
      /\ Go(s, IF sync[s].logged \/ dmLog[x] > 0 THEN "next" ELSE "insert")
      /\ UNCHANGED <<day, wrapAt, dmLog, reported, lastSync, excused>>
  BY <1>1 DEF FindDm, At
<1>3. /\ x \in Wrap /\ (sync[s].logged => dmLog[x] > 0)
      /\ (x \in ContentReport => x \in reported \cup excused)
  BY <1>1, <1>2 DEF InboxInv, KnowsItsWrap
<1>4. Grows /\ dmLog' \in [Wrap -> Nat]
  BY <1>2 DEF Grows, InboxInv, InboxTyped
<1>5. CASE sync[s].logged \/ dmLog[x] > 0
  <2>1. x \in excused' \/ Handled(x)'
    BY <1>2, <1>3, <1>5 DEF Handled
  <2> QED
    BY <1>1, <1>2, <1>4, <1>5, <2>1, GoOn
<1>6. CASE ~(sync[s].logged \/ dmLog[x] > 0)
  BY <1>1, <1>2, <1>3, <1>4, <1>6, GoOn
<1> QED
  BY <1>5, <1>6

LEMMA InsertDmInv == ASSUME InboxInv, NEW s \in Sync, InsertDm(s) PROVE InboxInv'
<1>1. PICK x : x = sync[s].wrap
  OBVIOUS
<1>2. /\ sync[s].pc = "insert" /\ Go(s, "next") /\ dmLog' = [dmLog EXCEPT ![x] = @ + 1]
      /\ UNCHANGED <<day, wrapAt, reported, lastSync, excused>>
  BY <1>1 DEF InsertDm, At
<1>3. /\ x \in Wrap /\ dmLog \in [Wrap -> Nat]
      /\ (x \in ContentReport => x \in reported \cup excused)
  BY <1>1, <1>2 DEF InboxInv, InboxTyped, KnowsItsWrap
<1>4. Grows /\ dmLog' \in [Wrap -> Nat] /\ dmLog'[x] > 0
  BY <1>2, <1>3 DEF Grows
<1>5. x \in excused' \/ Handled(x)'
  BY <1>2, <1>3, <1>4 DEF Handled
<1> QED
  BY <1>1, <1>2, <1>4, <1>5, GoOn

LEMMA ProcessFailsInv == ASSUME InboxInv, NEW s \in Sync, ProcessFails(s) PROVE InboxInv'
<1>1. PICK x : x = sync[s].wrap
  OBVIOUS
<1>2. /\ sync[s].pc \in {"record", "find", "insert"} /\ Go(s, "next")
      /\ excused' = excused \cup {x} /\ UNCHANGED <<day, wrapAt, dmLog, reported, lastSync>>
  BY <1>1 DEF ProcessFails
<1>3. Grows /\ dmLog' \in [Wrap -> Nat]
  BY <1>2 DEF Grows, InboxInv, InboxTyped
<1> QED
  BY <1>1, <1>2, <1>3, GoOn

LEMMA EndSyncInv == ASSUME InboxInv, NEW s \in Sync, EndSync(s) PROVE InboxInv'
<1>1. /\ sync[s].pc = "next" /\ sync[s].todo = {} /\ sync' = [sync EXCEPT ![s] = IdleSync]
      /\ lastSync' = IF sync[s].complete THEN day ELSE lastSync
      /\ UNCHANGED <<day, wrapAt, dmLog, reported, excused>>
  BY DEF EndSync, At
<1>2. IdleSync \in Syncs /\ IdleSync.pc = "idle"
  BY DEF Syncs, SyncSteps, IdleSync
<1>3. InboxTyped'
  BY <1>1, <1>2 DEF InboxInv, InboxTyped
<1>4. OnRelay' = OnRelay /\ OnRelay \subseteq Wrap /\ \A w \in Wrap : Handled(w)' = Handled(w)
  BY <1>1 DEF OnRelay, Handled
<1>5. NoMessageSlips'
  <2>1. CASE sync[s].complete
    <3>1. \A w \in OnRelay \ excused : Handled(w)
      BY <1>1, <2>1 DEF InboxInv, ReadsAll, Handling
    <3> QED
      BY <1>1, <1>4, <3>1 DEF NoMessageSlips
  <2>2. CASE ~sync[s].complete
    <3>1. Since' = Since
      BY <1>1, <2>2 DEF Since
    <3> QED
      BY <1>1, <1>4, <3>1 DEF InboxInv, NoMessageSlips
  <2> QED
    BY <2>1, <2>2
<1>6. ASSUME NEW n \in Sync PROVE ReadsAll(sync[n])' /\ KnowsItsWrap(sync[n])'
  <2>1. CASE n = s
    BY <1>1, <1>2, <2>1 DEF InboxInv, InboxTyped, ReadsAll, KnowsItsWrap
  <2>2. CASE n # s
    <3>1. PICK b \in Syncs : b = sync[n]
      BY DEF InboxInv, InboxTyped
    <3>2. ReadsAll(b)' /\ KnowsItsWrap(b)'
      BY <1>1, <3>1, KnowledgeStays DEF InboxInv, Grows
    <3>3. sync'[n] = b
      BY <1>1, <2>2, <3>1 DEF InboxInv, InboxTyped
    <3> QED
      BY <3>2, <3>3 DEF ReadsAll, KnowsItsWrap, Handling
  <2> QED
    BY <2>1, <2>2
<1> QED
  BY <1>3, <1>5, <1>6 DEF InboxInv

LEMMA CrashSyncInv == ASSUME InboxInv, NEW s \in Sync, CrashSync(s) PROVE InboxInv'
<1>1. /\ sync' = [sync EXCEPT ![s] = IdleSync]
      /\ UNCHANGED <<day, wrapAt, dmLog, reported, lastSync, excused>>
  BY DEF CrashSync
<1>2. IdleSync \in Syncs /\ ReadsAll(IdleSync)' /\ KnowsItsWrap(IdleSync)'
  BY DEF Syncs, SyncSteps, IdleSync, ReadsAll, KnowsItsWrap
<1> QED
  BY <1>1, <1>2, SyncStep DEF Grows, InboxInv, InboxTyped

LEMMA InboxNextInv == InboxInv /\ [InboxNext]_inboxVars => InboxInv'
<1> SUFFICES ASSUME InboxInv, [InboxNext]_inboxVars PROVE InboxInv'
  OBVIOUS
<1>1. CASE UNCHANGED inboxVars
  BY <1>1 DEF inboxVars, InboxInv, InboxTyped, NoMessageSlips, ReadsAll, KnowsItsWrap, Handled,
              Handling, OnRelay, Since
<1>2. CASE Day
  BY <1>2, DayInv
<1>3. CASE \E w \in Wrap : Write(w)
  BY <1>3, WriteInv
<1>4. CASE \E s \in Sync : \/ FetchComplete(s) \/ FetchPartial(s) \/ InboxSteps(s)
                            \/ ProcessFails(s) \/ CrashSync(s)
  BY <1>4, FetchCompleteInv, FetchPartialInv, LookInv, RecordContentInv, FindDmInv, InsertDmInv,
     EndSyncInv, ProcessFailsInv, CrashSyncInv DEF InboxSteps
<1> QED
  BY <1>1, <1>2, <1>3, <1>4 DEF InboxNext

\* What the invocations of syncInbox keep between them: the property below, and
\* of every complete read under way, that what it answered for is handled, in
\* hand, or still to be done (dm-reader.mjs 207-259).
THEOREM InboxInvariant == InboxSpec => []InboxInv
  BY InboxInitInv, InboxNextInv, PTL DEF InboxSpec

\* However many invocations overlap, fail, are cut short or end at an await, a
\* wrap that has not been logged and recorded is inside the window of the next
\* read (dm-reader.mjs 177-187, 236-252).
THEOREM NoMessageSlipsHolds == InboxSpec => []NoMessageSlips
<1>1. InboxInv => NoMessageSlips
  BY DEF InboxInv
<1> QED
  BY <1>1, InboxInvariant, PTL

HIDE InboxAssumption DEF TWO_DAYS, FirstRunLookback

-----------------------------------------------------------------------------
(* GiftWrapFetch. The handshake with a relay that accepts the key of the   *)
(* reader never stalls, in whatever order its frames arrive.               *)

Heard(f) == \E i \in 1..Len(frames) : frames[i] = f
OnItsWay(f) == f \in deciding \/ Heard(f)

\* What stands for the answer to the challenge, and for that to a subscription.
ChallengeUnderWay == Heard("AUTH") \/ "AUTH" \in received \/ OnItsWay("OK")
AnswerUnderWay == "EVENTS" \in deciding \/ Heard("EOSE") \/ OnItsWay("CLOSED auth-required")

Waiting == accepting /\ reader.outcome = "open"

FetchInv ==
  /\ FetchTypeOK
  /\ ~gated => ~reader.subClosedForAuth /\ ~OnItsWay("CLOSED auth-required")
  /\ Waiting /\ ~reader.reqResent =>
       /\ gated => ChallengeUnderWay \/ reader.authConfirmed
       /\ "REQ 1" \in received \/ AnswerUnderWay \/ reader.subClosedForAuth
       /\ ~(reader.authConfirmed /\ reader.subClosedForAuth)
  /\ Waiting /\ reader.reqResent => "REQ 2" \in received \/ AnswerUnderWay

-----------------------------------------------------------------------------
(* Frames on their way.                                                    *)

LEMMA ShortSequences ==
  ASSUME NEW S, NEW a \in S, NEW b \in S
  PROVE  /\ <<>> \in Seq(S) /\ 1..Len(<<>>) = {}
         /\ <<a>> \in Seq(S) /\ Len(<<a>>) = 1 /\ <<a>>[1] = a
         /\ <<a, b>> \in Seq(S) /\ Len(<<a, b>>) = 2 /\ <<a, b>>[1] = a /\ <<a, b>>[2] = b
  OBVIOUS

LEMMA OneToLength ==
  /\ 1 \in 1..1 /\ \A i \in 1..1 : i = 1
  /\ {1, 2} \subseteq 1..2 /\ \A i \in 1..2 : i = 1 \/ i = 2
  OBVIOUS

LEMMA AppendedHeard ==
  ASSUME FetchTypeOK, NEW s \in Seq(Frames), frames' = frames \o s
  PROVE  /\ \A f : Heard(f) => Heard(f)'
         /\ \A f : Heard(f)' => Heard(f) \/ \E i \in 1..Len(s) : s[i] = f
         /\ \A i \in 1..Len(s) : Heard(s[i])'
<1>1. frames \in Seq(Frames)
  BY DEF FetchTypeOK
<1>2. Len(frames \o s) = Len(frames) + Len(s) /\ Len(frames) \in Nat /\ Len(s) \in Nat
  BY <1>1
<1>3. \A i \in 1..Len(frames) : (frames \o s)[i] = frames[i]
  BY <1>1
<1>4. \A i \in 1..Len(s) : (frames \o s)[Len(frames) + i] = s[i] /\ Len(frames) + i \in 1..Len(frames \o s)
  BY <1>1, <1>2
<1>5. \A f : Heard(f)' => Heard(f) \/ \E i \in 1..Len(s) : s[i] = f
  <2> SUFFICES ASSUME NEW i \in 1..Len(frames \o s), i \notin 1..Len(frames)
               PROVE  \E j \in 1..Len(s) : s[j] = (frames \o s)[i]
    BY <1>3 DEF Heard
  <2>1. i - Len(frames) \in 1..Len(s) /\ i = Len(frames) + (i - Len(frames))
    BY <1>2
  <2> QED
    BY <1>4, <2>1
<1>6. \A f : Heard(f) => Heard(f)'
  <2>1. 1..Len(frames) \subseteq 1..Len(frames \o s)
    BY <1>2
  <2> QED
    BY <1>3, <2>1 DEF Heard
<1>7. \A i \in 1..Len(s) : Heard(s[i])'
  BY <1>4 DEF Heard
<1> QED
  BY <1>5, <1>6, <1>7

LEMMA TailHeard ==
  ASSUME FetchTypeOK, frames # <<>>, frames' = Tail(frames)
  PROVE  /\ Head(frames) \in Frames /\ Heard(Head(frames)) /\ Tail(frames) \in Seq(Frames)
         /\ \A f : Heard(f) => f = Head(frames) \/ Heard(f)'
         /\ \A f : Heard(f)' => Heard(f)
<1>1. frames \in Seq(Frames)
  BY DEF FetchTypeOK
<1>2. /\ Len(frames) \in Nat \ {0} /\ Len(Tail(frames)) = Len(frames) - 1
      /\ Head(frames) = frames[1] /\ Tail(frames) \in Seq(Frames) /\ frames[1] \in Frames
  BY <1>1
<1>3. \A i \in 1..Len(Tail(frames)) : Tail(frames)[i] = frames[i + 1]
  BY <1>1
<1>4. \A i \in 1..Len(frames) : i = 1 \/ (i - 1 \in 1..Len(Tail(frames)) /\ Tail(frames)[i - 1] = frames[i])
  BY <1>2, <1>3
<1>5. \A i \in 1..Len(Tail(frames)) : i + 1 \in 1..Len(frames)
  BY <1>2
<1> QED
  BY <1>2, <1>3, <1>4, <1>5 DEF Heard

-----------------------------------------------------------------------------
LEMMA FetchInitInv == FetchInit => FetchInv
<1> SUFFICES ASSUME FetchInit PROVE FetchInv
  OBVIOUS
<1>1. frames \in Seq(Frames) /\ \A i \in 1..Len(frames) : frames[i] = "AUTH"
  <2>1. "AUTH" \in Frames
    BY DEF Frames
  <2>2. CASE gated
    BY <2>1, <2>2, ShortSequences, OneToLength DEF FetchInit
  <2>3. CASE ~gated
    BY <2>1, <2>3, ShortSequences DEF FetchInit
  <2> QED
    BY <2>2, <2>3
<1>2. gated => Heard("AUTH")
  BY ShortSequences, OneToLength DEF FetchInit, Heard
<1>3. FetchTypeOK
  <2>1. reader \in Reader
    BY DEF FetchInit, Reader, Outcomes
  <2> QED
    BY <1>1, <2>1 DEF FetchInit, FetchTypeOK, Requests
<1>4. ~Heard("CLOSED auth-required")
  BY <1>1 DEF Heard
<1> QED
  BY <1>2, <1>3, <1>4 DEF FetchInit, FetchInv, OnItsWay, ChallengeUnderWay

LEMMA DecideInv == FetchInv /\ Decide => FetchInv'
<1> SUFFICES ASSUME FetchInv, Decide PROVE FetchInv'
  OBVIOUS
<1>1. PICK r \in received : \E f \in Verdict(r) :
        /\ received' = received \ {r} /\ deciding' = deciding \cup {f}
        /\ authed' = (authed \/ f = "OK")
  BY DEF Decide
<1>2. PICK f \in Verdict(r) :
        /\ received' = received \ {r} /\ deciding' = deciding \cup {f}
        /\ authed' = (authed \/ f = "OK")
  BY <1>1
<1>3. FetchTypeOK /\ r \in Requests /\ authed \in BOOLEAN
  BY DEF FetchInv, FetchTypeOK
<1>4. UNCHANGED <<gated, accepting, frames, reader>>
  BY DEF Decide
<1>5. f \in Frames
  BY <1>2, <1>3 DEF Verdict, Frames, Requests
<1>6. FetchTypeOK'
  BY <1>2, <1>3, <1>4, <1>5 DEF FetchTypeOK
<1>7. \A g : (Heard(g) <=> Heard(g)') /\ (OnItsWay(g)' <=> OnItsWay(g) \/ f = g)
  BY <1>2, <1>4 DEF Heard, OnItsWay
<1>8. ~gated => f # "CLOSED auth-required"
  BY <1>2, <1>3 DEF Verdict, Requests
<1>9. accepting => IF r = "AUTH" THEN f = "OK" ELSE f \in {"EVENTS", "CLOSED auth-required"}
  BY <1>2, <1>3 DEF Verdict, Requests
<1>10. Waiting /\ r = "AUTH" => ChallengeUnderWay' /\ (AnswerUnderWay => AnswerUnderWay')
  BY <1>2, <1>7, <1>9 DEF Waiting, ChallengeUnderWay, AnswerUnderWay
<1>11. Waiting /\ r # "AUTH" => AnswerUnderWay' /\ (ChallengeUnderWay => ChallengeUnderWay')
  BY <1>2, <1>7, <1>9 DEF Waiting, ChallengeUnderWay, AnswerUnderWay
<1> QED
  BY <1>2, <1>4, <1>6, <1>7, <1>8, <1>10, <1>11 DEF FetchInv, Waiting

LEMMA SendInv ==
  ASSUME FetchInv, NEW f \in Frames, Send(f)
  PROVE  FetchInv'
<1> DEFINE s == IF f = "EVENTS" THEN <<"EVENTS", "EOSE">> ELSE <<f>>
<1>1. FetchTypeOK /\ s \in Seq(Frames) /\ frames' = frames \o s
  <2>1. "EVENTS" \in Frames /\ "EOSE" \in Frames
    BY DEF Frames
  <2>2. <<"EVENTS", "EOSE">> \in Seq(Frames) /\ <<f>> \in Seq(Frames)
    BY <2>1, ShortSequences
  <2> QED
    BY <2>2 DEF FetchInv, Send
<1>2. UNCHANGED <<gated, accepting, authed, received, reader>> /\ deciding' = deciding \ {f}
      /\ f \in deciding
  BY DEF Send
<1>3. /\ f # "EVENTS" => Len(s) = 1 /\ s[1] = f
      /\ f = "EVENTS" => Len(s) = 2 /\ s[1] = "EVENTS" /\ s[2] = "EOSE"
  BY ShortSequences
<1> HIDE DEF s
<1>4. \A g : Heard(g) => Heard(g)'
  BY <1>1, AppendedHeard
<1>5. f # "EVENTS" => Heard(f)'
  <2>1. \A i \in 1..Len(s) : Heard(s[i])'
    BY <1>1, AppendedHeard
  <2>2. f # "EVENTS" => 1 \in 1..Len(s)
    BY <1>3
  <2> QED
    BY <1>3, <2>1, <2>2
<1>6. f = "EVENTS" => Heard("EOSE")'
  <2>1. \A i \in 1..Len(s) : Heard(s[i])'
    BY <1>1, AppendedHeard
  <2>2. f = "EVENTS" => 2 \in 1..Len(s)
    BY <1>3
  <2> QED
    BY <1>3, <2>1, <2>2
<1>7. \A i \in 1..Len(s) : s[i] = "CLOSED auth-required" => f = "CLOSED auth-required"
  <2>1. CASE f # "EVENTS"
    BY <1>3, <2>1, OneToLength
  <2>2. CASE f = "EVENTS"
    BY <1>3, <2>2, OneToLength
  <2> QED
    BY <2>1, <2>2
<1>8. OnItsWay("CLOSED auth-required")' => OnItsWay("CLOSED auth-required")
  <2>1. Heard("CLOSED auth-required")' =>
          Heard("CLOSED auth-required") \/ \E i \in 1..Len(s) : s[i] = "CLOSED auth-required"
    BY <1>1, AppendedHeard
  <2> QED
    BY <1>2, <1>7, <2>1 DEF OnItsWay
<1>9. (ChallengeUnderWay => ChallengeUnderWay') /\ (AnswerUnderWay => AnswerUnderWay')
  BY <1>2, <1>4, <1>5, <1>6 DEF ChallengeUnderWay, AnswerUnderWay, OnItsWay
<1>10. FetchTypeOK'
  <2>1. frames' \in Seq(Frames)
    BY <1>1 DEF FetchTypeOK
  <2> QED
    BY <1>1, <1>2, <2>1 DEF FetchTypeOK
<1> QED
  BY <1>2, <1>8, <1>9, <1>10 DEF FetchInv, Waiting

-----------------------------------------------------------------------------
(* What the reader does with a frame.                                      *)

LEMMA FinishedInv ==
  ASSUME FetchInv, FetchTypeOK', NEW outcome \in Outcomes \ {"open"}, Finish(outcome),
         UNCHANGED <<gated, accepting, deciding>>, \A f : Heard(f)' => Heard(f)
  PROVE  FetchInv'
<1>1. reader' = [reader EXCEPT !.outcome = outcome] \/ (reader' = reader /\ reader.outcome # "open")
  BY DEF Finish
<1>2. reader'.outcome # "open" /\ reader'.subClosedForAuth = reader.subClosedForAuth
  BY <1>1 DEF FetchInv, FetchTypeOK, Reader, Outcomes
<1> QED
  BY <1>2 DEF FetchInv, Waiting, OnItsWay

LEMMA FinishType ==
  ASSUME FetchTypeOK, NEW outcome \in Outcomes, Finish(outcome)
  PROVE  reader' \in Reader /\ received' = received
  BY DEF FetchTypeOK, Finish, Reader

LEMMA HearInv == FetchInv /\ Hear => FetchInv'
<1> SUFFICES ASSUME FetchInv, Hear PROVE FetchInv'
  OBVIOUS
<1> DEFINE f == Head(frames)
<1>1. /\ FetchTypeOK /\ reader.outcome = "open" /\ frames # <<>> /\ frames' = Tail(frames)
      /\ UNCHANGED <<gated, accepting, authed, deciding>>
  BY DEF FetchInv, Hear
<1>2. f \in Frames /\ Heard(f) /\ frames' \in Seq(Frames)
  BY <1>1, TailHeard
<1>3. (\A g : Heard(g) => g = f \/ Heard(g)') /\ (\A g : Heard(g)' => Heard(g))
  BY <1>1, TailHeard
<1>4. ASSUME reader' \in Reader, received' \subseteq Requests PROVE FetchTypeOK'
  BY <1>1, <1>2, <1>4 DEF FetchTypeOK
<1>5. reader \in Reader /\ received \subseteq Requests
  BY <1>1 DEF FetchTypeOK
<1>6. \A g : g # f => (OnItsWay(g)' <=> OnItsWay(g))
  BY <1>1, <1>3 DEF OnItsWay
<1> HIDE DEF f
<1>7. CASE f = "EVENTS"
  <2>1. UNCHANGED <<reader, received>>
    BY <1>7 DEF Hear, f
  <2> QED
    BY <1>1, <1>3, <1>4, <1>5, <1>6, <1>7, <2>1 DEF FetchInv, Waiting, ChallengeUnderWay, AnswerUnderWay
<1>8. CASE f \in {"EOSE", "NOT OK", "CLOSED"}
  <2>1. PICK outcome \in {"complete", "error"} : Finish(outcome)
    BY <1>8 DEF Hear, f, OnEose
  <2> QED
    BY <1>1, <1>3, <1>4, <1>5, <2>1, FinishType, FinishedInv DEF Outcomes
<1>9. CASE f = "AUTH"
  <2>1. reader' = [reader EXCEPT !.answered = TRUE] /\ received' = received \cup {"AUTH"}
    BY <1>9 DEF Hear, f, OnChallenge
  <2>2. FetchTypeOK'
    BY <1>4, <1>5, <2>1 DEF Reader, Requests
  <2>3. /\ reader'.outcome = "open" /\ reader'.reqResent = reader.reqResent
        /\ reader'.subClosedForAuth = reader.subClosedForAuth
        /\ reader'.authConfirmed = reader.authConfirmed
    BY <1>1, <1>5, <2>1 DEF Reader
  <2>4. ChallengeUnderWay' /\ (AnswerUnderWay => AnswerUnderWay')
    BY <1>1, <1>3, <1>6, <1>9, <2>1 DEF ChallengeUnderWay, AnswerUnderWay
  <2> QED
    BY <1>1, <1>6, <1>9, <2>1, <2>2, <2>3, <2>4 DEF FetchInv, Waiting
<1>10. CASE f = "OK"
  <2> DEFINE new == [reader EXCEPT !.authConfirmed = TRUE]
  <2>1. ResendWith(new)
    BY <1>10 DEF Hear, f, OnOk
  <2>2. /\ new \in Reader /\ new.outcome = "open" /\ new.authConfirmed
        /\ new.subClosedForAuth = reader.subClosedForAuth /\ new.reqResent = reader.reqResent
    BY <1>1, <1>5 DEF Reader
  <2>3. AnswerUnderWay => AnswerUnderWay'
    BY <1>1, <1>3, <1>6, <1>10 DEF AnswerUnderWay
  <2> HIDE DEF new
  <2>4. CASE new.subClosedForAuth /\ ~new.reqResent
    <3>1. reader' = [new EXCEPT !.reqResent = TRUE] /\ received' = received \cup {"REQ 2"}
      BY <2>1, <2>2, <2>4 DEF ResendWith
    <3>2. FetchTypeOK' /\ reader'.reqResent /\ reader'.subClosedForAuth = reader.subClosedForAuth
      BY <1>4, <1>5, <2>2, <3>1 DEF Reader, Requests
    <3> QED
      BY <1>1, <1>6, <1>10, <3>1, <3>2 DEF FetchInv
  <2>5. CASE ~(new.subClosedForAuth /\ ~new.reqResent)
    <3>1. reader' = new /\ received' = received
      BY <2>1, <2>2, <2>5 DEF ResendWith
    <3>2. FetchTypeOK'
      BY <1>4, <1>5, <2>2, <3>1
    <3> QED
      BY <1>1, <1>6, <1>10, <2>2, <2>3, <2>5, <3>1, <3>2 DEF FetchInv, Waiting
  <2> QED
    BY <2>4, <2>5
<1>11. CASE f = "CLOSED auth-required" /\ reader.reqResent
  <2>1. Finish("error")
    BY <1>11 DEF Hear, f, OnClosedForAuth
  <2> QED
    BY <1>1, <1>3, <1>4, <1>5, <2>1, FinishType, FinishedInv DEF Outcomes
<1>12. CASE f = "CLOSED auth-required" /\ ~reader.reqResent
  <2> DEFINE new == [reader EXCEPT !.subClosedForAuth = TRUE]
  <2>1. ResendWith(new)
    BY <1>12 DEF Hear, f, OnClosedForAuth
  <2>2. /\ new \in Reader /\ new.outcome = "open" /\ new.subClosedForAuth
        /\ new.authConfirmed = reader.authConfirmed /\ ~new.reqResent
    BY <1>1, <1>5, <1>12 DEF Reader
  <2>3. gated
    BY <1>2, <1>12 DEF FetchInv, OnItsWay
  <2>4. ChallengeUnderWay => ChallengeUnderWay'
    <3>1. \A g : g # f => (Heard(g) => Heard(g)')
      BY <1>3
    <3>2. CASE new.authConfirmed
      BY <1>1, <1>6, <1>12, <3>1, <2>1 DEF ChallengeUnderWay, ResendWith
    <3>3. CASE ~new.authConfirmed
      BY <1>1, <1>6, <1>12, <3>1, <2>1, <3>3 DEF ChallengeUnderWay, ResendWith
    <3> QED
      BY <3>2, <3>3
  <2> HIDE DEF new
  <2>5. CASE new.authConfirmed
    <3>1. reader' = [new EXCEPT !.reqResent = TRUE] /\ received' = received \cup {"REQ 2"}
      BY <2>1, <2>2, <2>5 DEF ResendWith
    <3>2. FetchTypeOK' /\ reader'.reqResent
      BY <1>4, <1>5, <2>2, <3>1 DEF Reader, Requests
    <3> QED
      BY <1>1, <2>3, <3>1, <3>2 DEF FetchInv
  <2>6. CASE ~new.authConfirmed
    <3>1. reader' = new /\ received' = received
      BY <2>1, <2>6 DEF ResendWith
    <3>2. FetchTypeOK'
      BY <1>4, <1>5, <2>2, <3>1
    <3> QED
      BY <1>1, <1>12, <2>2, <2>3, <2>4, <2>6, <3>1, <3>2 DEF FetchInv, Waiting
  <2> QED
    BY <2>5, <2>6
<1> QED
  BY <1>2, <1>7, <1>8, <1>9, <1>10, <1>11, <1>12 DEF Frames

LEMMA FetchInvStep ==
  ASSUME FetchInv, [FetchNext]_fetchVars
  PROVE  FetchInv'
<1>1. CASE UNCHANGED fetchVars
  BY <1>1 DEF fetchVars, FetchInv, FetchTypeOK, Waiting, ChallengeUnderWay, AnswerUnderWay,
     OnItsWay, Heard
<1>2. CASE GiveUp
  <2>1. PICK outcome \in {"incomplete", "error"} : Finish(outcome)
    BY <1>2 DEF GiveUp
  <2>2. FetchTypeOK'
    BY <1>2, <2>1, FinishType DEF GiveUp, FetchInv, FetchTypeOK, Outcomes
  <2>3. \A f : Heard(f)' => Heard(f)
    BY <1>2 DEF GiveUp, Heard
  <2> QED
    BY <1>2, <2>1, <2>2, <2>3, FinishedInv DEF GiveUp, Outcomes
<1> QED
  BY <1>1, <1>2, DecideInv, SendInv, HearInv DEF FetchNext

\* The strengthening holds in every state of the handshake that wraps are fetched
\* with: each frame that the reader still waits for is one that the relay owes it.
THEOREM FetchInvariant == FetchSpec => []FetchInv
  BY FetchInitInv, FetchInvStep, PTL DEF FetchSpec

\* With a relay that accepts the key, a read ends by an answer and not by the
\* timeout, whatever the order in which the relay refuses the subscription and
\* accepts the key.
THEOREM HandshakeNeverStalls == FetchSpec => []NeverWaitsInVain
<1>1. FetchInv => NeverWaitsInVain
  <2> SUFFICES ASSUME FetchInv, accepting, reader.outcome = "open",
                      received = {}, deciding = {}, frames = <<>>
               PROVE  FALSE
    BY DEF NeverWaitsInVain
  <2>1. \A f : ~Heard(f) /\ ~OnItsWay(f)
    BY DEF Heard, OnItsWay
  <2> QED
    BY <2>1 DEF FetchInv, Waiting, ChallengeUnderWay, AnswerUnderWay
<1> QED
  BY <1>1, FetchInvariant, PTL

=============================================================================
