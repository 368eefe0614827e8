----------------------- MODULE PrivateReports_proofs -----------------------
(***************************************************************************)
(* Theorems about PrivateReports, for every set of invocations and wraps,  *)
(* every finite set of reports, and every value of the limits.             *)
(***************************************************************************)
EXTENDS PrivateReports, FiniteSetTheorems, TLAPS

-----------------------------------------------------------------------------
(* Well-formed states: typed; nobody works on a row that may be pruned;    *)
(* and an answer of relay-manager is about the report in hand.             *)

RowsOK ==
  /\ row \in [Report -> Row \cup {Nothing}]
  /\ before \subseteq Rows \X Rows
  /\ old \subseteq Rows /\ \A x \in old : x \notin Pending
  /\ logged \subseteq Wrap /\ pruned \subseteq Report

ManagerOK ==
  /\ items \subseteq Report /\ refused \subseteq Report
  /\ fired \in BOOLEAN /\ faults \in 0..MaxFaults
  /\ lease \in [Report -> Cron \cup {"orphan", Nothing}]
  /\ \A x \in Report : lease[x] # Nothing => x \in Rows \ old
  /\ \A x \in Report, c \in Cron : lease[x] = c => Waiting(c) /\ job[c].current = x

JobOK(c) ==
  /\ job[c].pc = "handoff" => job[c].current \in job[c].batch
  /\ job[c].pc # "handoff" => job[c].batch = {}
  /\ job[c].batch \subseteq Rows \ old
  /\ job[c].pc = "handoff" /\ job[c].answer = "success" => job[c].current \in items

WellFormed ==
  RowsOK /\ ManagerOK /\ job \in [Cron -> Job] /\ \A c \in Cron : JobOK(c)

LEMMA WellFormedType == WellFormed => TypeOK
  BY DEF WellFormed, RowsOK, ManagerOK, JobOK, TypeOK

USE ReportsAssumption

-----------------------------------------------------------------------------
(* Effects of the steps on one invocation.                                 *)

\* Invocation c goes on with r, the others stay where they are.
Becomes(c, r) ==
  /\ job' \in [Cron -> Job] /\ job'[c] = r
  /\ \A d \in Cron \ {c} : job'[d] = job[d]

LEMMA BecomesRule ==
  ASSUME job \in [Cron -> Job], NEW c \in Cron, NEW r \in Job,
         job' = [job EXCEPT ![c] = r]
  PROVE  Becomes(c, r)
  BY DEF Becomes

LEMMA IdleType == Idle \in Job
  BY DEF Idle, Job, Attempts, CONSECUTIVE_TIMEOUTS_TO_STOP

\* Where Hand leaves an invocation.
Handed(j, batch, k) ==
  /\ k \in Job /\ k.answer = Nothing
  /\ \/ k.pc = "prune" /\ k.batch = {}
     \/ /\ k.pc = "handoff" /\ k.batch = batch /\ k.untried = j.untried
        /\ k.current \in batch
        /\ \A z \in batch \ {k.current} : Precedes(k.current, z)

LEMMA HandEffect ==
  ASSUME NEW j \in Job, NEW batch \in SUBSET Report, NEW k \in Hand(j, batch)
  PROVE  Handed(j, batch, k)
<1>1. CASE batch = {}
  <2>1. k = [Idle EXCEPT !.pc = "prune"]
    BY <1>1 DEF Hand
  <2> QED
    BY <2>1, IdleType DEF Handed, Job, Idle
<1>2. CASE batch # {}
  <2>1. PICK x \in batch :
          /\ \A z \in batch \ {x} : Precedes(x, z)
          /\ k = [j EXCEPT !.pc = "handoff", !.batch = batch, !.current = x, !.answer = Nothing]
    BY <1>2 DEF Hand
  <2>2. /\ k \in Job /\ k.answer = Nothing /\ k.pc = "handoff" /\ k.batch = batch
        /\ k.untried = j.untried /\ k.current = x
    BY <2>1 DEF Job
  <2> QED
    BY <2>1, <2>2 DEF Handed
<1> QED
  BY <1>1, <1>2

\* A settle takes the current report off the batch, or ends the delivery.
LEMMA ProceedEffect ==
  ASSUME WellFormed, NEW c \in Cron, job[c].pc = "handoff", Proceed(c)
  PROVE  \E k, j : \E batch \in SUBSET (job[c].batch \ {job[c].current}) :
           /\ Becomes(c, k) /\ Handed(j, batch, k)
           /\ batch = {} \/ batch = job[c].batch \ {job[c].current}
           /\ j.untried = job[c].untried \ {job[c].current}
<1>1. job[c] \in Job /\ job[c].current \in job[c].batch /\ job[c].batch \subseteq Report
  BY DEF WellFormed, JobOK, Rows
<1>2. PICK slow \in Duration(job[c].answer) : \E k \in AfterAnswer(job[c], slow) :
        job' = [job EXCEPT ![c] = k]
  BY DEF Proceed
<1>3. PICK k \in AfterAnswer(job[c], slow) : job' = [job EXCEPT ![c] = k]
  BY <1>2
<1> DEFINE used == Smaller(job[c].used + slow, Budget)
           timeouts == IF job[c].answer = "timeout" THEN job[c].timeouts + 1 ELSE 0
           stop == \/ job[c].answer \in {"unauthorized", "broken"}
                   \/ timeouts >= CONSECUTIVE_TIMEOUTS_TO_STOP
                   \/ used >= Budget
           batch == IF stop THEN {} ELSE job[c].batch \ {job[c].current}
           j == [job[c] EXCEPT !.untried = @ \ {job[c].current}, !.read[job[c].current] = 0,
                               !.used = used, !.timeouts = timeouts]
<1>4. k \in Hand(j, batch)
  BY <1>3 DEF AfterAnswer
<1>5. slow \in {0, 1} /\ job[c].used \in 0..Budget /\ job[c].timeouts \in 0..2
  BY <1>1 DEF Duration, Job, CONSECUTIVE_TIMEOUTS_TO_STOP
<1>6. used \in 0..Budget
  BY <1>5 DEF Smaller
<1>7. timeouts \in Nat /\ (~stop => timeouts \in 0..2)
  BY <1>5 DEF CONSECUTIVE_TIMEOUTS_TO_STOP
<1>8. batch \in SUBSET (job[c].batch \ {job[c].current}) /\ batch \in SUBSET Report
  BY <1>1
<1>9. j.untried = job[c].untried \ {job[c].current}
  BY <1>1 DEF Job
<1>10. Handed(j, batch, k)
  <2>1. CASE stop
    <3>1. k = [Idle EXCEPT !.pc = "prune"]
      BY <1>4, <2>1 DEF Hand
    <3>2. k \in Job /\ k.answer = Nothing /\ k.pc = "prune" /\ k.batch = {}
      BY <3>1, IdleType DEF Job, Idle
    <3> QED
      BY <3>2 DEF Handed
  <2>2. CASE ~stop
    <3>1. job[c].read \in [Report -> Attempts] /\ 0 \in Attempts
      BY <1>1 DEF Job, Attempts
    <3>2. timeouts \in 0..CONSECUTIVE_TIMEOUTS_TO_STOP
      BY <1>7, <2>2 DEF CONSECUTIVE_TIMEOUTS_TO_STOP
    <3> HIDE DEF used, timeouts, stop
    <3>3. j \in Job
      BY <1>1, <1>6, <3>1, <3>2 DEF Job
    <3> HIDE DEF j, batch
    <3> QED
      BY <1>4, <1>8, <3>3, HandEffect
  <2> QED
    BY <2>1, <2>2
<1>11. Becomes(c, k)
  BY <1>3, <1>10, BecomesRule DEF Handed, WellFormed
<1> HIDE DEF j, batch
<1> QED
  BY <1>8, <1>9, <1>10, <1>11 DEF batch

-----------------------------------------------------------------------------
(* Well-formed states stay well-formed, part by part.                      *)

LEMMA SameRows ==
  ASSUME RowsOK, UNCHANGED intake
  PROVE  RowsOK' /\ Rows' = Rows /\ Pending' = Pending /\ old' = old
  BY DEF RowsOK, intake, Rows, Pending

\* The others keep what they have when rows in hand stay and items only grow.
LEMMA OthersOK ==
  ASSUME NEW c \in Cron, JobOK(c), job'[c] = job[c], items \subseteq items',
         Rows \ old \subseteq Rows' \ old'
  PROVE  JobOK(c)'
  BY DEF JobOK

\* Leases that stay where they are, with holders that go on waiting.
LEMMA SameLeases ==
  ASSUME ManagerOK, UNCHANGED manager, fired' \in BOOLEAN, faults' \in 0..MaxFaults,
         Rows \ old \subseteq Rows' \ old',
         \A c \in Cron : Waiting(c) => Waiting(c)' /\ job'[c].current = job[c].current
  PROVE  ManagerOK'
<1>1. lease' = lease /\ items' = items /\ refused' = refused
  BY DEF manager
<1>2. \A x \in Report, c \in Cron :
        lease'[x] = c => Waiting(c)' /\ job'[c].current = x
  BY <1>1 DEF ManagerOK
<1> QED
  BY <1>1, <1>2 DEF ManagerOK

\* A step of an invocation that is not waiting, while relay-manager rests.
LEMMA OwnStep ==
  ASSUME WellFormed, NEW c \in Cron, NEW r, Becomes(c, r), ~Waiting(c), JobOK(c)',
         UNCHANGED manager, fired' \in BOOLEAN, faults' \in 0..MaxFaults, RowsOK',
         Rows \ old \subseteq Rows' \ old'
  PROVE  WellFormed'
<1>1. RowsOK /\ ManagerOK /\ job \in [Cron -> Job] /\ \A d \in Cron : JobOK(d)
  BY DEF WellFormed
<1>2. ManagerOK'
  <2>1. \A d \in Cron : Waiting(d) => Waiting(d)' /\ job'[d].current = job[d].current
    BY DEF Becomes, Waiting
  <2> QED
    BY <1>1, <2>1, SameLeases
<1>3. ASSUME NEW d \in Cron, d # c PROVE JobOK(d)'
  BY <1>1, <1>3, OthersOK DEF Becomes, manager
<1>4. job' \in [Cron -> Job]
  BY DEF Becomes
<1> QED
  BY <1>2, <1>3, <1>4 DEF WellFormed

\* The same when it then works on no report.
LEMMA QuietStep ==
  ASSUME WellFormed, NEW c \in Cron, NEW r \in Job, job' = [job EXCEPT ![c] = r],
         ~Waiting(c), r.pc # "handoff", r.batch = {},
         UNCHANGED manager, fired' \in BOOLEAN, faults' \in 0..MaxFaults, RowsOK',
         Rows \ old \subseteq Rows' \ old'
  PROVE  WellFormed'
<1>1. Becomes(c, r)
  BY BecomesRule DEF WellFormed
<1>2. JobOK(c)'
  BY <1>1 DEF Becomes, JobOK
<1> QED
  BY <1>1, <1>2, OwnStep

\* And when it is handed a report.
LEMMA HandedStep ==
  ASSUME WellFormed, NEW c \in Cron, NEW k, NEW j, NEW batch, Becomes(c, k),
         Handed(j, batch, k), batch \subseteq Rows' \ old', ~Waiting(c),
         UNCHANGED manager, fired' \in BOOLEAN, faults' \in 0..MaxFaults, RowsOK',
         Rows \ old \subseteq Rows' \ old'
  PROVE  WellFormed'
<1>1. Nothing # "success"
  BY NothingAssumption DEF Answer
<1>2. JobOK(c)'
  BY <1>1 DEF Becomes, JobOK, Handed
<1> QED
  BY <1>2, OwnStep

LEMMA BeginType ==
  ASSUME WellFormed, NEW c \in Cron, Begin(c) PROVE WellFormed'
<1>1. PICK W \in SUBSET Polled :
        job' = [job EXCEPT ![c] = [Idle EXCEPT !.pc = "sync", !.left = W]]
  BY DEF Begin
<1>2. [Idle EXCEPT !.pc = "sync", !.left = W] \in Job
  BY IdleType DEF Job, Polled
<1>3. /\ [Idle EXCEPT !.pc = "sync", !.left = W].pc = "sync"
      /\ [Idle EXCEPT !.pc = "sync", !.left = W].batch = {}
  BY DEF Idle
<1>4. ~Waiting(c) /\ UNCHANGED <<intake, manager, faults>> /\ fired' \in BOOLEAN
  BY DEF Begin, Waiting
<1>5. RowsOK' /\ Rows' = Rows /\ old' = old
  BY <1>4, SameRows DEF WellFormed
<1>6. faults' \in 0..MaxFaults
  BY <1>4 DEF WellFormed, ManagerOK
<1> QED
  BY <1>1, <1>2, <1>3, <1>4, <1>5, <1>6, QuietStep

\* An invocation that has dealt with a wrap goes on reading.
LEMMA ReadEffect ==
  ASSUME WellFormed, NEW c \in Cron, job[c].pc = "sync", NEW w \in job[c].left,
         job' = [job EXCEPT ![c].left = @ \ {w}]
  PROVE  /\ w \in Wrap
         /\ \E r \in Job : /\ job' = [job EXCEPT ![c] = r]
                           /\ r.pc = "sync" /\ r.batch = {}
<1>1. job[c] \in Job /\ job[c].batch = {}
  BY DEF WellFormed, JobOK
<1>2. [job[c] EXCEPT !.left = @ \ {w}] \in Job
  BY <1>1 DEF Job
<1>3. /\ [job[c] EXCEPT !.left = @ \ {w}].pc = "sync"
      /\ [job[c] EXCEPT !.left = @ \ {w}].batch = {}
  BY <1>1 DEF Job
<1> QED
  BY <1>1, <1>2, <1>3 DEF Job

LEMMA RecordThrowsType ==
  ASSUME WellFormed, NEW c \in Cron, RecordThrows(c) PROVE WellFormed'
<1>1. PICK w \in job[c].left : job' = [job EXCEPT ![c].left = @ \ {w}]
  BY DEF RecordThrows
<1>2. job[c].pc = "sync" /\ ~Waiting(c) /\ UNCHANGED <<intake, manager, fired, faults>>
  BY DEF RecordThrows, Waiting
<1>3. PICK r \in Job : job' = [job EXCEPT ![c] = r] /\ r.pc = "sync" /\ r.batch = {}
  BY <1>1, <1>2, ReadEffect
<1>4. RowsOK' /\ Rows' = Rows /\ old' = old
  BY <1>2, SameRows DEF WellFormed
<1>5. fired' \in BOOLEAN /\ faults' \in 0..MaxFaults
  BY <1>2 DEF WellFormed, ManagerOK
<1> QED
  BY <1>2, <1>3, <1>4, <1>5, QuietStep

LEMMA InsertEffect ==
  ASSUME RowsOK, NEW x \in Report, InsertRow(x)
  PROVE  /\ row' \in [Report -> Row \cup {Nothing}]
         /\ Rows' = Rows \cup {x}
         /\ Pending \subseteq Pending' /\ Pending' \subseteq Pending \cup {x}
         /\ x \in Rows => Pending' = Pending
         /\ before' \subseteq Rows' \X Rows'
         /\ \A y \in Rows : row'[y] = row[y]
         /\ x \notin Rows => row'[x] = NewRow /\ before' = before \cup (Rows \X {x})
         /\ x \in Rows => before' = before
<1>1. NewRow \in Row /\ NewRow # Nothing
  BY NothingAssumption DEF NewRow, Row, Attempts
<1>2. CASE x \in Rows
  BY <1>2 DEF InsertRow, RowsOK, Rows, Pending
<1>3. CASE x \notin Rows
  BY <1>1, <1>3 DEF InsertRow, RowsOK, Rows, Pending
<1> QED
  BY <1>2, <1>3

LEMMA RecordReportType ==
  ASSUME WellFormed, NEW c \in Cron, RecordReport(c) PROVE WellFormed'
<1>1. PICK w \in job[c].left : /\ job' = [job EXCEPT ![c].left = @ \ {w}]
                              /\ logged' = logged \cup {w} /\ InsertRow(ReportOf[w])
  BY DEF RecordReport
<1>2. /\ job[c].pc = "sync" /\ ~Waiting(c)
      /\ UNCHANGED <<old, pruned, manager, fired, faults>>
  BY DEF RecordReport, Waiting
<1>3. w \in Wrap /\ ReportOf[w] \in Report
  BY <1>1, <1>2, ReadEffect
<1>4. PICK r \in Job : job' = [job EXCEPT ![c] = r] /\ r.pc = "sync" /\ r.batch = {}
  BY <1>1, <1>2, ReadEffect
<1>5. RowsOK /\ old \subseteq Rows /\ old' = old
  BY <1>2 DEF WellFormed, RowsOK
<1>6. RowsOK' /\ Rows \ old \subseteq Rows' \ old'
  BY <1>1, <1>2, <1>3, <1>5, InsertEffect DEF RowsOK
<1>7. fired' \in BOOLEAN /\ faults' \in 0..MaxFaults
  BY <1>2 DEF WellFormed, ManagerOK
<1> QED
  BY <1>2, <1>4, <1>6, <1>7, QuietStep

LEMMA SelectEffect ==
  ASSUME WellFormed, NEW c \in Cron, Select(c)
  PROVE  LET due == {x \in Pending : row[x].next \in {0, Nothing}}
         IN  \E k, j : /\ Becomes(c, k) /\ Handed(j, BatchOf(due), k)
                       /\ j.untried = due
<1> DEFINE due == {x \in Pending : row[x].next \in {0, Nothing}}
           read == [x \in Report |-> IF x \in due THEN row[x].attempts ELSE 0]
           j == [Idle EXCEPT !.untried = due, !.read = read]
<1>1. PICK k \in Hand(j, BatchOf(due)) : job' = [job EXCEPT ![c] = k]
  BY DEF Select
<1>2. due \subseteq Report /\ BatchOf(due) \in SUBSET Report
  BY DEF Pending, Rows, BatchOf
<1>3. read \in [Report -> Attempts]
  <2>1. \A x \in due : row[x] \in Row
    BY DEF Pending, Rows, WellFormed, RowsOK
  <2> QED
    BY <2>1 DEF Row, Attempts
<1> HIDE DEF due, read
<1>4. j \in Job /\ j.untried = due
  BY <1>2, <1>3, IdleType DEF Job, Idle
<1> HIDE DEF j
<1>5. Handed(j, BatchOf(due), k)
  BY <1>1, <1>2, <1>4, HandEffect
<1>6. Becomes(c, k)
  BY <1>1, <1>5, BecomesRule DEF Handed, WellFormed
<1> QED
  BY <1>4, <1>5, <1>6 DEF due

LEMMA SelectType ==
  ASSUME WellFormed, NEW c \in Cron, Select(c) PROVE WellFormed'
<1> DEFINE due == {x \in Pending : row[x].next \in {0, Nothing}}
<1>1. PICK k, j : Becomes(c, k) /\ Handed(j, BatchOf(due), k)
  BY SelectEffect
<1>2. BatchOf(due) \subseteq Rows \ old
  BY DEF BatchOf, Pending, WellFormed, RowsOK
<1>3. ~Waiting(c) /\ UNCHANGED <<intake, manager, fired, faults>>
  BY DEF Select, Waiting
<1>4. RowsOK' /\ Rows' = Rows /\ old' = old
  BY <1>3, SameRows DEF WellFormed
<1>5. fired' \in BOOLEAN /\ faults' \in 0..MaxFaults
  BY <1>3 DEF WellFormed, ManagerOK
<1> HIDE DEF due
<1> QED
  BY <1>1, <1>2, <1>3, <1>4, <1>5, HandedStep

LEMMA DelayType ==
  ASSUME NEW n \in Nat
  PROVE  /\ privateReportRetryDelayMs(n + 1) \in Int
         /\ privateReportRetryDelayMs(n + 1) <= MaxDelay
<1> DEFINE m == BaseDelay * 2 ^ (n + 1 - 1)
<1>1. m \in Int
  <2>1. 2 ^ (n + 1 - 1) \in Int
    OBVIOUS
  <2> QED
    BY <2>1
<1>2. privateReportRetryDelayMs(n + 1) = Smaller(m, MaxDelay)
  BY DEF privateReportRetryDelayMs
<1> HIDE DEF m
<1>3. Smaller(m, MaxDelay) \in Int /\ Smaller(m, MaxDelay) <= MaxDelay
  BY <1>1 DEF Smaller
<1> QED
  BY <1>2, <1>3

\* What a settle makes of a row.
LEMMA OutcomeType ==
  ASSUME WellFormed, NEW c \in Cron, job[c].pc = "handoff"
  PROVE  /\ job[c].current \in Rows \ old
         /\ Outcome(c) \in Row
         /\ Outcome(c).status =
              IF Kind(job[c].answer) = "retry" THEN row[job[c].current].status
              ELSE Kind(job[c].answer)
         /\ (Outcome(c).next = Nothing) <=> Kind(job[c].answer) # "retry"
<1> DEFINE x == job[c].current
<1>1. /\ x \in Report /\ x \in Rows \ old /\ row[x] \in Row
      /\ job[c] \in Job
  BY DEF WellFormed, JobOK, Rows, RowsOK
<1>2. Kind(job[c].answer) \in {"delivered", "rejected", "retry"}
  BY DEF Kind
<1>3. job[c].read[x] \in Nat /\ job[c].elapsed \in 0..MaxDelay
  BY <1>1 DEF Job, Attempts
<1>4. Count(row[x].attempts) \in Attempts
  BY <1>1 DEF Row, Attempts, Count, Smaller
<1> DEFINE delay == privateReportRetryDelayMs(job[c].read[x] + 1)
<1>5. delay \in Int /\ delay <= MaxDelay
  BY <1>3, DelayType
<1> HIDE DEF delay
<1>6. Larger(delay - job[c].elapsed, 0) \in 0..MaxDelay
  BY <1>3, <1>5 DEF Larger
<1>7. Nothing \notin 0..MaxDelay
  BY NothingAssumption
<1>8. row[x].status \in {"pending", "delivered", "rejected"}
  BY <1>1 DEF Row
<1> HIDE DEF x
<1>9. Outcome(c) = [status |-> IF Kind(job[c].answer) = "retry" THEN row[x].status
                               ELSE Kind(job[c].answer),
                    attempts |-> Count(row[x].attempts),
                    next |-> IF Kind(job[c].answer) # "retry" THEN Nothing
                             ELSE Larger(delay - job[c].elapsed, 0)]
  BY DEF Outcome, Settled, delay, x
<1>10. Outcome(c) \in Row
  BY <1>2, <1>4, <1>6, <1>8, <1>9 DEF Row
<1> QED
  BY <1>1, <1>6, <1>7, <1>9, <1>10 DEF x

LEMMA SettleEffect ==
  ASSUME WellFormed, NEW c \in Cron, Settle(c)
  PROVE  /\ row' \in [Report -> Row \cup {Nothing}] /\ Rows' = Rows
         /\ \A x \in Report \ {job[c].current} : row'[x] = row[x]
         /\ job[c].current \in Pending => row'[job[c].current] = Outcome(c)
         /\ job[c].current \notin Pending => row' = row
         /\ Pending' \subseteq Pending
<1>1. job[c].pc = "handoff"
  BY DEF Settle
<1>2. job[c].current \in Rows /\ Outcome(c) \in Row /\ Nothing \notin Row
  BY <1>1, OutcomeType, NothingAssumption
<1>3. row \in [Report -> Row \cup {Nothing}]
  BY DEF WellFormed, RowsOK
<1>4. CASE job[c].current \in Pending
  BY <1>2, <1>3, <1>4 DEF Settle, Rows, Pending
<1>5. CASE job[c].current \notin Pending
  BY <1>3, <1>5 DEF Settle, Rows, Pending
<1> QED
  BY <1>4, <1>5

LEMMA SettleType ==
  ASSUME WellFormed, NEW c \in Cron, Settle(c) PROVE WellFormed'
<1>1. /\ job[c].pc = "handoff" /\ ~Waiting(c) /\ Proceed(c)
      /\ UNCHANGED <<before, old, logged, pruned, manager, fired, faults>>
  BY DEF Settle, Waiting
<1>2. PICK k, j : \E batch \in SUBSET (job[c].batch \ {job[c].current}) :
        Becomes(c, k) /\ Handed(j, batch, k)
  BY <1>1, ProceedEffect
<1>3. PICK batch \in SUBSET (job[c].batch \ {job[c].current}) :
        Becomes(c, k) /\ Handed(j, batch, k)
  BY <1>2
<1>4. RowsOK' /\ Rows' = Rows /\ old' = old
  BY <1>1, SettleEffect DEF WellFormed, RowsOK
<1>5. batch \subseteq Rows' \ old'
  BY <1>3, <1>4 DEF WellFormed, JobOK
<1>6. fired' \in BOOLEAN /\ faults' \in 0..MaxFaults
  BY <1>1 DEF WellFormed, ManagerOK
<1> QED
  BY <1>1, <1>3, <1>4, <1>5, <1>6, HandedStep

LEMMA PruneEffect ==
  ASSUME WellFormed, NEW c \in Cron, Prune(c)
  PROVE  /\ row' \in [Report -> Row \cup {Nothing}]
         /\ Rows' \subseteq Rows /\ Rows \ old \subseteq Rows' \ old'
         /\ \A x \in Rows' : row'[x] = row[x]
         /\ Pending' = Pending
         /\ before' \subseteq before /\ before' \subseteq Rows' \X Rows'
         /\ old' \subseteq Rows' /\ old' \subseteq old
         /\ pruned' \subseteq Report /\ Rows \cup pruned \subseteq Rows' \cup pruned'
<1>1. row \in [Report -> Row \cup {Nothing}] /\ old \subseteq Rows /\ before \subseteq Rows \X Rows
      /\ pruned \subseteq Report /\ \A x \in old : x \notin Pending
  BY DEF WellFormed, RowsOK
<1>2. CASE UNCHANGED <<row, before, old, pruned>>
  BY <1>1, <1>2 DEF Rows, Pending
<1> DEFINE gone == old \ Pending
<1>3. CASE /\ row' = [x \in Report |-> IF x \in gone THEN Nothing ELSE row[x]]
           /\ before' = before \cap ((Rows \ gone) \X (Rows \ gone))
           /\ old' = old \ gone /\ pruned' = pruned \cup gone
  <2>1. Rows' = Rows \ gone
    BY <1>1, <1>3 DEF Rows
  <2>2. \A x \in Report \ gone : row'[x] = row[x]
    BY <1>3
  <2>3. Pending' = Pending
    BY <2>1, <2>2 DEF Pending, Rows
  <2>4. row' \in [Report -> Row \cup {Nothing}]
    BY <1>1, <1>3
  <2> QED
    BY <1>1, <1>3, <2>1, <2>2, <2>3, <2>4 DEF Rows
<1> QED
  BY <1>2, <1>3 DEF Prune

LEMMA PruneType ==
  ASSUME WellFormed, NEW c \in Cron, Prune(c) PROVE WellFormed'
<1>1. /\ ~Waiting(c) /\ job' = [job EXCEPT ![c] = Idle]
      /\ UNCHANGED <<logged, manager, fired, faults>>
  BY DEF Prune, Waiting
<1>2. Idle.pc # "handoff" /\ Idle.batch = {}
  BY DEF Idle
<1>3. RowsOK'
  BY <1>1, PruneEffect DEF WellFormed, RowsOK
<1>4. fired' \in BOOLEAN /\ faults' \in 0..MaxFaults
  BY <1>1 DEF WellFormed, ManagerOK
<1> QED
  BY <1>1, <1>2, <1>3, <1>4, PruneEffect, IdleType, QuietStep

-----------------------------------------------------------------------------
(* Steps of relay-manager, and the end of a handoff.                       *)

\* An invocation gets an answer about the report in hand.
LEMMA ReplyEffect ==
  ASSUME WellFormed, NEW c \in Cron, NEW a \in Answer, Reply(c, a)
  PROVE  /\ job' \in [Cron -> Job]
         /\ job'[c].answer = a
         /\ \A d \in Cron :
              /\ d # c => job'[d] = job[d]
              /\ job'[d].pc = job[d].pc /\ job'[d].current = job[d].current
              /\ job'[d].batch = job[d].batch /\ job'[d].untried = job[d].untried
<1>1. job[c] \in Job
  BY DEF WellFormed
<1> DEFINE r == [job[c] EXCEPT !.answer = a]
<1>2. /\ r \in Job /\ r.answer = a /\ r.pc = job[c].pc /\ r.current = job[c].current
      /\ r.batch = job[c].batch /\ r.untried = job[c].untried
  BY <1>1 DEF Job
<1>3. job' = [job EXCEPT ![c] = r]
  BY DEF Reply
<1> HIDE DEF r
<1> QED
  BY <1>2, <1>3 DEF WellFormed

LEMMA FaultType ==
  ASSUME WellFormed, Fault PROVE faults' \in 0..MaxFaults
  BY DEF WellFormed, ManagerOK, Fault

LEMMA HiccupType ==
  ASSUME WellFormed, NEW x, Hiccup(x) PROVE faults' \in 0..MaxFaults
  BY FaultType DEF WellFormed, ManagerOK, Hiccup

\* Invocation c, which waits for an answer, gets one; a lease that it holds is
\* taken from it, and a free one may be taken by an orphan.
LEMMA AnswerStep ==
  ASSUME WellFormed, NEW c \in Cron, Waiting(c), NEW a \in Answer, Reply(c, a),
         a = "success" => job[c].current \in items',
         UNCHANGED intake, items \subseteq items', items' \subseteq Report,
         refused' = refused, fired' \in BOOLEAN, faults' \in 0..MaxFaults,
         lease' \in [Report -> Cron \cup {"orphan", Nothing}],
         \A x \in Report : /\ lease'[x] # c
                           /\ x # job[c].current => lease'[x] = lease[x]
                           /\ lease'[x] \in {lease[x], "orphan", Nothing}
  PROVE  WellFormed'
<1>1. RowsOK /\ ManagerOK /\ \A d \in Cron : JobOK(d)
  BY DEF WellFormed
<1>2. RowsOK' /\ Rows' = Rows /\ old' = old
  BY <1>1, SameRows
<1>3. job[c].current \in Rows \ old
  BY <1>1 DEF JobOK, Waiting
<1>4. ASSUME NEW d \in Cron PROVE JobOK(d)'
  BY <1>1, <1>2, ReplyEffect DEF JobOK, Waiting
<1>5. ASSUME NEW x \in Report, NEW d \in Cron, lease'[x] = d
      PROVE  Waiting(d)' /\ job'[d].current = x
  <2>1. d # c /\ d # "orphan" /\ d # Nothing
    BY <1>5, NothingAssumption
  <2>2. lease[x] = d
    BY <1>5, <2>1
  <2> QED
    BY <1>1, <2>1, <2>2, ReplyEffect DEF ManagerOK, Waiting
<1>6. \A x \in Report : lease'[x] # Nothing => x \in Rows' \ old'
  BY <1>1, <1>2, <1>3 DEF ManagerOK
<1>7. ManagerOK'
  BY <1>1, <1>5, <1>6 DEF ManagerOK
<1> QED
  BY <1>2, <1>4, <1>7, ReplyEffect DEF WellFormed

\* Nobody waits while a lease moves to an orphan, or to nobody.
LEMMA LeaseStep ==
  ASSUME WellFormed, UNCHANGED job, UNCHANGED intake,
         items \subseteq items', items' \subseteq Report,
         refused' \subseteq Report, fired' \in BOOLEAN, faults' \in 0..MaxFaults,
         lease' \in [Report -> Cron \cup {"orphan", Nothing}],
         \A x \in Report : lease'[x] \in {lease[x], Nothing}
  PROVE  WellFormed'
<1>1. RowsOK /\ ManagerOK /\ job \in [Cron -> Job] /\ \A d \in Cron : JobOK(d)
  BY DEF WellFormed
<1>2. RowsOK' /\ Rows' = Rows /\ old' = old
  BY <1>1, SameRows
<1>3. \A d \in Cron : JobOK(d)'
  BY <1>1, <1>2 DEF JobOK
<1>4. ASSUME NEW x \in Report, NEW d \in Cron, lease'[x] = d
      PROVE  Waiting(d)' /\ job'[d].current = x
  <2>1. lease[x] = d
    BY <1>4, NothingAssumption
  <2> QED
    BY <1>1, <2>1 DEF ManagerOK, Waiting
<1>5. ManagerOK'
  BY <1>1, <1>2, <1>4 DEF ManagerOK
<1> QED
  BY <1>1, <1>2, <1>3, <1>5 DEF WellFormed

LEMMA AcceptType ==
  ASSUME WellFormed, NEW c \in Cron, Accept(c) PROVE WellFormed'
<1> DEFINE x == job[c].current
<1>1. /\ Waiting(c) /\ lease[x] # c
      /\ UNCHANGED <<intake, items, refused, fired, faults>>
  BY DEF Accept
<1>2. /\ RowsOK /\ ManagerOK /\ job \in [Cron -> Job] /\ \A d \in Cron : JobOK(d)
      /\ items \subseteq Report /\ fired \in BOOLEAN /\ faults \in 0..MaxFaults
      /\ lease \in [Report -> Cron \cup {"orphan", Nothing}]
  BY DEF WellFormed, ManagerOK
<1>3. x \in Rows \ old
  BY <1>1, <1>2 DEF JobOK, Waiting
<1>4. CASE UNCHANGED lease /\ \E a \in Answer : Reply(c, a) /\ (a = "success" => x \in items)
  <2>1. PICK a \in Answer : Reply(c, a) /\ (a = "success" => x \in items)
    BY <1>4
  <2>2. \A y \in Report : lease'[y] # c
    BY <1>1, <1>2, <1>4 DEF ManagerOK
  <2> QED
    BY <1>1, <1>2, <1>4, <2>1, <2>2, AnswerStep
<1>5. CASE lease[x] = Nothing /\ lease' = [lease EXCEPT ![x] = c] /\ UNCHANGED job
  <2>1. RowsOK' /\ Rows' = Rows /\ old' = old
    BY <1>1, <1>2, SameRows
  <2>2. \A d \in Cron : JobOK(d)'
    BY <1>1, <1>2, <1>5, <2>1 DEF JobOK
  <2>3. ASSUME NEW y \in Report, NEW d \in Cron, lease'[y] = d
        PROVE  Waiting(d)' /\ job'[d].current = y
    BY <1>1, <1>2, <1>3, <1>5, <2>3 DEF ManagerOK, Waiting
  <2>4. \A y \in Report : lease'[y] # Nothing => y \in Rows' \ old'
    BY <1>2, <1>3, <1>5, <2>1 DEF ManagerOK
  <2>5. lease' \in [Report -> Cron \cup {"orphan", Nothing}]
    BY <1>2, <1>5
  <2>6. ManagerOK'
    BY <1>1, <1>2, <2>3, <2>4, <2>5 DEF ManagerOK
  <2> QED
    BY <1>2, <1>5, <2>1, <2>2, <2>6 DEF WellFormed
<1> QED
  BY <1>4, <1>5 DEF Accept, Answer

\* The end of the work on a report, with or without an item.
LEMMA ReleaseType ==
  ASSUME WellFormed, NEW x \in Report, NEW a \in Answer, lease[x] # Nothing,
         lease' = [lease EXCEPT ![x] = Nothing], ReplyToHolder(x, a),
         a = "success" => x \in items', UNCHANGED intake,
         items \subseteq items', items' \subseteq Report,
         UNCHANGED <<refused, fired>>, faults' \in 0..MaxFaults
  PROVE  WellFormed'
<1>1. ManagerOK
  BY DEF WellFormed
<1>2. /\ lease' \in [Report -> Cron \cup {"orphan", Nothing}]
      /\ \A y \in Report : lease'[y] = IF y = x THEN Nothing ELSE lease[y]
  BY <1>1 DEF ManagerOK
<1>3. CASE lease[x] \in Cron
  <2>1. PICK c \in Cron : c = lease[x]
    BY <1>3
  <2>2. Waiting(c) /\ job[c].current = x /\ Reply(c, a)
    BY <1>1, <1>3, <2>1 DEF ManagerOK, ReplyToHolder
  <2>3. \A y \in Report : lease'[y] # c
    BY <1>1, <1>2, <2>2, NothingAssumption DEF ManagerOK
  <2> QED
    BY <1>1, <1>2, <2>2, <2>3, AnswerStep DEF ManagerOK
<1>4. CASE lease[x] \notin Cron
  BY <1>1, <1>2, <1>4, LeaseStep DEF ManagerOK, ReplyToHolder
<1> QED
  BY <1>3, <1>4

LEMMA CompleteType ==
  ASSUME WellFormed, NEW x \in Report, Complete(x) PROVE WellFormed'
<1>1. "success" \in Answer /\ faults' \in 0..MaxFaults /\ items \subseteq Report
  BY DEF Complete, Answer, WellFormed, ManagerOK
<1> QED
  BY <1>1, ReleaseType DEF Complete

LEMMA GiveUpType ==
  ASSUME WellFormed, NEW x \in Report, GiveUp(x) PROVE WellFormed'
<1>1. "busy" \in Answer /\ faults' \in 0..MaxFaults /\ items \subseteq Report
  BY HiccupType DEF GiveUp, Answer, WellFormed, ManagerOK
<1> QED
  BY <1>1, ReleaseType DEF GiveUp

LEMMA AbandonedEffect ==
  ASSUME WellFormed, NEW c \in Cron, Waiting(c), lease' \in Abandoned(c, job[c].current)
  PROVE  /\ lease' \in [Report -> Cron \cup {"orphan", Nothing}]
         /\ \A x \in Report : /\ lease'[x] # c
                              /\ x # job[c].current => lease'[x] = lease[x]
                              /\ lease'[x] \in {lease[x], "orphan", Nothing}
<1>1. /\ lease \in [Report -> Cron \cup {"orphan", Nothing}]
      /\ \A y \in Report : lease[y] = c => y = job[c].current
      /\ job[c].current \in Report /\ c # "orphan"
  BY NothingAssumption DEF WellFormed, ManagerOK, JobOK, Waiting, Rows
<1> QED
  BY <1>1 DEF Abandoned

LEMMA TimeOutType ==
  ASSUME WellFormed, NEW c \in Cron, TimeOut(c) PROVE WellFormed'
<1>1. "timeout" \in Answer /\ items \subseteq Report /\ fired \in BOOLEAN
  BY DEF Answer, WellFormed, ManagerOK
<1> QED
  BY <1>1, HiccupType, AbandonedEffect, AnswerStep DEF TimeOut

LEMMA BreakType ==
  ASSUME WellFormed, NEW c \in Cron, Break(c) PROVE WellFormed'
<1>1. /\ "broken" \in Answer /\ "unauthorized" \in Answer
      /\ items \subseteq Report /\ fired \in BOOLEAN
      /\ lease \in [Report -> Cron \cup {"orphan", Nothing}]
      /\ \A y \in Report : lease[y] = c => y = job[c].current
  BY DEF Answer, WellFormed, ManagerOK
<1>2. /\ Waiting(c) /\ UNCHANGED <<intake, items, refused, fired>>
      /\ faults' \in 0..MaxFaults
  BY FaultType DEF Break
<1>3. CASE lease' \in Abandoned(c, job[c].current) /\ Reply(c, "broken")
  BY <1>1, <1>2, <1>3, AbandonedEffect, AnswerStep
<1>4. CASE lease[job[c].current] # c /\ UNCHANGED lease /\ Reply(c, "unauthorized")
  BY <1>1, <1>2, <1>4, AnswerStep
<1> QED
  BY <1>3, <1>4 DEF Break

LEMMA DeployType ==
  ASSUME WellFormed, NEW x \in Report, Deploy(x) PROVE WellFormed'
<1>1. /\ items \subseteq Report /\ refused \subseteq Report /\ fired \in BOOLEAN
      /\ lease \in [Report -> Cron \cup {"orphan", Nothing}]
  BY DEF WellFormed, ManagerOK
<1>2. refused' \subseteq Report /\ faults' \in 0..MaxFaults
  BY <1>1, FaultType DEF Deploy
<1> QED
  BY <1>1, <1>2, LeaseStep DEF Deploy

LEMMA CrashType ==
  ASSUME WellFormed, NEW c \in Cron, Crash(c) PROVE WellFormed'
<1>1. /\ RowsOK /\ ManagerOK /\ job \in [Cron -> Job] /\ \A d \in Cron : JobOK(d)
      /\ UNCHANGED <<intake, items, refused, fired>> /\ faults' \in 0..MaxFaults
  BY FaultType DEF Crash, WellFormed
<1>2. PICK r \in Job : job' = [job EXCEPT ![c] = r] /\ r.pc # "handoff" /\ r.batch = {}
  <2>1. /\ [Idle EXCEPT !.pc = "prune"] \in Job
        /\ [Idle EXCEPT !.pc = "prune"].pc = "prune"
        /\ [Idle EXCEPT !.pc = "prune"].batch = {}
        /\ Idle.pc = "idle" /\ Idle.batch = {}
    BY IdleType DEF Job, Idle
  <2> QED
    BY <2>1, IdleType DEF Crash
<1>3. Becomes(c, r)
  BY <1>1, <1>2, BecomesRule
<1>4. RowsOK' /\ Rows' = Rows /\ old' = old
  BY <1>1, SameRows
<1>5. ASSUME NEW d \in Cron PROVE JobOK(d)'
  BY <1>1, <1>2, <1>3, <1>4 DEF JobOK, Becomes
<1>6. lease' = [x \in Report |-> IF lease[x] = c THEN "orphan" ELSE lease[x]]
  BY DEF Crash
<1>7. ASSUME NEW x \in Report, NEW d \in Cron, lease'[x] = d
      PROVE  Waiting(d)' /\ job'[d].current = x
  <2>1. d # c /\ lease[x] = d
    BY <1>6, <1>7, NothingAssumption
  <2> QED
    BY <1>1, <1>3, <2>1 DEF ManagerOK, Waiting, Becomes
<1>8. \A x \in Report : lease'[x] # Nothing => x \in Rows' \ old'
  <2>1. ASSUME NEW x \in Report, lease'[x] # Nothing PROVE lease[x] # Nothing
    BY <1>6, <2>1, NothingAssumption
  <2> QED
    BY <1>1, <1>4, <2>1 DEF ManagerOK
<1>9. lease' \in [Report -> Cron \cup {"orphan", Nothing}]
  BY <1>1, <1>6 DEF ManagerOK
<1>10. ManagerOK'
  BY <1>1, <1>7, <1>8, <1>9 DEF ManagerOK
<1> QED
  BY <1>3, <1>4, <1>5, <1>10 DEF WellFormed, Becomes

-----------------------------------------------------------------------------
(* Time.                                                                   *)

LEMMA ExpireType ==
  ASSUME WellFormed, NEW x \in Report, Expire(x) PROVE WellFormed'
<1>1. /\ RowsOK /\ ManagerOK /\ job \in [Cron -> Job] /\ \A d \in Cron : JobOK(d)
      /\ x \in Rows \ (Pending \cup old) /\ lease[x] = Nothing
      /\ \A d \in Cron : x \notin job[d].batch
      /\ old' = old \cup {x}
      /\ UNCHANGED <<row, before, logged, pruned, manager, fired, faults, job>>
  BY DEF WellFormed, Expire
<1>2. Rows' = Rows /\ Pending' = Pending
  BY <1>1 DEF Rows, Pending
<1>3. RowsOK'
  BY <1>1, <1>2 DEF RowsOK
<1>4. ManagerOK'
  BY <1>1, <1>2 DEF ManagerOK, manager, Waiting
<1>5. \A d \in Cron : JobOK(d)'
  BY <1>1, <1>2 DEF JobOK, manager
<1> QED
  BY <1>1, <1>3, <1>4, <1>5 DEF WellFormed

\* A tick leaves every row where it is and brings its next attempt nearer.
LEMMA TickRows ==
  ASSUME RowsOK, Tick
  PROVE  /\ row' \in [Report -> Row \cup {Nothing}]
         /\ Rows' = Rows /\ Pending' = Pending
         /\ \A x \in Rows : /\ row'[x].status = row[x].status
                            /\ row'[x].attempts = row[x].attempts
                            /\ row'[x].next = Nothing <=> row[x].next = Nothing
<1>1. /\ row \in [Report -> Row \cup {Nothing}] /\ Nothing \notin Row /\ Nothing \notin Int
      /\ row' = [x \in Report |-> IF row[x] = Nothing THEN Nothing
                                  ELSE [row[x] EXCEPT !.next = Sooner(@)]]
  BY NothingAssumption DEF RowsOK, Tick
<1>2. ASSUME NEW n \in (0..MaxDelay) \cup {Nothing}
      PROVE  /\ Sooner(n) \in (0..MaxDelay) \cup {Nothing}
             /\ Sooner(n) = Nothing <=> n = Nothing
  <2>1. CASE n = Nothing
    BY <1>1, <2>1 DEF Sooner
  <2>2. CASE n \in 0..MaxDelay
    <3>1. Sooner(n) \in 0..MaxDelay
      BY <2>2 DEF Sooner
    <3> QED
      BY <1>1, <2>2, <3>1
  <2> QED
    BY <2>1, <2>2
<1>3. ASSUME NEW x \in Rows
      PROVE  /\ row'[x] \in Row
             /\ row'[x].status = row[x].status /\ row'[x].attempts = row[x].attempts
             /\ row'[x].next = Nothing <=> row[x].next = Nothing
  <2>1. row[x] \in Row /\ x \in Report /\ row[x] # Nothing
    BY <1>1 DEF Rows
  <2>2. row[x].next \in (0..MaxDelay) \cup {Nothing}
    BY <2>1 DEF Row
  <2>3. row'[x] = [row[x] EXCEPT !.next = Sooner(row[x].next)]
    BY <1>1, <2>1
  <2> QED
    BY <1>2, <2>1, <2>2, <2>3 DEF Row
<1>4. \A x \in Report \ Rows : row'[x] = Nothing
  BY <1>1 DEF Rows
<1>5. Rows' = Rows
  BY <1>1, <1>3, <1>4 DEF Rows
<1>6. row' \in [Report -> Row \cup {Nothing}]
  BY <1>1, <1>3, <1>4 DEF Rows
<1> QED
  BY <1>3, <1>5, <1>6 DEF Pending

LEMMA TickType ==
  ASSUME WellFormed, Tick PROVE WellFormed'
<1>1. /\ RowsOK /\ ManagerOK /\ job \in [Cron -> Job] /\ \A c \in Cron : JobOK(c)
      /\ UNCHANGED <<before, old, logged, pruned, manager, faults>> /\ fired' = TRUE
  BY DEF WellFormed, Tick
<1>2. RowsOK' /\ Rows' = Rows /\ old' = old
  BY <1>1, TickRows DEF RowsOK
<1>3. ASSUME NEW c \in Cron
      PROVE  /\ job'[c] \in Job
             /\ job'[c].pc = job[c].pc /\ job'[c].batch = job[c].batch
             /\ job'[c].current = job[c].current /\ job'[c].answer = job[c].answer
  <2>1. job[c] \in Job /\ job[c].elapsed \in 0..MaxDelay
    BY <1>1 DEF Job
  <2>2. Smaller(job[c].elapsed + 1, MaxDelay) \in 0..MaxDelay
    BY <2>1 DEF Smaller
  <2>3. job'[c] = job[c] \/ job'[c] = [job[c] EXCEPT !.elapsed = Smaller(job[c].elapsed + 1, MaxDelay)]
    BY DEF Tick
  <2> QED
    BY <2>1, <2>2, <2>3 DEF Job
<1>4. job' \in [Cron -> Job]
  BY <1>3 DEF Tick
<1>5. \A c \in Cron : JobOK(c)'
  BY <1>1, <1>2, <1>3 DEF JobOK, manager
<1>6. \A c \in Cron : Waiting(c) => Waiting(c)' /\ job'[c].current = job[c].current
  BY <1>3 DEF Waiting
<1>7. ManagerOK'
  BY <1>1, <1>2, <1>6, SameLeases DEF ManagerOK
<1> QED
  BY <1>2, <1>4, <1>5, <1>7 DEF WellFormed

-----------------------------------------------------------------------------
(* Type correctness.                                                       *)

LEMMA InitOK == Init => WellFormed
<1> SUFFICES ASSUME Init PROVE WellFormed
  OBVIOUS
<1>1. \A x \in Report : row[x] = Nothing /\ lease[x] = Nothing
  BY DEF Init
<1>2. Rows = {} /\ Pending = {}
  BY <1>1 DEF Rows, Pending
<1>3. RowsOK
  BY <1>2 DEF Init, RowsOK
<1>4. ManagerOK
  BY <1>1, NothingAssumption DEF Init, ManagerOK
<1>5. \A c \in Cron : job[c] = Idle
  BY DEF Init
<1>6. job \in [Cron -> Job]
  BY IdleType DEF Init
<1>7. \A c \in Cron : JobOK(c)
  BY <1>5 DEF JobOK, Idle
<1> QED
  BY <1>3, <1>4, <1>6, <1>7 DEF WellFormed

LEMMA StutterOK ==
  ASSUME WellFormed, UNCHANGED vars PROVE WellFormed'
<1>1. RowsOK' /\ Rows' = Rows /\ old' = old
  BY SameRows DEF WellFormed, vars, intake
<1>2. ManagerOK'
  BY <1>1 DEF WellFormed, ManagerOK, vars, Waiting
<1>3. \A c \in Cron : JobOK(c)'
  BY <1>1 DEF WellFormed, JobOK, vars
<1> QED
  BY <1>1, <1>2, <1>3 DEF WellFormed, vars

LEMMA WellFormedStep == WellFormed /\ [Next]_vars => WellFormed'
<1> SUFFICES ASSUME WellFormed, [Next]_vars PROVE WellFormed'
  OBVIOUS
<1>1. ASSUME NEW c \in Cron, Runs(c) PROVE WellFormed'
  BY <1>1, BeginType, RecordReportType, SelectType, SettleType, PruneType DEF Runs
<1>2. ASSUME NEW c \in Cron,
             RecordThrows(c) \/ Accept(c) \/ TimeOut(c) \/ Break(c) \/ Crash(c)
      PROVE  WellFormed'
  BY <1>2, RecordThrowsType, AcceptType, TimeOutType, BreakType, CrashType
<1>3. ASSUME NEW x \in Report, Complete(x) \/ GiveUp(x) \/ Deploy(x) \/ Expire(x)
      PROVE  WellFormed'
  BY <1>3, CompleteType, GiveUpType, DeployType, ExpireType
<1> QED
  BY <1>1, <1>2, <1>3, TickType, StutterOK DEF Next, Works

\* The strengthening of the types holds in every state of the private reports: rows
\* of the intake and invocations have the shapes that their steps rely on.
THEOREM WellFormedAlways == Spec => []WellFormed
<1>1. WellFormed /\ [Next]_vars => WellFormed'
  BY WellFormedStep
<1> QED
  BY <1>1, InitOK, PTL DEF Spec

\* Every state of the intake, with any number of overlapping invocations, is
\* well-typed.
THEOREM TypeCorrect == Spec => []TypeOK
  BY WellFormedAlways, WellFormedType, PTL

-----------------------------------------------------------------------------
(* The rows, and what becomes of them.                                     *)

\* Few steps touch the rows or the review items.
LEMMA StepKinds ==
  ASSUME [Next]_vars
  PROVE  \/ UNCHANGED <<row, logged, pruned, items>>
         \/ Tick
         \/ \E x \in Report : Complete(x)
         \/ \E c \in Cron : RecordReport(c) \/ Settle(c) \/ Prune(c)
<1> DEFINE Rest == UNCHANGED <<row, logged, pruned, items>>
<1>1. ASSUME NEW c \in Cron, Begin(c) \/ Select(c) PROVE Rest
  BY <1>1 DEF Begin, Select, intake, manager
<1>2. ASSUME NEW c \in Cron,
             RecordThrows(c) \/ Accept(c) \/ TimeOut(c) \/ Break(c) \/ Crash(c)
      PROVE  Rest
  BY <1>2 DEF RecordThrows, Accept, TimeOut, Break, Crash, intake, manager
<1>3. ASSUME NEW x \in Report, GiveUp(x) \/ Deploy(x) \/ Expire(x) PROVE Rest
  BY <1>3 DEF GiveUp, Deploy, Expire, intake, manager
<1>4. UNCHANGED vars => Rest
  BY DEF vars
<1> HIDE DEF Rest
<1> QED
  BY <1>1, <1>2, <1>3, <1>4 DEF Next, Works, Runs, Rest

LEMMA CompleteRows ==
  ASSUME NEW x \in Report, Complete(x)
  PROVE  UNCHANGED <<row, logged, pruned>> /\ items' = items \cup {x}
  BY DEF Complete, intake

LEMMA LoggedStep ==
  WellFormed /\ LoggedMeansRecorded /\ [Next]_vars => LoggedMeansRecorded'
<1> SUFFICES ASSUME WellFormed, LoggedMeansRecorded, [Next]_vars
             PROVE  LoggedMeansRecorded'
  OBVIOUS
<1>1. /\ RowsOK /\ \A w \in logged : w \in Wrap /\ ReportOf[w] \in Rows \cup pruned
  BY DEF WellFormed, RowsOK, LoggedMeansRecorded
<1>2. ASSUME NEW c \in Cron, RecordReport(c) PROVE LoggedMeansRecorded'
  <2>1. PICK w \in job[c].left : logged' = logged \cup {w} /\ InsertRow(ReportOf[w])
    BY <1>2 DEF RecordReport
  <2>2. w \in Wrap /\ ReportOf[w] \in Report /\ pruned' = pruned
    BY <1>2, <2>1 DEF RecordReport, WellFormed, Job
  <2>3. Rows' = Rows \cup {ReportOf[w]}
    BY <1>1, <2>1, <2>2, InsertEffect
  <2> QED
    BY <1>1, <2>1, <2>2, <2>3 DEF LoggedMeansRecorded
<1>3. ASSUME NEW c \in Cron, Settle(c) PROVE LoggedMeansRecorded'
  BY <1>1, <1>3, SettleEffect DEF Settle, LoggedMeansRecorded
<1>4. ASSUME NEW c \in Cron, Prune(c) PROVE LoggedMeansRecorded'
  BY <1>1, <1>4, PruneEffect DEF Prune, LoggedMeansRecorded
<1>5. CASE Tick
  BY <1>1, <1>5, TickRows DEF Tick, LoggedMeansRecorded
<1>6. CASE UNCHANGED <<row, logged, pruned>>
  BY <1>1, <1>6 DEF Rows, LoggedMeansRecorded
<1> QED
  BY <1>2, <1>3, <1>4, <1>5, <1>6, StepKinds, CompleteRows

\* However often a run is killed, a read throws and a wrap is resent: a report
\* DM that the inbox shows has its report in the intake, or settled and pruned.
THEOREM LoggedRecorded == Spec => []LoggedMeansRecorded
<1>1. Init => LoggedMeansRecorded
  BY DEF Init, LoggedMeansRecorded
<1> QED
  BY <1>1, LoggedStep, WellFormedAlways, PTL DEF Spec

LEMMA RestStep ==
  WellFormed /\ SettledRowsRest /\ [Next]_vars => SettledRowsRest'
<1> SUFFICES ASSUME WellFormed, SettledRowsRest, [Next]_vars
             PROVE  SettledRowsRest'
  OBVIOUS
<1>1. RowsOK
  BY DEF WellFormed
<1>2. ASSUME NEW c \in Cron, RecordReport(c) PROVE SettledRowsRest'
  <2>1. PICK w \in job[c].left : InsertRow(ReportOf[w])
    BY <1>2 DEF RecordReport
  <2> DEFINE x == ReportOf[w]
  <2>2. x \in Report
    BY <1>2, <2>1 DEF RecordReport, WellFormed, Job
  <2>3. x \notin Rows => row'[x].attempts = 0 /\ row'[x].next = Nothing
    BY <1>1, <2>1, <2>2, InsertEffect DEF NewRow
  <2>4. \A y \in Rows : row'[y] = row[y] /\ (y \in Pending' <=> y \in Pending)
    BY <1>1, <2>1, <2>2, InsertEffect
  <2>5. Rows' = Rows \cup {x}
    BY <1>1, <2>1, <2>2, InsertEffect
  <2> HIDE DEF x
  <2> QED
    BY <2>3, <2>4, <2>5 DEF SettledRowsRest
<1>3. ASSUME NEW c \in Cron, Settle(c) PROVE SettledRowsRest'
  <2> DEFINE x == job[c].current
  <2>1. CASE x \in Pending
    <3>1. /\ Rows' = Rows /\ row'[x] = Outcome(c)
          /\ \A y \in Rows \ {x} : row'[y] = row[y]
      BY <1>3, <2>1, SettleEffect DEF Rows
    <3>2. \A y \in Rows \ {x} : y \in Pending' <=> y \in Pending
      BY <3>1 DEF Pending
    <3>3. row[x].status = "pending" /\ x \in Rows'
      BY <2>1, <3>1 DEF Pending
    <3>4. /\ Outcome(c).status = IF Kind(job[c].answer) = "retry" THEN "pending"
                                 ELSE Kind(job[c].answer)
          /\ (Outcome(c).next = Nothing) <=> Kind(job[c].answer) # "retry"
      BY <1>3, <3>3, OutcomeType DEF Settle
    <3>5. Kind(job[c].answer) \in {"delivered", "rejected", "retry"}
      BY DEF Kind
    <3>6. x \in Pending' <=> row'[x].next # Nothing
      BY <3>1, <3>3, <3>4, <3>5 DEF Pending
    <3> HIDE DEF x
    <3> QED
      BY <3>1, <3>2, <3>6 DEF SettledRowsRest
  <2>2. CASE x \notin Pending
    BY <1>3, <2>2, SettleEffect DEF SettledRowsRest, Pending, Rows
  <2> QED
    BY <2>1, <2>2
<1>4. ASSUME NEW c \in Cron, Prune(c) PROVE SettledRowsRest'
  BY <1>4, PruneEffect DEF SettledRowsRest
<1>5. CASE Tick
  BY <1>1, <1>5, TickRows DEF SettledRowsRest
<1>6. CASE UNCHANGED row
  BY <1>6 DEF SettledRowsRest, Pending, Rows
<1> QED
  BY <1>2, <1>3, <1>4, <1>5, <1>6, StepKinds, CompleteRows

\* Late answers of overlapping runs never schedule a settled row again, and a
\* pending row that failed always has a time to be retried at.
THEOREM RowsRest == Spec => []SettledRowsRest
<1>1. Init => SettledRowsRest
  BY DEF Init, SettledRowsRest, Rows
<1> QED
  BY <1>1, RestStep, WellFormedAlways, PTL DEF Spec

-----------------------------------------------------------------------------
(* The intake implements the outbox.                                       *)

\* What the outbox sees of an entry.
LEMMA EntryType ==
  ASSUME RowsOK, NEW x \in Report
  PROVE  /\ Entry(x) \in {"none", "pending", "delivered", "rejected"}
         /\ Entry(x) = "none" <=> x \notin Rows
         /\ Entry(x) = "pending" <=> x \in Pending
<1>1. x \in Rows => row[x] \in Row
  BY DEF RowsOK, Rows
<1> QED
  BY <1>1 DEF Entry, Pending, Row

\* A step that adds no item acts on the outbox as it acts on the entries.
LEMMA BoxStutter ==
  ASSUME UNCHANGED items, \A x \in Report : Entry(x)' = Entry(x)
  PROVE  UNCHANGED <<[x \in Report |-> Entry(x)], items>>
  OBVIOUS

LEMMA RecordReportBox ==
  ASSUME WellFormed, NEW c \in Cron, RecordReport(c)
  PROVE  [Box!Next]_<<[x \in Report |-> Entry(x)], items>>
<1>1. RowsOK /\ items' = items
  BY DEF WellFormed, RecordReport, manager
<1>2. PICK w \in job[c].left : InsertRow(ReportOf[w])
  BY DEF RecordReport
<1> DEFINE y == ReportOf[w]
<1>3. y \in Report
  BY <1>2 DEF RecordReport, WellFormed, Job
<1>4. \A x \in Rows : row'[x] = row[x]
  BY <1>1, <1>2, <1>3, InsertEffect
<1>5. Rows' = Rows \cup {y} /\ (y \notin Rows => row'[y] = NewRow)
  BY <1>1, <1>2, <1>3, InsertEffect
<1> HIDE DEF y
<1>6. CASE y \in Rows
  BY <1>1, <1>4, <1>5, <1>6, BoxStutter DEF Entry
<1>7. CASE y \notin Rows
  <2>1. Entry(y) = "none" /\ Entry(y)' = "pending"
    BY <1>5, <1>7 DEF Entry, NewRow
  <2>2. \A x \in Report \ {y} : Entry(x)' = Entry(x)
    BY <1>4, <1>5 DEF Entry
  <2>3. Box!Record(y)
    BY <1>1, <1>3, <2>1, <2>2 DEF Box!Record
  <2> QED
    BY <1>3, <2>3 DEF Box!Next
<1> QED
  BY <1>6, <1>7

LEMMA SettleBox ==
  ASSUME WellFormed, NEW c \in Cron, Settle(c)
  PROVE  [Box!Next]_<<[x \in Report |-> Entry(x)], items>>
<1> DEFINE kind == Kind(job[c].answer)
<1>1. PICK y \in Rows : y = job[c].current
  BY OutcomeType DEF Settle
<1>2. /\ RowsOK /\ items' = items /\ job[c].pc = "handoff" /\ y \in Report
      /\ (job[c].answer = "success" => y \in items)
  BY <1>1 DEF WellFormed, JobOK, Settle, manager, Rows
<1>3. Rows' = Rows /\ \A x \in Report \ {y} : row'[x] = row[x]
  BY <1>1, SettleEffect
<1>4. \A x \in Report \ {y} : Entry(x)' = Entry(x)
  BY <1>3 DEF Entry
<1>5. CASE y \notin Pending
  <2>1. row' = row
    BY <1>1, <1>5, SettleEffect
  <2> QED
    BY <1>2, <1>3, <2>1, BoxStutter DEF Entry
<1>6. CASE y \in Pending
  <2>1. row'[y].status = IF kind = "retry" THEN row[y].status ELSE kind
    BY <1>1, <1>2, <1>6, SettleEffect, OutcomeType
  <2>2. row[y].status = "pending"
    BY <1>6 DEF Pending
  <2>3. Entry(y) = "pending" /\ Entry(y)' = IF kind = "retry" THEN "pending" ELSE kind
    BY <1>3, <2>1, <2>2 DEF Entry
  <2>4. kind = "delivered" => y \in items
    BY <1>2 DEF Kind
  <2>5. kind \in {"delivered", "rejected", "retry"}
    BY DEF Kind
  <2> HIDE DEF kind
  <2>6. CASE kind = "retry"
    BY <1>2, <1>4, <2>3, <2>6, BoxStutter
  <2>7. CASE kind = "delivered"
    <3>1. Box!Deliver(y)
      BY <1>2, <1>4, <2>3, <2>4, <2>7 DEF Box!Deliver
    <3> QED
      BY <1>2, <3>1 DEF Box!Next
  <2>8. CASE kind = "rejected"
    <3>1. Box!Reject(y)
      BY <1>2, <1>4, <2>3, <2>8 DEF Box!Reject
    <3> QED
      BY <1>2, <3>1 DEF Box!Next
  <2> QED
    BY <2>5, <2>6, <2>7, <2>8
<1> QED
  BY <1>5, <1>6

LEMMA PruneBox ==
  ASSUME WellFormed, NEW c \in Cron, Prune(c)
  PROVE  [Box!Next]_<<[x \in Report |-> Entry(x)], items>>
<1> DEFINE X == Rows \ Rows'
<1>1. RowsOK /\ items' = items
  BY DEF WellFormed, Prune, manager
<1>2. Rows' \subseteq Rows /\ Pending \subseteq Rows' /\ \A x \in Rows' : row'[x] = row[x]
  BY PruneEffect DEF Pending
<1>3. X \in SUBSET Report
  BY DEF Rows
<1>4. \A x \in X : Entry(x) \in {"delivered", "rejected"}
  BY <1>1, <1>2, <1>3, EntryType
<1>5. \A x \in Report : Entry(x)' = IF x \in X THEN "none" ELSE Entry(x)
  BY <1>2 DEF Entry
<1> HIDE DEF X
<1>6. Box!Forget(X)
  BY <1>1, <1>3, <1>4, <1>5 DEF Box!Forget
<1> QED
  BY <1>3, <1>6 DEF Box!Next

LEMMA CompleteBox ==
  ASSUME WellFormed, NEW y \in Report, Complete(y)
  PROVE  [Box!Next]_<<[x \in Report |-> Entry(x)], items>>
<1>1. RowsOK /\ y \in Rows
  BY DEF WellFormed, ManagerOK, Complete
<1>2. row' = row /\ items' = items \cup {y}
  BY CompleteRows
<1>3. \A x \in Report : Entry(x)' = Entry(x)
  BY <1>2 DEF Entry, Rows
<1>4. CASE y \in items
  BY <1>2, <1>3, <1>4, BoxStutter
<1>5. CASE y \notin items
  <2>1. Entry(y) # "none"
    BY <1>1, EntryType
  <2>2. [x \in Report |-> Entry(x)]' = [x \in Report |-> Entry(x)]
    BY <1>3
  <2>3. Box!PutUp(y)
    BY <1>2, <1>5, <2>1, <2>2 DEF Box!PutUp
  <2> QED
    BY <2>3 DEF Box!Next
<1> QED
  BY <1>4, <1>5

LEMMA BoxStep ==
  WellFormed /\ [Next]_vars => [Box!Next]_<<[x \in Report |-> Entry(x)], items>>
<1> SUFFICES ASSUME WellFormed, [Next]_vars
             PROVE  [Box!Next]_<<[x \in Report |-> Entry(x)], items>>
  OBVIOUS
<1>1. CASE Tick
  <2>1. /\ Rows' = Rows /\ items' = items
        /\ \A x \in Rows : row'[x].status = row[x].status
    BY <1>1, TickRows DEF WellFormed, Tick, manager
  <2> QED
    BY <2>1, BoxStutter DEF Entry
<1>2. CASE UNCHANGED <<row, logged, pruned, items>>
  BY <1>2, BoxStutter DEF Entry, Rows
<1> QED
  BY <1>1, <1>2, StepKinds, RecordReportBox, SettleBox, PruneBox, CompleteBox

\* The intake implements the outbox: a report that is recorded stays so until
\* it is delivered or rejected, delivered means that its review item exists, an
\* item is created once, and a settled report is not settled again.
THEOREM Implements == Spec => ImplementsOutbox
<1>1. Init => Box!Init
  BY DEF Init, Entry, Rows, Box!Init
<1> QED
  BY <1>1, BoxStep, WellFormedAlways, PTL DEF Spec, ImplementsOutbox, Box!Spec

-----------------------------------------------------------------------------
(* Urgent reports first.                                                   *)

\* The order of the ids is a strict order of the rows.
OrderOK ==
  /\ \A x, y \in Rows : <<x, y>> \in before => <<y, x>> \notin before
  /\ \A x, y, z \in Rows : <<x, y>> \in before /\ <<y, z>> \in before => <<x, z>> \in before

\* The report in hand is the first of its batch, and the limit cut off none
\* that comes before one of the batch.
TurnOK(c) ==
  job[c].pc = "handoff" =>
    \A x \in job[c].batch :
      /\ x # job[c].current => Precedes(job[c].current, x)
      /\ \A y \in job[c].untried \ job[c].batch : ~Precedes(y, x)

InTurn == OrderOK /\ \A c \in Cron : TurnOK(c)

LEMMA PrecedesOrder ==
  ASSUME RowsOK, OrderOK, NEW x \in Report, NEW y \in Report, Precedes(x, y)
  PROVE  /\ ~Precedes(y, x)
         /\ \A z \in Report : Precedes(y, z) => Precedes(x, z)
<1>1. Priority \in [Report -> 0..3] /\ before \subseteq Rows \X Rows
  BY DEF RowsOK
<1>2. Priority[x] \in Int /\ Priority[y] \in Int /\ \A z \in Report : Priority[z] \in Int
  BY <1>1
<1>3. ~Precedes(y, x)
  BY <1>1, <1>2 DEF Precedes, OrderOK
<1>4. ASSUME NEW z \in Report, Precedes(y, z) PROVE Precedes(x, z)
  BY <1>1, <1>2, <1>4 DEF Precedes, OrderOK
<1> QED
  BY <1>3, <1>4

LEMMA InTurnUrgent == WellFormed /\ InTurn => UrgentFirst
<1> SUFFICES ASSUME WellFormed, InTurn, NEW c \in Cron, job[c].pc = "handoff",
                    NEW y \in job[c].untried
             PROVE  ~Precedes(y, job[c].current)
  BY DEF UrgentFirst
<1>1. /\ RowsOK /\ OrderOK /\ TurnOK(c) /\ job[c].current \in job[c].batch
      /\ job[c].current \in Report /\ y \in Report
  BY DEF WellFormed, JobOK, InTurn, Job, Rows
<1> QED
  BY <1>1, PrecedesOrder DEF TurnOK

\* LIMIT and ORDER BY together keep the first rows.
LEMMA BatchCut ==
  ASSUME RowsOK, OrderOK, NEW due \in SUBSET Rows,
         NEW x \in BatchOf(due), NEW y \in due \ BatchOf(due)
  PROVE  ~Precedes(y, x)
<1> SUFFICES ASSUME Precedes(y, x) PROVE FALSE
  OBVIOUS
<1> DEFINE A == {z \in due : Precedes(z, y)}
           B == {z \in due : Precedes(z, x)}
<1>1. x \in Report /\ y \in Report /\ due \subseteq Report
  BY DEF BatchOf, Rows
<1>2. A \subseteq B
  BY <1>1, PrecedesOrder
<1>3. IsFiniteSet(B)
  <2>1. B \subseteq Report
    BY <1>1
  <2> HIDE DEF B
  <2> QED
    BY <2>1, FS_Subset
<1>4. Cardinality(B) < Limit /\ ~(Cardinality(A) < Limit)
  BY DEF BatchOf
<1> HIDE DEF A, B
<1>5. IsFiniteSet(A) /\ Cardinality(A) <= Cardinality(B)
  BY <1>2, <1>3, FS_Subset
<1>6. Cardinality(A) \in Nat /\ Cardinality(B) \in Nat
  BY <1>3, <1>5, FS_CardinalityType
<1> QED
  BY <1>4, <1>5, <1>6

\* What a step may do to the order of the rows in hand: new rows come last.
OrderStays ==
  \A x \in Rows \ old, y \in Report :
    /\ <<y, x>> \in before' => <<y, x>> \in before
    /\ y \in Rows \ old /\ <<y, x>> \in before => <<y, x>> \in before'

LEMMA OrderStep ==
  ASSUME WellFormed, OrderOK, [Next]_vars PROVE OrderOK' /\ OrderStays
<1>1. RowsOK /\ before \subseteq Rows \X Rows
  BY DEF WellFormed, RowsOK
<1>2. ASSUME NEW c \in Cron, RecordReport(c) PROVE OrderOK' /\ OrderStays
  <2>1. PICK w \in job[c].left : InsertRow(ReportOf[w])
    BY <1>2 DEF RecordReport
  <2>2. ReportOf[w] \in Report
    BY <1>2, <2>1 DEF RecordReport, WellFormed, Job
  <2>3. PICK x \in Report : InsertRow(x)
    BY <2>1, <2>2
  <2>4. /\ Rows' = Rows \cup {x} /\ (x \in Rows => before' = before)
        /\ (x \notin Rows => before' = before \cup (Rows \X {x}))
    BY <1>1, <2>3, InsertEffect
  <2>5. CASE x \in Rows
    <3>1. Rows' = Rows /\ before' = before
      BY <2>4, <2>5
    <3> QED
      BY <3>1 DEF OrderOK, OrderStays
  <2>6. CASE x \notin Rows
    <3>1. \A y, z : <<y, z>> \in before' <=> <<y, z>> \in before \/ (y \in Rows /\ z = x)
      BY <2>4, <2>6
    <3>2. \A y, z : <<y, z>> \in before => y \in Rows /\ z \in Rows
      BY <1>1
    <3>3. OrderOK'
      BY <2>4, <2>6, <3>1, <3>2 DEF OrderOK
    <3>4. OrderStays
      BY <2>6, <3>1 DEF OrderStays
    <3> QED
      BY <3>3, <3>4
  <2> QED
    BY <2>5, <2>6
<1>3. ASSUME NEW c \in Cron, Prune(c) PROVE OrderOK' /\ OrderStays
  <2>1. \/ before' = before
        \/ before' = before \cap ((Rows \ (old \ Pending)) \X (Rows \ (old \ Pending)))
    BY <1>3 DEF Prune
  <2>2. \A y, z \in Rows \ old : <<y, z>> \in before => <<y, z>> \in before'
    BY <2>1
  <2>3. before' \subseteq before /\ Rows' \subseteq Rows
    BY <1>3, PruneEffect
  <2>4. \A y, z \in Rows' : <<y, z>> \in before => <<y, z>> \in before'
    <3>1. CASE before' = before
      BY <3>1
    <3>2. CASE before' # before
      BY <1>3, <3>2 DEF Prune, Rows
    <3> QED
      BY <3>1, <3>2
  <2> QED
    BY <2>2, <2>3, <2>4 DEF OrderOK, OrderStays
<1>4. CASE UNCHANGED before /\ Rows' = Rows
  BY <1>4 DEF OrderOK, OrderStays
<1>5. CASE Tick
  BY <1>1, <1>4, <1>5, TickRows DEF Tick
<1>6. ASSUME NEW c \in Cron, Settle(c) PROVE OrderOK' /\ OrderStays
  BY <1>4, <1>6, SettleEffect DEF Settle
<1>7. ASSUME NEW c \in Cron,
             \/ Begin(c) \/ Select(c) \/ RecordThrows(c) \/ Accept(c) \/ TimeOut(c)
             \/ Break(c) \/ Crash(c)
      PROVE  OrderOK' /\ OrderStays
  BY <1>4, <1>7 DEF Begin, Select, RecordThrows, Accept, TimeOut, Break, Crash, intake, Rows
<1>8. ASSUME NEW x \in Report, Complete(x) \/ GiveUp(x) \/ Deploy(x) \/ Expire(x)
      PROVE  OrderOK' /\ OrderStays
  BY <1>4, <1>8 DEF Complete, GiveUp, Deploy, Expire, intake, Rows
<1>9. CASE UNCHANGED vars
  BY <1>4, <1>9 DEF vars, Rows
<1> QED
  BY <1>2, <1>3, <1>5, <1>6, <1>7, <1>8, <1>9 DEF Next, Works, Runs

\* A run that is not handed a report keeps its batch, or has none.
SameTurn(c) ==
  \/ job'[c].pc # "handoff"
  \/ /\ job'[c].pc = job[c].pc /\ job'[c].batch = job[c].batch
     /\ job'[c].untried = job[c].untried /\ job'[c].current = job[c].current

LEMMA TurnStays ==
  ASSUME WellFormed, NEW c \in Cron, TurnOK(c), SameTurn(c), OrderStays
  PROVE  TurnOK(c)'
<1> SUFFICES ASSUME job'[c].pc = "handoff" PROVE TurnOK(c)'
  BY DEF TurnOK
<1>1. /\ job[c].pc = "handoff" /\ job'[c].batch = job[c].batch
      /\ job'[c].untried = job[c].untried /\ job'[c].current = job[c].current
  BY DEF SameTurn
<1>2. /\ job[c].batch \subseteq Rows \ old /\ job[c].current \in job[c].batch
      /\ job[c].untried \subseteq Report /\ Rows \subseteq Report
  BY <1>1 DEF WellFormed, JobOK, Job, Rows
<1>3. ASSUME NEW x \in job[c].batch, x # job[c].current
      PROVE  \A y : y = job[c].current => Precedes(y, x)'
  BY <1>1, <1>2, <1>3 DEF TurnOK, Precedes, OrderStays
<1>4. ASSUME NEW x \in job[c].batch, NEW y \in job[c].untried \ job[c].batch
      PROVE  ~Precedes(y, x)'
  BY <1>1, <1>2 DEF TurnOK, Precedes, OrderStays
<1> QED
  BY <1>1, <1>3, <1>4 DEF TurnOK

LEMMA SelectTurn ==
  ASSUME WellFormed, OrderOK, NEW c \in Cron, Select(c) PROVE TurnOK(c)'
<1> DEFINE due == {x \in Pending : row[x].next \in {0, Nothing}}
<1>1. PICK k, j : /\ Becomes(c, k) /\ Handed(j, BatchOf(due), k) /\ j.untried = due
  BY SelectEffect
<1>2. due \in SUBSET Rows /\ RowsOK /\ before' = before
  BY DEF Pending, WellFormed, Select, intake
<1> HIDE DEF due
<1>3. job'[c] = k
  BY <1>1 DEF Becomes
<1>4. \A x \in BatchOf(due), y \in due \ BatchOf(due) : ~Precedes(y, x)
  BY <1>2, BatchCut
<1>5. CASE k.pc = "prune"
  BY <1>3, <1>5 DEF TurnOK
<1>6. CASE k.pc # "prune"
  <2>1. /\ k.batch = BatchOf(due) /\ k.untried = due
        /\ \A z \in k.batch \ {k.current} : Precedes(k.current, z)
    BY <1>1, <1>6 DEF Handed
  <2> QED
    BY <1>2, <1>3, <1>4, <2>1 DEF TurnOK, Precedes
<1> QED
  BY <1>5, <1>6

LEMMA SettleTurn ==
  ASSUME WellFormed, NEW c \in Cron, TurnOK(c), Settle(c) PROVE TurnOK(c)'
<1>1. job[c].pc = "handoff" /\ Proceed(c) /\ before' = before
  BY DEF Settle
<1>2. PICK k, j : \E b \in SUBSET (job[c].batch \ {job[c].current}) :
        /\ Becomes(c, k) /\ Handed(j, b, k)
        /\ b = {} \/ b = job[c].batch \ {job[c].current}
        /\ j.untried = job[c].untried \ {job[c].current}
  BY <1>1, ProceedEffect
<1>3. PICK b \in SUBSET (job[c].batch \ {job[c].current}) :
        /\ Becomes(c, k) /\ Handed(j, b, k)
        /\ b = {} \/ b = job[c].batch \ {job[c].current}
        /\ j.untried = job[c].untried \ {job[c].current}
  BY <1>2
<1>4. job'[c] = k
  BY <1>3 DEF Becomes
<1>5. CASE k.pc = "prune"
  BY <1>4, <1>5 DEF TurnOK
<1>6. CASE k.pc # "prune"
  <2>1. /\ k.batch = b /\ k.untried = j.untried /\ k.current \in b
        /\ \A z \in b \ {k.current} : Precedes(k.current, z)
    BY <1>3, <1>6 DEF Handed
  <2>2. b = job[c].batch \ {job[c].current}
    BY <1>3, <2>1
  <2>3. k.untried \ k.batch \subseteq job[c].untried \ job[c].batch /\ k.batch \subseteq job[c].batch
    BY <1>3, <2>1, <2>2
  <2>4. \A x \in k.batch, y \in k.untried \ k.batch : ~Precedes(y, x)
    BY <1>1, <2>3 DEF TurnOK
  <2> QED
    BY <1>1, <1>4, <2>1, <2>4 DEF TurnOK, Precedes
<1> QED
  BY <1>5, <1>6

LEMMA JobStep ==
  ASSUME WellFormed, [Next]_vars, NEW d \in Cron
  PROVE  Select(d) \/ Settle(d) \/ SameTurn(d)
<1>1. job \in [Cron -> Job] /\ ManagerOK /\ Idle.pc = "idle"
  BY DEF WellFormed, Idle
<1>2. ASSUME UNCHANGED job PROVE SameTurn(d)
  BY <1>2 DEF SameTurn
<1>3. ASSUME NEW c \in Cron, Select(c) \/ Settle(c), c # d PROVE SameTurn(d)
  <2>1. CASE Select(c)
    <3>1. PICK k : Becomes(c, k)
      BY <2>1, SelectEffect
    <3> QED
      BY <1>3, <3>1 DEF Becomes, SameTurn
  <2>2. CASE Settle(c)
    <3>1. PICK k : Becomes(c, k)
      BY <2>2, ProceedEffect DEF Settle
    <3> QED
      BY <1>3, <3>1 DEF Becomes, SameTurn
  <2> QED
    BY <1>3, <2>1, <2>2
<1>4. ASSUME NEW c \in Cron, Begin(c) PROVE SameTurn(d)
  <2>1. PICK W \in SUBSET Polled :
          job' = [job EXCEPT ![c] = [Idle EXCEPT !.pc = "sync", !.left = W]]
    BY <1>4 DEF Begin
  <2>2. [Idle EXCEPT !.pc = "sync", !.left = W].pc = "sync"
    BY DEF Idle
  <2> QED
    BY <1>1, <2>1, <2>2 DEF SameTurn
<1>5. ASSUME NEW c \in Cron, RecordReport(c) \/ RecordThrows(c) PROVE SameTurn(d)
  <2>1. PICK w \in job[c].left : job' = [job EXCEPT ![c].left = @ \ {w}]
    BY <1>5 DEF RecordReport, RecordThrows
  <2>2. PICK r \in Job : job' = [job EXCEPT ![c] = r] /\ r.pc = "sync" /\ r.batch = {}
    BY <1>5, <2>1, ReadEffect DEF RecordReport, RecordThrows
  <2> QED
    BY <1>1, <2>2 DEF SameTurn
<1>6. ASSUME NEW c \in Cron, Prune(c) PROVE SameTurn(d)
  BY <1>1, <1>6 DEF Prune, SameTurn
<1>7. ASSUME NEW c \in Cron, Crash(c) PROVE SameTurn(d)
  <2>1. [Idle EXCEPT !.pc = "prune"].pc = "prune"
    BY DEF Idle
  <2> QED
    BY <1>1, <1>7, <2>1 DEF Crash, SameTurn
<1>8. ASSUME NEW c \in Cron, NEW a \in Answer, Reply(c, a) PROVE SameTurn(d)
  BY <1>8, ReplyEffect DEF SameTurn
<1>9. ASSUME NEW c \in Cron, Accept(c) \/ TimeOut(c) \/ Break(c) PROVE SameTurn(d)
  BY <1>2, <1>8, <1>9 DEF Accept, TimeOut, Break, Answer
<1>10. ASSUME NEW x \in Report, Complete(x) \/ GiveUp(x) PROVE SameTurn(d)
  BY <1>2, <1>8, <1>10 DEF Complete, GiveUp, ReplyToHolder, Answer
<1>11. ASSUME NEW x \in Report, Deploy(x) \/ Expire(x) PROVE SameTurn(d)
  BY <1>2, <1>11 DEF Deploy, Expire
<1>12. CASE Tick
  <2>1. job[d] \in Job
    BY <1>1
  <2>2. \/ job'[d] = job[d]
        \/ job'[d] = [job[d] EXCEPT !.elapsed = Smaller(job[d].elapsed + 1, MaxDelay)]
    BY <1>12 DEF Tick
  <2> QED
    BY <2>1, <2>2 DEF SameTurn, Job
<1>13. UNCHANGED vars => UNCHANGED job
  BY DEF vars
<1> QED
  BY <1>2, <1>3, <1>4, <1>5, <1>6, <1>7, <1>9, <1>10, <1>11, <1>12, <1>13
     DEF Next, Works, Runs

LEMMA TurnStep == WellFormed /\ InTurn /\ [Next]_vars => InTurn'
<1> SUFFICES ASSUME WellFormed, InTurn, [Next]_vars PROVE InTurn'
  OBVIOUS
<1>1. OrderOK' /\ OrderStays
  BY OrderStep DEF InTurn
<1>2. ASSUME NEW c \in Cron PROVE TurnOK(c)'
  <2>1. TurnOK(c) /\ OrderOK
    BY DEF InTurn
  <2> QED
    BY <1>1, <2>1, JobStep, SelectTurn, SettleTurn, TurnStays
<1> QED
  BY <1>1, <1>2 DEF InTurn

\* No run tries a report while a more urgent one that was due waits for it,
\* whatever the limit, and whatever other runs record, settle and prune.
THEOREM UrgentAlways == Spec => []UrgentFirst
<1>1. Init => InTurn
  <2>1. ASSUME Init PROVE InTurn
    BY <2>1 DEF Init, InTurn, OrderOK, TurnOK, Idle
  <2> QED
    BY <2>1
<1> QED
  BY <1>1, TurnStep, InTurnUrgent, WellFormedAlways, PTL DEF Spec
=============================================================================
