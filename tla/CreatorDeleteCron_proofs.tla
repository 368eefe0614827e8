---------------------- MODULE CreatorDeleteCron_proofs ----------------------
(***************************************************************************)
(* Theorems about CreatorDeleteCron: which deletions the polling window    *)
(* keeps, for any number of invocations, crashes and failing calls.        *)
(***************************************************************************)
EXTENDS CreatorDeleteCron, TLAPS

LEMMA Bounds ==
  /\ Overlap \in Nat /\ Lag \in Nat /\ Timeout \in Nat /\ MaxFaults \in Nat
  /\ MaxRetries \in Nat /\ MaxRetries > 0 /\ Lag <= Overlap /\ Nothing \notin Kind5
  BY CronAssumption

USE Bounds

\* A deletion that nobody has claimed, and whose claim has not failed.
Unclaimed(k) == row[k].status = "none" /\ k \notin thrown

\* The relay serves an event within Lag of its creation.
ServedInTime ==
  \A k \in Kind5 : /\ relay[k] = "absent" => age[k] = 0
                   /\ relay[k] = "stored" => age[k] <= Lag

\* What moves out of the window with this invocation, and is not claimed, is
\* served, and is in the invocation's hands until its query has failed.
InHand(c, k) ==
  /\ relay[k] = "served"
  /\ pc[c] = "query" => k \in asked[c]
  /\ pc[c] = "poll" => k \in todo[c]
  /\ pc[c] = "retry" => ~answered[c]
StaleInHand ==
  \A c \in Cron : pc[c] # "idle" => \A k \in stale[c] : Unclaimed(k) => InHand(c, k)

NotYetAnswered == \A c \in Cron : pc[c] \in {"idle", "query"} => ~answered[c]

WindowKeeps == \A k \in Kind5 : Unclaimed(k) => k \in window

CronInv == TypeOK /\ ServedInTime /\ StaleInHand /\ NotYetAnswered /\ WindowKeeps

-----------------------------------------------------------------------------
LEMMA InitInv == Init => CronInv
  BY DEF Init, CronInv, TypeOK, Status, ServedInTime, StaleInHand, NotYetAnswered, WindowKeeps, Row

LEMMA NewStatus ==
  ASSUME NEW r \in Row, NEW s \in Status
  PROVE  [r EXCEPT !.status = s] \in Row /\ [r EXCEPT !.status = s].status = s
  BY DEF Row

LEMMA NewAge ==
  ASSUME NEW r \in Row, NEW a \in 0..Timeout
  PROVE  [r EXCEPT !.age = a] \in Row /\ [r EXCEPT !.age = a].status = r.status
  BY DEF Row

LEMMA Restarted ==
  ASSUME NEW r \in Row, NEW s \in Status
  PROVE  /\ [r EXCEPT !.status = s, !.age = 0] \in Row
         /\ [r EXCEPT !.status = s, !.age = 0].status = s
<1> DEFINE q == [r EXCEPT !.status = s]
<1>1. q \in Row /\ q.status = s
  BY NewStatus
<1>2. [r EXCEPT !.status = s, !.age = 0] = [q EXCEPT !.age = 0]
  OBVIOUS
<1> HIDE DEF q
<1> QED
  BY <1>1, <1>2, NewAge

\* What a claim does: the deletion is no longer unclaimed, whether it was taken
\* or skipped, and no other row changes.
LEMMA TakeRow ==
  ASSUME TypeOK, NEW w \in Worker, NEW k \in Kind5, Take(w, k)
  PROVE  /\ row' \in [Kind5 -> Row]
         /\ at' \in [Worker -> Kind5 \cup {Nothing}]
         /\ row'[k].status # "none"
         /\ \A j \in Kind5 : row'[j].status = "none" => row[j].status = "none"
<1>1. row \in [Kind5 -> Row] /\ at \in [Worker -> Kind5 \cup {Nothing}]
  BY DEF TypeOK, Row
<1>2. CASE MayProceed(row[k])
  <2> DEFINE r == [row[k] EXCEPT !.status = "accepted", !.age = 0]
  <2>1. row' = [row EXCEPT ![k] = r] /\ at' = [at EXCEPT ![w] = k]
    BY <1>2, <1>1 DEF Take
  <2>2. r \in Row /\ r.status = "accepted"
    BY <1>1, Restarted DEF Status
  <2> HIDE DEF r
  <2> QED
    BY <1>1, <2>1, <2>2
<1>3. CASE ~MayProceed(row[k])
  BY <1>1, <1>3 DEF Take, MayProceed
<1> QED
  BY <1>2, <1>3

LEMMA OutcomeType ==
  ASSUME NEW r \in Row,
         NEW o \in Outcomes(r)
  PROVE  /\ o \in Row
         /\ o.status # "none"
<1>1. AtMost(r.retries + 1, MaxRetries) \in 0..MaxRetries
  BY DEF Row, AtMost
<1>2. CASE o = [r EXCEPT !.status = "success", !.age = 0]
  BY <1>2, Restarted DEF Status
<1>3. CASE o = [r EXCEPT !.status = "permanent", !.age = 0]
  BY <1>3, Restarted DEF Status
<1>4. CASE o = [status |-> IF r.retries + 1 >= MaxRetries THEN "permanent" ELSE "transient",
                age |-> IF r.retries + 1 >= MaxRetries THEN 0 ELSE r.age,
                retries |-> AtMost(r.retries + 1, MaxRetries)]
  BY <1>1, <1>4 DEF Row, Status
<1> QED
  BY <1>2, <1>3, <1>4 DEF Outcomes

\* Nothing becomes unclaimed again, and with nothing else changed the invariant
\* needs only the types and what the invocations have in hand.
LEMMA ClaimStep ==
  ASSUME CronInv, TypeOK', UNCHANGED <<age, relay, window, pc, asked, stale, answered>>,
         thrown \subseteq thrown',
         \A k \in Kind5 : row'[k].status = "none" => row[k].status = "none",
         \A c \in Cron : \A k \in todo[c] \ todo'[c] : ~Unclaimed(k)'
  PROVE  CronInv'
<1>1. \A k \in Kind5 : Unclaimed(k)' => Unclaimed(k)
  BY DEF Unclaimed
<1>2. stale \in [Cron -> SUBSET Kind5]
  BY DEF CronInv, TypeOK
<1>3. StaleInHand'
  BY <1>1, <1>2 DEF CronInv, StaleInHand, InHand
<1> QED
  BY <1>1, <1>3 DEF CronInv, ServedInTime, NotYetAnswered, WindowKeeps

-----------------------------------------------------------------------------
(* The environment.                                                        *)

LEMMA PublishInv == ASSUME CronInv, NEW k \in Kind5, Publish(k) PROVE CronInv'
  BY DEF CronInv, TypeOK, Publish, ServedInTime, StaleInHand, InHand, Unclaimed,
     NotYetAnswered, WindowKeeps, cron

LEMMA ServeInv == ASSUME CronInv, NEW k \in Kind5, Serve(k) PROVE CronInv'
  BY DEF CronInv, TypeOK, Serve, ServedInTime, StaleInHand, InHand, Unclaimed,
     NotYetAnswered, WindowKeeps, cron

LEMMA TickInv == ASSUME CronInv, Tick PROVE CronInv'
<1>1. ASSUME NEW k \in Kind5 PROVE row'[k] \in Row /\ row'[k].status = row[k].status
  <2> row[k] \in Row
    BY DEF CronInv, TypeOK
  <2>1. AtMost(row[k].age + 1, Timeout) \in 0..Timeout
    BY DEF Row, AtMost
  <2>2. row'[k] = IF row[k].status \in {"accepted", "transient"}
                  THEN [row[k] EXCEPT !.age = AtMost(row[k].age + 1, Timeout)] ELSE row[k]
    BY DEF Tick
  <2> QED
    BY <2>1, <2>2, NewAge
<1>2. row' \in [Kind5 -> Row]
  BY <1>1 DEF Tick
<1>3. age' \in [Kind5 -> 0..(Overlap + 1)]
  <2>1. age \in [Kind5 -> 0..(Overlap + 1)]
    BY DEF CronInv, TypeOK
  <2> QED
    BY <2>1 DEF Tick, AtMost
<1>4. ServedInTime'
  BY DEF CronInv, TypeOK, Tick, ServedInTime, AtMost
<1>5. TypeOK'
  BY <1>2, <1>3 DEF CronInv, TypeOK, Tick, cron
<1>6. \A k \in Kind5 : Unclaimed(k)' <=> Unclaimed(k)
  BY <1>1 DEF Unclaimed, Tick
<1>7. stale \in [Cron -> SUBSET Kind5]
  BY DEF CronInv, TypeOK
<1>8. StaleInHand' /\ NotYetAnswered' /\ WindowKeeps'
  BY <1>6, <1>7 DEF CronInv, Tick, cron, StaleInHand, InHand, NotYetAnswered, WindowKeeps
<1> QED
  BY <1>4, <1>5, <1>8 DEF CronInv

-----------------------------------------------------------------------------
(* The claims and their outcomes.                                          *)

LEMMA SettleInv == ASSUME CronInv, NEW w \in Worker, Settle(w) PROVE CronInv'
<1>1. at[w] \in Kind5 /\ row[at[w]] \in Row
  BY DEF CronInv, TypeOK, Settle
<1>2. PICK o \in Outcomes(row[at[w]]) : row' = [row EXCEPT ![at[w]] = o]
  BY DEF Settle
<1>3. o \in Row /\ o.status # "none"
  BY <1>1, OutcomeType
<1>4. TypeOK'
  BY <1>2, <1>3 DEF CronInv, TypeOK, Settle, cron
<1>5. \A k \in Kind5 : row'[k].status = "none" => row[k].status = "none"
  BY <1>2, <1>3 DEF CronInv, TypeOK
<1> QED
  BY <1>4, <1>5, ClaimStep DEF Settle, cron

LEMMA SettleThrowsInv == ASSUME CronInv, NEW w \in Worker, SettleThrows(w) PROVE CronInv'
<1>1. TypeOK'
  BY DEF CronInv, TypeOK, SettleThrows, cron
<1> QED
  BY <1>1, ClaimStep DEF SettleThrows, cron

LEMMA SyncRequestInv == ASSUME CronInv, NEW s \in Sync, SyncRequest(s) PROVE CronInv'
<1>1. PICK k \in Kind5 : Take(s, k)
  BY DEF SyncRequest
<1>2. s \in Worker
  BY DEF Worker
<1>3. TypeOK'
  BY <1>1, <1>2, TakeRow DEF CronInv, TypeOK, SyncRequest, cron
<1>4. \A j \in Kind5 : row'[j].status = "none" => row[j].status = "none"
  BY <1>1, <1>2, TakeRow DEF CronInv
<1> QED
  BY <1>3, <1>4, ClaimStep DEF SyncRequest, cron

-----------------------------------------------------------------------------
(* One cron invocation.                                                    *)

LEMMA BeginInv == ASSUME CronInv, NEW c \in Cron, Begin(c) PROVE CronInv'
<1>1. TypeOK'
  BY DEF CronInv, TypeOK, Begin
<1>2. \A k \in Kind5 : age[k] > Overlap => relay[k] = "served"
  BY DEF CronInv, TypeOK, ServedInTime
<1>3. StaleInHand'
  BY <1>2 DEF CronInv, TypeOK, Begin, StaleInHand, InHand, Unclaimed, WindowKeeps
<1> QED
  BY <1>1, <1>3 DEF CronInv, Begin, TypeOK, ServedInTime, NotYetAnswered, WindowKeeps, Unclaimed

LEMMA QueryAnswersInv == ASSUME CronInv, NEW c \in Cron, QueryAnswers(c) PROVE CronInv'
<1>1. TypeOK'
  BY DEF CronInv, TypeOK, QueryAnswers
<1>2. StaleInHand'
  BY DEF CronInv, TypeOK, QueryAnswers, StaleInHand, InHand, Unclaimed
<1> QED
  BY <1>1, <1>2 DEF CronInv, QueryAnswers, TypeOK, ServedInTime, NotYetAnswered, WindowKeeps, Unclaimed

LEMMA QueryFailsInv == ASSUME CronInv, NEW c \in Cron, QueryFails(c) PROVE CronInv'
<1>1. TypeOK'
  BY DEF CronInv, TypeOK, QueryFails
<1>2. StaleInHand'
  BY DEF CronInv, TypeOK, QueryFails, StaleInHand, InHand, Unclaimed, NotYetAnswered
<1> QED
  BY <1>1, <1>2 DEF CronInv, QueryFails, TypeOK, ServedInTime, NotYetAnswered, WindowKeeps, Unclaimed

LEMMA ProcessInv == ASSUME CronInv, NEW c \in Cron, Process(c) PROVE CronInv'
<1>1. PICK k \in todo[c] : todo' = [todo EXCEPT ![c] = @ \ {k}] /\ Take(c, k)
  BY DEF Process
<1>2. c \in Worker /\ k \in Kind5
  BY <1>1 DEF Worker, CronInv, TypeOK
<1>3. TypeOK'
  BY <1>1, <1>2, TakeRow DEF CronInv, TypeOK, Process
<1>4. \A j \in Kind5 : row'[j].status = "none" => row[j].status = "none"
  BY <1>1, <1>2, TakeRow DEF CronInv
<1>5. \A d \in Cron : \A j \in todo[d] \ todo'[d] : ~Unclaimed(j)'
  BY <1>1, <1>2, TakeRow DEF CronInv, TypeOK, Unclaimed
<1> QED
  BY <1>3, <1>4, <1>5, ClaimStep DEF Process

LEMMA ProcessThrowsInv == ASSUME CronInv, NEW c \in Cron, ProcessThrows(c) PROVE CronInv'
<1>1. PICK k \in todo[c] : todo' = [todo EXCEPT ![c] = @ \ {k}] /\ thrown' = thrown \cup {k}
  BY DEF ProcessThrows
<1>2. TypeOK'
  BY <1>1 DEF CronInv, TypeOK, ProcessThrows
<1>3. \A d \in Cron : \A j \in todo[d] \ todo'[d] : ~Unclaimed(j)'
  BY <1>1 DEF CronInv, TypeOK, Unclaimed
<1> QED
  BY <1>1, <1>2, <1>3, ClaimStep DEF ProcessThrows

LEMMA PollDoneInv == ASSUME CronInv, NEW c \in Cron, PollDone(c) PROVE CronInv'
<1>1. TypeOK'
  BY DEF CronInv, TypeOK, PollDone
<1>2. StaleInHand'
  BY DEF CronInv, TypeOK, PollDone, StaleInHand, InHand, Unclaimed
<1> QED
  BY <1>1, <1>2 DEF CronInv, PollDone, TypeOK, ServedInTime, NotYetAnswered, WindowKeeps, Unclaimed

LEMMA RetryInv == ASSUME CronInv, NEW c \in Cron, Retry(c) PROVE CronInv'
<1>1. PICK k \in retryable[c] : retryable' = [retryable EXCEPT ![c] = @ \ {k}] /\ Take(c, k)
  BY DEF Retry
<1>2. c \in Worker /\ k \in Kind5
  BY <1>1 DEF Worker, CronInv, TypeOK
<1>3. TypeOK'
  BY <1>1, <1>2, TakeRow DEF CronInv, TypeOK, Retry
<1>4. \A j \in Kind5 : row'[j].status = "none" => row[j].status = "none"
  BY <1>1, <1>2, TakeRow DEF CronInv
<1> QED
  BY <1>3, <1>4, ClaimStep DEF Retry

LEMMA RetryThrowsInv == ASSUME CronInv, NEW c \in Cron, RetryThrows(c) PROVE CronInv'
<1>1. TypeOK'
  BY DEF CronInv, TypeOK, RetryThrows
<1> QED
  BY <1>1, ClaimStep DEF RetryThrows

\* An invocation that ends, or is ended, with the window that it leaves.
LEMMA ResetInv ==
  ASSUME CronInv, NEW c \in Cron, Reset(c), TypeOK', UNCHANGED <<age, relay, row, thrown>>,
         WindowKeeps'
  PROVE  CronInv'
<1>1. StaleInHand'
  BY DEF CronInv, TypeOK, Reset, StaleInHand, InHand, Unclaimed
<1> QED
  BY <1>1 DEF CronInv, Reset, TypeOK, ServedInTime, NotYetAnswered

LEMMA FinishInv == ASSUME CronInv, NEW c \in Cron, Finish(c) PROVE CronInv'
<1>1. TypeOK'
  BY DEF CronInv, TypeOK, Finish, Reset
<1>2. \A k \in Kind5 : Unclaimed(k) => k \in window'
  BY DEF CronInv, TypeOK, Finish, StaleInHand, InHand, WindowKeeps
<1> QED
  BY <1>1, <1>2, ResetInv DEF Finish, WindowKeeps, Unclaimed

LEMMA CrashCronInv == ASSUME CronInv, NEW c \in Cron, CrashCron(c) PROVE CronInv'
<1>1. TypeOK'
  <2>1. faults' \in 0..MaxFaults
    BY DEF CronInv, TypeOK, CrashCron
  <2>2. at' \in [Worker -> Kind5 \cup {Nothing}]
    BY DEF CronInv, TypeOK, CrashCron
  <2>3. UNCHANGED <<age, relay, window, row, thrown>> /\ Reset(c)
    BY DEF CrashCron
  <2> QED
    BY <2>1, <2>2, <2>3 DEF CronInv, TypeOK, Reset
<1> QED
  BY <1>1, ResetInv DEF CrashCron, CronInv, WindowKeeps, Unclaimed

LEMMA NextInv == CronInv /\ [Next]_vars => CronInv'
<1> SUFFICES ASSUME CronInv, [Next]_vars PROVE CronInv'
  OBVIOUS
<1>1. CASE UNCHANGED vars
  BY <1>1 DEF vars, CronInv, TypeOK, ServedInTime, StaleInHand, InHand, Unclaimed,
     NotYetAnswered, WindowKeeps
<1>2. CASE \E k \in Kind5 : Publish(k) \/ Serve(k)
  BY <1>2, PublishInv, ServeInv
<1>3. CASE Tick
  BY <1>3, TickInv
<1>4. CASE \E w \in Worker : Settle(w) \/ SettleThrows(w)
  BY <1>4, SettleInv, SettleThrowsInv
<1>5. CASE \E s \in Sync : SyncRequest(s)
  BY <1>5, SyncRequestInv
<1>6. CASE \E c \in Cron : Begin(c) \/ QueryAnswers(c) \/ QueryFails(c)
  BY <1>6, BeginInv, QueryAnswersInv, QueryFailsInv
<1>7. CASE \E c \in Cron : Process(c) \/ ProcessThrows(c) \/ PollDone(c)
  BY <1>7, ProcessInv, ProcessThrowsInv, PollDoneInv
<1>8. CASE \E c \in Cron : Retry(c) \/ RetryThrows(c) \/ Finish(c) \/ CrashCron(c)
  BY <1>8, RetryInv, RetryThrowsInv, FinishInv, CrashCronInv
<1> QED
  BY <1>1, <1>2, <1>3, <1>4, <1>5, <1>6, <1>7, <1>8 DEF Next, Step

-----------------------------------------------------------------------------
(* The theorems.                                                           *)

\* The strengthening holds in every state of the cron (creator-delete/cron.mjs): an
\* unclaimed deletion is in the window, and one that an invocation is about to move
\* out of it is served, and in the hands of that invocation until its query fails.
THEOREM CronInvariant == Spec => []CronInv
  BY InitInv, NextInv, PTL DEF Spec

\* Every variable of the cron keeps its type: ages and retries stay within
\* their bounds, and what an invocation has in hand are deletions.
THEOREM CronTypes == Spec => []TypeOK
<1>1. CronInv => TypeOK
  BY DEF CronInv
<1> QED
  BY <1>1, CronInvariant, PTL

\* What runCreatorDeleteCron's overlap and its conditional write of last-poll
\* are for: an event that the relay has accepted and nobody has claimed stays
\* in the polling window, whatever fails, crashes or overlaps, unless its own
\* claim failed.
THEOREM UnclaimedStaysInWindowHolds == Spec => []UnclaimedStaysInWindow
<1>1. CronInv => UnclaimedStaysInWindow
  BY DEF CronInv, WindowKeeps, UnclaimedStaysInWindow, Unclaimed
<1> QED
  BY <1>1, CronInvariant, PTL
=============================================================================
