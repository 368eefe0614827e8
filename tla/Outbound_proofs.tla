-------------------------- MODULE Outbound_proofs ---------------------------
(***************************************************************************)
(* Theorems about what goes out and what is judged on the way: the direct  *)
(* messages, the enforcement against uploaders, the escalation of pending  *)
(* verdicts, the circuit breaker of the detector and the verdict of the    *)
(* classifier. Each part is about one module, for every value of its       *)
(* constants, and rests on the assumptions of that module alone.           *)
(***************************************************************************)
EXTENDS DmSender, Enforcement, Escalation, Detector, Classifier, TLAPS

-----------------------------------------------------------------------------
(* DmSender. What relays have stored of a message is told by what its      *)
(* attempts have heard, so far as it was heard; an attempt that starts     *)
(* anew finds nothing that an earlier one is known to have left.           *)

DmSteps == {"idle", "limit", "discover", "publish", "settle", "record", "put", "log",
            "sent", "failed", "definitive"}
Fates == {"unseen", "received", "stored", "refused"}
Hearings == {"none", "accepted", "rejected", "no_ack"}

AttemptTyped(a) ==
  /\ DOMAIN a = {"at", "number", "targets", "heard", "window"}
  /\ a.at \in DmSteps /\ a.number \in 0..MaxSends /\ a.targets \subseteq Relay
  /\ a.heard \in [Relay -> Hearings]
  /\ a.number = 0 => a.at = "idle"
DmTyped ==
  /\ relays \subseteq Relay /\ DOMAIN attempt = Dm /\ \A m \in Dm : AttemptTyped(attempt[m])
  /\ holds \in [Wraps -> [Relay -> Fates]]

\* What can still be stored: only a wrap of the attempt under way, from its
\* publishing on.
Gone(h) == h \in {"unseen", "refused"}
AttemptSafe(m, a) ==
  /\ \A k \in 1..MaxSends : \A r \in Relay :
       /\ k > a.number => holds[<<m, k>>][r] = "unseen"
       /\ k < a.number => Gone(holds[<<m, k>>][r])
       /\ k = a.number =>
            /\ a.at \in {"idle", "definitive"} => Gone(holds[<<m, k>>][r])
            /\ a.at \in {"limit", "discover", "publish"} => holds[<<m, k>>][r] = "unseen"
            /\ a.at = "settle" /\ r \notin a.targets => holds[<<m, k>>][r] = "unseen"
            /\ a.at = "settle" /\ a.heard[r] = "rejected" => holds[<<m, k>>][r] = "refused"

DmInv == DmTyped /\ \A m \in Dm : AttemptSafe(m, attempt[m])
-----------------------------------------------------------------------------
USE DmSenderAssumption

LEMMA SendsAreNumbers == MaxSends \in Nat \ {0}
  OBVIOUS

LEMMA DmInitInv == DmInit => DmInv
<1> SUFFICES ASSUME DmInit PROVE DmInv
  OBVIOUS
<1>1. \A m \in Dm : attempt[m] = [at |-> "idle", number |-> 0, targets |-> {},
                                  heard |-> Unheard, window |-> <<>>]
  BY DEF DmInit
<1>2. \A m \in Dm : AttemptTyped(attempt[m])
  BY <1>1 DEF AttemptTyped, DmSteps, Unheard, Hearings
<1>3. \A m \in Dm : \A k \in 1..MaxSends : \A r \in Relay : holds[<<m, k>>][r] = "unseen"
  BY DEF DmInit, Wraps
<1>4. DmTyped
  BY <1>2 DEF DmInit, DmTyped, Fates
<1> QED
  BY <1>1, <1>3, <1>4 DEF DmInv, AttemptSafe, Gone

\* A step of one attempt that leaves what the relays hold.
LEMMA AttemptStep ==
  ASSUME DmInv, NEW m \in Dm, NEW a, Put(m, a), AttemptTyped(a), AttemptSafe(m, a),
         UNCHANGED holds, relays' \subseteq Relay
  PROVE  DmInv'
<1>1. DOMAIN attempt' = Dm /\ attempt'[m] = a /\ \A n \in Dm \ {m} : attempt'[n] = attempt[n]
  BY DEF DmInv, DmTyped, Put
<1>2. DmTyped'
  BY <1>1 DEF DmInv, DmTyped, AttemptTyped
<1>3. ASSUME NEW n \in Dm PROVE AttemptSafe(n, attempt[n])'
  BY <1>1 DEF DmInv, AttemptSafe
<1> QED
  BY <1>2, <1>3 DEF DmInv

\* A step that changes only where an attempt is, to one that promises no more.
LEMMA MovedOn ==
  ASSUME DmInv, NEW m \in Dm, NEW at \in DmSteps, attempt[m].number # 0
  PROVE  LET a == [attempt[m] EXCEPT !.at = at]
         IN /\ AttemptTyped(a) /\ a.at = at /\ a.number = attempt[m].number
            /\ a.targets = attempt[m].targets /\ a.heard = attempt[m].heard
  BY DEF DmInv, DmTyped, AttemptTyped

LEMMA FailureSteps ==
  \A m, certain : Failure(m, certain) \in {"failed", "definitive"}
  BY DEF Failure

LEMMA BeginSendInv == ASSUME DmInv, NEW m \in Dm, BeginSend(m) PROVE DmInv'
<1> DEFINE at == IF m \in Unsendable THEN Failure(m, TRUE) ELSE "limit"
           a == [at |-> at, number |-> attempt[m].number + 1, targets |-> {},
                 heard |-> Unheard, window |-> <<>>]
<1>1. at \in {"limit", "failed", "definitive"}
  BY FailureSteps
<1>2. AttemptTyped(attempt[m]) /\ AttemptSafe(m, attempt[m]) /\ attempt[m].at = "idle"
      /\ attempt[m].number < MaxSends
  BY DEF DmInv, DmTyped, BeginSend, AtStep
<1>3. Put(m, a) /\ UNCHANGED <<holds, relays>>
  BY DEF BeginSend
<1> HIDE DEF at
<1>4. AttemptTyped(a)
  BY <1>1, <1>2 DEF AttemptTyped, DmSteps, Unheard, Hearings
<1>5. AttemptSafe(m, a)
  BY <1>1, <1>2 DEF AttemptTyped, AttemptSafe, Gone
<1> QED
  BY <1>3, <1>4, <1>5, AttemptStep DEF DmInv, DmTyped

LEMMA StepInv ==
  ASSUME DmInv, NEW m \in Dm, NEW at \in DmSteps, Step(m, at), attempt[m].number # 0,
         AttemptSafe(m, [attempt[m] EXCEPT !.at = at]), UNCHANGED <<holds, relays>>
  PROVE  DmInv'
  BY MovedOn, AttemptStep DEF Step, DmInv, DmTyped

LEMMA NumberedUnlessIdle ==
  ASSUME DmInv, NEW m \in Dm, attempt[m].at # "idle"
  PROVE  attempt[m].number \in 1..MaxSends
  BY DEF DmInv, DmTyped, AttemptTyped

LEMMA CheckRateLimitInv == ASSUME DmInv, NEW m \in Dm, CheckRateLimit(m) PROVE DmInv'
<1>1. PICK at \in {"failed", "definitive", "discover"} : Step(m, at)
  BY FailureSteps DEF CheckRateLimit
<1>2. attempt[m].at = "limit" /\ attempt[m].number \in 1..MaxSends /\ UNCHANGED <<holds, relays>>
  BY NumberedUnlessIdle DEF CheckRateLimit, AtStep
<1>3. at \in DmSteps
  BY DEF DmSteps
<1>4. AttemptSafe(m, [attempt[m] EXCEPT !.at = at])
  BY <1>2, <1>3, MovedOn DEF DmInv, AttemptSafe, Gone
<1> QED
  BY <1>1, <1>2, <1>3, <1>4, StepInv

LEMMA KnownRelays == DmTyped => Known \subseteq Relay
  BY DEF Known, DmTyped

LEMMA CappedRelays ==
  ASSUME NEW found \in {{}, ReadRelays}, NEW list \in Capped(ListFor(found))
  PROVE  list \subseteq Relay
  BY DEF Capped, ListFor

LEMMA DiscoverInv == ASSUME DmInv, NEW m \in Dm, Discover(m) PROVE DmInv'
<1>1. attempt[m].at = "discover" /\ attempt[m].number \in 1..MaxSends /\ UNCHANGED holds
      /\ AttemptTyped(attempt[m]) /\ AttemptSafe(m, attempt[m])
  BY NumberedUnlessIdle DEF Discover, AtStep, DmInv, DmTyped
<1>2. ASSUME NEW targets, targets \subseteq Relay, relays' \subseteq Relay,
             Put(m, [attempt[m] EXCEPT !.at = "publish", !.targets = targets])
      PROVE  DmInv'
  <2> DEFINE b == [attempt[m] EXCEPT !.at = "publish"]
             a == [b EXCEPT !.targets = targets]
  <2>1. "publish" \in DmSteps
    BY DEF DmSteps
  <2>2. AttemptTyped(b) /\ b.at = "publish" /\ b.number = attempt[m].number
    BY <1>1, <2>1, MovedOn
  <2>3. Put(m, a)
    BY <1>2
  <2> HIDE DEF b
  <2>4. AttemptTyped(a) /\ a.at = "publish" /\ a.number = attempt[m].number
    BY <1>2, <2>2 DEF AttemptTyped
  <2> HIDE DEF a
  <2>5. AttemptSafe(m, a)
    BY <1>1, <2>4 DEF AttemptSafe
  <2> QED
    BY <1>1, <1>2, <2>3, <2>4, <2>5, AttemptStep
<1>3. CASE Step(m, Failure(m, TRUE)) /\ UNCHANGED relays
  <2> DEFINE at == Failure(m, TRUE)
  <2>1. at \in {"failed", "definitive"} /\ Step(m, at)
    BY <1>3, FailureSteps
  <2>2. at \in DmSteps
    BY <2>1 DEF DmSteps
  <2> HIDE DEF at
  <2>3. AttemptSafe(m, [attempt[m] EXCEPT !.at = at])
    BY <1>1, <2>1, <2>2, MovedOn DEF AttemptSafe, Gone
  <2> QED
    BY <1>1, <1>3, <2>1, <2>2, <2>3, StepInv
<1>4. relays \subseteq Relay
  BY DEF DmInv, DmTyped
<1> QED
  BY <1>2, <1>3, <1>4, KnownRelays, CappedRelays DEF Discover, DmInv

LEMMA PublishToRelaysInv == ASSUME DmInv, NEW m \in Dm, PublishToRelays(m) PROVE DmInv'
<1>1. attempt[m].at = "publish" /\ attempt[m].number \in 1..MaxSends
      /\ AttemptTyped(attempt[m]) /\ AttemptSafe(m, attempt[m])
  BY NumberedUnlessIdle DEF PublishToRelays, AtStep, DmInv, DmTyped
<1>2. PICK reached \in SUBSET attempt[m].targets :
        /\ holds' = [holds EXCEPT ![<<m, attempt[m].number>>] =
                       [r \in Relay |-> IF r \in reached THEN "received" ELSE "unseen"]]
        /\ Put(m, [attempt[m] EXCEPT !.at = "settle",
                     !.heard = [r \in Relay |->
                                  IF r \in attempt[m].targets \ reached THEN "no_ack" ELSE "none"]])
  BY DEF PublishToRelays
<1> DEFINE got == [r \in Relay |-> IF r \in reached THEN "received" ELSE "unseen"]
           heard == [r \in Relay |-> IF r \in attempt[m].targets \ reached THEN "no_ack" ELSE "none"]
           b == [attempt[m] EXCEPT !.at = "settle"]
           a == [b EXCEPT !.heard = heard]
<1>3. b.at = "settle" /\ AttemptTyped(b) /\ b.number = attempt[m].number
      /\ b.targets = attempt[m].targets
  <2> "settle" \in DmSteps
    BY DEF DmSteps
  <2> QED
    BY <1>1, MovedOn
<1>4. Put(m, a)
  BY <1>2
<1>5. heard \in [Relay -> Hearings] /\ got \in [Relay -> Fates]
      /\ \A r \in Relay : heard[r] # "rejected" /\ (r \notin attempt[m].targets => got[r] = "unseen")
  BY DEF Hearings, Fates
<1>6. holds' = [holds EXCEPT ![<<m, attempt[m].number>>] = got]
  BY <1>2
<1> HIDE DEF got, heard, b
<1>7. AttemptTyped(a) /\ a.at = "settle" /\ a.number = attempt[m].number
      /\ a.targets = attempt[m].targets /\ a.heard = heard
  BY <1>3, <1>5 DEF AttemptTyped
<1> HIDE DEF a
<1>8. DOMAIN attempt' = Dm /\ attempt'[m] = a /\ \A n \in Dm \ {m} : attempt'[n] = attempt[n]
  BY <1>4 DEF DmInv, DmTyped, Put
<1>9. <<m, attempt[m].number>> \in Wraps /\ holds \in [Wraps -> [Relay -> Fates]]
  BY <1>1 DEF Wraps, DmInv, DmTyped
<1>10. /\ holds' \in [Wraps -> [Relay -> Fates]]
       /\ holds'[<<m, attempt[m].number>>] = got
       /\ \A n \in Dm : \A k \in 1..MaxSends :
            n # m \/ k # attempt[m].number => holds'[<<n, k>>] = holds[<<n, k>>]
  BY <1>5, <1>6, <1>9 DEF Wraps
<1>11. DmTyped'
  BY <1>7, <1>8, <1>10 DEF DmInv, DmTyped, AttemptTyped, PublishToRelays
<1>12. AttemptSafe(m, attempt[m])'
  BY <1>1, <1>5, <1>7, <1>8, <1>10 DEF AttemptSafe, Gone
<1>13. ASSUME NEW n \in Dm, n # m PROVE AttemptSafe(n, attempt[n])'
  BY <1>8, <1>10, <1>13 DEF DmInv, AttemptSafe
<1> QED
  BY <1>11, <1>12, <1>13 DEF DmInv

LEMMA RelayDecidesInv ==
  ASSUME DmInv, NEW w \in Wraps, NEW r \in Relay, RelayDecides(w, r) PROVE DmInv'
<1>1. PICK fate \in {"stored", "refused"} : holds' = [holds EXCEPT ![w][r] = fate]
  BY DEF RelayDecides
<1>2. holds \in [Wraps -> [Relay -> Fates]] /\ holds[w][r] = "received"
  BY DEF DmInv, DmTyped, RelayDecides
<1>3. /\ holds' \in [Wraps -> [Relay -> Fates]]
      /\ \A v \in Wraps : \A q \in Relay :
           \/ holds'[v][q] = holds[v][q]
           \/ holds[v][q] = "received"
  BY <1>1, <1>2 DEF Fates
<1>4. UNCHANGED <<attempt, relays>>
  BY DEF RelayDecides
<1>5. DmTyped'
  BY <1>3, <1>4 DEF DmInv, DmTyped
<1>6. ASSUME NEW m \in Dm PROVE AttemptSafe(m, attempt[m])'
  <2>1. AttemptSafe(m, attempt[m]) /\ AttemptTyped(attempt[m])
    BY DEF DmInv, DmTyped
  <2>2. \A k \in 1..MaxSends : <<m, k>> \in Wraps
    BY DEF Wraps
  <2> QED
    BY <1>3, <1>4, <2>1, <2>2 DEF AttemptSafe, Gone
<1> QED
  BY <1>5, <1>6 DEF DmInv

LEMMA HearRelayInv == ASSUME DmInv, NEW m \in Dm, NEW r \in Relay, HearRelay(m, r) PROVE DmInv'
<1>1. attempt[m].at = "settle" /\ attempt[m].number \in 1..MaxSends /\ UNCHANGED <<holds, relays>>
      /\ AttemptTyped(attempt[m]) /\ AttemptSafe(m, attempt[m])
  BY NumberedUnlessIdle DEF HearRelay, AtStep, DmInv, DmTyped
<1>2. PICK answer \in Hearings :
        /\ Put(m, [attempt[m] EXCEPT !.heard[r] = answer])
        /\ answer = "rejected" => holds[<<m, attempt[m].number>>][r] = "refused"
  BY DEF HearRelay, Hearings
<1> DEFINE heard == [attempt[m].heard EXCEPT ![r] = answer]
           a == [attempt[m] EXCEPT !.heard = heard]
<1>3. Put(m, a)
  BY <1>1, <1>2 DEF AttemptTyped
<1>4. heard \in [Relay -> Hearings] /\ heard[r] = answer
      /\ \A q \in Relay \ {r} : heard[q] = attempt[m].heard[q]
  BY <1>1 DEF AttemptTyped
<1> HIDE DEF heard
<1>5. AttemptTyped(a) /\ a.at = "settle" /\ a.number = attempt[m].number
      /\ a.targets = attempt[m].targets /\ a.heard = heard
  BY <1>1, <1>4 DEF AttemptTyped
<1> HIDE DEF a
<1>6. AttemptSafe(m, a)
  BY <1>1, <1>2, <1>4, <1>5 DEF AttemptSafe
<1> QED
  BY <1>1, <1>3, <1>5, <1>6, AttemptStep DEF DmInv, DmTyped

LEMMA SettleInv == ASSUME DmInv, NEW m \in Dm, Settle(m) PROVE DmInv'
<1>1. attempt[m].at = "settle" /\ attempt[m].number \in 1..MaxSends /\ UNCHANGED <<holds, relays>>
      /\ AttemptTyped(attempt[m]) /\ AttemptSafe(m, attempt[m])
  BY NumberedUnlessIdle DEF Settle, AtStep, DmInv, DmTyped
<1> DEFINE got == {attempt[m].heard[r] : r \in attempt[m].targets}
           at == IF "accepted" \in got THEN "record" ELSE Failure(m, got = {"rejected"})
<1>2. at \in {"record", "failed", "definitive"} /\ Step(m, at)
  BY FailureSteps DEF Settle
<1>3. at = "definitive" => \A r \in attempt[m].targets : attempt[m].heard[r] = "rejected"
  BY DEF Failure
<1>4. at \in DmSteps
  BY <1>2 DEF DmSteps
<1> HIDE DEF at
<1>5. AttemptSafe(m, [attempt[m] EXCEPT !.at = at])
  BY <1>1, <1>2, <1>3, <1>4, MovedOn DEF AttemptSafe, Gone, AttemptTyped
<1> QED
  BY <1>1, <1>2, <1>4, <1>5, StepInv

\* An attempt at its next step, with another window.
WithWindow(a, at, window) == [a EXCEPT !.at = at, !.window = window]

\* The recording of what was sent, whatever it reads and writes.
LEMMA RecordedInv ==
  ASSUME DmInv, NEW m \in Dm, NEW at \in {"put", "log", "sent"}, NEW window,
         attempt[m].at \in {"record", "put", "log"}, UNCHANGED <<holds, relays>>,
         \/ Put(m, WithWindow(attempt[m], at, window))
         \/ Step(m, at)
  PROVE  DmInv'
<1> DEFINE b == [attempt[m] EXCEPT !.at = at]
           a == [b EXCEPT !.window = window]
<1>1. at \in DmSteps /\ attempt[m].number \in 1..MaxSends
      /\ AttemptTyped(attempt[m]) /\ AttemptSafe(m, attempt[m])
  BY NumberedUnlessIdle DEF DmSteps, DmInv, DmTyped
<1>2. AttemptTyped(b) /\ b.at = at /\ b.number = attempt[m].number
  BY <1>1, MovedOn
<1>3. Put(m, a) \/ Put(m, b)
  BY DEF Step, WithWindow
<1> HIDE DEF b
<1>4. AttemptTyped(a) /\ a.at = at /\ a.number = attempt[m].number
  BY <1>2 DEF AttemptTyped
<1> HIDE DEF a
<1>5. AttemptSafe(m, a) /\ AttemptSafe(m, b)
  BY <1>1, <1>2, <1>4 DEF AttemptSafe
<1> QED
  BY <1>2, <1>3, <1>4, <1>5, AttemptStep DEF DmInv, DmTyped

LEMMA SendAgainInv == ASSUME DmInv, NEW m \in Dm, SendAgain(m) PROVE DmInv'
<1>1. attempt[m].at = "definitive" /\ attempt[m].number \in 1..MaxSends
      /\ UNCHANGED <<holds, relays>> /\ Step(m, "idle") /\ AttemptSafe(m, attempt[m])
  BY NumberedUnlessIdle DEF SendAgain, AtStep, DmInv, DmTyped
<1>2. "idle" \in DmSteps
  BY DEF DmSteps
<1>3. AttemptSafe(m, [attempt[m] EXCEPT !.at = "idle"])
  BY <1>1, <1>2, MovedOn DEF AttemptSafe
<1> QED
  BY <1>1, <1>2, <1>3, StepInv

LEMMA DmNextInv == DmInv /\ [DmNext]_dmVars => DmInv'
<1> SUFFICES ASSUME DmInv, [DmNext]_dmVars PROVE DmInv'
  OBVIOUS
<1>1. CASE UNCHANGED <<attempt, holds, relays>>
  BY <1>1 DEF DmInv, DmTyped, AttemptSafe
<1>2. CASE \E m \in Dm : BeginSend(m) \/ CheckRateLimit(m) \/ Discover(m) \/ PublishToRelays(m)
  BY <1>2, BeginSendInv, CheckRateLimitInv, DiscoverInv, PublishToRelaysInv
<1>3. CASE \E m \in Dm, r \in Relay : HearRelay(m, r)
  BY <1>3, HearRelayInv
<1>4. CASE \E m \in Dm : Settle(m) \/ SendAgain(m)
  BY <1>4, SettleInv, SendAgainInv
<1>5. ASSUME NEW m \in Dm, ReadRateLimit(m) \/ RecordRateLimit(m) \/ LogSent(m)
      PROVE  DmInv'
  <2>1. CASE ReadRateLimit(m)
    <3>1. attempt[m].at = "record" /\ UNCHANGED <<holds, relays>>
      BY <2>1 DEF ReadRateLimit, AtStep
    <3>2. CASE Step(m, "log")
      BY <3>1, <3>2, RecordedInv
    <3>3. CASE Put(m, WithWindow(attempt[m], "put", Append(Within(sent), dmTime)))
      BY <3>1, <3>3, RecordedInv
    <3> QED
      BY <2>1, <3>2, <3>3 DEF ReadRateLimit, WithWindow
  <2>2. CASE RecordRateLimit(m)
    <3>1. /\ attempt[m].at = "put" /\ UNCHANGED <<holds, relays>>
          /\ Put(m, WithWindow(attempt[m], "log", <<>>))
      BY <2>2 DEF RecordRateLimit, AtStep, WithWindow
    <3> QED
      BY <3>1, RecordedInv
  <2>3. CASE LogSent(m)
    <3>1. attempt[m].at = "log" /\ UNCHANGED <<holds, relays>> /\ Step(m, "sent")
      BY <2>3 DEF LogSent, AtStep
    <3> QED
      BY <3>1, RecordedInv
  <2> QED
    BY <1>5, <2>1, <2>2, <2>3
<1>6. CASE \E w \in Wraps, r \in Relay : RelayDecides(w, r)
  BY <1>6, RelayDecidesInv
<1>7. CASE ElapseSecond \/ \E action \in {"SAFE", "QUARANTINE"} : Notify(action)
  BY <1>1, <1>7 DEF ElapseSecond, Notify
<1> QED
  BY <1>1, <1>2, <1>3, <1>4, <1>5, <1>6, <1>7 DEF DmNext, dmVars

\* The strengthening holds in every state of nostr/dm-sender.mjs: a relay can still
\* store a wrap only of the last attempt, from its publishing on; the wraps of the
\* attempts before it were refused, or never reached a relay.
THEOREM DmInvariant == DmSpec => []DmInv
  BY DmInitInv, DmNextInv, PTL DEF DmSpec

\* No relay ever stores a second wrap of a message, nor one of a message whose
\* sender was told that it certainly was not sent: however late relays decide,
\* and whatever they, KV and D1 answer (dm-sender.mjs:887).
THEOREM NoSecondCopyHolds == DmSpec => []NoSecondCopy
<1>1. ASSUME DmInv, NEW m \in Dm
      PROVE  /\ \A j, k \in 1..MaxSends : \A r, q \in Relay :
                  holds[<<m, j>>][r] = "stored" /\ holds[<<m, k>>][q] = "stored" => j = k
             /\ AtStep(m, "definitive") =>
                  \A k \in 1..MaxSends : \A r \in Relay :
                    holds[<<m, k>>][r] \notin {"received", "stored"}
  <2>1. AttemptSafe(m, attempt[m]) /\ attempt[m].number \in Nat
    BY <1>1 DEF DmInv, DmTyped, AttemptTyped
  <2>2. ASSUME NEW k \in 1..MaxSends, NEW r \in Relay,
               holds[<<m, k>>][r] \in {"received", "stored"}
        PROVE  k = attempt[m].number /\ attempt[m].at # "definitive"
    BY <2>1, <2>2 DEF AttemptSafe, Gone
  <2> QED
    BY <2>2 DEF AtStep
<1>2. DmInv => NoSecondCopy
  BY <1>1 DEF NoSecondCopy
<1> QED
  BY <1>2, DmInvariant, PTL

HIDE DmSenderAssumption

-----------------------------------------------------------------------------
(* Enforcement. For every set of moderators and of versions of a video,    *)
(* and every number of requests and failures.                              *)

USE EnforcementAssumption

Calling(w) == demand[w].at \in {"asked", "applied", "refused"}
Banning(w) == Calling(w) /\ "ban" \in DOMAIN demand[w].rpc
Deleting(w) == Calling(w) /\ "event" \in DOMAIN demand[w].rpc

\* A request that is about the row, from its admission to its last step.
OnRow(w) == demand[w].at \in {"current", "existing", "write"} \/ Banning(w)
Agree == InForce.banned = relayBan

Typed == demand \in [Moderator -> Demand] /\ enforcement \in Standing \cup {Unset}
         /\ relayBan \in BOOLEAN /\ belated \subseteq Rpc /\ served \subseteq Version
         /\ doubt \in BOOLEAN

\* A call is the one that its request is about.
CallsMatch ==
  \A w \in Moderator :
    /\ Calling(w) => demand[w].rpc \in Rpc
    /\ Banning(w) => demand[w].ban \in BOOLEAN /\ demand[w].rpc = [ban |-> demand[w].ban]
    /\ demand[w].called => demand[w].ban \in BOOLEAN /\ demand[w].at \in {"existing", "write"}
    /\ demand[w].at = "write" => demand[w].saw \in Standing

\* With a request that is alone nobody else is at work, and no ban is on its way.
AloneInv ==
  \A w \in Moderator : AtWork(w) /\ demand[w].alone =>
    /\ \A v \in Moderator : AtWork(v) => v = w
    /\ LateBans = {} \/ (Banning(w) /\ demand[w].at = "refused")

\* The ban that the relay has confirmed to such a request is in force there.
Confirmed(w) ==
  \/ Banning(w) /\ demand[w].at = "applied"
  \/ demand[w].at \in {"existing", "write"} /\ demand[w].called
InHand == \A w \in Moderator : demand[w].alone /\ Confirmed(w) => relayBan = demand[w].ban

\* Where a request about the row stands while there is no doubt.
RowOk(w) ==
  /\ demand[w].at \in {"current", "asked", "refused"} => Agree
  /\ Confirmed(w) => relayBan = demand[w].ban
  /\ demand[w].at \in {"existing", "write"} /\ ~demand[w].called =>
       Agree /\ demand[w].ban \in {Unset, InForce.banned}
  /\ demand[w].at = "write" => demand[w].saw = InForce
Undoubted ==
  ~doubt =>
    /\ LateBans = {}
    /\ \A v, w \in Moderator : OnRow(v) /\ OnRow(w) => v = w
    /\ (\A w \in Moderator : ~OnRow(w)) => Agree
    /\ \A w \in Moderator : OnRow(w) => RowOk(w)

\* What a delete has found and is still served is what it has yet to delete.
Remains(w) == demand[w].found \cap served
DeleteOk(w) ==
  /\ demand[w].at \in {"delete", "deleted"} /\ ~demand[w].failed => Remains(w) \subseteq demand[w].ids
  /\ Deleting(w) /\ demand[w].at = "applied" /\ ~demand[w].failed => Remains(w) \subseteq demand[w].ids
  /\ Deleting(w) /\ demand[w].at = "asked" /\ ~demand[w].failed =>
       Remains(w) \subseteq demand[w].ids \cup {demand[w].rpc.event}
  /\ demand[w].at = "deleted" => ~demand[w].failed /\ demand[w].ids = {}
DeletesInv == \A w \in Moderator : DeleteOk(w)

RowInv == Typed /\ CallsMatch /\ AloneInv /\ InHand /\ Undoubted
EnforcementInv == RowInv /\ DeletesInv

-----------------------------------------------------------------------------
LEMMA RpcKinds ==
  /\ \A b \in BOOLEAN : /\ [ban |-> b] \in Rpc /\ [ban |-> b].ban = b
                        /\ "ban" \in DOMAIN [ban |-> b] /\ "event" \notin DOMAIN [ban |-> b]
  /\ \A e \in Version : /\ [event |-> e] \in Rpc /\ [event |-> e].event = e
                        /\ "event" \in DOMAIN [event |-> e] /\ "ban" \notin DOMAIN [event |-> e]
  /\ \A r \in Rpc : \/ r.ban \in BOOLEAN /\ "ban" \in DOMAIN r /\ "event" \notin DOMAIN r
                    \/ r.event \in Version /\ "event" \in DOMAIN r /\ "ban" \notin DOMAIN r
  BY DEF Rpc

LEMMA NoDemandType == NoDemand \in Demand
  BY DEF NoDemand, Demand, Update

LEMMA TurnRule ==
  ASSUME Typed, NEW w \in Moderator, NEW d \in Demand, Turn(w, d)
  PROVE  /\ demand' \in [Moderator -> Demand] /\ demand'[w] = d
         /\ \A v \in Moderator \ {w} : demand'[v] = demand[v]
  BY DEF Typed, Turn

LEMMA AtType ==
  ASSUME NEW d \in Demand, NEW e \in Demand
  PROVE  [d EXCEPT !.at = e.at] \in Demand
  BY DEF Demand

LEMMA InitInv == EnforcementInit => EnforcementInv
<1> SUFFICES ASSUME EnforcementInit PROVE EnforcementInv
  OBVIOUS
<1>1. demand = [w \in Moderator |-> NoDemand] /\ belated = {} /\ doubt = FALSE
  BY DEF EnforcementInit
<1>2. Typed
  BY <1>1, NoDemandType DEF EnforcementInit, Typed
<1>3. \A w \in Moderator : demand[w].at = "idle" /\ ~demand[w].called
  BY <1>1 DEF NoDemand
<1>4. Agree
  BY DEF EnforcementInit, Agree, InForce
<1>5. LateBans = {}
  BY <1>1 DEF LateBans
<1> QED
  BY <1>1, <1>2, <1>3, <1>4, <1>5 DEF EnforcementInv, RowInv, CallsMatch, AloneInv, InHand, Undoubted,
     DeletesInv, DeleteOk, Calling, Banning, Deleting, OnRow, AtWork, Confirmed

-----------------------------------------------------------------------------
(* A step of one request leaves the others as they are.                    *)

Local(w) ==
  /\ demand' \in [Moderator -> Demand]
  /\ \A v \in Moderator \ {w} : demand'[v] = demand[v]

LEMMA OthersSame ==
  ASSUME NEW w \in Moderator, Local(w)
  PROVE  \A v \in Moderator \ {w} :
           /\ AtWork(v)' = AtWork(v) /\ Banning(v)' = Banning(v) /\ OnRow(v)' = OnRow(v)
           /\ Calling(v)' = Calling(v) /\ Deleting(v)' = Deleting(v) /\ Confirmed(v)' = Confirmed(v)
           /\ Stage(v, "deleted")' = Stage(v, "deleted")
  BY DEF Local, AtWork, Banning, OnRow, Calling, Deleting, Confirmed, Stage

LEMMA LocalAlone ==
  ASSUME AloneInv, NEW w \in Moderator, Local(w), AtWork(w),
         AtWork(w)' => demand'[w].alone = demand[w].alone,
         AtWork(w)' => ~(Banning(w) /\ demand[w].at = "refused"),
         LateBans' = LateBans \/ (Banning(w)' /\ demand'[w].at = "refused")
  PROVE  AloneInv'
<1> SUFFICES ASSUME NEW v \in Moderator, AtWork(v)', demand'[v].alone
             PROVE  /\ \A u \in Moderator : AtWork(u)' => u = v
                    /\ LateBans' = {} \/ (Banning(v)' /\ demand'[v].at = "refused")
  BY DEF AloneInv
<1>1. CASE v = w
  BY <1>1, OthersSame DEF AloneInv
<1>2. CASE v # w
  BY <1>2, OthersSame DEF AloneInv, Local
<1> QED
  BY <1>1, <1>2

\* An earlier doubt is only settled by a request whose ban has been confirmed.
LEMMA LocalUndoubted ==
  ASSUME Undoubted, AloneInv, NEW w \in Moderator, Local(w),
         doubt \in BOOLEAN,
         ~doubt' => /\ ~doubt /\ LateBans' = LateBans
                    /\ OnRow(w)' => OnRow(w) /\ RowOk(w)'
                    /\ OnRow(w) /\ ~OnRow(w)' => Agree'
                    /\ ~OnRow(w) => /\ Agree' = Agree /\ relayBan' = relayBan
                                    /\ InForce' = InForce
  PROVE  Undoubted'
<1> SUFFICES ASSUME ~doubt' PROVE
      /\ LateBans' = {}
      /\ \A v, u \in Moderator : OnRow(v)' /\ OnRow(u)' => v = u
      /\ (\A v \in Moderator : ~OnRow(v)') => Agree'
      /\ \A v \in Moderator : OnRow(v)' => RowOk(v)'
  BY DEF Undoubted
<1>1. /\ ~doubt /\ LateBans = {}
      /\ \A v, u \in Moderator : OnRow(v) /\ OnRow(u) => v = u
      /\ (\A v \in Moderator : ~OnRow(v)) => Agree
      /\ \A v \in Moderator : OnRow(v) => RowOk(v)
  BY DEF Undoubted
<1>2. \A v \in Moderator : OnRow(v)' => OnRow(v)
  BY OthersSame
<1>3. (\A v \in Moderator : ~OnRow(v)') => Agree'
  BY <1>1, OthersSame
<1>4. ASSUME NEW v \in Moderator, OnRow(v)' PROVE RowOk(v)'
  <2>1. CASE v = w
    BY <1>4, <2>1
  <2>2. CASE v # w
    <3>1. demand'[v] = demand[v] /\ Confirmed(v)' = Confirmed(v) /\ OnRow(v) /\ ~OnRow(w)
      BY <1>1, <1>4, <2>2, OthersSame DEF Local
    <3> QED
      BY <1>1, <3>1 DEF RowOk
  <2> QED
    BY <2>1, <2>2
<1> QED
  BY <1>1, <1>2, <1>3, <1>4

\* The requests that are alone: the relay's ban only changes by their own step.
LEMMA LocalInHand ==
  ASSUME InHand, AloneInv, NEW w \in Moderator, Local(w), AtWork(w),
         demand'[w].alone /\ Confirmed(w)' => relayBan' = demand'[w].ban
  PROVE  InHand'
<1> SUFFICES ASSUME NEW v \in Moderator, v # w, demand'[v].alone, Confirmed(v)'
             PROVE  relayBan' = demand'[v].ban
  BY DEF InHand
<1>1. demand[v].alone /\ AtWork(v)
  BY OthersSame DEF Local, Confirmed, AtWork, Banning
<1> QED
  BY <1>1 DEF AloneInv

LEMMA LocalCalls ==
  ASSUME CallsMatch, NEW w \in Moderator, Local(w),
         /\ Calling(w)' => demand'[w].rpc \in Rpc
         /\ Banning(w)' => demand'[w].ban \in BOOLEAN /\ demand'[w].rpc = [ban |-> demand'[w].ban]
         /\ demand'[w].called => demand'[w].ban \in BOOLEAN /\ demand'[w].at \in {"existing", "write"}
         /\ demand'[w].at = "write" => demand'[w].saw \in Standing
  PROVE  CallsMatch'
  BY OthersSame DEF CallsMatch, Local

LEMMA LocalDeletes ==
  ASSUME DeletesInv, NEW w \in Moderator, Local(w), served' \subseteq served, DeleteOk(w)'
  PROVE  DeletesInv'
<1> SUFFICES ASSUME NEW v \in Moderator, v # w PROVE DeleteOk(v)'
  BY DEF DeletesInv
<1>1. demand'[v] = demand[v] /\ Deleting(v)' = Deleting(v) /\ DeleteOk(v)
  BY OthersSame DEF Local, DeletesInv
<1>2. Remains(v)' \subseteq Remains(v)
  BY <1>1 DEF Remains
<1> QED
  BY <1>1, <1>2 DEF DeleteOk

\* A step of one request that concludes it.
LEMMA LocalIdle ==
  ASSUME Typed, NEW w \in Moderator, Turn(w, NoDemand)
  PROVE  /\ Local(w) /\ demand'[w] = NoDemand
         /\ ~AtWork(w)' /\ ~OnRow(w)' /\ ~Calling(w)' /\ ~Banning(w)' /\ ~Deleting(w)'
         /\ ~Confirmed(w)' /\ DeleteOk(w)' /\ ~demand'[w].called /\ demand'[w].at # "write"
<1>1. Local(w) /\ demand'[w] = NoDemand
  BY TurnRule, NoDemandType DEF Local
<1>2. demand'[w].at = "idle" /\ ~demand'[w].called
  BY <1>1 DEF NoDemand
<1> QED
  BY <1>1, <1>2 DEF AtWork, OnRow, Calling, Banning, Deleting, Confirmed, DeleteOk

LEMMA LocalInv ==
  ASSUME EnforcementInv, NEW w \in Moderator, Typed', AloneInv', Undoubted', Local(w), AtWork(w),
         served' \subseteq served, DeleteOk(w)',
         demand'[w].alone /\ Confirmed(w)' => relayBan' = demand'[w].ban,
         /\ Calling(w)' => demand'[w].rpc \in Rpc
         /\ Banning(w)' => demand'[w].ban \in BOOLEAN /\ demand'[w].rpc = [ban |-> demand'[w].ban]
         /\ demand'[w].called => demand'[w].ban \in BOOLEAN /\ demand'[w].at \in {"existing", "write"}
         /\ demand'[w].at = "write" => demand'[w].saw \in Standing
  PROVE  EnforcementInv'
  BY LocalInHand, LocalCalls, LocalDeletes DEF EnforcementInv, RowInv

-----------------------------------------------------------------------------
(* The steps of a request about the row.                                   *)

\* Only the state of one request changes.
Inward == UNCHANGED <<enforcement, relayState, doubt>>

LEMMA SilentSame ==
  ASSUME Inward
  PROVE  /\ Agree' = Agree /\ InForce' = InForce /\ LateBans' = LateBans
         /\ relayBan' = relayBan /\ served' = served /\ doubt' = doubt /\ belated' = belated
  BY DEF Inward, relayState, Agree, InForce, LateBans

LEMMA TypedParts ==
  ASSUME EnforcementInv, NEW w \in Moderator
  PROVE  /\ Typed /\ demand[w] \in Demand /\ doubt \in BOOLEAN /\ CallsMatch /\ AloneInv /\ InHand
         /\ Undoubted /\ DeletesInv /\ DeleteOk(w) /\ InForce \in Standing /\ relayBan \in BOOLEAN
<1>1. InForce \in Standing
  BY DEF EnforcementInv, RowInv, Typed, InForce, Standing
<1> QED
  BY <1>1 DEF EnforcementInv, RowInv, Typed, DeletesInv

\* A step that goes on with a request.
LEMMA SilentStep ==
  ASSUME EnforcementInv, NEW w \in Moderator, NEW d \in Demand, Inward, Turn(w, d), AtWork(w),
         d.alone = demand[w].alone, ~(Banning(w) /\ demand[w].at = "refused"),
         demand'[w] = d =>
           /\ (OnRow(w)' <=> OnRow(w)) /\ (OnRow(w) /\ ~doubt => RowOk(w)') /\ DeleteOk(w)'
           /\ d.alone /\ Confirmed(w)' => relayBan = d.ban
           /\ Calling(w)' => d.rpc \in Rpc
           /\ Banning(w)' => d.ban \in BOOLEAN /\ d.rpc = [ban |-> d.ban]
           /\ d.called => d.ban \in BOOLEAN /\ d.at \in {"existing", "write"}
           /\ d.at = "write" => d.saw \in Standing
  PROVE  EnforcementInv'
<1>1. Local(w) /\ demand'[w] = d
  BY TypedParts, TurnRule DEF Local
<1>2. Typed'
  BY <1>1, TypedParts DEF Inward, relayState, Local, Typed
<1>3. AloneInv'
  BY <1>1, TypedParts, SilentSame, LocalAlone
<1>4. Undoubted'
  BY <1>1, TypedParts, SilentSame, LocalUndoubted
<1> QED
  BY <1>1, <1>2, <1>3, <1>4, SilentSame, LocalInv

\* A step that ends a request, and may leave doubt.
LEMMA EndStep ==
  ASSUME EnforcementInv, NEW w \in Moderator, Turn(w, NoDemand), AtWork(w),
         UNCHANGED <<enforcement, relayState>>, doubt' \in BOOLEAN, doubt => doubt',
         OnRow(w) /\ ~doubt' => Agree
  PROVE  EnforcementInv'
<1>1. /\ Agree' = Agree /\ InForce' = InForce /\ LateBans' = LateBans
      /\ relayBan' = relayBan /\ served' = served
  BY DEF relayState, Agree, InForce, LateBans
<1>2. Typed /\ Local(w) /\ demand'[w] = NoDemand /\ ~AtWork(w)'
  BY TypedParts, LocalIdle
<1>3. Typed'
  BY <1>2 DEF relayState, Local, Typed
<1>4. AloneInv'
  BY <1>1, <1>2, TypedParts, LocalAlone
<1>5. Undoubted'
  BY <1>1, <1>2, TypedParts, LocalIdle, LocalUndoubted
<1> QED
  BY <1>1, <1>2, <1>3, <1>4, <1>5, LocalIdle, LocalInv

LEMMA ReadCurrentInv ==
  ASSUME EnforcementInv, NEW w \in Moderator, ReadCurrent(w)
  PROVE  EnforcementInv'
<1> DEFINE d == demand[w]
           asked == [d EXCEPT !.at = "asked", !.rpc = [ban |-> d.ban]]
           spared == [d EXCEPT !.at = "existing"]
<1>1. Typed /\ d \in Demand /\ d.at = "current" /\ Inward /\ InForce \in Standing /\ ~d.called
  BY TypedParts DEF ReadCurrent, Stage, Inward, CallsMatch
<1>2. OnRow(w) /\ AtWork(w) /\ ~Banning(w) /\ (~doubt => Agree)
  BY <1>1, TypedParts DEF OnRow, AtWork, Banning, Calling, Undoubted, RowOk
<1>3. CASE d.ban \notin {Unset, InForce.banned} /\ Turn(w, asked)
  <2>1. d.ban \in BOOLEAN
    BY <1>1, <1>3 DEF Demand, Update
  <2>2. asked \in Demand
    BY <1>1, <2>1, RpcKinds DEF Demand
  <2>3. /\ asked.at = "asked" /\ asked.rpc = [ban |-> d.ban] /\ asked.ban = d.ban
        /\ asked.alone = d.alone /\ asked.called = d.called /\ asked.rpc \in Rpc
        /\ "ban" \in DOMAIN asked.rpc /\ "event" \notin DOMAIN asked.rpc
    BY <1>1, <2>1, RpcKinds DEF Demand
  <2> HIDE DEF asked
  <2> SUFFICES ASSUME demand'[w] = asked
               PROVE  /\ OnRow(w)' /\ (~doubt => RowOk(w)') /\ DeleteOk(w)' /\ ~Confirmed(w)'
    BY <1>1, <1>2, <1>3, <2>1, <2>2, <2>3, SilentStep
  <2> QED
    BY <1>2, <2>3, <1>1, SilentSame
    DEF OnRow, RowOk, DeleteOk, Deleting, Banning, Calling, Confirmed
<1>4. CASE d.ban \in {Unset, InForce.banned} /\ Turn(w, spared)
  <2>1. spared \in Demand
    BY <1>1 DEF Demand
  <2>2. /\ spared.at = "existing" /\ spared.ban = d.ban
        /\ spared.alone = d.alone /\ ~spared.called
    BY <1>1 DEF Demand
  <2> HIDE DEF spared
  <2> SUFFICES ASSUME demand'[w] = spared
               PROVE  /\ OnRow(w)' /\ (~doubt => RowOk(w)') /\ DeleteOk(w)' /\ ~Confirmed(w)'
                      /\ ~Calling(w)'
    BY <1>1, <1>2, <1>4, <2>1, <2>2, SilentStep DEF Banning
  <2> QED
    BY <1>1, <1>2, <1>4, <2>2, SilentSame
    DEF OnRow, RowOk, DeleteOk, Deleting, Banning, Calling, Confirmed
<1> QED
  BY <1>3, <1>4 DEF ReadCurrent, Move

LEMMA HearBanInv ==
  ASSUME EnforcementInv, NEW w \in Moderator, HearBan(w)
  PROVE  EnforcementInv'
<1> DEFINE d == demand[w]
           heard == [d EXCEPT !.at = "existing", !.called = TRUE]
<1>1. /\ Typed /\ d \in Demand /\ d.at \in {"applied", "refused"} /\ Inward /\ Banning(w)
      /\ d.ban \in BOOLEAN
  BY TypedParts DEF HearBan, Stage, Inward, CallsMatch, Banning, Calling
<1>2. OnRow(w) /\ AtWork(w) /\ (~doubt => RowOk(w))
  BY <1>1, TypedParts DEF OnRow, AtWork, Undoubted
<1>3. CASE d.at = "applied" /\ Turn(w, heard)
  <2>1. heard \in Demand
    BY <1>1 DEF Demand
  <2>2. heard.at = "existing" /\ heard.ban = d.ban /\ heard.alone = d.alone /\ heard.called
    BY <1>1 DEF Demand
  <2>3. (~doubt => relayBan = d.ban) /\ (d.alone => relayBan = d.ban)
    BY <1>1, <1>2, <1>3, TypedParts DEF RowOk, Confirmed, InHand
  <2> HIDE DEF heard
  <2> SUFFICES ASSUME demand'[w] = heard
               PROVE  /\ OnRow(w)' /\ (~doubt => RowOk(w)') /\ DeleteOk(w)' /\ ~Calling(w)'
    BY <1>1, <1>2, <1>3, <2>1, <2>2, <2>3, SilentStep DEF Banning
  <2> QED
    BY <1>1, <1>2, <2>2, <2>3, SilentSame
    DEF OnRow, RowOk, DeleteOk, Deleting, Banning, Calling, Confirmed
<1>4. CASE d.at = "refused" /\ Turn(w, NoDemand)
  BY <1>1, <1>2, <1>4, SilentSame, EndStep DEF RowOk, Inward, Typed
<1> QED
  BY <1>1, <1>3, <1>4 DEF HearBan, Stage

LEMMA ReadExistingInv ==
  ASSUME EnforcementInv, NEW w \in Moderator, ReadExisting(w)
  PROVE  EnforcementInv'
<1> DEFINE d == demand[w]
           seen == [d EXCEPT !.at = "write", !.saw = InForce]
<1>1. Typed /\ d \in Demand /\ d.at = "existing" /\ Inward /\ InForce \in Standing /\ Turn(w, seen)
  BY TypedParts DEF ReadExisting, Stage, Inward
<1>2. OnRow(w) /\ AtWork(w) /\ ~Banning(w) /\ (~doubt => RowOk(w))
  BY <1>1, TypedParts DEF OnRow, AtWork, Banning, Calling, Undoubted
<1>3. seen \in Demand
  BY <1>1 DEF Demand
<1>4. /\ seen.at = "write" /\ seen.ban = d.ban /\ seen.alone = d.alone /\ seen.called = d.called
      /\ seen.saw = InForce
  BY <1>1 DEF Demand
<1>5. /\ d.called => d.ban \in BOOLEAN
      /\ d.called /\ d.alone => relayBan = d.ban
  BY <1>1, TypedParts DEF CallsMatch, InHand, Confirmed
<1> HIDE DEF seen
<1> SUFFICES ASSUME demand'[w] = seen
             PROVE  /\ OnRow(w)' /\ (~doubt => RowOk(w)') /\ DeleteOk(w)' /\ ~Calling(w)'
                    /\ Confirmed(w)' => d.called
  BY <1>1, <1>2, <1>3, <1>4, <1>5, SilentStep DEF Banning
<1> QED
  BY <1>1, <1>2, <1>4, SilentSame
  DEF OnRow, RowOk, DeleteOk, Deleting, Banning, Calling, Confirmed

LEMMA BreakInv ==
  ASSUME EnforcementInv, NEW w \in Moderator, Break(w)
  PROVE  EnforcementInv'
<1>1. AtWork(w) /\ OnRow(w) /\ UNCHANGED <<enforcement, relayState>> /\ Turn(w, NoDemand)
      /\ doubt' = (doubt \/ demand[w].called)
  BY DEF Break, AtWork, OnRow
<1>2. ~doubt /\ ~demand[w].called => Agree
  BY <1>1, TypedParts DEF Undoubted, RowOk, Break
<1>3. doubt' \in BOOLEAN /\ (doubt => doubt') /\ (~doubt' => ~doubt /\ ~demand[w].called)
  BY <1>1, TypedParts DEF Demand
<1> QED
  BY <1>1, <1>2, <1>3, EndStep

LEMMA WriteRowInv ==
  ASSUME EnforcementInv, NEW w \in Moderator, WriteRow(w)
  PROVE  EnforcementInv'
<1> DEFINE d == demand[w]
<1>1. /\ Typed /\ d \in Demand /\ d.at = "write" /\ UNCHANGED relayState /\ Turn(w, NoDemand)
      /\ enforcement' = [approval |-> Given(d.approval, d.saw.approval),
                         banned |-> Given(d.ban, d.saw.banned)]
      /\ doubt' = (doubt /\ ~(d.alone /\ d.called)) /\ doubt \in BOOLEAN
      /\ InForce \in Standing /\ relayBan \in BOOLEAN
  BY TypedParts DEF WriteRow, Stage
<1>2. OnRow(w) /\ AtWork(w) /\ ~Banning(w) /\ (~doubt => RowOk(w))
  BY <1>1, TypedParts DEF OnRow, AtWork, Banning, Calling, Undoubted
<1>3. relayBan' = relayBan /\ served' = served /\ belated' = belated /\ LateBans' = LateBans
  BY <1>1 DEF relayState, LateBans
<1>4. Local(w) /\ demand'[w] = NoDemand /\ ~AtWork(w)' /\ ~OnRow(w)'
  BY <1>1, LocalIdle
<1>5. AloneInv'
  BY <1>2, <1>3, <1>4, TypedParts, LocalAlone
<1>6. d.ban \in BOOLEAN \cup {Unset} /\ d.approval \in BOOLEAN \cup {Unset} /\ d.saw \in Standing \cup {Unset}
  BY <1>1 DEF Demand, Update
<1>7. d.saw \in Standing => InForce' = enforcement' /\ enforcement' \in Standing
                             /\ InForce'.banned = Given(d.ban, d.saw.banned)
  <2> SUFFICES ASSUME d.saw \in Standing
               PROVE  /\ InForce' = enforcement' /\ enforcement' \in Standing
                      /\ InForce'.banned = Given(d.ban, d.saw.banned)
    OBVIOUS
  <2>1. Given(d.approval, d.saw.approval) \in BOOLEAN /\ Given(d.ban, d.saw.banned) \in BOOLEAN
    BY <1>6 DEF Given, Standing
  <2>2. enforcement' \in Standing /\ enforcement'.banned = Given(d.ban, d.saw.banned)
    BY <1>1, <2>1 DEF Standing
  <2>3. enforcement' # Unset
    BY <2>2
  <2>4. InForce' = enforcement'
    BY <2>3 DEF InForce
  <2> QED
    BY <2>2, <2>4
<1>8. d.saw \in Standing /\ (d.called => d.ban \in BOOLEAN)
  BY <1>1, TypedParts DEF CallsMatch
<1>9. Typed'
  BY <1>1, <1>3, <1>4, <1>7, <1>8 DEF Typed, Local
<1>10. d.called => Given(d.ban, d.saw.banned) = d.ban
  BY <1>8 DEF Given
<1>11. Undoubted'
  <2>1. CASE ~doubt
    <3>1. ~d.called => Given(d.ban, d.saw.banned) = InForce.banned /\ Agree
      BY <1>1, <1>2, <2>1 DEF RowOk, Given
    <3>2. d.called => relayBan = d.ban
      BY <1>1, <1>2, <2>1 DEF RowOk, Confirmed
    <3>3. Agree'
      BY <1>3, <1>7, <1>8, <1>10, <3>1, <3>2 DEF Agree
    <3> QED
      BY <1>2, <1>3, <1>4, <2>1, <3>3, TypedParts, LocalUndoubted
  <2>2. CASE d.alone /\ d.called
    <3>1. LateBans' = {}
      BY <1>1, <1>2, <1>3, <2>2, TypedParts DEF AloneInv
    <3>2. \A v \in Moderator : ~OnRow(v)'
      BY <1>2, <1>4, <2>2, TypedParts, OthersSame DEF AloneInv, AtWork, OnRow, Banning, Calling
    <3>3. relayBan = d.ban
      BY <1>1, <2>2, TypedParts DEF InHand, Confirmed
    <3>4. Agree'
      BY <1>3, <1>7, <1>8, <1>10, <2>2, <3>3 DEF Agree
    <3> QED
      BY <3>1, <3>2, <3>4 DEF Undoubted
  <2>3. CASE doubt'
    BY <2>3 DEF Undoubted
  <2> QED
    BY <1>1, <2>1, <2>2, <2>3
<1> QED
  BY <1>1, <1>2, <1>3, <1>4, <1>5, <1>9, <1>11, LocalIdle, LocalInv

-----------------------------------------------------------------------------
(* The relay.                                                              *)

\* What a call that is carried out changes there.
LEMMA CarriedRule ==
  ASSUME NEW rpc \in Rpc, Carried(rpc), Typed
  PROVE  /\ served' \subseteq served /\ relayBan' \in BOOLEAN
         /\ "ban" \in DOMAIN rpc => relayBan' = rpc.ban
         /\ "ban" \notin DOMAIN rpc => relayBan' = relayBan
         /\ "event" \in DOMAIN rpc => served' = served \ {rpc.event}
  BY RpcKinds DEF Carried, Typed

\* A call stays the same call, whatever becomes of it.
CallOf(w, d) ==
  /\ d.ban = demand[w].ban /\ d.rpc = demand[w].rpc /\ d.alone = demand[w].alone
  /\ d.called = demand[w].called /\ d.ids = demand[w].ids /\ d.found = demand[w].found
  /\ d.failed = demand[w].failed

LEMMA MoveRule ==
  ASSUME EnforcementInv, NEW w \in Moderator, NEW at \in {"applied", "refused"}, Move(w, at),
         Calling(w)
  PROVE  /\ Local(w) /\ demand'[w].at = at /\ CallOf(w, demand'[w])
         /\ AtWork(w) /\ AtWork(w)' /\ Calling(w)' /\ ~demand[w].called
         /\ Banning(w)' = Banning(w) /\ Deleting(w)' = Deleting(w) /\ OnRow(w)' = OnRow(w)
         /\ OnRow(w) = Banning(w)
<1>1. Typed /\ demand[w] \in Demand
  BY TypedParts
<1>2. [demand[w] EXCEPT !.at = at] \in Demand
  BY <1>1 DEF Demand
<1>3. Local(w) /\ demand'[w] = [demand[w] EXCEPT !.at = at]
  BY <1>1, <1>2, TurnRule DEF Move, Local
<1>4. demand'[w].at = at /\ CallOf(w, demand'[w])
  BY <1>1, <1>3 DEF Demand, CallOf
<1>5. demand[w].at \in {"asked", "applied", "refused"} /\ ~demand[w].called
  BY TypedParts DEF Calling, CallsMatch
<1> QED
  BY <1>3, <1>4, <1>5 DEF AtWork, Calling, Banning, Deleting, OnRow, CallOf

LEMMA CarriesOutInv ==
  ASSUME EnforcementInv, NEW w \in Moderator, RelayCarriesOut(w)
  PROVE  EnforcementInv'
<1>1. /\ demand[w].at = "asked" /\ Calling(w) /\ Move(w, "applied") /\ Carried(demand[w].rpc)
      /\ UNCHANGED <<enforcement, belated, doubt>>
  BY DEF RelayCarriesOut, Stage, Calling
<1>2. /\ Local(w) /\ demand'[w].at = "applied" /\ CallOf(w, demand'[w])
      /\ AtWork(w) /\ AtWork(w)' /\ Calling(w)' /\ ~demand[w].called
      /\ Banning(w)' = Banning(w) /\ Deleting(w)' = Deleting(w) /\ OnRow(w)' = OnRow(w)
      /\ OnRow(w) = Banning(w)
  BY <1>1, MoveRule
<1>3. /\ demand[w].rpc \in Rpc /\ Typed
      /\ Banning(w) => demand[w].ban \in BOOLEAN /\ demand[w].rpc = [ban |-> demand[w].ban]
  BY <1>1, TypedParts DEF CallsMatch
<1>4. /\ served' \subseteq served /\ relayBan' \in BOOLEAN
      /\ Banning(w) => relayBan' = demand[w].ban
      /\ ~Banning(w) => relayBan' = relayBan
      /\ Deleting(w) => served' = served \ {demand[w].rpc.event}
  BY <1>1, <1>3, CarriedRule, RpcKinds DEF Banning, Deleting
<1>5. LateBans' = LateBans /\ InForce' = InForce
  BY <1>1 DEF LateBans, InForce
<1>6. Typed'
  BY <1>1, <1>2, <1>3, <1>4 DEF Typed, Local
<1>7. AloneInv'
  BY <1>1, <1>2, <1>5, TypedParts, LocalAlone DEF CallOf
<1>8. ~OnRow(w) => Agree' = Agree
  BY <1>2, <1>4, <1>5 DEF Agree
<1>9. OnRow(w) => RowOk(w)'
  BY <1>2, <1>4 DEF RowOk, Confirmed, CallOf
<1>10. Undoubted'
  BY <1>1, <1>2, <1>4, <1>5, <1>8, <1>9, TypedParts, LocalUndoubted
<1>11. DeleteOk(w)'
  <2>1. demand'[w].found = demand[w].found /\ demand'[w].ids = demand[w].ids
        /\ demand'[w].failed = demand[w].failed
    BY <1>2 DEF CallOf
  <2>2. Deleting(w) /\ ~demand[w].failed => Remains(w)' \subseteq demand[w].ids
    BY <1>1, <1>4, <2>1, TypedParts DEF DeleteOk, Remains
  <2> QED
    BY <1>2, <2>1, <2>2 DEF DeleteOk
<1> QED
  BY <1>2, <1>3, <1>4, <1>6, <1>7, <1>10, <1>11, LocalInv DEF CallOf, Confirmed

LEMMA RefusesInv ==
  ASSUME EnforcementInv, NEW w \in Moderator, RelayRefuses(w) \/ TimeOut(w)
  PROVE  EnforcementInv'
<1>1. /\ demand[w].at \in {"asked", "applied"} /\ Calling(w) /\ Move(w, "refused")
      /\ UNCHANGED <<enforcement, relayBan, served>>
  BY DEF RelayRefuses, TimeOut, Stage, Calling, relayState
<1>2. /\ Local(w) /\ demand'[w].at = "refused" /\ CallOf(w, demand'[w])
      /\ AtWork(w) /\ AtWork(w)' /\ Calling(w)' /\ ~demand[w].called
      /\ Banning(w)' = Banning(w) /\ Deleting(w)' = Deleting(w) /\ OnRow(w)' = OnRow(w)
      /\ OnRow(w) = Banning(w)
  BY <1>1, MoveRule
<1>3. /\ demand[w].rpc \in Rpc /\ Typed
      /\ Banning(w) => demand[w].ban \in BOOLEAN /\ demand[w].rpc = [ban |-> demand[w].ban]
  BY <1>1, TypedParts DEF CallsMatch
<1>4. /\ belated' \subseteq belated \cup {demand[w].rpc} /\ doubt' \in BOOLEAN
      /\ ~doubt' => ~doubt
      /\ Banning(w) /\ ~doubt' => belated' = belated /\ demand[w].at = "asked"
      /\ belated \subseteq belated'
  BY <1>1, <1>3 DEF RelayRefuses, TimeOut, Stage, relayState, Typed, Banning
<1>5. ~Banning(w) => LateBans' = LateBans
  BY <1>1, <1>4 DEF LateBans, Banning
<1>6. InForce' = InForce /\ Agree' = Agree
  BY <1>1 DEF InForce, Agree
<1>7. Typed'
  BY <1>1, <1>2, <1>3, <1>4 DEF Typed, Local
<1>8. AloneInv'
  BY <1>1, <1>2, <1>5, TypedParts, LocalAlone DEF CallOf
<1>9. ~doubt' /\ OnRow(w) => LateBans' = LateBans /\ RowOk(w)'
  <2>1. ~doubt' /\ OnRow(w) => Agree
    BY <1>2, <1>4, TypedParts DEF Undoubted, RowOk
  <2>2. ~doubt' /\ OnRow(w) => LateBans' = LateBans
    BY <1>2, <1>4 DEF LateBans
  <2> QED
    BY <1>2, <1>6, <2>1, <2>2 DEF RowOk, Confirmed
<1>10. Undoubted'
  BY <1>1, <1>2, <1>4, <1>5, <1>6, <1>9, TypedParts, LocalUndoubted
<1>11. DeleteOk(w)'
  BY <1>2 DEF DeleteOk
<1> QED
  BY <1>1, <1>2, <1>3, <1>7, <1>8, <1>10, <1>11, LocalInv DEF CallOf, Confirmed

\* A ban that is carried out late meets neither a request that is alone nor a
\* row that is not in doubt.
LEMMA LateInv ==
  ASSUME EnforcementInv, NEW rpc \in belated, RelayIsLate(rpc)
  PROVE  EnforcementInv'
<1>1. /\ UNCHANGED <<enforcement, demand, doubt>> /\ belated' \subseteq belated
      /\ Carried(rpc) \/ UNCHANGED <<relayBan, served>>
      /\ Typed /\ rpc \in Rpc /\ CallsMatch /\ AloneInv /\ InHand /\ Undoubted /\ DeletesInv
  BY DEF RelayIsLate, EnforcementInv, RowInv, Typed
<1>2. /\ served' \subseteq served /\ relayBan' \in BOOLEAN
      /\ LateBans = {} => relayBan' = relayBan
      /\ LateBans' \subseteq LateBans
  BY <1>1, CarriedRule DEF LateBans, Typed
<1>3. \A w \in Moderator : /\ AtWork(w)' = AtWork(w) /\ Banning(w)' = Banning(w)
                           /\ OnRow(w)' = OnRow(w) /\ Confirmed(w)' = Confirmed(w)
                           /\ Calling(w)' = Calling(w) /\ Deleting(w)' = Deleting(w)
  BY <1>1 DEF AtWork, Banning, OnRow, Confirmed, Calling, Deleting
<1>4. Typed' /\ CallsMatch' /\ AloneInv'
  BY <1>1, <1>2, <1>3 DEF Typed, CallsMatch, AloneInv
<1>5. InHand'
  <2> SUFFICES ASSUME NEW w \in Moderator, demand[w].alone, Confirmed(w)
               PROVE  relayBan' = demand[w].ban
    BY <1>1, <1>3 DEF InHand
  <2>1. AtWork(w) /\ demand[w].at # "refused"
    BY DEF Confirmed, AtWork
  <2> QED
    BY <1>1, <1>2, <2>1 DEF InHand, AloneInv
<1>6. Undoubted'
  <2>1. ~doubt => relayBan' = relayBan /\ Agree' = Agree /\ InForce' = InForce
    BY <1>1, <1>2 DEF Undoubted, Agree, InForce
  <2>2. ~doubt => \A w \in Moderator : RowOk(w) => RowOk(w)'
    BY <1>1, <1>3, <2>1 DEF RowOk
  <2> QED
    BY <1>1, <1>2, <1>3, <2>1, <2>2 DEF Undoubted
<1>7. DeletesInv'
  <2>1. \A w \in Moderator : Remains(w)' \subseteq Remains(w)
    BY <1>1, <1>2 DEF Remains
  <2> QED
    BY <1>1, <1>3, <2>1 DEF DeletesInv, DeleteOk
<1> QED
  BY <1>4, <1>5, <1>6, <1>7 DEF EnforcementInv, RowInv

-----------------------------------------------------------------------------
(* The deletes.                                                            *)

LEMMA FindInv ==
  ASSUME EnforcementInv, NEW w \in Moderator, FindEvents(w)
  PROVE  EnforcementInv'
<1> DEFINE d == demand[w]
           found == [d EXCEPT !.at = "delete", !.ids = served, !.found = served]
<1>1. Typed /\ d \in Demand /\ d.at = "find" /\ Inward /\ ~d.called
  BY TypedParts DEF FindEvents, Stage, Inward, CallsMatch
<1>2. ~OnRow(w) /\ AtWork(w) /\ ~Banning(w)
  BY <1>1 DEF OnRow, AtWork, Banning, Calling
<1>3. CASE Turn(w, NoDemand)
  BY <1>1, <1>2, <1>3, SilentSame, EndStep DEF Inward, Typed
<1>4. CASE Turn(w, found)
  <2>1. found \in Demand
    BY <1>1 DEF Demand, Typed
  <2>2. /\ found.at = "delete" /\ found.alone = d.alone /\ ~found.called
        /\ found.ids = served /\ found.found = served
    BY <1>1 DEF Demand
  <2> HIDE DEF found
  <2> SUFFICES ASSUME demand'[w] = found
               PROVE  ~OnRow(w)' /\ DeleteOk(w)' /\ ~Confirmed(w)' /\ ~Calling(w)'
    BY <1>1, <1>2, <1>4, <2>1, <2>2, SilentStep DEF Banning
  <2> QED
    BY <2>2, SilentSame, <1>1
    DEF OnRow, DeleteOk, Deleting, Banning, Calling, Confirmed, Remains
<1> QED
  BY <1>3, <1>4 DEF FindEvents

LEMMA AskInv ==
  ASSUME EnforcementInv, NEW w \in Moderator, AskDelete(w)
  PROVE  EnforcementInv'
<1>0. PICK id \in demand[w].ids :
        Turn(w, [demand[w] EXCEPT !.at = "asked", !.rpc = [event |-> id], !.ids = @ \ {id}])
  BY DEF AskDelete
<1> DEFINE d == demand[w]
           asked == [d EXCEPT !.at = "asked", !.rpc = [event |-> id], !.ids = d.ids \ {id}]
<1>1. Typed /\ d \in Demand /\ d.at = "delete" /\ Inward /\ ~d.called /\ DeleteOk(w)
  BY TypedParts DEF AskDelete, Stage, Inward, CallsMatch
<1>2. ~OnRow(w) /\ AtWork(w) /\ ~Banning(w) /\ id \in Version
  BY <1>1 DEF OnRow, AtWork, Banning, Calling, Demand
<1>3. asked \in Demand
  BY <1>1, <1>2, RpcKinds DEF Demand
<1>4. /\ asked.at = "asked" /\ asked.alone = d.alone /\ ~asked.called
      /\ asked.rpc = [event |-> id] /\ asked.rpc \in Rpc /\ asked.rpc.event = id
      /\ "ban" \notin DOMAIN asked.rpc /\ asked.ids = d.ids \ {id} /\ asked.found = d.found
      /\ asked.failed = d.failed
  BY <1>1, <1>2, RpcKinds DEF Demand
<1>5. Turn(w, asked)
  BY <1>0
<1> HIDE DEF asked
<1> SUFFICES ASSUME demand'[w] = asked
             PROVE  ~OnRow(w)' /\ DeleteOk(w)' /\ ~Confirmed(w)' /\ ~Banning(w)'
  BY <1>1, <1>2, <1>3, <1>4, <1>5, SilentStep
<1>6. ~OnRow(w)' /\ ~Confirmed(w)' /\ ~Banning(w)'
  BY <1>4 DEF OnRow, Banning, Calling, Confirmed
<1>7. ~d.failed => Remains(w)' \subseteq asked.ids \cup {id}
  BY <1>1, <1>4, SilentSame DEF DeleteOk, Remains
<1> QED
  BY <1>4, <1>6, <1>7 DEF DeleteOk, Deleting, Calling

LEMMA HearDeleteInv ==
  ASSUME EnforcementInv, NEW w \in Moderator, HearDelete(w)
  PROVE  EnforcementInv'
<1> DEFINE d == demand[w]
           heard == [d EXCEPT !.failed = d.failed \/ Stage(w, "refused"), !.rpc = Unset]
           next == [heard EXCEPT !.at = "delete"]
           last == [heard EXCEPT !.at = "deleted"]
<1>1. /\ Typed /\ d \in Demand /\ d.at \in {"applied", "refused"} /\ Inward /\ ~d.called
      /\ Deleting(w) /\ DeleteOk(w) /\ Calling(w)
      /\ Turn(w, IF heard.ids # {} THEN next ELSE IF heard.failed THEN NoDemand ELSE last)
  BY TypedParts DEF HearDelete, Stage, Inward, CallsMatch, Deleting, Calling
<1>2. ~OnRow(w) /\ AtWork(w) /\ ~Banning(w)
  <2>1. "ban" \notin DOMAIN d.rpc
    BY <1>1, RpcKinds, TypedParts DEF CallsMatch, Deleting
  <2> QED
    BY <1>1, <2>1 DEF OnRow, AtWork, Banning, Calling
<1>3. heard \in Demand
  BY <1>1 DEF Demand, Stage
<1>4. /\ heard.failed = (d.failed \/ d.at = "refused") /\ heard.ids = d.ids
      /\ heard.found = d.found /\ heard.alone = d.alone /\ heard.called = d.called
  BY <1>1 DEF Demand, Stage
<1>5. ~heard.failed => Remains(w) \subseteq d.ids
  BY <1>1, <1>4 DEF DeleteOk
<1> HIDE DEF heard
<1>6. /\ next \in Demand /\ next.at = "delete" /\ next.ids = d.ids /\ next.found = d.found
      /\ next.failed = heard.failed /\ next.alone = d.alone /\ ~next.called
  BY <1>1, <1>3, <1>4 DEF Demand
<1>7. /\ last \in Demand /\ last.at = "deleted" /\ last.ids = d.ids /\ last.found = d.found
      /\ last.failed = heard.failed /\ last.alone = d.alone /\ ~last.called
  BY <1>1, <1>3, <1>4 DEF Demand
<1> HIDE DEF next, last
<1>8. ASSUME NEW e \in {next, last}, e = last => ~heard.failed /\ d.ids = {}, Turn(w, e)
      PROVE  EnforcementInv'
  <2>1. /\ e \in Demand /\ e.at \in {"delete", "deleted"} /\ e.ids = d.ids /\ e.found = d.found
        /\ e.failed = heard.failed /\ e.alone = d.alone /\ ~e.called
        /\ e.at = "deleted" => ~e.failed /\ e.ids = {}
    BY <1>6, <1>7, <1>8
  <2> SUFFICES ASSUME demand'[w] = e
               PROVE  ~OnRow(w)' /\ DeleteOk(w)' /\ ~Confirmed(w)' /\ ~Calling(w)'
    BY <1>1, <1>2, <1>8, <2>1, SilentStep DEF Banning
  <2>2. Remains(w)' = Remains(w)
    BY <2>1, SilentSame, <1>1 DEF Remains
  <2> QED
    BY <1>5, <2>1, <2>2 DEF OnRow, DeleteOk, Deleting, Banning, Calling, Confirmed
<1>9. CASE Turn(w, NoDemand)
  BY <1>1, <1>2, <1>9, SilentSame, EndStep DEF Inward, Typed
<1>10. CASE heard.ids # {}
  <2>1. Turn(w, next)
    BY <1>1, <1>10
  <2>2. next = last => ~heard.failed /\ d.ids = {}
    BY <1>6, <1>7
  <2> QED
    BY <1>8, <2>1, <2>2
<1>11. CASE heard.ids = {} /\ heard.failed
  <2>1. Turn(w, NoDemand)
    BY <1>1, <1>11
  <2> QED
    BY <1>9, <2>1
<1>12. CASE heard.ids = {} /\ ~heard.failed
  <2>1. Turn(w, last)
    BY <1>1, <1>12
  <2> QED
    BY <1>4, <1>8, <1>12, <2>1
<1> QED
  BY <1>10, <1>11, <1>12

-----------------------------------------------------------------------------
(* Admissions.                                                             *)

LEMMA AdmittedInv ==
  ASSUME EnforcementInv, NEW w \in Moderator, NEW d \in Demand, Admitted(w, d),
         d.at \in {"current", "find", "delete"}, ~d.called,
         d.at = "delete" => d.found \subseteq d.ids,
         doubt' = IF d.at = "current" THEN doubt \/ ~Quiet ELSE doubt
  PROVE  EnforcementInv'
<1> DEFINE alone == Quiet /\ LateBans = {}
           mine == [d EXCEPT !.alone = alone]
<1>1. /\ ~AtWork(w) /\ UNCHANGED <<enforcement, relayState>> /\ Typed /\ CallsMatch /\ AloneInv
      /\ InHand /\ Undoubted /\ DeletesInv /\ doubt \in BOOLEAN
      /\ demand' = [v \in Moderator |->
                      IF v = w THEN mine ELSE [demand[v] EXCEPT !.alone = @ /\ ~AtWork(v)]]
  BY TypedParts DEF Admitted
<1>2. mine \in Demand
  BY DEF Demand
<1>3. \A v \in Moderator : [demand[v] EXCEPT !.alone = @ /\ ~AtWork(v)] \in Demand
  BY <1>1 DEF Typed, Demand, AtWork
<1>4. demand' \in [Moderator -> Demand]
  BY <1>1, <1>2, <1>3
<1>5. /\ demand'[w].at = d.at /\ demand'[w].alone = alone /\ ~demand'[w].called
      /\ demand'[w].found = d.found /\ demand'[w].ids = d.ids
  BY <1>1 DEF Demand
<1>6. \A v \in Moderator \ {w} : CallOf(v, demand'[v]) \/ AtWork(v)
  BY <1>1 DEF CallOf, Typed, Demand
<1>7. /\ ~Calling(w)' /\ ~Banning(w)' /\ ~Deleting(w)' /\ ~Confirmed(w)'
      /\ OnRow(w)' => d.at = "current"
  BY <1>5 DEF Calling, Banning, Deleting, Confirmed, OnRow
<1>8. \A v \in Moderator \ {w} :
        /\ demand'[v].at = demand[v].at /\ demand'[v].rpc = demand[v].rpc
        /\ demand'[v].ban = demand[v].ban /\ demand'[v].called = demand[v].called
        /\ demand'[v].saw = demand[v].saw /\ demand'[v].ids = demand[v].ids
        /\ demand'[v].found = demand[v].found /\ demand'[v].failed = demand[v].failed
        /\ demand'[v].alone = (demand[v].alone /\ ~AtWork(v))
  BY <1>1 DEF Typed, Demand
<1>9. \A v \in Moderator \ {w} :
        /\ AtWork(v)' <=> AtWork(v)
        /\ OnRow(v)' <=> OnRow(v)
        /\ Calling(v)' <=> Calling(v)
        /\ Banning(v)' <=> Banning(v)
        /\ Deleting(v)' <=> Deleting(v)
        /\ Confirmed(v)' <=> Confirmed(v)
  BY <1>8 DEF AtWork, OnRow, Calling, Banning, Deleting, Confirmed
<1>10. /\ relayBan' = relayBan /\ served' = served /\ belated' = belated /\ InForce' = InForce
       /\ LateBans' = LateBans /\ Agree' = Agree
  BY <1>1 DEF relayState, InForce, LateBans, Agree
<1>11. Typed'
  BY <1>1, <1>4, <1>10 DEF Typed, Quiet, AtWork
<1>12. CallsMatch'
  BY <1>1, <1>5, <1>7, <1>8, <1>9 DEF CallsMatch
<1>13. AloneInv'
  <2> SUFFICES ASSUME NEW v \in Moderator, AtWork(v)', demand'[v].alone
               PROVE  /\ \A u \in Moderator : AtWork(u)' => u = v
                      /\ LateBans' = {}
    BY DEF AloneInv
  <2>1. v = w
    BY <1>8, <1>9
  <2> QED
    BY <1>5, <1>9, <1>10, <2>1 DEF Quiet
<1>14. InHand'
  <2> SUFFICES ASSUME NEW v \in Moderator, demand'[v].alone, Confirmed(v)' PROVE FALSE
    BY DEF InHand
  <2>1. v # w /\ ~AtWork(v) /\ Confirmed(v)
    BY <1>7, <1>8, <1>9
  <2> QED
    BY <2>1 DEF Confirmed, AtWork
<1>15. Undoubted'
  <2> SUFFICES ASSUME ~doubt' PROVE
        /\ LateBans' = {}
        /\ \A v, u \in Moderator : OnRow(v)' /\ OnRow(u)' => v = u
        /\ (\A v \in Moderator : ~OnRow(v)') => Agree'
        /\ \A v \in Moderator : OnRow(v)' => RowOk(v)'
    BY DEF Undoubted
  <2>1. ~doubt /\ (d.at = "current" => Quiet)
    BY <1>1
  <2>2. \A v \in Moderator : OnRow(v) => AtWork(v)
    BY DEF OnRow, AtWork, Banning, Calling
  <2>3. d.at = "current" => (\A v \in Moderator : ~OnRow(v)) /\ Agree
    BY <1>1, <2>1, <2>2 DEF Quiet, Undoubted
  <2>4. ~OnRow(w)
    BY <1>1, <2>2
  <2>5. d.at = "current" /\ OnRow(w)' => RowOk(w)'
    BY <1>5, <1>7, <1>10, <2>3 DEF RowOk
  <2>6. \A v \in Moderator \ {w} : OnRow(v) /\ RowOk(v) => RowOk(v)'
    BY <1>8, <1>9, <1>10 DEF RowOk
  <2>7. /\ LateBans = {}
        /\ \A v, u \in Moderator : OnRow(v) /\ OnRow(u) => v = u
        /\ (\A v \in Moderator : ~OnRow(v)) => Agree
        /\ \A v \in Moderator : OnRow(v) => RowOk(v)
    BY <1>1, <2>1 DEF Undoubted
  <2> QED
    BY <1>7, <1>9, <1>10, <2>3, <2>4, <2>5, <2>6, <2>7
<1>16. DeletesInv'
  <2>1. DeleteOk(w)'
    BY <1>5, <1>7 DEF DeleteOk, Remains
  <2>2. ASSUME NEW v \in Moderator, v # w PROVE DeleteOk(v)'
    <3>1. DeleteOk(v) /\ Remains(v)' = Remains(v)
      BY <1>1, <1>8, <1>10, <2>2 DEF DeletesInv, Remains
    <3> QED
      BY <1>8, <1>9, <2>2, <3>1 DEF DeleteOk
  <2> QED
    BY <2>1, <2>2 DEF DeletesInv
<1> QED
  BY <1>11, <1>12, <1>13, <1>14, <1>15, <1>16 DEF EnforcementInv, RowInv

LEMMA RequestsInv ==
  ASSUME EnforcementInv, NEW w \in Moderator, Enforce(w) \/ DeleteEvent(w)
  PROVE  EnforcementInv'
<1>1. CASE Enforce(w)
  <2>1. PICK approval \in Update, ban \in Update :
          /\ Admitted(w, [NoDemand EXCEPT !.at = "current", !.approval = approval, !.ban = ban])
          /\ doubt' = (doubt \/ ~Quiet)
    BY <1>1 DEF Enforce
  <2> DEFINE d == [NoDemand EXCEPT !.at = "current", !.approval = approval, !.ban = ban]
  <2>2. d \in Demand /\ d.at = "current" /\ ~d.called
    BY NoDemandType DEF Demand, NoDemand
  <2> HIDE DEF d
  <2> QED
    BY <2>1, <2>2, AdmittedInv DEF d
<1>2. CASE DeleteEvent(w)
  <2>1. CASE Admitted(w, [NoDemand EXCEPT !.at = "find"])
    <3>1. [NoDemand EXCEPT !.at = "find"] \in Demand
          /\ [NoDemand EXCEPT !.at = "find"].at = "find" /\ ~[NoDemand EXCEPT !.at = "find"].called
      BY NoDemandType DEF Demand, NoDemand
    <3> QED
      BY <1>2, <2>1, <3>1, AdmittedInv DEF DeleteEvent
  <2>2. ASSUME NEW id \in Version,
               Admitted(w, [NoDemand EXCEPT !.at = "delete", !.ids = {id}, !.found = {id}])
        PROVE  EnforcementInv'
    <3> DEFINE d == [NoDemand EXCEPT !.at = "delete", !.ids = {id}, !.found = {id}]
    <3>1. d \in Demand /\ d.at = "delete" /\ ~d.called /\ d.found = {id} /\ d.ids = {id}
      BY NoDemandType DEF Demand, NoDemand
    <3>2. Admitted(w, d)
      BY <2>2
    <3> HIDE DEF d
    <3> QED
      BY <1>2, <3>1, <3>2, AdmittedInv DEF DeleteEvent
  <2> QED
    BY <1>2, <2>1, <2>2 DEF DeleteEvent
<1> QED
  BY <1>1, <1>2

LEMMA EnforcementStep ==
  ASSUME EnforcementInv, [EnforcementNext]_enforcementVars
  PROVE  EnforcementInv'
<1>1. CASE UNCHANGED enforcementVars
  BY <1>1, ZenonT(60)
  DEF enforcementVars, EnforcementInv, RowInv, Typed, CallsMatch, AloneInv, InHand, Undoubted,
      DeletesInv, DeleteOk, Remains, RowOk, Confirmed, OnRow, Banning, Deleting, Calling, Agree,
      InForce, AtWork, LateBans
<1> QED
  BY <1>1, RequestsInv, ReadCurrentInv, CarriesOutInv, RefusesInv, HearBanInv, ReadExistingInv,
     WriteRowInv, BreakInv, FindInv, AskInv, HearDeleteInv, LateInv DEF EnforcementNext

\* The strengthening holds in every state of the uploader enforcement: row, calls
\* under way and relay agree, save for the requests that are in hand or late.
THEOREM EnforcementInvariant == EnforcementSpec => []EnforcementInv
  BY InitInv, EnforcementStep, PTL DEF EnforcementSpec

\* For every number of moderators, requests and failures: the recorded ban is
\* the relay's unless there is cause for doubt, and a delete that succeeded left
\* none of what it found.
THEOREM RecordedBansHold == EnforcementSpec => []EnforcementIsInForce
<1>1. EnforcementInv => EnforcementIsInForce
  <2> SUFFICES ASSUME EnforcementInv PROVE EnforcementIsInForce
    OBVIOUS
  <2>1. Quiet => \A w \in Moderator : ~OnRow(w)
    BY DEF Quiet, AtWork, OnRow, Banning, Calling
  <2>2. Quiet /\ ~doubt => InForce.banned = relayBan
    BY <2>1 DEF EnforcementInv, RowInv, Undoubted, Agree
  <2>3. \A w \in Moderator : Stage(w, "deleted") => demand[w].found \cap served = {}
    BY DEF EnforcementInv, DeletesInv, DeleteOk, Remains, Stage
  <2> QED
    BY <2>2, <2>3 DEF EnforcementIsInForce
<1> QED
  BY <1>1, EnforcementInvariant, PTL

HIDE EnforcementAssumption

-----------------------------------------------------------------------------
(* Escalation. Between the answer of the detector and the mark at which a  *)
(* video is passed over later, each run carries what its video still       *)
(* lacks.                                                                  *)

RunSteps == {"idle", "next", "poll", "look", "mirror", "unset", "set", "row", "blossom", "mark"}
Runs == [at : RunSteps, left : SUBSET Video, on : Video \cup {IdleRun.on}]
Marks ==
  {"none", "SAFE", "REVIEW", "QUARANTINE", "AGE_RESTRICTED", "PERMANENT_BAN", "DELETE"}
Decision == [at : {"none", "row", "rest", "decided"},
             by : {"admin", "api", "quarantine", "rollback"},
             act : Marks, mirror : Marks, taken : BOOLEAN, stale : SUBSET Marks]

EscalationTyped ==
  /\ cron \in [Cron -> Runs]
  /\ \A c \in Cron : cron[c].at \notin {"idle", "next"} => cron[c].on \in Video
  /\ rd \in [Video -> {"none", "pending", "complete", "escalated"}]
  /\ mark \in [Video -> Marks] /\ verdicts \in [Video -> Marks]
  /\ flags \in [Video -> SUBSET Marks] /\ DOMAIN blob = Video
  /\ human \in [Video -> Decision]

\* A run between its mirror and its last store, and one that is to write.
Working(a) == a.at \in {"unset", "set", "row", "blossom"}
Writing(a) == a.at = "mirror" \/ Working(a)
Banned(v) ==
  verdicts[v] = "PERMANENT_BAN" /\ flags[v] = {"PERMANENT_BAN"} /\ blob[v] = "banned"

\* While no moderator has decided: the row is there before the mirror is, a
\* marked video has the mirror of a ban, and what has that mirror is banned, or
\* a run is still at it.
Undecided(v) ==
  /\ mark[v] \in {"none", "QUARANTINE", "PERMANENT_BAN"}
  /\ verdicts[v] \in {"none", "QUARANTINE", "PERMANENT_BAN"}
  /\ flags[v] \subseteq {"QUARANTINE", "PERMANENT_BAN"}
  /\ mark[v] # "none" => verdicts[v] # "none"
  /\ rd[v] = "escalated" => mark[v] = "PERMANENT_BAN"
  /\ mark[v] = "PERMANENT_BAN" /\ v \notin cutOff =>
       Banned(v) \/ \E c \in Cron : Working(cron[c]) /\ cron[c].on = v

\* Once one has, the mirror is no quarantine, and no run was writing: none will.
Upheld(v) ==
  /\ mark[v] = human[v].mirror
  /\ \A c \in Cron : cron[c].on = v => ~Writing(cron[c])
  /\ human[v].at \in {"rest", "decided"} /\ human[v].taken => verdicts[v] = human[v].act

\* What D1 took makes way for a ban only.
Accepted(v) ==
  /\ human[v].at # "none" => human[v].act # "none"
  /\ human[v].at \in {"rest", "decided"} /\ human[v].taken =>
       verdicts[v] \in {human[v].act, "PERMANENT_BAN"}

VideoSafe(v) ==
  /\ human[v].at = "none" => Undecided(v)
  /\ human[v].at # "none" /\ human[v].mirror # "QUARANTINE" /\ v \notin raced => Upheld(v)
  /\ Accepted(v)

\* What a run has done to a video that no moderator has decided on.
RunSafe(a) ==
  a.on \in Video /\ human[a.on].at = "none" =>
    /\ a.at = "mirror" => mark[a.on] # "none"
    /\ Working(a) \/ a.at = "mark" => mark[a.on] = "PERMANENT_BAN"
    /\ a.at \in {"set", "row", "blossom"} => "QUARANTINE" \notin flags[a.on]
    /\ a.at \in {"row", "blossom"} => "PERMANENT_BAN" \in flags[a.on]
    /\ a.at = "blossom" /\ a.on \notin cutOff => verdicts[a.on] = "PERMANENT_BAN"

EscalationInv ==
  /\ EscalationTyped /\ (\A v \in Video : VideoSafe(v))
  /\ \A c \in Cron : RunSafe(cron[c])
-----------------------------------------------------------------------------
LEMMA EscalationInitInv == EscalationInit => EscalationInv
<1> SUFFICES ASSUME EscalationInit PROVE EscalationInv
  OBVIOUS
<1>1. IdleRun \in Runs /\ IdleRun.at = "idle"
  BY DEF IdleRun, Runs, RunSteps
<1>2. EscalationTyped
  BY <1>1 DEF EscalationInit, EscalationTyped, Marks, Decision, NoDecision
<1>3. \A v \in Video : VideoSafe(v)
  BY DEF EscalationInit, VideoSafe, Undecided, Accepted, NoDecision
<1>4. \A c \in Cron : RunSafe(cron[c])
  BY <1>1 DEF EscalationInit, RunSafe, Working, NoDecision
<1> QED
  BY <1>2, <1>3, <1>4 DEF EscalationInv

\* What no step undoes as long as no moderator decides.
Forward ==
  /\ cutOff \subseteq cutOff'
  /\ \A v \in Video : human'[v].at = "none" =>
       /\ human[v].at = "none"
       /\ mark[v] # "none" => mark'[v] # "none"
       /\ mark[v] = "PERMANENT_BAN" =>
            /\ mark'[v] = "PERMANENT_BAN"
            /\ "QUARANTINE" \notin flags[v] => "QUARANTINE" \notin flags'[v]
            /\ "PERMANENT_BAN" \in flags[v] => "PERMANENT_BAN" \in flags'[v]
            /\ verdicts[v] = "PERMANENT_BAN" => verdicts'[v] = "PERMANENT_BAN"

LEMMA RunStays ==
  ASSUME Forward, NEW a, RunSafe(a) PROVE RunSafe(a)'
  BY DEF Forward, RunSafe, Working

\* A step that moves no run.
LEMMA RunsRest ==
  ASSUME EscalationInv, Forward, cron' = cron PROVE \A c \in Cron : RunSafe(cron[c])'
<1> TAKE c \in Cron
<1>1. PICK a : a = cron[c]
  OBVIOUS
<1>2. RunSafe(a)'
  BY <1>1, RunStays DEF EscalationInv
<1> QED
  BY <1>1, <1>2 DEF RunSafe, Working

\* A step of one run.
LEMMA RunSteps1 ==
  ASSUME EscalationInv, Forward, NEW c \in Cron, NEW b \in Runs,
         cron' = [cron EXCEPT ![c] = b], RunSafe(b)'
  PROVE  \A n \in Cron : RunSafe(cron[n])'
<1> TAKE n \in Cron
<1>1. CASE n = c
  BY <1>1 DEF EscalationInv, EscalationTyped, RunSafe, Working
<1>2. CASE n # c
  <2>1. PICK a : a = cron[n]
    OBVIOUS
  <2>2. RunSafe(a)' /\ cron'[n] = a
    BY <1>2, <2>1, RunStays DEF EscalationInv, EscalationTyped
  <2> QED
    BY <2>2 DEF RunSafe, Working
<1> QED
  BY <1>1, <1>2

\* What happens to the entry of a video, short of its mark.
LEMMA EntryStep ==
  ASSUME EscalationInv, UNCHANGED <<stores, cron, human, cutOff, raced>>, NEW v \in Video,
         NEW r \in {"none", "pending", "complete"}, rd' = rd \/ rd' = [rd EXCEPT ![v] = r]
  PROVE  EscalationInv'
<1>1. EscalationTyped'
  BY DEF EscalationInv, EscalationTyped, stores
<1>2. \A u \in Video : rd'[u] = "escalated" => rd[u] = "escalated"
  BY DEF EscalationInv, EscalationTyped
<1>3. \A u \in Video : VideoSafe(u)'
  BY <1>2 DEF EscalationInv, VideoSafe, Undecided, Upheld, Accepted, Banned, Writing, Working,
              stores
<1>4. Forward
  BY DEF Forward, stores
<1> QED
  BY <1>1, <1>3, <1>4, RunsRest DEF EscalationInv

\* A step on one video that moves no run: the scan's, or a moderator's.
LEMMA StoreStep ==
  ASSUME EscalationInv, EscalationTyped', UNCHANGED <<rd, cron, cutOff>>, NEW v \in Video,
         \A u \in Video \ {v} :
           /\ mark'[u] = mark[u] /\ verdicts'[u] = verdicts[u] /\ flags'[u] = flags[u]
           /\ blob'[u] = blob[u] /\ human'[u] = human[u] /\ (u \in raced' <=> u \in raced),
         VideoSafe(v)', Forward
  PROVE  EscalationInv'
<1>1. ASSUME NEW u \in Video PROVE VideoSafe(u)'
  <2>1. CASE u # v
    BY <2>1 DEF EscalationInv, VideoSafe, Undecided, Upheld, Accepted, Banned, Writing, Working
  <2> QED
    BY <2>1
<1> QED
  BY <1>1, RunsRest DEF EscalationInv

LEMMA StoreQuarantineInv == ASSUME EscalationInv, NEW v \in Video, StoreQuarantine(v)
                            PROVE  EscalationInv'
<1>1. /\ verdicts[v] = "none" /\ verdicts' = [verdicts EXCEPT ![v] = "QUARANTINE"]
      /\ flags' = [flags EXCEPT ![v] = @ \cup {"QUARANTINE"}]
      /\ blob' = [blob EXCEPT ![v] = "restricted"]
      /\ UNCHANGED <<rd, mark, cron, human, cutOff, raced>>
  BY DEF StoreQuarantine, bounds, past
<1>2. EscalationTyped'
  BY <1>1 DEF EscalationInv, EscalationTyped, Marks
<1>3. VideoSafe(v) /\ v \in Video
  BY DEF EscalationInv
<1>4. human[v].at = "none" => mark[v] = "none"
  BY <1>1, <1>3 DEF VideoSafe, Undecided
<1>5. VideoSafe(v)'
  <2>1. human[v].at = "none" => Undecided(v)'
    BY <1>1, <1>3, <1>4 DEF VideoSafe, Undecided, EscalationInv, EscalationTyped
  <2>2. Upheld(v) => Upheld(v)'
    BY <1>1, <1>3 DEF VideoSafe, Accepted, Upheld, Writing, Working, EscalationInv, EscalationTyped
  <2>3. Accepted(v)'
    BY <1>1, <1>3 DEF VideoSafe, Accepted
  <2> QED
    BY <1>1, <1>3, <2>1, <2>2, <2>3 DEF VideoSafe
<1>6. Forward
  BY <1>1, <1>4 DEF Forward, EscalationInv, EscalationTyped
<1> QED
  BY <1>1, <1>2, <1>5, <1>6, StoreStep DEF EscalationInv, EscalationTyped

LEMMA HumanMirrorInv == ASSUME EscalationInv, NEW v \in Video, NEW a \in HumanActions, HumanMirror(v, a)
                        PROVE  EscalationInv'
<1> DEFINE h == [at |-> "row", by |-> "admin", act |-> a, mirror |-> a, taken |-> TRUE,
                stale |-> {}]
<1>1. /\ mark' = [mark EXCEPT ![v] = a] /\ human' = [human EXCEPT ![v] = h]
      /\ raced' = IF Escalating(v) THEN raced \cup {v} ELSE raced
      /\ UNCHANGED <<rd, flags, verdicts, blob, cron, cutOff>>
  BY DEF HumanMirror, RacedNow
<1>2. a \in Marks /\ a # "none" /\ h \in Decision
  BY EscalationAssumption DEF Marks, Decision
<1>3. EscalationTyped'
  BY <1>1, <1>2 DEF EscalationInv, EscalationTyped
<1>4. mark'[v] = a /\ human'[v] = h
  BY <1>1 DEF EscalationInv, EscalationTyped
<1>5. VideoSafe(v)'
  BY <1>1, <1>2, <1>4 DEF VideoSafe, Upheld, Accepted, Escalating, Writing, Working
<1>6. Forward
  BY <1>1, <1>4 DEF Forward, EscalationInv, EscalationTyped
<1> QED
  BY <1>1, <1>3, <1>5, <1>6, StoreStep DEF EscalationInv, EscalationTyped

LEMMA HumanElsewhereInv ==
  ASSUME EscalationInv, NEW v \in Video, NEW d \in Elsewhere, HumanElsewhere(v, d[1], d[2])
  PROVE  EscalationInv'
<1>1. PICK by, a : by = d[1] /\ a = d[2]
  OBVIOUS
<1>2. by \in {"api", "quarantine", "rollback"} /\ a \in Marks /\ a # "none"
  BY <1>1, EscalationAssumption DEF Elsewhere, Marks
<1>3. PICK taken \in BOOLEAN : taken = (by # "quarantine" \/ verdicts[v] # "none")
  OBVIOUS
<1> DEFINE h == [at |-> "rest", by |-> by, act |-> a, mirror |-> mark[v], taken |-> taken,
                stale |-> IF by = "rollback" THEN flags[v] ELSE {}]
<1>4. /\ verdicts' = [verdicts EXCEPT ![v] = IF taken THEN a ELSE @]
      /\ human' = [human EXCEPT ![v] = h]
      /\ raced' = IF Escalating(v) THEN raced \cup {v} ELSE raced
      /\ UNCHANGED <<rd, mark, flags, blob, cron, cutOff>>
  BY <1>1, <1>3 DEF HumanElsewhere, RacedNow
<1>5. verdicts[v] \in Marks /\ h \in Decision
  BY <1>2 DEF EscalationInv, EscalationTyped, Decision
<1>6. EscalationTyped'
  BY <1>2, <1>4, <1>5 DEF EscalationInv, EscalationTyped
<1>7. (taken => verdicts'[v] = a) /\ human'[v] = h
  BY <1>4 DEF EscalationInv, EscalationTyped
<1>8. VideoSafe(v)'
  BY <1>2, <1>4, <1>7 DEF VideoSafe, Upheld, Accepted, Escalating, Writing, Working
<1>9. Forward
  BY <1>4, <1>7 DEF Forward, EscalationInv, EscalationTyped
<1> QED
  BY <1>4, <1>6, <1>8, <1>9, StoreStep DEF EscalationInv, EscalationTyped

LEMMA HumanRowInv == ASSUME EscalationInv, NEW v \in Video, HumanRow(v) PROVE EscalationInv'
<1>1. PICK h : h = human[v]
  OBVIOUS
<1>2. /\ h.at = "row" /\ human' = [human EXCEPT ![v].at = "rest"]
      /\ verdicts' = [verdicts EXCEPT ![v] = h.act]
      /\ UNCHANGED <<rd, mark, flags, blob, cron, cutOff, raced>>
  BY <1>1 DEF HumanRow, bounds, past
<1>3. h \in Decision
  BY <1>1 DEF EscalationInv, EscalationTyped
<1>4. PICK k : k = [h EXCEPT !.at = "rest"]
  OBVIOUS
<1>5. k \in Decision /\ k.at = "rest" /\ k.act = h.act /\ k.mirror = h.mirror /\ h.act \in Marks
  BY <1>3, <1>4 DEF Decision
<1>6. human' = [human EXCEPT ![v] = k] /\ human'[v] = k /\ verdicts'[v] = h.act
  BY <1>1, <1>2, <1>4 DEF EscalationInv, EscalationTyped
<1>7. EscalationTyped'
  BY <1>2, <1>5, <1>6 DEF EscalationInv, EscalationTyped
<1>8. VideoSafe(v)'
  <2>1. VideoSafe(v)
    BY DEF EscalationInv
  <2> QED
    BY <1>1, <1>2, <1>5, <1>6, <2>1 DEF VideoSafe, Upheld, Accepted, Writing, Working
<1>9. Forward
  BY <1>2, <1>5, <1>6 DEF Forward, EscalationInv, EscalationTyped
<1> QED
  BY <1>2, <1>6, <1>7, <1>8, <1>9, StoreStep DEF EscalationInv, EscalationTyped

LEMMA HumanRestInv == ASSUME EscalationInv, NEW v \in Video, HumanRest(v) PROVE EscalationInv'
<1>1. PICK h : h = human[v]
  OBVIOUS
<1>2. PICK f, b : f = FlagsAfter(h, flags[v]) /\ b = BlobAfter(h.act, blob[v])
  OBVIOUS
<1>3. /\ h.at = "rest" /\ human' = [human EXCEPT ![v].at = "decided"]
      /\ flags' = [flags EXCEPT ![v] = f] /\ blob' = [blob EXCEPT ![v] = b]
      /\ UNCHANGED <<rd, mark, verdicts, cron, cutOff, raced>>
  BY <1>1, <1>2 DEF HumanRest, bounds, past, EscalationInv, EscalationTyped
<1>4. h \in Decision /\ flags[v] \subseteq Marks
  BY <1>1 DEF EscalationInv, EscalationTyped
<1>5. f \subseteq Marks
  BY <1>2, <1>4 DEF FlagsAfter, Decision, Marks
<1>6. PICK k : k = [h EXCEPT !.at = "decided"]
  OBVIOUS
<1>7. /\ k \in Decision /\ k.at = "decided" /\ k.act = h.act /\ k.mirror = h.mirror
      /\ k.taken = h.taken
  BY <1>4, <1>6 DEF Decision
<1>8. human' = [human EXCEPT ![v] = k] /\ human'[v] = k
  BY <1>1, <1>3, <1>6 DEF EscalationInv, EscalationTyped
<1>9. EscalationTyped'
  BY <1>3, <1>5, <1>7, <1>8 DEF EscalationInv, EscalationTyped
<1>10. VideoSafe(v)'
  <2>1. VideoSafe(v)
    BY DEF EscalationInv
  <2> QED
    BY <1>1, <1>3, <1>7, <1>8, <2>1 DEF VideoSafe, Upheld, Accepted, Writing, Working
<1>11. Forward
  BY <1>3, <1>7, <1>8 DEF Forward, EscalationInv, EscalationTyped
<1> QED
  BY <1>3, <1>8, <1>9, <1>10, <1>11, StoreStep DEF EscalationInv, EscalationTyped

-----------------------------------------------------------------------------
\* A step of a run that writes no store.
LEMMA QuietStep ==
  ASSUME EscalationInv, UNCHANGED <<stores, human, raced>>, cutOff \subseteq cutOff',
         NEW c \in Cron, NEW b \in Runs, cron' = [cron EXCEPT ![c] = b],
         ~Working(b), b.at \notin {"idle", "next"} => b.on \in Video,
         b.at = "mirror" => mark[b.on] = "QUARANTINE",
         b.at = "mark" /\ human[b.on].at = "none" => mark[b.on] = "PERMANENT_BAN",
         Working(cron[c]) => cron[c].on \in cutOff',
         rd' \in [Video -> {"none", "pending", "complete", "escalated"}],
         \A v \in Video : rd'[v] = "escalated" /\ human[v].at = "none" =>
                            rd[v] = "escalated" \/ mark[v] = "PERMANENT_BAN"
  PROVE  EscalationInv'
<1> USE DEF stores
<1>1. cron'[c] = b /\ \A n \in Cron \ {c} : cron'[n] = cron[n]
  BY DEF EscalationInv, EscalationTyped
<1>2. EscalationTyped'
  BY <1>1 DEF EscalationInv, EscalationTyped
<1>3. Forward
  BY DEF Forward
<1>4. RunSafe(b)'
  BY DEF RunSafe, Working
<1>5. ASSUME NEW v \in Video PROVE VideoSafe(v)'
  <2>1. VideoSafe(v)
    BY DEF EscalationInv
  <2>2. ASSUME human[v].at = "none" PROVE Undecided(v)'
    <3>1. Undecided(v)
      BY <2>1, <2>2 DEF VideoSafe
    <3>2. rd'[v] = "escalated" => mark[v] = "PERMANENT_BAN"
      BY <2>2, <3>1 DEF Undecided
    <3>3. ASSUME mark[v] = "PERMANENT_BAN", v \notin cutOff'
          PROVE  Banned(v)' \/ \E n \in Cron : Working(cron'[n]) /\ cron'[n].on = v
      <4>1. CASE Banned(v)
        BY <4>1 DEF Banned
      <4>2. CASE \E n \in Cron : Working(cron[n]) /\ cron[n].on = v
        <5>1. PICK n \in Cron : Working(cron[n]) /\ cron[n].on = v
          BY <4>2
        <5>2. n # c
          BY <3>3, <5>1
        <5> QED
          BY <1>1, <5>1, <5>2
      <4> QED
        BY <3>1, <3>3, <4>1, <4>2 DEF Undecided
    <3> QED
      BY <3>1, <3>2, <3>3 DEF Undecided, Working
  <2>3. ASSUME human[v].at # "none", human[v].mirror # "QUARANTINE", v \notin raced PROVE Upheld(v)'
    <3>1. Upheld(v)
      BY <2>1, <2>3 DEF VideoSafe
    <3>2. b.on = v => ~Writing(b)
      BY <2>3, <3>1 DEF Upheld, Writing
    <3> QED
      BY <1>1, <3>1, <3>2 DEF Upheld, Writing, Working
  <2>4. Accepted(v)'
    BY <2>1 DEF VideoSafe, Accepted
  <2> QED
    BY <2>2, <2>3, <2>4 DEF VideoSafe
<1> QED
  BY <1>2, <1>3, <1>4, <1>5, RunSteps1 DEF EscalationInv

\* Where a run is, and on what.
LEMMA RunIs ==
  ASSUME EscalationInv, NEW c \in Cron
  PROVE  cron[c] \in Runs /\ DOMAIN cron = Cron /\ RunSafe(cron[c])
         /\ (cron[c].at \notin {"idle", "next"} => cron[c].on \in Video)
  BY DEF EscalationInv, EscalationTyped

\* A run that only moves on.
LEMMA AdvanceIs ==
  ASSUME EscalationInv, NEW c \in Cron, NEW at \in RunSteps, Advance(c, at)
  PROVE  \E b \in Runs : /\ cron' = [cron EXCEPT ![c] = b]
                         /\ b.at = at /\ b.on = cron[c].on
<1> DEFINE b == [cron[c] EXCEPT !.at = at]
<1>1. cron' = [cron EXCEPT ![c] = b]
  BY RunIs DEF Advance
<1>2. b \in Runs /\ b.at = at /\ b.on = cron[c].on
  BY RunIs DEF Runs
<1> QED
  BY <1>1, <1>2

LEMMA StartRunInv == ASSUME EscalationInv, NEW c \in Cron, StartRun(c) PROVE EscalationInv'
<1>1. /\ cron[c].at = "idle" /\ cron' = [cron EXCEPT ![c].at = "next", ![c].left = Listed]
      /\ UNCHANGED <<rd, stores, human, cutOff, raced>>
  BY DEF StartRun, past
<1>2. PICK d \in Runs : d = cron[c]
  BY RunIs
<1>3. PICK l \in SUBSET Video : l = Listed
  BY DEF Listed
<1> DEFINE b1 == [d EXCEPT !.at = "next"]
           b == [b1 EXCEPT !.left = l]
<1>4. cron' = [cron EXCEPT ![c] = b]
  BY <1>1, <1>2, <1>3, RunIs
<1>5. b \in Runs /\ b.at = "next"
  BY DEF Runs, RunSteps
<1> QED
  BY <1>1, <1>4, <1>5, QuietStep, ZenonT(60) DEF Working, EscalationInv, EscalationTyped

LEMMA TakeEntryInv == ASSUME EscalationInv, NEW c \in Cron, NEW v \in Video, TakeEntry(c, v)
                      PROVE  EscalationInv'
<1>1. PICK at \in {"poll", "look", "next"}, left \in SUBSET Video :
        cron' = [cron EXCEPT ![c] = [left |-> left, on |-> v, at |-> at]]
  <2>1. cron[c].left \ {v} \in SUBSET Video
    BY RunIs DEF Runs
  <2> QED
    BY <2>1, RunIs DEF TakeEntry
<1>2. cron[c].at = "next" /\ UNCHANGED <<rd, stores, human, cutOff, raced>>
  BY DEF TakeEntry, bounds, past
<1> DEFINE b == [left |-> left, on |-> v, at |-> at]
<1>3. b \in Runs /\ b.at \in {"poll", "look", "next"} /\ b.on \in Video
  BY DEF Runs, RunSteps
<1> HIDE DEF b
<1> QED
  BY <1>1, <1>2, <1>3, QuietStep DEF Working, EscalationInv, EscalationTyped, b

LEMMA EndRunInv == ASSUME EscalationInv, NEW c \in Cron, EndRun(c) PROVE EscalationInv'
<1>1. cron[c].at = "next" /\ cron' = [cron EXCEPT ![c] = IdleRun]
      /\ UNCHANGED <<rd, stores, human, cutOff, raced>>
  BY DEF EndRun, bounds, past
<1>2. IdleRun \in Runs /\ IdleRun.at = "idle"
  BY DEF IdleRun, Runs, RunSteps
<1> QED
  BY <1>1, <1>2, QuietStep DEF Working, EscalationInv, EscalationTyped

LEMMA EndEarlyInv == ASSUME EscalationInv, NEW c \in Cron, EndEarly(c) PROVE EscalationInv'
<1>1. cutOff' = cutOff \cup {cron[c].on} /\ cron' = [cron EXCEPT ![c] = IdleRun]
      /\ UNCHANGED <<rd, stores, human, raced>>
  BY DEF EndEarly, Fails
<1>2. IdleRun \in Runs /\ IdleRun.at = "idle"
  BY DEF IdleRun, Runs, RunSteps
<1> QED
  BY <1>1, <1>2, QuietStep DEF Working, EscalationInv, EscalationTyped

LEMMA PollResultInv == ASSUME EscalationInv, NEW c \in Cron, NEW v \in Video, PollResult(c, v)
                       PROVE  EscalationInv'
<1>1. /\ cron[c].at = "poll" /\ cron[c].on = v /\ UNCHANGED <<stores, human, cutOff, raced>>
      /\ rd' = rd \/ rd' = [rd EXCEPT ![v] = "complete"]
      /\ \E at \in {"look", "next"} : Advance(c, at)
  BY DEF PollResult, On, bounds, past
<1>2. PICK at \in {"look", "next"} : Advance(c, at)
  BY <1>1
<1>3. PICK b \in Runs : cron' = [cron EXCEPT ![c] = b] /\ b.at = at /\ b.on = v
  BY <1>1, <1>2, AdvanceIs DEF RunSteps
<1>4. /\ rd' \in [Video -> {"none", "pending", "complete", "escalated"}]
      /\ \A u \in Video : rd'[u] = "escalated" => rd[u] = "escalated"
  BY <1>1 DEF EscalationInv, EscalationTyped
<1> QED
  BY <1>1, <1>3, <1>4, QuietStep DEF Working

LEMMA LookUpInv == ASSUME EscalationInv, NEW c \in Cron, NEW v \in Video, LookUp(c, v)
                   PROVE  EscalationInv'
<1>1. /\ cron[c].at = "look" /\ cron[c].on = v /\ UNCHANGED <<rd, stores, human, cutOff, raced>>
  BY DEF LookUp, On, bounds, past
<1>2. PICK at \in {"next", "mirror", "mark"} :
        /\ Advance(c, at) /\ (at = "mirror" => mark[v] = "QUARANTINE")
        /\ at = "mark" => mark[v] \notin {"none", "QUARANTINE"}
  <2>1. CASE mark[v] = "none"
    BY <2>1 DEF LookUp
  <2>2. CASE mark[v] = "QUARANTINE"
    BY <2>2 DEF LookUp
  <2>3. CASE mark[v] \notin {"none", "QUARANTINE"}
    BY <2>3 DEF LookUp
  <2> QED
    BY <2>1, <2>2, <2>3
<1>3. PICK b \in Runs : cron' = [cron EXCEPT ![c] = b] /\ b.at = at /\ b.on = v
  BY <1>1, <1>2, AdvanceIs DEF RunSteps
<1>4. human[v].at = "none" => mark[v] \in {"none", "QUARANTINE", "PERMANENT_BAN"}
  BY DEF EscalationInv, VideoSafe, Undecided
<1> QED
  BY <1>1, <1>2, <1>3, <1>4, QuietStep DEF Working, EscalationInv, EscalationTyped

LEMMA MarkEscalatedInv == ASSUME EscalationInv, NEW c \in Cron, NEW v \in Video, MarkEscalated(c, v)
                          PROVE  EscalationInv'
<1>1. /\ cron[c].at = "mark" /\ cron[c].on = v /\ UNCHANGED <<stores, human, cutOff, raced>>
      /\ Advance(c, "next") /\ rd' = [rd EXCEPT ![v] = IF @ = "none" THEN @ ELSE "escalated"]
  BY DEF MarkEscalated, On, bounds, past
<1>2. PICK b \in Runs : cron' = [cron EXCEPT ![c] = b] /\ b.at = "next" /\ b.on = v
  BY <1>1, AdvanceIs DEF RunSteps
<1>3. human[v].at = "none" => mark[v] = "PERMANENT_BAN"
  BY <1>1, RunIs DEF RunSafe
<1>4. /\ rd' \in [Video -> {"none", "pending", "complete", "escalated"}]
      /\ \A u \in Video \ {v} : rd'[u] = rd[u]
  BY <1>1 DEF EscalationInv, EscalationTyped
<1> QED
  BY <1>1, <1>2, <1>3, <1>4, QuietStep DEF Working
-----------------------------------------------------------------------------
\* A step of a run that writes to its video.
LEMMA WriteStep ==
  ASSUME EscalationInv, EscalationTyped', UNCHANGED <<rd, human, raced>>, cutOff \subseteq cutOff',
         NEW c \in Cron, NEW v \in Video, Writing(cron[c]), cron[c].on = v,
         NEW b \in Runs, cron' = [cron EXCEPT ![c] = b], b.on = v, RunSafe(b)', Forward,
         Working(b) \/ b.at = "mark",
         \A u \in Video \ {v} :
           /\ mark'[u] = mark[u] /\ verdicts'[u] = verdicts[u] /\ flags'[u] = flags[u]
           /\ blob'[u] = blob[u],
         verdicts'[v] = verdicts[v] \/ verdicts'[v] = "PERMANENT_BAN",
         human[v].at = "none" /\ Undecided(v) =>
           /\ mark'[v] = "PERMANENT_BAN"
           /\ verdicts'[v] \in {"QUARANTINE", "PERMANENT_BAN"}
           /\ flags'[v] \subseteq {"QUARANTINE", "PERMANENT_BAN"}
           /\ b.at = "mark" /\ v \notin cutOff' => Banned(v)'
  PROVE  EscalationInv'
<1>1. cron'[c] = b /\ \A n \in Cron \ {c} : cron'[n] = cron[n]
  BY DEF EscalationInv, EscalationTyped
<1>2. VideoSafe(v)'
  <2>1. VideoSafe(v)
    BY DEF EscalationInv
  <2>2. CASE human[v].at = "none"
    <3>1. Undecided(v)
      BY <2>1, <2>2 DEF VideoSafe
    <3>2. Undecided(v)'
      BY <1>1, <2>2, <3>1 DEF Undecided
    <3> QED
      BY <2>2, <3>2 DEF VideoSafe, Accepted
  <2>3. CASE human[v].at # "none"
    <3>1. ~Upheld(v)
      BY DEF Upheld
    <3>2. Accepted(v)'
      BY <2>1 DEF VideoSafe, Accepted
    <3> QED
      BY <2>1, <2>3, <3>1, <3>2 DEF VideoSafe
  <2> QED
    BY <2>2, <2>3
<1>3. ASSUME NEW u \in Video, u # v PROVE VideoSafe(u)'
  <2>1. VideoSafe(u)
    BY DEF EscalationInv
  <2>2. \A n \in Cron : (Working(cron[n]) /\ cron[n].on = u) => n # c
    BY <1>3
  <2>3. human[u].at = "none" => Undecided(u)'
    BY <1>1, <1>3, <2>1, <2>2 DEF VideoSafe, Undecided, Banned, Working
  <2>4. Upheld(u) => Upheld(u)'
    BY <1>1, <1>3 DEF Upheld, Writing, Working
  <2>5. Accepted(u)'
    BY <1>3, <2>1 DEF VideoSafe, Accepted
  <2> QED
    BY <2>1, <2>3, <2>4, <2>5 DEF VideoSafe
<1> QED
  BY <1>2, <1>3, RunSteps1 DEF EscalationInv

LEMMA WriteMirrorInv == ASSUME EscalationInv, NEW c \in Cron, NEW v \in Video, WriteMirror(c, v)
                        PROVE  EscalationInv'
<1>1. /\ cron[c].at = "mirror" /\ cron[c].on = v /\ Advance(c, "unset")
      /\ mark' = [mark EXCEPT ![v] = "PERMANENT_BAN"]
      /\ UNCHANGED <<rd, flags, verdicts, blob, human, cutOff, raced>>
  BY DEF WriteMirror, On, bounds, past
<1>2. PICK b \in Runs : cron' = [cron EXCEPT ![c] = b] /\ b.at = "unset" /\ b.on = v
  BY <1>1, AdvanceIs DEF RunSteps
<1>3. mark'[v] = "PERMANENT_BAN" /\ \A u \in Video \ {v} : mark'[u] = mark[u]
  BY <1>1 DEF EscalationInv, EscalationTyped
<1>4. EscalationTyped'
  BY <1>1, <1>2 DEF EscalationInv, EscalationTyped, Marks
<1>5. human[v].at = "none" => mark[v] # "none"
  BY <1>1, RunIs DEF RunSafe
<1>6. Forward
  BY <1>1, <1>3 DEF Forward
<1>7. RunSafe(b)'
  BY <1>2, <1>3 DEF RunSafe, Working
<1> QED
  BY <1>1, <1>2, <1>3, <1>4, <1>5, <1>6, <1>7, WriteStep, ZenonT(60) DEF Writing, Working, Undecided

LEMMA UnsetQuarantineInv == ASSUME EscalationInv, NEW c \in Cron, NEW v \in Video,
                                   UnsetQuarantine(c, v)
                            PROVE  EscalationInv'
<1>1. /\ cron[c].at = "unset" /\ cron[c].on = v /\ Advance(c, "set")
      /\ flags' = [flags EXCEPT ![v] = @ \ {"QUARANTINE"}]
      /\ UNCHANGED <<rd, mark, verdicts, blob, human, cutOff, raced>>
  BY DEF UnsetQuarantine, On, bounds, past
<1>2. PICK b \in Runs : cron' = [cron EXCEPT ![c] = b] /\ b.at = "set" /\ b.on = v
  BY <1>1, AdvanceIs DEF RunSteps
<1>3. flags'[v] = flags[v] \ {"QUARANTINE"} /\ \A u \in Video \ {v} : flags'[u] = flags[u]
  BY <1>1 DEF EscalationInv, EscalationTyped
<1>4. EscalationTyped'
  BY <1>1, <1>2 DEF EscalationInv, EscalationTyped, Marks
<1>5. human[v].at = "none" => mark[v] = "PERMANENT_BAN"
  BY <1>1, RunIs DEF RunSafe, Working
<1>6. Forward
  BY <1>1, <1>3 DEF Forward
<1>7. RunSafe(b)'
  BY <1>1, <1>2, <1>3, <1>5 DEF RunSafe, Working
<1> QED
  BY <1>1, <1>2, <1>3, <1>4, <1>5, <1>6, <1>7, WriteStep DEF Writing, Working, Undecided

LEMMA SetBanInv == ASSUME EscalationInv, NEW c \in Cron, NEW v \in Video, SetBan(c, v)
                   PROVE  EscalationInv'
<1>1. /\ cron[c].at = "set" /\ cron[c].on = v /\ Advance(c, "row")
      /\ flags' = [flags EXCEPT ![v] = @ \cup {"PERMANENT_BAN"}]
      /\ UNCHANGED <<rd, mark, verdicts, blob, human, cutOff, raced>>
  BY DEF SetBan, On, bounds, past
<1>2. PICK b \in Runs : cron' = [cron EXCEPT ![c] = b] /\ b.at = "row" /\ b.on = v
  BY <1>1, AdvanceIs DEF RunSteps
<1>3. /\ flags'[v] = flags[v] \cup {"PERMANENT_BAN"}
      /\ \A u \in Video \ {v} : flags'[u] = flags[u]
  BY <1>1 DEF EscalationInv, EscalationTyped
<1>4. EscalationTyped'
  BY <1>1, <1>2 DEF EscalationInv, EscalationTyped, Marks
<1>5. human[v].at = "none" => mark[v] = "PERMANENT_BAN" /\ "QUARANTINE" \notin flags[v]
  BY <1>1, RunIs DEF RunSafe, Working
<1>6. Forward
  BY <1>1, <1>3 DEF Forward
<1>7. RunSafe(b)'
  BY <1>1, <1>2, <1>3, <1>5 DEF RunSafe, Working
<1> QED
  BY <1>1, <1>2, <1>3, <1>4, <1>5, <1>6, <1>7, WriteStep DEF Writing, Working, Undecided

LEMMA UpdateRowInv == ASSUME EscalationInv, NEW c \in Cron, NEW v \in Video, UpdateRow(c, v)
                      PROVE  EscalationInv'
<1>1. /\ cron[c].at = "row" /\ cron[c].on = v /\ Advance(c, "blossom")
      /\ UNCHANGED <<rd, mark, flags, blob, human, raced>> /\ cutOff \subseteq cutOff'
      /\ \/ verdicts' = [verdicts EXCEPT ![v] = IF @ = "none" THEN @ ELSE "PERMANENT_BAN"]
         \/ verdicts' = verdicts /\ v \in cutOff'
  BY DEF UpdateRow, On, Works, Fails
<1>2. PICK b \in Runs : cron' = [cron EXCEPT ![c] = b] /\ b.at = "blossom" /\ b.on = v
  BY <1>1, AdvanceIs DEF RunSteps
<1>3. /\ verdicts'[v] = verdicts[v] \/ verdicts'[v] = "PERMANENT_BAN"
      /\ verdicts[v] # "none" /\ v \notin cutOff' => verdicts'[v] = "PERMANENT_BAN"
      /\ \A u \in Video \ {v} : verdicts'[u] = verdicts[u]
  BY <1>1 DEF EscalationInv, EscalationTyped
<1>4. EscalationTyped'
  BY <1>1, <1>2 DEF EscalationInv, EscalationTyped, Marks
<1>5. human[v].at = "none" =>
        /\ mark[v] = "PERMANENT_BAN" /\ "QUARANTINE" \notin flags[v]
        /\ "PERMANENT_BAN" \in flags[v] /\ verdicts[v] # "none"
  BY <1>1, RunIs DEF RunSafe, Working, EscalationInv, VideoSafe, Undecided
<1>6. Forward
  BY <1>1, <1>3 DEF Forward
<1>7. RunSafe(b)'
  BY <1>1, <1>2, <1>3, <1>5 DEF RunSafe, Working
<1>8. Writing(cron[c]) /\ Working(b)
  BY <1>1, <1>2 DEF Writing, Working
<1>9. human[v].at = "none" /\ Undecided(v) =>
        /\ mark'[v] = "PERMANENT_BAN" /\ verdicts'[v] \in {"QUARANTINE", "PERMANENT_BAN"}
        /\ flags'[v] \subseteq {"QUARANTINE", "PERMANENT_BAN"}
  BY <1>1, <1>3, <1>5 DEF Undecided
<1> QED
  BY <1>1, <1>2, <1>3, <1>4, <1>6, <1>7, <1>8, <1>9, WriteStep

LEMMA NotifyBanInv == ASSUME EscalationInv, NEW c \in Cron, NEW v \in Video, NotifyBan(c, v)
                      PROVE  EscalationInv'
<1>1. /\ cron[c].at = "blossom" /\ cron[c].on = v /\ Advance(c, "mark")
      /\ UNCHANGED <<rd, mark, flags, verdicts, human, raced>> /\ cutOff \subseteq cutOff'
      /\ \/ blob' = [blob EXCEPT ![v] = "banned"]
         \/ blob' = blob /\ v \in cutOff'
  BY DEF NotifyBan, On, Works, Fails
<1>2. PICK b \in Runs : cron' = [cron EXCEPT ![c] = b] /\ b.at = "mark" /\ b.on = v
  BY <1>1, AdvanceIs DEF RunSteps
<1>3. /\ v \notin cutOff' => blob'[v] = "banned"
      /\ DOMAIN blob' = Video /\ \A u \in Video \ {v} : blob'[u] = blob[u]
  BY <1>1 DEF EscalationInv, EscalationTyped
<1>4. EscalationTyped'
  BY <1>1, <1>2, <1>3 DEF EscalationInv, EscalationTyped, Marks
<1>5. human[v].at = "none" =>
        /\ mark[v] = "PERMANENT_BAN" /\ "QUARANTINE" \notin flags[v]
        /\ "PERMANENT_BAN" \in flags[v] /\ verdicts[v] # "none"
        /\ v \notin cutOff => verdicts[v] = "PERMANENT_BAN"
  BY <1>1, RunIs DEF RunSafe, Working, EscalationInv, VideoSafe, Undecided
<1>6. Forward
  BY <1>1 DEF Forward
<1>7. RunSafe(b)'
  BY <1>1, <1>2, <1>5 DEF RunSafe, Working
<1>8. human[v].at = "none" /\ Undecided(v) /\ v \notin cutOff' => Banned(v)'
  <2> SUFFICES ASSUME human[v].at = "none", Undecided(v), v \notin cutOff' PROVE Banned(v)'
    OBVIOUS
  <2>1. flags[v] = {"PERMANENT_BAN"}
    BY <1>5 DEF Undecided
  <2> QED
    BY <1>1, <1>3, <1>5, <2>1 DEF Banned
<1>9. Writing(cron[c])
  BY <1>1 DEF Writing, Working
<1>10. human[v].at = "none" /\ Undecided(v) =>
        /\ mark'[v] = "PERMANENT_BAN" /\ verdicts'[v] \in {"QUARANTINE", "PERMANENT_BAN"}
        /\ flags'[v] \subseteq {"QUARANTINE", "PERMANENT_BAN"}
        /\ v \notin cutOff' => Banned(v)'
  BY <1>1, <1>5, <1>8 DEF Undecided
<1>11. \A u \in Video \ {v} : /\ mark'[u] = mark[u] /\ verdicts'[u] = verdicts[u]
                               /\ flags'[u] = flags[u] /\ blob'[u] = blob[u]
  BY <1>1, <1>3
<1>12. /\ UNCHANGED <<rd, human, raced>> /\ cutOff \subseteq cutOff' /\ cron[c].on = v
       /\ verdicts'[v] = verdicts[v]
  BY <1>1
<1> QED
  BY <1>2, <1>4, <1>6, <1>7, <1>9, <1>10, <1>11, <1>12, WriteStep
-----------------------------------------------------------------------------
LEMMA EscalationNextInv == EscalationInv /\ [EscalationNext]_escalationVars => EscalationInv'
<1> SUFFICES ASSUME EscalationInv, [EscalationNext]_escalationVars PROVE EscalationInv'
  OBVIOUS
<1>1. CASE UNCHANGED escalationVars
  <2>1. Forward /\ EscalationTyped'
    BY <1>1 DEF escalationVars, stores, Forward, EscalationInv, EscalationTyped
  <2>2. \A v \in Video : VideoSafe(v)'
    BY <1>1 DEF escalationVars, stores, EscalationInv, VideoSafe, Undecided, Upheld, Accepted,
                Banned, Writing, Working
  <2> QED
    BY <1>1, <2>1, <2>2, RunsRest DEF EscalationInv, escalationVars
<1>2. ASSUME NEW v \in Video, \/ BeginSubmit(v) \/ EndSubmit(v) \/ BeginView(v) \/ EndView(v)
                              \/ Lapse(v)
      PROVE  EscalationInv'
  <2>1. /\ UNCHANGED <<stores, cron, human, cutOff, raced>>
        /\ \E r \in {"none", "pending", "complete"} : rd' = rd \/ rd' = [rd EXCEPT ![v] = r]
    BY <1>2 DEF BeginSubmit, EndSubmit, BeginView, EndView, Lapse, bounds, past
  <2> QED
    BY <2>1, EntryStep
<1>3. ASSUME NEW v \in Video,
             StoreQuarantine(v) \/ (\E a \in HumanActions : HumanMirror(v, a))
               \/ HumanRow(v) \/ HumanRest(v)
               \/ (\E d \in Elsewhere : HumanElsewhere(v, d[1], d[2]))
      PROVE  EscalationInv'
  BY <1>3, StoreQuarantineInv, HumanMirrorInv, HumanElsewhereInv, HumanRowInv, HumanRestInv
<1>4. ASSUME NEW c \in Cron, NEW v \in Video,
             TakeEntry(c, v) \/ PollResult(c, v) \/ LookUp(c, v) \/ MarkEscalated(c, v)
      PROVE  EscalationInv'
  BY <1>4, TakeEntryInv, PollResultInv, LookUpInv, MarkEscalatedInv
<1>5. ASSUME NEW c \in Cron, NEW v \in Video,
             \/ WriteMirror(c, v) \/ UnsetQuarantine(c, v) \/ SetBan(c, v) \/ UpdateRow(c, v)
             \/ NotifyBan(c, v)
      PROVE  EscalationInv'
  BY <1>5, WriteMirrorInv, UnsetQuarantineInv, SetBanInv, UpdateRowInv, NotifyBanInv
<1>6. ASSUME NEW c \in Cron, StartRun(c) \/ EndRun(c) \/ EndEarly(c) PROVE EscalationInv'
  BY <1>6, StartRunInv, EndRunInv, EndEarlyInv
<1> QED
  BY <1>1, <1>2, <1>3, <1>4, <1>5, <1>6 DEF EscalationNext

\* What overlapping runs, the dashboard and the moderators keep between them:
\* a mirror of a ban means a ban everywhere, or a run that is still at it, and
\* no run writes to what somebody decided on before it looked, unless the mirror
\* still says that it is quarantined.
THEOREM EscalationInvariant == EscalationSpec => []EscalationInv
  BY EscalationInitInv, EscalationNextInv, PTL DEF EscalationSpec

\* A video that is marked as settled is banned in D1, in KV and in Blossom (index.mjs
\* 5537), and a decision that D1 took, by whichever path, stands where it leaves no
\* quarantine in the mirror, and makes way for nothing but a ban where it does (what
\* index.mjs 5461 says of human decisions, as far as it is so), for any number of
\* videos, runs and failures and one decision on each video.
THEOREM EscalationSettlesHolds == EscalationSpec => []EscalationSettles
<1>1. EscalationInv => EscalationSettles
  <2> SUFFICES ASSUME EscalationInv, NEW v \in Video
               PROVE  /\ rd[v] = "escalated" /\ ~BusyOn(v) /\ human[v].at = "none"
                           /\ v \notin cutOff =>
                           /\ verdicts[v] = "PERMANENT_BAN" /\ mark[v] = "PERMANENT_BAN"
                           /\ flags[v] = {"PERMANENT_BAN"} /\ blob[v] = "banned"
                      /\ human[v].at = "decided" /\ human[v].taken =>
                           /\ verdicts[v] \in {human[v].act, "PERMANENT_BAN"}
                           /\ human[v].mirror # "QUARANTINE" /\ v \notin raced =>
                                verdicts[v] = human[v].act /\ mark[v] = human[v].mirror
    BY DEF EscalationSettles
  <2>1. VideoSafe(v)
    BY DEF EscalationInv
  <2>2. ASSUME rd[v] = "escalated", ~BusyOn(v), human[v].at = "none", v \notin cutOff
        PROVE  mark[v] = "PERMANENT_BAN" /\ Banned(v)
    BY <2>1, <2>2 DEF VideoSafe, Undecided, BusyOn, Working
  <2>3. ASSUME human[v].at = "decided", human[v].taken
        PROVE  /\ verdicts[v] \in {human[v].act, "PERMANENT_BAN"}
               /\ human[v].mirror # "QUARANTINE" /\ v \notin raced =>
                    verdicts[v] = human[v].act /\ mark[v] = human[v].mirror
    BY <2>1, <2>3 DEF VideoSafe, Upheld, Accepted
  <2> QED
    BY <2>2, <2>3 DEF Banned
<1> QED
  BY <1>1, EscalationInvariant, PTL

-----------------------------------------------------------------------------
(* Detector. For every set of calls and every value of the limits with     *)
(* which a call may last less long than the cooldown.                      *)

USE DetectorAssumption

\* A call that sends or sleeps is within its deadline.
InTime ==
  \A c \in Detection : Timed(c) => call[c].started <= ticks /\ ticks <= Deadline(c)

\* An open circuit has opened after its probe began; a half open one has a probe.
OpenedLater ==
  circuit.state = "open" => \A c \in Probes : call[c].started <= circuit.openedAt
HalfOpenProbes == circuit.state = "half_open" => circuit.probeInFlight

DetectorInv == DetectorTypeOK /\ InTime /\ OpenedLater /\ HalfOpenProbes /\ OneProbeAtATime

LEMMA DetectorInitInv == DetectorInit => DetectorInv
  BY DEF DetectorInit, DetectorInv, DetectorTypeOK, InTime, OpenedLater, HalfOpenProbes,
     OneProbeAtATime, Probes, Timed, Circuit, CircuitStates, CallState, CallPcs, IdleCall

\* The timers: a clock that goes on leaves every deadline ahead.
LEMMA PassTimeInv == DetectorInv /\ PassTime => DetectorInv'
  BY DEF PassTime, DetectorInv, DetectorTypeOK, InTime, OpenedLater, HalfOpenProbes,
     OneProbeAtATime, Probes, Timed, Deadline, Circuit, CallState

-----------------------------------------------------------------------------
(* Steps of a call that start no probe and leave the breaker as it is, or  *)
(* record a result.                                                        *)

\* Nothing becomes a probe, and no timed call gets a new beginning.
NoNewProbe ==
  /\ call' \in [Detection -> CallState]
  /\ \A c \in Detection : Timed(c)' =>
       Timed(c) /\ call'[c].started = call[c].started /\ call'[c].probe = call[c].probe

Recorded == UNCHANGED circuit \/ recordSuccess \/ recordFailure

LEMMA RecordedType ==
  ASSUME DetectorTypeOK, Recorded
  PROVE  /\ circuit' \in Circuit
         /\ circuit'.state = "half_open" => circuit' = circuit
         /\ circuit'.state = "open" =>
              \/ circuit'.openedAt = ticks
              \/ (circuit.state = "open" /\ circuit'.openedAt = circuit.openedAt)
<1>1. CASE UNCHANGED circuit
  BY <1>1 DEF DetectorTypeOK
<1>2. CASE recordSuccess
  BY <1>2 DEF DetectorTypeOK, recordSuccess, Circuit, CircuitStates
<1>3. CASE recordFailure
  <2>1. circuit \in Circuit /\ ticks \in Nat
    BY DEF DetectorTypeOK
  <2>2. circuit.failures + 1 \in Nat
    BY <2>1 DEF Circuit
  <2>3. Reopened \in Circuit
    BY <2>1 DEF Circuit, CircuitStates, Reopened
  <2>4. circuit \in Circuit /\ ticks \in Nat /\ Reopened \in Circuit /\ circuit.failures + 1 \in Nat
    BY <2>1, <2>2, <2>3
  <2>5. CASE circuit.state = "half_open"
    BY <1>3, <2>4, <2>5 DEF recordFailure, Reopened, Circuit
  <2>6. CASE circuit' = [Reopened EXCEPT !.failures = @ + 1]
    BY <2>4, <2>6 DEF Reopened, Circuit
  <2>7. CASE /\ circuit.state # "half_open"
             /\ circuit' = [circuit EXCEPT !.failures = @ + 1, !.probeInFlight = FALSE]
    BY <2>4, <2>7 DEF Circuit
  <2> QED
    BY <1>3, <2>5, <2>6, <2>7 DEF recordFailure
<1> QED
  BY <1>1, <1>2, <1>3 DEF Recorded

LEMMA OldProbesInv ==
  ASSUME DetectorInv, NoNewProbe, Recorded, UNCHANGED ticks
  PROVE  DetectorInv'
<1>1. \A c \in Detection : call[c] \in CallState
  BY DEF DetectorInv, DetectorTypeOK
<1>2. Probes' \subseteq Probes /\ \A c \in Probes' : call'[c].started = call[c].started
  BY DEF Probes, NoNewProbe
<1>3. DetectorTypeOK'
  BY RecordedType DEF DetectorInv, DetectorTypeOK, NoNewProbe
<1>4. InTime'
  BY DEF DetectorInv, InTime, NoNewProbe, Deadline
<1>5. OpenedLater'
  <2>1. \A c \in Probes' : call'[c].started <= ticks
    BY <1>2, <1>4 DEF InTime, Probes
  <2> QED
    BY <1>2, <2>1, RecordedType DEF DetectorInv, OpenedLater
<1>6. HalfOpenProbes'
  BY RecordedType DEF DetectorInv, HalfOpenProbes
<1>7. OneProbeAtATime'
  BY <1>2 DEF DetectorInv, OneProbeAtATime
<1> QED
  BY <1>3, <1>4, <1>5, <1>6, <1>7 DEF DetectorInv

LEMMA EndsAdmitsNone ==
  ASSUME DetectorTypeOK, NEW c \in Detection, Ends(c)
  PROVE  NoNewProbe
  BY DEF DetectorTypeOK, Ends, NoNewProbe, IdleCall, CallState, CallPcs, Timed

LEMMA CallStepInv ==
  ASSUME DetectorInv, NEW c \in Detection,
         Answer(c) \/ ReadBody(c) \/ Again(c) \/ Wake(c) \/ CallFails(c) \/ LoseCall(c)
  PROVE  DetectorInv'
<1>0. DetectorTypeOK /\ call[c] \in CallState
  BY DEF DetectorInv, DetectorTypeOK
<1>1. CASE Answer(c)
  BY <1>0, <1>1, OldProbesInv DEF Answer, DetectorTypeOK, NoNewProbe, Recorded, Timed, CallState,
     CallPcs
<1>2. CASE ReadBody(c) \/ CallFails(c) \/ LoseCall(c)
  BY <1>0, <1>2, EndsAdmitsNone, OldProbesInv DEF ReadBody, CallFails, LoseCall, Recorded
<1>3. CASE Again(c)
  <2>1. PICK wait \in 0..Timeout : call' = [call EXCEPT ![c].pc = "sleep", ![c].until = ticks + wait]
    BY <1>3 DEF Again
  <2>2. ticks + wait \in Nat
    BY <1>0 DEF DetectorTypeOK
  <2>3. NoNewProbe
    BY <1>0, <1>3, <2>1, <2>2 DEF Again, DetectorTypeOK, NoNewProbe, Timed, CallState, CallPcs
  <2> QED
    BY <1>3, <2>3, OldProbesInv DEF Again, Recorded
<1>4. CASE Wake(c)
  <2>1. NoNewProbe
    BY <1>0, <1>4 DEF Wake, DetectorTypeOK, NoNewProbe, Timed, CallState, CallPcs
  <2> QED
    BY <1>4, <2>1, OldProbesInv DEF Wake, Recorded
<1> QED
  BY <1>1, <1>2, <1>3, <1>4

-----------------------------------------------------------------------------
(* The step that may start a probe.                                        *)

\* A circuit that has cooled down has outlived the probe of before.
LEMMA CooledDown ==
  ASSUME DetectorInv, Probing
  PROVE  Probes = {}
<1>1. ASSUME NEW c \in Probes PROVE FALSE
  <2>1. /\ call[c].started \in Nat /\ circuit.openedAt \in Nat /\ ticks \in Nat
        /\ c \in Detection /\ Timed(c)
    BY <1>1 DEF DetectorInv, DetectorTypeOK, Probes, CallState, Circuit
  <2>2. call[c].started <= circuit.openedAt /\ ticks <= call[c].started + Timeout
    BY <1>1, <2>1 DEF DetectorInv, OpenedLater, InTime, Probing, Deadline
  <2> QED
    BY <2>1, <2>2 DEF Probing
<1> QED
  BY <1>1

LEMMA AdmitInv ==
  ASSUME DetectorInv, NEW c \in Detection, Admit(c)
  PROVE  DetectorInv'
<1>0. DetectorTypeOK /\ call[c] \in CallState /\ ticks \in Nat
  BY DEF DetectorInv, DetectorTypeOK
<1>1. circuit' \in Circuit /\ circuit'.state # "open"
      /\ (circuit'.state = "half_open" => circuit'.probeInFlight)
  BY <1>0 DEF Admit, Allowed, Probing, DetectorTypeOK, Circuit, CircuitStates
<1>2. /\ call' \in [Detection -> CallState]
      /\ call'[c].started = ticks
      /\ call'[c].probe <=> circuit.state # "closed"
      /\ \A d \in Detection \ {c} : call'[d] = call[d]
  BY <1>0 DEF Admit, DetectorTypeOK, CallState, CallPcs
<1>3. circuit.state # "closed" => Probes = {}
  BY CooledDown DEF Admit, Allowed, DetectorInv, HalfOpenProbes
<1>4. DetectorTypeOK'
  BY <1>0, <1>1, <1>2 DEF Admit, DetectorTypeOK
<1>5. InTime'
  BY <1>0, <1>2 DEF Admit, DetectorInv, InTime, Timed, Deadline
<1>6. OneProbeAtATime'
  <2>1. Probes' \subseteq Probes \cup {c} /\ (circuit.state = "closed" => Probes' \subseteq Probes)
    BY <1>2 DEF Probes, Timed
  <2> QED
    BY <1>3, <2>1 DEF DetectorInv, OneProbeAtATime
<1> QED
  BY <1>1, <1>4, <1>5, <1>6 DEF DetectorInv, OpenedLater, HalfOpenProbes

LEMMA DetectorInvStep ==
  ASSUME DetectorInv, [DetectorNext]_detectorVars
  PROVE  DetectorInv'
<1>1. CASE UNCHANGED detectorVars
  BY <1>1 DEF detectorVars, DetectorInv, DetectorTypeOK, InTime, OpenedLater, HalfOpenProbes,
     OneProbeAtATime, Probes, Timed, Deadline
<1> QED
  BY <1>1, PassTimeInv, AdmitInv, CallStepInv DEF DetectorNext

\* The strengthening holds in every state of the circuit breaker: calls are within
\* their deadline, an open circuit opened after its probes began, and a half-open
\* one has its probe.
THEOREM DetectorInvariant == DetectorSpec => []DetectorInv
  BY DetectorInitInv, DetectorInvStep, PTL DEF DetectorSpec

\* However many calls run, fail late and open the circuit again: the detector is
\* sent one probe at a time, because a call may last less long than the cooldown
\* and the cooldown is counted from the last time the circuit opened.
THEOREM ProbesOneAtATime == DetectorSpec => []OneProbeAtATime
<1>1. DetectorInv => OneProbeAtATime
  BY DEF DetectorInv
<1> QED
  BY <1>1, DetectorInvariant, PTL

HIDE DetectorAssumption

-----------------------------------------------------------------------------
(* Classifier.  A verdict is SAFE by the last branch only, and then every  *)
(* branch before it says what the scores do not reach.                     *)

USE ClassifierAssumption

Thresholds == [Category -> [{"high", "medium"} -> Int]]

LEMMA SmallerOfTwo ==
  ASSUME NEW a \in Int, NEW b \in Int
  PROVE  Min({a, b}) = IF a <= b THEN a ELSE b
<1> DEFINE m == IF a <= b THEN a ELSE b
<1>1. m \in {a, b} /\ \A y \in {a, b} : m <= y
  OBVIOUS
<1>2. \A x \in {a, b} : (\A y \in {a, b} : x <= y) => x = m
  OBVIOUS
<1> QED
  BY <1>1, <1>2 DEF Min

LEMMA FirstOf14 ==
  ASSUME NEW S, S \subseteq 1..14, 14 \in S
  PROVE  Min(S) \in S /\ \A i \in S : Min(S) <= i
<1>1. S \subseteq {1, 2, 3, 4, 5, 6, 7, 8, 9, 10, 11, 12, 13, 14}
  OBVIOUS
<1>2. \E x \in S : \A y \in S : x <= y
  BY <1>1
<1> QED
  BY <1>2 DEF Min

LEMMA LastBranch ==
  ASSUME NEW s, NEW t, NEW env, Classified(s, t, env).action = "SAFE"
  PROVE  \A i \in 1..13 : ~Branches(s, t, env)[i].holds
<1> DEFINE B == Branches(s, t, env)
           S == {i \in DOMAIN B : B[i].holds}
<1>1. DOMAIN B = 1..14
  BY DEF Branches
<1>2. B[14].holds
  BY DEF Branches
<1>3. \A i \in 1..13 : B[i].action # "SAFE"
  BY DEF Branches
<1> HIDE DEF B
<1>4. Min(S) \in S /\ \A i \in S : Min(S) <= i
  BY <1>1, <1>2, FirstOf14
<1>5. B[Min(S)].action = "SAFE"
  BY DEF Classified, B
<1>6. PICK m \in S : m = Min(S) /\ \A i \in S : m <= i
  BY <1>4
<1>7. m = 14
  <2>1. m \in 1..14 /\ B[m].action = "SAFE"
    BY <1>1, <1>5, <1>6
  <2> QED
    BY <1>3, <2>1
<1>8. \A i \in 1..13 : ~B[i].holds
  <2> SUFFICES ASSUME NEW i \in 1..13, B[i].holds
               PROVE  FALSE
    OBVIOUS
  <2>1. i \in S
    BY <1>1
  <2>2. 14 <= i
    BY <1>6, <1>7, <2>1
  <2> QED
    BY <2>2
<1> QED
  BY <1>8 DEF B

\* The thirteen branches that a SAFE video has passed by.
LEMMA PassedBy ==
  ASSUME NEW s, NEW t, NEW env, Classified(s, t, env).action = "SAFE"
  PROVE  /\ ~(s["self_harm"] >= BanAt(env, "self_harm"))
         /\ ~(s["offensive"] >= BanAt(env, "offensive"))
         /\ ~(s["porn"] >= BanAt(env, "porn"))
         /\ ~(s["ai_generated"] >= BanAt(env, "ai_generated"))
         /\ ~(s["deepfake"] >= BanAt(env, "deepfake"))
         /\ ~(t["hate_speech"] > Pct(70)) /\ ~(t["threats"] > Pct(70))
         /\ ~(s["sexual"] >= BanAt(env, "sexual"))
         /\ ~(\E c \in AgeRestricted : s[c] >= env[c].high)
         /\ ~Quarantined(s, env) /\ ~Reviewed(s, env)
         /\ ~(t["profanity"] > Pct(50))
<1> DEFINE B == Branches(s, t, env)
<1>1. \A i \in 1..13 : ~B[i].holds
  BY LastBranch
<1>2. /\ ~B[1].holds /\ ~B[2].holds /\ ~B[4].holds /\ ~B[5].holds /\ ~B[6].holds
      /\ ~B[7].holds /\ ~B[8].holds /\ ~B[9].holds /\ ~B[10].holds /\ ~B[11].holds
      /\ ~B[12].holds /\ ~B[13].holds
  <2> HIDE DEF B
  <2> QED
    BY <1>1
<1>3. /\ B[1].holds = (s["self_harm"] >= BanAt(env, "self_harm"))
      /\ B[2].holds = (s["offensive"] >= BanAt(env, "offensive"))
      /\ B[4].holds = (s["porn"] >= BanAt(env, "porn"))
      /\ B[5].holds = (s["ai_generated"] >= BanAt(env, "ai_generated"))
      /\ B[6].holds = (s["deepfake"] >= BanAt(env, "deepfake"))
      /\ B[7].holds = (t["hate_speech"] > Pct(70)) /\ B[8].holds = (t["threats"] > Pct(70))
      /\ B[9].holds = (s["sexual"] >= BanAt(env, "sexual"))
      /\ B[10].holds = (\E c \in AgeRestricted : s[c] >= env[c].high)
      /\ B[11].holds = Quarantined(s, env) /\ B[12].holds = Reviewed(s, env)
      /\ B[13].holds = (t["profanity"] > Pct(50))
  BY DEF Branches
<1> HIDE DEF B
<1> QED
  BY <1>2, <1>3, Zenon

LEMMA Percentages ==
  One = 240 /\ Pct(50) = 120 /\ Pct(70) = 168 /\ QuarantineAt = 168
  BY DEF One, Pct, QuarantineAt

\* The categories by what the code does with a high score of them.
LEMMA Categories ==
  Category = Unguarded \cup AgeRestricted
               \cup {"sexual", "porn", "ai_generated", "offensive", "self_harm", "deepfake"}
<1>1. Category = {CategoryOrder[i] : i \in 1..20}
  BY DEF Category, ToSet, CategoryOrder
<1>2. 1..20 = {1, 2, 3, 4, 5, 6, 7, 8, 9, 10, 11, 12, 13, 14, 15, 16, 17, 18, 19, 20}
  OBVIOUS
<1> QED
  BY <1>1, <1>2 DEF CategoryOrder, Unguarded, AgeRestricted

\* What a text scores for a list of patterns, of which n halves matched.
LEMMA TextScores ==
  ASSUME NEW text \in Text
  PROVE  LET t == TextScore(text)
             w == Weight[text]
         IN  /\ ~(t["hate_speech"] > Pct(70)) =>
                  10 * w["hate_speech"] <= 14 * TextThreshold["hate_speech"]
             /\ ~(t["threats"] > Pct(70)) => 10 * w["threats"] <= 14 * TextThreshold["threats"]
             /\ ~(t["profanity"] > Pct(50)) => w["profanity"] <= TextThreshold["profanity"]
<1> DEFINE t == TextScore(text)
           w == Weight[text]
<1>1. {"hate_speech", "threats", "profanity"} \subseteq DOMAIN TextThreshold
      /\ TextThreshold["hate_speech"] = 3 /\ TextThreshold["threats"] = 3
      /\ TextThreshold["profanity"] = 6
  BY DEF TextThreshold
<1>2. w \in [DOMAIN TextThreshold -> Nat]
  OBVIOUS
<1>3. w["hate_speech"] \in Nat /\ w["threats"] \in Nat /\ w["profanity"] \in Nat
  BY <1>1, <1>2
<1>4. /\ t["hate_speech"] = Min({One, (w["hate_speech"] * One) \div (2 * 3)})
      /\ t["threats"] = Min({One, (w["threats"] * One) \div (2 * 3)})
      /\ t["profanity"] = Min({One, (w["profanity"] * One) \div (2 * 6)})
  BY <1>1 DEF TextScore
<1>5. /\ (w["hate_speech"] * One) \div (2 * 3) = 40 * w["hate_speech"]
      /\ (w["threats"] * One) \div (2 * 3) = 40 * w["threats"]
      /\ (w["profanity"] * One) \div (2 * 6) = 20 * w["profanity"]
  BY <1>3 DEF One
<1>6. /\ t["hate_speech"] = Min({240, 40 * w["hate_speech"]})
      /\ t["threats"] = Min({240, 40 * w["threats"]})
      /\ t["profanity"] = Min({240, 20 * w["profanity"]})
  <2>1. One = 240
    BY Percentages
  <2> HIDE DEF t, w
  <2>2. t["hate_speech"] = Min({240, 40 * w["hate_speech"]})
    <3>1. t["hate_speech"] = Min({One, (w["hate_speech"] * One) \div (2 * 3)})
      BY <1>4
    <3>2. (w["hate_speech"] * One) \div (2 * 3) = 40 * w["hate_speech"]
      BY <1>5
    <3> QED
      BY <3>1, <3>2, <2>1, Zenon
  <2>3. t["threats"] = Min({240, 40 * w["threats"]})
    <3>1. t["threats"] = Min({One, (w["threats"] * One) \div (2 * 3)})
      BY <1>4
    <3>2. (w["threats"] * One) \div (2 * 3) = 40 * w["threats"]
      BY <1>5
    <3> QED
      BY <3>1, <3>2, <2>1, Zenon
  <2>4. t["profanity"] = Min({240, 20 * w["profanity"]})
    <3>1. t["profanity"] = Min({One, (w["profanity"] * One) \div (2 * 6)})
      BY <1>4
    <3>2. (w["profanity"] * One) \div (2 * 6) = 20 * w["profanity"]
      BY <1>5
    <3> QED
      BY <3>1, <3>2, <2>1, Zenon
  <2> QED
    BY <2>2, <2>3, <2>4
<1> HIDE DEF t, w
<1>7. /\ t["hate_speech"] = IF 240 <= 40 * w["hate_speech"] THEN 240 ELSE 40 * w["hate_speech"]
      /\ t["threats"] = IF 240 <= 40 * w["threats"] THEN 240 ELSE 40 * w["threats"]
      /\ t["profanity"] = IF 240 <= 20 * w["profanity"] THEN 240 ELSE 20 * w["profanity"]
  <2>1. 240 \in Int /\ 40 * w["hate_speech"] \in Int /\ 40 * w["threats"] \in Int
        /\ 20 * w["profanity"] \in Int
    BY <1>3
  <2>2. Min({240, 40 * w["hate_speech"]})
          = IF 240 <= 40 * w["hate_speech"] THEN 240 ELSE 40 * w["hate_speech"]
    BY <2>1, SmallerOfTwo, SMTT(60)
  <2>3. Min({240, 40 * w["threats"]}) = IF 240 <= 40 * w["threats"] THEN 240 ELSE 40 * w["threats"]
    BY <2>1, SmallerOfTwo
  <2>4. Min({240, 20 * w["profanity"]}) = IF 240 <= 20 * w["profanity"] THEN 240 ELSE 20 * w["profanity"]
    BY <2>1, SmallerOfTwo
  <2> QED
    BY <1>6, <2>2, <2>3, <2>4
<1>8. /\ ~(t["hate_speech"] > 168) => 10 * w["hate_speech"] <= 14 * 3
      /\ ~(t["threats"] > 168) => 10 * w["threats"] <= 14 * 3
      /\ ~(t["profanity"] > 120) => w["profanity"] <= 6
  BY <1>3, <1>7
<1> QED
  BY <1>1, <1>8, Percentages DEF t, w

LEMMA DefaultType ==
  ASSUME NEW c \in Category
  PROVE  Defaults[c].high \in Int /\ Defaults[c].medium \in Int
<1>1. \A n \in Int : Pct(n) \in Int
  BY DEF Pct, One
<1>2. /\ Defaults[c].high \in {Pct(90), Pct(95), Pct(70), Pct(80)}
      /\ Defaults[c].medium \in {Pct(70), Pct(80), Pct(50), Pct(60)}
  BY DEF Defaults
<1> QED
  BY <1>1, <1>2

LEMMA SafeIsQuiet ==
  ASSUME NEW s \in Scores, NEW text \in Text, NEW env \in Thresholds,
         Classified(s, TextScore(text), env).action = "SAFE"
  PROVE  BelowAll([scores |-> s, text |-> text, env |-> env])
<1> DEFINE g == [scores |-> s, text |-> text, env |-> env]
           t == TextScore(text)
<1>1. \A c \in Category :
        \/ s[c] < env[c].medium \/ Silent(c, s[c], env) \/ Muted(c, s[c], env)
  <2> SUFFICES ASSUME NEW c \in Category, ~(s[c] < env[c].medium)
               PROVE  Silent(c, s[c], env) \/ Muted(c, s[c], env)
    OBVIOUS
  <2>1. /\ s[c] \in Int /\ env[c].medium \in Int /\ env[c].high \in Int /\ QuarantineAt \in Int
        /\ Defaults[c].high \in Int
    <3>1. Defaults[c].high \in Int
      BY DefaultType
    <3>2. s[c] \in 0..One
      BY DEF Scores
    <3>3. env[c] \in [{"high", "medium"} -> Int]
      BY DEF Thresholds
    <3>4. env[c]["medium"] \in Int /\ env[c]["high"] \in Int
      BY <3>3
    <3>5. s[c] \in Int /\ QuarantineAt \in Int
      BY <3>2, Percentages
    <3> QED
      BY <3>1, <3>4, <3>5
  <2>2. s[c] >= QuarantineAt
    BY <2>1, PassedBy DEF Reviewed
  <2>3. s[c] >= env[c].high
    BY <2>1, <2>2, PassedBy DEF Quarantined
  <2>4. CASE c \in Unguarded
    BY <2>2, <2>3, <2>4 DEF Silent
  <2>5. CASE c \in AgeRestricted
    BY <2>3, <2>5, PassedBy
  <2>6. CASE c \in {"sexual", "porn", "ai_generated", "offensive", "self_harm", "deepfake"}
    <3>1. ~(s[c] >= BanAt(env, c))
      BY <2>6, PassedBy
    <3>2. env[c].high = 0 /\ s[c] < Defaults[c].high
      BY <2>1, <2>3, <3>1 DEF BanAt
    <3>3. c \notin Unguarded \cup AgeRestricted
      BY <2>6 DEF Unguarded, AgeRestricted
    <3> QED
      BY <2>2, <3>2, <3>3 DEF Muted
  <2> QED
    BY <2>4, <2>5, <2>6, Categories
<1>2. /\ 10 * Weight[text]["hate_speech"] <= 14 * TextThreshold["hate_speech"]
      /\ 10 * Weight[text]["threats"] <= 14 * TextThreshold["threats"]
      /\ Weight[text]["profanity"] <= TextThreshold["profanity"]
  BY PassedBy, TextScores
<1> QED
  BY <1>1, <1>2 DEF BelowAll

LEMMA NoScoresAreScores == NoScores \in Scores
  BY Percentages DEF NoScores, Scores

\* What moderators and the deployment set is a number for each category.
LEMMA EffectiveType ==
  ASSUME NEW kv \in Offers \cup {NoSettings}
  PROVE  Effective(kv) \in Thresholds
<1> SUFFICES ASSUME NEW c \in Category, NEW k \in {"high", "medium"}
             PROVE  (IF SettingOf(c) \in Adjustable \cap DOMAIN kv
                          /\ k \in DOMAIN kv[SettingOf(c)]
                     THEN kv[SettingOf(c)][k] ELSE Deployed[c][k]) \in Int
  BY DEF Effective, Thresholds
<1>1. Deployed[c][k] \in Int
  <2>1. Pct(80) \in Int /\ Pct(60) \in Int
    BY DEF Pct, One
  <2>2. Defaults[c].high \in Int /\ Defaults[c].medium \in Int
    BY DefaultType
  <2>3. Defaults[c]["high"] \in Int /\ Defaults[c]["medium"] \in Int
    BY <2>2
  <2>4. Defaults = [x \in Category |-> Defaults[x]]
    BY DEF Defaults
  <2>5. Deployed[c] = IF c = "ai_generated" THEN [high |-> Pct(80), medium |-> Pct(60)] ELSE Defaults[c]
    BY <2>4 DEF Deployed
  <2> QED
    BY <2>1, <2>3, <2>5
<1>2. ASSUME SettingOf(c) \in DOMAIN kv, k \in DOMAIN kv[SettingOf(c)]
      PROVE  kv[SettingOf(c)][k] \in Int
  <2>1. kv \in Offers
    BY <1>2 DEF NoSettings
  <2> QED
    BY <1>2, <2>1
<1> QED
  BY <1>1, <1>2

RowFields == {"action", "scores", "categories", "pending"}

\* Rows hold scores, and thresholds are numbers.
ClassifierTyped ==
  /\ settings \in Offers \cup {NoSettings}
  /\ reading \subseteq Thresholds
  /\ \A row \in judgment : DOMAIN row = RowFields /\ row.scores \in Scores

ClassifierInv == ClassifierTyped /\ SafeMeansQuiet

\* A row that is resolved, and one that is judged.
LEMMA RowsJudged ==
  ASSUME NEW row, DOMAIN row = RowFields
  PROVE  /\ DOMAIN Resolved(row) = RowFields
         /\ Resolved(row).action = row.action /\ Resolved(row).scores = row.scores
<1> USE DEF RowFields
<1> QED
  BY DEF Resolved

Rejudged(row, a, ds) == [row EXCEPT !.action = a, !.categories = ds]

LEMMA RowsChanged ==
  ASSUME NEW row, DOMAIN row = RowFields, NEW a, NEW ds
  PROVE  LET judged == Rejudged(row, a, ds)
         IN  DOMAIN judged = RowFields /\ judged.action = a /\ judged.scores = row.scores
<1> USE DEF RowFields
<1> DEFINE r == [row EXCEPT !.action = a]
<1>1. DOMAIN r = RowFields /\ r.action = a /\ r.scores = row.scores
  OBVIOUS
<1>2. Rejudged(row, a, ds) = [r EXCEPT !.categories = ds]
  BY DEF Rejudged
<1> HIDE DEF r
<1> QED
  BY <1>1, <1>2

LEMMA ClassifierInitial ==
  ASSUME ClassifierInit
  PROVE  ClassifierInv
<1>1. ClassifierTyped
  <2>1. \A b \in BOOLEAN : DOMAIN ManualReview(b) = RowFields /\ ManualReview(b).scores \in Scores
    BY NoScoresAreScores DEF ManualReview, RowFields
  <2>2. ASSUME NEW s \in Scorings
        PROVE  LET row == [ManualReview(TRUE) EXCEPT !.scores = s]
               IN  DOMAIN row = RowFields /\ row.scores \in Scores
    BY DEF ManualReview, RowFields
  <2> QED
    BY <2>1, <2>2 DEF ClassifierInit, ClassifierTyped
<1>2. SafeMeansQuiet
  BY DEF ClassifierInit, SafeMeansQuiet
<1> QED
  BY <1>1, <1>2 DEF ClassifierInv

LEMMA ClassifierStep ==
  ASSUME ClassifierInv, [ClassifierNext]_classifierVars
  PROVE  ClassifierInv'
<1> USE DEF ClassifierInv
<1>1. ASSUME NEW offer \in Offers, UpdateThresholds(offer)
      PROVE  ClassifierInv'
  BY <1>1 DEF UpdateThresholds, ClassifierTyped, SafeMeansQuiet
<1>2. ASSUME ResetThresholds
      PROVE  ClassifierInv'
  BY <1>2 DEF ResetThresholds, ClassifierTyped, SafeMeansQuiet
<1>3. ASSUME NEW answer \in Answers, Transcribe(answer)
      PROVE  ClassifierInv'
  BY <1>3 DEF Transcribe, ClassifierTyped, SafeMeansQuiet
<1>4. ASSUME ModerateVideo
      PROVE  ClassifierInv'
  <2>1. ClassifierTyped'
    BY <1>4, NoScoresAreScores DEF ModerateVideo, ClassifierTyped, ManualReview, RowFields
  <2>2. SafeMeansQuiet'
    BY <1>4 DEF ModerateVideo, SafeMeansQuiet
  <2> QED
    BY <2>1, <2>2
<1>5. ASSUME BeginReprocess
      PROVE  ClassifierInv'
  <2>1. PICK kv \in {settings, NoSettings} : reading' = {Effective(kv)}
    BY <1>5 DEF BeginReprocess
  <2>2. Effective(kv) \in Thresholds
    BY EffectiveType DEF ClassifierTyped
  <2>3. ClassifierTyped'
    BY <1>5, <2>1, <2>2 DEF BeginReprocess, ClassifierTyped
  <2>4. SafeMeansQuiet'
    BY <1>5 DEF BeginReprocess, SafeMeansQuiet
  <2> QED
    BY <2>3, <2>4
<1>6. ASSUME ResolveUnheard
      PROVE  ClassifierInv'
  <2>1. \A row \in judgment :
          /\ DOMAIN Resolved(row) = RowFields
          /\ Resolved(row).action = row.action /\ Resolved(row).scores = row.scores
    BY RowsJudged DEF ClassifierTyped
  <2>2. ClassifierTyped'
    BY <1>6, <2>1 DEF ResolveUnheard, ClassifierTyped
  <2>3. SafeMeansQuiet'
    BY <1>6, <2>1 DEF ResolveUnheard, SafeMeansQuiet
  <2> QED
    BY <2>2, <2>3
<1>7. ASSUME LeavePending
      PROVE  ClassifierInv'
  BY <1>7 DEF LeavePending, ClassifierTyped, SafeMeansQuiet
<1>8. ASSUME Judge
      PROVE  ClassifierInv'
  <2>1. PICK env \in reading, row \in judgment :
          LET verdict == Classified(row.scores, TextScore(transcript), env)
          IN /\ judgment' = {[Resolved(row) EXCEPT !.action = verdict.action,
                                !.categories = CategoriesOf(row.scores, verdict)]}
             /\ grounds' = {[scores |-> row.scores, text |-> transcript, env |-> env]}
    BY <1>8 DEF Judge
  <2> DEFINE verdict == Classified(row.scores, TextScore(transcript), env)
             categories == CategoriesOf(row.scores, verdict)
             judged == Rejudged(Resolved(row), verdict.action, categories)
  <2>2. DOMAIN judged = RowFields /\ judged.action = verdict.action /\ judged.scores = row.scores
    <3> HIDE DEF verdict, categories
    <3>1. DOMAIN Resolved(row) = RowFields /\ Resolved(row).scores = row.scores
      BY RowsJudged DEF ClassifierTyped
    <3> QED
      BY <3>1, RowsChanged
  <2>3. judgment' = {judged}
    BY <2>1, Zenon DEF Rejudged
  <2>4. transcript \in Text /\ env \in Thresholds /\ row.scores \in Scores
    BY <1>8 DEF Judge, ClassifierTyped
  <2>5. settings' = settings /\ reading' = {}
    BY <1>8 DEF Judge
  <2>6. judged.action = "SAFE" =>
          BelowAll([scores |-> row.scores, text |-> transcript, env |-> env])
    <3>1. verdict.action = "SAFE" =>
            BelowAll([scores |-> row.scores, text |-> transcript, env |-> env])
      BY <2>4, SafeIsQuiet
    <3> HIDE DEF verdict, judged
    <3> QED
      BY <2>2, <3>1
  <2> HIDE DEF verdict, categories, judged
  <2>7. ClassifierTyped'
    BY <2>2, <2>3, <2>4, <2>5 DEF ClassifierTyped
  <2>8. SafeMeansQuiet'
    BY <2>1, <2>3, <2>6 DEF SafeMeansQuiet
  <2> QED
    BY <2>7, <2>8
<1>9. ASSUME UNCHANGED classifierVars
      PROVE  ClassifierInv'
  BY <1>9 DEF classifierVars, ClassifierTyped, SafeMeansQuiet
<1> QED
  BY <1>1, <1>2, <1>3, <1>4, <1>5, <1>6, <1>7, <1>8, <1>9 DEF ClassifierNext

\* Thresholds, rows and verdicts in every state: the inductive invariant.
THEOREM ClassifierInvariant == ClassifierSpec => []ClassifierInv
<1>1. ClassifierInit => ClassifierInv
  BY ClassifierInitial
<1>2. ClassifierInv /\ [ClassifierNext]_classifierVars => ClassifierInv'
  BY ClassifierStep
<1> QED
  BY <1>1, <1>2, PTL DEF ClassifierSpec

\* A video that the cron has called SAFE has no score and no text above the limits in
\* force when its run began, apart from the two gaps that the property names
\* (classifier.mjs 239-344), whatever the scores, the texts and the thresholds.
THEOREM SafeMeansQuietHolds == ClassifierSpec => []SafeMeansQuiet
<1>1. ClassifierInv => SafeMeansQuiet
  BY DEF ClassifierInv
<1> QED
  BY <1>1, ClassifierInvariant, PTL

HIDE ClassifierAssumption

=============================================================================
