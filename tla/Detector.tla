------------------------------ MODULE Detector ------------------------------
(***************************************************************************)
(* Calls of the AI detector (moderation/ai-detector-client.mjs) and the    *)
(* circuit breaker that one isolate keeps for all of them                  *)
(* (moderation/ai-detector-circuit-breaker.mjs).                           *)
(*                                                                         *)
(* A call has a deadline for its attempts, but none for the body of an     *)
(* answer, and it may end at any await: the breaker then never hears of it.*)
(* Time passes in units coarser than the 50 ms below which no attempt      *)
(* begins.                                                                 *)
(***************************************************************************)
EXTENDS Naturals

CONSTANTS
  Detection,        \* invocations of detectSignals that can run at the same time
  FailureThreshold, \* consecutive failures that open the circuit
  Cooldown,         \* cooldownMs
  Timeout,          \* timeoutMs, the deadline of a call
  MaxAttempts,      \* attempts of a call
  MaxDetectorTime   \* bound of the clock (model checking)

\* The defaults: 5 failures, 10 s, 5 s, 100 and 300 ms, 3 attempts.
ASSUME DetectorAssumption ==
  /\ FailureThreshold \in Nat \ {0} /\ Cooldown \in Nat /\ Timeout \in Nat \ {0}
  /\ Timeout < Cooldown /\ MaxAttempts \in Nat \ {0}
  /\ MaxDetectorTime \in Nat

VARIABLES
  ticks,    \* the clock
  circuit,  \* the breaker: its state, consecutiveFailures, openedAt, probeInFlight
  call      \* the state of each call

detectorVars == <<ticks, circuit, call>>

CircuitStates == {"closed", "open", "half_open"}
Circuit == [state : CircuitStates, failures : Nat, openedAt : Nat, probeInFlight : BOOLEAN]
CallPcs == {"idle", "send", "sleep", "body"}
CallState == [pc : CallPcs, probe : BOOLEAN, started : Nat, attempt : Nat, until : Nat]
IdleCall == [pc |-> "idle", probe |-> FALSE, started |-> 0, attempt |-> 0, until |-> 0]

DetectorTypeOK == ticks \in Nat /\ circuit \in Circuit /\ call \in [Detection -> CallState]

DetectorInit ==
  /\ ticks = 0
  /\ circuit = [state |-> "closed", failures |-> 0, openedAt |-> 0, probeInFlight |-> FALSE]
  /\ call = [c \in Detection |-> IdleCall]

\* The time a call may spend is limited while it sends or sleeps.
Timed(c) == call[c].pc \in {"send", "sleep"}
Deadline(c) == call[c].started + Timeout

\* The timers of a call fire before time goes on.
PassTime ==
  /\ ticks < MaxDetectorTime /\ ticks' = ticks + 1
  /\ \A c \in Detection : Timed(c) => ticks < Deadline(c)
  /\ \A c \in Detection : call[c].pc = "sleep" => ticks < call[c].until
  /\ UNCHANGED <<circuit, call>>

-----------------------------------------------------------------------------
(* The breaker *)

\* shouldAllow: closed, or the one probe of a circuit that has cooled down.
Probing == circuit.state = "open" /\ ticks >= circuit.openedAt + Cooldown
Allowed == circuit.state = "closed" \/ Probing \/ (circuit.state = "half_open" /\ ~circuit.probeInFlight)

recordSuccess == circuit' = [circuit EXCEPT !.state = "closed", !.failures = 0, !.probeInFlight = FALSE]

\* Mutant: the cooldown is counted from the first time the circuit opened.
ReopenedAsBefore == [circuit EXCEPT !.state = "open", !.probeInFlight = FALSE]

\* The cooldown is counted from the last time the circuit opened.
Reopened == [circuit EXCEPT !.state = "open", !.openedAt = ticks, !.probeInFlight = FALSE]

\* A failure that is not the probe's, but comes while one is in flight, opens
\* the circuit again as well.
recordFailure ==
  circuit' = IF circuit.state = "half_open" THEN Reopened
             ELSE IF circuit.state = "closed" /\ circuit.failures + 1 >= FailureThreshold
             THEN [Reopened EXCEPT !.failures = @ + 1]
             ELSE [circuit EXCEPT !.failures = @ + 1, !.probeInFlight = FALSE]

-----------------------------------------------------------------------------
(* detectSignals *)

Ends(c) == call' = [call EXCEPT ![c] = IdleCall]

\* A call that is not allowed is answered at once.
Admit(c) ==
  /\ call[c].pc = "idle" /\ Allowed
  /\ circuit' = IF circuit.state = "closed" THEN circuit
                ELSE [circuit EXCEPT !.state = "half_open", !.probeInFlight = TRUE]
  /\ call' = [call EXCEPT ![c] = [pc |-> "send", probe |-> circuit.state # "closed",
                                  started |-> ticks, attempt |-> 1, until |-> 0]]
  /\ UNCHANGED ticks

\* The headers of a 2xx: the timer is cleared before the body is read.
Answer(c) ==
  /\ call[c].pc = "send" /\ call' = [call EXCEPT ![c].pc = "body"]
  /\ UNCHANGED <<ticks, circuit>>

\* The body is a document, whatever signals are in it; or it is not JSON.
ReadBody(c) ==
  /\ call[c].pc = "body" /\ Ends(c)
  /\ recordSuccess \/ recordFailure
  /\ UNCHANGED ticks

\* A network error, an abort, a 5xx or 429: tried again while attempts and time
\* are left, after the backoff or what a 429 asks for.
Again(c) ==
  /\ call[c].pc = "send" /\ call[c].attempt < MaxAttempts
  /\ \E wait \in 0..Timeout :
       /\ ticks + wait < Deadline(c)
       /\ call' = [call EXCEPT ![c].pc = "sleep", ![c].until = ticks + wait]
  /\ UNCHANGED <<ticks, circuit>>

Wake(c) ==
  /\ call[c].pc = "sleep" /\ ticks >= call[c].until
  /\ call' = [call EXCEPT ![c].pc = "send", ![c].attempt = @ + 1]
  /\ UNCHANGED <<ticks, circuit>>

\* Out of attempts or time, a 4xx, or a 429 that asks for too long a wait.
CallFails(c) ==
  /\ call[c].pc = "send" /\ Ends(c)
  /\ recordFailure
  /\ UNCHANGED ticks

\* The invocation ends; the isolate, and with it the breaker, lives on.
LoseCall(c) ==
  /\ call[c].pc # "idle" /\ Ends(c)
  /\ UNCHANGED <<ticks, circuit>>

DetectorNext ==
  \/ PassTime
  \/ \E c \in Detection :
       \/ Admit(c) \/ Answer(c) \/ ReadBody(c) \/ Again(c) \/ Wake(c)
       \/ CallFails(c) \/ LoseCall(c)

DetectorSpec == DetectorInit /\ [][DetectorNext]_detectorVars

-----------------------------------------------------------------------------
(* Properties *)

Probes == {c \in Detection : call[c].probe /\ Timed(c)}

\* The detector that may be unwell is never sent two probes at a time, even
\* when calls of before the circuit opened come back while it is open or half
\* open, close it or open it again, and failures then pile up anew: only a
\* probe whose answer's body keeps it waiting past its deadline, for which
\* there is no timer, may meet another (ai-detector-circuit-breaker.mjs 22-28,
\* 60-104, ai-detector-client.mjs 204-225).
OneProbeAtATime == \A c, d \in Probes : c = d
=============================================================================
