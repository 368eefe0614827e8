------------------------------ MODULE DmSender ------------------------------
(***************************************************************************)
(* The messages that the service sends to one user (src/nostr/             *)
(* dm-sender.mjs): notices of a decision, outcomes of a report, replies    *)
(* and community warnings.                                                 *)
(*                                                                         *)
(* Each attempt wraps the message anew under a random id, so that no relay *)
(* can tell a repetition from another message. An attempt looks at the     *)
(* rate limit in KV, finds the relays of the user, publishes to all of     *)
(* them, and records what it sent. Attempts overlap at every await.        *)
(***************************************************************************)
EXTENDS Naturals, FiniteSets, Sequences

CONSTANTS
  Dm,             \* messages for the user, each sent by one caller
  Outcome,        \* those that tell of the outcome of a report
  Warning,        \* those of sendModeratorMessage, which says whether a failure is
                  \* certain: their caller then repeats the send
  Unsendable,     \* those without a text, a recipient or a signing key
  Relay,          \* relays
  DivineRelay,    \* relay.divine.video
  DefaultRelays,  \* for a user who names none
  ReadRelays,     \* the relays that the user's relay list names
  OverrideRelays, \* DM_RELAY_URLS, or {}
  MaxRelays,      \* MAX_RELAYS
  RateLimitMax,   \* RATE_LIMIT_MAX
  RateLimitWindow,\* RATE_LIMIT_WINDOW_SEC
  MaxSends,       \* bound on the attempts of a message (model checking)
  MaxDmTime,      \* bound on the clock (model checking)
  MaxDmFaults     \* bound on failures of KV, D1 and the look-up (model checking)

ASSUME DmSenderAssumption ==
  /\ Outcome \subseteq Dm /\ Warning \subseteq Dm \ Outcome /\ Unsendable \subseteq Dm
  /\ DivineRelay \in Relay
  /\ DefaultRelays \cup ReadRelays \cup OverrideRelays \subseteq Relay
  /\ {MaxRelays, RateLimitMax, RateLimitWindow, MaxSends} \subseteq Nat \ {0}
  /\ {MaxDmTime, MaxDmFaults} \subseteq Nat

VARIABLES
  sent,     \* dm-ratelimit:<pubkey>, the times of what was recorded as sent
  relays,   \* relay-list:<pubkey>, or {}
  attempt,  \* each message: its step, its number, the relays it is published to, what
            \* was heard of each (accepted, rejected, no_ack), and the window it read
  holds,    \* external: whether a relay has received, stored or refused each wrap
  dmStore,  \* the messages in the DM store
  told,     \* the reporters have been looked up
  dmTime,   \* seconds
  dmFaults  \* failures so far

dmVars == <<sent, relays, attempt, holds, dmStore, told, dmTime, dmFaults>>

Wraps == Dm \X (1..MaxSends)
Unheard == [r \in Relay |-> "none"]
DmInit ==
  /\ sent = <<>> /\ relays = {} /\ dmStore = {} /\ told = FALSE
  /\ attempt = [m \in Dm |-> [at |-> "idle", number |-> 0, targets |-> {},
                              heard |-> Unheard, window |-> <<>>]]
  /\ holds = [w \in Wraps |-> [r \in Relay |-> "unseen"]]
  /\ dmTime = 0 /\ dmFaults = 0

AtStep(m, at) == attempt[m].at = at
Put(m, a) == attempt' = [attempt EXCEPT ![m] = a]
Step(m, at) == Put(m, [attempt[m] EXCEPT !.at = at])
Ended(m) == attempt[m].at \in {"sent", "failed", "definitive"}
DmFault == dmFaults < MaxDmFaults /\ dmFaults' = dmFaults + 1

\* A failure: only the sender of moderators' messages says whether it is certain.
Failure(m, certain) == IF certain /\ m \in Warning THEN "definitive" ELSE "failed"

-----------------------------------------------------------------------------
(* notifyReporters: nobody is told of QUARANTINE or REVIEW; the reporters  *)
(* are told one after the other, whatever became of the message before.    *)

Notify(action) ==
  /\ ~told /\ action \notin {"QUARANTINE", "REVIEW"} /\ told' = TRUE
  /\ UNCHANGED <<sent, relays, attempt, holds, dmStore, dmTime, dmFaults>>

OneByOne(m) == told /\ \A n \in Outcome \ {m} : AtStep(n, "idle") \/ Ended(n)

\* An attempt begins; what cannot be sent fails before anything is looked at.
BeginSend(m) ==
  /\ AtStep(m, "idle") /\ (m \in Outcome => OneByOne(m))
  /\ attempt[m].number < MaxSends
  /\ Put(m, [at |-> IF m \in Unsendable THEN Failure(m, TRUE) ELSE "limit",
             number |-> attempt[m].number + 1, targets |-> {}, heard |-> Unheard,
             window |-> <<>>])
  /\ UNCHANGED <<sent, relays, holds, dmStore, told, dmTime, dmFaults>>

Within(times) == SelectSeq(times, LAMBDA t : dmTime - t < RateLimitWindow)

\* A rate limit that cannot be read lets the message pass.
CheckRateLimit(m) ==
  /\ AtStep(m, "limit")
  /\ \/ Step(m, IF Len(Within(sent)) >= RateLimitMax THEN Failure(m, TRUE) ELSE "discover")
        /\ UNCHANGED dmFaults
     \/ Step(m, "discover") /\ DmFault
  /\ UNCHANGED <<sent, relays, holds, dmStore, told, dmTime>>

-----------------------------------------------------------------------------
(* discoverUserRelays and publishToRelays.                                 *)

\* relay.divine.video comes first, so that the cap never takes it away.
Capped(set) ==
  {s \in SUBSET set : /\ DivineRelay \in s
                      /\ Cardinality(s) = IF Cardinality(set) < MaxRelays
                                          THEN Cardinality(set) ELSE MaxRelays}
ListFor(found) == {DivineRelay} \cup (IF found = {} THEN DefaultRelays ELSE found)

Known == IF OverrideRelays # {} THEN OverrideRelays ELSE relays

\* The list of the environment, else the cached one, else what the relay knows;
\* a look-up that fails or ends early knows nothing, or less.
Discover(m) ==
  /\ AtStep(m, "discover")
  /\ LET Use(targets) == Put(m, [attempt[m] EXCEPT !.at = "publish", !.targets = targets]) IN
     \/ Known # {} /\ Use(Known) /\ UNCHANGED <<relays, dmFaults>>
     \/ /\ OverrideRelays = {}
        /\ \/ relays = {} /\ UNCHANGED dmFaults
           \/ DmFault
        /\ \E found \in {{}, ReadRelays} : \E list \in Capped(ListFor(found)) :
             Use(list) /\ relays' \in {relays, list}
     \/ Step(m, Failure(m, TRUE)) /\ DmFault /\ UNCHANGED relays
  /\ UNCHANGED <<sent, holds, dmStore, told, dmTime>>

\* The wrap goes to every target that could be reached.
PublishToRelays(m) ==
  /\ AtStep(m, "publish")
  /\ \E reached \in SUBSET attempt[m].targets :
       /\ holds' = [holds EXCEPT ![<<m, attempt[m].number>>] =
                      [r \in Relay |-> IF r \in reached THEN "received" ELSE "unseen"]]
       /\ Put(m, [attempt[m] EXCEPT !.at = "settle",
                    !.heard = [r \in Relay |->
                                 IF r \in attempt[m].targets \ reached THEN "no_ack" ELSE "none"]])
  /\ UNCHANGED <<sent, relays, dmStore, told, dmTime, dmFaults>>

\* A relay stores a wrap or refuses it, even when nobody waits any more.
RelayDecides(w, r) ==
  /\ holds[w][r] = "received"
  /\ \E fate \in {"stored", "refused"} : holds' = [holds EXCEPT ![w][r] = fate]
  /\ UNCHANGED <<sent, relays, attempt, dmStore, told, dmTime, dmFaults>>

\* OK=true, OK=false, or neither within RELAY_TIMEOUT_MS.
HearRelay(m, r) ==
  /\ AtStep(m, "settle") /\ r \in attempt[m].targets /\ attempt[m].heard[r] = "none"
  /\ LET fate == holds[<<m, attempt[m].number>>][r] IN
     \E answer \in {"no_ack"} \cup {"accepted" : f \in {fate} \cap {"stored"}}
                              \cup {"rejected" : f \in {fate} \cap {"refused"}} :
       Put(m, [attempt[m] EXCEPT !.heard[r] = answer])
  /\ UNCHANGED <<sent, relays, holds, dmStore, told, dmTime, dmFaults>>

\* Mutant: one refusal is enough for certainty.
SettleOnRefusal(m) ==
  /\ AtStep(m, "settle")
  /\ LET got == {attempt[m].heard[r] : r \in attempt[m].targets} IN
     /\ "none" \notin got
     /\ Step(m, IF "accepted" \in got THEN "record" ELSE Failure(m, "rejected" \in got))
  /\ UNCHANGED <<sent, relays, holds, dmStore, told, dmTime, dmFaults>>

\* One acceptance is a success; only refusals by every relay are a certain failure.
Settle(m) ==
  /\ AtStep(m, "settle")
  /\ LET got == {attempt[m].heard[r] : r \in attempt[m].targets} IN
     /\ "none" \notin got
     /\ Step(m, IF "accepted" \in got THEN "record" ELSE Failure(m, got = {"rejected"}))
  /\ UNCHANGED <<sent, relays, holds, dmStore, told, dmTime, dmFaults>>

-----------------------------------------------------------------------------
(* What was sent is recorded: in KV by reading and writing the whole list, *)
(* and in the DM store. Failures of either are only logged.                *)

ReadRateLimit(m) ==
  /\ AtStep(m, "record")
  /\ \/ /\ Put(m, [attempt[m] EXCEPT !.at = "put", !.window = Append(Within(sent), dmTime)])
        /\ UNCHANGED dmFaults
     \/ Step(m, "log") /\ DmFault
  /\ UNCHANGED <<sent, relays, holds, dmStore, told, dmTime>>

RecordRateLimit(m) ==
  /\ AtStep(m, "put")
  /\ \/ sent' = attempt[m].window /\ UNCHANGED dmFaults
     \/ UNCHANGED sent /\ DmFault
  /\ Put(m, [attempt[m] EXCEPT !.at = "log", !.window = <<>>])
  /\ UNCHANGED <<relays, holds, dmStore, told, dmTime>>

LogSent(m) ==
  /\ AtStep(m, "log")
  /\ \/ dmStore' = dmStore \cup {m} /\ UNCHANGED dmFaults
     \/ UNCHANGED dmStore /\ DmFault
  /\ Step(m, "sent")
  /\ UNCHANGED <<sent, relays, holds, told, dmTime>>

\* A warning that certainly was not sent is sent again by a later sweep.
SendAgain(m) ==
  /\ m \in Warning /\ AtStep(m, "definitive") /\ attempt[m].number < MaxSends
  /\ Step(m, "idle")
  /\ UNCHANGED <<sent, relays, holds, dmStore, told, dmTime, dmFaults>>

ElapseSecond ==
  /\ dmTime < MaxDmTime /\ dmTime' = dmTime + 1
  /\ UNCHANGED <<sent, relays, attempt, holds, dmStore, told, dmFaults>>

DmNext ==
  \/ \E m \in Dm :
       \/ BeginSend(m) \/ CheckRateLimit(m) \/ Discover(m) \/ PublishToRelays(m)
       \/ \E r \in Relay : HearRelay(m, r)
       \/ Settle(m) \/ ReadRateLimit(m) \/ RecordRateLimit(m) \/ LogSent(m) \/ SendAgain(m)
  \/ \E w \in Wraps, r \in Relay : RelayDecides(w, r)
  \/ \E action \in {"SAFE", "QUARANTINE"} : Notify(action)
  \/ ElapseSecond

DmSpec == DmInit /\ [][DmNext]_dmVars

-----------------------------------------------------------------------------
(* dm-sender.mjs:887: a definitive failure means that nothing went out, so *)
(* that a caller may send again, and a send that may have been delivered   *)
(* "must not be resent". No relay ever stores a second wrap of a message - *)
(* however late it decides, and whichever relays the attempts went to -,   *)
(* nor one of a message that the caller was told was certainly not sent.   *)
NoSecondCopy ==
  \A m \in Dm :
    /\ \A j, k \in 1..MaxSends : \A r, q \in Relay :
         holds[<<m, j>>][r] = "stored" /\ holds[<<m, k>>][q] = "stored" => j = k
    /\ AtStep(m, "definitive") =>
         \A k \in 1..MaxSends : \A r \in Relay : holds[<<m, k>>][r] \notin {"received", "stored"}
=============================================================================
