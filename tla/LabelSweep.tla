----------------------------- MODULE LabelSweep -----------------------------
(***************************************************************************)
(* The community content-warning sweep (src/community-labels/): a cron job *)
(* that polls the relay for votes since a watermark, recounts every video  *)
(* that has a new vote, publishes one authoritative label per video and    *)
(* label that reached the threshold, records a strike against the creator, *)
(* and warns the creator once per escalation level.                        *)
(*                                                                         *)
(* Sweeps may overlap.  Every await whose answer depends on shared state,  *)
(* or after which a crash matters, ends a step.  A call that takes effect  *)
(* and then throws is the step followed by Throws.                         *)
(***************************************************************************)
EXTENDS Integers, FiniteSets, SequencesExt

CONSTANTS
  Sweep,         \* sweeps that can run at the same time
  Vote,          \* kind 1985 events, each one label for one video, of others
                 \* than the moderation account
  Video, Label,
  Author,        \* [Vote -> pubkey]
  VideoOf,       \* [Vote -> video of its e tag]
  LabelOf,       \* [Vote -> normalized label; Nothing: none known, or not ours]
  Divine,        \* pubkeys with a Divine identity
  Creator,       \* [Video -> pubkey]
  SelfLabels,    \* [Video -> labels its creator applied]
  Threshold,     \* community_label_threshold
  WarningCount,  \* strike_warning_count
  BatchLimit,    \* community_sweep_batch_limit
  Nothing,       \* no value
  MaxTime        \* bound of the clock, in seconds (model checking only)

ASSUME SweepAssumption ==
  /\ VideoOf \in [Vote -> Video] /\ LabelOf \in [Vote -> Label \cup {Nothing}]
  /\ DOMAIN Author = Vote /\ DOMAIN Creator = Video
  /\ SelfLabels \in [Video -> SUBSET Label]
  /\ Threshold \in Nat \ {0} /\ WarningCount \in Nat \ {0} /\ BatchLimit \in Nat \ {0}
  /\ MaxTime \in Nat

ASSUME FinitenessAssumption ==
  IsFiniteSet(Vote) /\ IsFiniteSet(Video) /\ IsFiniteSet(Label)

Creators == {Creator[v] : v \in Video}
Key == Video \X Label
Level == 1..(Cardinality(Key) \div WarningCount)

VARIABLES
  now,        \* the clock
  at,         \* created_at of each vote, 0 before it is signed
  arrived,    \* external: the votes the relay stores
  gone,       \* external: the videos the relay no longer stores
  late,       \* history: votes that arrived behind a watermark (see Arrive)
  cursor,     \* KV community_labels_cursor
  decision,   \* community_label_decisions: status and prepared_event
  labels,     \* external: the authoritative labels on the relay
  strikes,    \* community_strikes
  warning,    \* community_strike_warnings: status
  delivered,  \* external: warning DMs a creator received, by level
  job         \* the state of each sweep

vars == <<now, at, arrived, gone, late, cursor, decision, labels, strikes,
          warning, delivered, job>>
relay == <<at, arrived, gone, late>>
db == <<decision, strikes, warning>>
sent == <<labels, delivered>>

\* The signed label event a sweep builds: its created_at and its vote count
\* tell one build from another.
Event == [at : Nat, votes : Nat]
Decision == [status : {"pending", "confirmed"}, event : Event]

ASSUME NothingAssumption == Nothing \notin Decision

\* A label that reached the threshold, with its count.
Crossing == Label \X Nat

OnCrossing == {"claim", "publish", "confirm", "strike"}
OnWarning == {"warn", "send", "settle"}
OnVideo == {"fetch", "label"} \cup OnCrossing \cup OnWarning
Polled == OnVideo \cup {"finish"}

Job == [pc : {"idle", "cursor", "poll"} \cup Polled, started : Nat, since : Nat,
        full : BOOLEAN, page : SUBSET Vote, todo : Seq(Video), held : SUBSET Nat,
        clean : BOOLEAN, crossings : SUBSET Crossing, crossing : Crossing \cup {Nothing},
        event : Event \cup {Nothing}, level : Level \cup {0},
        dm : {"sent", "definitive", "ambiguous", Nothing}]

Idle == [pc |-> "idle", started |-> 0, since |-> 0, full |-> FALSE, page |-> {},
         todo |-> <<>>, held |-> {}, clean |-> TRUE, crossings |-> {},
         crossing |-> Nothing, event |-> Nothing, level |-> 0, dm |-> Nothing]

TypeOK ==
  /\ now \in 1..(MaxTime + 1)
  /\ at \in [Vote -> 0..now]
  /\ arrived \subseteq {x \in Vote : at[x] > 0} /\ late \subseteq arrived
  /\ gone \subseteq Video
  /\ cursor \in 1..now
  /\ decision \in [Key -> Decision \cup {Nothing}]
  /\ labels \subseteq Key \X Event
  /\ strikes \subseteq Key
  /\ warning \in [Creators \X Level -> {"none", "pending", "sent"}]
  /\ delivered \in [Creators \X Level -> Nat]
  /\ job \in [Sweep -> Job]
  /\ \A s \in Sweep :
       /\ job[s].started <= now /\ job[s].since <= now /\ job[s].page \subseteq arrived
       /\ job[s].pc \in OnVideo => job[s].todo # <<>>
       /\ job[s].pc \in OnCrossing => job[s].crossing \in Crossing
       /\ job[s].pc \in {"publish", "confirm"} => job[s].event \in Event
       /\ job[s].pc \in OnWarning => job[s].level \in Level

Init ==
  /\ now = 1
  /\ at = [x \in Vote |-> 0]
  /\ arrived = {} /\ gone = {} /\ late = {}
  /\ cursor = 1
  /\ decision = [k \in Key |-> Nothing]
  /\ labels = {} /\ strikes = {}
  /\ warning = [w \in Creators \X Level |-> "none"]
  /\ delivered = [w \in Creators \X Level |-> 0]
  /\ job = [s \in Sweep |-> Idle]

-----------------------------------------------------------------------------
(* The viewers, the relay and the clock.                                   *)

Sign(x) ==
  /\ at[x] = 0
  /\ at' = [at EXCEPT ![x] = now]
  /\ UNCHANGED <<now, arrived, gone, late, cursor, db, sent, job>>

\* A vote is late when a watermark, set or about to be set, has passed its
\* created_at before the relay has it.
Arrive(x) ==
  /\ at[x] > 0 /\ x \notin arrived
  /\ arrived' = arrived \cup {x}
  /\ late' =
       IF \/ cursor > at[x]
          \/ \E s \in Sweep : \/ job[s].since > at[x]
                              \/ job[s].pc \in Polled /\ job[s].started > at[x]
       THEN late \cup {x} ELSE late
  /\ UNCHANGED <<now, at, gone, cursor, db, sent, job>>

DeleteVideo(v) ==
  /\ v \notin gone
  /\ gone' = gone \cup {v}
  /\ UNCHANGED <<now, at, arrived, late, cursor, db, sent, job>>

Tick ==
  /\ now <= MaxTime
  /\ now' = now + 1
  /\ UNCHANGED <<relay, cursor, db, sent, job>>

-----------------------------------------------------------------------------
(* Polling (sweep.mjs, config.mjs).                                        *)

Current(s) == Head(job[s].todo)
KeyOf(s) == <<Current(s), job[s].crossing[1]>>

Begin(s) ==
  /\ job[s].pc = "idle"
  /\ job' = [job EXCEPT ![s] = [Idle EXCEPT !.pc = "cursor", !.started = now]]
  /\ UNCHANGED <<now, relay, cursor, db, sent>>

ReadCursor(s) ==
  /\ job[s].pc = "cursor"
  /\ job' = [job EXCEPT ![s].pc = "poll", ![s].since = cursor]
  /\ UNCHANGED <<now, relay, cursor, db, sent>>

VotesFrom(since) == {x \in arrived : at[x] >= since}

\* What the relay may answer: it truncates a full page, newest votes first.
\* Events of other namespaces fill a page as well.
Pages(since) ==
  {page \in SUBSET VotesFrom(since) :
     \A x \in page, y \in VotesFrom(since) \ page : at[x] >= at[y]}

EarliestIn(page, v) == Min({at[x] : x \in {y \in page : VideoOf[y] = v}})

\* The touched videos, by their earliest vote of the page.
Targets(page) ==
  LET touched == {VideoOf[x] : x \in page}
  IN  {q \in SetToSeqs(touched) :
         \A i, j \in DOMAIN q : i < j => EarliestIn(page, q[i]) <= EarliestIn(page, q[j])}

\* Faulty variant: the videos beyond the batch are forgotten.
PollForgetful(s) ==
  /\ job[s].pc = "poll"
  /\ \E page \in Pages(job[s].since), full \in BOOLEAN :
       /\ page # VotesFrom(job[s].since) => full
       /\ \E q \in Targets(page) :
            LET batch == SubSeq(q, 1, Min({BatchLimit, Len(q)}))
            IN  job' = [job EXCEPT ![s].pc = IF batch = <<>> THEN "finish" ELSE "fetch",
                                   ![s].page = page, ![s].full = full, ![s].todo = batch]
  /\ UNCHANGED <<now, relay, cursor, db, sent>>

Poll(s) ==
  /\ job[s].pc = "poll"
  /\ \E page \in Pages(job[s].since), full \in BOOLEAN :
       /\ page # VotesFrom(job[s].since) => full
       /\ \E q \in Targets(page) :
            LET batch == SubSeq(q, 1, Min({BatchLimit, Len(q)}))
                deferred == SubSeq(q, BatchLimit + 1, Len(q))
            IN  job' = [job EXCEPT ![s].pc = IF batch = <<>> THEN "finish" ELSE "fetch",
                                   ![s].page = page, ![s].full = full, ![s].todo = batch,
                                   ![s].held = {EarliestIn(page, v) : v \in Range(deferred)}]
  /\ UNCHANGED <<now, relay, cursor, db, sent>>

\* The sweep is done with a video: one that failed holds the watermark.
AfterVideo(r, clean) ==
  [r EXCEPT !.pc = IF Tail(r.todo) = <<>> THEN "finish" ELSE "fetch",
            !.todo = Tail(@),
            !.held = IF clean THEN @ ELSE @ \cup {EarliestIn(r.page, Head(r.todo))},
            !.clean = TRUE, !.crossings = {}, !.crossing = Nothing, !.event = Nothing,
            !.level = 0, !.dm = Nothing]

-----------------------------------------------------------------------------
(* Counting (decision.mjs).                                                *)

\* Distinct Divine authors, the creator excluded.
Tally(votes, v, l) ==
  Cardinality({Author[x] : x \in {y \in votes : VideoOf[y] = v /\ LabelOf[y] = l}}
                \cap (Divine \ {Creator[v]}))

Crossings(v) ==
  {<<l, Tally(arrived, v, l)>> : l \in {m \in Label : Tally(arrived, v, m) >= Threshold}}

\* fetchVideoEvent, fetchLabelsForVideo and the identity lookups.  A video
\* that the relay answers not to store is swept as clean; any other trouble,
\* a full page of votes included, throws (Throws).
Fetch(s) ==
  /\ job[s].pc = "fetch"
  /\ job' = [job EXCEPT ![s] =
       IF Current(s) \in gone THEN AfterVideo(@, TRUE)
       ELSE [@ EXCEPT !.pc = "label", !.crossings = Crossings(Current(s))]]
  /\ UNCHANGED <<now, relay, cursor, db, sent>>

-----------------------------------------------------------------------------
(* Acting on the crossings of a video (sweep.mjs, d1.mjs).                 *)

Confirmed(k) == decision[k] # Nothing /\ decision[k].status = "confirmed"

\* Faulty variant: a pending claim passes for a decision.
CheckClaimed(s) ==
  /\ job[s].pc = "label"
  /\ \E c \in job[s].crossings :
       job' = [job EXCEPT ![s].crossings = @ \ {c}, ![s].crossing = c,
                          ![s].pc = IF decision[<<Current(s), c[1]>>] # Nothing
                                    THEN "strike" ELSE "claim"]
  /\ UNCHANGED <<now, relay, cursor, db, sent>>

\* hasDecision for the next crossing.
Check(s) ==
  /\ job[s].pc = "label"
  /\ \E c \in job[s].crossings :
       job' = [job EXCEPT ![s].crossings = @ \ {c}, ![s].crossing = c,
                          ![s].pc = IF Confirmed(<<Current(s), c[1]>>)
                                    THEN "strike" ELSE "claim"]
  /\ UNCHANGED <<now, relay, cursor, db, sent>>

\* Faulty variant: a retry publishes what it has just built.
ClaimFresh(s) ==
  LET k == KeyOf(s)
      fresh == [at |-> job[s].started, votes |-> job[s].crossing[2]]
  IN  /\ job[s].pc = "claim"
      /\ decision' = [decision EXCEPT ![k] =
           IF @ = Nothing THEN [status |-> "pending", event |-> fresh] ELSE @]
      /\ job' = [job EXCEPT ![s].pc = "publish", ![s].event = fresh]
      /\ UNCHANGED <<now, relay, cursor, strikes, warning, sent>>

\* buildLabelEvent and claimDecision.  A row is never deleted and its event
\* never replaced, so INSERT ... DO NOTHING and the SELECT are one step.
Claim(s) ==
  LET k == KeyOf(s)
      fresh == [at |-> job[s].started, votes |-> job[s].crossing[2]]
  IN  /\ job[s].pc = "claim"
      /\ decision' = [decision EXCEPT ![k] =
           IF @ = Nothing THEN [status |-> "pending", event |-> fresh] ELSE @]
      /\ job' = [job EXCEPT ![s].pc = "publish", ![s].event = decision'[k].event]
      /\ UNCHANGED <<now, relay, cursor, strikes, warning, sent>>

\* buildLabelEvent returns null: no claim, and the watermark is held.
BuildFails(s) ==
  /\ job[s].pc = "claim"
  /\ job' = [job EXCEPT ![s].pc = "label", ![s].clean = FALSE]
  /\ UNCHANGED <<now, relay, cursor, db, sent>>

\* publishLabel: a failure says nothing of whether the relay has the event.
Publish(s) ==
  LET landed == labels \cup {<<KeyOf(s), job[s].event>>}
  IN  /\ job[s].pc = "publish"
      /\ \/ labels' = landed /\ job' = [job EXCEPT ![s].pc = "confirm"]
         \/ /\ labels' \in {labels, landed}
            /\ job' = [job EXCEPT ![s].pc = "label", ![s].clean = FALSE]
      /\ UNCHANGED <<now, relay, cursor, db, delivered>>

Confirm(s) ==
  /\ job[s].pc = "confirm"
  /\ decision' = [decision EXCEPT ![KeyOf(s)].status = "confirmed"]
  /\ job' = [job EXCEPT ![s].pc = "strike"]
  /\ UNCHANGED <<now, relay, cursor, strikes, warning, sent>>

\* Faulty variant: a label the creator applied counts as a strike.
StrikeAlways(s) ==
  /\ job[s].pc = "strike"
  /\ strikes' = strikes \cup {KeyOf(s)}
  /\ job' = [job EXCEPT ![s].pc = "label"]
  /\ UNCHANGED <<now, relay, cursor, decision, warning, sent>>

\* recordStrike, for a label the creator did not apply.
Strike(s) ==
  /\ job[s].pc = "strike"
  /\ strikes' = IF job[s].crossing[1] \in SelfLabels[Current(s)]
                THEN strikes ELSE strikes \cup {KeyOf(s)}
  /\ job' = [job EXCEPT ![s].pc = "label"]
  /\ UNCHANGED <<now, relay, cursor, decision, warning, sent>>

\* recordStrike throws, with or without effect: its own catch holds the
\* watermark and the loop over crossings goes on.
StrikeThrows(s) ==
  /\ job[s].pc = "strike"
  /\ job[s].crossing[1] \notin SelfLabels[Current(s)]
  /\ strikes' \in {strikes, strikes \cup {KeyOf(s)}}
  /\ job' = [job EXCEPT ![s].pc = "label", ![s].clean = FALSE]
  /\ UNCHANGED <<now, relay, cursor, decision, warning, sent>>

-----------------------------------------------------------------------------
(* Warning the creator.                                                    *)

StrikesAgainst(p) == Cardinality({k \in strikes : Creator[k[1]] = p})

\* Faulty variant: the strike to come is counted as well.
CountAhead(s) ==
  LET level == (StrikesAgainst(Creator[Current(s)]) + 1) \div WarningCount
  IN  /\ job[s].pc = "label" /\ job[s].crossings = {}
      /\ job' = [job EXCEPT ![s] =
           IF level \in Level THEN [@ EXCEPT !.pc = "warn", !.level = level]
           ELSE AfterVideo(@, @.clean)]
      /\ UNCHANGED <<now, relay, cursor, db, sent>>

\* strikeCount, after the last crossing.
Count(s) ==
  LET level == StrikesAgainst(Creator[Current(s)]) \div WarningCount
  IN  /\ job[s].pc = "label" /\ job[s].crossings = {}
      /\ job' = [job EXCEPT ![s] =
           IF level >= 1 THEN [@ EXCEPT !.pc = "warn", !.level = level]
           ELSE AfterVideo(@, @.clean)]
      /\ UNCHANGED <<now, relay, cursor, db, sent>>

WarningOf(s) == <<Creator[Current(s)], job[s].level>>

ClaimWarning(s) ==
  /\ job[s].pc = "warn"
  /\ IF warning[WarningOf(s)] = "none"
     THEN /\ warning' = [warning EXCEPT ![WarningOf(s)] = "pending"]
          /\ job' = [job EXCEPT ![s].pc = "send"]
     ELSE /\ job' = [job EXCEPT ![s] = AfterVideo(@, @.clean)]
          /\ UNCHANGED warning
  /\ UNCHANGED <<now, relay, cursor, decision, strikes, sent>>

\* sendWarningDm: a definitive failure comes before any relay could accept
\* the message; any other failure says nothing.
Send(s) ==
  LET received == [delivered EXCEPT ![WarningOf(s)] = @ + 1]
  IN  /\ job[s].pc = "send"
      /\ \E dm \in {"sent", "definitive", "ambiguous"} :
           /\ dm = "sent" => delivered' = received
           /\ dm = "definitive" => UNCHANGED delivered
           /\ dm = "ambiguous" => delivered' \in {delivered, received}
           /\ job' = [job EXCEPT ![s].pc = "settle", ![s].dm = dm]
      /\ UNCHANGED <<now, relay, cursor, db, labels>>

\* Faulty variant: an ambiguous failure releases the claim too.
SettleReleasing(s) ==
  /\ job[s].pc = "settle"
  /\ warning' = [warning EXCEPT ![WarningOf(s)] =
       IF job[s].dm = "sent" THEN "sent" ELSE "none"]
  /\ job' = [job EXCEPT ![s] = AfterVideo(@, @.clean)]
  /\ UNCHANGED <<now, relay, cursor, decision, strikes, sent>>

\* confirmWarning, releaseWarning, or nothing; the call may take effect and
\* throw.
Settle(s) ==
  /\ job[s].pc = "settle"
  /\ warning' = [warning EXCEPT ![WarningOf(s)] =
       IF @ = "pending" /\ job[s].dm = "sent" THEN "sent"
       ELSE IF @ = "pending" /\ job[s].dm = "definitive" THEN "none"
       ELSE @]
  /\ \E clean \in {job[s].clean, FALSE} : job' = [job EXCEPT ![s] = AfterVideo(@, clean)]
  /\ UNCHANGED <<now, relay, cursor, decision, strikes, sent>>

\* Any call about the current video throws: the loop's catch.
Throws(s) ==
  /\ job[s].pc \in OnVideo
  /\ job' = [job EXCEPT ![s] = AfterVideo(@, FALSE)]
  /\ UNCHANGED <<now, relay, cursor, db, sent>>

-----------------------------------------------------------------------------
(* The watermark.                                                          *)

Finish(s) ==
  LET ceiling == IF job[s].full THEN job[s].since ELSE job[s].started
      watermark == IF job[s].held = {} THEN ceiling
                   ELSE Min({Min(job[s].held) - 1, ceiling})
  IN  /\ job[s].pc = "finish"
      /\ cursor' = Max({watermark, job[s].since})
      /\ job' = [job EXCEPT ![s] = Idle]
      /\ UNCHANGED <<now, relay, db, sent>>

\* The platform ends the sweep, or a call outside the loop over videos throws.
Crash(s) ==
  /\ job[s].pc # "idle"
  /\ job' = [job EXCEPT ![s] = Idle]
  /\ UNCHANGED <<now, relay, cursor, db, sent>>

Works(s) ==
  \/ Begin(s) \/ ReadCursor(s) \/ Check(s) \/ Claim(s) \/ Confirm(s)
  \/ Strike(s) \/ Count(s) \/ ClaimWarning(s) \/ Send(s) \/ Settle(s) \/ Finish(s)

Next ==
  \/ \E x \in Vote : Sign(x) \/ Arrive(x)
  \/ \E v \in Video : DeleteVideo(v)
  \/ Tick
  \/ \E s \in Sweep :
       \/ Works(s) \/ Poll(s) \/ Fetch(s) \/ Publish(s)
       \/ BuildFails(s) \/ StrikeThrows(s) \/ Throws(s) \/ Crash(s)

Spec == Init /\ [][Next]_vars

-----------------------------------------------------------------------------
(* Properties.                                                             *)

\* The consensus that the votes of a set form about a video.
Reached(votes, k) == Tally(votes, k[1], k[2]) >= Threshold

Behind == {x \in arrived : at[x] < cursor}

\* What a sweep owes for a video and label that reached the threshold.
Handled(k) ==
  /\ Confirmed(k)
  /\ k[2] \notin SelfLabels[k[1]] => k \in strikes

\* No vote is left behind the watermark unprocessed: if the votes that have
\* been passed over form a consensus, its label is published and its strike
\* recorded, whatever failed, crashed or was deferred on the way.  Excepted
\* are votes that reached the relay after the watermark.
NoVoteLeftBehind ==
  \A k \in Key : Reached(Behind \ late, k) /\ k[1] \notin gone => Handled(k)

\* The same without the exception, as the comment on the sweep has it.
NoVoteEverLeftBehind ==
  \A k \in Key : Reached(Behind, k) /\ k[1] \notin gone => Handled(k)

\* At most one authoritative label is ever published for a video and label,
\* although publishing is retried and sweeps overlap.
LabelledOnce == \A p, q \in labels : p[1] = q[1] => p = q

\* A strike stands only against a video whose label is confirmed and on the
\* relay, and never for a label its creator applied.
StrikesAccountedFor ==
  \A k \in strikes :
    /\ Confirmed(k) /\ <<k, decision[k].event>> \in labels
    /\ k[2] \notin SelfLabels[k[1]]

\* A creator gets at most one warning DM for an escalation level, whatever
\* sweeps overlap or crash and however the sends fail.
WarnedOnce == \A w \in Creators \X Level : delivered[w] <= 1

\* A creator is warned at a level only with the strikes for it.
WarningsEarned ==
  \A w \in Creators \X Level :
    warning[w] # "none" \/ delivered[w] > 0 => StrikesAgainst(w[1]) >= w[2] * WarningCount
=============================================================================
