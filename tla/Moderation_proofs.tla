------------------------- MODULE Moderation_proofs -------------------------
(***************************************************************************)
(* Theorems about Moderation, for every set of invocations, every choice   *)
(* of decisions and enforcements, and every bound.                         *)
(***************************************************************************)
EXTENDS Moderation, TLAPS

USE DecisionAssumption, RowAssumption

-----------------------------------------------------------------------------
(* Types of the parts that the steps put together.                         *)

Actions == MODERATION_ACTIONS \cup {Nothing}
Labels == Steps \cup {"done", "idle"}

LEMMA EnforcesType == \A a \in Actions : Enforces(a) \subseteq BlobStates
  BY DEF Actions, Enforces, BLOSSOM_ACTION_MAP, BlobStates, MODERATION_ACTIONS

LEMMA NewJobType ==
  ASSUME NEW op \in Ops, NEW at \in Labels, NEW act \in Actions
  PROVE  NewJob(op, at, act) \in Job
  BY DEF NewJob, Job, Labels, Actions

LEMMA IdleType == Idle \in Job
  BY NewJobType DEF Idle, Ops, Labels, Actions

LEMMA AloneType ==
  ASSUME NEW k \in Job, NEW b \in BOOLEAN
  PROVE  [k EXCEPT !.alone = b] \in Job
  BY DEF Job

LEMMA AtType ==
  ASSUME NEW k \in Job, NEW at \in Labels
  PROVE  [k EXCEPT !.at = at] \in Job
  BY DEF Job, Labels

LEMMA ResolvingType ==
  ASSUME NEW k \in Job, NEW m \in BOOLEAN
  PROVE  [k EXCEPT !.mirrored = m, !.at = "resolve"] \in Job
  BY DEF Job, Steps

\* What Become does to the invocations, without its formula.
Becomes(w, j) ==
  /\ job' \in [Worker -> Job]
  /\ job'[w] \in {j, Idle}
  /\ \A v \in Worker \ {w} : job'[v] \in {[job[v] EXCEPT !.alone = FALSE], Idle}

LEMMA BecomeRule ==
  ASSUME job \in [Worker -> Job], NEW w \in Worker, NEW j \in Job, Become(w, j)
  PROVE  Becomes(w, j)
<1>1. \A k \in Job : Rest(k) \in {k, Idle}
  BY DEF Rest
<1>2. \A v \in Worker : [job[v] EXCEPT !.alone = FALSE] \in Job
  BY AloneType
<1> QED
  BY <1>1, <1>2, IdleType DEF Become, Becomes

LEMMA GotoRule ==
  ASSUME job \in [Worker -> Job], NEW w \in Worker, NEW at \in Labels, Goto(w, at)
  PROVE  LET j == [job[w] EXCEPT !.at = at] IN j \in Job /\ Becomes(w, j)
<1>1. [job[w] EXCEPT !.at = at] \in Job
  BY AtType
<1> QED
  BY <1>1, BecomeRule DEF Goto

LEMMA StartRule ==
  ASSUME job \in [Worker -> Job], NEW w \in Worker, NEW j \in Job, Start(w, j)
  PROVE  LET k == [j EXCEPT !.alone = Alone(w)]
         IN  /\ k \in Job /\ Becomes(w, k)
             /\ requests' = requests + 1 /\ requests < MaxRequests /\ faults' = faults
             /\ ~Busy(w)
<1>1. [j EXCEPT !.alone = Alone(w)] \in Job
  <2>1. Alone(w) \in BOOLEAN
    BY DEF Alone
  <2> QED
    BY <2>1, AloneType
<1> QED
  BY <1>1, BecomeRule DEF Start, Request

-----------------------------------------------------------------------------
(* Well-formed states. The stores are typed, and what they or the blob     *)
(* hold has been recorded; so has what an invocation is about to enforce.  *)

StoresOK ==
  /\ row \in Row \cup {Nothing} /\ mirror \in Actions
  /\ keys \subseteq KeyActions
  /\ notified \subseteq MODERATION_ACTIONS \X MODERATION_ACTIONS
  /\ queue \subseteq Message
  /\ blossom \in BlobStates /\ relay \in {"served", "hidden", "deleted"}
  /\ requests \in 0..MaxRequests /\ faults \in 0..MaxFaults
  /\ recorded \subseteq BlobStates /\ "active" \in recorded
  /\ rested \in Rested \cup {Nothing}
  /\ row # Nothing => Enforces(row.action) \subseteq recorded
  /\ EnforcedMeansRecorded

Deciding == {"mirror", "upsert", "clear", "set", "flag", "blossom", "event", "relay",
             "unflag", "peek", "restore", "unset", "replay", "remirror", "check", "mark", "ban"}
Enforcing == {"clear", "set", "blossom", "event", "relay", "unset", "replay",
              "remirror", "check", "ban"}

JobOK(j, rec) ==
  /\ j.at \in Deciding => j.act \in MODERATION_ACTIONS
  /\ j.at = "set" => j.act \in KeyActions
  /\ j.op = "reprocess" => j.saw \in MODERATION_ACTIONS
  /\ j.op = "escalate" /\ j.at # "idle" => j.act = "PERMANENT_BAN"
  /\ j.at \in {"peek", "restore", "unset"} /\ j.op # "escalate" => j.act = "SAFE"
  /\ j.at \in Enforcing => Enforces(j.act) \subseteq rec

WellFormed ==
  /\ job \in [Worker -> Job] /\ StoresOK
  /\ \A w \in Worker : JobOK(job[w], recorded)

LEMMA WellFormedType == WellFormed => TypeOK
  BY DEF WellFormed, StoresOK, TypeOK, Actions

LEMMA Moved ==
  ASSUME WellFormed, NEW w \in Worker, NEW j \in Job, Becomes(w, j), JobOK(j, recorded'),
         StoresOK', recorded \subseteq recorded'
  PROVE  WellFormed'
<1>1. JobOK(Idle, recorded')
  BY DEF JobOK, Idle, NewJob, Deciding, Enforcing
<1>2. ASSUME NEW v \in Worker \ {w}  PROVE JobOK(job'[v], recorded')
  <2>1. CASE job'[v] = Idle
    BY <2>1, <1>1
  <2>2. CASE job'[v] = [job[v] EXCEPT !.alone = FALSE]
    <3>1. job[v] \in Job /\ JobOK(job[v], recorded)
      BY DEF WellFormed
    <3>2. /\ job'[v].at = job[v].at /\ job'[v].act = job[v].act
          /\ job'[v].op = job[v].op /\ job'[v].saw = job[v].saw
      BY <2>2, <3>1 DEF Job
    <3> QED
      BY <3>1, <3>2 DEF JobOK
  <2> QED
    BY <2>1, <2>2 DEF Becomes
<1>3. \A v \in Worker : JobOK(job'[v], recorded')
  BY <1>1, <1>2 DEF Becomes
<1> QED
  BY <1>3 DEF WellFormed, Becomes


LEMMA MessageType ==
  ASSUME NEW forced \in BOOLEAN, NEW attempt \in 1..MaxAttempts
  PROVE  [attempt |-> attempt, forced |-> forced] \in Message
  BY DEF Message

LEMMA FirstAttempt == 1 \in 1..MaxAttempts
  OBVIOUS

LEMMA EnforcesSafe == Enforces("SAFE") = {"active"}
  BY DEF Enforces, BLOSSOM_ACTION_MAP, MODERATION_ACTIONS

LEMMA WellFormedInit == Init => WellFormed
<1> SUFFICES ASSUME Init PROVE WellFormed
  OBVIOUS
<1>1. job \in [Worker -> Job] /\ \A w \in Worker : JobOK(job[w], recorded)
  BY IdleType DEF Init, JobOK, Idle, NewJob, Deciding, Enforcing
<1>2. StoresOK
  BY DEF Init, StoresOK, EnforcedMeansRecorded, BlobStates, Actions
<1> QED
  BY <1>1, <1>2 DEF WellFormed

LEMMA WellFormedJobs ==
  WellFormed => /\ job \in [Worker -> Job]
                /\ \A w \in Worker : job[w] \in Job /\ JobOK(job[w], recorded)
  BY DEF WellFormed

LEMMA ClearKeysWF ==
  ASSUME WellFormed, NEW w \in Worker, ClearKeys(w)
  PROVE  WellFormed'
<1> DEFINE at == IF job[w].act \in KeyActions THEN "set" ELSE "blossom"
           j == [job[w] EXCEPT !.at = at]
<1>1. job \in [Worker -> Job] /\ job[w] \in Job /\ JobOK(job[w], recorded) /\ StoresOK
  BY WellFormedJobs DEF WellFormed
<1>2. at \in Labels
  BY DEF Labels, Steps
<1>3. j \in Job /\ Becomes(w, j)
  BY <1>1, <1>2, GotoRule DEF ClearKeys
<1>4. StoresOK' /\ recorded \subseteq recorded'
  BY <1>1 DEF ClearKeys, StoresOK, EnforcedMeansRecorded, At, kv, outside, history, JobOK, Deciding, Job, Actions
<1>5. JobOK(j, recorded')
  BY <1>1, <1>4 DEF ClearKeys, At, JobOK, Deciding, Enforcing, Job, kv, outside, history
<1> QED
  BY <1>3, <1>4, <1>5, Moved

LEMMA SetKeyWF ==
  ASSUME WellFormed, NEW w \in Worker, SetKey(w)
  PROVE  WellFormed'
<1> DEFINE at == IF job[w].op = "escalate" THEN "ban" ELSE "blossom"
           j == [job[w] EXCEPT !.at = at]
<1>1. job \in [Worker -> Job] /\ job[w] \in Job /\ JobOK(job[w], recorded) /\ StoresOK
  BY WellFormedJobs DEF WellFormed
<1>2. at \in Labels
  BY DEF Labels, Steps
<1>3. j \in Job /\ Becomes(w, j)
  BY <1>1, <1>2, GotoRule DEF SetKey
<1>4. StoresOK' /\ recorded \subseteq recorded'
  BY <1>1 DEF SetKey, StoresOK, EnforcedMeansRecorded, At, kv, outside, history, JobOK, Deciding, Job, Actions
<1>5. JobOK(j, recorded')
  BY <1>1, <1>4 DEF SetKey, At, JobOK, Deciding, Enforcing, Job, kv, outside, history
<1> QED
  BY <1>3, <1>4, <1>5, Moved

LEMMA PutMirrorWF ==
  ASSUME WellFormed, NEW w \in Worker, PutMirror(w)
  PROVE  WellFormed'
<1> DEFINE at == AfterMirror[job[w].op]
           j == [job[w] EXCEPT !.at = at]
<1>1. job \in [Worker -> Job] /\ job[w] \in Job /\ JobOK(job[w], recorded) /\ StoresOK
  BY WellFormedJobs DEF WellFormed
<1>2. at \in {"upsert", "unset", "done"} /\ at \in Labels
      /\ (at = "unset" => job[w].op = "escalate")
  BY <1>1 DEF AfterMirror, Job, Ops, Labels, Steps
<1> HIDE DEF at
<1>3. j \in Job /\ Becomes(w, j)
  BY <1>1, <1>2, GotoRule DEF PutMirror, at
<1>4. StoresOK' /\ recorded \subseteq recorded'
  BY <1>1, EnforcesType DEF PutMirror, StoresOK, EnforcedMeansRecorded, At, kv, outside, history, JobOK, Deciding, Job, Actions, Record
<1>5. JobOK(j, recorded')
  <2>1. job[w].at = "mirror" /\ job[w].act \in MODERATION_ACTIONS
    BY <1>1 DEF PutMirror, At, JobOK, Deciding
  <2>2. /\ j.at = at /\ j.op = job[w].op /\ j.act = job[w].act /\ j.saw = job[w].saw
    BY <1>1 DEF Job
  <2>3. at = "unset" => Enforces(job[w].act) \subseteq recorded'
    BY <1>2 DEF PutMirror, Record
  <2>4. j.op = "escalate" => j.act = "PERMANENT_BAN"
    BY <1>1, <2>1, <2>2 DEF JobOK
  <2> QED
    BY <1>1, <1>2, <2>1, <2>2, <2>3, <2>4 DEF JobOK, Deciding, Enforcing
<1> QED
  BY <1>3, <1>4, <1>5, Moved

LEMMA AdminUpsertWF ==
  ASSUME WellFormed, NEW w \in Worker, AdminUpsert(w)
  PROVE  WellFormed'
<1> DEFINE at == "clear"
           j == [job[w] EXCEPT !.at = at]
<1>1. job \in [Worker -> Job] /\ job[w] \in Job /\ JobOK(job[w], recorded) /\ StoresOK
  BY WellFormedJobs DEF WellFormed
<1>2. at \in Labels
  BY DEF Labels, Steps
<1>3. j \in Job /\ Becomes(w, j)
  BY <1>1, <1>2, GotoRule DEF AdminUpsert
<1>4. StoresOK' /\ recorded \subseteq recorded'
  BY <1>1, EnforcesType DEF AdminUpsert, StoresOK, EnforcedMeansRecorded, At, kv, outside, history, JobOK, Deciding, Job, Actions, Record, Row, Known
<1>5. JobOK(j, recorded')
  BY <1>1, <1>4 DEF AdminUpsert, At, JobOK, Deciding, Enforcing, Job, kv, outside, history, Record
<1> QED
  BY <1>3, <1>4, <1>5, Moved

LEMMA FlagWF ==
  ASSUME WellFormed, NEW w \in Worker, Flag(w)
  PROVE  WellFormed'
<1> DEFINE at == "blossom"
           j == [job[w] EXCEPT !.at = at]
<1>1. job \in [Worker -> Job] /\ job[w] \in Job /\ JobOK(job[w], recorded) /\ StoresOK
  BY WellFormedJobs DEF WellFormed
<1>2. at \in Labels
  BY DEF Labels, Steps
<1>3. j \in Job /\ Becomes(w, j)
  BY <1>1, <1>2, GotoRule DEF Flag
<1>4. StoresOK' /\ recorded \subseteq recorded'
  BY <1>1, EnforcesType DEF Flag, StoresOK, EnforcedMeansRecorded, At, kv, outside, history, JobOK, Deciding, Job, Actions, Record, KeyActions
<1>5. JobOK(j, recorded')
  BY <1>1, <1>4 DEF Flag, At, JobOK, Deciding, Enforcing, Job, kv, outside, history, Record
<1> QED
  BY <1>3, <1>4, <1>5, Moved

LEMMA UnflagWF ==
  ASSUME WellFormed, NEW w \in Worker, Unflag(w)
  PROVE  WellFormed'
<1> DEFINE at == "mirror"
           j == [job[w] EXCEPT !.at = at]
<1>1. job \in [Worker -> Job] /\ job[w] \in Job /\ JobOK(job[w], recorded) /\ StoresOK
  BY WellFormedJobs DEF WellFormed
<1>2. at \in Labels
  BY DEF Labels, Steps
<1>3. j \in Job /\ Becomes(w, j)
  BY <1>1, <1>2, GotoRule DEF Unflag
<1>4. StoresOK' /\ recorded \subseteq recorded'
  BY <1>1 DEF Unflag, StoresOK, EnforcedMeansRecorded, At, kv, outside, history, JobOK, Deciding, Job, Actions
<1>5. JobOK(j, recorded')
  BY <1>1, <1>4 DEF Unflag, At, JobOK, Deciding, Enforcing, Job, kv, outside, history
<1> QED
  BY <1>3, <1>4, <1>5, Moved

LEMMA RestoreWF ==
  ASSUME WellFormed, NEW w \in Worker, Restore(w)
  PROVE  WellFormed'
<1> DEFINE at == IF job[w].stale = {} THEN "blossom" ELSE "unset"
           j == [job[w] EXCEPT !.at = at]
<1>1. job \in [Worker -> Job] /\ job[w] \in Job /\ JobOK(job[w], recorded) /\ StoresOK
  BY WellFormedJobs DEF WellFormed
<1>2. at \in Labels
  BY DEF Labels, Steps
<1>3. j \in Job /\ Becomes(w, j)
  BY <1>1, <1>2, GotoRule DEF Restore
<1>4. StoresOK' /\ recorded \subseteq recorded'
  BY <1>1, EnforcesType, EnforcesSafe, ZenonT(60)
  DEF Restore, StoresOK, EnforcedMeansRecorded, At, kv, outside, history, JobOK, Deciding,
      Job, Actions, Record, Row, MODERATION_ACTIONS
<1>5. JobOK(j, recorded')
  BY <1>1, <1>4, EnforcesSafe DEF Restore, At, JobOK, Deciding, Enforcing, Job, kv, outside, history, Record, StoresOK
<1> QED
  BY <1>3, <1>4, <1>5, Moved

LEMMA UnsetWF ==
  ASSUME WellFormed, NEW w \in Worker, Unset(w)
  PROVE  WellFormed'
<1> DEFINE at == IF job[w].op = "escalate" THEN "set" ELSE "blossom"
           j == [job[w] EXCEPT !.at = at]
<1>1. job \in [Worker -> Job] /\ job[w] \in Job /\ JobOK(job[w], recorded) /\ StoresOK
  BY WellFormedJobs DEF WellFormed
<1>2. at \in Labels
  BY DEF Labels, Steps
<1>3. j \in Job /\ Becomes(w, j)
  BY <1>1, <1>2, GotoRule DEF Unset
<1>4. StoresOK' /\ recorded \subseteq recorded'
  BY <1>1 DEF Unset, StoresOK, EnforcedMeansRecorded, At, kv, outside, history, JobOK, Deciding, Job, Actions
<1>5. JobOK(j, recorded')
  BY <1>1, <1>4 DEF Unset, At, JobOK, Deciding, Enforcing, Job, kv, outside, history,
     KeyActions, MODERATION_ACTIONS
<1> QED
  BY <1>3, <1>4, <1>5, Moved

LEMMA ReconcileApplyWF ==
  ASSUME WellFormed, NEW w \in Worker, ReconcileApply(w)
  PROVE  WellFormed'
<1> DEFINE at == IF blossom = "restricted" THEN "blossom" ELSE "idle"
           j == [job[w] EXCEPT !.at = at]
<1>1. job \in [Worker -> Job] /\ job[w] \in Job /\ JobOK(job[w], recorded) /\ StoresOK
  BY WellFormedJobs DEF WellFormed
<1>2. at \in Labels
  BY DEF Labels, Steps
<1>3. j \in Job /\ Becomes(w, j)
  BY <1>1, <1>2, GotoRule DEF ReconcileApply
<1>4. StoresOK' /\ recorded \subseteq recorded'
  BY <1>1 DEF ReconcileApply, StoresOK, EnforcedMeansRecorded, At, kv, outside, history, JobOK, Deciding, Job, Actions
<1>5. JobOK(j, recorded')
  BY <1>1, <1>4 DEF ReconcileApply, At, JobOK, Deciding, Enforcing, Job, kv, outside, history
<1> QED
  BY <1>3, <1>4, <1>5, Moved

LEMMA SendWF ==
  ASSUME WellFormed, NEW w \in Worker, Send(w)
  PROVE  WellFormed'
<1> DEFINE at == "done"
           j == [job[w] EXCEPT !.at = at]
<1>1. job \in [Worker -> Job] /\ job[w] \in Job /\ JobOK(job[w], recorded) /\ StoresOK
  BY WellFormedJobs DEF WellFormed
<1>2. at \in Labels
  BY DEF Labels, Steps
<1>3. j \in Job /\ Becomes(w, j)
  BY <1>1, <1>2, GotoRule DEF Send
<1>4. StoresOK' /\ recorded \subseteq recorded'
  BY <1>1, MessageType, FirstAttempt DEF Send, StoresOK, EnforcedMeansRecorded, At, kv, outside, history
<1>5. JobOK(j, recorded')
  BY <1>1, <1>4 DEF Send, At, JobOK, Deciding, Enforcing, Job, kv, outside, history
<1> QED
  BY <1>3, <1>4, <1>5, Moved

LEMMA RemirrorWF ==
  ASSUME WellFormed, NEW w \in Worker, Remirror(w)
  PROVE  WellFormed'
<1> DEFINE at == IF job[w].saw = job[w].act THEN "done" ELSE "check"
           j == [job[w] EXCEPT !.at = at]
<1>1. job \in [Worker -> Job] /\ job[w] \in Job /\ JobOK(job[w], recorded) /\ StoresOK
  BY WellFormedJobs DEF WellFormed
<1>2. at \in Labels
  BY DEF Labels, Steps
<1>3. j \in Job /\ Becomes(w, j)
  BY <1>1, <1>2, GotoRule DEF Remirror
<1>4. StoresOK' /\ recorded \subseteq recorded'
  BY <1>1 DEF Remirror, StoresOK, EnforcedMeansRecorded, At, kv, outside, history, JobOK, Deciding, Job, Actions
<1>5. JobOK(j, recorded')
  BY <1>1, <1>4 DEF Remirror, At, JobOK, Deciding, Enforcing, Job, kv, outside, history
<1> QED
  BY <1>3, <1>4, <1>5, Moved

LEMMA CheckWF ==
  ASSUME WellFormed, NEW w \in Worker, Check(w)
  PROVE  WellFormed'
<1> DEFINE at == IF <<job[w].saw, job[w].act>> \in notified THEN "done" ELSE "clear"
           j == [job[w] EXCEPT !.at = at]
<1>1. job \in [Worker -> Job] /\ job[w] \in Job /\ JobOK(job[w], recorded) /\ StoresOK
  BY WellFormedJobs DEF WellFormed
<1>2. at \in Labels
  BY DEF Labels, Steps
<1>3. j \in Job /\ Becomes(w, j)
  BY <1>1, <1>2, GotoRule DEF Check
<1>4. StoresOK' /\ recorded \subseteq recorded'
  BY <1>1 DEF Check, StoresOK, EnforcedMeansRecorded, At, kv, outside, history, JobOK, Deciding, Job, Actions
<1>5. JobOK(j, recorded')
  BY <1>1, <1>4 DEF Check, At, JobOK, Deciding, Enforcing, Job, kv, outside, history
<1> QED
  BY <1>3, <1>4, <1>5, Moved

LEMMA MarkWF ==
  ASSUME WellFormed, NEW w \in Worker, Mark(w)
  PROVE  WellFormed'
<1> DEFINE at == "done"
           j == [job[w] EXCEPT !.at = at]
<1>1. job \in [Worker -> Job] /\ job[w] \in Job /\ JobOK(job[w], recorded) /\ StoresOK
  BY WellFormedJobs DEF WellFormed
<1>2. at \in Labels
  BY DEF Labels, Steps
<1>3. j \in Job /\ Becomes(w, j)
  BY <1>1, <1>2, GotoRule DEF Mark
<1>4. StoresOK' /\ recorded \subseteq recorded'
  BY <1>1 DEF Mark, StoresOK, EnforcedMeansRecorded, At, kv, outside, history, JobOK, Deciding, Job, Actions
<1>5. JobOK(j, recorded')
  BY <1>1, <1>4 DEF Mark, At, JobOK, Deciding, Enforcing, Job, kv, outside, history
<1> QED
  BY <1>3, <1>4, <1>5, Moved
\* An invocation with other fields is an invocation.
LEMMA SetFields ==
  ASSUME NEW k \in Job, NEW at \in Labels, NEW act \in Actions, NEW b \in BOOLEAN
  PROVE  /\ [k EXCEPT !.act = act, !.at = at] \in Job
         /\ [k EXCEPT !.at = at, !.act = act] \in Job
         /\ [k EXCEPT !.event = b, !.at = at] \in Job
         /\ [k EXCEPT !.mirrored = b, !.at = at] \in Job
         /\ [k EXCEPT !.act = act, !.event = b, !.at = at] \in Job
  BY ZenonT(60) DEF Job, Labels, Actions

LEMMA NotifyBlossomWF ==
  ASSUME WellFormed, NEW w \in Worker, NotifyBlossom(w)
  PROVE  WellFormed'
<1>1. job \in [Worker -> Job] /\ job[w] \in Job /\ JobOK(job[w], recorded) /\ StoresOK
  BY WellFormedJobs DEF WellFormed
<1>2. job[w].act \in MODERATION_ACTIONS /\ Enforces(job[w].act) \subseteq recorded
      /\ Enforces(job[w].act) \subseteq BlobStates /\ job[w].op \in Ops
  BY <1>1, EnforcesType DEF NotifyBlossom, At, JobOK, Deciding, Enforcing, Actions, Job
<1>3. PICK at \in Labels : Goto(w, at) /\ at \in {"event", "relay", "done", "idle"}
  <2>1. AfterBlossom[job[w].op] \in {"event", "relay", "done"}
    BY <1>2 DEF AfterBlossom
  <2>2. {"event", "relay", "done", "idle"} \subseteq Labels
    BY DEF Labels, Steps
  <2> QED
    BY <2>1, <2>2 DEF NotifyBlossom
<1> DEFINE j == [job[w] EXCEPT !.at = at]
<1>4. j \in Job /\ Becomes(w, j)
  BY <1>1, <1>3, GotoRule
<1>5. blossom' \in recorded /\ blossom' \in BlobStates /\ faults' \in 0..MaxFaults
  BY <1>1, <1>2 DEF NotifyBlossom, StoresOK, EnforcedMeansRecorded
<1>6. StoresOK' /\ recorded' = recorded
  BY <1>1, <1>5 DEF NotifyBlossom, StoresOK, EnforcedMeansRecorded, At, kv, outside, history
<1>7. JobOK(j, recorded')
  BY <1>1, <1>2, <1>3, <1>6 DEF NotifyBlossom, At, JobOK, Deciding, Enforcing, Job
<1> QED
  BY <1>4, <1>6, <1>7, Moved

LEMMA NotifyRelayWF ==
  ASSUME WellFormed, NEW w \in Worker, NotifyRelay(w)
  PROVE  WellFormed'
<1>1. job \in [Worker -> Job] /\ job[w] \in Job /\ JobOK(job[w], recorded) /\ StoresOK
  BY WellFormedJobs DEF WellFormed
<1>2. Enforces(job[w].act) \subseteq recorded /\ job[w].act \in MODERATION_ACTIONS
  BY <1>1 DEF NotifyRelay, At, JobOK, Deciding, Enforcing
<1>3. /\ job[w].act = "QUARANTINE" => "restricted" \in recorded
      /\ job[w].act = "PERMANENT_BAN" => "banned" \in recorded
  BY <1>2 DEF Enforces, BLOSSOM_ACTION_MAP, MODERATION_ACTIONS
<1>4. /\ RelayWanted(w) \subseteq {"served", "hidden", "deleted"}
      /\ "hidden" \in RelayWanted(w) => "restricted" \in recorded
      /\ "deleted" \in RelayWanted(w) => "banned" \in recorded
  BY <1>3 DEF RelayWanted
<1> DEFINE at == IF job[w].op = "reprocess" THEN "mark" ELSE "done"
           j == [job[w] EXCEPT !.at = at]
<1>5. at \in Labels
  BY DEF Labels, Steps
<1>6. j \in Job /\ Becomes(w, j)
  BY <1>1, <1>5, GotoRule DEF NotifyRelay
<1>7. /\ relay' \in {"served", "hidden", "deleted"} /\ faults' \in 0..MaxFaults
      /\ relay' = "hidden" => "restricted" \in recorded
      /\ relay' = "deleted" => "banned" \in recorded
  BY <1>1, <1>4 DEF NotifyRelay, StoresOK, EnforcedMeansRecorded
<1>8. StoresOK' /\ recorded' = recorded
  BY <1>1, <1>7 DEF NotifyRelay, StoresOK, EnforcedMeansRecorded, At, kv, outside, history
<1>9. JobOK(j, recorded')
  BY <1>1, <1>8 DEF NotifyRelay, At, JobOK, Deciding, Enforcing, Job
<1> QED
  BY <1>6, <1>8, <1>9, Moved

LEMMA CrashWF ==
  ASSUME WellFormed, NEW w \in Worker, Crash(w)
  PROVE  WellFormed'
<1>1. job \in [Worker -> Job] /\ job[w] \in Job /\ JobOK(job[w], recorded) /\ StoresOK
  BY WellFormedJobs DEF WellFormed
<1> DEFINE j == [job[w] EXCEPT !.at = "idle"]
<1>2. j \in Job /\ Becomes(w, j)
  BY <1>1, GotoRule DEF Crash, Labels
<1>3. queue' \subseteq Message
  <2>1. job[w].attempt \in 1..MaxAttempts /\ job[w].forced \in BOOLEAN
    BY <1>1 DEF Job
  <2>2. job[w].attempt < MaxAttempts => job[w].attempt + 1 \in 1..MaxAttempts
    BY <2>1
  <2> QED
    BY <1>1, <2>1, <2>2, MessageType DEF Crash, StoresOK
<1>4. keys' \subseteq KeyActions /\ faults' \in 0..MaxFaults
  BY <1>1 DEF Crash, StoresOK
<1>5. StoresOK' /\ recorded' = recorded
  BY <1>1, <1>3, <1>4 DEF Crash, StoresOK, EnforcedMeansRecorded, At, kv, outside, history
<1>6. JobOK(j, recorded')
  BY <1>1, <1>5 DEF Crash, JobOK, Deciding, Enforcing, Job
<1> QED
  BY <1>2, <1>5, <1>6, Moved

LEMMA ReadEventWF ==
  ASSUME WellFormed, NEW w \in Worker, ReadEvent(w)
  PROVE  WellFormed'
<1>1. job \in [Worker -> Job] /\ job[w] \in Job /\ JobOK(job[w], recorded) /\ StoresOK
  BY WellFormedJobs DEF WellFormed
<1> DEFINE j == [job[w] EXCEPT !.event = Known, !.at = "relay"]
<1>2. j \in Job
  BY <1>1, SetFields DEF ReadEvent, At, Known, Labels, Steps, StoresOK, Row
<1>3. Becomes(w, j)
  BY <1>1, <1>2, BecomeRule DEF ReadEvent
<1>4. StoresOK' /\ recorded \subseteq recorded'
  BY <1>1 DEF ReadEvent, StoresOK, EnforcedMeansRecorded, At, kv, outside, history
<1>5. JobOK(j, recorded')
  BY <1>1, <1>4 DEF ReadEvent, At, JobOK, Deciding, Enforcing, Job, history
<1> QED
  BY <1>2, <1>3, <1>4, <1>5, Moved

LEMMA PeekWF ==
  ASSUME WellFormed, NEW w \in Worker, Peek(w)
  PROVE  WellFormed'
<1>1. job \in [Worker -> Job] /\ job[w] \in Job /\ JobOK(job[w], recorded) /\ StoresOK
  BY WellFormedJobs DEF WellFormed
<1> DEFINE j == [job[w] EXCEPT !.stale = keys,
                            !.at = IF job[w].saw # "SAFE" THEN "restore"
                                   ELSE IF keys # {} THEN "unset" ELSE "done"]
<1>2. j \in Job
  BY <1>1 DEF Peek, At, Job, Steps, StoresOK
<1>3. Becomes(w, j)
  BY <1>1, <1>2, BecomeRule DEF Peek
<1>4. StoresOK' /\ recorded \subseteq recorded'
  BY <1>1 DEF Peek, StoresOK, EnforcedMeansRecorded, At, kv, outside, history
<1>5. JobOK(j, recorded')
  BY <1>1, <1>4, EnforcesSafe DEF Peek, At, JobOK, Deciding, Enforcing, Job, history, StoresOK
<1> QED
  BY <1>2, <1>3, <1>4, <1>5, Moved

LEMMA AbandonWF ==
  ASSUME WellFormed, NEW w \in Worker, Abandon(w)
  PROVE  WellFormed'
<1>1. job \in [Worker -> Job] /\ job[w] \in Job /\ JobOK(job[w], recorded) /\ StoresOK
  BY WellFormedJobs DEF WellFormed
<1> DEFINE j == [job[w] EXCEPT !.act = IF mirror # Nothing THEN mirror ELSE job[w].saw,
                            !.at = "mirror"]
<1>2. j \in Job
  BY <1>1 DEF Abandon, At, Job, Steps, StoresOK, Actions
<1>3. Becomes(w, j)
  BY <1>1, <1>2, BecomeRule DEF Abandon
<1>4. StoresOK' /\ recorded \subseteq recorded'
  BY <1>1 DEF Abandon, StoresOK, EnforcedMeansRecorded, At, kv, outside, history
<1>5. JobOK(j, recorded')
  BY <1>1, <1>4 DEF Abandon, At, JobOK, Deciding, Enforcing, Job, history, StoresOK, Actions
<1> QED
  BY <1>2, <1>3, <1>4, <1>5, Moved
\* A request starts as k, which is alone or not.
LEMMA StartedOK ==
  ASSUME WellFormed, NEW w \in Worker, NEW k \in Job, Start(w, k), JobOK(k, recorded'),
         StoresOK', recorded \subseteq recorded'
  PROVE  WellFormed'
<1> DEFINE j == [k EXCEPT !.alone = Alone(w)]
<1>1. j \in Job /\ Becomes(w, j)
  BY WellFormedJobs, StartRule
<1>2. JobOK(j, recorded')
  BY DEF JobOK, Job
<1> QED
  BY <1>1, <1>2, Moved

LEMMA StartBounds ==
  ASSUME WellFormed, NEW w \in Worker, NEW k, Start(w, k)
  PROVE  requests' \in 0..MaxRequests /\ faults' = faults
  BY DEF WellFormed, StoresOK, Start, Request

LEMMA AdminModerateWF ==
  ASSUME WellFormed, NEW w \in Worker, AdminModerate(w)
  PROVE  WellFormed'
<1>1. StoresOK
  BY DEF WellFormed
<1>2. PICK a \in MODERATION_ACTIONS : Start(w, [NewJob("admin", "mirror", a) EXCEPT !.event = Known])
  BY DEF AdminModerate, Decide
<1> DEFINE k == [NewJob("admin", "mirror", a) EXCEPT !.event = Known]
<1>3. NewJob("admin", "mirror", a) \in Job
  BY NewJobType DEF Ops, Labels, Steps, Actions
<1>4. k \in Job
  <2>1. Known \in BOOLEAN
    BY <1>1 DEF Known, StoresOK, Row
  <2> QED
    BY <1>3, <2>1 DEF Job
<1>5. requests' \in 0..MaxRequests /\ faults' = faults
  BY <1>2, StartBounds
<1>6. StoresOK' /\ recorded' = recorded
  BY <1>1, <1>5 DEF AdminModerate, StoresOK, EnforcedMeansRecorded, At, kv, outside, history
<1>7. JobOK(k, recorded')
  BY DEF NewJob, JobOK, Deciding, Enforcing
<1> QED
  BY <1>2, <1>4, <1>6, <1>7, StartedOK

LEMMA ApiModerateWF ==
  ASSUME WellFormed, NEW w \in Worker, ApiModerate(w)
  PROVE  WellFormed'
<1>1. StoresOK
  BY DEF WellFormed
<1>2. PICK a \in MODERATION_ACTIONS :
        /\ row' = IF row = Nothing
                  THEN [action |-> a, reviewed |-> FALSE, pending |-> FALSE, event |-> FALSE]
                  ELSE [row EXCEPT !.action = a]
        /\ Record(a) /\ Start(w, NewJob("api", "blossom", a))
  BY DEF ApiModerate, Decide
<1> DEFINE k == NewJob("api", "blossom", a)
<1>3. k \in Job
  BY NewJobType DEF Ops, Labels, Steps, Actions
<1>4. row' \in Row /\ row'.action = a
  BY <1>1, <1>2 DEF StoresOK, Row
<1>5. requests' \in 0..MaxRequests /\ faults' = faults
  BY <1>2, StartBounds
<1>6. /\ Enforces(a) \subseteq recorded' /\ recorded \subseteq recorded'
      /\ recorded' \subseteq BlobStates /\ rested' = rested
  BY <1>1, <1>2, EnforcesType DEF Record, Actions, StoresOK
<1>7. StoresOK'
  BY <1>1, <1>4, <1>5, <1>6 DEF ApiModerate, StoresOK, EnforcedMeansRecorded, kv, outside
<1>8. JobOK(k, recorded')
  BY <1>6 DEF NewJob, JobOK, Deciding, Enforcing
<1> QED
  BY <1>2, <1>3, <1>6, <1>7, <1>8, StartedOK

LEMMA ApiQuarantineWF ==
  ASSUME WellFormed, NEW w \in Worker, ApiQuarantine(w)
  PROVE  WellFormed'
<1>1. StoresOK
  BY DEF WellFormed
<1>2. PICK a \in {"QUARANTINE", "REVIEW"} :
        /\ row' = IF row = Nothing THEN Nothing
                  ELSE [row EXCEPT !.action = a, !.reviewed = TRUE]
        /\ Record(IF row = Nothing THEN Nothing ELSE a)
        /\ Start(w, NewJob("quarantine", "flag", a))
  BY DEF ApiQuarantine, Decide
<1> DEFINE k == NewJob("quarantine", "flag", a)
           b == IF row = Nothing THEN Nothing ELSE a
<1>3. k \in Job /\ a \in MODERATION_ACTIONS /\ b \in Actions
  BY NewJobType DEF Ops, Labels, Steps, Actions, MODERATION_ACTIONS
<1>4. row' \in Row \cup {Nothing} /\ (row' # Nothing => row'.action = a /\ b = a)
  BY <1>1, <1>2, <1>3 DEF StoresOK, Row
<1>5. requests' \in 0..MaxRequests /\ faults' = faults
  BY <1>2, StartBounds
<1>6. /\ Enforces(b) \subseteq recorded' /\ recorded \subseteq recorded'
      /\ recorded' \subseteq BlobStates /\ rested' = rested
  BY <1>1, <1>2, <1>3, EnforcesType DEF Record, StoresOK
<1>7. StoresOK'
  BY <1>1, <1>4, <1>5, <1>6 DEF ApiQuarantine, StoresOK, EnforcedMeansRecorded, kv, outside
<1>8. JobOK(k, recorded')
  BY <1>3 DEF NewJob, JobOK, Deciding, Enforcing
<1> QED
  BY <1>2, <1>3, <1>6, <1>7, <1>8, StartedOK

LEMMA VerifiedOK ==
  ASSUME NEW j \in Job, NEW seen \in MODERATION_ACTIONS, NEW k \in Verified(j, seen), NEW rec,
         j.op = "verify"
  PROVE  /\ k \in Job /\ JobOK(k, rec) /\ k.op = "verify" /\ k.at \in {"mirror", "unflag"}
         /\ k.act \in {seen, "SAFE"}
<1>1. {"mirror", "unflag"} \subseteq Labels /\ {seen, "SAFE"} \subseteq MODERATION_ACTIONS
  BY DEF Labels, Steps, MODERATION_ACTIONS
<1>2. PICK at \in {"mirror", "unflag"}, act \in {seen, "SAFE"} :
        k = [j EXCEPT !.at = at, !.act = act]
  BY <1>1 DEF Verified
<1>3. k \in Job
  BY <1>1, <1>2, SetFields DEF Actions
<1>4. JobOK(k, rec)
  BY <1>1, <1>2 DEF JobOK, Deciding, Enforcing, Job
<1>5. k.op = "verify" /\ k.at \in {"mirror", "unflag"} /\ k.act \in {seen, "SAFE"}
  BY <1>2 DEF Job
<1> QED
  BY <1>3, <1>4, <1>5

LEMMA VerifyCategoryWF ==
  ASSUME WellFormed, NEW w \in Worker, VerifyCategory(w)
  PROVE  WellFormed'
<1>1. StoresOK
  BY DEF WellFormed
<1> DEFINE j == NewJob("verify", "look", Nothing)
<1>2. PICK k \in IF mirror = Nothing THEN {j} ELSE Verified(j, mirror) : Start(w, k)
  BY DEF VerifyCategory
<1>3. j \in Job /\ j.op = "verify" /\ JobOK(j, recorded')
  BY NewJobType DEF Ops, Labels, Steps, Actions, NewJob, JobOK, Deciding, Enforcing
<1>4. k \in Job /\ JobOK(k, recorded')
  <2>1. CASE mirror = Nothing
    BY <2>1, <1>2, <1>3
  <2>2. CASE mirror # Nothing
    <3>1. mirror \in MODERATION_ACTIONS /\ k \in Verified(j, mirror)
      BY <1>1, <1>2, <2>2 DEF StoresOK, Actions
    <3> QED
      BY <1>3, <3>1, VerifiedOK
  <2> QED
    BY <2>1, <2>2
<1>5. requests' \in 0..MaxRequests /\ faults' = faults
  BY <1>2, StartBounds
<1>6. StoresOK' /\ recorded' = recorded
  BY <1>1, <1>5 DEF VerifyCategory, StoresOK, EnforcedMeansRecorded, At, kv, outside, history
<1> QED
  BY <1>2, <1>4, <1>6, StartedOK

LEMMA LookWF ==
  ASSUME WellFormed, NEW w \in Worker, Look(w)
  PROVE  WellFormed'
<1>1. job \in [Worker -> Job] /\ job[w] \in Job /\ JobOK(job[w], recorded) /\ StoresOK
  BY WellFormedJobs DEF WellFormed
<1>2. PICK k \in IF row = Nothing THEN {[job[w] EXCEPT !.at = "idle"]}
                 ELSE Verified(job[w], row.action) : Become(w, k)
  BY DEF Look
<1>3. k \in Job /\ JobOK(k, recorded')
  <2>1. CASE row = Nothing
    <3>1. k = [job[w] EXCEPT !.at = "idle"]
      BY <1>2, <2>1
    <3>2. k \in Job
      BY <1>1, <3>1, AtType DEF Labels
    <3>3. JobOK(k, recorded')
      BY <1>1, <3>1 DEF JobOK, Deciding, Enforcing, Job
    <3> QED
      BY <3>2, <3>3
  <2>2. CASE row # Nothing
    <3>1. row.action \in MODERATION_ACTIONS /\ k \in Verified(job[w], row.action)
      BY <1>1, <1>2, <2>2 DEF StoresOK, Row
    <3>2. job[w].op = "verify"
      BY DEF Look, At
    <3> QED
      BY <1>1, <3>1, <3>2, VerifiedOK
  <2> QED
    BY <2>1, <2>2
<1>4. Becomes(w, k)
  BY <1>1, <1>2, <1>3, BecomeRule
<1>5. StoresOK' /\ recorded' = recorded
  BY <1>1 DEF Look, StoresOK, EnforcedMeansRecorded, At, kv, outside, history
<1> QED
  BY <1>3, <1>4, <1>5, Moved

LEMMA ClassicVineRollbackWF ==
  ASSUME WellFormed, NEW w \in Worker, ClassicVineRollback(w)
  PROVE  WellFormed'
<1>1. StoresOK
  BY DEF WellFormed
<1> DEFINE seen == IF row = Nothing THEN Nothing ELSE row.action
           k == [NewJob("rollback", "peek", "SAFE") EXCEPT !.saw = seen]
<1>2. NewJob("rollback", "peek", "SAFE") \in Job /\ seen \in Actions
  BY <1>1, NewJobType DEF Ops, Labels, Steps, Actions, MODERATION_ACTIONS, StoresOK, Row
<1>3. k \in Job
  BY <1>2 DEF Job, Actions
<1>4. Start(w, k)
  BY DEF ClassicVineRollback, Decide
<1>5. requests' \in 0..MaxRequests /\ faults' = faults
  BY <1>4, StartBounds
<1>6. StoresOK' /\ recorded' = recorded
  BY <1>1, <1>5 DEF ClassicVineRollback, StoresOK, EnforcedMeansRecorded, At, kv, outside, history
<1>7. JobOK(k, recorded')
  BY DEF NewJob, JobOK, Deciding, Enforcing, MODERATION_ACTIONS
<1> QED
  BY <1>3, <1>4, <1>6, <1>7, StartedOK

LEMMA ReconcilePreviewWF ==
  ASSUME WellFormed, NEW w \in Worker, ReconcilePreview(w)
  PROVE  WellFormed'
<1>1. StoresOK
  BY DEF WellFormed
<1> DEFINE k == NewJob("repair", "replay", "AGE_RESTRICTED")
<1>2. k \in Job /\ Start(w, k)
  BY NewJobType DEF Ops, Labels, Steps, Actions, MODERATION_ACTIONS, ReconcilePreview, Decide
<1>3. requests' \in 0..MaxRequests /\ faults' = faults
  BY <1>2, StartBounds
<1>4. StoresOK' /\ recorded' = recorded
  BY <1>1, <1>3 DEF ReconcilePreview, StoresOK, EnforcedMeansRecorded, At, kv, outside, history
<1>5. Enforces("AGE_RESTRICTED") \subseteq recorded
  BY <1>1 DEF ReconcilePreview, StoresOK
<1>6. JobOK(k, recorded')
  BY <1>4, <1>5 DEF NewJob, JobOK, Deciding, Enforcing, MODERATION_ACTIONS
<1> QED
  BY <1>2, <1>4, <1>6, StartedOK

LEMMA TestModerateWF ==
  ASSUME WellFormed, NEW w \in Worker, TestModerate(w)
  PROVE  WellFormed'
<1>1. StoresOK
  BY DEF WellFormed
<1> DEFINE k == NewJob("remoderate", "send", Nothing)
<1>2. k \in Job /\ Start(w, k)
  BY NewJobType DEF Ops, Labels, Steps, Actions, TestModerate, Decide
<1>3. requests' \in 0..MaxRequests /\ faults' = faults
  BY <1>2, StartBounds
<1>4. StoresOK' /\ recorded' = recorded
  BY <1>1, <1>3 DEF TestModerate, StoresOK, EnforcedMeansRecorded, At, kv, outside, history
<1>5. JobOK(k, recorded')
  BY DEF NewJob, JobOK, Deciding, Enforcing
<1> QED
  BY <1>2, <1>4, <1>5, StartedOK

LEMMA SelectPendingWF ==
  ASSUME WellFormed, NEW w \in Worker, SelectPending(w)
  PROVE  WellFormed'
<1>1. StoresOK /\ row # Nothing
  BY DEF WellFormed, SelectPending
<1> DEFINE k == [NewJob("reprocess", "fetch", Nothing) EXCEPT !.saw = row.action]
<1>2. NewJob("reprocess", "fetch", Nothing) \in Job /\ row.action \in MODERATION_ACTIONS
  BY <1>1, NewJobType DEF Ops, Labels, Steps, Actions, StoresOK, Row
<1>3. k \in Job
  BY <1>2 DEF Job
<1>4. Start(w, k)
  BY DEF SelectPending
<1>5. requests' \in 0..MaxRequests /\ faults' = faults
  BY <1>4, StartBounds
<1>6. StoresOK' /\ recorded' = recorded
  BY <1>1, <1>5 DEF SelectPending, StoresOK, EnforcedMeansRecorded, At, kv, outside, history
<1>7. JobOK(k, recorded')
  BY <1>2 DEF NewJob, JobOK, Deciding, Enforcing
<1> QED
  BY <1>3, <1>4, <1>6, <1>7, StartedOK

LEMMA EscalateWF ==
  ASSUME WellFormed, NEW w \in Worker, Escalate(w)
  PROVE  WellFormed'
<1>1. StoresOK
  BY DEF WellFormed
<1> DEFINE k == [NewJob("escalate", "mirror", "PERMANENT_BAN") EXCEPT !.stale = {"QUARANTINE"}]
<1>2. NewJob("escalate", "mirror", "PERMANENT_BAN") \in Job
  BY NewJobType DEF Ops, Labels, Steps, Actions, MODERATION_ACTIONS
<1>3. k \in Job
  BY <1>2 DEF Job, KeyActions
<1>4. Start(w, k)
  BY DEF Escalate
<1>5. requests' \in 0..MaxRequests /\ faults' = faults
  BY <1>4, StartBounds
<1>6. StoresOK' /\ recorded' = recorded
  BY <1>1, <1>5 DEF Escalate, StoresOK, EnforcedMeansRecorded, At, kv, outside, history
<1>7. JobOK(k, recorded')
  BY DEF NewJob, JobOK, Deciding, Enforcing, MODERATION_ACTIONS
<1> QED
  BY <1>3, <1>4, <1>6, <1>7, StartedOK

LEMMA BanWF ==
  ASSUME WellFormed, NEW w \in Worker, Ban(w)
  PROVE  WellFormed'
<1>1. job \in [Worker -> Job] /\ job[w] \in Job /\ JobOK(job[w], recorded) /\ StoresOK
  BY WellFormedJobs DEF WellFormed
<1> DEFINE j == [job[w] EXCEPT !.at = "blossom"]
<1>2. j \in Job /\ Becomes(w, j)
  BY <1>1, GotoRule DEF Ban, Labels, Steps
<1>3. /\ job[w].op = "escalate" /\ job[w].at = "ban" /\ job[w].act \in MODERATION_ACTIONS
      /\ Enforces(job[w].act) \subseteq recorded /\ UNCHANGED <<requests, recorded, rested>>
  BY <1>1 DEF Ban, At, JobOK, Deciding, Enforcing, history
<1>4. /\ row' \in Row \cup {Nothing}
      /\ row' # Nothing => Enforces(row'.action) \subseteq recorded
      /\ faults' \in 0..MaxFaults
  <2>1. CASE row' = row
    BY <1>1, <2>1 DEF Ban, StoresOK
  <2>2. CASE row # Nothing /\ row' = [row EXCEPT !.action = job[w].act, !.reviewed = TRUE]
    <3>1. row' \in Row /\ row'.action = job[w].act
      BY <1>1, <1>3, <2>2 DEF StoresOK, Row
    <3> QED
      BY <1>1, <1>3, <3>1 DEF Ban, StoresOK
  <2> QED
    BY <2>1, <2>2 DEF Ban
<1>5. StoresOK'
  <2>1. UNCHANGED <<mirror, keys, notified, queue, blossom, relay, requests, recorded, rested>>
    BY <1>3 DEF Ban, kv, outside
  <2>2. EnforcedMeansRecorded'
    BY <1>1, <2>1 DEF StoresOK, EnforcedMeansRecorded
  <2>3. row' # Nothing => Enforces(row'.action) \subseteq recorded'
    BY <1>3, <1>4
  <2> QED
    BY <1>1, <1>4, <2>1, <2>2, <2>3 DEF StoresOK
<1>6. JobOK(j, recorded')
  BY <1>1, <1>3 DEF JobOK, Deciding, Enforcing, Job
<1> QED
  BY <1>2, <1>3, <1>5, <1>6, Moved

LEMMA SameJobs ==
  ASSUME WellFormed, job' = job, StoresOK', recorded \subseteq recorded'
  PROVE  WellFormed'
<1>1. \A w \in Worker : JobOK(job[w], recorded) => JobOK(job[w], recorded')
  BY DEF JobOK
<1> QED
  BY <1>1 DEF WellFormed

LEMMA EnqueueWF ==
  ASSUME WellFormed, NEW forced \in BOOLEAN, Enqueue(forced)
  PROVE  WellFormed'
<1>1. StoresOK
  BY DEF WellFormed
<1>2. queue' \subseteq Message
  BY <1>1, MessageType, FirstAttempt DEF Enqueue, StoresOK
<1>3. requests' \in 0..MaxRequests
  BY <1>1 DEF Enqueue, Request, StoresOK
<1>4. StoresOK' /\ recorded' = recorded /\ job' = job
  BY <1>1, <1>2, <1>3 DEF Enqueue, StoresOK, EnforcedMeansRecorded, At, kv, outside, history
<1> QED
  BY <1>4, SameJobs

LEMMA DeliverWF ==
  ASSUME WellFormed, NEW w \in Worker, Deliver(w)
  PROVE  WellFormed'
<1>1. job \in [Worker -> Job] /\ StoresOK
  BY DEF WellFormed
<1>2. PICK m \in queue :
        /\ queue' = queue \ {m}
        /\ \/ job' = job
           \/ Become(w, [NewJob("scan", "classify", Nothing)
                            EXCEPT !.attempt = m.attempt, !.forced = m.forced, !.alone = Alone(w)])
  BY DEF Deliver
<1>3. StoresOK' /\ recorded' = recorded
  BY <1>1, <1>2 DEF Deliver, StoresOK, EnforcedMeansRecorded, At, kv, outside, history
<1>4. CASE job' = job
  BY <1>3, <1>4, SameJobs
<1>5. CASE job' # job
  <2> DEFINE k == [NewJob("scan", "classify", Nothing)
                    EXCEPT !.attempt = m.attempt, !.forced = m.forced, !.alone = Alone(w)]
  <2>1. NewJob("scan", "classify", Nothing) \in Job
    BY NewJobType DEF Ops, Labels, Steps, Actions
  <2>2. m.attempt \in 1..MaxAttempts /\ m.forced \in BOOLEAN /\ Alone(w) \in BOOLEAN
    BY <1>1 DEF StoresOK, Message, Alone
  <2>3. k \in Job
    BY <2>1, <2>2 DEF Job
  <2>4. Becomes(w, k)
    BY <1>1, <1>2, <1>5, <2>3, BecomeRule
  <2>5. JobOK(k, recorded')
    BY DEF NewJob, JobOK, Deciding, Enforcing
  <2> QED
    BY <1>3, <2>3, <2>4, <2>5, Moved
<1> QED
  BY <1>4, <1>5

LEMMA ScanWF ==
  ASSUME WellFormed, NEW w \in Worker, Scan(w)
  PROVE  WellFormed'
<1>1. job \in [Worker -> Job] /\ job[w] \in Job /\ JobOK(job[w], recorded) /\ StoresOK
  BY WellFormedJobs DEF WellFormed
<1>2. \A f \in Enforcements : ApplyEnforcement("REVIEW", f) \in MODERATION_ACTIONS
  BY DEF ApplyEnforcement, MODERATION_ACTIONS
<1>3. PICK a \in MODERATION_ACTIONS, p, e \in BOOLEAN :
        /\ row' = [action |-> a, reviewed |-> FALSE, pending |-> p, event |-> e]
        /\ Record(a)
        /\ Become(w, [job[w] EXCEPT !.act = a, !.event = e, !.at = "flag"])
  BY <1>2 DEF Scan
<1> DEFINE k == [job[w] EXCEPT !.act = a, !.event = e, !.at = "flag"]
<1>4. k \in Job /\ Becomes(w, k)
  <2>1. k \in Job
    BY <1>1, SetFields DEF Actions, Labels, Steps
  <2> QED
    BY <1>1, <1>3, <2>1, BecomeRule
<1>5. row' \in Row /\ row'.action = a
  BY <1>3 DEF Row
<1>6. /\ Enforces(a) \subseteq recorded' /\ recorded \subseteq recorded'
      /\ recorded' \subseteq BlobStates /\ rested' = rested
  BY <1>1, <1>3, EnforcesType DEF Record, StoresOK, Actions
<1>7. StoresOK'
  BY <1>1, <1>5, <1>6 DEF Scan, At, StoresOK, EnforcedMeansRecorded, kv, outside
<1>8. JobOK(k, recorded')
  BY <1>1 DEF Scan, At, JobOK, Deciding, Enforcing, Job
<1> QED
  BY <1>4, <1>6, <1>7, <1>8, Moved

\* A guarded UPDATE leaves w at a step of its own, or idle.
LEMMA UpdatePendingOK ==
  ASSUME WellFormed, NEW w \in Worker, NEW a \in MODERATION_ACTIONS,
         NEW at \in {"idle", "abandon", "remirror"}, UpdatePending(w, a, at),
         job[w].op = "reprocess",
         Unreviewed => Enforces(a) \subseteq recorded',
         recorded \subseteq recorded', recorded' \subseteq BlobStates, rested' = rested,
         UNCHANGED <<kv, outside, requests, faults>>
  PROVE  WellFormed'
<1>1. job \in [Worker -> Job] /\ job[w] \in Job /\ JobOK(job[w], recorded) /\ StoresOK
  BY WellFormedJobs DEF WellFormed
<1>2. {"idle", "abandon", "remirror"} \subseteq Labels
  BY DEF Labels, Steps
<1>3. CASE Unreviewed
  <2> DEFINE k == [job[w] EXCEPT !.act = a, !.at = at]
  <2>1. k \in Job
    BY <1>1, <1>2, SetFields DEF Actions
  <2>2. Becomes(w, k)
    BY <1>1, <1>3, <2>1, BecomeRule DEF UpdatePending
  <2>3. row' \in Row /\ row'.action = a
    BY <1>1, <1>3 DEF UpdatePending, Unreviewed, StoresOK, Row
  <2>4. StoresOK'
    BY <1>1, <1>3, <2>3 DEF StoresOK, EnforcedMeansRecorded, kv, outside
  <2>5. JobOK(k, recorded')
    BY <1>1, <1>3 DEF JobOK, Deciding, Enforcing, Job
  <2> QED
    BY <2>1, <2>2, <2>4, <2>5, Moved
<1>4. CASE ~Unreviewed
  <2> DEFINE k == [job[w] EXCEPT !.at = "idle"]
  <2>1. k \in Job /\ Becomes(w, k)
    BY <1>1, <1>2, <1>4, GotoRule DEF UpdatePending
  <2>2. StoresOK'
    BY <1>1, <1>4 DEF UpdatePending, StoresOK, EnforcedMeansRecorded, kv, outside
  <2>3. JobOK(k, recorded')
    BY <1>1 DEF JobOK, Deciding, Enforcing, Job
  <2> QED
    BY <2>1, <2>2, <2>3, Moved
<1> QED
  BY <1>3, <1>4

LEMMA FetchWF ==
  ASSUME WellFormed, NEW w \in Worker, Fetch(w)
  PROVE  WellFormed'
<1>1. job \in [Worker -> Job] /\ job[w] \in Job /\ JobOK(job[w], recorded) /\ StoresOK
  BY WellFormedJobs DEF WellFormed
<1>2. job[w].op = "reprocess" /\ UNCHANGED <<kv, outside, requests, faults, history>>
  BY DEF Fetch, At
<1>3. recorded' = recorded /\ rested' = rested /\ recorded \subseteq BlobStates
  BY <1>1, <1>2 DEF history, StoresOK
<1>4. ASSUME NEW k \in Job, Become(w, k), row' = row, JobOK(k, recorded)  PROVE WellFormed'
  <2>1. Becomes(w, k)
    BY <1>1, <1>4, BecomeRule
  <2>2. StoresOK'
    BY <1>1, <1>2, <1>3, <1>4 DEF StoresOK, EnforcedMeansRecorded, kv, outside
  <2> QED
    BY <1>3, <1>4, <2>1, <2>2, Moved
<1>5. CASE Become(w, [job[w] EXCEPT !.mirrored = mirror # Nothing, !.at = "resolve"]) /\ UNCHANGED row
  <2> DEFINE k == [job[w] EXCEPT !.mirrored = mirror # Nothing, !.at = "resolve"]
  <2>1. k \in Job
    BY <1>1, ResolvingType
  <2>2. k.at = "resolve" /\ k.op = "reprocess" /\ k.saw = job[w].saw
    BY <1>1, <1>2 DEF Job
  <2>3. JobOK(k, recorded)
    BY <1>1, <1>2, <2>2 DEF JobOK, Deciding, Enforcing
  <2> QED
    BY <1>4, <1>5, <2>1, <2>3
<1>6. CASE Goto(w, "idle") /\ UNCHANGED row
  <2> DEFINE k == [job[w] EXCEPT !.at = "idle"]
  <2>1. k \in Job
    BY <1>1, AtType DEF Labels
  <2>2. JobOK(k, recorded)
    BY <1>1 DEF JobOK, Deciding, Enforcing, Job
  <2> QED
    BY <1>4, <1>6, <2>1, <2>2 DEF Goto
<1>7. CASE row # Nothing /\ \E at \in {"idle", "abandon"} : UpdatePending(w, row.action, at)
  <2>1. row.action \in MODERATION_ACTIONS /\ Enforces(row.action) \subseteq recorded
    BY <1>1, <1>7 DEF StoresOK, Row
  <2> QED
    BY <1>2, <1>3, <1>7, <2>1, UpdatePendingOK
<1> QED
  BY <1>5, <1>6, <1>7 DEF Fetch

LEMMA ResolveWF ==
  ASSUME WellFormed, NEW w \in Worker, Resolve(w)
  PROVE  WellFormed'
<1>1. StoresOK
  BY DEF WellFormed
<1>2. PICK a \in MODERATION_ACTIONS :
        UpdatePending(w, a, "remirror") /\ Record(IF Unreviewed THEN a ELSE Nothing)
  BY DEF Resolve
<1>3. /\ Unreviewed => Enforces(a) \subseteq recorded'
      /\ recorded \subseteq recorded' /\ recorded' \subseteq BlobStates /\ rested' = rested
  BY <1>1, <1>2, EnforcesType DEF Record, Actions, StoresOK
<1>4. job[w].op = "reprocess" /\ UNCHANGED <<kv, outside, requests, faults>>
  BY DEF Resolve, At
<1> QED
  BY <1>2, <1>3, <1>4, UpdatePendingOK

LEMMA DisturbOK ==
  ASSUME WellFormed, Disturb, StoresOK', recorded \subseteq recorded'
  PROVE  WellFormed'
<1>1. ASSUME NEW v \in Worker
      PROVE  job'[v] \in Job /\ JobOK(job'[v], recorded')
  <2>1. job[v] \in Job /\ JobOK(job[v], recorded)
    BY WellFormedJobs
  <2>2. [job[v] EXCEPT !.alone = FALSE] \in Job
    BY <2>1, AloneType
  <2>3. job'[v] \in {[job[v] EXCEPT !.alone = FALSE], Idle}
    BY DEF Disturb, Rest
  <2>4. JobOK([job[v] EXCEPT !.alone = FALSE], recorded')
    BY <2>1 DEF JobOK, Job
  <2>5. JobOK(Idle, recorded')
    BY DEF JobOK, Idle, NewJob, Deciding, Enforcing
  <2> QED
    BY <2>2, <2>3, <2>4, <2>5, IdleType
<1>2. job' \in [Worker -> Job]
  BY <1>1 DEF Disturb
<1> QED
  BY <1>1, <1>2 DEF WellFormed

LEMMA ReportWF ==
  ASSUME WellFormed, NEW a \in {"REVIEW", "AGE_RESTRICTED"}, Report(a)
  PROVE  WellFormed'
<1>1. StoresOK
  BY DEF WellFormed
<1> DEFINE b == Reported(a)
<1>2. b \in MODERATION_ACTIONS /\ (row = Nothing => b = a)
  BY <1>1 DEF Reported, StoresOK, Row, MODERATION_ACTIONS
<1>3. row' \in Row /\ row'.action = b
  BY <1>1, <1>2 DEF Report, StoresOK, Row
<1>4. requests' \in 0..MaxRequests
  BY <1>1 DEF Report, Request, StoresOK
<1>5. /\ Enforces(b) \subseteq recorded' /\ recorded \subseteq recorded'
      /\ recorded' \subseteq BlobStates /\ rested' = rested
  BY <1>1, <1>2, EnforcesType DEF Report, Record, Actions, StoresOK
<1>6. StoresOK'
  BY <1>1, <1>3, <1>4, <1>5 DEF Report, StoresOK, EnforcedMeansRecorded, kv, outside
<1> QED
  BY <1>5, <1>6, DisturbOK DEF Report

LEMMA BackfillWF ==
  ASSUME WellFormed, Backfill
  PROVE  WellFormed'
<1>1. StoresOK
  BY DEF WellFormed
<1>2. row \in Row /\ row' \in Row /\ row'.action = row.action
  BY <1>1 DEF Backfill, StoresOK, Row
<1>3. StoresOK' /\ recorded' = recorded
  BY <1>1, <1>2 DEF Backfill, StoresOK, EnforcedMeansRecorded, At, kv, outside, history
<1> QED
  BY <1>3, DisturbOK DEF Backfill

LEMMA ComeToRestWF ==
  ASSUME WellFormed, ComeToRest
  PROVE  WellFormed'
<1>1. StoresOK
  BY DEF WellFormed
<1>2. rested' \in Rested
  BY <1>1 DEF ComeToRest, Quiet, StoresOK, Row, Rested
<1>3. StoresOK' /\ recorded' = recorded /\ job' = job
  BY <1>1, <1>2 DEF ComeToRest, StoresOK, EnforcedMeansRecorded, kv, outside
<1> QED
  BY <1>3, SameJobs

LEMMA WellFormedStep ==
  ASSUME WellFormed, [Next]_vars
  PROVE  WellFormed'
<1>1. CASE UNCHANGED vars
  <2>1. StoresOK' /\ recorded' = recorded /\ job' = job
    BY <1>1 DEF WellFormed, StoresOK, EnforcedMeansRecorded, vars
  <2> QED
    BY <2>1, SameJobs
<1>2. CASE ComeToRest \/ Backfill
  BY <1>2, ComeToRestWF, BackfillWF
<1>3. CASE \E forced \in BOOLEAN : Enqueue(forced)
  BY <1>3, EnqueueWF
<1>4. CASE \E a \in {"REVIEW", "AGE_RESTRICTED"} : Report(a)
  BY <1>4, ReportWF
<1>5. ASSUME NEW w \in Worker,
             \/ AdminModerate(w) \/ ApiModerate(w) \/ ApiQuarantine(w)
             \/ VerifyCategory(w) \/ ClassicVineRollback(w)
             \/ ReconcilePreview(w) \/ TestModerate(w)
             \/ Deliver(w) \/ SelectPending(w)
             \/ Escalate(w) \/ Ban(w) \/ Crash(w)
      PROVE  WellFormed'
  BY <1>5, AdminModerateWF, ApiModerateWF, ApiQuarantineWF, VerifyCategoryWF,
     ClassicVineRollbackWF, ReconcilePreviewWF, TestModerateWF, DeliverWF,
     SelectPendingWF, EscalateWF, BanWF, CrashWF
<1>6. ASSUME NEW w \in Worker,
             \/ ClearKeys(w) \/ SetKey(w) \/ NotifyBlossom(w) \/ ReadEvent(w)
             \/ NotifyRelay(w) \/ PutMirror(w) \/ AdminUpsert(w) \/ Flag(w)
             \/ Look(w) \/ Unflag(w) \/ Peek(w) \/ Restore(w) \/ Unset(w)
      PROVE  WellFormed'
  BY <1>6, ClearKeysWF, SetKeyWF, NotifyBlossomWF, ReadEventWF, NotifyRelayWF,
     PutMirrorWF, AdminUpsertWF, FlagWF, LookWF, UnflagWF, PeekWF, RestoreWF, UnsetWF
<1>7. ASSUME NEW w \in Worker,
             \/ ReconcileApply(w) \/ Send(w) \/ Scan(w) \/ Fetch(w) \/ Abandon(w)
             \/ Resolve(w) \/ Remirror(w) \/ Check(w) \/ Mark(w)
      PROVE  WellFormed'
  BY <1>7, ReconcileApplyWF, SendWF, ScanWF, FetchWF, AbandonWF, ResolveWF,
     RemirrorWF, CheckWF, MarkWF
<1> QED
  BY <1>1, <1>2, <1>3, <1>4, <1>5, <1>6, <1>7 DEF Next

-----------------------------------------------------------------------------

\* Every reachable state is well formed.
THEOREM AlwaysWellFormed == Spec => []WellFormed
<1>1. Init => WellFormed
  BY WellFormedInit
<1>2. WellFormed /\ [Next]_vars => WellFormed'
  BY WellFormedStep
<1> QED
  BY <1>1, <1>2, PTL DEF Spec

\* The variables keep their types in every execution: the row, the mirror and
\* the keys hold actions of the vocabulary, and no invocation writes Nothing.
THEOREM TypeCorrect == Spec => []TypeOK
<1>1. WellFormed => TypeOK
  BY WellFormedType
<1> QED
  BY <1>1, AlwaysWellFormed, PTL

\* No blob and no event is ever in a state that nobody had recorded first,
\* wherever invocations end and whichever calls fail.
THEOREM RecordedFirst == Spec => []EnforcedMeansRecorded
<1>1. WellFormed => EnforcedMeansRecorded
  BY DEF WellFormed, StoresOK
<1> QED
  BY <1>1, AlwaysWellFormed, PTL
-----------------------------------------------------------------------------
(* A decision that has come to rest: no forced scan is queued, and the     *)
(* invocations that run either verify categories, which write the mirror   *)
(* and keys only, or wait for the transcript of a row that their UPDATE    *)
(* will not match, or escalate. An escalation needs a QUARANTINE in the    *)
(* mirror: nobody puts one there unless the decision was open to begin     *)
(* with. a is the action of the row, open whether the decision was.        *)

Harmless(j, a, open) ==
  \/ j.at \in {"idle", "done"}
  \/ /\ j.op = "verify" /\ j.at \in {"look", "unflag", "mirror"}
     /\ j.act = "QUARANTINE" \/ (j.at = "look" /\ a = "QUARANTINE") => open
  \/ Waiting(j)
  \/ /\ j.op = "escalate" /\ j.at \in {"mirror", "unset", "set", "ban", "blossom", "relay"}
     /\ open

\* What the row, the blob and the mirror may say, given what they said at rest.
Stands ==
  /\ row # Nothing /\ row.reviewed
  /\ row.action = rested.action \/ (rested.open /\ row.action = "PERMANENT_BAN")
  /\ blossom = rested.blossom \/ (rested.open /\ blossom = "banned")
  /\ mirror = "QUARANTINE" => rested.open
  /\ mirror = Nothing /\ row.action = "QUARANTINE" => rested.open

Resting ==
  /\ Stands
  /\ \A m \in queue : ~m.forced
  /\ \A w \in Worker : Harmless(job[w], row.action, rested.open)

RestInv == WellFormed /\ (rested # Nothing => Resting)

\* A row that stays, or is banned, makes nobody harmful.
LEMMA HarmlessRow ==
  ASSUME NEW j \in Job, NEW a, NEW b, NEW open, Harmless(j, a, open),
         b = a \/ b = "PERMANENT_BAN"
  PROVE  Harmless(j, b, open) /\ Harmless([j EXCEPT !.alone = FALSE], b, open)
<1>1. Harmless(j, b, open)
  BY DEF Harmless
<1> DEFINE k == [j EXCEPT !.alone = FALSE]
<1>2. k.at = j.at /\ k.op = j.op /\ k.act = j.act
  BY DEF Job
<1> QED
  BY <1>1, <1>2 DEF Harmless, Waiting

LEMMA HarmlessIdle == \A a, open : Harmless(Idle, a, open)
  BY DEF Harmless, Idle, NewJob

\* The action of the row before and after a step.
Kept == row'.action = row.action \/ row'.action = "PERMANENT_BAN"

LEMMA HarmlessMove ==
  ASSUME WellFormed, Resting, NEW w \in Worker, NEW j, Becomes(w, j),
         Harmless(j, row'.action, rested.open),
         Stands', Kept, rested' = rested, queue' \subseteq queue
  PROVE  Resting'
<1>1. ASSUME NEW v \in Worker  PROVE Harmless(job'[v], row'.action, rested.open)
  <2>1. CASE v = w
    BY <2>1, HarmlessIdle DEF Becomes
  <2>2. CASE v # w
    <3>1. job[v] \in Job /\ Harmless(job[v], row.action, rested.open)
      BY WellFormedJobs DEF Resting
    <3>2. Harmless([job[v] EXCEPT !.alone = FALSE], row'.action, rested.open)
      BY <3>1, HarmlessRow DEF Kept
    <3>3. job'[v] \in {[job[v] EXCEPT !.alone = FALSE], Idle}
      BY <2>2 DEF Becomes
    <3>4. Harmless(Idle, row'.action, rested.open)
      BY HarmlessIdle
    <3> QED
      BY <3>2, <3>3, <3>4
  <2> QED
    BY <2>1, <2>2
<1> QED
  BY <1>1 DEF Resting

LEMMA HarmlessGoto ==
  ASSUME WellFormed, Resting, NEW w \in Worker, NEW at \in Labels, Goto(w, at),
         Harmless([job[w] EXCEPT !.at = at], row'.action, rested.open),
         Stands', Kept, rested' = rested, queue' \subseteq queue
  PROVE  Resting'
  BY WellFormedJobs, GotoRule, HarmlessMove

\* The stores stand when nothing in them moves.
LEMMA StandsStill ==
  ASSUME Stands, UNCHANGED <<row, mirror, blossom, rested>>
  PROVE  Stands' /\ Kept
  BY DEF Stands, Kept

LEMMA RestedDisturb ==
  ASSUME WellFormed, Resting, Disturb,
         row' # Nothing, row'.reviewed, row'.action = row.action,
         mirror' = mirror, blossom' = blossom, rested' = rested, queue' = queue
  PROVE  Resting'
<1>1. ASSUME NEW v \in Worker  PROVE Harmless(job'[v], row'.action, rested.open)
  <2>1. job[v] \in Job /\ Harmless(job[v], row.action, rested.open)
    BY WellFormedJobs DEF Resting
  <2>2. job'[v] \in {[job[v] EXCEPT !.alone = FALSE], Idle}
    BY DEF Disturb, Rest
  <2> QED
    BY <2>1, <2>2, HarmlessRow, HarmlessIdle
<1>2. Stands'
  BY DEF Resting, Stands
<1> QED
  BY <1>1, <1>2 DEF Resting

\* What the environment does to a decision at rest.
LEMMA RestedEnvironment ==
  ASSUME WellFormed, Resting, rested # Nothing,
         \/ Backfill \/ ComeToRest \/ UNCHANGED vars
         \/ \E forced \in BOOLEAN : Enqueue(forced)
         \/ \E a \in {"REVIEW", "AGE_RESTRICTED"} : Report(a)
  PROVE  Resting'
<1>1. row \in Row /\ row # Nothing /\ row.reviewed
  BY DEF WellFormed, StoresOK, Resting, Stands
<1>2. CASE Backfill
  <2>1. row' # Nothing /\ row'.reviewed /\ row'.action = row.action
    BY <1>1, <1>2 DEF Backfill, Row
  <2> QED
    BY <1>2, <2>1, RestedDisturb DEF Backfill, kv, outside, history
<1>3. CASE UNCHANGED vars
  BY <1>3 DEF vars, Resting, Stands
<1>4. ASSUME NEW forced \in BOOLEAN, Enqueue(forced)  PROVE Resting'
  <2>1. ~forced
    BY <1>4 DEF Enqueue
  <2>2. \A m \in queue' : ~m.forced
    BY <1>4, <2>1 DEF Enqueue, Resting
  <2> QED
    BY <1>4, <2>2 DEF Enqueue, Resting, Stands, history, kv
<1>5. ASSUME NEW a \in {"REVIEW", "AGE_RESTRICTED"}, Report(a)  PROVE Resting'
  <2>1. Reported(a) = row.action
    BY <1>1 DEF Reported
  <2>2. row' # Nothing /\ row'.reviewed /\ row'.action = row.action
    BY <1>1, <1>5, <2>1 DEF Report, Row
  <2> QED
    BY <1>5, <2>2, RestedDisturb DEF Report, Record, kv, outside
<1> QED
  BY <1>2, <1>3, <1>4, <1>5 DEF ComeToRest

\* Invocations that start on a decision at rest are harmless.
LEMMA RestedStart ==
  ASSUME WellFormed, Resting, rested # Nothing, NEW w \in Worker,
         \/ AdminModerate(w) \/ ApiModerate(w) \/ ApiQuarantine(w)
         \/ VerifyCategory(w) \/ ClassicVineRollback(w)
         \/ ReconcilePreview(w) \/ TestModerate(w)
         \/ Deliver(w) \/ SelectPending(w) \/ Escalate(w)
  PROVE  Resting'
<1>1. StoresOK /\ job \in [Worker -> Job] /\ Stands
  BY DEF WellFormed, Resting
<1>2. ASSUME NEW k \in Job, Start(w, k), Harmless(k, row.action, rested.open),
             UNCHANGED <<row, kv, outside, history>>
      PROVE  Resting'
  <2> DEFINE j == [k EXCEPT !.alone = Alone(w)]
  <2>1. Becomes(w, j)
    BY <1>1, <1>2, StartRule
  <2>2. j.at = k.at /\ j.op = k.op /\ j.act = k.act
    BY DEF Job
  <2>3. Harmless(j, row.action, rested.open)
    BY <1>2, <2>2 DEF Harmless, Waiting
  <2>4. Stands' /\ Kept /\ row' = row /\ rested' = rested /\ queue' = queue
    BY <1>1, <1>2, StandsStill DEF kv, outside, history
  <2> QED
    BY <2>1, <2>3, <2>4, HarmlessMove
<1>3. CASE VerifyCategory(w)
  <2> DEFINE j == NewJob("verify", "look", Nothing)
  <2>1. PICK k \in IF mirror = Nothing THEN {j} ELSE Verified(j, mirror) : Start(w, k)
    BY <1>3 DEF VerifyCategory
  <2>2. j \in Job /\ j.op = "verify" /\ j.at = "look" /\ j.act = Nothing
    BY NewJobType DEF Ops, Labels, Steps, Actions, NewJob
  <2>3. "QUARANTINE" # Nothing
    BY DEF MODERATION_ACTIONS
  <2> HIDE DEF j
  <2>4. k \in Job /\ Harmless(k, row.action, rested.open)
    <3>1. CASE mirror = Nothing
      BY <1>1, <2>1, <2>2, <2>3, <3>1 DEF Harmless, Stands
    <3>2. CASE mirror # Nothing
      <4>1. mirror \in MODERATION_ACTIONS /\ k \in Verified(j, mirror)
        BY <1>1, <2>1, <3>2 DEF StoresOK, Actions
      <4>2. /\ k \in Job /\ k.op = "verify" /\ k.at \in {"mirror", "unflag"}
            /\ k.act \in {mirror, "SAFE"}
        BY <2>2, <4>1, VerifiedOK
      <4> QED
        BY <1>1, <4>2 DEF Harmless, Stands
    <3> QED
      BY <3>1, <3>2
  <2> QED
    BY <1>2, <1>3, <2>1, <2>4 DEF VerifyCategory
<1>4. CASE SelectPending(w)
  <2> DEFINE k == [NewJob("reprocess", "fetch", Nothing) EXCEPT !.saw = row.action]
  <2>1. NewJob("reprocess", "fetch", Nothing) \in Job /\ row.action \in MODERATION_ACTIONS
    BY <1>1, NewJobType DEF Ops, Labels, Steps, Actions, StoresOK, Row, Stands
  <2>2. k \in Job /\ k.op = "reprocess" /\ k.at = "fetch"
    BY <2>1 DEF Job, NewJob
  <2>3. Harmless(k, row.action, rested.open)
    BY <2>2 DEF Harmless, Waiting
  <2> QED
    BY <1>2, <1>4, <2>2, <2>3 DEF SelectPending
<1>5. CASE Deliver(w)
  <2>1. PICK m \in queue : /\ queue' = queue \ {m}
                          /\ IF Reactive \/ (row # Nothing /\ ~m.forced)
                             THEN job' = job ELSE FALSE
    BY <1>5 DEF Deliver, Resting, Stands
  <2>2. queue' \subseteq queue /\ job' = job
    BY <1>1, <2>1 DEF Resting, Stands
  <2>3. Stands' /\ row' = row /\ rested' = rested
    BY <1>1, <1>5, StandsStill DEF Deliver, kv, history
  <2> QED
    BY <2>2, <2>3 DEF Resting
<1>6. CASE Escalate(w)
  <2> DEFINE k == [NewJob("escalate", "mirror", "PERMANENT_BAN") EXCEPT !.stale = {"QUARANTINE"}]
  <2>1. NewJob("escalate", "mirror", "PERMANENT_BAN") \in Job
    BY NewJobType DEF Ops, Labels, Steps, Actions, MODERATION_ACTIONS
  <2>2. k \in Job /\ k.op = "escalate" /\ k.at = "mirror"
    BY <2>1 DEF Job, KeyActions, NewJob
  <2>3. Harmless(k, row.action, rested.open)
    BY <1>1, <1>6, <2>2 DEF Escalate, Escalatable, Stands, Harmless
  <2> QED
    BY <1>2, <1>6, <2>2, <2>3 DEF Escalate
<1> QED
  BY <1>3, <1>4, <1>5, <1>6 DEF AdminModerate, ApiModerate, ApiQuarantine, ClassicVineRollback,
     ReconcilePreview, TestModerate, Decide

\* The steps of a verification and of a run that waits for a transcript.
LEMMA RestedWork ==
  ASSUME WellFormed, Resting, rested # Nothing, NEW w \in Worker, job[w].op # "escalate",
         \/ Crash(w) \/ PutMirror(w) \/ Look(w) \/ Unflag(w) \/ Fetch(w) \/ Resolve(w)
  PROVE  Resting'
<1>1. /\ StoresOK /\ job \in [Worker -> Job] /\ job[w] \in Job /\ Stands
      /\ Harmless(job[w], row.action, rested.open)
  BY WellFormedJobs DEF WellFormed, Resting
<1>2. {"idle", "done", "mirror"} \subseteq Labels
  BY DEF Labels, Steps
<1>3. \A at \in {"idle", "done"} : \A a, open : Harmless([job[w] EXCEPT !.at = at], a, open)
  BY <1>1 DEF Harmless, Job
<1>4. ~Unreviewed
  BY <1>1 DEF Unreviewed, Stands
<1>5. CASE Crash(w)
  <2>1. Goto(w, "idle") /\ job[w].op # "scan"
    BY <1>1, <1>5 DEF Crash, Busy, Harmless, Waiting
  <2>2. UNCHANGED <<row, mirror, blossom, rested, queue>>
    BY <1>5, <2>1 DEF Crash, history
  <2> QED
    BY <1>1, <1>2, <1>3, <2>1, <2>2, StandsStill, HarmlessGoto
<1>6. CASE PutMirror(w)
  <2>1. job[w].op = "verify" /\ (job[w].act = "QUARANTINE" => rested.open) /\ mirror' = job[w].act
    BY <1>1, <1>6 DEF PutMirror, At, Harmless, Waiting
  <2>2. Goto(w, "done")
    BY <1>6, <2>1 DEF PutMirror, AfterMirror, Ops
  <2>3. UNCHANGED <<row, blossom, rested, queue>>
    BY <1>6 DEF PutMirror, Record, outside
  <2>4. job[w].act # Nothing
    BY <1>6, WellFormedJobs DEF PutMirror, At, JobOK, Deciding
  <2>5. Stands' /\ Kept
    BY <1>1, <2>1, <2>3, <2>4 DEF Stands, Kept
  <2> QED
    BY <1>2, <1>3, <2>2, <2>3, <2>5, HarmlessGoto
<1>7. CASE Look(w)
  <2>1. PICK k \in Verified(job[w], row.action) : Become(w, k)
    BY <1>1, <1>7 DEF Look, Stands
  <2>2. job[w].op = "verify" /\ job[w].at = "look" /\ row.action \in MODERATION_ACTIONS
    BY <1>1, <1>7 DEF Look, At, Stands, StoresOK, Row
  <2>3. /\ k \in Job /\ k.op = "verify" /\ k.at \in {"mirror", "unflag"}
        /\ k.act \in {row.action, "SAFE"}
    BY <1>1, <2>1, <2>2, VerifiedOK
  <2>4. row.action = "QUARANTINE" => rested.open
    BY <1>1, <2>2 DEF Harmless, Waiting
  <2>5. Becomes(w, k) /\ Harmless(k, row.action, rested.open)
    BY <1>1, <2>1, <2>3, <2>4, BecomeRule DEF Harmless
  <2>6. UNCHANGED <<row, mirror, blossom, rested, queue>>
    BY <1>7 DEF Look, kv, outside, history
  <2> QED
    BY <1>1, <2>5, <2>6, StandsStill, HarmlessMove
<1>8. CASE Unflag(w)
  <2> DEFINE j == [job[w] EXCEPT !.at = "mirror"]
  <2>1. j.at = "mirror" /\ j.op = job[w].op /\ j.act = job[w].act
    BY <1>1 DEF Job
  <2>2. Goto(w, "mirror") /\ Harmless(j, row.action, rested.open)
    BY <1>1, <1>8, <2>1 DEF Unflag, At, Harmless, Waiting
  <2>3. UNCHANGED <<row, mirror, blossom, rested, queue>>
    BY <1>8 DEF Unflag, outside, history
  <2> QED
    BY <1>1, <1>2, <2>2, <2>3, StandsStill, HarmlessGoto
<1>9. CASE Fetch(w)
  <2>1. UNCHANGED <<row, mirror, blossom, rested, queue>>
    BY <1>4, <1>9 DEF Fetch, UpdatePending, kv, outside, history
  <2>2. Stands' /\ Kept
    BY <1>1, <2>1, StandsStill
  <2>3. CASE Goto(w, "idle")
    BY <1>2, <1>3, <2>1, <2>2, <2>3, HarmlessGoto
  <2>4. CASE ~Goto(w, "idle")
    <3> DEFINE k == [job[w] EXCEPT !.mirrored = mirror # Nothing, !.at = "resolve"]
    <3>1. Become(w, k)
      BY <1>4, <1>9, <2>4 DEF Fetch, UpdatePending
    <3>2. k \in Job /\ k.op = job[w].op /\ k.at = "resolve"
      BY <1>1 DEF Job, Steps
    <3>3. Harmless(k, row.action, rested.open)
      BY <1>9, <3>2 DEF Fetch, At, Harmless, Waiting
    <3>4. Becomes(w, k)
      BY <1>1, <3>1, <3>2, BecomeRule
    <3> QED
      BY <2>1, <2>2, <3>3, <3>4, HarmlessMove
  <2> QED
    BY <2>3, <2>4
<1>10. CASE Resolve(w)
  <2>1. Goto(w, "idle") /\ UNCHANGED <<row, mirror, blossom, rested, queue>>
    BY <1>4, <1>10 DEF Resolve, UpdatePending, Record, kv, outside
  <2> QED
    BY <1>1, <1>2, <1>3, <2>1, StandsStill, HarmlessGoto
<1> QED
  BY <1>5, <1>6, <1>7, <1>8, <1>9, <1>10

\* The steps of an escalation: whatever they write, the decision was open.
LEMMA RestedEscalation ==
  ASSUME WellFormed, Resting, rested # Nothing, NEW w \in Worker, job[w].op = "escalate",
         \/ PutMirror(w) \/ Unset(w) \/ SetKey(w) \/ Ban(w) \/ NotifyBlossom(w)
         \/ NotifyRelay(w) \/ Crash(w)
  PROVE  Resting'
<1>1. /\ StoresOK /\ job \in [Worker -> Job] /\ job[w] \in Job /\ JobOK(job[w], recorded) /\ Stands
      /\ Harmless(job[w], row.action, rested.open)
  BY WellFormedJobs DEF WellFormed, Resting
<1>2. job[w].at \notin {"idle", "done"}
  BY DEF PutMirror, Unset, SetKey, Ban, NotifyBlossom, NotifyRelay, Crash, Busy, At
<1>3. rested.open /\ job[w].act = "PERMANENT_BAN"
  BY <1>1, <1>2 DEF Harmless, Waiting, JobOK
<1> DEFINE ats == {"unset", "set", "ban", "blossom", "relay", "done", "idle"}
<1>4. PICK at \in ats : Goto(w, at)
  <2>1. "escalate" \in Ops
    BY DEF Ops
  <2>2. AfterMirror["escalate"] = "unset" /\ AfterBlossom["escalate"] = "relay"
    BY <2>1 DEF AfterMirror, AfterBlossom
  <2> QED
    BY <2>2 DEF PutMirror, Unset, SetKey, Ban, NotifyBlossom, NotifyRelay, Crash
<1>5. at \in Labels
  BY DEF Labels, Steps
<1>6. \A a : Harmless([job[w] EXCEPT !.at = at], a, rested.open)
  <2> DEFINE j == [job[w] EXCEPT !.at = at]
  <2>1. j.at = at /\ j.op = "escalate"
    BY <1>1 DEF Job
  <2> QED
    BY <1>3, <2>1 DEF Harmless
<1>7. rested' = rested /\ queue' = queue
  BY DEF PutMirror, Unset, SetKey, Ban, NotifyBlossom, NotifyRelay, Crash, Record, kv, outside, history
<1>8. mirror' \in {mirror, "PERMANENT_BAN"}
  BY <1>3 DEF PutMirror, Unset, SetKey, Ban, NotifyBlossom, NotifyRelay, Crash, kv
<1>9. blossom' \in {blossom, "banned"}
  <2>1. Enforces("PERMANENT_BAN") = {"banned"}
    BY DEF Enforces, BLOSSOM_ACTION_MAP, MODERATION_ACTIONS
  <2> QED
    BY <1>3, <2>1 DEF PutMirror, Unset, SetKey, Ban, NotifyBlossom, NotifyRelay, Crash, outside
<1>10. row' # Nothing /\ row'.reviewed /\ Kept
  <2>1. CASE row' = row
    BY <1>1, <2>1 DEF Stands, Kept
  <2>2. CASE row' = [row EXCEPT !.action = "PERMANENT_BAN", !.reviewed = TRUE]
    <3>1. row \in Row
      BY <1>1 DEF Stands, StoresOK
    <3>2. row' \in Row /\ row'.action = "PERMANENT_BAN" /\ row'.reviewed
      BY <2>2, <3>1 DEF Row, MODERATION_ACTIONS
    <3> QED
      BY <3>2, RowAssumption DEF Kept
  <2> QED
    BY <1>1, <1>3, <2>1, <2>2 DEF PutMirror, Unset, SetKey, Ban, NotifyBlossom, NotifyRelay, Crash, Stands
<1>11. Stands'
  BY <1>1, <1>3, <1>7, <1>8, <1>9, <1>10 DEF Stands, Kept
<1> QED
  BY <1>4, <1>5, <1>6, <1>7, <1>10, <1>11, HarmlessGoto

\* No other step is possible.
LEMMA RestedElse ==
  ASSUME Resting, NEW w \in Worker,
         \/ ClearKeys(w) \/ ReadEvent(w) \/ AdminUpsert(w) \/ Flag(w) \/ Peek(w)
         \/ Restore(w) \/ ReconcileApply(w) \/ Send(w) \/ Scan(w)
         \/ Abandon(w) \/ Remirror(w) \/ Check(w) \/ Mark(w)
         \/ /\ job[w].op # "escalate"
            /\ SetKey(w) \/ NotifyBlossom(w) \/ NotifyRelay(w) \/ Unset(w) \/ Ban(w)
         \/ /\ job[w].op = "escalate"
            /\ Look(w) \/ Unflag(w) \/ Fetch(w) \/ Resolve(w)
  PROVE  FALSE
<1>1. \/ job[w].at \in {"idle", "done", "look", "unflag", "mirror", "fetch", "resolve"}
      \/ /\ job[w].op = "escalate"
         /\ job[w].at \in {"mirror", "unset", "set", "ban", "blossom", "relay"}
  BY DEF Resting, Harmless, Waiting
<1> QED
  BY <1>1 DEF ClearKeys, SetKey, NotifyBlossom, ReadEvent, NotifyRelay, AdminUpsert, Flag, Ban,
     Peek, Restore, Unset, ReconcileApply, Send, Scan, Abandon, Remirror, Check, Mark, At,
     Look, Unflag, Fetch, Resolve

LEMMA RestInvStep ==
  ASSUME RestInv, [Next]_vars
  PROVE  RestInv'
<1>1. WellFormed /\ WellFormed'
  BY WellFormedStep DEF RestInv
<1>2. CASE rested # Nothing
  <2>1. Resting
    BY <1>2 DEF RestInv
  <2>2. ASSUME NEW w \in Worker,
               \/ Ban(w) \/ Crash(w)
               \/ ClearKeys(w) \/ SetKey(w) \/ NotifyBlossom(w) \/ ReadEvent(w)
               \/ NotifyRelay(w) \/ PutMirror(w) \/ AdminUpsert(w) \/ Flag(w)
               \/ Look(w) \/ Unflag(w) \/ Peek(w) \/ Restore(w) \/ Unset(w)
               \/ ReconcileApply(w) \/ Send(w) \/ Scan(w) \/ Fetch(w) \/ Abandon(w)
               \/ Resolve(w) \/ Remirror(w) \/ Check(w) \/ Mark(w)
        PROVE  Resting'
    BY <1>1, <1>2, <2>1, <2>2, RestedWork, RestedEscalation, RestedElse
  <2>3. Resting'
    BY <1>1, <1>2, <2>1, <2>2, RestedEnvironment, RestedStart DEF Next
  <2> QED
    BY <1>1, <2>3 DEF RestInv
<1>3. CASE rested = Nothing /\ ComeToRest
  <2>1. \A w \in Worker : \A a, open : Harmless(job[w], a, open)
    BY <1>3 DEF ComeToRest, Quiet, Busy, Harmless
  <2>2. /\ rested' = [action |-> row.action, blossom |-> blossom,
                      open |-> "QUARANTINE" = IF mirror = Nothing THEN row.action ELSE mirror]
        /\ UNCHANGED <<row, mirror, blossom, queue, job>>
        /\ row # Nothing /\ row.reviewed /\ \A m \in queue : ~m.forced
    BY <1>3 DEF ComeToRest, Quiet, kv, outside
  <2>3. "QUARANTINE" # Nothing
    BY DEF MODERATION_ACTIONS
  <2>4. Stands'
    BY <2>2, <2>3 DEF Stands
  <2>5. Resting'
    BY <2>1, <2>2, <2>4 DEF Resting
  <2> QED
    BY <1>1, <2>5 DEF RestInv
<1>4. CASE rested = Nothing /\ ~ComeToRest
  <2>1. rested' = rested
    BY <1>4, ZenonT(60) DEF Next, vars, history, Record, Backfill, Enqueue, Report, AdminModerate, ApiModerate,
       ApiQuarantine, VerifyCategory, ClassicVineRollback, ReconcilePreview, TestModerate,
       Deliver, SelectPending, Escalate, Ban, Crash, ClearKeys, SetKey, NotifyBlossom, ReadEvent,
       NotifyRelay, PutMirror, AdminUpsert, Flag, Look, Unflag, Peek, Restore, Unset,
       ReconcileApply, Send, Scan, Fetch, Abandon, Resolve, Remirror, Check, Mark
  <2> QED
    BY <1>1, <1>4, <2>1 DEF RestInv
<1> QED
  BY <1>2, <1>3, <1>4

\* Once a reviewed decision has come to rest, the service by itself changes it,
\* and the state of the blob, only into a ban, and only where the mirror said
\* QUARANTINE or could still be put to say so: the guards of the cron's UPDATE,
\* of the upsert of a report and of the queue consumer are enough for the rest.
THEOREM RestedStands == Spec => []RestedDecisionStands
<1>1. Init => RestInv
  BY WellFormedInit DEF Init, RestInv
<1>2. RestInv /\ [Next]_vars => RestInv'
  BY RestInvStep
<1>3. RestInv => RestedDecisionStands
  BY DEF RestInv, Resting, Stands, RestedDecisionStands
<1> QED
  BY <1>1, <1>2, <1>3, PTL DEF Spec

-----------------------------------------------------------------------------
(* A request that nothing runs beside. What its stores hold by the time it *)
(* is at each of its steps: r is the row, m the mirror, k the keys, b the  *)
(* blob and q the queue.                                                   *)

Reads(r) == IF r = Nothing THEN Nothing ELSE r.action
Told(j, b) == Enforces(j.act) \subseteq {b}

AdminOnWay(j, r, m, k, b) ==
  /\ j.at \in {"mirror", "upsert", "clear", "set", "blossom", "relay", "done"}
  /\ j.at # "mirror" => m = j.act
  /\ j.at \notin {"mirror", "upsert"} => r # Nothing /\ r.action = j.act /\ r.reviewed /\ ~r.pending
  /\ j.at = "set" => k = {} /\ j.act \in KeyActions
  /\ j.at \in {"blossom", "relay", "done"} => k = {j.act} \cap KeyActions
  /\ j.at \in {"relay", "done"} => Told(j, b)

ApiOnWay(j, r, b) ==
  /\ j.at \in {"blossom", "event", "relay", "done"}
  /\ r # Nothing /\ r.action = j.act
  /\ j.at # "blossom" => Told(j, b)

QuarantineOnWay(j, r, k, b) ==
  /\ j.at \in {"flag", "blossom", "done"} /\ j.act \in {"QUARANTINE", "REVIEW"}
  /\ r # Nothing => r.action = j.act /\ r.reviewed
  /\ j.at # "flag" => ("QUARANTINE" \in k <=> j.act = "QUARANTINE")
  /\ j.at = "done" => Told(j, b)

RollbackOnWay(j, r, k, b) ==
  /\ j.at \in {"peek", "restore", "unset", "blossom", "done"} /\ j.act = "SAFE"
  /\ j.at = "peek" => j.saw = Reads(r)
  /\ j.at = "restore" => j.saw # "SAFE" /\ j.stale = k
  /\ j.at \in {"unset", "blossom", "done"} => r # Nothing /\ r.action = "SAFE"
  /\ j.at = "unset" => j.stale = k
  /\ j.at \in {"blossom", "done"} => k = {}
  /\ j.at = "done" => b = "active" \/ (j.saw = "SAFE" /\ j.stale = {})

RepairOnWay(j, b) ==
  /\ j.at \in {"replay", "blossom", "done"} /\ j.act = "AGE_RESTRICTED"
  /\ j.at = "done" => b = "age_restricted"

ScanOnWay(j, r, k) ==
  /\ j.at \in {"classify", "flag", "blossom", "relay", "done"}
  /\ j.at # "classify" => r # Nothing /\ r.action = j.act
  /\ j.at \notin {"classify", "flag"} => (j.act = "QUARANTINE" => "QUARANTINE" \in k)

EscalateOnWay(j, m, k) ==
  /\ j.at \in {"mirror", "unset", "set", "ban", "blossom", "relay", "done"}
  /\ j.act = "PERMANENT_BAN" /\ j.stale = {"QUARANTINE"}
  /\ j.at # "mirror" => m = j.act
  /\ j.at \notin {"mirror", "unset"} => "QUARANTINE" \notin k
  /\ j.at \in {"ban", "blossom", "relay", "done"} => j.act \in k

Underway(j, r, m, k, b, q) ==
  CASE j.op = "admin" -> AdminOnWay(j, r, m, k, b)
    [] j.op = "api" -> ApiOnWay(j, r, b)
    [] j.op = "quarantine" -> QuarantineOnWay(j, r, k, b)
    [] j.op = "rollback" -> RollbackOnWay(j, r, k, b)
    [] j.op = "repair" -> RepairOnWay(j, b)
    [] j.op = "verify" -> /\ j.at \in {"look", "unflag", "mirror", "done"}
                          /\ j.at = "done" => m = j.act
    [] j.op = "remoderate" -> /\ j.at \in {"send", "done"} /\ r = Nothing
                              /\ j.at = "done" => Reactive \/ q # {}
    [] j.op = "scan" -> ScanOnWay(j, r, k)
    [] j.op = "escalate" -> EscalateOnWay(j, m, k)
    [] j.op = "reprocess" -> TRUE

OnWay ==
  \A w \in Worker :
    job[w].alone /\ job[w].at # "idle" => Underway(job[w], row, mirror, keys, blossom, queue)

LandingInv == WellFormed /\ OnWay

LEMMA LandingJobs ==
  LandingInv => /\ job \in [Worker -> Job] /\ StoresOK
                /\ \A w \in Worker :
                     /\ job[w] \in Job /\ JobOK(job[w], recorded)
                     /\ job[w].alone /\ job[w].at # "idle"
                          => Underway(job[w], row, mirror, keys, blossom, queue)
  BY WellFormedJobs DEF LandingInv, WellFormed, OnWay

\* Who moves has to be on its way; the others are not alone any more.
LEMMA OnCourse ==
  ASSUME LandingInv, NEW w \in Worker, NEW j \in Job, Becomes(w, j),
         j.alone /\ j.at # "idle" => Underway(j, row', mirror', keys', blossom', queue')
  PROVE  OnWay'
<1>1. job \in [Worker -> Job] /\ job' \in [Worker -> Job]
  BY DEF LandingInv, WellFormed, Becomes
<1>2. ~Idle.alone
  BY DEF Idle, NewJob
<1>3. \A v \in Worker \ {w} : ~job'[v].alone
  BY <1>1, <1>2 DEF Becomes, Job
<1>4. job'[w].alone => job'[w] = j
  BY <1>2 DEF Becomes
<1> QED
  BY <1>3, <1>4 DEF OnWay

\* Nobody who moves to another step forgets what it has read.
LEMMA GotoFields ==
  ASSUME NEW k \in Job, NEW at \in Labels
  PROVE  LET j == [k EXCEPT !.at = at]
         IN  /\ j.at = at /\ j.op = k.op /\ j.act = k.act /\ j.saw = k.saw
             /\ j.stale = k.stale /\ j.alone = k.alone
  BY DEF Job

LEMMA GotoLands ==
  ASSUME LandingInv, NEW w \in Worker, NEW at \in Labels, Goto(w, at), job[w].at # "idle",
         \A j \in Job :
           /\ j.at = at /\ j.op = job[w].op /\ j.act = job[w].act /\ j.saw = job[w].saw
           /\ j.stale = job[w].stale
           /\ at # "idle" /\ Underway(job[w], row, mirror, keys, blossom, queue)
           => Underway(j, row', mirror', keys', blossom', queue')
  PROVE  OnWay'
<1> DEFINE j == [job[w] EXCEPT !.at = at]
<1>1. j \in Job /\ Becomes(w, j) /\ job[w] \in Job
  BY LandingJobs, GotoRule
<1>2. /\ j.at = at /\ j.op = job[w].op /\ j.act = job[w].act /\ j.saw = job[w].saw
      /\ j.stale = job[w].stale /\ j.alone = job[w].alone
  BY <1>1, GotoFields
<1>3. ASSUME j.alone, j.at # "idle"  PROVE Underway(j, row', mirror', keys', blossom', queue')
  <2>1. Underway(job[w], row, mirror, keys, blossom, queue)
    BY <1>2, <1>3, LandingJobs
  <2> QED
    BY <1>1, <1>2, <1>3, <2>1
<1> QED
  BY <1>1, <1>3, OnCourse

LEMMA Labelled ==
  /\ Steps \subseteq Labels /\ "done" \in Labels /\ "idle" \in Labels
  /\ {"mirror", "upsert", "clear", "set", "flag", "blossom", "event", "relay",
      "look", "unflag", "peek", "restore", "unset", "replay", "send",
      "classify", "fetch", "resolve", "abandon", "remirror", "check", "mark", "ban"} \subseteq Labels
  BY DEF Labels, Steps

\* An action asks Blossom for one state at most.
LEMMA AsksForOne ==
  /\ \A a \in MODERATION_ACTIONS : \A b \in Enforces(a) : Enforces(a) = {b}
  /\ Enforces("REVIEW") = {} /\ Enforces("AGE_RESTRICTED") = {"age_restricted"}
<1>1. Enforces("REVIEW") = {}
  <2>1. \A x : x \notin Enforces("REVIEW")
    BY DEF Enforces
  <2> QED
    BY <2>1
<1>2. Enforces("AGE_RESTRICTED") = {"age_restricted"}
  BY DEF Enforces, BLOSSOM_ACTION_MAP, MODERATION_ACTIONS
<1>3. \A a \in MODERATION_ACTIONS \ {"REVIEW"} : Enforces(a) = {BLOSSOM_ACTION_MAP[a]}
  BY DEF Enforces, MODERATION_ACTIONS
<1>4. \A a \in MODERATION_ACTIONS : \A b \in Enforces(a) : Enforces(a) = {b}
  BY <1>1, <1>3
<1> QED
  BY <1>1, <1>2, <1>4

LEMMA RowIsSome == Nothing \notin Row
  OBVIOUS

\* The key that goes with an action.
LEMMA KeyOf ==
  \A a : {a} \cap KeyActions = IF a \in KeyActions THEN {a} ELSE {}
  OBVIOUS


LEMMA ClearKeysLands ==
  ASSUME LandingInv, NEW w \in Worker, ClearKeys(w)
  PROVE  OnWay'
<1> DEFINE at == IF job[w].act \in KeyActions THEN "set" ELSE "blossom"
<1>1. at \in Labels /\ Goto(w, at) /\ job[w].at # "idle"
  BY Labelled DEF ClearKeys, At
<1>2. /\ keys' = {} /\ UNCHANGED <<row, mirror, blossom, queue>>
      /\ job[w].op \in {"admin", "reprocess"} /\ job[w].at = "clear"
      /\ job[w].act \notin KeyActions => keys' = {job[w].act} \cap KeyActions
  BY DEF ClearKeys, At, kv, outside
<1>3. ASSUME NEW j \in Job, j.at = at, j.op = job[w].op, j.act = job[w].act, j.saw = job[w].saw,
             j.stale = job[w].stale, Underway(job[w], row, mirror, keys, blossom, queue), at # "idle"
      PROVE  Underway(j, row', mirror', keys', blossom', queue')
  BY <1>2, <1>3 DEF Underway, AdminOnWay, Told
<1> QED
  BY <1>1, <1>3, GotoLands

LEMMA SetKeyLands ==
  ASSUME LandingInv, NEW w \in Worker, SetKey(w)
  PROVE  OnWay'
<1> DEFINE at == IF job[w].op = "escalate" THEN "ban" ELSE "blossom"
<1>1. at \in Labels /\ Goto(w, at) /\ job[w].at # "idle"
  BY Labelled DEF SetKey, At
<1>2. /\ UNCHANGED <<row, mirror, blossom, queue>> /\ keys' = keys \cup {job[w].act}
      /\ job[w].op \in {"admin", "reprocess", "escalate"} /\ job[w].at = "set"
      /\ keys = {} /\ job[w].act \in KeyActions => keys' = {job[w].act} \cap KeyActions
  BY DEF SetKey, At, kv, outside
<1>3. ASSUME NEW j \in Job, j.at = at, j.op = job[w].op, j.act = job[w].act, j.saw = job[w].saw,
             j.stale = job[w].stale, Underway(job[w], row, mirror, keys, blossom, queue), at # "idle"
      PROVE  Underway(j, row', mirror', keys', blossom', queue')
  <2>1. CASE job[w].op = "escalate"
    BY <1>2, <1>3, <2>1 DEF Underway, EscalateOnWay
  <2>2. CASE job[w].op # "escalate"
    BY <1>2, <1>3, <2>2 DEF Underway, AdminOnWay, Told
  <2> QED
    BY <2>1, <2>2
<1> QED
  BY <1>1, <1>3, GotoLands

LEMMA PutMirrorLands ==
  ASSUME LandingInv, NEW w \in Worker, PutMirror(w)
  PROVE  OnWay'
<1> DEFINE at == AfterMirror[job[w].op]
<1>1. /\ job[w].op \in {"admin", "verify", "reprocess", "escalate"} /\ job[w].at = "mirror"
      /\ mirror' = job[w].act /\ UNCHANGED <<row, keys, blossom, queue>>
  BY DEF PutMirror, At, outside
<1>2. at = CASE job[w].op = "admin" -> "upsert" [] job[w].op = "escalate" -> "unset"
             [] OTHER -> "done"
  BY <1>1 DEF AfterMirror, Ops
<1> HIDE DEF at
<1>3. at \in Labels /\ Goto(w, at) /\ job[w].at # "idle"
  BY <1>1, <1>2, Labelled DEF PutMirror, at
<1>4. ASSUME NEW j \in Job, j.at = at, j.op = job[w].op, j.act = job[w].act, j.saw = job[w].saw,
             j.stale = job[w].stale, Underway(job[w], row, mirror, keys, blossom, queue), at # "idle"
      PROVE  Underway(j, row', mirror', keys', blossom', queue')
  BY <1>1, <1>2, <1>4 DEF Underway, AdminOnWay, EscalateOnWay
<1> QED
  BY <1>3, <1>4, GotoLands

LEMMA AdminUpsertLands ==
  ASSUME LandingInv, NEW w \in Worker, AdminUpsert(w)
  PROVE  OnWay'
<1> DEFINE at == "clear"
<1>1. at \in Labels /\ Goto(w, at) /\ job[w].at # "idle"
  BY Labelled DEF AdminUpsert, At
<1>2. row' \in Row /\ row'.action = job[w].act /\ row'.reviewed /\ ~row'.pending
  BY LandingJobs DEF AdminUpsert, StoresOK, Row, MODERATION_ACTIONS, Known, JobOK, Deciding, At
<1>3. ASSUME NEW j \in Job, j.at = at, j.op = job[w].op, j.act = job[w].act, j.saw = job[w].saw,
             j.stale = job[w].stale, Underway(job[w], row, mirror, keys, blossom, queue), at # "idle"
      PROVE  Underway(j, row', mirror', keys', blossom', queue')
  BY <1>2, <1>3, LandingJobs, RowIsSome DEF AdminUpsert, At, kv, outside, StoresOK, JobOK, Deciding,
     Underway, AdminOnWay, ApiOnWay, QuarantineOnWay, RollbackOnWay, RepairOnWay, ScanOnWay, EscalateOnWay, Told, Reads
<1> QED
  BY <1>1, <1>3, GotoLands

LEMMA FlagLands ==
  ASSUME LandingInv, NEW w \in Worker, Flag(w)
  PROVE  OnWay'
<1> DEFINE at == "blossom"
<1>1. at \in Labels /\ Goto(w, at) /\ job[w].at # "idle"
  BY Labelled DEF Flag, At
<1>2. ASSUME NEW j \in Job, j.at = at, j.op = job[w].op, j.act = job[w].act, j.saw = job[w].saw,
             j.stale = job[w].stale, Underway(job[w], row, mirror, keys, blossom, queue), at # "idle"
      PROVE  Underway(j, row', mirror', keys', blossom', queue')
  BY <1>2, LandingJobs, ZenonT(60) DEF Flag, At, kv, outside, StoresOK, JobOK, Deciding,
     Underway, AdminOnWay, ApiOnWay, QuarantineOnWay, RollbackOnWay, RepairOnWay, ScanOnWay, EscalateOnWay, Told, Reads
<1> QED
  BY <1>1, <1>2, GotoLands

LEMMA UnflagLands ==
  ASSUME LandingInv, NEW w \in Worker, Unflag(w)
  PROVE  OnWay'
<1> DEFINE at == "mirror"
<1>1. at \in Labels /\ Goto(w, at) /\ job[w].at # "idle"
  BY Labelled DEF Unflag, At
<1>2. ASSUME NEW j \in Job, j.at = at, j.op = job[w].op, j.act = job[w].act, j.saw = job[w].saw,
             j.stale = job[w].stale, Underway(job[w], row, mirror, keys, blossom, queue), at # "idle"
      PROVE  Underway(j, row', mirror', keys', blossom', queue')
  BY <1>2, LandingJobs DEF Unflag, At, kv, outside, StoresOK, JobOK, Deciding,
     Underway, AdminOnWay, ApiOnWay, QuarantineOnWay, RollbackOnWay, RepairOnWay, ScanOnWay, EscalateOnWay, Told, Reads
<1> QED
  BY <1>1, <1>2, GotoLands

LEMMA RestoreLands ==
  ASSUME LandingInv, NEW w \in Worker, Restore(w)
  PROVE  OnWay'
<1> DEFINE at == IF job[w].stale = {} THEN "blossom" ELSE "unset"
<1>1. at \in Labels /\ Goto(w, at) /\ job[w].at # "idle"
  BY Labelled DEF Restore, At
<1>2. row' \in Row /\ row'.action = "SAFE"
  BY LandingJobs DEF Restore, StoresOK, Row, MODERATION_ACTIONS, Known, JobOK, Deciding, At
<1>3. ASSUME NEW j \in Job, j.at = at, j.op = job[w].op, j.act = job[w].act, j.saw = job[w].saw,
             j.stale = job[w].stale, Underway(job[w], row, mirror, keys, blossom, queue), at # "idle"
      PROVE  Underway(j, row', mirror', keys', blossom', queue')
  BY <1>2, <1>3, LandingJobs, RowIsSome, ZenonT(60) DEF Restore, At, kv, outside, StoresOK, JobOK, Deciding,
     Underway, AdminOnWay, ApiOnWay, QuarantineOnWay, RollbackOnWay, RepairOnWay, ScanOnWay, EscalateOnWay, Told, Reads
<1> QED
  BY <1>1, <1>3, GotoLands

LEMMA UnsetLands ==
  ASSUME LandingInv, NEW w \in Worker, Unset(w)
  PROVE  OnWay'
<1> DEFINE at == IF job[w].op = "escalate" THEN "set" ELSE "blossom"
<1>1. at \in Labels /\ Goto(w, at) /\ job[w].at # "idle"
  BY Labelled DEF Unset, At
<1>2. /\ job[w].op \in {"rollback", "escalate"} /\ job[w].at = "unset"
      /\ keys' = keys \ job[w].stale /\ UNCHANGED <<row, mirror, blossom, queue>>
  BY DEF Unset, At, outside
<1>3. ASSUME NEW j \in Job, j.at = at, j.op = job[w].op, j.act = job[w].act, j.saw = job[w].saw,
             j.stale = job[w].stale, Underway(job[w], row, mirror, keys, blossom, queue), at # "idle"
      PROVE  Underway(j, row', mirror', keys', blossom', queue')
  <2>1. CASE job[w].op = "rollback"
    BY <1>2, <1>3, <2>1 DEF Underway, RollbackOnWay
  <2>2. CASE job[w].op = "escalate"
    BY <1>2, <1>3, <2>2 DEF Underway, EscalateOnWay
  <2> QED
    BY <1>2, <2>1, <2>2
<1> QED
  BY <1>1, <1>3, GotoLands

LEMMA ReconcileApplyLands ==
  ASSUME LandingInv, NEW w \in Worker, ReconcileApply(w)
  PROVE  OnWay'
<1> DEFINE at == IF blossom = "restricted" THEN "blossom" ELSE "idle"
<1>1. at \in Labels /\ Goto(w, at) /\ job[w].at # "idle"
  BY Labelled DEF ReconcileApply, At
<1>2. ASSUME NEW j \in Job, j.at = at, j.op = job[w].op, j.act = job[w].act, j.saw = job[w].saw,
             j.stale = job[w].stale, Underway(job[w], row, mirror, keys, blossom, queue), at # "idle"
      PROVE  Underway(j, row', mirror', keys', blossom', queue')
  BY <1>2, LandingJobs DEF ReconcileApply, At, kv, outside, StoresOK, JobOK, Deciding,
     Underway, AdminOnWay, ApiOnWay, QuarantineOnWay, RollbackOnWay, RepairOnWay, ScanOnWay, EscalateOnWay, Told, Reads
<1> QED
  BY <1>1, <1>2, GotoLands

LEMMA SendLands ==
  ASSUME LandingInv, NEW w \in Worker, Send(w)
  PROVE  OnWay'
<1> DEFINE at == "done"
<1>1. at \in Labels /\ Goto(w, at) /\ job[w].at # "idle"
  BY Labelled DEF Send, At
<1>2. ASSUME NEW j \in Job, j.at = at, j.op = job[w].op, j.act = job[w].act, j.saw = job[w].saw,
             j.stale = job[w].stale, Underway(job[w], row, mirror, keys, blossom, queue), at # "idle"
      PROVE  Underway(j, row', mirror', keys', blossom', queue')
  BY <1>2, LandingJobs DEF Send, At, kv, outside, StoresOK, JobOK, Deciding,
     Underway, AdminOnWay, ApiOnWay, QuarantineOnWay, RollbackOnWay, RepairOnWay, ScanOnWay, EscalateOnWay, Told, Reads
<1> QED
  BY <1>1, <1>2, GotoLands

LEMMA RemirrorLands ==
  ASSUME LandingInv, NEW w \in Worker, Remirror(w)
  PROVE  OnWay'
<1> DEFINE at == IF job[w].saw = job[w].act THEN "done" ELSE "check"
<1>1. at \in Labels /\ Goto(w, at) /\ job[w].at # "idle"
  BY Labelled DEF Remirror, At
<1>2. ASSUME NEW j \in Job, j.at = at, j.op = job[w].op, j.act = job[w].act, j.saw = job[w].saw,
             j.stale = job[w].stale, Underway(job[w], row, mirror, keys, blossom, queue), at # "idle"
      PROVE  Underway(j, row', mirror', keys', blossom', queue')
  BY <1>2, LandingJobs DEF Remirror, At, kv, outside, StoresOK, JobOK, Deciding,
     Underway, AdminOnWay, ApiOnWay, QuarantineOnWay, RollbackOnWay, RepairOnWay, ScanOnWay, EscalateOnWay, Told, Reads
<1> QED
  BY <1>1, <1>2, GotoLands

LEMMA CheckLands ==
  ASSUME LandingInv, NEW w \in Worker, Check(w)
  PROVE  OnWay'
<1> DEFINE at == IF <<job[w].saw, job[w].act>> \in notified THEN "done" ELSE "clear"
<1>1. at \in Labels /\ Goto(w, at) /\ job[w].at # "idle"
  BY Labelled DEF Check, At
<1>2. ASSUME NEW j \in Job, j.at = at, j.op = job[w].op, j.act = job[w].act, j.saw = job[w].saw,
             j.stale = job[w].stale, Underway(job[w], row, mirror, keys, blossom, queue), at # "idle"
      PROVE  Underway(j, row', mirror', keys', blossom', queue')
  BY <1>2, LandingJobs DEF Check, At, kv, outside, StoresOK, JobOK, Deciding,
     Underway, AdminOnWay, ApiOnWay, QuarantineOnWay, RollbackOnWay, RepairOnWay, ScanOnWay, EscalateOnWay, Told, Reads
<1> QED
  BY <1>1, <1>2, GotoLands

LEMMA MarkLands ==
  ASSUME LandingInv, NEW w \in Worker, Mark(w)
  PROVE  OnWay'
<1> DEFINE at == "done"
<1>1. at \in Labels /\ Goto(w, at) /\ job[w].at # "idle"
  BY Labelled DEF Mark, At
<1>2. ASSUME NEW j \in Job, j.at = at, j.op = job[w].op, j.act = job[w].act, j.saw = job[w].saw,
             j.stale = job[w].stale, Underway(job[w], row, mirror, keys, blossom, queue), at # "idle"
      PROVE  Underway(j, row', mirror', keys', blossom', queue')
  BY <1>2, LandingJobs DEF Mark, At, kv, outside, StoresOK, JobOK, Deciding,
     Underway, AdminOnWay, ApiOnWay, QuarantineOnWay, RollbackOnWay, RepairOnWay, ScanOnWay, EscalateOnWay, Told, Reads
<1> QED
  BY <1>1, <1>2, GotoLands

LEMMA NotifyRelayLands ==
  ASSUME LandingInv, NEW w \in Worker, NotifyRelay(w)
  PROVE  OnWay'
<1> DEFINE at == IF job[w].op = "reprocess" THEN "mark" ELSE "done"
<1>1. at \in Labels /\ Goto(w, at) /\ job[w].at # "idle"
  BY Labelled DEF NotifyRelay, At
<1>2. ASSUME NEW j \in Job, j.at = at, j.op = job[w].op, j.act = job[w].act, j.saw = job[w].saw,
             j.stale = job[w].stale, Underway(job[w], row, mirror, keys, blossom, queue), at # "idle"
      PROVE  Underway(j, row', mirror', keys', blossom', queue')
  BY <1>2, LandingJobs, ZenonT(60) DEF NotifyRelay, At, kv, outside, StoresOK, JobOK, Deciding,
     Underway, AdminOnWay, ApiOnWay, QuarantineOnWay, RollbackOnWay, RepairOnWay, ScanOnWay, EscalateOnWay, Told, Reads
<1> QED
  BY <1>1, <1>2, GotoLands

LEMMA NotifyBlossomLands ==
  ASSUME LandingInv, NEW w \in Worker, NotifyBlossom(w)
  PROVE  OnWay'
<1>1. job[w] \in Job /\ job[w].at = "blossom" /\ job[w].act \in MODERATION_ACTIONS
  BY LandingJobs DEF NotifyBlossom, At, JobOK, Deciding
<1>2. PICK at \in {"event", "relay", "done", "idle"} :
        /\ Goto(w, at)
        /\ \/ at = AfterBlossom[job[w].op] /\ Told(job[w], blossom')
           \/ at = (IF job[w].op \in {"scan", "reprocess", "escalate"} THEN "relay" ELSE "idle")
  <2>1. AfterBlossom[job[w].op] \in {"event", "relay", "done"}
    BY <1>1 DEF AfterBlossom, Job
  <2>2. blossom' \in (IF job[w].act = "REVIEW" THEN {blossom} ELSE Enforces(job[w].act))
          => Told(job[w], blossom')
    BY <1>1, AsksForOne DEF Told
  <2> QED
    BY <2>1, <2>2 DEF NotifyBlossom
<1>3. /\ at \in Labels
      /\ UNCHANGED <<row, mirror, keys, queue>>
  BY Labelled DEF NotifyBlossom, kv
<1>4. ASSUME NEW j \in Job, j.at = at, j.op = job[w].op, j.act = job[w].act, j.saw = job[w].saw,
             j.stale = job[w].stale, Underway(job[w], row, mirror, keys, blossom, queue), at # "idle"
      PROVE  Underway(j, row', mirror', keys', blossom', queue')
  <2>1. CASE job[w].op = "scan"
    BY <1>1, <1>2, <1>3, <1>4, <2>1 DEF AfterBlossom, Ops, Underway, ScanOnWay
  <2>2. CASE job[w].op = "admin"
    BY <1>1, <1>2, <1>3, <1>4, <2>2 DEF AfterBlossom, Ops, Underway, AdminOnWay, Told
  <2>3. CASE job[w].op = "api"
    BY <1>1, <1>2, <1>3, <1>4, <2>3 DEF AfterBlossom, Ops, Underway, ApiOnWay, Told
  <2>4. CASE job[w].op = "quarantine"
    BY <1>1, <1>2, <1>3, <1>4, <2>4 DEF AfterBlossom, Ops, Underway, QuarantineOnWay, Told
  <2>5. CASE job[w].op = "rollback"
    BY <1>1, <1>2, <1>3, <1>4, <2>5, EnforcesSafe
       DEF AfterBlossom, Ops, Underway, RollbackOnWay, Told
  <2>6. CASE job[w].op = "repair"
    BY <1>1, <1>2, <1>3, <1>4, <2>6, AsksForOne DEF AfterBlossom, Ops, Underway, RepairOnWay, Told
  <2>7. CASE job[w].op \in {"verify", "remoderate", "reprocess"}
    BY <1>1, <1>4, <2>7 DEF Underway
  <2>8. CASE job[w].op = "escalate"
    BY <1>1, <1>2, <1>3, <1>4, <2>8 DEF AfterBlossom, Ops, Underway, EscalateOnWay
  <2> QED
    BY <1>1, <2>1, <2>2, <2>3, <2>4, <2>5, <2>6, <2>7, <2>8 DEF Job, Ops
<1> QED
  BY <1>1, <1>2, <1>3, <1>4, GotoLands

\* What an invocation has read does not change what it has carried out.
LEMMA ReadEventLands ==
  ASSUME LandingInv, NEW w \in Worker, ReadEvent(w)
  PROVE  OnWay'
<1> DEFINE j == [job[w] EXCEPT !.event = Known, !.at = "relay"]
<1>1. job[w] \in Job /\ Known \in BOOLEAN /\ job[w].op = "api" /\ job[w].at = "event"
  BY LandingJobs DEF Known, StoresOK, Row, ReadEvent, At
<1>2. j \in Job /\ Becomes(w, j)
  <2>1. j \in Job
    BY <1>1 DEF Job, Steps
  <2> QED
    BY <2>1, BecomeRule, LandingJobs DEF ReadEvent
<1>3. j.op = "api" /\ j.at = "relay" /\ j.act = job[w].act /\ j.alone = job[w].alone
  BY <1>1 DEF Job
<1>4. UNCHANGED <<row, mirror, keys, blossom, queue>>
  BY DEF ReadEvent, kv, outside
<1>5. j.alone => Underway(j, row', mirror', keys', blossom', queue')
  BY <1>1, <1>3, <1>4, LandingJobs DEF Underway, ApiOnWay, Told
<1> QED
  BY <1>2, <1>5, OnCourse

LEMMA PeekLands ==
  ASSUME LandingInv, NEW w \in Worker, Peek(w)
  PROVE  OnWay'
<1> DEFINE at == IF job[w].saw # "SAFE" THEN "restore" ELSE IF keys # {} THEN "unset" ELSE "done"
           j == [job[w] EXCEPT !.stale = keys, !.at = at]
<1>1. job[w] \in Job /\ keys \subseteq KeyActions /\ job[w].op = "rollback" /\ job[w].at = "peek"
  BY LandingJobs DEF StoresOK, Peek, At
<1>2. at \in Labels
  BY Labelled
<1>3. j \in Job
  BY <1>1, <1>2 DEF Job, Labels
<1>4. Becomes(w, j)
  BY <1>3, BecomeRule, LandingJobs DEF Peek
<1>5. /\ j.op = "rollback" /\ j.at = at /\ j.act = job[w].act /\ j.saw = job[w].saw
      /\ j.stale = keys /\ j.alone = job[w].alone
  BY <1>1 DEF Job
<1>6. UNCHANGED <<row, mirror, keys, blossom, queue>>
  BY DEF Peek, kv, outside
<1>7. "SAFE" # Nothing
  BY DEF MODERATION_ACTIONS
<1>8. ASSUME j.alone
      PROVE  Underway(j, row', mirror', keys', blossom', queue')
  <2>1. Underway(job[w], row, mirror, keys, blossom, queue)
    BY <1>1, <1>5, <1>8, LandingJobs
  <2>2. job[w].saw = Reads(row) /\ job[w].act = "SAFE"
    BY <1>1, <2>1 DEF Underway, RollbackOnWay
  <2>3. job[w].saw = "SAFE" => row # Nothing /\ row.action = "SAFE"
    BY <1>7, <2>2 DEF Reads
  <2>4. RollbackOnWay(j, row, keys, blossom)
    BY <1>1, <1>5, <2>2, <2>3 DEF RollbackOnWay
  <2> QED
    BY <1>5, <1>6, <2>4 DEF Underway
<1> QED
  BY <1>3, <1>4, <1>8, OnCourse

\* A reclassification promises nothing that it would have to keep.
LEMMA ReprocessLands ==
  ASSUME LandingInv, NEW w \in Worker, NEW j \in Job, Become(w, j), j.op = "reprocess"
  PROVE  OnWay'
<1>1. Becomes(w, j)
  BY BecomeRule, LandingJobs
<1>2. Underway(j, row', mirror', keys', blossom', queue')
  BY DEF Underway
<1> QED
  BY <1>1, <1>2, OnCourse

LEMMA AbandonLands ==
  ASSUME LandingInv, NEW w \in Worker, Abandon(w)
  PROVE  OnWay'
<1> DEFINE act == IF mirror # Nothing THEN mirror ELSE job[w].saw
           j == [job[w] EXCEPT !.act = act, !.at = "mirror"]
<1>1. job[w] \in Job /\ job[w].op = "reprocess" /\ act \in Actions
  BY LandingJobs DEF Abandon, At, StoresOK, Job, Actions
<1>2. j \in Job /\ j.op = "reprocess"
  <2>1. j.op = "reprocess"
    BY <1>1 DEF Job
  <2> QED
    BY <1>1, <2>1, SetFields, Labelled
<1> QED
  BY <1>2, ReprocessLands DEF Abandon

LEMMA UpdatePendingLands ==
  ASSUME LandingInv, NEW w \in Worker, NEW a \in MODERATION_ACTIONS,
         NEW at \in {"idle", "abandon", "remirror"}, UpdatePending(w, a, at),
         job[w].op = "reprocess"
  PROVE  OnWay'
<1> DEFINE j == [job[w] EXCEPT !.act = a, !.at = at]
           k == [job[w] EXCEPT !.at = "idle"]
<1>1. job[w] \in Job /\ at \in Labels /\ a \in Actions
  BY LandingJobs, Labelled DEF Actions
<1>2. j \in Job /\ j.op = "reprocess" /\ k \in Job /\ k.op = "reprocess"
  <2>1. j.op = "reprocess" /\ k.op = "reprocess"
    BY <1>1 DEF Job
  <2> QED
    BY <1>1, <2>1, SetFields, AtType, Labelled
<1>3. Become(w, j) \/ Become(w, k)
  BY DEF UpdatePending, Goto
<1> QED
  BY <1>2, <1>3, ReprocessLands

LEMMA FetchLands ==
  ASSUME LandingInv, NEW w \in Worker, Fetch(w)
  PROVE  OnWay'
<1> DEFINE j == [job[w] EXCEPT !.mirrored = mirror # Nothing, !.at = "resolve"]
           k == [job[w] EXCEPT !.at = "idle"]
<1>1. job[w] \in Job /\ job[w].op = "reprocess"
  BY LandingJobs DEF Fetch, At
<1>2. j \in Job /\ j.op = "reprocess" /\ k \in Job /\ k.op = "reprocess"
  <2>1. j.op = "reprocess" /\ k.op = "reprocess"
    BY <1>1 DEF Job
  <2>2. k \in Job
    BY <1>1, AtType DEF Labels
  <2>3. j \in Job
    BY <1>1, ResolvingType
  <2> QED
    BY <2>1, <2>2, <2>3
<1>3. CASE Become(w, j) \/ Become(w, k)
  BY <1>2, <1>3, ReprocessLands
<1>4. CASE row # Nothing /\ \E at \in {"idle", "abandon"} : UpdatePending(w, row.action, at)
  <2>1. row.action \in MODERATION_ACTIONS
    BY <1>4, LandingJobs DEF StoresOK, Row
  <2> QED
    BY <1>1, <1>4, <2>1, UpdatePendingLands
<1> QED
  BY <1>3, <1>4 DEF Fetch, Goto

LEMMA ResolveLands ==
  ASSUME LandingInv, NEW w \in Worker, Resolve(w)
  PROVE  OnWay'
<1>1. job[w].op = "reprocess"
  BY DEF Resolve, At
<1>2. \E a \in MODERATION_ACTIONS : UpdatePending(w, a, "remirror")
  BY DEF Resolve
<1> QED
  BY <1>1, <1>2, UpdatePendingLands

LEMMA LookLands ==
  ASSUME LandingInv, NEW w \in Worker, Look(w)
  PROVE  OnWay'
<1>1. job[w] \in Job /\ job[w].op = "verify"
  BY LandingJobs DEF Look, At
<1>2. PICK k \in IF row = Nothing THEN {[job[w] EXCEPT !.at = "idle"]}
                 ELSE Verified(job[w], row.action) : Become(w, k)
  BY DEF Look
<1>3. CASE row = Nothing
  <2>1. k = [job[w] EXCEPT !.at = "idle"] /\ Goto(w, "idle") /\ "idle" \in Labels
    BY <1>2, <1>3, Labelled DEF Goto
  <2>2. k \in Job /\ Becomes(w, k)
    BY <1>1, <2>1, GotoRule, LandingJobs
  <2>3. k.at = "idle"
    BY <1>1, <2>1 DEF Job
  <2> QED
    BY <2>2, <2>3, OnCourse
<1>4. CASE row # Nothing
  <2>1. row.action \in MODERATION_ACTIONS
    BY <1>4, LandingJobs DEF StoresOK, Row
  <2>2. k \in Job /\ k.op = "verify" /\ k.at \in {"mirror", "unflag"}
    BY <1>1, <1>2, <1>4, <2>1, VerifiedOK
  <2>3. Underway(k, row', mirror', keys', blossom', queue')
    BY <2>2 DEF Underway
  <2> QED
    BY <1>2, <2>2, <2>3, BecomeRule, LandingJobs, OnCourse
<1> QED
  BY <1>3, <1>4

LEMMA CrashLands ==
  ASSUME LandingInv, NEW w \in Worker, Crash(w)
  PROVE  OnWay'
<1>1. job[w] \in Job /\ Goto(w, "idle") /\ "idle" \in Labels
  BY LandingJobs, Labelled DEF Crash
<1> DEFINE j == [job[w] EXCEPT !.at = "idle"]
<1>2. j \in Job /\ Becomes(w, j) /\ j.at = "idle"
  BY <1>1, GotoRule, GotoFields, LandingJobs
<1> QED
  BY <1>2, OnCourse

LEMMA ScanLands ==
  ASSUME LandingInv, NEW w \in Worker, Scan(w)
  PROVE  OnWay'
<1>1. job[w] \in Job /\ job[w].op = "scan"
  BY LandingJobs DEF Scan, At
<1>2. PICK enforcement \in Enforcements, p \in BOOLEAN, e \in BOOLEAN :
        LET a == ApplyEnforcement("REVIEW", enforcement)
        IN  /\ row' = [action |-> a, reviewed |-> FALSE, pending |-> p, event |-> e]
            /\ Become(w, [job[w] EXCEPT !.act = a, !.event = e, !.at = "flag"])
  BY DEF Scan
<1> DEFINE a == ApplyEnforcement("REVIEW", enforcement)
<1>3. a \in MODERATION_ACTIONS
  BY DEF ApplyEnforcement, MODERATION_ACTIONS
<1> HIDE DEF a
<1> DEFINE j == [job[w] EXCEPT !.act = a, !.event = e, !.at = "flag"]
<1>4. j \in Job /\ j.op = "scan" /\ j.at = "flag" /\ j.act = a
  <2>1. j.op = "scan" /\ j.at = "flag" /\ j.act = a
    BY <1>1 DEF Job
  <2>2. a \in Actions /\ "flag" \in Labels
    BY <1>3, Labelled DEF Actions
  <2> QED
    BY <1>1, <2>1, <2>2, SetFields
<1>5. row' \in Row /\ row'.action = a
  BY <1>2, <1>3 DEF Row, a
<1>6. Underway(j, row', mirror', keys', blossom', queue')
  BY <1>4, <1>5, RowIsSome DEF Underway, ScanOnWay
<1>7. Becomes(w, j)
  BY <1>2, <1>4, BecomeRule, LandingJobs DEF a
<1> QED
  BY <1>4, <1>6, <1>7, OnCourse

-----------------------------------------------------------------------------
(* Requests that start, and what moves no request.                         *)

LEMMA StartLands ==
  ASSUME LandingInv, NEW w \in Worker, NEW k \in Job, Start(w, k),
         Underway(k, row', mirror', keys', blossom', queue')
  PROVE  OnWay'
<1> DEFINE j == [k EXCEPT !.alone = Alone(w)]
<1>1. j \in Job /\ Becomes(w, j)
  BY LandingJobs, StartRule
<1>2. /\ j.at = k.at /\ j.op = k.op /\ j.act = k.act /\ j.saw = k.saw
      /\ j.stale = k.stale
  BY DEF Job
<1>3. Underway(j, row', mirror', keys', blossom', queue')
  BY <1>2 DEF Underway, AdminOnWay, ApiOnWay, QuarantineOnWay, RollbackOnWay, RepairOnWay,
     ScanOnWay, EscalateOnWay, Told
<1> QED
  BY <1>1, <1>3, OnCourse

LEMMA AdminModerateLands ==
  ASSUME LandingInv, NEW w \in Worker, AdminModerate(w)
  PROVE  OnWay'
<1>1. PICK a \in MODERATION_ACTIONS : Start(w, [NewJob("admin", "mirror", a) EXCEPT !.event = Known])
  BY DEF AdminModerate, Decide
<1> DEFINE k == [NewJob("admin", "mirror", a) EXCEPT !.event = Known]
<1>2. NewJob("admin", "mirror", a) \in Job
  BY NewJobType, Labelled DEF Ops, Actions
<1>3. Known \in BOOLEAN
  BY LandingJobs DEF Known, StoresOK, Row
<1>4. k \in Job
  BY <1>2, <1>3 DEF Job
<1>5. k.op = "admin" /\ k.at = "mirror"
  BY DEF NewJob
<1>6. Underway(k, row', mirror', keys', blossom', queue')
  BY <1>5 DEF Underway, AdminOnWay
<1> QED
  BY <1>1, <1>4, <1>6, StartLands

LEMMA ApiModerateLands ==
  ASSUME LandingInv, NEW w \in Worker, ApiModerate(w)
  PROVE  OnWay'
<1>1. PICK a \in MODERATION_ACTIONS :
        /\ row' = IF row = Nothing
                  THEN [action |-> a, reviewed |-> FALSE, pending |-> FALSE, event |-> FALSE]
                  ELSE [row EXCEPT !.action = a]
        /\ Start(w, NewJob("api", "blossom", a))
  BY DEF ApiModerate, Decide
<1> DEFINE k == NewJob("api", "blossom", a)
<1>2. k \in Job
  BY NewJobType, Labelled DEF Ops, Actions
<1>3. row' \in Row /\ row'.action = a
  BY <1>1, LandingJobs DEF StoresOK, Row
<1>4. k.op = "api" /\ k.at = "blossom" /\ k.act = a
  BY DEF NewJob
<1>5. Underway(k, row', mirror', keys', blossom', queue')
  BY <1>3, <1>4, RowIsSome DEF Underway, ApiOnWay
<1> QED
  BY <1>1, <1>2, <1>5, StartLands

LEMMA ApiQuarantineLands ==
  ASSUME LandingInv, NEW w \in Worker, ApiQuarantine(w)
  PROVE  OnWay'
<1>1. PICK a \in {"QUARANTINE", "REVIEW"} :
        /\ row' = IF row = Nothing THEN Nothing
                  ELSE [row EXCEPT !.action = a, !.reviewed = TRUE]
        /\ Start(w, NewJob("quarantine", "flag", a))
  BY DEF ApiQuarantine, Decide
<1> DEFINE k == NewJob("quarantine", "flag", a)
<1>2. k \in Job
  BY NewJobType, Labelled DEF Ops, Actions, MODERATION_ACTIONS
<1>3. row' # Nothing => row'.action = a /\ row'.reviewed
  BY <1>1, LandingJobs DEF StoresOK, Row
<1>4. k.op = "quarantine" /\ k.at = "flag" /\ k.act = a
  BY DEF NewJob
<1>5. Underway(k, row', mirror', keys', blossom', queue')
  BY <1>3, <1>4 DEF Underway, QuarantineOnWay
<1> QED
  BY <1>1, <1>2, <1>5, StartLands

LEMMA VerifyCategoryLands ==
  ASSUME LandingInv, NEW w \in Worker, VerifyCategory(w)
  PROVE  OnWay'
<1> DEFINE j == NewJob("verify", "look", Nothing)
<1>1. PICK k \in IF mirror = Nothing THEN {j} ELSE Verified(j, mirror) : Start(w, k)
  BY DEF VerifyCategory
<1>2. j \in Job /\ j.op = "verify" /\ j.at = "look"
  BY NewJobType, Labelled DEF Ops, Actions, NewJob
<1> HIDE DEF j
<1>3. k \in Job /\ k.op = "verify" /\ k.at \in {"look", "mirror", "unflag"}
  <2>1. CASE mirror = Nothing
    BY <1>1, <1>2, <2>1
  <2>2. CASE mirror # Nothing
    <3>1. mirror \in MODERATION_ACTIONS /\ k \in Verified(j, mirror)
      BY <1>1, <2>2, LandingJobs DEF StoresOK, Actions
    <3> QED
      BY <1>2, <3>1, VerifiedOK
  <2> QED
    BY <2>1, <2>2
<1>4. Underway(k, row', mirror', keys', blossom', queue')
  BY <1>3 DEF Underway
<1> QED
  BY <1>1, <1>3, <1>4, StartLands

LEMMA ClassicVineRollbackLands ==
  ASSUME LandingInv, NEW w \in Worker, ClassicVineRollback(w)
  PROVE  OnWay'
<1> DEFINE k == [NewJob("rollback", "peek", "SAFE") EXCEPT !.saw = Reads(row)]
<1>1. Start(w, k) /\ row' = row
  BY DEF ClassicVineRollback, Decide, Reads
<1>2. NewJob("rollback", "peek", "SAFE") \in Job
  BY NewJobType, Labelled DEF Ops, Actions, MODERATION_ACTIONS
<1>3. Reads(row) \in Actions
  BY LandingJobs DEF Reads, StoresOK, Row, Actions
<1>4. k \in Job
  BY <1>2, <1>3 DEF Job, Actions
<1>5. k.op = "rollback" /\ k.at = "peek" /\ k.act = "SAFE" /\ k.saw = Reads(row)
  BY DEF NewJob
<1>6. Underway(k, row', mirror', keys', blossom', queue')
  BY <1>1, <1>5 DEF Underway, RollbackOnWay
<1> QED
  BY <1>1, <1>4, <1>6, StartLands

LEMMA ReconcilePreviewLands ==
  ASSUME LandingInv, NEW w \in Worker, ReconcilePreview(w)
  PROVE  OnWay'
<1> DEFINE k == NewJob("repair", "replay", "AGE_RESTRICTED")
<1>1. Start(w, k)
  BY DEF ReconcilePreview, Decide
<1>2. k \in Job
  BY NewJobType, Labelled DEF Ops, Actions, MODERATION_ACTIONS
<1>3. Underway(k, row', mirror', keys', blossom', queue')
  BY DEF NewJob, Underway, RepairOnWay
<1> QED
  BY <1>1, <1>2, <1>3, StartLands

LEMMA TestModerateLands ==
  ASSUME LandingInv, NEW w \in Worker, TestModerate(w)
  PROVE  OnWay'
<1> DEFINE k == NewJob("remoderate", "send", Nothing)
<1>1. Start(w, k) /\ row' = Nothing
  BY DEF TestModerate, Decide
<1>2. k \in Job
  BY NewJobType, Labelled DEF Ops, Actions
<1>3. Underway(k, row', mirror', keys', blossom', queue')
  BY <1>1 DEF NewJob, Underway
<1> QED
  BY <1>1, <1>2, <1>3, StartLands

LEMMA SelectPendingLands ==
  ASSUME LandingInv, NEW w \in Worker, SelectPending(w)
  PROVE  OnWay'
<1> DEFINE k == [NewJob("reprocess", "fetch", Nothing) EXCEPT !.saw = row.action]
<1>1. Start(w, k) /\ row.action \in MODERATION_ACTIONS
  BY LandingJobs DEF SelectPending, StoresOK, Row
<1>2. NewJob("reprocess", "fetch", Nothing) \in Job
  BY NewJobType, Labelled DEF Ops, Actions
<1>3. k \in Job
  BY <1>1, <1>2 DEF Job
<1>4. k.op = "reprocess"
  BY DEF NewJob
<1>5. Underway(k, row', mirror', keys', blossom', queue')
  BY <1>4 DEF Underway
<1> QED
  BY <1>1, <1>3, <1>5, StartLands

LEMMA EscalateLands ==
  ASSUME LandingInv, NEW w \in Worker, Escalate(w)
  PROVE  OnWay'
<1> DEFINE k == [NewJob("escalate", "mirror", "PERMANENT_BAN") EXCEPT !.stale = {"QUARANTINE"}]
<1>1. Start(w, k)
  BY DEF Escalate
<1>2. NewJob("escalate", "mirror", "PERMANENT_BAN") \in Job
  BY NewJobType, Labelled DEF Ops, Actions, MODERATION_ACTIONS
<1>3. k \in Job
  BY <1>2 DEF Job, KeyActions
<1>4. k.op = "escalate" /\ k.at = "mirror" /\ k.act = "PERMANENT_BAN" /\ k.stale = {"QUARANTINE"}
  BY DEF NewJob
<1>5. Underway(k, row', mirror', keys', blossom', queue')
  BY <1>4 DEF Underway, EscalateOnWay
<1> QED
  BY <1>1, <1>3, <1>5, StartLands

LEMMA BanLands ==
  ASSUME LandingInv, NEW w \in Worker, Ban(w)
  PROVE  OnWay'
<1> DEFINE at == "blossom"
<1>1. at \in Labels /\ Goto(w, at) /\ job[w].at = "ban" /\ job[w].op = "escalate"
  BY Labelled DEF Ban, At
<1>2. UNCHANGED <<mirror, keys>>
  BY DEF Ban, kv
<1>3. ASSUME NEW j \in Job, j.at = at, j.op = job[w].op, j.act = job[w].act, j.saw = job[w].saw,
             j.stale = job[w].stale, Underway(job[w], row, mirror, keys, blossom, queue), at # "idle"
      PROVE  Underway(j, row', mirror', keys', blossom', queue')
  BY <1>1, <1>2, <1>3 DEF Underway, EscalateOnWay
<1> QED
  BY <1>1, <1>3, GotoLands

\* Only /test-moderate depends on the row being absent or on a message.
LEMMA QueueLands ==
  ASSUME LandingInv, job' = job, UNCHANGED <<row, mirror, keys, blossom>>,
         \A w \in Worker :
           job[w].op = "remoderate" /\ row = Nothing /\ queue # {} => Reactive \/ queue' # {}
  PROVE  OnWay'
<1> SUFFICES ASSUME NEW w \in Worker, job[w].alone, job[w].at # "idle"
             PROVE  Underway(job[w], row', mirror', keys', blossom', queue')
  BY DEF OnWay
<1>1. Underway(job[w], row, mirror, keys, blossom, queue) /\ job[w].op \in Ops
  BY LandingJobs DEF Job
<1>2. CASE job[w].op = "remoderate"
  BY <1>1, <1>2 DEF Underway
<1>3. CASE job[w].op # "remoderate"
  BY <1>1, <1>3 DEF Underway, Ops
<1> QED
  BY <1>2, <1>3

LEMMA EnqueueLands ==
  ASSUME LandingInv, NEW forced \in BOOLEAN, Enqueue(forced)
  PROVE  OnWay'
<1>1. queue' # {} /\ job' = job /\ UNCHANGED <<row, mirror, keys, blossom>>
  BY DEF Enqueue, kv
<1> QED
  BY <1>1, QueueLands

LEMMA DeliverLands ==
  ASSUME LandingInv, NEW w \in Worker, Deliver(w)
  PROVE  OnWay'
<1>1. PICK m \in queue :
        \/ (Reactive \/ row # Nothing) /\ job' = job
        \/ Become(w, [NewJob("scan", "classify", Nothing)
                        EXCEPT !.attempt = m.attempt, !.forced = m.forced, !.alone = Alone(w)])
  BY DEF Deliver
<1>2. CASE (Reactive \/ row # Nothing) /\ job' = job
  <2>1. UNCHANGED <<row, mirror, keys, blossom>>
    BY DEF Deliver, kv
  <2> QED
    BY <1>2, <2>1, QueueLands
<1>3. CASE Become(w, [NewJob("scan", "classify", Nothing)
                        EXCEPT !.attempt = m.attempt, !.forced = m.forced, !.alone = Alone(w)])
  <2> DEFINE k == [NewJob("scan", "classify", Nothing)
                    EXCEPT !.attempt = m.attempt, !.forced = m.forced, !.alone = Alone(w)]
  <2>1. NewJob("scan", "classify", Nothing) \in Job
    BY NewJobType, Labelled DEF Ops, Actions
  <2>2. m.attempt \in 1..MaxAttempts /\ m.forced \in BOOLEAN /\ Alone(w) \in BOOLEAN
    BY LandingJobs DEF StoresOK, Message, Alone
  <2>3. k \in Job
    BY <2>1, <2>2 DEF Job
  <2>4. k.op = "scan" /\ k.at = "classify"
    BY DEF NewJob
  <2>5. Underway(k, row', mirror', keys', blossom', queue')
    BY <2>4 DEF Underway, ScanOnWay
  <2> QED
    BY <1>3, <2>3, <2>5, BecomeRule, LandingJobs, OnCourse
<1> QED
  BY <1>1, <1>2, <1>3

\* What a report or a backfill writes, it writes beside every request.
LEMMA DisturbLands ==
  ASSUME LandingInv, Disturb
  PROVE  OnWay'
<1>1. ASSUME NEW w \in Worker  PROVE ~job'[w].alone
  <2>1. job'[w] \in {[job[w] EXCEPT !.alone = FALSE], Idle}
    BY DEF Disturb, Rest
  <2>2. ~Idle.alone /\ ~[job[w] EXCEPT !.alone = FALSE].alone
    BY LandingJobs DEF Idle, NewJob, Job
  <2> QED
    BY <2>1, <2>2
<1> QED
  BY <1>1 DEF OnWay

LEMMA LandingInit == Init => LandingInv
<1>1. Init => \A w \in Worker : ~job[w].alone
  BY DEF Init, Idle, NewJob
<1> QED
  BY <1>1, WellFormedInit DEF LandingInv, OnWay

LEMMA LandingStep ==
  ASSUME LandingInv, [Next]_vars
  PROVE  OnWay'
<1>1. CASE UNCHANGED vars
  BY <1>1, QueueLands DEF vars
<1>2. CASE ComeToRest
  BY <1>2, QueueLands DEF ComeToRest, kv, outside
<1>3. CASE Backfill
  BY <1>3, DisturbLands DEF Backfill
<1>4. CASE \E forced \in BOOLEAN : Enqueue(forced)
  BY <1>4, EnqueueLands
<1>5. CASE \E a \in {"REVIEW", "AGE_RESTRICTED"} : Report(a)
  BY <1>5, DisturbLands DEF Report
<1>6. ASSUME NEW w \in Worker,
             \/ AdminModerate(w) \/ ApiModerate(w) \/ ApiQuarantine(w)
             \/ VerifyCategory(w) \/ ClassicVineRollback(w)
             \/ ReconcilePreview(w) \/ TestModerate(w)
             \/ Deliver(w) \/ SelectPending(w)
             \/ Escalate(w) \/ Ban(w) \/ Crash(w)
      PROVE  OnWay'
  BY <1>6, AdminModerateLands, ApiModerateLands, ApiQuarantineLands, VerifyCategoryLands,
     ClassicVineRollbackLands, ReconcilePreviewLands, TestModerateLands, DeliverLands,
     SelectPendingLands, EscalateLands, BanLands, CrashLands
<1>7. ASSUME NEW w \in Worker,
             \/ ClearKeys(w) \/ SetKey(w) \/ NotifyBlossom(w) \/ ReadEvent(w)
             \/ NotifyRelay(w) \/ PutMirror(w) \/ AdminUpsert(w) \/ Flag(w)
             \/ Look(w) \/ Unflag(w) \/ Peek(w) \/ Restore(w) \/ Unset(w)
      PROVE  OnWay'
  BY <1>7, ClearKeysLands, SetKeyLands, NotifyBlossomLands, ReadEventLands, NotifyRelayLands,
     PutMirrorLands, AdminUpsertLands, FlagLands, LookLands, UnflagLands, PeekLands,
     RestoreLands, UnsetLands
<1>8. ASSUME NEW w \in Worker,
             \/ ReconcileApply(w) \/ Send(w) \/ Scan(w) \/ Fetch(w) \/ Abandon(w)
             \/ Resolve(w) \/ Remirror(w) \/ Check(w) \/ Mark(w)
      PROVE  OnWay'
  BY <1>8, ReconcileApplyLands, SendLands, ScanLands, FetchLands, AbandonLands, ResolveLands,
     RemirrorLands, CheckLands, MarkLands
<1> QED
  BY <1>1, <1>2, <1>3, <1>4, <1>5, <1>6, <1>7, <1>8 DEF Next

\* At the end of its way a request has landed.
LEMMA OnWayLands ==
  ASSUME LandingInv
  PROVE  DecisionLands
<1> SUFFICES ASSUME NEW w \in Worker, job[w].at = "done", job[w].alone
             PROVE  Landed(job[w])
  BY DEF DecisionLands
<1>1. Underway(job[w], row, mirror, keys, blossom, queue) /\ job[w].op \in Ops
  BY LandingJobs DEF Job
<1>2. CASE job[w].op \in {"admin", "api", "quarantine"}
  BY <1>1, <1>2 DEF Underway, AdminOnWay, ApiOnWay, QuarantineOnWay, Told, Landed, Decided
<1>3. CASE job[w].op \in {"rollback", "repair"}
  BY <1>1, <1>3 DEF Underway, RollbackOnWay, RepairOnWay, Landed, Decided
<1>4. CASE job[w].op \in {"verify", "remoderate", "scan", "reprocess"}
  BY <1>1, <1>4 DEF Underway, ScanOnWay, Landed, Decided
<1>5. CASE job[w].op = "escalate"
  BY <1>1, <1>5 DEF Underway, EscalateOnWay, Landed
<1> QED
  BY <1>1, <1>2, <1>3, <1>4, <1>5 DEF Ops

\* A request that has started beside nobody is on its way at each of its
\* steps, whatever earlier requests have left in the stores.
THEOREM LandingInvariant == Spec => []LandingInv
<1>1. Init => LandingInv
  BY LandingInit
<1>2. LandingInv /\ [Next]_vars => LandingInv'
  BY LandingStep, WellFormedStep DEF LandingInv
<1> QED
  BY <1>1, <1>2, PTL DEF Spec

\* A request that reports success, and that nothing has run beside, leaves all
\* the stores it writes in agreement on its decision: for any number of
\* invocations, any decisions, and with the queue drained unread or not.
THEOREM DecisionLandsHolds == Spec => []DecisionLands
<1>1. LandingInv => DecisionLands
  BY OnWayLands
<1> QED
  BY <1>1, LandingInvariant, PTL
=============================================================================
