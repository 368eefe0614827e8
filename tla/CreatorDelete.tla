--------------------------- MODULE CreatorDelete ----------------------------
(***************************************************************************)
(* The creator-delete pipeline: concurrent invocations of processKind5     *)
(* (src/creator-delete/process.mjs), started by the sync endpoint and by   *)
(* the every-minute cron, that share the rows of the D1 table              *)
(* creator_deletions.  Every await of processKind5 ends a step, so another *)
(* invocation can run between a read of a row and the write based on it.   *)
(*                                                                         *)
(* Subcategories of failed:transient:* and failed:permanent:* are folded,  *)
(* and so are the columns no decision reads (blob_sha256, completed_at,    *)
(* last_error).                                                            *)
(***************************************************************************)
EXTENDS Integers, Sequences

CONSTANTS
  Worker,            \* invocations that can run at the same time
  Kind5,             \* kind 5 (deletion) events
  Target,            \* events that kind 5 events name in their e-tags
  Blob,              \* blobs in the Blossom store
  Author,            \* [Kind5 -> author]
  ETags,             \* [Kind5 -> sequence of targets]
  TargetAuthor,      \* [Target -> author]
  TargetBlob,        \* [Target -> blob named by its imeta tag, or NoBlob]
  NoBlob, NoRow,
  MaxTargets,        \* MAX_TARGETS_PER_KIND5
  MaxRetries,        \* MAX_RETRY_COUNT
  InProgressTimeout, \* IN_PROGRESS_TIMEOUT_MS, in ticks
  RetryBase,         \* TRANSIENT_RETRY_BASE_MS, in ticks
  RetryCap,          \* TRANSIENT_RETRY_MAX_MS, in ticks
  ClaimWindow,       \* bound on the D1 calls that claim a row, in ticks
  WorkWindow,        \* [Worker -> bound on the work on one target, in ticks]
  MaxTime            \* bound of the clock (model checking only)

Deletion == Kind5 \X Target

Row == [status : {"accepted", "success", "transient", "permanent"},
        acceptedAt : Nat,
        retries : Nat]

\* What an attempt will write to the row; bump is updateToFailed's
\* increment_retry.
Verdict == [status : {"success", "transient", "permanent"}, bump : BOOLEAN]

\* The prefix of the e-tags that processKind5 looks at.
Capped(tags) ==
  SubSeq(tags, 1, IF Len(tags) < MaxTargets THEN Len(tags) ELSE MaxTargets)

Backoff(retries) ==
  LET doubled == RetryBase * 2^retries
  IN  IF doubled < RetryCap THEN doubled ELSE RetryCap

ASSUME DataAssumption ==
  /\ Kind5 # {}
  /\ DOMAIN Author = Kind5 /\ DOMAIN TargetAuthor = Target
  /\ ETags \in [Kind5 -> Seq(Target)]
  /\ TargetBlob \in [Target -> Blob \cup {NoBlob}]
  /\ NoBlob \notin Blob
  /\ NoRow \notin Row

ASSUME TimeAssumption ==
  /\ MaxTargets \in Nat /\ MaxRetries \in Nat \ {0}
  /\ InProgressTimeout \in Nat /\ RetryBase \in Nat /\ RetryCap \in Nat
  /\ ClaimWindow \in Nat \ {0}
  /\ WorkWindow \in [Worker -> Nat]
  /\ MaxTime \in Nat

\* D1 ends a call long before a row becomes retryable.
ASSUME ClaimAssumption ==
  /\ 2 * ClaimWindow < InProgressTimeout
  /\ \A r \in 1..(MaxRetries - 1) : Backoff(r) \in Nat /\ Backoff(r) > ClaimWindow

-----------------------------------------------------------------------------
VARIABLES
  now,      \* the clock
  rows,     \* the table creator_deletions, keyed by <<kind5, target>>
  gone,     \* external: the blobs Blossom has deleted
  pc,       \* where each invocation is
  kind5,    \* the event it processes
  todo,     \* the targets it has still to process, the current one first
  stamp,    \* acceptedIso of the current target
  seen,     \* claim.existing: the row as read after a conflict, or NoRow
  verdict,  \* the outcome about to be written
  overrun   \* history: some claim was held for too long (see Prompt)

vars == <<now, rows, gone, pc, kind5, todo, stamp, seen, verdict, overrun>>
local == <<pc, kind5, todo, stamp, seen, verdict>>

Claiming == {"insert", "read", "decide", "reclaim"}
Holding == {"fetch", "blossom", "write"}

NoVerdict == [status |-> "transient", bump |-> FALSE]

TypeOK ==
  /\ now \in Nat
  /\ rows \in [Deletion -> Row \cup {NoRow}]
  /\ gone \in SUBSET Blob
  /\ pc \in [Worker -> {"idle"} \cup Claiming \cup Holding]
  /\ kind5 \in [Worker -> Kind5]
  /\ todo \in [Worker -> Seq(Target)]
  /\ stamp \in [Worker -> Nat]
  /\ seen \in [Worker -> Row \cup {NoRow}]
  /\ verdict \in [Worker -> Verdict]
  /\ overrun \in BOOLEAN

\* An idle invocation holds no state of its own: its fields keep their
\* initial values, whatever kind 5 event they name.
Init ==
  /\ now = 0
  /\ rows = [d \in Deletion |-> NoRow]
  /\ gone = {}
  /\ pc = [w \in Worker |-> "idle"]
  /\ kind5 = [w \in Worker |-> CHOOSE k \in Kind5 : TRUE]
  /\ todo = [w \in Worker |-> <<>>]
  /\ stamp = [w \in Worker |-> 0]
  /\ seen = [w \in Worker |-> NoRow]
  /\ verdict = [w \in Worker |-> NoVerdict]
  /\ overrun = FALSE

\* The row an invocation works on.
Key(w) == <<kind5[w], Head(todo[w])>>
TargetOf(w) == Head(todo[w])

-----------------------------------------------------------------------------
(* Control of one invocation.                                              *)

GoTo(w, label) ==
  /\ pc' = [pc EXCEPT ![w] = label]
  /\ UNCHANGED <<kind5, todo, stamp, seen, verdict>>

Stop(w) ==
  /\ pc' = [pc EXCEPT ![w] = "idle"]
  /\ kind5' = [kind5 EXCEPT ![w] = CHOOSE k \in Kind5 : TRUE]
  /\ todo' = [todo EXCEPT ![w] = <<>>]
  /\ stamp' = [stamp EXCEPT ![w] = 0]
  /\ seen' = [seen EXCEPT ![w] = NoRow]
  /\ verdict' = [verdict EXCEPT ![w] = NoVerdict]

\* The loop's continue: acceptedIso is computed before the INSERT is sent.
NextTarget(w) ==
  IF Tail(todo[w]) = <<>>
  THEN Stop(w)
  ELSE /\ pc' = [pc EXCEPT ![w] = "insert"]
       /\ todo' = [todo EXCEPT ![w] = Tail(@)]
       /\ stamp' = [stamp EXCEPT ![w] = now]
       /\ seen' = [seen EXCEPT ![w] = NoRow]
       /\ verdict' = [verdict EXCEPT ![w] = NoVerdict]
       /\ UNCHANGED kind5

Conclude(w, v) ==
  /\ pc' = [pc EXCEPT ![w] = "write"]
  /\ verdict' = [verdict EXCEPT ![w] = v]
  /\ UNCHANGED <<kind5, todo, stamp, seen>>

Begin(w, k, tags) ==
  /\ pc[w] = "idle"
  /\ tags # <<>>
  /\ pc' = [pc EXCEPT ![w] = "insert"]
  /\ kind5' = [kind5 EXCEPT ![w] = k]
  /\ todo' = [todo EXCEPT ![w] = tags]
  /\ stamp' = [stamp EXCEPT ![w] = now]
  /\ UNCHANGED <<now, rows, gone, seen, verdict, overrun>>

\* processKind5 for a whole event: from the sync endpoint or a cron poll.
Start(w) == \E k \in Kind5 : Begin(w, k, Capped(ETags[k]))

\* processKind5 for the synthetic event the cron builds from a row that its
\* earlier SELECT found failed:transient.  The row may have moved on since.
StartRetry(w) ==
  \E k \in Kind5, t \in Target : rows[<<k, t>>] # NoRow /\ Begin(w, k, <<t>>)

-----------------------------------------------------------------------------
(* Claiming a row (d1.mjs).                                                *)

Claimed(at, retries) == [status |-> "accepted", acceptedAt |-> at, retries |-> retries]

\* INSERT ... ON CONFLICT DO NOTHING.
Insert(w) ==
  /\ pc[w] = "insert"
  /\ IF rows[Key(w)] = NoRow
     THEN /\ rows' = [rows EXCEPT ![Key(w)] = Claimed(stamp[w], 0)]
          /\ GoTo(w, "fetch")
     ELSE GoTo(w, "read") /\ UNCHANGED rows
  /\ UNCHANGED <<now, gone, overrun>>

\* The SELECT after a conflict.
Read(w) ==
  /\ pc[w] = "read"
  /\ pc' = [pc EXCEPT ![w] = "decide"]
  /\ seen' = [seen EXCEPT ![w] = rows[Key(w)]]
  /\ UNCHANGED <<now, rows, gone, kind5, todo, stamp, verdict, overrun>>

\* Faulty variants of MayProceed: one takes over a claim whatever its age, the
\* other lets a permanent failure fall through to the final return 'proceed'.
MayProceedEager(row) ==
  \/ row.status = "accepted"
  \/ row.status = "transient" /\ row.retries < MaxRetries
MayProceedFailed(row) ==
  \/ row.status = "accepted" /\ now - row.acceptedAt >= InProgressTimeout
  \/ row.status \in {"transient", "permanent"}

\* decideAction: may this row be worked on again?
MayProceed(row) ==
  \/ /\ row.status = "accepted"
     /\ now - row.acceptedAt >= InProgressTimeout
  \/ /\ row.status = "transient"
     /\ row.retries < MaxRetries
     /\ now - row.acceptedAt >= Backoff(row.retries)

\* The decision, which compares what the SELECT returned with a later clock.
Decide(w) ==
  /\ pc[w] = "decide"
  /\ IF MayProceed(seen[w]) THEN GoTo(w, "reclaim") ELSE NextTarget(w)
  /\ UNCHANGED <<now, rows, gone, overrun>>

\* Faulty variant: the re-claim forgets the condition on accepted_at.
ReclaimAlways(w) ==
  /\ pc[w] = "reclaim"
  /\ rows' = [rows EXCEPT ![Key(w)] = Claimed(stamp[w], @.retries)]
  /\ GoTo(w, "fetch")
  /\ UNCHANGED <<now, gone, overrun>>

\* UPDATE ... WHERE accepted_at = <the value that was read>.
Reclaim(w) ==
  /\ pc[w] = "reclaim"
  /\ IF rows[Key(w)].acceptedAt = seen[w].acceptedAt
     THEN /\ rows' = [rows EXCEPT ![Key(w)] = Claimed(stamp[w], @.retries)]
          /\ GoTo(w, "fetch")
     ELSE NextTarget(w) /\ UNCHANGED rows
  /\ UNCHANGED <<now, gone, overrun>>

-----------------------------------------------------------------------------
(* Working on a claimed row (process.mjs).                                 *)

PriorRetries(w) == IF seen[w] = NoRow THEN 0 ELSE seen[w].retries

\* Faulty variant: the limit compared with the count before this failure.
RetryableLate(w) ==
  [status |-> IF PriorRetries(w) >= MaxRetries THEN "permanent" ELSE "transient",
   bump |-> TRUE]

\* A retryable failure, promoted to a permanent one when it is the last.
Retryable(w) ==
  [status |-> IF PriorRetries(w) + 1 >= MaxRetries THEN "permanent" ELSE "transient",
   bump |-> TRUE]

Permanent == [status |-> "permanent", bump |-> FALSE]

Entitled(d) == Author[d[1]] = TargetAuthor[d[2]] /\ TargetBlob[d[2]] # NoBlob

\* Faulty variant: the authors are not compared.
FetchUnchecked(w) ==
  /\ pc[w] = "fetch"
  /\ \/ Conclude(w, Retryable(w))
     \/ Conclude(w, Permanent)
     \/ IF TargetBlob[TargetOf(w)] # NoBlob
        THEN GoTo(w, "blossom") ELSE Conclude(w, Permanent)
  /\ UNCHANGED <<now, rows, gone, overrun>>

\* fetchTargetEvent throws on a transient error, finds nothing, or returns the
\* event, which is then checked for its author and for a blob hash.
Fetch(w) ==
  /\ pc[w] = "fetch"
  /\ \/ Conclude(w, Retryable(w))
     \/ Conclude(w, Permanent)
     \/ IF Entitled(Key(w)) THEN GoTo(w, "blossom") ELSE Conclude(w, Permanent)
  /\ UNCHANGED <<now, rows, gone, overrun>>

\* Faulty variant: a call that Blossom skipped or refused counts as a success.
BlossomAssumed(w) ==
  /\ pc[w] = "blossom"
  /\ gone' \in {gone, gone \cup {TargetBlob[TargetOf(w)]}}
  /\ Conclude(w, [status |-> "success", bump |-> FALSE])
  /\ UNCHANGED <<now, rows, overrun>>

\* notifyBlossom(sha256, 'DELETE').  A network error or a 5xx says nothing of
\* whether the blob was deleted.
Blossom(w) ==
  LET deleted == gone \cup {TargetBlob[TargetOf(w)]}
  IN  /\ pc[w] = "blossom"
      /\ \/ gone' = deleted /\ Conclude(w, [status |-> "success", bump |-> FALSE])
         \/ gone' \in {gone, deleted} /\ Conclude(w, Retryable(w))
         \/ UNCHANGED gone /\ Conclude(w, Permanent)
      /\ UNCHANGED <<now, rows, overrun>>

\* updateToSuccess and updateToFailed: by key alone, whoever holds the claim.
Write(w) ==
  /\ pc[w] = "write"
  /\ rows' = [rows EXCEPT ![Key(w)] =
       [status |-> verdict[w].status,
        acceptedAt |-> @.acceptedAt,
        retries |-> IF verdict[w].bump THEN @.retries + 1 ELSE @.retries]]
  /\ NextTarget(w)
  /\ UNCHANGED <<now, gone, overrun>>

\* The invocation ends early: a D1 call throws, or the platform kills it.
Abort(w) ==
  /\ pc[w] # "idle"
  /\ Stop(w)
  /\ UNCHANGED <<now, rows, gone, overrun>>

\* A claim held at time t is not yet due to be taken over, not even by an
\* invocation whose SELECT of the row is ClaimWindow old when it decides.
Prompt(w, t) == pc[w] \in Holding => t - stamp[w] + ClaimWindow < InProgressTimeout

\* Time passes, but a D1 claim does not take longer than ClaimWindow, and no
\* invocation outlives its WorkWindow on one target.
Tick ==
  /\ now < MaxTime
  /\ \A w \in Worker :
       /\ pc[w] \in Claiming => now - stamp[w] < ClaimWindow
       /\ pc[w] \in Holding => now + 1 - stamp[w] < WorkWindow[w]
  /\ now' = now + 1
  /\ overrun' = (overrun \/ \E w \in Worker : ~Prompt(w, now'))
  /\ UNCHANGED <<rows, gone, local>>

Next ==
  \/ \E w \in Worker :
       \/ Start(w) \/ StartRetry(w)
       \/ Insert(w) \/ Read(w) \/ Decide(w) \/ Reclaim(w)
       \/ Fetch(w) \/ Blossom(w) \/ Write(w) \/ Abort(w)
  \/ Tick

Spec == Init /\ [][Next]_vars

\* The executions in which no claim is held for too long: what the comment on
\* IN_PROGRESS_TIMEOUT_MS asks of the callers, with room for a slow SELECT.
PromptSpec == Init /\ [][Next /\ ~overrun']_vars

-----------------------------------------------------------------------------
(* Properties.                                                             *)

\* At most one invocation holds the current claim of a row: a re-claim always
\* carries a later accepted_at than every claim before it, so the conditional
\* UPDATE admits one winner even when claims are outlived by their workers.
ClaimsUnique ==
  \A v, w \in Worker :
    (v # w /\ pc[v] \in Holding /\ pc[w] \in Holding /\ Key(v) = Key(w))
      => stamp[v] # stamp[w]

\* As long as no claim has been outlived, no two invocations work on the same
\* deletion, so Blossom never sees two DELETEs for it at the same time.
SingleHolder ==
  ~overrun =>
    \A v, w \in Worker :
      (v # w /\ pc[v] \in Holding /\ pc[w] \in Holding) => Key(v) # Key(w)

Settled(row) == row # NoRow /\ row.status \in {"success", "permanent"}

\* As long as no claim has been outlived, a success or a permanent failure is
\* final: updateToSuccess and updateToFailed, which check nothing, never find
\* a row that somebody else has settled.
SettledForGood ==
  [][\A d \in Deletion : ~overrun /\ Settled(rows[d]) => rows'[d] = rows[d]]_rows

\* The documented contract, without that condition.
SuccessIsTerminal ==
  [][\A d \in Deletion :
       rows[d] # NoRow /\ rows[d].status = "success" => rows'[d].status = "success"]_rows

\* A row says success only when Blossom has deleted the blob that its target
\* names, and the deletion comes from the author of the target; and no blob
\* goes without a row that accounts for it.
SuccessMeansGone ==
  \A d \in Deletion :
    rows[d] # NoRow /\ rows[d].status = "success"
      => Entitled(d) /\ TargetBlob[d[2]] \in gone

ErasedForItsAuthor ==
  \A b \in gone : \E d \in Deletion :
    rows[d] # NoRow /\ Entitled(d) /\ TargetBlob[d[2]] = b

\* As long as no claim has been outlived, retry_count counts the retryable
\* failures of a row: a row that is still retryable has attempts left, and no
\* row exceeds the limit, although the promotion to permanent is decided from
\* a count read before the attempt and the increment is made by the database.
RetriesBounded ==
  ~overrun => \A d \in Deletion : rows[d] # NoRow =>
    /\ rows[d].retries <= MaxRetries
    /\ rows[d].status \in {"accepted", "transient"} => rows[d].retries < MaxRetries
    /\ rows[d].status = "transient" => rows[d].retries > 0

\* The pipeline implements the ledger of deletions when claims are not
\* outlived: retryable and accepted rows are both open entries.
Entry(row) ==
  IF row = NoRow THEN "none"
  ELSE CASE row.status = "success" -> "success"
         [] row.status = "permanent" -> "failed"
         [] OTHER -> "open"

BlobOf(d) == TargetBlob[d[2]]

Ledger == INSTANCE DeletionLedger WITH
  Deletions <- Deletion, ledger <- [d \in Deletion |-> Entry(rows[d])]

ImplementsLedger == Ledger!Spec
=============================================================================
