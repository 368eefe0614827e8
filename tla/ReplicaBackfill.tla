-------------------------- MODULE ReplicaBackfill ---------------------------
(***************************************************************************)
(* The script that completes moderation_results from the relay's API and   *)
(* fills the mirror tables (scripts/backfill-relay-replica.mjs): it walks  *)
(* the rows that lack a field, those that wait for a moderator first, in   *)
(* batches behind a cursor, which a checkpoint file keeps between runs.    *)
(*                                                                         *)
(* The service goes on deciding and adding rows while the script runs, and *)
(* the script may die at any await.  A row is known here by a number, which*)
(* is also the order of the shas; of its fields only counts whether one is *)
(* missing.                                                                *)
(***************************************************************************)
EXTENDS Integers, FiniteSets

CONSTANTS
  RowCount,     \* rows of moderation_results
  FullAtRelay,  \* rows of which the relay's API knows every field
  UnknownAtRelay, \* rows of which it knows nothing
  BatchSize,    \* --batch-size
  Origin,       \* no cursor
  MaxBackfillTime, \* bound of the clock (model checking)
  MaxBackfillFaults \* bound on faults (model checking)

Rows == 1..RowCount

ASSUME BackfillAssumption ==
  /\ RowCount \in Nat /\ FullAtRelay \subseteq Rows /\ UnknownAtRelay \subseteq Rows
  /\ BatchSize \in Nat \ {0} /\ MaxBackfillTime \in Nat /\ MaxBackfillFaults \in Nat

VARIABLES
  place,     \* the place of each row of the table
  sparse,    \* the rows with a missing field
  saved,     \* the checkpoint file's cursor
  walk,      \* the state of the script
  instant,   \* the clock
  tried,     \* history: rows that were in a batch that was processed
  moved,     \* history: rows that changed their place or came in meanwhile
  backfillFaults

backfillVars == <<place, sparse, saved, walk, instant, tried, moved, backfillFaults>>

StartedWalk == [pc |-> "load", cursor |-> Origin, batch |-> {}]

BackfillInit ==
  /\ place = [r \in Rows |-> [bucket |-> IF r = 1 THEN 0 ELSE 2, moderated_at |-> 0]]
  /\ sparse = Rows
  /\ saved = Origin
  /\ walk = StartedWalk
  /\ instant = 0
  /\ tried = {} /\ moved = {}
  /\ backfillFaults = 0

BackfillFault == backfillFaults < MaxBackfillFaults /\ backfillFaults' = backfillFaults + 1

\* External: the service decides about a video, or scans it anew.
Redecide(r) ==
  /\ instant < MaxBackfillTime /\ instant' = instant + 1
  /\ \E b \in 0..2 :
       place' = [place EXCEPT ![r] = [bucket |-> b, moderated_at |-> instant']]
  /\ moved' = moved \cup {r}
  /\ UNCHANGED <<sparse, saved, walk, tried, backfillFaults>>

-----------------------------------------------------------------------------
Key(r) == [bucket |-> place[r].bucket, moderated_at |-> place[r].moderated_at, sha |-> r]

\* buildSparseModerationRowsQuery: ORDER BY priority_bucket ASC, moderated_at
\* DESC, sha256 DESC, which is also the predicate on the cursor.
Follows(k, cursor) ==
  \/ k.bucket > cursor.bucket
  \/ k.bucket = cursor.bucket
     /\ \/ k.moderated_at < cursor.moderated_at
        \/ k.moderated_at = cursor.moderated_at /\ k.sha < cursor.sha

\* Mutant: without the sha, rows of one time are taken for one.
RemainingInTime(cursor) ==
  {r \in sparse :
     cursor # Origin => \/ Key(r).bucket > cursor.bucket
                        \/ /\ Key(r).bucket = cursor.bucket
                           /\ Key(r).moderated_at < cursor.moderated_at}

Remaining(cursor) == {r \in sparse : cursor # Origin => Follows(Key(r), cursor)}
Batch(cursor) ==
  {r \in Remaining(cursor) :
     Cardinality({q \in Remaining(cursor) : Follows(Key(r), Key(q))}) < BatchSize}
LastOf(rows) == CHOOSE r \in rows : \A q \in rows \ {r} : Follows(Key(r), Key(q))

\* With --no-resume the checkpoint is not read.
LoadCheckpoint ==
  /\ walk.pc = "load"
  /\ \E cursor \in {saved, Origin} :
       walk' = [walk EXCEPT !.pc = "query", !.cursor = cursor]
  /\ UNCHANGED <<place, sparse, saved, instant, tried, moved, backfillFaults>>

\* The cursor of the batch is that of its last row, as it was read.
QuerySparseRows ==
  /\ walk.pc = "query"
  /\ walk' = IF Remaining(walk.cursor) = {} THEN [walk EXCEPT !.pc = "completed"]
             ELSE [pc |-> "process", batch |-> Batch(walk.cursor),
                   cursor |-> Key(LastOf(Batch(walk.cursor)))]
  /\ UNCHANGED <<place, sparse, saved, instant, tried, moved, backfillFaults>>

\* What is written for a batch of which the rows in lost could not be fetched.
Refresh(lost) == sparse' = sparse \ ((walk.batch \ lost) \cap (FullAtRelay \ UnknownAtRelay))

\* Rows that cannot be fetched are counted and left behind.
ProcessReplicaBatch ==
  /\ walk.pc = "process" /\ walk' = [walk EXCEPT !.pc = "save"]
  /\ \/ Refresh({}) /\ UNCHANGED backfillFaults
     \/ BackfillFault /\ \E lost \in SUBSET walk.batch : Refresh(lost)
  /\ tried' = tried \cup walk.batch
  /\ UNCHANGED <<place, saved, instant, moved>>

\* A bulk request or a chunk of the writes fails: some chunks are written, and
\* the script ends.
BatchFails ==
  /\ walk.pc = "process" /\ BackfillFault /\ walk' = [walk EXCEPT !.pc = "dead"]
  /\ \E lost \in SUBSET walk.batch : Refresh(lost)
  /\ UNCHANGED <<place, saved, instant, tried, moved>>

SaveCheckpoint ==
  /\ walk.pc = "save" /\ walk' = [walk EXCEPT !.pc = "query"]
  /\ saved' = walk.cursor
  /\ UNCHANGED <<place, sparse, instant, tried, moved, backfillFaults>>

\* The script is stopped, or has done --max-batches.
StopBackfill ==
  /\ walk.pc \in {"query", "process", "save"} /\ BackfillFault
  /\ walk' = [walk EXCEPT !.pc = "dead"]
  /\ UNCHANGED <<place, sparse, saved, instant, tried, moved>>

RunBackfill ==
  /\ walk.pc \in {"dead", "completed"} /\ walk' = StartedWalk
  /\ UNCHANGED <<place, sparse, saved, instant, tried, moved, backfillFaults>>

BackfillNext ==
  \/ \E r \in Rows : Redecide(r)
  \/ LoadCheckpoint \/ QuerySparseRows \/ ProcessReplicaBatch \/ BatchFails
  \/ SaveCheckpoint \/ StopBackfill \/ RunBackfill

BackfillSpec == BackfillInit /\ [][BackfillNext]_backfillVars

-----------------------------------------------------------------------------
(* Properties *)

\* When a run is complete, every row that still lacks a field has been looked
\* up, in this run or one that it resumed, wherever those ended and however the
\* rows around it left the selection or changed their order.  Left out are the
\* rows that were themselves decided meanwhile: they may have moved behind the
\* cursor (backfill-relay-replica.mjs 281-325, 537-606).
EveryRowTried == walk.pc = "completed" => sparse \ moved \subseteq tried
=============================================================================
