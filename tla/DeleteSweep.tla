---------------------------- MODULE DeleteSweep -----------------------------
(***************************************************************************)
(* The operator's sweep that destroys the bytes of videos that were        *)
(* deleted before Blossom deleted physically                               *)
(* (scripts/sweep-creator-deletes.mjs): it fetches the rows of             *)
(* creator_deletions without a stamp, asks Blossom to delete one of them   *)
(* as a pre-flight and then the others, and stamps what was destroyed.     *)
(*                                                                         *)
(* Blossom's ENABLE_PHYSICAL_DELETE may be turned on and off meanwhile,    *)
(* and the live pipeline goes on adding rows.  Calls run concurrently and  *)
(* their results are taken when all have come back; each call is one step. *)
(***************************************************************************)
EXTENDS Naturals, FiniteSets

CONSTANTS
  DeleteRow,    \* rows of creator_deletions
  ShaOf,        \* [DeleteRow -> blob_sha256, NoSha for NULL]
  NoSha,
  FlushBatch,   \* FLUSH_BATCH_SIZE
  MaxSweepFaults, \* bound on faults (model checking)
  MaxToggles    \* bound on changes of the flag (model checking)

ASSUME DeleteSweepAssumption ==
  /\ DOMAIN ShaOf = DeleteRow /\ IsFiniteSet(DeleteRow) /\ FlushBatch \in Nat \ {0}
  /\ MaxSweepFaults \in Nat /\ MaxToggles \in Nat

VARIABLES
  rowStatus,   \* status of each row
  stamped,     \* rows with a physical_deleted_at
  destroyed,   \* external: blobs whose bytes are gone
  physical,    \* external: ENABLE_PHYSICAL_DELETE
  run,         \* the state of the script
  sweepFaults, toggles

sweepVars == <<rowStatus, stamped, destroyed, physical, run, sweepFaults, toggles>>

\* candidates: as fetched; todo: not yet called; answer: the results not yet
\* taken; exit: the code of the last run.
StartedRun == [pc |-> "fetch", candidates |-> {}, todo |-> {}, first |-> {},
               answer |-> [r \in DeleteRow |-> "none"], pending |-> {}, failed |-> {},
               draining |-> FALSE, exit |-> 99]

SweepInit ==
  /\ rowStatus = [r \in DeleteRow |-> "accepted"]
  /\ stamped = {} /\ destroyed = {} /\ physical = FALSE
  /\ run = StartedRun
  /\ sweepFaults = 0 /\ toggles = 0

SweepFault == sweepFaults < MaxSweepFaults /\ sweepFaults' = sweepFaults + 1
Exit(code) == run' = [run EXCEPT !.pc = "exited", !.exit = code]
Answered(a) == {r \in DeleteRow : run.answer[r] = a}

\* External: the creator-delete pipeline settles a row.
SettleRow(r) ==
  /\ rowStatus[r] = "accepted"
  /\ \E status \in {"success", "failed:permanent"} : rowStatus' = [rowStatus EXCEPT ![r] = status]
  /\ UNCHANGED <<stamped, destroyed, physical, run, sweepFaults, toggles>>

\* External: the operator of Blossom turns physical deletion on or off.
ToggleFlag ==
  /\ toggles < MaxToggles /\ toggles' = toggles + 1 /\ physical' = ~physical
  /\ UNCHANGED <<rowStatus, stamped, destroyed, run, sweepFaults>>

-----------------------------------------------------------------------------
Candidates ==
  {r \in DeleteRow : rowStatus[r] = "success" /\ r \notin stamped /\ ShaOf[r] # NoSha}
Unprocessable == {r \in DeleteRow : rowStatus[r] = "success" /\ ShaOf[r] = NoSha}
PermanentFailures == {r \in DeleteRow : rowStatus[r] = "failed:permanent"}

FetchCandidates ==
  /\ run.pc = "fetch"
  /\ \/ /\ run' = [run EXCEPT !.pc = IF Candidates = {} THEN "surface" ELSE "preflight",
                              !.candidates = Candidates, !.todo = Candidates]
        /\ UNCHANGED sweepFaults
     \/ SweepFault /\ Exit(3)
  /\ UNCHANGED <<rowStatus, stamped, destroyed, physical, toggles>>

\* Mutant: a deletion that Blossom skipped counts as a success.
CallTrustsSuccess(r, outcome) ==
  /\ outcome = "success"
  /\ destroyed' = IF physical THEN destroyed \cup {ShaOf[r]} ELSE destroyed
  /\ UNCHANGED sweepFaults

\* callBlossomDelete and classifyDeleteResult: what a call does, what comes of
\* it, and whether that is a fault.  The answer of a deletion may be lost.
Call(r, outcome) ==
  /\ \/ /\ outcome = IF physical THEN "success" ELSE "flag-off"
        /\ destroyed' = IF physical THEN destroyed \cup {ShaOf[r]} ELSE destroyed
        /\ UNCHANGED sweepFaults
     \/ /\ outcome = "failure" /\ SweepFault
        /\ \/ physical /\ destroyed' = destroyed \cup {ShaOf[r]}
           \/ UNCHANGED destroyed

\* runPreflight: anything but a success ends the run before a row is stamped.
Preflight ==
  /\ run.pc = "preflight"
  /\ \E r \in run.todo, outcome \in {"success", "flag-off", "failure"} :
       /\ Call(r, outcome)
       /\ IF outcome = "success"
          THEN run' = [run EXCEPT !.pc = "call", !.first = {r}, !.todo = @ \ {r}]
          ELSE Exit(2)
  /\ UNCHANGED <<rowStatus, stamped, physical, toggles>>

CallBlossom(r) ==
  /\ run.pc = "call" /\ r \in run.todo
  /\ \E outcome \in {"success", "flag-off", "failure"} :
       /\ Call(r, outcome)
       /\ run' = [run EXCEPT !.todo = @ \ {r}, !.answer[r] = outcome]
  /\ UNCHANGED <<rowStatus, stamped, physical, toggles>>

\* SIGINT: no further call is started.
Interrupt ==
  /\ run.pc \in {"preflight", "call"} /\ ~run.draining
  /\ run' = [run EXCEPT !.draining = TRUE]
  /\ UNCHANGED <<rowStatus, stamped, destroyed, physical, sweepFaults, toggles>>

AllCalled ==
  /\ run.pc = "call" /\ (run.todo = {} \/ run.draining)
  /\ run' = [run EXCEPT !.pc = "take"]
  /\ UNCHANGED <<rowStatus, stamped, destroyed, physical, sweepFaults, toggles>>

\* The loop over the results, of which the order is that of the candidates.
TakeResult(r) ==
  /\ run.pc = "take" /\ Cardinality(run.pending) < FlushBatch
  /\ run.answer[r] # "none"
  /\ run' = [run EXCEPT
       !.answer[r] = "none",
       !.pending = IF run.answer[r] = "success" THEN @ \cup {r} ELSE @,
       !.failed = IF run.answer[r] = "failure" THEN @ \cup {r} ELSE @,
       !.pc = IF run.answer[r] = "flag-off" THEN "abort" ELSE @]
  /\ UNCHANGED <<rowStatus, stamped, destroyed, physical, sweepFaults, toggles>>

\* buildUpdateStampSql: every row with one of the blobs, whatever its status.
Stamp(rows) ==
  stamped' = stamped \cup {r \in DeleteRow : \E q \in rows : ShaOf[r] = ShaOf[q]}

\* A flush that fails, with or without its effect, ends the run.
Flush ==
  /\ \/ /\ run.pc = "take"
        /\ Cardinality(run.pending) >= FlushBatch \/ \A r \in DeleteRow : run.answer[r] = "none"
     \/ run.pc = "abort"
  /\ \/ /\ Stamp(run.pending) /\ UNCHANGED sweepFaults
        /\ IF run.pc = "abort" THEN Exit(2)
           ELSE IF Cardinality(run.pending) >= FlushBatch
           THEN run' = [run EXCEPT !.pending = {}]
           ELSE run' = [run EXCEPT !.pending = {}, !.pc = "first"]
     \/ /\ run.pending # {} /\ SweepFault /\ Exit(4)
        /\ Stamp(run.pending) \/ UNCHANGED stamped
  /\ UNCHANGED <<rowStatus, destroyed, physical, toggles>>

StampFirst ==
  /\ run.pc = "first"
  /\ \/ Stamp(run.first) /\ UNCHANGED sweepFaults /\ run' = [run EXCEPT !.pc = "surface"]
     \/ SweepFault /\ Exit(4) /\ (Stamp(run.first) \/ UNCHANGED stamped)
  /\ UNCHANGED <<rowStatus, destroyed, physical, toggles>>

\* The rows that need an operator, and the exit code.
Surface ==
  /\ run.pc = "surface"
  /\ \/ /\ Exit(IF run.failed # {} \/ Unprocessable # {} \/ PermanentFailures # {} THEN 1 ELSE 0)
        /\ UNCHANGED sweepFaults
     \/ SweepFault /\ Exit(1)
  /\ UNCHANGED <<rowStatus, stamped, destroyed, physical, toggles>>

\* A second SIGINT, or the process dies.
Kill ==
  /\ run.pc # "exited" /\ SweepFault /\ Exit(130)
  /\ UNCHANGED <<rowStatus, stamped, destroyed, physical, toggles>>

Rerun ==
  /\ run.pc = "exited" /\ run' = StartedRun
  /\ UNCHANGED <<rowStatus, stamped, destroyed, physical, sweepFaults, toggles>>

SweepNext ==
  \/ \E r \in DeleteRow : SettleRow(r) \/ CallBlossom(r) \/ TakeResult(r)
  \/ ToggleFlag \/ FetchCandidates \/ Preflight \/ Interrupt \/ AllCalled \/ Flush
  \/ StampFirst \/ Surface \/ Kill \/ Rerun

SweepSpec == SweepInit /\ [][SweepNext]_sweepVars

-----------------------------------------------------------------------------
(* Properties *)

StampedMeansDestroyed == \A r \in stamped : ShaOf[r] # NoSha => ShaOf[r] \in destroyed

CleanExitMeansDone ==
  run.exit = 0 /\ ~run.draining => run.candidates \subseteq stamped

\* A stamp is only given to a row whose bytes are gone, whenever the flag is
\* turned off, answers are lost or a run is killed and repeated; and a run that
\* was not interrupted and reports no failure has stamped every row it set out
\* with (sweep-creator-deletes.mjs 115-127, 346-403, 420-427).
StampsAreTrue == StampedMeansDestroyed /\ CleanExitMeansDone
=============================================================================
