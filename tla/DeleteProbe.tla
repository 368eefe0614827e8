----------------------------- MODULE DeleteProbe -----------------------------
(***************************************************************************)
(* The end-to-end probe of the creator-delete pipeline                     *)
(* (scripts/e2e-creator-delete.mjs), which uploads a blob, publishes a     *)
(* video of it and its deletion, follows the deletion through the service  *)
(* and then removes what it left in production: the blob and the row of D1.*)
(*                                                                         *)
(* Answers get lost, wrangler fails or dies, and a signal makes the removal*)
(* run beside the scenario that it interrupts.  The relay, Blossom and the *)
(* worker, whose cron sees the deletion as well, are external.             *)
(***************************************************************************)
EXTENDS Integers, Sequences

CONSTANTS
  Plans,         \* the scenarios that --scenario asks for, in their order
  MaxClaims,     \* bound on the times the worker takes a deletion up (model checking)
  MaxProbeFaults \* bound on faults (model checking)

Scenarios == {"sync", "cron"}

ASSUME DeleteProbeAssumption ==
  /\ Plans \subseteq {<<"sync">>, <<"cron">>, <<"sync", "cron">>}
  /\ MaxClaims \in Nat /\ MaxProbeFaults \in Nat

VARIABLES
  probe,       \* the script: step, scenarios left, --skip-cleanup, signalled, exit code
  artifacts,   \* what the script knows of each scenario, and how it removes what it left
  remote,      \* what there is of each: the blob, the deletion on the relay, the row
  taken,       \* times the worker has taken each deletion up
  afterwards,  \* history: blobs and rows that came after they had been removed
  unheard,     \* history: scenarios for which a wrangler that died counted as a success
  probeFaults

probeVars == <<probe, artifacts, remote, taken, afterwards, unheard, probeFaults>>

\* runScenario's state; the cleanup has a result for each of its two parts.
Fresh == [target |-> FALSE, kind5 |-> FALSE, outcome |-> "none",
          cleaning |-> "none", blossom |-> "none", d1 |-> "none"]

\* What is shown as exit -1 has not ended.
DeleteProbeInit ==
  /\ probe \in {[pc |-> "start", todo |-> plan, skipCleanup |-> skip, aborted |-> FALSE, exit |-> -1]
              : plan \in Plans, skip \in BOOLEAN}
  /\ artifacts = [s \in Scenarios |-> Fresh]
  /\ remote = [s \in Scenarios |-> [blob |-> "none", upload |-> FALSE, kind5 |-> FALSE, row |-> "none"]]
  /\ taken = [s \in Scenarios |-> 0]
  /\ afterwards = {} /\ unheard = {} /\ probeFaults = 0

ProbeFault == probeFaults < MaxProbeFaults /\ probeFaults' = probeFaults + 1

Active == Head(probe.todo)
Doing(pc) == probe.pc = pc
Then(pc) == probe' = [probe EXCEPT !.pc = pc]

-----------------------------------------------------------------------------
(* External: Blossom, the worker *)

Later(s, part) ==
  afterwards' = IF artifacts[s].cleaning \in (IF part = "blob" THEN {"d1", "done"} ELSE {"done"})
                THEN afterwards \cup {<<s, part>>} ELSE afterwards

\* An upload is carried out while its answer is waited for, or later.
StoreBlob(s) ==
  /\ remote[s].upload
  /\ remote' = [remote EXCEPT ![s].upload = FALSE, ![s].blob = "stored"] /\ Later(s, "blob")
  /\ UNCHANGED <<probe, artifacts, taken, unheard, probeFaults>>

\* The cron or the sync endpoint inserts the row, and the cron does so again if the
\* row is gone while the deletion is still in its window.
TakeUp(s) ==
  /\ remote[s].kind5 /\ remote[s].row = "none" /\ taken[s] < MaxClaims
  /\ remote' = [remote EXCEPT ![s].row = "accepted"] /\ Later(s, "row")
  /\ taken' = [taken EXCEPT ![s] = @ + 1]
  /\ UNCHANGED <<probe, artifacts, unheard, probeFaults>>

\* It fails, and may be retried; or it succeeds, and Blossom destroys the bytes or,
\* its flag being off, keeps them.
FinishRow(s) ==
  /\ remote[s].row \in {"accepted", "failed"}
  /\ \E row \in {"failed", "success"} :
       \E blob \in {remote[s].blob} \cup (IF row = "success" THEN {"gone"} ELSE {}) :
         remote' = [remote EXCEPT ![s].row = row, ![s].blob = blob]
  /\ UNCHANGED <<probe, artifacts, taken, afterwards, unheard, probeFaults>>

-----------------------------------------------------------------------------
(* A scenario *)

\* The arguments or the secret are refused: nothing is begun.
RefuseArguments ==
  /\ Doing("start") /\ probe' = [probe EXCEPT !.pc = "ended", !.exit = 2]
  /\ UNCHANGED <<artifacts, remote, taken, afterwards, unheard, probeFaults>>

\* A key and a blob that nobody else has, and the upload of it.
BeginScenario ==
  /\ Doing("start") \/ Doing("next")
  /\ probe.todo # <<>> /\ Then("upload")
  /\ remote' = [remote EXCEPT ![Active].upload = TRUE]
  /\ UNCHANGED <<artifacts, taken, afterwards, unheard, probeFaults>>

\* Any error ends the scenario; what has been sent may still be carried out.
Throw ==
  /\ probe' = [probe EXCEPT !.pc = "clean"]
  /\ artifacts' = [artifacts EXCEPT ![Active].outcome = "fail"]

\* Neither the upload, nor the sync call, nor the assertions hear of a signal.
UploadToBlossom ==
  /\ Doing("upload")
  /\ \/ remote[Active].blob = "stored" /\ Then("publish video") /\ UNCHANGED <<artifacts, probeFaults>>
     \/ ProbeFault /\ Throw
  /\ UNCHANGED <<remote, taken, afterwards, unheard>>

PublishVideo ==
  /\ Doing("publish video")
  /\ \/ /\ ~probe.aborted /\ Then("wait for indexing")
        /\ artifacts' = [artifacts EXCEPT ![Active].target = TRUE] /\ UNCHANGED probeFaults
     \/ ~probe.aborted /\ ProbeFault /\ Throw
     \/ probe.aborted /\ Throw /\ UNCHANGED probeFaults
  /\ UNCHANGED <<remote, taken, afterwards, unheard>>

WaitForIndexing ==
  /\ Doing("wait for indexing")
  /\ \/ ~probe.aborted /\ Then("publish deletion") /\ UNCHANGED <<artifacts, probeFaults>>
     \/ ~probe.aborted /\ ProbeFault /\ Throw
     \/ probe.aborted /\ Throw /\ UNCHANGED probeFaults
  /\ UNCHANGED <<remote, taken, afterwards, unheard>>

\* Without the relay's OK the script does not know that the deletion was published:
\* the OK is late or lost, or a signal comes first.
PublishDeletion ==
  /\ Doing("publish deletion")
  /\ \E stored \in BOOLEAN :
       /\ remote' = [remote EXCEPT ![Active].kind5 = stored]
       /\ \/ /\ ~probe.aborted /\ stored
             /\ Then(IF Active = "sync" THEN "call sync" ELSE "poll status")
             /\ artifacts' = [artifacts EXCEPT ![Active].kind5 = TRUE] /\ UNCHANGED probeFaults
          \/ ~probe.aborted /\ ProbeFault /\ Throw
          \/ probe.aborted /\ Throw /\ UNCHANGED probeFaults
  /\ UNCHANGED <<taken, afterwards, unheard>>

CallSyncEndpoint ==
  /\ Doing("call sync")
  /\ \/ taken[Active] > 0 /\ Then("poll status") /\ UNCHANGED <<artifacts, probeFaults>>
     \/ ProbeFault /\ Throw
  /\ UNCHANGED <<remote, taken, afterwards, unheard>>

\* The status endpoint answers 404 while there is no row, which is an error here; a
\* deletion that is under way is asked for again until the time is up.
PollStatus ==
  /\ Doing("poll status")
  /\ \/ ~probe.aborted /\ remote[Active].row = "success"
        /\ Then("assert") /\ UNCHANGED <<artifacts, probeFaults>>
     \/ ~probe.aborted /\ remote[Active].row # "success" /\ Throw /\ UNCHANGED probeFaults
     \/ ~probe.aborted /\ ProbeFault /\ Throw
     \/ probe.aborted /\ Throw /\ UNCHANGED probeFaults
  /\ UNCHANGED <<remote, taken, afterwards, unheard>>

\* The row by wrangler, whose death leaves nothing to parse, and the bytes, which may
\* be there or gone.
AssertD1AndBlossom ==
  /\ Doing("assert")
  /\ \/ /\ remote[Active].row = "success" /\ Then("clean")
        /\ artifacts' = [artifacts EXCEPT ![Active].outcome = "pass"] /\ UNCHANGED probeFaults
     \/ remote[Active].row # "success" /\ Throw /\ UNCHANGED probeFaults
     \/ ProbeFault /\ Throw
  /\ UNCHANGED <<remote, taken, afterwards, unheard>>

-----------------------------------------------------------------------------
(* The removal, which the end of a scenario and a signal share *)

\* A removal that has begun is waited for, not repeated.
Cleaning(s) ==
  IF artifacts[s].cleaning # "none" THEN artifacts[s].cleaning
  ELSE IF probe.skipCleanup THEN "done" ELSE "blossom"

BeginCleanup ==
  /\ Doing("clean") /\ artifacts[Active].cleaning = "none"
  /\ artifacts' = [artifacts EXCEPT ![Active].cleaning = Cleaning(Active)]
  /\ UNCHANGED <<probe, remote, taken, afterwards, unheard, probeFaults>>

\* The account of the key vanishes with its one blob; an error may hide that it did.
CleanupBlossom(s) ==
  /\ artifacts[s].cleaning = "blossom" /\ probe.exit = -1
  /\ \E result \in {"ok", "failed"}, blob \in {remote[s].blob, "gone"} :
       /\ artifacts' = [artifacts EXCEPT ![s].cleaning = "d1", ![s].blossom = result]
       /\ remote' = [remote EXCEPT ![s].blob = IF @ = "stored" THEN blob ELSE @]
       /\ \/ result = "ok" /\ blob = "gone" /\ UNCHANGED probeFaults
          \/ result = "failed" /\ ProbeFault
  /\ UNCHANGED <<probe, taken, afterwards, unheard>>

\* Of a deletion without both ids there is nothing to remove, it is supposed.  The
\* default runner takes a wrangler that was killed or not found for one that
\* succeeded (`r.status ?? 0`).
CleanupD1Row(s) ==
  /\ artifacts[s].cleaning = "d1" /\ probe.exit = -1
  /\ \E result \in {"ok", "failed", "skipped"}, row \in {remote[s].row, "none"} :
       /\ (result = "skipped") <=> ~(artifacts[s].kind5 /\ artifacts[s].target)
       /\ artifacts' = [artifacts EXCEPT ![s].cleaning = "done", ![s].d1 = result]
       /\ remote' = [remote EXCEPT ![s].row = row]
       /\ \/ result = "skipped" /\ row = remote[s].row /\ UNCHANGED <<unheard, probeFaults>>
          \/ result = "ok" /\ row = "none" /\ UNCHANGED <<unheard, probeFaults>>
          \/ result = "ok" /\ row = remote[s].row /\ unheard' = unheard \cup {s} /\ ProbeFault
          \/ result = "failed" /\ ProbeFault /\ UNCHANGED unheard
  /\ UNCHANGED <<probe, taken, afterwards>>

\* The first signal aborts what can be aborted and begins the removal; the second
\* ends the script.
Signal ==
  /\ probe.pc \notin {"start", "next", "ended", "killed"}
  /\ \/ /\ ~probe.aborted /\ probe' = [probe EXCEPT !.aborted = TRUE]
        /\ artifacts' = [artifacts EXCEPT ![Active].cleaning = Cleaning(Active)]
     \/ /\ probe.aborted /\ probe' = [probe EXCEPT !.pc = "killed", !.exit = 130]
        /\ UNCHANGED artifacts
  /\ UNCHANGED <<remote, taken, afterwards, unheard, probeFaults>>

-----------------------------------------------------------------------------
(* The end *)

\* Mutant: only what is left at Blossom counts.
BlossomFailed(a) == a.blossom = "failed"

CleanupFailed(a) == a.blossom = "failed" \/ a.d1 = "failed"

\* Of the scenarios that have ended.
ExitCode(ended) ==
  IF \E s \in ended : artifacts[s].outcome = "fail" THEN 1
  ELSE IF \E s \in ended : CleanupFailed(artifacts[s]) THEN 3 ELSE 0

\* An aborted run answers for the scenario under way only.
EndScenario ==
  /\ Doing("clean") /\ artifacts[Active].cleaning = "done"
  /\ probe' = IF probe.aborted
            THEN [probe EXCEPT !.pc = "ended",
                             !.exit = IF CleanupFailed(artifacts[Active]) THEN 3 ELSE 130]
            ELSE [probe EXCEPT !.pc = "next", !.todo = Tail(@)]
  /\ UNCHANGED <<artifacts, remote, taken, afterwards, unheard, probeFaults>>

Attempted == {s \in Scenarios : artifacts[s].outcome # "none"}

Summarize ==
  /\ Doing("next") /\ probe.todo = <<>>
  /\ probe' = [probe EXCEPT !.pc = "ended", !.exit = ExitCode(Attempted)]
  /\ UNCHANGED <<artifacts, remote, taken, afterwards, unheard, probeFaults>>

DeleteProbeNext ==
  \/ \E s \in Scenarios : \/ StoreBlob(s) \/ TakeUp(s) \/ FinishRow(s)
                          \/ CleanupBlossom(s) \/ CleanupD1Row(s)
  \/ RefuseArguments \/ BeginScenario \/ UploadToBlossom \/ PublishVideo \/ WaitForIndexing
  \/ PublishDeletion \/ CallSyncEndpoint \/ PollStatus \/ AssertD1AndBlossom
  \/ BeginCleanup \/ Signal \/ EndScenario \/ Summarize

DeleteProbeSpec == DeleteProbeInit /\ [][DeleteProbeNext]_probeVars

-----------------------------------------------------------------------------
(* Properties *)

\* The part of a removal failed, and the exit code sends the operator to the list of
\* what to remove by hand, or at least to the log.
Reported(s, part) == artifacts[s][part] = "failed" /\ probe.exit \in {1, 3}

\* A scenario that an aborted run had behind it is not spoken for any more.
Answerable == IF probe.aborted THEN {Active} ELSE Attempted

\* Whatever failed, was lost, came late or was interrupted, a probe that has come to
\* its end without a second signal leaves nothing in production without telling
\* (e2e-creator-delete.mjs 557-595, 713-779, 837-848), except what the script takes no
\* note of: a blob or a row that appeared once its removal was done; the row of a
\* deletion whose OK never came, as the id, though built here, is kept only with the
\* OK (649); and a row that a wrangler which was killed has left, as its status null
\* counts as 0 (184).  And it ends with 0 only if all scenarios passed.
LeftoversReported ==
  probe.pc = "ended" /\ ~probe.skipCleanup =>
    /\ \A s \in Answerable :
         /\ remote[s].blob = "stored" => Reported(s, "blossom") \/ <<s, "blob">> \in afterwards
         /\ remote[s].row # "none" =>
              \/ Reported(s, "d1") \/ <<s, "row">> \in afterwards
              \/ ~artifacts[s].kind5 \/ s \in unheard
    /\ probe.exit = 0 => \A s \in Attempted : artifacts[s].outcome = "pass"
=============================================================================
