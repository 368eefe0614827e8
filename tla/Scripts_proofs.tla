--------------------------- MODULE Scripts_proofs ---------------------------
(***************************************************************************)
(* Theorems about the sweeps and scripts: the sweep of physical deletes,   *)
(* the backfill of the replica, the walks over the relay, the end-to-end   *)
(* probe and the rollback of the enforcement against classic Vines. Each   *)
(* part is about one module, for every value of its constants, and rests   *)
(* on the assumptions of that module alone.                                *)
(***************************************************************************)
EXTENDS DeleteSweep, ReplicaBackfill, RelayWalk, DeleteProbe, VineRollback,
        FiniteSetTheorems, WellFoundedInduction, TLAPS

\* A set of natural numbers has a least one.
LEMMA LeastNat ==
  ASSUME NEW S, S \subseteq Nat, S # {}
  PROVE  \E x \in S : \A y \in S : x <= y
<1> DEFINE R == {q \in Nat \X Nat : q[1] < q[2]}
<1>1. IsWellFoundedOn(R, Nat)
  BY NatLessThanWellFounded, Zenon DEF OpToRel
<1> HIDE DEF R
<1>2. PICK x \in S : \A y \in S : ~ <<y, x>> \in R
  BY <1>1, WFMin
<1>3. ASSUME NEW y \in S PROVE x <= y
  <2>1. x \in Nat /\ y \in Nat /\ <<y, x>> \notin R
    BY <1>2
  <2> QED
    BY <2>1 DEF R
<1> QED
  BY <1>3

-----------------------------------------------------------------------------
(* DeleteSweep. For every set of rows and blobs, every size of a batch and *)
(* every number of faults.                                                 *)

Outcomes == {"none", "success", "flag-off", "failure"}
Stages == {"fetch", "preflight", "call", "take", "abort", "first", "surface", "exited"}

RunState ==
  [pc : Stages, candidates : SUBSET DeleteRow, todo : SUBSET DeleteRow, first : SUBSET DeleteRow,
   answer : [DeleteRow -> Outcomes], pending : SUBSET DeleteRow, failed : SUBSET DeleteRow,
   draining : BOOLEAN, exit : Nat]

Typed == run \in RunState /\ stamped \subseteq DeleteRow

\* What the script takes for destroyed is destroyed.
Believed == run.first \cup run.pending \cup Answered("success")
BelievedIsTrue == \A r \in stamped \cup Believed : ShaOf[r] \in destroyed

\* Where a row of the run is that is not yet stamped.
Awaited == run.todo \cup {r \in DeleteRow : run.answer[r] # "none"}
Noted == run.first \cup run.pending \cup run.failed
NothingAwaited == Awaited = {} \/ (run.draining /\ \A r \in DeleteRow : run.answer[r] = "none")

NoneForgotten ==
  /\ run.pc \in {"preflight", "call", "take", "first", "surface"} =>
       run.candidates \subseteq stamped \cup Awaited \cup Noted
  /\ run.pc \in {"fetch", "preflight"} =>
       run.first = {} /\ run.pending = {} /\ \A r \in DeleteRow : run.answer[r] = "none"
  /\ run.pc = "take" => run.todo = {} \/ run.draining
  /\ run.pc \in {"first", "surface"} => NothingAwaited /\ run.pending = {}
  /\ run.pc = "surface" => run.first \subseteq stamped
  /\ run.exit = 0 => run.pc = "exited" /\ (run.draining \/ run.candidates \subseteq stamped)

SweepInv == Typed /\ BelievedIsTrue /\ NoneForgotten

LEMMA StartedRunType ==
  /\ StartedRun \in RunState
  /\ StartedRun.pc = "fetch" /\ StartedRun.exit = 99
  /\ StartedRun.first = {} /\ StartedRun.pending = {}
  /\ \A r \in DeleteRow : StartedRun.answer[r] = "none"
  BY DEF StartedRun, RunState, Stages, Outcomes

LEMMA SweepInitInv == SweepInit => SweepInv
  BY StartedRunType
  DEF SweepInit, SweepInv, Typed, BelievedIsTrue, NoneForgotten, Believed, Answered

\* A run that ends with another code than 0 has nothing more to show.
LEMMA ExitInv ==
  ASSUME SweepInv, NEW code \in Nat \ {0}, Exit(code), destroyed \subseteq destroyed',
         stamped' \subseteq DeleteRow, \A r \in stamped' : ShaOf[r] \in destroyed'
  PROVE  SweepInv'
<1>1. run \in RunState
  BY DEF SweepInv, Typed
<1>2. run' = [run EXCEPT !.pc = "exited", !.exit = code]
  BY DEF Exit
<1>3. Typed'
  BY <1>1, <1>2 DEF Typed, RunState, Stages
<1>4. Believed' = Believed
  BY <1>1, <1>2 DEF Believed, Answered, RunState
<1>5. run'.pc = "exited" /\ run'.exit # 0
  BY <1>1, <1>2 DEF RunState
<1> QED
  BY <1>3, <1>4, <1>5 DEF SweepInv, BelievedIsTrue, NoneForgotten

\* What a stamp does: rows with the blob of a row believed destroyed.
LEMMA StampRule ==
  ASSUME SweepInv, NEW rows \in SUBSET Believed, Stamp(rows), rows \subseteq DeleteRow
  PROVE  /\ stamped' \subseteq DeleteRow
         /\ stamped \subseteq stamped' /\ rows \subseteq stamped'
         /\ \A r \in stamped' : ShaOf[r] \in destroyed
  BY DEF SweepInv, Typed, BelievedIsTrue, Stamp

LEMMA CallRule ==
  ASSUME NEW r \in DeleteRow, NEW outcome, Call(r, outcome)
  PROVE  /\ destroyed \subseteq destroyed'
         /\ outcome \in {"success", "flag-off", "failure"}
         /\ outcome = "success" => ShaOf[r] \in destroyed'
  BY DEF Call

-----------------------------------------------------------------------------
(* One lemma per step.                                                     *)

LEMMA FetchInv == SweepInv /\ FetchCandidates => SweepInv'
<1> SUFFICES ASSUME SweepInv, FetchCandidates PROVE SweepInv'
  OBVIOUS
<1>1. run \in RunState /\ stamped \subseteq DeleteRow
  BY DEF SweepInv, Typed
<1>2. CASE SweepFault /\ Exit(3)
  <2>1. \A r \in stamped' : ShaOf[r] \in destroyed'
    BY DEF FetchCandidates, SweepInv, BelievedIsTrue
  <2> QED
    BY <1>1, <1>2, <2>1, ExitInv DEF FetchCandidates
<1>3. CASE run' = [run EXCEPT !.pc = IF Candidates = {} THEN "surface" ELSE "preflight",
                              !.candidates = Candidates, !.todo = Candidates]
  <2>1. Candidates \subseteq DeleteRow
    BY DEF Candidates
  <2>2. /\ run'.pc = IF Candidates = {} THEN "surface" ELSE "preflight"
        /\ run'.candidates = Candidates /\ run'.todo = Candidates
        /\ run'.first = run.first /\ run'.pending = run.pending /\ run'.answer = run.answer
        /\ run'.exit = run.exit
    BY <1>1, <1>3 DEF RunState
  <2>3. Typed'
    BY <1>1, <1>3, <2>1 DEF Typed, RunState, Stages, FetchCandidates
  <2>4. BelievedIsTrue'
    BY <2>2 DEF FetchCandidates, SweepInv, BelievedIsTrue, Believed, Answered
  <2>5. run'.first = {} /\ run'.pending = {} /\ \A r \in DeleteRow : run'.answer[r] = "none"
    BY <2>2 DEF SweepInv, NoneForgotten, FetchCandidates
  <2>6. Awaited' = run'.candidates /\ run'.exit # 0
    BY <2>1, <2>2, <2>5 DEF Awaited, SweepInv, NoneForgotten, FetchCandidates
  <2>7. NoneForgotten'
    BY <2>2, <2>5, <2>6 DEF NoneForgotten, NothingAwaited
  <2> QED
    BY <2>3, <2>4, <2>7 DEF SweepInv
<1> QED
  BY <1>2, <1>3 DEF FetchCandidates

LEMMA FirstType ==
  ASSUME NEW k \in RunState, NEW first \in SUBSET DeleteRow, NEW todo \in SUBSET DeleteRow
  PROVE  [k EXCEPT !.pc = "call", !.first = first, !.todo = todo] \in RunState
  BY DEF RunState, Stages

LEMMA PreflightInv == SweepInv /\ Preflight => SweepInv'
<1> SUFFICES ASSUME SweepInv, Preflight PROVE SweepInv'
  OBVIOUS
<1>1. run \in RunState /\ stamped \subseteq DeleteRow /\ run.pc = "preflight"
  BY DEF SweepInv, Typed, Preflight
<1>2. PICK r \in run.todo, outcome \in {"success", "flag-off", "failure"} :
        /\ Call(r, outcome)
        /\ IF outcome = "success"
           THEN run' = [run EXCEPT !.pc = "call", !.first = {r}, !.todo = @ \ {r}]
           ELSE Exit(2)
  BY DEF Preflight
<1>3. r \in DeleteRow /\ destroyed \subseteq destroyed' /\ stamped' = stamped
  BY <1>1, <1>2, CallRule DEF RunState, Preflight
<1>4. CASE outcome = "success"
  <2>1. /\ run'.pc = "call" /\ run'.first = {r} /\ run'.todo = run.todo \ {r}
        /\ run'.candidates = run.candidates /\ run'.pending = run.pending
        /\ run'.answer = run.answer /\ run'.failed = run.failed /\ run'.exit = run.exit
    BY <1>1, <1>2, <1>4 DEF RunState
  <2>2. Typed'
    <3>1. {r} \in SUBSET DeleteRow /\ run.todo \ {r} \in SUBSET DeleteRow
      BY <1>1, <1>3 DEF RunState
    <3>2. [run EXCEPT !.pc = "call", !.first = {r}, !.todo = run.todo \ {r}] \in RunState
      BY <1>1, <3>1, FirstType
    <3> QED
      BY <1>1, <1>2, <1>3, <1>4, <3>2 DEF Typed
  <2>3. ShaOf[r] \in destroyed'
    BY <1>2, <1>3, <1>4, CallRule
  <2>4. BelievedIsTrue'
    BY <1>3, <2>1, <2>3 DEF SweepInv, BelievedIsTrue, Believed, Answered
  <2> QED
    BY <1>1, <1>3, <2>1, <2>2, <2>4 DEF SweepInv, NoneForgotten, Awaited, Noted
<1>5. CASE Exit(2)
  BY <1>1, <1>3, <1>5, ExitInv DEF SweepInv, BelievedIsTrue
<1> QED
  BY <1>2, <1>4, <1>5

LEMMA CallInv ==
  ASSUME SweepInv, NEW r \in DeleteRow, CallBlossom(r)
  PROVE  SweepInv'
<1>1. /\ run \in RunState /\ stamped \subseteq DeleteRow /\ stamped' = stamped
      /\ run.pc = "call" /\ r \in run.todo
  BY DEF SweepInv, Typed, CallBlossom
<1>2. PICK outcome \in {"success", "flag-off", "failure"} :
        Call(r, outcome) /\ run' = [run EXCEPT !.todo = @ \ {r}, !.answer[r] = outcome]
  BY DEF CallBlossom
<1>3. /\ run'.pc = run.pc /\ run'.first = run.first /\ run'.todo = run.todo \ {r}
      /\ run'.candidates = run.candidates /\ run'.pending = run.pending
      /\ run'.answer = [run.answer EXCEPT ![r] = outcome]
      /\ run'.failed = run.failed /\ run'.exit = run.exit
  BY <1>1, <1>2 DEF RunState
<1>4. run.answer \in [DeleteRow -> Outcomes]
  BY <1>1 DEF RunState
<1>5. Typed'
  BY <1>1, <1>2 DEF Typed, RunState, Outcomes
<1>6. BelievedIsTrue'
  BY <1>1, <1>2, <1>3, <1>4, CallRule DEF SweepInv, BelievedIsTrue, Believed, Answered
<1>7. Awaited' = Awaited
  BY <1>1, <1>2, <1>3, <1>4, CallRule DEF Awaited
<1> QED
  BY <1>1, <1>3, <1>5, <1>6, <1>7 DEF SweepInv, NoneForgotten, Noted

\* Steps that change nothing but the stage, and whether the run drains.
LEMMA StageInv ==
  ASSUME SweepInv, Interrupt \/ AllCalled
  PROVE  SweepInv'
<1>1. run \in RunState
  BY DEF SweepInv, Typed
<1>2. /\ run'.first = run.first /\ run'.todo = run.todo /\ run'.candidates = run.candidates
      /\ run'.pending = run.pending /\ run'.answer = run.answer /\ run'.failed = run.failed
      /\ run'.exit = run.exit /\ (run.draining => run'.draining)
      /\ \/ run'.pc = run.pc /\ run.pc \in {"preflight", "call"}
         \/ run'.pc = "take" /\ run.pc = "call" /\ (run.todo = {} \/ run'.draining)
  BY <1>1 DEF Interrupt, AllCalled, RunState
<1>3. Typed'
  BY <1>1 DEF SweepInv, Typed, Interrupt, AllCalled, RunState, Stages
<1>4. stamped' = stamped /\ destroyed' = destroyed
  BY DEF Interrupt, AllCalled
<1>5. Believed' = Believed /\ Awaited' = Awaited /\ Noted' = Noted
  BY <1>2 DEF Believed, Answered, Awaited, Noted
<1> QED
  BY <1>2, <1>3, <1>4, <1>5 DEF SweepInv, BelievedIsTrue, NoneForgotten

LEMMA ResultType ==
  ASSUME NEW k \in RunState, NEW answer \in [DeleteRow -> Outcomes], NEW pc \in Stages,
         NEW pending \in SUBSET DeleteRow, NEW failed \in SUBSET DeleteRow
  PROVE  [k EXCEPT !.answer = answer, !.pending = pending, !.failed = failed, !.pc = pc] \in RunState
  BY DEF RunState

LEMMA TakeInv ==
  ASSUME SweepInv, NEW r \in DeleteRow, TakeResult(r)
  PROVE  SweepInv'
<1>1. /\ run \in RunState /\ run.pc = "take" /\ run.answer[r] # "none"
      /\ stamped' = stamped /\ destroyed' = destroyed
      /\ run.answer \in [DeleteRow -> Outcomes]
  BY DEF SweepInv, Typed, TakeResult, RunState
<1>2. /\ run'.first = run.first /\ run'.todo = run.todo /\ run'.candidates = run.candidates
      /\ run'.answer = [run.answer EXCEPT ![r] = "none"]
      /\ run'.pending = IF run.answer[r] = "success" THEN run.pending \cup {r} ELSE run.pending
      /\ run'.failed = IF run.answer[r] = "failure" THEN run.failed \cup {r} ELSE run.failed
      /\ run'.pc = IF run.answer[r] = "flag-off" THEN "abort" ELSE run.pc
      /\ run'.exit = run.exit /\ run'.draining = run.draining
  BY <1>1 DEF TakeResult, RunState
<1>3. Typed'
  <2> DEFINE answer == [run.answer EXCEPT ![r] = "none"]
             pending == IF run.answer[r] = "success" THEN run.pending \cup {r} ELSE run.pending
             failed == IF run.answer[r] = "failure" THEN run.failed \cup {r} ELSE run.failed
             pc == IF run.answer[r] = "flag-off" THEN "abort" ELSE run.pc
  <2>1. /\ answer \in [DeleteRow -> Outcomes] /\ pc \in Stages
        /\ pending \in SUBSET DeleteRow /\ failed \in SUBSET DeleteRow
    BY <1>1 DEF RunState, Outcomes, Stages
  <2>2. run' = [run EXCEPT !.answer = answer, !.pending = pending, !.failed = failed, !.pc = pc]
    BY <1>1 DEF TakeResult, RunState
  <2> HIDE DEF answer, pending, failed, pc
  <2>3. run' \in RunState
    BY <1>1, <2>1, <2>2, ResultType
  <2> QED
    BY <1>1, <2>3 DEF SweepInv, Typed
<1>4. Believed' \subseteq Believed
  BY <1>1, <1>2 DEF Believed, Answered
<1>5. run.answer[r] # "flag-off" => Awaited \cup Noted = Awaited' \cup Noted'
  BY <1>1, <1>2 DEF Awaited, Noted, Outcomes
<1> QED
  BY <1>1, <1>2, <1>3, <1>4, <1>5 DEF SweepInv, BelievedIsTrue, NoneForgotten

LEMMA FlushedType ==
  ASSUME NEW k \in RunState
  PROVE  /\ [k EXCEPT !.pending = {}] \in RunState
         /\ [k EXCEPT !.pending = {}, !.pc = "first"] \in RunState
  BY DEF RunState, Stages

LEMMA FlushInv == SweepInv /\ Flush => SweepInv'
<1> SUFFICES ASSUME SweepInv, Flush PROVE SweepInv'
  OBVIOUS
<1>1. /\ run \in RunState /\ stamped \subseteq DeleteRow /\ destroyed' = destroyed
      /\ \A r \in stamped : ShaOf[r] \in destroyed
      /\ run.pending \in SUBSET Believed /\ run.pending \subseteq DeleteRow
  BY DEF SweepInv, Typed, BelievedIsTrue, Believed, Flush, RunState
<1>2. CASE Exit(4) \/ Exit(2)
  <2>1. stamped' \subseteq DeleteRow /\ \A r \in stamped' : ShaOf[r] \in destroyed'
    <3>1. CASE Stamp(run.pending)
      BY <1>1, <3>1, StampRule
    <3>2. CASE UNCHANGED stamped
      BY <1>1, <3>2
    <3> QED
      BY <3>1, <3>2 DEF Flush
  <2> QED
    BY <1>1, <1>2, <2>1, ExitInv
<1>3. CASE /\ Stamp(run.pending) /\ run.pc = "take"
           /\ \/ run' = [run EXCEPT !.pending = {}]
              \/ /\ run' = [run EXCEPT !.pending = {}, !.pc = "first"]
                 /\ \A r \in DeleteRow : run.answer[r] = "none"
  <2>1. /\ stamped' \subseteq DeleteRow /\ stamped \subseteq stamped'
        /\ run.pending \subseteq stamped' /\ \A r \in stamped' : ShaOf[r] \in destroyed
    BY <1>1, <1>3, StampRule
  <2>2. /\ run'.first = run.first /\ run'.todo = run.todo /\ run'.candidates = run.candidates
        /\ run'.answer = run.answer /\ run'.pending = {} /\ run'.failed = run.failed
        /\ run'.exit = run.exit /\ run'.draining = run.draining
        /\ \/ run'.pc = "take"
           \/ run'.pc = "first" /\ \A r \in DeleteRow : run.answer[r] = "none"
    BY <1>1, <1>3 DEF RunState
  <2>3. Typed'
    BY <1>1, <1>3, <2>1, FlushedType DEF Typed
  <2>4. BelievedIsTrue'
    BY <1>1, <2>1, <2>2 DEF SweepInv, BelievedIsTrue, Believed, Answered
  <2>5. Awaited' = Awaited /\ Noted \subseteq Noted' \cup stamped'
    BY <2>1, <2>2 DEF Awaited, Noted
  <2>6. run'.pc = "first" => NothingAwaited'
    BY <1>3, <2>2 DEF SweepInv, NoneForgotten, NothingAwaited, Awaited
  <2> QED
    BY <1>3, <2>1, <2>2, <2>3, <2>4, <2>5, <2>6 DEF SweepInv, NoneForgotten
<1> QED
  BY <1>2, <1>3 DEF Flush

LEMMA PcType ==
  ASSUME NEW k \in RunState, NEW pc \in Stages
  PROVE  [k EXCEPT !.pc = pc] \in RunState
  BY DEF RunState

LEMMA StampFirstInv == SweepInv /\ StampFirst => SweepInv'
<1> SUFFICES ASSUME SweepInv, StampFirst PROVE SweepInv'
  OBVIOUS
<1>1. /\ run \in RunState /\ stamped \subseteq DeleteRow /\ destroyed' = destroyed
      /\ run.pc = "first" /\ \A r \in stamped : ShaOf[r] \in destroyed
      /\ run.first \in SUBSET Believed /\ run.first \subseteq DeleteRow
  BY DEF SweepInv, Typed, BelievedIsTrue, Believed, StampFirst, RunState
<1>2. CASE Exit(4)
  <2>1. stamped' \subseteq DeleteRow /\ \A r \in stamped' : ShaOf[r] \in destroyed'
    BY <1>1, StampRule DEF StampFirst
  <2> QED
    BY <1>1, <1>2, <2>1, ExitInv
<1>3. CASE Stamp(run.first) /\ run' = [run EXCEPT !.pc = "surface"]
  <2>1. /\ stamped' \subseteq DeleteRow /\ stamped \subseteq stamped'
        /\ run.first \subseteq stamped' /\ \A r \in stamped' : ShaOf[r] \in destroyed
    BY <1>1, <1>3, StampRule
  <2>2. /\ run'.first = run.first /\ run'.todo = run.todo /\ run'.candidates = run.candidates
        /\ run'.answer = run.answer /\ run'.pending = run.pending /\ run'.failed = run.failed
        /\ run'.exit = run.exit /\ run'.draining = run.draining /\ run'.pc = "surface"
    BY <1>1, <1>3 DEF RunState
  <2>3. Typed'
    BY <1>1, <1>3, <2>1, PcType DEF Typed, Stages
  <2>4. Believed' = Believed /\ Awaited' = Awaited /\ Noted' = Noted
    BY <2>2 DEF Believed, Answered, Awaited, Noted
  <2>5. BelievedIsTrue'
    BY <1>1, <2>1, <2>4 DEF SweepInv, BelievedIsTrue
  <2> QED
    BY <1>1, <2>1, <2>2, <2>3, <2>4, <2>5 DEF SweepInv, NoneForgotten, NothingAwaited
<1> QED
  BY <1>2, <1>3 DEF StampFirst

LEMMA ExitType ==
  ASSUME NEW k \in RunState, NEW code \in Nat
  PROVE  [k EXCEPT !.pc = "exited", !.exit = code] \in RunState
  BY DEF RunState, Stages

\* The only step that may end a run with 0.
LEMMA SurfaceInv == SweepInv /\ Surface => SweepInv'
<1> SUFFICES ASSUME SweepInv, Surface PROVE SweepInv'
  OBVIOUS
<1>1. /\ run \in RunState /\ run.pc = "surface" /\ destroyed' = destroyed /\ stamped' = stamped
      /\ stamped \subseteq DeleteRow /\ \A r \in stamped : ShaOf[r] \in destroyed
  BY DEF SweepInv, Typed, BelievedIsTrue, Surface
<1>2. CASE Exit(1)
  BY <1>1, <1>2, ExitInv
<1>3. CASE Exit(0) /\ run.failed = {}
  <2>1. /\ run'.first = run.first /\ run'.candidates = run.candidates
        /\ run'.answer = run.answer /\ run'.pending = run.pending
        /\ run'.draining = run.draining /\ run'.pc = "exited" /\ run'.exit = 0
    BY <1>1, <1>3 DEF Exit, RunState
  <2>2. Typed'
    BY <1>1, <1>3, ExitType DEF Typed, Exit
  <2>3. BelievedIsTrue'
    BY <1>1, <2>1 DEF SweepInv, BelievedIsTrue, Believed, Answered
  <2>4. run.draining \/ run.candidates \subseteq stamped
    BY <1>1, <1>3 DEF SweepInv, NoneForgotten, NothingAwaited, Noted
  <2> QED
    BY <1>1, <2>1, <2>2, <2>3, <2>4 DEF SweepInv, NoneForgotten
<1> QED
  BY <1>2, <1>3 DEF Surface

LEMMA OtherInv ==
  ASSUME SweepInv, Kill \/ Rerun \/ ToggleFlag \/ \E r \in DeleteRow : SettleRow(r)
  PROVE  SweepInv'
<1>1. stamped' = stamped /\ destroyed' = destroyed /\ stamped \subseteq DeleteRow
      /\ \A r \in stamped : ShaOf[r] \in destroyed
  BY DEF SweepInv, Typed, BelievedIsTrue, Kill, Rerun, ToggleFlag, SettleRow
<1>2. CASE Kill
  BY <1>1, <1>2, ExitInv DEF Kill
<1>3. CASE Rerun
  BY <1>1, <1>3, StartedRunType
  DEF Rerun, SweepInv, Typed, BelievedIsTrue, NoneForgotten, Believed, Answered
<1>4. CASE run' = run
  BY <1>1, <1>4
  DEF SweepInv, Typed, BelievedIsTrue, NoneForgotten, Believed, Answered, NothingAwaited,
      Awaited, Noted
<1> QED
  BY <1>2, <1>3, <1>4 DEF ToggleFlag, SettleRow

LEMMA SweepInvStep ==
  ASSUME SweepInv, [SweepNext]_sweepVars
  PROVE  SweepInv'
<1>1. CASE UNCHANGED sweepVars
  BY <1>1
  DEF sweepVars, SweepInv, Typed, BelievedIsTrue, NoneForgotten, Believed, Answered,
      NothingAwaited, Awaited, Noted
<1> QED
  BY <1>1, FetchInv, PreflightInv, CallInv, StageInv, TakeInv, FlushInv, StampFirstInv,
     SurfaceInv, OtherInv DEF SweepNext

\* The strengthening holds in every state of the physical-delete sweep: a row that a
\* run believes deleted has lost its bytes, and no row it took is forgotten.
THEOREM SweepInvariant == SweepSpec => []SweepInv
  BY SweepInitInv, SweepInvStep, PTL DEF SweepSpec

\* Whatever the operator of Blossom toggles, whatever answers and writes are
\* lost and wherever a run is killed: a stamp tells the truth, and so does a
\* run that ends with 0.
THEOREM StampsTellTheTruth == SweepSpec => []StampsAreTrue
<1>1. SweepInv => StampsAreTrue
  BY DEF SweepInv, BelievedIsTrue, NoneForgotten, StampsAreTrue, StampedMeansDestroyed,
     CleanExitMeansDone
<1> QED
  BY <1>1, SweepInvariant, PTL

-----------------------------------------------------------------------------
(* VineRollback.  RowKinds, keys and blobs only move towards SAFE, whichever   *)
(* of the overlapping invocations moves them: what one has seen done stays *)
(* done.  A blob that nothing shows as restricted any more is one that an  *)
(* invocation is about to tell Blossom of, or that a failure has lost.     *)

LEMMA PositionsOfTheList ==
  Len(List) \in Nat /\ Position = 1..Len(List)
<1>1. ASSUME NEW S, List \in Seq(S)
      PROVE  Len(List) \in Nat /\ Position = 1..Len(List)
  BY <1>1 DEF Position
<1>2. List \in Seq({List[p] : p \in Position})
  BY VineRollbackAssumption
<1> QED
  BY <1>1, <1>2

LEMMA Numbers == MaxInvocations \in Nat /\ PageSize \in Nat \ {0}
  BY VineRollbackAssumption

Metadata == SUBSET {List[p] : p \in Position}
KeySets == SUBSET {"review", "quarantine", "age-restricted", "permanent-ban"}
RowKinds == {"none", "SAFE", "QUARANTINE"}
AtWork == {"keys", "restore", "clear", "tell"}
Phases == {"idle", "lookup", "item", "answered", "ended"} \cup AtWork
Reasons == {"none", "invalid-sha256", "missing-vine-metadata", "not-classic-vine",
            "would-restore", "rollback-failed", "already-safe", "confirmed-classic-vine",
            "blossom-notification-failed"}
Invocation ==
  [pc : Phases, preview : BOOLEAN,
   at : Nat, upto : Nat, known : Metadata, saw : RowKinds, stale : KeySets,
   answers : [Position -> Reasons]]

\* No video is taken further from SAFE.
Restores(e, f) ==
  \A h \in Hash :
    /\ e[h].row = "SAFE" => f[h].row = "SAFE"
    /\ f[h].keys \subseteq e[h].keys
    /\ e[h].blob = "active" => f[h].blob = "active"

\* The page lies in the list.
InList(a) == a.pc # "idle" => a.at >= 1 /\ a.upto <= Len(List)

\* What an invocation has done for the item that it is at.
DoneSoFar(a, e) ==
  /\ a.pc \in AtWork =>
       /\ a.at \in Position /\ List[a.at] \in Hash
       /\ IsClassicVineRollbackCandidate(List[a.at])
       /\ a.saw = "SAFE" => e[List[a.at]].row = "SAFE"
  /\ a.pc \in {"clear", "tell"} => e[List[a.at]].row = "SAFE"
  /\ a.pc \in {"restore", "clear", "tell"} => e[List[a.at]].keys \subseteq a.stale
  /\ a.pc = "tell" => e[List[a.at]].keys = {}

\* The metadata of what is left of the page is there, or a lookup came back short.
Equipped(a, u) ==
  a.pc \in {"item"} \cup AtWork =>
    \A p \in Position :
      a.at <= p /\ p <= a.upto /\ List[p] \in (Hash \cap Findable) \ u =>
        p \in Pictured \/ List[p] \in a.known

\* Answers tell classic Vines from others, and what they call safe is so but for Blossom.
Sound(answers, e, u) ==
  \A p \in Position :
    /\ answers[p] # "none" /\ List[p] \in (Hash \cap Findable) \ u =>
         /\ answers[p] = "not-classic-vine" <=> ~IsClassicVineRollbackCandidate(List[p])
         /\ answers[p] # "missing-vine-metadata"
    /\ answers[p] \in {"confirmed-classic-vine", "already-safe"} =>
         List[p] \in Hash /\ e[List[p]].row = "SAFE" /\ e[List[p]].keys = {}

InvocationInv(a, e, u) ==
  a \in Invocation /\ InList(a) /\ DoneSoFar(a, e) /\ Equipped(a, u) /\ Sound(a.answers, e, u)

\* An invocation that the operator waits for has answered all items before the one
\* that it is at.
PageEnd(cursor) == IF cursor + PageSize < Len(List) THEN cursor + PageSize ELSE Len(List)

AnswersPage(a, cursor) ==
  /\ a.upto = PageEnd(cursor)
  /\ \A p \in Position : cursor < p /\ p < a.at => a.answers[p] # "none"
  /\ a.pc = "answered" => a.at > a.upto

Operator ==
  [mode : {"preview", "execute", "resume"}, cursor : {Done} \cup Nat, waits : 0..MaxInvocations]

RollbackTyped ==
  /\ enforced \in [Hash -> Record]
  /\ operator \in Operator
  /\ invocation \in [1..MaxInvocations -> Invocation]
  /\ answered \in [Position -> Reasons]

Traced == \A h \in Hash : enforced[h] = Untraced => h \in untold \/ AboutToTell(h)

GoneThrough ==
  \A p \in Position : operator.cursor = Done \/ p <= operator.cursor => answered[p] # "none"

RollbackInv ==
  /\ RollbackTyped
  /\ \A i \in 1..MaxInvocations : InvocationInv(invocation[i], enforced, unresolved)
  /\ Sound(answered, enforced, unresolved)
  /\ operator.waits # 0 =>
       operator.cursor # Done /\ AnswersPage(invocation[operator.waits], operator.cursor)
  /\ Traced /\ GoneThrough

\* What is true of an invocation stays true while videos are restored.
LEMMA OthersStand ==
  ASSUME NEW a, NEW e \in [Hash -> Record], NEW f \in [Hash -> Record], NEW u, NEW v,
         InvocationInv(a, e, u), Restores(e, f), u \subseteq v
  PROVE  InvocationInv(a, f, v)
<1>1. DoneSoFar(a, f)
  <2>1. CASE a.pc \in AtWork
    <3>1. List[a.at] \in Hash
      BY <2>1 DEF InvocationInv, DoneSoFar
    <3> QED
      BY <2>1, <3>1 DEF InvocationInv, DoneSoFar, Restores
  <2>2. CASE a.pc \notin AtWork
    BY <2>2 DEF DoneSoFar, AtWork
  <2> QED
    BY <2>1, <2>2
<1>2. Equipped(a, v)
  BY DEF InvocationInv, Equipped
<1>3. Sound(a.answers, f, v)
  BY DEF InvocationInv, Sound, Restores
<1> QED
  BY <1>1, <1>2, <1>3 DEF InvocationInv

LEMMA AnswersStand ==
  ASSUME NEW answers, NEW e \in [Hash -> Record], NEW f \in [Hash -> Record], NEW u, NEW v,
         Sound(answers, e, u), Restores(e, f), u \subseteq v
  PROVE  Sound(answers, f, v)
  BY DEF Sound, Restores

\* b is what a has become in one step: at the same item, or at the next with an answer.
GoesOnTo(a, b) ==
  /\ b.upto = a.upto
  /\ \/ b.at = a.at /\ b.answers = a.answers
     \/ \E reason \in Reasons \ {"none"} :
          b.at = a.at + 1 /\ b.answers = [a.answers EXCEPT ![a.at] = reason]
  /\ b.pc = "answered" => b.at > b.upto

LEMMA PageAnswered ==
  ASSUME NEW a \in Invocation, NEW b, NEW cursor \in Nat, AnswersPage(a, cursor), GoesOnTo(a, b)
  PROVE  AnswersPage(b, cursor)
<1>1. a.answers \in [Position -> Reasons] /\ a.at \in Nat
  BY DEF Invocation
<1>2. CASE b.at = a.at /\ b.answers = a.answers
  BY <1>2 DEF AnswersPage, GoesOnTo
<1>3. ASSUME NEW reason \in Reasons \ {"none"}, b.at = a.at + 1,
             b.answers = [a.answers EXCEPT ![a.at] = reason]
      PROVE  AnswersPage(b, cursor)
  <2>1. ASSUME NEW p \in Position, cursor < p, p < b.at
        PROVE  b.answers[p] # "none"
    <3>1. CASE p = a.at
      BY <1>1, <1>3, <3>1
    <3>2. CASE p # a.at
      <4>1. p < a.at
        <5>1. p \in Nat
          BY PositionsOfTheList
        <5>2. p < a.at + 1
          BY <1>3, <2>1
        <5> QED
          BY <1>1, <3>2, <5>1, <5>2
      <4> QED
        BY <1>1, <1>3, <2>1, <3>2, <4>1 DEF AnswersPage
    <3> QED
      BY <3>1, <3>2
  <2> QED
    BY <2>1 DEF AnswersPage, GoesOnTo
<1> QED
  BY <1>2, <1>3 DEF GoesOnTo

Still(i) == \A j \in (1..MaxInvocations) \ {i} : invocation'[j] = invocation[j]

\* A video becomes one that nothing shows as restricted only under the eyes of an
\* invocation that tells Blossom, or by a failure.
LosesNone(i) ==
  \A h \in Hash :
    enforced'[h] = Untraced =>
      \/ h \in untold'
      \/ invocation'[i].pc \in {"clear", "tell"} /\ List[invocation'[i].at] = h
      \/ /\ enforced[h] = Untraced
         /\ ~(invocation[i].pc \in {"clear", "tell"} /\ List[invocation[i].at] = h)

LEMMA TracedStays ==
  ASSUME NEW i \in 1..MaxInvocations, Traced, Still(i), LosesNone(i), untold \subseteq untold'
  PROVE  Traced'
<1> SUFFICES ASSUME NEW h \in Hash, enforced'[h] = Untraced, h \notin untold'
             PROVE  \E j \in 1..MaxInvocations :
                      invocation'[j].pc \in {"clear", "tell"} /\ List[invocation'[j].at] = h
  BY DEF Traced, AboutToTell, ItemOf
<1>1. CASE invocation'[i].pc \in {"clear", "tell"} /\ List[invocation'[i].at] = h
  BY <1>1
<1>2. CASE /\ enforced[h] = Untraced
           /\ ~(invocation[i].pc \in {"clear", "tell"} /\ List[invocation[i].at] = h)
  <2>1. PICK j \in 1..MaxInvocations :
               invocation[j].pc \in {"clear", "tell"} /\ List[invocation[j].at] = h
    BY <1>2 DEF Traced, AboutToTell, ItemOf
  <2>2. j # i
    BY <1>2, <2>1
  <2> QED
    BY <2>1, <2>2 DEF Still
<1> QED
  BY <1>1, <1>2 DEF LosesNone

\* One invocation has made a step, and the operator has not, unless it has stopped
\* waiting for it.
LEMMA InvocationMoves ==
  ASSUME NEW i \in 1..MaxInvocations, RollbackInv,
         enforced' \in [Hash -> Record], invocation' \in [1..MaxInvocations -> Invocation],
         Still(i), Restores(enforced, enforced'), unresolved \subseteq unresolved',
         untold \subseteq untold', answered' = answered, LosesNone(i),
         InvocationInv(invocation'[i], enforced', unresolved'),
         operator' \in Operator, operator'.cursor = operator.cursor,
         \/ operator'.waits = 0
         \/ operator'.waits = operator.waits
              /\ (operator.waits = i => GoesOnTo(invocation[i], invocation'[i]))
  PROVE  RollbackInv'
<1>1. RollbackTyped'
  BY DEF RollbackInv, RollbackTyped
<1>2. ASSUME NEW j \in 1..MaxInvocations
      PROVE  InvocationInv(invocation'[j], enforced', unresolved')
  <2>1. CASE j = i
    BY <2>1
  <2>2. CASE j # i
    BY <2>2, OthersStand DEF Still, RollbackInv, RollbackTyped
  <2> QED
    BY <2>1, <2>2
<1>3. Sound(answered, enforced', unresolved')
  BY AnswersStand DEF RollbackInv, RollbackTyped
<1>4. ASSUME operator'.waits # 0
      PROVE  /\ operator'.cursor # Done
             /\ AnswersPage(invocation'[operator'.waits], operator'.cursor)
  <2>1. operator'.waits = operator.waits /\ operator.waits # 0
    BY <1>4
  <2>2. operator.cursor # Done /\ AnswersPage(invocation[operator.waits], operator.cursor)
    BY <2>1 DEF RollbackInv
  <2>3. operator.cursor \in Nat /\ operator.waits \in 1..MaxInvocations
    <3>1. operator.cursor \in {Done} \cup Nat /\ operator.waits \in 0..MaxInvocations
      BY DEF RollbackInv, RollbackTyped, Operator
    <3> QED
      BY <2>1, <2>2, <3>1, Numbers
  <2>4. CASE operator.waits # i
    BY <2>1, <2>2, <2>3, <2>4 DEF Still
  <2>5. CASE operator.waits = i
    <3>1. GoesOnTo(invocation[i], invocation'[i])
      BY <1>4, <2>1, <2>5
    <3>2. invocation[i] \in Invocation
      BY DEF RollbackInv, RollbackTyped
    <3> QED
      BY <2>1, <2>2, <2>3, <2>5, <3>1, <3>2, PageAnswered
  <2> QED
    BY <2>4, <2>5
<1>5. Traced'
  BY TracedStays DEF RollbackInv
<1>6. GoneThrough'
  BY DEF RollbackInv, RollbackTyped, GoneThrough
<1> QED
  BY <1>1, <1>2, <1>3, <1>4, <1>5, <1>6 DEF RollbackInv

\* The item that an invocation is at is answered.
LEMMA Answering ==
  ASSUME NEW i \in 1..MaxInvocations, RollbackInv, invocation[i].at \in Position,
         NEW reason \in Reasons \ {"none"}, AnswerItem(i, reason)
  PROVE  LET a == invocation[i]
             b == invocation'[i]
         IN  /\ invocation' \in [1..MaxInvocations -> Invocation] /\ Still(i)
             /\ b.pc = "item" /\ b.at = a.at + 1 /\ b.upto = a.upto /\ b.known = a.known
             /\ b.answers = [a.answers EXCEPT ![a.at] = reason]
<1> DEFINE a == invocation[i]
           at == a.at
           x == [invocation EXCEPT ![i].pc = "item"]
           y == [x EXCEPT ![i].at = at + 1]
           z == [y EXCEPT ![i].answers[at] = reason]
<1>1. invocation \in [1..MaxInvocations -> Invocation] /\ a \in Invocation
  BY DEF RollbackInv, RollbackTyped
<1>2. a.at \in Nat /\ a.answers \in [Position -> Reasons]
  BY <1>1 DEF Invocation
<1>3. x \in [1..MaxInvocations -> Invocation] /\ x[i] = [a EXCEPT !.pc = "item"]
      /\ \A j \in (1..MaxInvocations) \ {i} : x[j] = invocation[j]
  BY <1>1 DEF Invocation, Phases
<1>4. x[i].pc = "item" /\ x[i].upto = a.upto /\ x[i].known = a.known /\ x[i].answers = a.answers
  BY <1>1, <1>3 DEF Invocation
<1>5. invocation' = z
  BY DEF AnswerItem
<1> HIDE DEF x, a
<1>6. y \in [1..MaxInvocations -> Invocation] /\ y[i] = [x[i] EXCEPT !.at = at + 1]
      /\ \A j \in (1..MaxInvocations) \ {i} : y[j] = x[j]
  <2>1. at + 1 \in Nat
    BY <1>2
  <2>2. x[i] \in Invocation
    BY <1>3
  <2> DEFINE n == at + 1
  <2> HIDE DEF n
  <2>3. [x[i] EXCEPT !.at = n] \in Invocation
    BY <2>1, <2>2 DEF Invocation, n
  <2> QED
    BY <1>3, <2>3 DEF n
<1>7. y[i].pc = "item" /\ y[i].upto = a.upto /\ y[i].known = a.known /\ y[i].answers = a.answers
      /\ y[i].at = at + 1
  BY <1>3, <1>4, <1>6 DEF Invocation
<1> HIDE DEF y
<1>8. /\ z[i] = [y[i] EXCEPT !.answers = [y[i].answers EXCEPT ![at] = reason]]
      /\ \A j \in (1..MaxInvocations) \ {i} : z[j] = y[j]
      /\ z = [j \in 1..MaxInvocations |-> z[j]]
  BY <1>6
<1> DEFINE answers == [y[i].answers EXCEPT ![at] = reason]
<1>9. answers \in [Position -> Reasons]
  BY <1>2, <1>7
<1> HIDE DEF z, answers
<1>10. z[i] = [y[i] EXCEPT !.answers = answers]
  BY <1>8 DEF answers
<1>11. z[i] \in Invocation /\ z[i].pc = "item" /\ z[i].upto = a.upto /\ z[i].known = a.known
       /\ z[i].at = at + 1 /\ z[i].answers = answers
  <2>1. y[i] \in Invocation
    BY <1>6
  <2> QED
    BY <2>1, <1>7, <1>9, <1>10 DEF Invocation
<1> QED
  BY <1>3, <1>5, <1>6, <1>7, <1>8, <1>11 DEF Still, a, answers

PcIs(f, i, v) == [f EXCEPT ![i].pc = v]

LEMMA PcSet ==
  ASSUME NEW i \in 1..MaxInvocations, NEW f \in [1..MaxInvocations -> Invocation],
         NEW v \in Phases
  PROVE  LET g == PcIs(f, i, v)
         IN  /\ g \in [1..MaxInvocations -> Invocation]
             /\ \A j \in (1..MaxInvocations) \ {i} : g[j] = f[j]
             /\ g[i].pc = v /\ g[i].at = f[i].at /\ g[i].upto = f[i].upto /\ g[i].known = f[i].known
             /\ g[i].saw = f[i].saw /\ g[i].stale = f[i].stale /\ g[i].answers = f[i].answers
<1> DEFINE b == [f[i] EXCEPT !.pc = v]
<1>1. f[i] \in Invocation
  OBVIOUS
<1>2. /\ b \in Invocation /\ b.pc = v
      /\ b.at = f[i].at /\ b.upto = f[i].upto /\ b.known = f[i].known
      /\ b.saw = f[i].saw /\ b.stale = f[i].stale /\ b.answers = f[i].answers
  BY <1>1 DEF Invocation
<1>3. PcIs(f, i, v) = [f EXCEPT ![i] = b]
  BY DEF PcIs
<1> HIDE DEF b
<1> QED
  BY <1>2, <1>3

KnownIs(f, i, v) == [f EXCEPT ![i].known = v]

LEMMA KnownSet ==
  ASSUME NEW i \in 1..MaxInvocations, NEW f \in [1..MaxInvocations -> Invocation],
         NEW v \in Metadata
  PROVE  LET g == KnownIs(f, i, v)
         IN  /\ g \in [1..MaxInvocations -> Invocation]
             /\ \A j \in (1..MaxInvocations) \ {i} : g[j] = f[j]
             /\ g[i].known = v /\ g[i].pc = f[i].pc /\ g[i].at = f[i].at /\ g[i].upto = f[i].upto
             /\ g[i].saw = f[i].saw /\ g[i].stale = f[i].stale /\ g[i].answers = f[i].answers
<1> DEFINE b == [f[i] EXCEPT !.known = v]
<1>1. f[i] \in Invocation
  OBVIOUS
<1>2. /\ b \in Invocation /\ b.known = v
      /\ b.pc = f[i].pc /\ b.at = f[i].at /\ b.upto = f[i].upto
      /\ b.saw = f[i].saw /\ b.stale = f[i].stale /\ b.answers = f[i].answers
  BY <1>1 DEF Invocation
<1>3. KnownIs(f, i, v) = [f EXCEPT ![i] = b]
  BY DEF KnownIs
<1> HIDE DEF b
<1> QED
  BY <1>2, <1>3

SawIs(f, i, v) == [f EXCEPT ![i].saw = v]

LEMMA SawSet ==
  ASSUME NEW i \in 1..MaxInvocations, NEW f \in [1..MaxInvocations -> Invocation],
         NEW v \in RowKinds
  PROVE  LET g == SawIs(f, i, v)
         IN  /\ g \in [1..MaxInvocations -> Invocation]
             /\ \A j \in (1..MaxInvocations) \ {i} : g[j] = f[j]
             /\ g[i].saw = v /\ g[i].pc = f[i].pc /\ g[i].at = f[i].at /\ g[i].upto = f[i].upto
             /\ g[i].known = f[i].known /\ g[i].stale = f[i].stale /\ g[i].answers = f[i].answers
<1> DEFINE b == [f[i] EXCEPT !.saw = v]
<1>1. f[i] \in Invocation
  OBVIOUS
<1>2. /\ b \in Invocation /\ b.saw = v
      /\ b.pc = f[i].pc /\ b.at = f[i].at /\ b.upto = f[i].upto
      /\ b.known = f[i].known /\ b.stale = f[i].stale /\ b.answers = f[i].answers
  BY <1>1 DEF Invocation
<1>3. SawIs(f, i, v) = [f EXCEPT ![i] = b]
  BY DEF SawIs
<1> HIDE DEF b
<1> QED
  BY <1>2, <1>3

StaleIs(f, i, v) == [f EXCEPT ![i].stale = v]

LEMMA StaleSet ==
  ASSUME NEW i \in 1..MaxInvocations, NEW f \in [1..MaxInvocations -> Invocation],
         NEW v \in KeySets
  PROVE  LET g == StaleIs(f, i, v)
         IN  /\ g \in [1..MaxInvocations -> Invocation]
             /\ \A j \in (1..MaxInvocations) \ {i} : g[j] = f[j]
             /\ g[i].stale = v /\ g[i].pc = f[i].pc /\ g[i].at = f[i].at /\ g[i].upto = f[i].upto
             /\ g[i].known = f[i].known /\ g[i].saw = f[i].saw /\ g[i].answers = f[i].answers
<1> DEFINE b == [f[i] EXCEPT !.stale = v]
<1>1. f[i] \in Invocation
  OBVIOUS
<1>2. /\ b \in Invocation /\ b.stale = v
      /\ b.pc = f[i].pc /\ b.at = f[i].at /\ b.upto = f[i].upto
      /\ b.known = f[i].known /\ b.saw = f[i].saw /\ b.answers = f[i].answers
  BY <1>1 DEF Invocation
<1>3. StaleIs(f, i, v) = [f EXCEPT ![i] = b]
  BY DEF StaleIs
<1> HIDE DEF b
<1> QED
  BY <1>2, <1>3

LEMMA TypesNow ==
  ASSUME RollbackInv, NEW i \in 1..MaxInvocations
  PROVE  /\ invocation \in [1..MaxInvocations -> Invocation] /\ enforced \in [Hash -> Record]
         /\ operator \in Operator /\ answered \in [Position -> Reasons]
         /\ invocation[i] \in Invocation
         /\ InvocationInv(invocation[i], enforced, unresolved)
  BY DEF RollbackInv, RollbackTyped

\* What an answer may say.
True(p, reason, e, u) ==
  /\ List[p] \in (Hash \cap Findable) \ u =>
       /\ reason = "not-classic-vine" <=> ~IsClassicVineRollbackCandidate(List[p])
       /\ reason # "missing-vine-metadata"
  /\ reason \in {"confirmed-classic-vine", "already-safe"} =>
       List[p] \in Hash /\ e[List[p]].row = "SAFE" /\ e[List[p]].keys = {}

LEMMA OneMoreAnswer ==
  ASSUME NEW answers \in [Position -> Reasons], NEW e, NEW u, Sound(answers, e, u),
         NEW at \in Position, NEW reason, True(at, reason, e, u)
  PROVE  Sound([answers EXCEPT ![at] = reason], e, u)
<1> SUFFICES ASSUME NEW p \in Position
             PROVE  LET r == [answers EXCEPT ![at] = reason][p]
                    IN  /\ r # "none" /\ List[p] \in (Hash \cap Findable) \ u =>
                             /\ r = "not-classic-vine" <=> ~IsClassicVineRollbackCandidate(List[p])
                             /\ r # "missing-vine-metadata"
                        /\ r \in {"confirmed-classic-vine", "already-safe"} =>
                             List[p] \in Hash /\ e[List[p]].row = "SAFE" /\ e[List[p]].keys = {}
  BY Zenon DEF Sound
<1>1. CASE p = at
  BY <1>1 DEF True
<1>2. CASE p # at
  BY <1>2 DEF Sound
<1> QED
  BY <1>1, <1>2

\* The item is answered truthfully, and the invocation goes on.
LEMMA AnswerStands ==
  ASSUME NEW i \in 1..MaxInvocations, RollbackInv, invocation[i].at \in Position,
         invocation[i].pc \in {"item"} \cup AtWork,
         NEW reason \in Reasons \ {"none"}, AnswerItem(i, reason),
         enforced' \in [Hash -> Record], Restores(enforced, enforced'),
         \A h \in Hash \ {ItemOf(i)} : enforced'[h] = enforced[h],
         ItemOf(i) \in Hash /\ enforced'[ItemOf(i)] = Untraced =>
           \/ ItemOf(i) \in untold'
           \/ enforced[ItemOf(i)] = Untraced /\ invocation[i].pc \notin {"clear", "tell"},
         True(invocation[i].at, reason, enforced', unresolved),
         operator' = operator, answered' = answered, unresolved' = unresolved,
         untold \subseteq untold'
  PROVE  RollbackInv'
<1> DEFINE a == invocation[i]
           b == invocation'[i]
<1>1. /\ invocation' \in [1..MaxInvocations -> Invocation] /\ Still(i)
      /\ b.pc = "item" /\ b.at = a.at + 1 /\ b.upto = a.upto /\ b.known = a.known
      /\ b.answers = [a.answers EXCEPT ![a.at] = reason]
  BY Answering
<1>2. a \in Invocation /\ InvocationInv(a, enforced, unresolved) /\ operator \in Operator
  BY TypesNow
<1>3. InvocationInv(a, enforced', unresolved)
  BY <1>2, TypesNow, OthersStand
<1>4. a.at \in Nat /\ a.answers \in [Position -> Reasons]
  BY <1>2 DEF Invocation
<1> HIDE DEF a, b
<1>5. Sound(b.answers, enforced', unresolved)
  <2>1. Sound(a.answers, enforced', unresolved)
    BY <1>3 DEF InvocationInv
  <2> QED
    BY <1>1, <1>4, <2>1, OneMoreAnswer DEF a
<1>6. Equipped(b, unresolved)
  <2>1. \A p \in Position : b.at <= p => a.at <= p
    BY <1>1, <1>4, PositionsOfTheList
  <2>2. a.pc \in {"item"} \cup AtWork
    BY DEF a
  <2> QED
    BY <1>1, <1>3, <2>1, <2>2 DEF InvocationInv, Equipped
<1>7. InList(b) /\ DoneSoFar(b, enforced')
  <2>1. a.at >= 1 /\ a.upto <= Len(List)
    BY <1>3 DEF InvocationInv, InList, AtWork, a
  <2>2. b.at >= 1 /\ b.upto <= Len(List)
    BY <1>1, <1>4, <2>1
  <2> QED
    BY <1>1, <2>2 DEF InList, DoneSoFar, AtWork
<1>8. b \in Invocation
  BY <1>1 DEF b
<1>9. InvocationInv(b, enforced', unresolved)
  BY <1>5, <1>6, <1>7, <1>8 DEF InvocationInv
<1>10. GoesOnTo(a, b)
  BY <1>1 DEF GoesOnTo
<1>11. LosesNone(i)
  <2> SUFFICES ASSUME NEW h \in Hash, enforced'[h] = Untraced, h \notin untold'
               PROVE  enforced[h] = Untraced
                      /\ ~(invocation[i].pc \in {"clear", "tell"} /\ List[invocation[i].at] = h)
    BY DEF LosesNone
  <2>1. CASE h = ItemOf(i)
    BY <2>1
  <2>2. CASE h # ItemOf(i)
    BY <2>2 DEF ItemOf
  <2> QED
    BY <2>1, <2>2
<1> QED
  BY <1>1, <1>2, <1>9, <1>10, <1>11, InvocationMoves DEF a, b

LEMMA NothingLost ==
  ASSUME enforced \in [Hash -> Record]
  PROVE  Restores(enforced, enforced)
  BY DEF Restores

\* An error at an item of which the metadata is there.
LEMMA FailureStands ==
  ASSUME NEW i \in 1..MaxInvocations, RollbackInv, invocation[i].at \in Position,
         invocation[i].pc \in {"item"} \cup AtWork, ItemOf(i) \in Hash,
         IsClassicVineRollbackCandidate(ItemOf(i)),
         NEW reason \in {"rollback-failed", "blossom-notification-failed"},
         AnswerItem(i, reason), Breaks(ItemOf(i)),
         enforced' \in [Hash -> Record], Restores(enforced, enforced'),
         \A h \in Hash \ {ItemOf(i)} : enforced'[h] = enforced[h],
         operator' = operator, answered' = answered, unresolved' = unresolved
  PROVE  RollbackInv'
<1>1. reason \in Reasons \ {"none"} /\ True(invocation[i].at, reason, enforced', unresolved)
  BY DEF Reasons, True, ItemOf
<1>2. untold \subseteq untold' /\ (enforced'[ItemOf(i)] = Untraced => ItemOf(i) \in untold')
  BY DEF Breaks
<1> QED
  BY <1>1, <1>2, AnswerStands

LEMMA ItemAtHand ==
  ASSUME NEW i \in 1..MaxInvocations, RollbackInv, AtItem(i)
  PROVE  /\ invocation[i].pc = "item" /\ invocation[i].at \in Position
         /\ ItemOf(i) = List[invocation[i].at]
         /\ ItemOf(i) # NotAHash => ItemOf(i) \in Hash
<1>1. invocation[i].pc = "item" /\ invocation[i].at <= invocation[i].upto
  BY DEF AtItem, Reached
<1>2. /\ invocation[i].at >= 1 /\ invocation[i].upto <= Len(List)
      /\ invocation[i].at \in Nat /\ invocation[i].upto \in Nat
  BY <1>1, TypesNow DEF InvocationInv, InList, Invocation
<1>3. invocation[i].at \in Position
  BY <1>1, <1>2, PositionsOfTheList
<1> QED
  BY <1>1, <1>3 DEF ItemOf, Hash

LEMMA ItemUnderWork ==
  ASSUME NEW i \in 1..MaxInvocations, RollbackInv, invocation[i].pc \in AtWork
  PROVE  /\ invocation[i].at \in Position /\ ItemOf(i) = List[invocation[i].at]
         /\ ItemOf(i) \in Hash /\ IsClassicVineRollbackCandidate(ItemOf(i))
         /\ invocation[i].saw = "SAFE" => enforced[ItemOf(i)].row = "SAFE"
         /\ invocation[i].pc \in {"clear", "tell"} => enforced[ItemOf(i)].row = "SAFE"
         /\ invocation[i].pc \in {"restore", "clear", "tell"} =>
              enforced[ItemOf(i)].keys \subseteq invocation[i].stale
         /\ invocation[i].pc = "tell" => enforced[ItemOf(i)].keys = {}
  BY TypesNow DEF InvocationInv, DoneSoFar, ItemOf

LEMMA PassOverStep ==
  ASSUME NEW i \in 1..MaxInvocations, RollbackInv, PassOver(i)
  PROVE  RollbackInv'
<1>1. AtItem(i) /\ UNCHANGED <<enforced, operator, answered, unresolved, untold>>
  BY DEF PassOver
<1>2. /\ invocation[i].pc = "item" /\ invocation[i].at \in Position
      /\ ItemOf(i) = List[invocation[i].at]
  BY <1>1, ItemAtHand
<1>3. enforced \in [Hash -> Record] /\ Restores(enforced, enforced)
  BY TypesNow, NothingLost
<1>4. ASSUME NEW reason \in {"invalid-sha256", "missing-vine-metadata", "not-classic-vine"},
             AnswerItem(i, reason), True(invocation[i].at, reason, enforced, unresolved)
      PROVE  RollbackInv'
  <2>1. reason \in Reasons \ {"none"}
    BY DEF Reasons
  <2> QED
    BY <1>1, <1>2, <1>3, <1>4, <2>1, AnswerStands
<1>5. CASE ItemOf(i) = NotAHash /\ AnswerItem(i, "invalid-sha256")
  <2>1. True(invocation[i].at, "invalid-sha256", enforced, unresolved)
    BY <1>2, <1>5 DEF True, Hash
  <2> QED
    BY <1>4, <1>5, <2>1
<1>6. CASE ~HasContext(i) /\ AnswerItem(i, "missing-vine-metadata")
  <2>1. List[invocation[i].at] \notin (Hash \cap Findable) \ unresolved
    <3>1. Equipped(invocation[i], unresolved)
      BY TypesNow DEF InvocationInv
    <3>2. /\ invocation[i].at <= invocation[i].at /\ invocation[i].at <= invocation[i].upto
      BY <1>1, TypesNow DEF AtItem, Invocation
    <3> QED
      BY <1>2, <1>6, <3>1, <3>2 DEF Equipped, HasContext
  <2>2. True(invocation[i].at, "missing-vine-metadata", enforced, unresolved)
    BY <2>1 DEF True
  <2> QED
    BY <1>4, <1>6, <2>2
<1>7. CASE ~IsClassicVineRollbackCandidate(ItemOf(i)) /\ AnswerItem(i, "not-classic-vine")
  <2>1. True(invocation[i].at, "not-classic-vine", enforced, unresolved)
    BY <1>2, <1>7 DEF True
  <2> QED
    BY <1>4, <1>7, <2>1
<1> QED
  BY <1>5, <1>6, <1>7 DEF PassOver

LEMMA PreviewStep ==
  ASSUME NEW i \in 1..MaxInvocations, RollbackInv, Preview(i)
  PROVE  RollbackInv'
<1>1. /\ AtItem(i) /\ ItemOf(i) # NotAHash /\ IsClassicVineRollbackCandidate(ItemOf(i))
      /\ AnswerItem(i, "would-restore")
      /\ UNCHANGED <<enforced, operator, answered, unresolved, untold>>
  BY DEF Preview, Confirmed
<1>2. /\ invocation[i].pc = "item" /\ invocation[i].at \in Position
      /\ ItemOf(i) = List[invocation[i].at]
  BY <1>1, ItemAtHand
<1>3. enforced \in [Hash -> Record] /\ Restores(enforced, enforced)
  BY TypesNow, NothingLost
<1>4. True(invocation[i].at, "would-restore", enforced, unresolved)
  BY <1>1, <1>2 DEF True
<1>5. "would-restore" \in Reasons \ {"none"}
  BY DEF Reasons
<1> QED
  BY <1>1, <1>2, <1>3, <1>4, <1>5, AnswerStands

\* An invocation goes on with the item that it is at.
LEMMA WorkGoesOn ==
  ASSUME NEW i \in 1..MaxInvocations, RollbackInv,
         invocation[i].pc \in {"item"} \cup AtWork,
         invocation' \in [1..MaxInvocations -> Invocation], Still(i),
         invocation'[i].pc \in AtWork,
         invocation'[i].at = invocation[i].at, invocation'[i].upto = invocation[i].upto,
         invocation'[i].known = invocation[i].known,
         invocation'[i].answers = invocation[i].answers,
         DoneSoFar(invocation'[i], enforced'),
         enforced' \in [Hash -> Record], Restores(enforced, enforced'),
         \A h \in Hash \ {ItemOf(i)} : enforced'[h] = enforced[h],
         enforced'[ItemOf(i)] = Untraced =>
           \/ invocation'[i].pc \in {"clear", "tell"}
           \/ enforced[ItemOf(i)] = Untraced /\ invocation[i].pc \notin {"clear", "tell"},
         operator' = operator, answered' = answered, unresolved' = unresolved,
         untold' = untold
  PROVE  RollbackInv'
<1> DEFINE a == invocation[i]
           b == invocation'[i]
<1>1. a \in Invocation /\ InvocationInv(a, enforced, unresolved) /\ operator \in Operator
  BY TypesNow
<1>2. InvocationInv(a, enforced', unresolved)
  BY <1>1, TypesNow, OthersStand
<1>3. InvocationInv(b, enforced', unresolved)
  BY <1>2 DEF InvocationInv, InList, Equipped, AtWork
<1>4. GoesOnTo(a, b)
  BY DEF GoesOnTo, AtWork
<1>5. LosesNone(i)
  <2> SUFFICES ASSUME NEW h \in Hash, enforced'[h] = Untraced
               PROVE  \/ b.pc \in {"clear", "tell"} /\ List[b.at] = h
                      \/ enforced[h] = Untraced /\ ~(a.pc \in {"clear", "tell"} /\ List[a.at] = h)
    BY DEF LosesNone
  <2>1. CASE h = ItemOf(i)
    BY <2>1 DEF ItemOf
  <2>2. CASE h # ItemOf(i)
    BY <2>2 DEF ItemOf
  <2> QED
    BY <2>1, <2>2
<1> HIDE DEF a, b
<1> QED
  BY <1>1, <1>3, <1>4, <1>5, InvocationMoves DEF a, b

LEMMA ReadRowStep ==
  ASSUME NEW i \in 1..MaxInvocations, RollbackInv, ReadRow(i)
  PROVE  RollbackInv'
<1>1. /\ AtItem(i) /\ ItemOf(i) # NotAHash /\ IsClassicVineRollbackCandidate(ItemOf(i))
      /\ UNCHANGED <<enforced, operator, answered, unresolved>>
  BY DEF ReadRow, Confirmed
<1>2. /\ invocation[i].pc = "item" /\ invocation[i].at \in Position
      /\ ItemOf(i) = List[invocation[i].at] /\ ItemOf(i) \in Hash
  BY <1>1, ItemAtHand
<1>3. /\ enforced \in [Hash -> Record] /\ Restores(enforced, enforced)
      /\ invocation \in [1..MaxInvocations -> Invocation]
  BY TypesNow, NothingLost
<1>4. CASE FailItem(i)
  <2>1. AnswerItem(i, "rollback-failed") /\ Breaks(ItemOf(i))
    BY <1>4 DEF FailItem
  <2> QED
    BY <1>1, <1>2, <1>3, <2>1, FailureStands
<1>5. CASE /\ invocation' = [invocation EXCEPT ![i].pc = "keys", ![i].saw = enforced[ItemOf(i)].row]
           /\ untold' = untold
  <2> DEFINE x == PcIs(invocation, i, "keys")
             row == enforced[ItemOf(i)].row
             y == SawIs(x, i, row)
  <2>1. invocation' = y
    BY <1>5 DEF PcIs, SawIs
  <2>2. "keys" \in Phases /\ row \in RowKinds
    BY <1>2, <1>3 DEF Phases, AtWork, RowKinds, Record
  <2>3. /\ x \in [1..MaxInvocations -> Invocation]
        /\ \A j \in (1..MaxInvocations) \ {i} : x[j] = invocation[j]
        /\ x[i].pc = "keys" /\ x[i].at = invocation[i].at /\ x[i].upto = invocation[i].upto
        /\ x[i].known = invocation[i].known /\ x[i].answers = invocation[i].answers
    BY <1>3, <2>2, PcSet, ZenonT(60)
  <2> HIDE DEF x, row
  <2>4. /\ y \in [1..MaxInvocations -> Invocation]
        /\ \A j \in (1..MaxInvocations) \ {i} : y[j] = x[j]
        /\ y[i].saw = row /\ y[i].pc = x[i].pc /\ y[i].at = x[i].at /\ y[i].upto = x[i].upto
        /\ y[i].known = x[i].known /\ y[i].answers = x[i].answers
    BY <2>2, <2>3, SawSet, ZenonT(60)
  <2> HIDE DEF y
  <2>5. Still(i)
    BY <2>1, <2>3, <2>4 DEF Still
  <2>6. DoneSoFar(y[i], enforced)
    BY <1>1, <1>2, <2>3, <2>4 DEF DoneSoFar, row
  <2> QED
    BY <1>1, <1>2, <1>3, <1>5, <2>1, <2>3, <2>4, <2>5, <2>6, WorkGoesOn DEF AtWork
<1> QED
  BY <1>4, <1>5 DEF ReadRow

LEMMA ReadKeysStep ==
  ASSUME NEW i \in 1..MaxInvocations, RollbackInv, ReadKeys(i)
  PROVE  RollbackInv'
<1> DEFINE a == invocation[i]
           stale == enforced[ItemOf(i)].keys
           pc == IF a.saw # "SAFE" THEN "restore" ELSE "clear"
<1>1. a.pc = "keys" /\ UNCHANGED <<enforced, operator, answered, unresolved>>
  BY DEF ReadKeys, Reached
<1>2. /\ a.at \in Position /\ ItemOf(i) = List[a.at] /\ ItemOf(i) \in Hash
      /\ IsClassicVineRollbackCandidate(ItemOf(i))
      /\ a.saw = "SAFE" => enforced[ItemOf(i)].row = "SAFE"
  BY <1>1, ItemUnderWork DEF AtWork
<1>3. /\ enforced \in [Hash -> Record] /\ Restores(enforced, enforced)
      /\ invocation \in [1..MaxInvocations -> Invocation]
  BY TypesNow, NothingLost
<1>4. CASE FailItem(i)
  <2>1. AnswerItem(i, "rollback-failed") /\ Breaks(ItemOf(i))
    BY <1>4 DEF FailItem
  <2> QED
    BY <1>1, <1>2, <1>3, <2>1, FailureStands DEF AtWork
<1>5. CASE a.saw = "SAFE" /\ stale = {} /\ AnswerItem(i, "already-safe") /\ untold' = untold
  <2>1. True(a.at, "already-safe", enforced, unresolved)
    BY <1>2, <1>5 DEF True
  <2>2. "already-safe" \in Reasons \ {"none"}
    BY DEF Reasons
  <2> QED
    BY <1>1, <1>2, <1>3, <1>5, <2>1, <2>2, AnswerStands DEF AtWork
<1>6. CASE /\ invocation' = [invocation EXCEPT ![i].stale = stale, ![i].pc = pc]
           /\ untold' = untold
  <2> DEFINE x == StaleIs(invocation, i, stale)
             y == PcIs(x, i, pc)
  <2>1. invocation' = y
    BY <1>6 DEF PcIs, StaleIs
  <2>2. stale \in KeySets /\ pc \in Phases
    BY <1>2, <1>3 DEF Phases, AtWork, KeySets, Record
  <2> HIDE DEF pc, stale
  <2>3. /\ x \in [1..MaxInvocations -> Invocation]
        /\ \A j \in (1..MaxInvocations) \ {i} : x[j] = invocation[j]
        /\ x[i].stale = stale /\ x[i].at = a.at /\ x[i].upto = a.upto
        /\ x[i].known = a.known /\ x[i].answers = a.answers /\ x[i].saw = a.saw
    <3>1. invocation \in [1..MaxInvocations -> Invocation] /\ stale \in KeySets
      BY <1>3, <2>2
    <3> HIDE DEF a
    <3>2. /\ x \in [1..MaxInvocations -> Invocation]
          /\ \A j \in (1..MaxInvocations) \ {i} : x[j] = invocation[j]
      BY <3>1, StaleSet, ZenonT(60)
    <3>3. x[i].stale = stale /\ x[i].at = invocation[i].at
      BY <3>1, StaleSet, ZenonT(60)
    <3>4. x[i].upto = invocation[i].upto /\ x[i].known = invocation[i].known
      BY <3>1, StaleSet, ZenonT(60)
    <3>5. x[i].answers = invocation[i].answers /\ x[i].saw = invocation[i].saw
      BY <3>1, StaleSet, ZenonT(60)
    <3> QED
      BY <3>2, <3>3, <3>4, <3>5 DEF a
  <2> HIDE DEF x
  <2>4. /\ y \in [1..MaxInvocations -> Invocation]
        /\ \A j \in (1..MaxInvocations) \ {i} : y[j] = x[j]
        /\ y[i].pc = pc /\ y[i].stale = x[i].stale /\ y[i].at = x[i].at /\ y[i].upto = x[i].upto
        /\ y[i].known = x[i].known /\ y[i].answers = x[i].answers /\ y[i].saw = x[i].saw
    BY <2>2, <2>3, PcSet, ZenonT(60)
  <2> HIDE DEF y
  <2>5. Still(i)
    BY <2>1, <2>3, <2>4 DEF Still
  <2>6. DoneSoFar(y[i], enforced)
    BY <1>1, <1>2, <2>3, <2>4 DEF DoneSoFar, pc, stale
  <2>7. y[i].pc \in AtWork
    BY <2>4 DEF pc, AtWork
  <2> QED
    BY <1>1, <1>2, <1>3, <1>6, <2>1, <2>3, <2>4, <2>5, <2>6, <2>7, WorkGoesOn DEF AtWork
<1> QED
  BY <1>4, <1>5, <1>6 DEF ReadKeys

\* Proceeds: nothing but the place in the code changes.
LEMMA Proceeding ==
  ASSUME NEW i \in 1..MaxInvocations, RollbackInv, NEW pc \in Phases, Proceeds(i, pc)
  PROVE  LET a == invocation[i]
             b == invocation'[i]
         IN  /\ invocation' \in [1..MaxInvocations -> Invocation] /\ Still(i)
             /\ b.pc = pc /\ b.at = a.at /\ b.upto = a.upto /\ b.known = a.known
             /\ b.saw = a.saw /\ b.stale = a.stale /\ b.answers = a.answers
<1>1. invocation \in [1..MaxInvocations -> Invocation]
  BY TypesNow
<1>2. invocation' = PcIs(invocation, i, pc)
  BY DEF Proceeds, PcIs
<1> DEFINE g == PcIs(invocation, i, pc)
<1>3. /\ g \in [1..MaxInvocations -> Invocation]
      /\ \A j \in (1..MaxInvocations) \ {i} : g[j] = invocation[j]
      /\ g[i].pc = pc /\ g[i].at = invocation[i].at /\ g[i].upto = invocation[i].upto
      /\ g[i].known = invocation[i].known /\ g[i].saw = invocation[i].saw
      /\ g[i].stale = invocation[i].stale /\ g[i].answers = invocation[i].answers
  BY <1>1, PcSet, ZenonT(60)
<1> HIDE DEF g
<1> QED
  BY <1>2, <1>3 DEF Still, g

\* What the steps of an invocation do to the video that it is at.
LEMMA RowIsSafe ==
  ASSUME enforced \in [Hash -> Record], NEW h \in Hash,
         enforced' = [enforced EXCEPT ![h].row = "SAFE"]
  PROVE  /\ enforced' \in [Hash -> Record] /\ Restores(enforced, enforced')
         /\ \A g \in Hash \ {h} : enforced'[g] = enforced[g]
         /\ enforced'[h].row = "SAFE" /\ enforced'[h].keys = enforced[h].keys
<1> DEFINE r == [enforced[h] EXCEPT !.row = "SAFE"]
<1>1. enforced[h] \in Record
  OBVIOUS
<1>2. /\ r \in Record /\ r.row = "SAFE" /\ r.keys = enforced[h].keys
      /\ r.blob = enforced[h].blob
  BY <1>1 DEF Record
<1>3. enforced' = [enforced EXCEPT ![h] = r]
  OBVIOUS
<1> HIDE DEF r
<1>4. /\ enforced' \in [Hash -> Record] /\ enforced'[h] = r
      /\ \A g \in Hash \ {h} : enforced'[g] = enforced[g]
  BY <1>2, <1>3
<1> QED
  BY <1>2, <1>4 DEF Restores

LEMMA KeysGone ==
  ASSUME enforced \in [Hash -> Record], NEW h \in Hash, NEW gone,
         enforced' = [enforced EXCEPT ![h].keys = @ \ gone]
  PROVE  /\ enforced' \in [Hash -> Record] /\ Restores(enforced, enforced')
         /\ \A g \in Hash \ {h} : enforced'[g] = enforced[g]
         /\ enforced'[h].row = enforced[h].row /\ enforced'[h].keys = enforced[h].keys \ gone
<1> DEFINE r == [enforced[h] EXCEPT !.keys = enforced[h].keys \ gone]
<1>1. enforced[h] \in Record
  OBVIOUS
<1>2. /\ r \in Record /\ r.row = enforced[h].row /\ r.keys = enforced[h].keys \ gone
      /\ r.blob = enforced[h].blob
  BY <1>1 DEF Record
<1>3. enforced' = [enforced EXCEPT ![h] = r]
  OBVIOUS
<1> HIDE DEF r
<1>4. /\ enforced' \in [Hash -> Record] /\ enforced'[h] = r
      /\ \A g \in Hash \ {h} : enforced'[g] = enforced[g]
  BY <1>2, <1>3
<1> QED
  BY <1>2, <1>4 DEF Restores

LEMMA BlobIsActive ==
  ASSUME enforced \in [Hash -> Record], NEW h \in Hash,
         enforced' = [enforced EXCEPT ![h].blob = "active"]
  PROVE  /\ enforced' \in [Hash -> Record] /\ Restores(enforced, enforced')
         /\ \A g \in Hash \ {h} : enforced'[g] = enforced[g]
         /\ enforced'[h].row = enforced[h].row /\ enforced'[h].keys = enforced[h].keys
         /\ enforced'[h] # Untraced
<1> DEFINE r == [enforced[h] EXCEPT !.blob = "active"]
<1>1. enforced[h] \in Record
  OBVIOUS
<1>2. /\ r \in Record /\ r.row = enforced[h].row /\ r.keys = enforced[h].keys
      /\ r.blob = "active"
  BY <1>1 DEF Record
<1>3. enforced' = [enforced EXCEPT ![h] = r]
  OBVIOUS
<1> HIDE DEF r
<1>4. /\ enforced' \in [Hash -> Record] /\ enforced'[h] = r
      /\ \A g \in Hash \ {h} : enforced'[g] = enforced[g]
  BY <1>2, <1>3
<1>5. Untraced.blob = "restricted"
  BY DEF Untraced, Restored
<1> QED
  BY <1>2, <1>4, <1>5 DEF Restores

LEMMA RestoreRowStep ==
  ASSUME NEW i \in 1..MaxInvocations, RollbackInv, RestoreRow(i)
  PROVE  RollbackInv'
<1> DEFINE a == invocation[i]
           h == ItemOf(i)
           pc == IF a.stale = {} THEN "tell" ELSE "clear"
<1>1. a.pc = "restore" /\ UNCHANGED <<operator, answered, unresolved>>
  BY DEF RestoreRow, Reached
<1>2. /\ a.at \in Position /\ h = List[a.at] /\ h \in Hash
      /\ IsClassicVineRollbackCandidate(h) /\ enforced[h].keys \subseteq a.stale
  BY <1>1, ItemUnderWork DEF AtWork
<1>3. enforced \in [Hash -> Record] /\ Restores(enforced, enforced)
  BY TypesNow, NothingLost
<1>4. ASSUME FailItem(i), enforced' \in [Hash -> Record], Restores(enforced, enforced'),
             \A g \in Hash \ {h} : enforced'[g] = enforced[g]
      PROVE  RollbackInv'
  <2>1. AnswerItem(i, "rollback-failed") /\ Breaks(h)
    BY <1>4 DEF FailItem
  <2> QED
    BY <1>1, <1>2, <1>4, <2>1, FailureStands DEF AtWork
<1>5. CASE UNCHANGED enforced /\ FailItem(i)
  BY <1>3, <1>4, <1>5
<1>6. CASE enforced' = [enforced EXCEPT ![h].row = "SAFE"]
  <2>1. /\ enforced' \in [Hash -> Record] /\ Restores(enforced, enforced')
        /\ \A g \in Hash \ {h} : enforced'[g] = enforced[g]
        /\ enforced'[h].row = "SAFE" /\ enforced'[h].keys = enforced[h].keys
    BY <1>2, <1>3, <1>6, RowIsSafe
  <2>2. CASE FailItem(i)
    BY <1>4, <2>1, <2>2
  <2>3. CASE Proceeds(i, pc) /\ untold' = untold
    <3>1. pc \in Phases /\ pc \in AtWork /\ pc \in {"clear", "tell"}
      BY DEF Phases, AtWork
    <3>2. pc = "tell" => a.stale = {}
      OBVIOUS
    <3> HIDE DEF pc
    <3>3. /\ invocation' \in [1..MaxInvocations -> Invocation] /\ Still(i)
          /\ invocation'[i].pc = pc /\ invocation'[i].at = a.at /\ invocation'[i].upto = a.upto
          /\ invocation'[i].known = a.known /\ invocation'[i].saw = a.saw
          /\ invocation'[i].stale = a.stale /\ invocation'[i].answers = a.answers
      BY <2>3, <3>1, Proceeding
    <3>4. DoneSoFar(invocation'[i], enforced')
      BY <1>2, <2>1, <3>2, <3>3 DEF DoneSoFar
    <3> QED
      BY <1>1, <2>1, <2>3, <3>1, <3>3, <3>4, WorkGoesOn DEF AtWork
  <2> QED
    BY <1>5, <1>6, <2>2, <2>3 DEF RestoreRow
<1> QED
  BY <1>5, <1>6 DEF RestoreRow

LEMMA ClearKeysStep ==
  ASSUME NEW i \in 1..MaxInvocations, RollbackInv, ClearKeys(i)
  PROVE  RollbackInv'
<1> DEFINE a == invocation[i]
           h == ItemOf(i)
<1>1. a.pc = "clear" /\ UNCHANGED <<operator, answered, unresolved>>
  BY DEF ClearKeys, Reached
<1>2. /\ a.at \in Position /\ h = List[a.at] /\ h \in Hash
      /\ IsClassicVineRollbackCandidate(h) /\ enforced[h].keys \subseteq a.stale
      /\ enforced[h].row = "SAFE"
  BY <1>1, ItemUnderWork DEF AtWork
<1>3. enforced \in [Hash -> Record]
  BY TypesNow
<1>4. PICK gone \in SUBSET a.stale :
        /\ enforced' = [enforced EXCEPT ![h].keys = @ \ gone]
        /\ \/ gone = a.stale /\ Proceeds(i, "tell") /\ untold' = untold
           \/ FailItem(i)
  BY DEF ClearKeys
<1>5. /\ enforced' \in [Hash -> Record] /\ Restores(enforced, enforced')
      /\ \A g \in Hash \ {h} : enforced'[g] = enforced[g]
      /\ enforced'[h].row = enforced[h].row /\ enforced'[h].keys = enforced[h].keys \ gone
  BY <1>2, <1>3, <1>4, KeysGone
<1>6. CASE FailItem(i)
  <2>1. AnswerItem(i, "rollback-failed") /\ Breaks(h)
    BY <1>6 DEF FailItem
  <2> QED
    BY <1>1, <1>2, <1>5, <2>1, FailureStands DEF AtWork
<1>7. CASE gone = a.stale /\ Proceeds(i, "tell") /\ untold' = untold
  <2>1. "tell" \in Phases /\ "tell" \in AtWork
    BY DEF Phases, AtWork
  <2>2. /\ invocation' \in [1..MaxInvocations -> Invocation] /\ Still(i)
        /\ invocation'[i].pc = "tell" /\ invocation'[i].at = a.at
        /\ invocation'[i].upto = a.upto
        /\ invocation'[i].known = a.known /\ invocation'[i].saw = a.saw
        /\ invocation'[i].stale = a.stale /\ invocation'[i].answers = a.answers
    BY <1>7, <2>1, Proceeding
  <2>3. DoneSoFar(invocation'[i], enforced')
    BY <1>2, <1>5, <1>7, <2>2 DEF DoneSoFar
  <2> QED
    BY <1>1, <1>5, <1>7, <2>1, <2>2, <2>3, WorkGoesOn DEF AtWork
<1> QED
  BY <1>4, <1>6, <1>7

LEMMA TellBlossomStep ==
  ASSUME NEW i \in 1..MaxInvocations, RollbackInv, TellBlossom(i)
  PROVE  RollbackInv'
<1> DEFINE a == invocation[i]
           h == ItemOf(i)
           reason == IF a.saw = "SAFE" THEN "already-safe" ELSE "confirmed-classic-vine"
<1>1. a.pc = "tell" /\ UNCHANGED <<operator, answered, unresolved>>
  BY DEF TellBlossom, Reached
<1>2. /\ a.at \in Position /\ h = List[a.at] /\ h \in Hash
      /\ IsClassicVineRollbackCandidate(h) /\ enforced[h].keys = {}
      /\ enforced[h].row = "SAFE"
  BY <1>1, ItemUnderWork DEF AtWork
<1>3. enforced \in [Hash -> Record] /\ Restores(enforced, enforced)
  BY TypesNow, NothingLost
<1>4. ASSUME enforced' = [enforced EXCEPT ![h].blob = "active"]
      PROVE  /\ enforced' \in [Hash -> Record] /\ Restores(enforced, enforced')
             /\ \A g \in Hash \ {h} : enforced'[g] = enforced[g]
             /\ enforced'[h].row = enforced[h].row /\ enforced'[h].keys = enforced[h].keys
             /\ enforced'[h] # Untraced
  BY <1>2, <1>3, <1>4, BlobIsActive
<1>5. CASE /\ enforced' = [enforced EXCEPT ![h].blob = "active"]
           /\ AnswerItem(i, reason) /\ untold' = untold
  <2>1. True(a.at, reason, enforced', unresolved)
    BY <1>2, <1>4, <1>5 DEF True
  <2>2. reason \in Reasons \ {"none"}
    BY DEF Reasons
  <2> HIDE DEF reason
  <2> QED
    BY <1>1, <1>2, <1>4, <1>5, <2>1, <2>2, AnswerStands DEF AtWork
<1>6. CASE /\ UNCHANGED enforced \/ enforced' = [enforced EXCEPT ![h].blob = "active"]
           /\ AnswerItem(i, "blossom-notification-failed") /\ Breaks(h)
  <2>1. /\ enforced' \in [Hash -> Record] /\ Restores(enforced, enforced')
        /\ \A g \in Hash \ {h} : enforced'[g] = enforced[g]
    BY <1>3, <1>4, <1>6
  <2> QED
    BY <1>1, <1>2, <1>6, <2>1, FailureStands DEF AtWork
<1> QED
  BY <1>5, <1>6 DEF TellBlossom

LEMMA SummariseStep ==
  ASSUME NEW i \in 1..MaxInvocations, RollbackInv, Summarise(i)
  PROVE  RollbackInv'
<1> DEFINE a == invocation[i]
           b == invocation'[i]
<1>1. /\ a.pc = "item" /\ a.at > a.upto /\ Proceeds(i, "answered")
      /\ UNCHANGED <<enforced, operator, answered, unresolved, untold>>
  BY DEF Summarise, Reached
<1>2. "answered" \in Phases
  BY DEF Phases
<1>3. /\ invocation' \in [1..MaxInvocations -> Invocation] /\ Still(i)
      /\ b.pc = "answered" /\ b.at = a.at /\ b.upto = a.upto /\ b.answers = a.answers
  BY <1>1, <1>2, Proceeding
<1>4. /\ enforced \in [Hash -> Record] /\ Restores(enforced, enforced) /\ operator \in Operator
      /\ InvocationInv(a, enforced, unresolved)
  BY TypesNow, NothingLost
<1>5. InvocationInv(b, enforced, unresolved)
  BY <1>1, <1>3, <1>4 DEF InvocationInv, InList, DoneSoFar, Equipped, AtWork
<1>6. GoesOnTo(a, b)
  BY <1>1, <1>3 DEF GoesOnTo
<1>7. LosesNone(i)
  <2>1. a.pc \notin {"clear", "tell"}
    BY <1>1
  <2> QED
    BY <1>1, <2>1 DEF LosesNone
<1> HIDE DEF a, b
<1> QED
  BY <1>1, <1>3, <1>4, <1>5, <1>6, <1>7, InvocationMoves DEF a, b

LEMMA StopsWaiting ==
  ASSUME operator \in Operator, operator' = [operator EXCEPT !.waits = 0]
  PROVE  operator' \in Operator /\ operator'.waits = 0 /\ operator'.cursor = operator.cursor
<1>1. 0 \in 0..MaxInvocations
  BY Numbers
<1> QED
  BY <1>1 DEF Operator

LEMMA BreakOffStep ==
  ASSUME NEW i \in 1..MaxInvocations, RollbackInv, BreakOff(i)
  PROVE  RollbackInv'
<1> DEFINE a == invocation[i]
           b == invocation'[i]
<1>1. /\ a.pc \notin {"idle", "answered", "ended"} /\ Proceeds(i, "ended")
      /\ UNCHANGED <<enforced, answered, unresolved>>
      /\ IF a.pc \in AtWork THEN Breaks(ItemOf(i)) ELSE untold' = untold
      /\ operator' = IF operator.waits = i THEN [operator EXCEPT !.waits = 0] ELSE operator
  BY DEF BreakOff, AtWork
<1>2. "ended" \in Phases
  BY DEF Phases
<1>3. /\ invocation' \in [1..MaxInvocations -> Invocation] /\ Still(i)
      /\ b.pc = "ended" /\ b.at = a.at /\ b.upto = a.upto /\ b.answers = a.answers
  BY <1>1, <1>2, Proceeding
<1>4. /\ enforced \in [Hash -> Record] /\ Restores(enforced, enforced) /\ operator \in Operator
      /\ InvocationInv(a, enforced, unresolved)
  BY TypesNow, NothingLost
<1>5. InvocationInv(b, enforced, unresolved)
  BY <1>1, <1>3, <1>4 DEF InvocationInv, InList, DoneSoFar, Equipped, AtWork
<1>6. /\ operator' \in Operator /\ operator'.cursor = operator.cursor
      /\ operator'.waits = 0 \/ (operator'.waits = operator.waits /\ operator.waits # i)
  <2>1. CASE operator.waits = i
    <3>1. operator' = [operator EXCEPT !.waits = 0]
      BY <1>1, <2>1, Zenon
    <3>2. operator' \in Operator /\ operator'.waits = 0 /\ operator'.cursor = operator.cursor
      BY <1>4, <3>1, StopsWaiting, Zenon
    <3> QED
      BY <3>2
  <2>2. CASE operator.waits # i
    BY <1>1, <1>4, <2>2
  <2> QED
    BY <2>1, <2>2
<1>7. LosesNone(i) /\ untold \subseteq untold'
  <2>1. untold \subseteq untold'
    BY <1>1 DEF Breaks
  <2> SUFFICES ASSUME NEW h \in Hash, enforced'[h] = Untraced, h \notin untold'
               PROVE  enforced[h] = Untraced /\ ~(a.pc \in {"clear", "tell"} /\ List[a.at] = h)
    BY <2>1 DEF LosesNone
  <2>2. ASSUME a.pc \in {"clear", "tell"}, List[a.at] = h
        PROVE  FALSE
    BY <1>1, <2>2 DEF Breaks, ItemOf, AtWork
  <2> QED
    BY <1>1, <2>2
<1> HIDE DEF a, b
<1> QED
  BY <1>1, <1>3, <1>4, <1>5, <1>6, <1>7, InvocationMoves DEF a, b

\* The first item of the page with a hash brings its metadata, or the hash is looked up.
LEMMA LookedUpOrGiven ==
  ASSUME NEW m \in Nat, NEW n \in Nat, m >= 1, n <= Len(List),
         NEW p \in m..n, List[p] \in Hash, List[p] \notin Wanted(m..n)
  PROVE  p \in Pictured \/ List[p] \in {List[q] : q \in (m..n) \cap Pictured}
<1> DEFINE S == {q \in m..n : List[q] = List[p]}
<1>1. S \subseteq Nat /\ p \in S
  OBVIOUS
<1>2. PICK q \in S : \A r \in S : q <= r
  <2> HIDE DEF S
  <2> QED
    BY <1>1, LeastNat
<1>3. q \in m..n /\ List[q] = List[p]
  BY <1>2
<1>4. q \in Pictured
  <2> SUFFICES ASSUME q \notin Pictured
               PROVE  List[p] \in Wanted(m..n)
    OBVIOUS
  <2>1. \A r \in m..n : List[r] = List[p] => q <= r
    BY <1>2
  <2>2. q \in (m..n) \ Pictured
    BY <1>3
  <2> QED
    BY <1>3, <2>1, <2>2 DEF Wanted
<1> QED
  BY <1>3, <1>4

LEMMA FoundAreHashes ==
  ASSUME NEW hashes, NEW found \in FetchBatch(hashes)
  PROVE  found \subseteq hashes
  BY DEF FetchBatch, QueryRelay

LEMMA LookupStep ==
  ASSUME NEW i \in 1..MaxInvocations, RollbackInv, ResolveRollbackNostrContexts(i)
  PROVE  RollbackInv'
<1> DEFINE a == invocation[i]
           b == invocation'[i]
           wanted == Wanted(Page(i))
           there == wanted \cap Findable
           given == {List[p] : p \in Page(i) \cap Pictured} \ wanted
<1>1. PICK found \in FetchBatch(wanted) :
        /\ invocation' = [invocation EXCEPT ![i].pc = "item", ![i].known = given \cup found]
        /\ unresolved' = unresolved \cup (there \ found)
  BY DEF ResolveRollbackNostrContexts
<1>2. a.pc = "lookup" /\ UNCHANGED <<enforced, operator, answered, untold>>
  BY DEF ResolveRollbackNostrContexts, Reached
<1>3. /\ enforced \in [Hash -> Record] /\ Restores(enforced, enforced) /\ operator \in Operator
      /\ InvocationInv(a, enforced, unresolved)
      /\ invocation \in [1..MaxInvocations -> Invocation] /\ a \in Invocation
  BY TypesNow, NothingLost
<1>4. a.at \in Nat /\ a.upto \in Nat /\ a.at >= 1 /\ a.upto <= Len(List)
  BY <1>2, <1>3 DEF InvocationInv, InList, Invocation
<1>5. Page(i) = a.at..a.upto /\ Page(i) \subseteq Position
  BY <1>4, PositionsOfTheList DEF Page
<1>6. given \cup found \in Metadata
  <2>1. found \subseteq Hash
    BY FoundAreHashes DEF Wanted
  <2>2. Hash \subseteq {List[p] : p \in Position}
    BY DEF Hash
  <2>3. given \subseteq {List[p] : p \in Position}
    BY <1>5
  <2> QED
    BY <2>1, <2>2, <2>3 DEF Metadata
<1>7. ASSUME NEW p \in Position, a.at <= p, p <= a.upto,
             List[p] \in (Hash \cap Findable) \ unresolved'
      PROVE  p \in Pictured \/ List[p] \in given \cup found
  <2>1. p \in a.at..a.upto
    BY <1>4, <1>7, PositionsOfTheList
  <2>2. CASE List[p] \in wanted
    BY <1>1, <1>7, <2>2
  <2>3. CASE List[p] \notin wanted
    <3>1. List[p] \in Hash /\ List[p] \notin Wanted(a.at..a.upto)
      BY <1>5, <1>7, <2>3
    <3>2. p \in Pictured \/ List[p] \in {List[q] : q \in (a.at..a.upto) \cap Pictured}
      <4> HIDE DEF a
      <4> QED
        BY <1>4, <2>1, <3>1, LookedUpOrGiven
    <3> QED
      BY <1>5, <2>3, <3>2
  <2> QED
    BY <2>2, <2>3
<1> DEFINE known == given \cup found
           x == PcIs(invocation, i, "item")
           y == KnownIs(x, i, known)
<1>8. invocation' = y
  BY <1>1 DEF PcIs, KnownIs
<1>9. "item" \in Phases
  BY DEF Phases
<1>10. known \in Metadata
  BY <1>6
<1> HIDE DEF known
<1>11. /\ x \in [1..MaxInvocations -> Invocation]
       /\ \A j \in (1..MaxInvocations) \ {i} : x[j] = invocation[j]
       /\ x[i].pc = "item" /\ x[i].at = invocation[i].at /\ x[i].upto = invocation[i].upto
       /\ x[i].answers = invocation[i].answers
  BY <1>3, <1>9, PcSet, ZenonT(60)
<1> HIDE DEF x
<1>12. /\ y \in [1..MaxInvocations -> Invocation]
       /\ \A j \in (1..MaxInvocations) \ {i} : y[j] = x[j]
  BY <1>10, <1>11, KnownSet, ZenonT(60)
<1>13. y[i].known = known /\ y[i].pc = x[i].pc /\ y[i].at = x[i].at
  BY <1>10, <1>11, KnownSet, ZenonT(60)
<1>14. y[i].upto = x[i].upto /\ y[i].answers = x[i].answers
  BY <1>10, <1>11, KnownSet, ZenonT(60)
<1> HIDE DEF y
<1>15. Still(i)
  BY <1>8, <1>11, <1>12 DEF Still
<1>16. /\ b \in Invocation /\ b.pc = "item" /\ b.at = a.at /\ b.upto = a.upto
       /\ b.answers = a.answers /\ b.known = known
  BY <1>8, <1>11, <1>12, <1>13, <1>14
<1>17. InvocationInv(b, enforced, unresolved')
  <2>1. Sound(b.answers, enforced, unresolved')
    <3>1. unresolved \subseteq unresolved'
      BY <1>1
    <3>2. Sound(a.answers, enforced, unresolved)
      BY <1>3 DEF InvocationInv
    <3> QED
      BY <1>3, <1>16, <3>1, <3>2, AnswersStand
  <2>2. Equipped(b, unresolved')
    BY <1>7, <1>16 DEF Equipped, known
  <2>3. InList(b) /\ DoneSoFar(b, enforced)
    BY <1>4, <1>16 DEF InList, DoneSoFar, AtWork
  <2> QED
    BY <1>16, <2>1, <2>2, <2>3 DEF InvocationInv
<1>18. GoesOnTo(a, b)
  BY <1>16 DEF GoesOnTo
<1>19. LosesNone(i)
  <2>1. a.pc \notin {"clear", "tell"}
    BY <1>2
  <2> QED
    BY <1>2, <2>1 DEF LosesNone
<1>20. unresolved \subseteq unresolved'
  BY <1>1
<1>21. invocation' \in [1..MaxInvocations -> Invocation]
  BY <1>8, <1>12
<1> HIDE DEF a, b, wanted, there, given
<1> QED
  BY <1>2, <1>3, <1>15, <1>17, <1>18, <1>19, <1>20, <1>21, InvocationMoves DEF a, b

\* What the operator does that is not a request leaves the invocations alone.
LEMMA OperatorMoves ==
  ASSUME RollbackInv, UNCHANGED <<enforced, invocation, unresolved, untold>>,
         operator' \in Operator, operator'.waits = 0, answered' \in [Position -> Reasons],
         Sound(answered', enforced, unresolved),
         \A p \in Position : operator'.cursor = Done \/ p <= operator'.cursor =>
           answered'[p] # "none"
  PROVE  RollbackInv'
<1>1. RollbackTyped'
  BY DEF RollbackInv, RollbackTyped
<1>2. Traced'
  BY DEF RollbackInv, Traced, AboutToTell, ItemOf
<1>3. GoneThrough'
  BY DEF GoneThrough
<1> QED
  BY <1>1, <1>2, <1>3 DEF RollbackInv

LEMMA RepeatPageStep ==
  ASSUME RollbackInv, RepeatPage
  PROVE  RollbackInv'
<1>1. operator \in Operator /\ answered \in [Position -> Reasons]
  BY DEF RollbackInv, RollbackTyped
<1>2. /\ operator' = [operator EXCEPT !.waits = 0]
      /\ UNCHANGED <<enforced, invocation, answered, unresolved, untold>>
  BY DEF RepeatPage
<1>3. operator' \in Operator /\ operator'.waits = 0 /\ operator'.cursor = operator.cursor
  BY <1>1, <1>2, StopsWaiting
<1>4. Sound(answered', enforced, unresolved)
  BY <1>2 DEF RollbackInv
<1>5. \A p \in Position : operator'.cursor = Done \/ p <= operator'.cursor => answered'[p] # "none"
  BY <1>2, <1>3 DEF RollbackInv, GoneThrough
<1> QED
  BY <1>1, <1>2, <1>3, <1>4, <1>5, OperatorMoves

LEMMA StartOverStep ==
  ASSUME RollbackInv, StartOver
  PROVE  RollbackInv'
<1>1. /\ operator \in Operator /\ answered \in [Position -> Reasons]
      /\ operator.waits = 0
  BY DEF RollbackInv, RollbackTyped, StartOver
<1>2. PICK mode \in {"execute", "resume"} :
             operator' = [operator EXCEPT !.mode = mode, !.cursor = 0]
  BY DEF StartOver
<1>3. UNCHANGED <<enforced, invocation, answered, unresolved, untold>>
  BY DEF StartOver
<1>4. operator' \in Operator /\ operator'.waits = 0 /\ operator'.cursor = 0
  <2> DEFINE o == [operator EXCEPT !.mode = mode]
  <2>1. o \in Operator /\ o.waits = 0
    BY <1>1 DEF Operator
  <2>2. operator' = [o EXCEPT !.cursor = 0]
    BY <1>2
  <2> HIDE DEF o
  <2> QED
    BY <2>1, <2>2 DEF Operator
<1>5. Sound(answered', enforced, unresolved)
  BY <1>3 DEF RollbackInv
<1>6. \A p \in Position : ~(operator'.cursor = Done \/ p <= operator'.cursor)
  BY <1>4, PositionsOfTheList DEF Done
<1> QED
  BY <1>1, <1>3, <1>4, <1>5, <1>6, OperatorMoves

LEMMA HearSummaryStep ==
  ASSUME RollbackInv, HearSummary
  PROVE  RollbackInv'
<1> DEFINE i == operator.waits
           a == invocation[i]
           heard == [p \in Position |-> IF a.answers[p] = "none" THEN answered[p] ELSE a.answers[p]]
           next == NextCursor(a.upto)
<1>1. /\ i # 0 /\ a.pc = "answered" /\ answered' = heard
      /\ operator' = [operator EXCEPT !.cursor = next, !.waits = 0]
      /\ UNCHANGED <<enforced, invocation, unresolved, untold>>
  BY DEF HearSummary, Reached
<1>2. /\ operator \in Operator /\ i \in 1..MaxInvocations /\ answered \in [Position -> Reasons]
      /\ operator.cursor # Done /\ AnswersPage(a, operator.cursor)
  BY <1>1, Numbers DEF RollbackInv, RollbackTyped, Operator
<1>3. a \in Invocation /\ InvocationInv(a, enforced, unresolved)
  BY <1>2, TypesNow
<1>4. /\ a.answers \in [Position -> Reasons] /\ a.at \in Nat /\ a.upto \in Nat
      /\ Sound(a.answers, enforced, unresolved) /\ operator.cursor \in Nat
  BY <1>2, <1>3 DEF InvocationInv, Invocation, Operator
<1>5. /\ a.at > a.upto /\ \A p \in Position : operator.cursor < p /\ p < a.at => a.answers[p] # "none"
      /\ \A p \in Position : p <= operator.cursor => answered[p] # "none"
      /\ Sound(answered, enforced, unresolved)
  BY <1>1, <1>2 DEF AnswersPage, RollbackInv, GoneThrough
<1> HIDE DEF a
<1>6. /\ next \in {Done} \cup Nat /\ a.upto <= Len(List)
      /\ next = Done => a.upto >= Len(List)
      /\ next # Done => next = a.upto
  <2>1. Len(List) \in Nat /\ a.upto <= Len(List)
    BY <1>1, <1>3, PositionsOfTheList DEF InvocationInv, InList, a
  <2> QED
    BY <1>4, <2>1 DEF NextCursor, Done
<1> HIDE DEF next, i
<1>7. operator' \in Operator /\ operator'.waits = 0 /\ operator'.cursor = next
  <2> DEFINE o == [operator EXCEPT !.cursor = next]
  <2>1. o \in Operator /\ o.cursor = next
    BY <1>2, <1>6 DEF Operator
  <2>2. operator' = [o EXCEPT !.waits = 0]
    BY <1>1
  <2> HIDE DEF o
  <2> QED
    BY <2>1, <2>2, Numbers DEF Operator
<1>8. heard \in [Position -> Reasons]
  BY <1>2, <1>4
<1>9. Sound(heard, enforced, unresolved)
  <2>1. ASSUME NEW p \in Position
        PROVE  heard[p] = answered[p] \/ heard[p] = a.answers[p]
    OBVIOUS
  <2> HIDE DEF heard
  <2> QED
    BY <1>4, <1>5, <2>1 DEF Sound
<1>10. ASSUME NEW p \in Position, operator'.cursor = Done \/ p <= operator'.cursor
       PROVE  heard[p] # "none"
  <2>1. p \in Nat /\ p <= Len(List) /\ Len(List) \in Nat
    BY PositionsOfTheList
  <2>2. p <= a.upto
    BY <1>4, <1>6, <1>7, <1>10, <2>1
  <2>3. p < a.at
    BY <1>4, <1>5, <2>1, <2>2
  <2> QED
    BY <1>4, <1>5, <2>1, <2>3
<1> HIDE DEF heard
<1> QED
  BY <1>1, <1>7, <1>8, <1>9, <1>10, OperatorMoves

Blank(pc, preview, at, upto) ==
  [pc |-> pc, preview |-> preview, at |-> at, upto |-> upto, known |-> {},
   saw |-> "none", stale |-> {}, answers |-> NoAnswers]

Opened(d, pc, preview, at, upto) ==
  [d EXCEPT !.pc = pc, !.preview = preview, !.at = at, !.upto = upto]

LEMMA BlankOpened ==
  ASSUME NEW p, NEW v, NEW a, NEW u, NEW d, d = Blank(p, v, a, u),
         NEW pc, NEW preview, NEW at, NEW upto
  PROVE  Opened(d, pc, preview, at, upto) = Blank(pc, preview, at, upto)
<1> DEFINE r == [d EXCEPT !.pc = pc]
           s == [r EXCEPT !.preview = preview]
           t == [s EXCEPT !.at = at]
           final == [t EXCEPT !.upto = upto]
<1>1. r = Blank(pc, v, a, u)
  BY DEF Blank
<1>2. Opened(d, pc, preview, at, upto) = final
  BY DEF Opened
<1> HIDE DEF r
<1>3. s = Blank(pc, preview, a, u)
  BY <1>1 DEF Blank
<1> HIDE DEF s
<1>4. t = Blank(pc, preview, at, u)
  BY <1>3 DEF Blank
<1> HIDE DEF t
<1>5. final = Blank(pc, preview, at, upto)
  BY <1>4 DEF Blank
<1> QED
  BY <1>2, <1>5

Requested(preview, at, upto) == Blank("lookup", preview, at, upto)

LEMMA RequestedInvocation ==
  ASSUME NEW preview \in BOOLEAN, NEW at \in Nat, NEW upto \in Nat
  PROVE  /\ Requested(preview, at, upto) \in Invocation
         /\ Opened(Idle, "lookup", preview, at, upto) = Requested(preview, at, upto)
<1> DEFINE no == FALSE
<1>1. Idle = Blank("idle", no, 0, 0)
  BY DEF Idle, Blank
<1> HIDE DEF no
<1>2. Opened(Idle, "lookup", preview, at, upto) = Requested(preview, at, upto)
  <2>1. Opened(Idle, "lookup", preview, at, upto) = Blank("lookup", preview, at, upto)
    BY <1>1, BlankOpened
  <2> QED
    BY <2>1 DEF Requested
<1>3. NoAnswers \in [Position -> Reasons]
  BY DEF NoAnswers, Reasons
<1>4. {} \in Metadata /\ {} \in KeySets
  BY DEF Metadata, KeySets
<1>5. Requested(preview, at, upto) \in Invocation
  BY <1>3, <1>4 DEF Requested, Blank, Invocation, Phases, RowKinds
<1> QED
  BY <1>2, <1>5

LEMMA RequestStep ==
  ASSUME RollbackInv, Request
  PROVE  RollbackInv'
<1> DEFINE at == operator.cursor + 1
           upto == PageEnd(operator.cursor)
           preview == operator.mode = "preview"
           new == Requested(preview, at, upto)
<1>1. /\ operator.waits = 0 /\ operator.cursor # Done
      /\ UNCHANGED <<enforced, answered, unresolved, untold>>
  BY DEF Request
<1>2. PICK i \in 1..MaxInvocations :
        /\ invocation[i].pc = "idle" /\ operator' = [operator EXCEPT !.waits = i]
        /\ invocation' = [invocation EXCEPT ![i] = Opened(Idle, "lookup", preview, at, upto)]
  BY DEF Request, Reached, PageEnd, Opened
<1>3. operator \in Operator /\ operator.cursor \in Nat
  BY <1>1 DEF RollbackInv, RollbackTyped, Operator
<1>4. preview \in BOOLEAN /\ at \in Nat /\ upto \in Nat /\ upto <= Len(List) /\ at >= 1
  BY <1>3, Numbers, PositionsOfTheList DEF PageEnd
<1> HIDE DEF preview, at
<1>5. /\ new \in Invocation
      /\ Opened(Idle, "lookup", preview, at, upto) = new
  <2> HIDE DEF upto
  <2> QED
    BY <1>4, RequestedInvocation
<1>6. invocation' = [invocation EXCEPT ![i] = new]
  BY <1>2, <1>5
<1>7. new.pc = "lookup" /\ new.at = at /\ new.upto = upto /\ new.answers = NoAnswers
  BY DEF Requested, Blank
<1> HIDE DEF new
<1>8. /\ invocation' \in [1..MaxInvocations -> Invocation] /\ invocation'[i] = new
      /\ Still(i)
  BY <1>5, <1>6, TypesNow DEF Still
<1>9. /\ operator' \in Operator /\ operator'.waits = i /\ operator'.cursor = operator.cursor
  BY <1>2, <1>3, Numbers DEF Operator
<1>10. InvocationInv(new, enforced, unresolved)
  <2>1. Sound(NoAnswers, enforced, unresolved)
    BY DEF Sound, NoAnswers
  <2>2. InList(new) /\ DoneSoFar(new, enforced) /\ Equipped(new, unresolved)
    BY <1>4, <1>7 DEF InList, DoneSoFar, Equipped, AtWork
  <2> QED
    BY <1>5, <1>7, <2>1, <2>2 DEF InvocationInv
<1>11. AnswersPage(new, operator.cursor)
  <2>1. \A p \in Position : ~(operator.cursor < p /\ p < at)
    BY <1>3, PositionsOfTheList DEF at
  <2> QED
    BY <1>7, <2>1 DEF AnswersPage
<1>12. RollbackTyped'
  BY <1>1, <1>8, <1>9 DEF RollbackInv, RollbackTyped
<1>13. ASSUME NEW j \in 1..MaxInvocations
       PROVE  InvocationInv(invocation'[j], enforced', unresolved')
  <2>1. CASE j = i
    BY <1>1, <1>8, <1>10, <2>1
  <2>2. CASE j # i
    BY <1>1, <1>8, <2>2 DEF RollbackInv, Still
  <2> QED
    BY <2>1, <2>2
<1>14. Sound(answered, enforced, unresolved)'
  BY <1>1 DEF RollbackInv
<1>15. Traced'
  <2>1. LosesNone(i)
    BY <1>1, <1>2 DEF LosesNone
  <2> QED
    BY <1>1, <1>8, <2>1, TracedStays DEF RollbackInv
<1>16. GoneThrough'
  BY <1>1, <1>9 DEF RollbackInv, GoneThrough
<1>17. operator'.cursor # Done /\ AnswersPage(invocation'[operator'.waits], operator'.cursor)
  BY <1>1, <1>8, <1>9, <1>11
<1> QED
  BY <1>12, <1>13, <1>14, <1>15, <1>16, <1>17 DEF RollbackInv

LEMMA RollbackInitial ==
  ASSUME VineRollbackInit
  PROVE  RollbackInv
<1>1. /\ enforced \in [Hash -> Enforced] /\ answered = NoAnswers
      /\ invocation = [i \in 1..MaxInvocations |-> Idle] /\ unresolved = {} /\ untold = {}
  BY DEF VineRollbackInit
<1>2. enforced \in [Hash -> Record] /\ \A h \in Hash : enforced[h] # Untraced
  BY <1>1, VineRollbackAssumption
<1>3. NoAnswers \in [Position -> Reasons] /\ {} \in Metadata /\ {} \in KeySets
  BY DEF NoAnswers, Reasons, Metadata, KeySets
<1>4. /\ Idle \in Invocation /\ Idle.pc = "idle" /\ Idle.answers = NoAnswers
  BY <1>3 DEF Idle, Invocation, Phases, RowKinds
<1>5. /\ operator \in Operator /\ operator.waits = 0 /\ operator.cursor = 0
  BY Numbers DEF VineRollbackInit, Operator
<1>6. Sound(NoAnswers, enforced, unresolved)
  BY DEF Sound, NoAnswers
<1>7. InvocationInv(Idle, enforced, unresolved)
  <2>1. InList(Idle) /\ DoneSoFar(Idle, enforced) /\ Equipped(Idle, unresolved)
    BY <1>4 DEF InList, DoneSoFar, Equipped, AtWork
  <2> QED
    BY <1>4, <1>6, <2>1 DEF InvocationInv
<1>8. RollbackTyped
  BY <1>1, <1>2, <1>3, <1>4, <1>5 DEF RollbackTyped
<1>9. Traced
  BY <1>2 DEF Traced
<1>10. GoneThrough
  BY <1>5, PositionsOfTheList DEF GoneThrough, Done
<1> QED
  BY <1>1, <1>5, <1>6, <1>7, <1>8, <1>9, <1>10 DEF RollbackInv

LEMMA RollbackStep ==
  ASSUME RollbackInv, [VineRollbackNext]_rollbackVars
  PROVE  RollbackInv'
<1>1. CASE Request \/ HearSummary \/ RepeatPage \/ StartOver
  BY <1>1, RequestStep, HearSummaryStep, RepeatPageStep, StartOverStep
<1>2. ASSUME NEW i \in 1..MaxInvocations,
             ResolveRollbackNostrContexts(i) \/ PassOver(i) \/ Preview(i) \/ ReadRow(i)
               \/ ReadKeys(i) \/ RestoreRow(i) \/ ClearKeys(i) \/ TellBlossom(i)
               \/ Summarise(i) \/ BreakOff(i)
      PROVE  RollbackInv'
  BY <1>2, LookupStep, PassOverStep, PreviewStep, ReadRowStep, ReadKeysStep, RestoreRowStep,
     ClearKeysStep, TellBlossomStep, SummariseStep, BreakOffStep
<1>3. CASE UNCHANGED rollbackVars
  <2>1. UNCHANGED <<enforced, operator, invocation, answered, unresolved, untold>>
    BY <1>3 DEF rollbackVars
  <2>2. RollbackTyped' /\ Traced' /\ GoneThrough'
    BY <2>1 DEF RollbackInv, RollbackTyped, Traced, AboutToTell, ItemOf, GoneThrough
  <2> QED
    BY <2>1, <2>2 DEF RollbackInv
<1> QED
  BY <1>1, <1>2, <1>3 DEF VineRollbackNext

\* What invocations have seen, done and answered: the inductive invariant.
THEOREM RollbackInvariant == VineRollbackSpec => []RollbackInv
<1>1. VineRollbackInit => RollbackInv
  BY RollbackInitial
<1>2. RollbackInv /\ [VineRollbackNext]_rollbackVars => RollbackInv'
  BY RollbackStep
<1> QED
  BY <1>1, <1>2, PTL DEF VineRollbackSpec

LEMMA GoneThroughReaches ==
  ASSUME RollbackInv
  PROVE  RollbackReaches
<1> SUFFICES ASSUME operator.cursor = Done, NEW p \in Position
             PROVE  /\ answered[p] # "none"
                    /\ List[p] \in (Hash \cap Findable) \ unresolved =>
                         /\ answered[p] = "not-classic-vine"
                              <=> ~IsClassicVineRollbackCandidate(List[p])
                         /\ answered[p] # "missing-vine-metadata"
                    /\ (/\ answered[p] \in {"confirmed-classic-vine", "already-safe"}
                        /\ List[p] \notin untold /\ ~AboutToTell(List[p]))
                       => enforced[List[p]] = Restored
  BY Zenon DEF RollbackReaches
<1>1. answered[p] # "none"
  BY DEF RollbackInv, GoneThrough
<1>2. List[p] \in (Hash \cap Findable) \ unresolved =>
        /\ answered[p] = "not-classic-vine" <=> ~IsClassicVineRollbackCandidate(List[p])
        /\ answered[p] # "missing-vine-metadata"
  BY <1>1 DEF RollbackInv, Sound
<1>3. ASSUME answered[p] \in {"confirmed-classic-vine", "already-safe"},
             List[p] \notin untold, ~AboutToTell(List[p])
      PROVE  enforced[List[p]] = Restored
  <2>1. List[p] \in Hash /\ enforced[List[p]].row = "SAFE" /\ enforced[List[p]].keys = {}
    BY <1>3 DEF RollbackInv, Sound
  <2>2. enforced[List[p]] \in Record /\ enforced[List[p]] # Untraced
    BY <1>3, <2>1 DEF RollbackInv, RollbackTyped, Traced
  <2>3. Untraced = [row |-> "SAFE", keys |-> {}, blob |-> "restricted"]
    BY DEF Untraced, Restored
  <2> QED
    BY <2>1, <2>2, <2>3 DEF Record, Restored
<1> QED
  BY <1>1, <1>2, <1>3

\* Whatever failed, was lost or overlapped, and for any list, page size and signals: a
\* list that has been gone through has an answer for every item, classic Vines are told
\* from other videos unless a lookup came back short, and what is answered as safe is
\* SAFE in the row, in KV and at Blossom (classic-vine-rollback.mjs 262-327), but for
\* videos of which an attempt broke off after it had removed what later ones go by.
THEOREM RollbackReachesHolds == VineRollbackSpec => []RollbackReaches
<1>1. RollbackInv => RollbackReaches
  BY GoneThroughReaches
<1> QED
  BY <1>1, RollbackInvariant, PTL

-----------------------------------------------------------------------------
(* ReplicaBackfill. Behind the cursor lies what has been tried; a row that *)
(* stays where it was in the order of the query is reached.                *)

Keys == [bucket : Nat, moderated_at : Nat, sha : Rows]

\* Behind a cursor is what is settled; every other row of the selection that
\* stayed where it was is still to come.
Settled(cursor, done) ==
  cursor # Origin => \A r \in sparse \ moved : r \in done \/ Follows(Key(r), cursor)

BackfillTyped ==
  /\ place \in [Rows -> [bucket : Nat, moderated_at : Nat]] /\ instant \in Nat
  /\ sparse \subseteq Rows /\ walk.batch \subseteq Rows
  /\ DOMAIN walk = {"pc", "cursor", "batch"}
  /\ walk.pc \in {"load", "query", "process", "save", "dead", "completed"}

BackfillInv ==
  /\ BackfillTyped /\ Settled(saved, tried)
  /\ walk.pc \in {"query", "save"} => Settled(walk.cursor, tried)
  /\ walk.pc = "process" => Settled(walk.cursor, tried \cup walk.batch)
  /\ EveryRowTried
-----------------------------------------------------------------------------
USE BackfillAssumption

LEMMA GreatestNat ==
  ASSUME NEW n \in Nat, NEW S, S \subseteq 0..n, S # {}
  PROVE  \E x \in S : \A y \in S : y <= x
<1> DEFINE T == {n - x : x \in S}
<1>1. T \subseteq Nat /\ T # {}
  <2>1. \A x \in S : x \in 0..n /\ n - x \in Nat
    OBVIOUS
  <2> QED
    BY <2>1
<1>2. PICK t \in T : \A y \in T : t <= y
  BY <1>1, LeastNat
<1>3. PICK x \in S : t = n - x
  OBVIOUS
<1>4. ASSUME NEW y \in S PROVE y <= x
  <2>1. n - y \in T /\ x \in 0..n /\ y \in 0..n
    OBVIOUS
  <2>2. n - x <= n - y
    BY <1>2, <1>3, <2>1
  <2> QED
    BY <2>1, <2>2
<1> QED
  BY <1>4

\* The order of the query is total on the rows, which differ in their sha.
LEMMA FollowsOrder ==
  ASSUME BackfillTyped, NEW x \in Rows, NEW y \in Rows
  PROVE  /\ Key(x) \in Keys /\ Key(x).sha = x
         /\ ~Follows(Key(x), Key(x))
         /\ x # y => Follows(Key(x), Key(y)) \/ Follows(Key(y), Key(x))
         /\ \A z \in Rows : Follows(Key(x), Key(y)) /\ Follows(Key(y), Key(z)) =>
                              Follows(Key(x), Key(z))
<1>1. \A z \in Rows : place[z].bucket \in Nat /\ place[z].moderated_at \in Nat /\ z \in Nat
  BY DEF BackfillTyped, Rows
<1>2. \A z \in Rows : Key(z) = [bucket |-> place[z].bucket,
                                moderated_at |-> place[z].moderated_at, sha |-> z]
  BY DEF Key
<1> QED
  BY <1>1, <1>2 DEF Follows, Keys

\* What comes before a row in a selection: those a batch counts.
Ahead(R, r) == {q \in R : Follows(Key(r), Key(q))}

LEMMA AheadCounts ==
  ASSUME BackfillTyped, NEW R \in SUBSET Rows, NEW r \in R
  PROVE  IsFiniteSet(Ahead(R, r)) /\ Cardinality(Ahead(R, r)) \in Nat
<1>1. IsFiniteSet(Rows)
  BY FS_Interval DEF Rows
<1>2. Ahead(R, r) \subseteq Rows
  BY DEF Ahead
<1>3. IsFiniteSet(Ahead(R, r))
  BY <1>1, <1>2, FS_Subset
<1> QED
  BY <1>3, FS_CardinalityType

\* A row has more rows ahead than any row ahead of it.
LEMMA AheadGrows ==
  ASSUME BackfillTyped, NEW R \in SUBSET Rows, NEW q \in R, NEW r \in R, Follows(Key(r), Key(q))
  PROVE  Cardinality(Ahead(R, q)) < Cardinality(Ahead(R, r))
<1>1. Ahead(R, q) \subseteq Ahead(R, r)
  BY FollowsOrder DEF Ahead
<1>2. q \in Ahead(R, r) /\ q \notin Ahead(R, q)
  BY FollowsOrder DEF Ahead
<1>3. IsFiniteSet(Ahead(R, r)) /\ Ahead(R, q) # Ahead(R, r)
  BY <1>2, AheadCounts
<1>4. /\ Cardinality(Ahead(R, q)) <= Cardinality(Ahead(R, r))
      /\ Cardinality(Ahead(R, q)) # Cardinality(Ahead(R, r))
  BY <1>1, <1>3, FS_Subset
<1> QED
  BY <1>4, AheadCounts

\* LIMIT and ORDER BY together: the batch is not empty, has a last row, and
\* what of the selection is not in it follows that one.
LEMMA BatchLeads ==
  ASSUME BackfillTyped, NEW cursor, Remaining(cursor) # {}
  PROVE  /\ Batch(cursor) \subseteq Rows /\ LastOf(Batch(cursor)) \in Rows
         /\ \A r \in Remaining(cursor) \ Batch(cursor) :
              Follows(Key(r), Key(LastOf(Batch(cursor))))
<1> DEFINE R == Remaining(cursor)
           B == Batch(cursor)
           n[r \in R] == Cardinality(Ahead(R, r))
<1>1. R \in SUBSET Rows /\ B \subseteq R
  BY DEF Remaining, Batch, BackfillTyped
<1>2. \A r \in R : n[r] \in Nat /\ (r \in B <=> n[r] < BatchSize)
  BY <1>1, AheadCounts DEF Batch, Ahead
<1>3. \A q, r \in R : Follows(Key(r), Key(q)) => n[q] < n[r]
  BY <1>1, AheadGrows
<1>4. \A q, r \in R : q # r => Follows(Key(r), Key(q)) \/ Follows(Key(q), Key(r))
  BY <1>1, FollowsOrder
<1>5. B # {}
  <2>1. PICK k \in {n[r] : r \in R} : \A j \in {n[r] : r \in R} : k <= j
    <3>1. {n[r] : r \in R} \subseteq Nat /\ {n[r] : r \in R} # {}
      BY <1>2
    <3> HIDE DEF n
    <3> QED
      BY <3>1, LeastNat
  <2>2. PICK r \in R : k = n[r]
    BY <2>1
  <2>3. \A q \in R : ~Follows(Key(r), Key(q))
    BY <1>2, <1>3, <2>1, <2>2, SMTT(60)
  <2>4. Ahead(R, r) = {}
    BY <2>3 DEF Ahead
  <2>5. n[r] = 0
    BY <2>4, FS_EmptySet
  <2> QED
    BY <1>2, <2>5
<1>6. \E r \in B : \A q \in B \ {r} : Follows(Key(r), Key(q))
  <2>1. PICK k \in {n[r] : r \in B} : \A j \in {n[r] : r \in B} : j <= k
    <3>1. \A r \in B : n[r] \in 0..BatchSize
      BY <1>1, <1>2
    <3> HIDE DEF n, B
    <3>2. {n[r] : r \in B} \subseteq 0..BatchSize /\ {n[r] : r \in B} # {}
      BY <1>5, <3>1
    <3>3. BatchSize \in Nat
      OBVIOUS
    <3> QED
      BY <3>2, <3>3, GreatestNat
  <2>2. PICK r \in B : k = n[r]
    BY <2>1
  <2>3. ASSUME NEW q \in B \ {r} PROVE Follows(Key(r), Key(q))
    <3>1. n[q] <= n[r] /\ n[q] \in Nat /\ n[r] \in Nat
      BY <1>1, <1>2, <2>1, <2>2
    <3>2. ~Follows(Key(q), Key(r))
      BY <1>1, <1>3, <3>1
    <3> QED
      BY <1>1, <1>4, <3>2
  <2> QED
    BY <2>3
<1>7. LastOf(B) \in B
  BY <1>6 DEF LastOf
<1>8. ASSUME NEW r \in R \ B PROVE Follows(Key(r), Key(LastOf(B)))
  <2>1. PICK l \in B : l = LastOf(B)
    BY <1>7
  <2>2. n[l] < BatchSize /\ ~(n[r] < BatchSize) /\ n[l] \in Nat /\ n[r] \in Nat
    BY <1>1, <1>2
  <2>3. ~Follows(Key(l), Key(r))
    BY <1>1, <1>3, <2>2
  <2> QED
    BY <1>1, <1>4, <2>1, <2>3
<1> QED
  BY <1>1, <1>7, <1>8

LEMMA BackfillInitInv == BackfillInit => BackfillInv
  BY DEF BackfillInit, BackfillInv, BackfillTyped, Settled, EveryRowTried, StartedWalk

LEMMA BackfillNextInv == BackfillInv /\ [BackfillNext]_backfillVars => BackfillInv'
<1> SUFFICES ASSUME BackfillInv, [BackfillNext]_backfillVars PROVE BackfillInv'
  OBVIOUS
<1> USE DEF BackfillInv
<1>1. PICK w : w = walk
  OBVIOUS
<1>2. CASE UNCHANGED backfillVars
  BY <1>2 DEF backfillVars, BackfillTyped, Settled, Key, EveryRowTried
<1>3. ASSUME NEW r \in Rows, Redecide(r) PROVE BackfillInv'
  <2>1. PICK b \in 0..2 :
          place' = [place EXCEPT ![r] = [bucket |-> b, moderated_at |-> instant']]
    BY <1>3 DEF Redecide
  <2>2. /\ instant' = instant + 1 /\ moved' = moved \cup {r}
        /\ UNCHANGED <<sparse, saved, walk, tried>>
    BY <1>3 DEF Redecide
  <2>3. BackfillTyped'
    BY <2>1, <2>2 DEF BackfillTyped
  <2>4. ASSUME NEW cursor, NEW done, Settled(cursor, done) PROVE Settled(cursor, done)'
    <3>1. \A x \in sparse \ moved' : x \in Rows /\ place'[x] = place[x]
      BY <2>1, <2>2 DEF BackfillTyped
    <3> QED
      BY <2>2, <2>4, <3>1 DEF Settled, Key
  <2> QED
    BY <2>2, <2>3, <2>4 DEF Settled, EveryRowTried
<1>4. CASE LoadCheckpoint
  <2>1. PICK cursor \in {saved, Origin} :
          walk' = [walk EXCEPT !.pc = "query", !.cursor = cursor]
    BY <1>4 DEF LoadCheckpoint
  <2>2. UNCHANGED <<place, sparse, saved, instant, tried, moved>>
    BY <1>4 DEF LoadCheckpoint
  <2>3. walk'.pc = "query" /\ walk'.cursor = cursor /\ walk'.batch = walk.batch
        /\ DOMAIN walk' = DOMAIN walk
    <3> DEFINE w1 == [walk EXCEPT !.pc = "query"]
    <3>1. w1.pc = "query" /\ w1.batch = walk.batch /\ DOMAIN w1 = DOMAIN walk
      BY DEF BackfillTyped
    <3>2. walk' = [w1 EXCEPT !.cursor = cursor]
      BY <2>1
    <3> HIDE DEF w1
    <3> QED
      BY <3>1, <3>2 DEF BackfillTyped
  <2> QED
    BY <2>2, <2>3 DEF BackfillTyped, Settled, Key, EveryRowTried
<1>5. CASE QuerySparseRows
  <2>1. walk.pc = "query" /\ UNCHANGED <<place, sparse, saved, instant, tried, moved>>
    BY <1>5 DEF QuerySparseRows
  <2>2. CASE Remaining(w.cursor) = {}
    <3>1. walk' = [walk EXCEPT !.pc = "completed"]
      BY <1>1, <1>5, <2>2 DEF QuerySparseRows
    <3>2. walk'.pc = "completed" /\ walk'.batch = walk.batch /\ DOMAIN walk' = DOMAIN walk
      BY <3>1 DEF BackfillTyped
    <3>3. sparse \ moved \subseteq tried
      BY <1>1, <2>1, <2>2 DEF Remaining, Settled
    <3> QED
      BY <2>1, <3>2, <3>3 DEF BackfillTyped, Settled, Key, EveryRowTried
  <2>3. CASE Remaining(w.cursor) # {}
    <3>1. PICK B : B = Batch(w.cursor)
      OBVIOUS
    <3>2. PICK k : k = Key(LastOf(B))
      OBVIOUS
    <3>3. walk' = [pc |-> "process", batch |-> B, cursor |-> k]
      BY <1>1, <1>5, <2>3, <3>1, <3>2 DEF QuerySparseRows
    <3>4. B \subseteq Rows /\ \A r \in Remaining(w.cursor) \ B : Follows(Key(r), k)
      BY <2>3, <3>1, <3>2, BatchLeads
    <3>5. \A r \in sparse \ moved : r \in tried \cup B \/ Follows(Key(r), k)
      <4> TAKE r \in sparse \ moved
      <4>1. r \in tried \/ r \in Remaining(w.cursor)
        BY <1>1, <2>1 DEF Remaining, Settled
      <4> QED
        BY <3>4, <4>1
    <3> QED
      BY <2>1, <3>3, <3>4, <3>5 DEF BackfillTyped, Settled, Key, EveryRowTried
  <2> QED
    BY <2>2, <2>3
<1>6. CASE ProcessReplicaBatch \/ BatchFails
  <2>1. /\ walk.pc = "process" /\ sparse' \subseteq sparse
        /\ UNCHANGED <<place, saved, instant, moved>>
        /\ \/ walk' = [walk EXCEPT !.pc = "save"] /\ tried' = tried \cup walk.batch
           \/ walk' = [walk EXCEPT !.pc = "dead"] /\ tried' = tried
    BY <1>6 DEF ProcessReplicaBatch, BatchFails, Refresh
  <2>2. /\ walk'.cursor = walk.cursor /\ walk'.batch = walk.batch /\ DOMAIN walk' = DOMAIN walk
        /\ \/ walk'.pc = "save" /\ tried' = tried \cup walk.batch
           \/ walk'.pc = "dead" /\ tried' = tried
    BY <2>1 DEF BackfillTyped
  <2> QED
    BY <2>1, <2>2 DEF BackfillTyped, Settled, Key, EveryRowTried
<1>7. CASE SaveCheckpoint \/ StopBackfill \/ RunBackfill
  <2>1. /\ UNCHANGED <<place, sparse, instant, tried, moved>>
        /\ \/ walk.pc = "save" /\ walk' = [walk EXCEPT !.pc = "query"] /\ saved' = walk.cursor
           \/ walk' = [walk EXCEPT !.pc = "dead"] /\ saved' = saved
           \/ walk' = StartedWalk /\ saved' = saved
    BY <1>7 DEF SaveCheckpoint, StopBackfill, RunBackfill
  <2>2. /\ walk'.batch \subseteq Rows /\ DOMAIN walk' = {"pc", "cursor", "batch"}
        /\ \/ /\ walk.pc = "save" /\ walk'.pc = "query" /\ walk'.cursor = walk.cursor
              /\ saved' = walk.cursor
           \/ walk'.pc \in {"dead", "load"} /\ saved' = saved
    BY <2>1 DEF BackfillTyped, StartedWalk
  <2> QED
    BY <2>1, <2>2 DEF BackfillTyped, Settled, Key, EveryRowTried
<1> QED
  BY <1>2, <1>3, <1>4, <1>5, <1>6, <1>7 DEF BackfillNext

\* What the checkpoint file and the cursor of the script are worth: whatever of
\* the selection is behind one of them, and did not move, was in a batch that
\* was processed (backfill-relay-replica.mjs 281-325).
THEOREM BackfillInvariant == BackfillSpec => []BackfillInv
  BY BackfillInitInv, BackfillNextInv, PTL DEF BackfillSpec

\* When a run is complete, every row that lacks a field and stayed where it was
\* has been looked up, for any number of rows and any size of the batches
\* (backfill-relay-replica.mjs 537-606).
THEOREM EveryRowTriedHolds == BackfillSpec => []EveryRowTried
<1>1. BackfillInv => EveryRowTried
  BY DEF BackfillInv
<1> QED
  BY <1>1, BackfillInvariant, PTL

HIDE BackfillAssumption

-----------------------------------------------------------------------------
(* RelayWalk. The cursor of a walk is never below a video that it still    *)
(* owes.                                                                   *)

Untils == Int \cup {NoUntil}
Passes == [pc : {"none", "fetch", "treat", "completed", "limited"}, real : BOOLEAN,
           until : Untils, page : SUBSET Clip, todo : SUBSET Clip, chunk : SUBSET Clip,
           needing : SUBSET Clip]

\* The videos that the walk still owes.
Owed == intended \ (treated \cup leftOut)
\* A cursor is not below any of them ...
InFront(until) == until # NoUntil => \A c \in Owed : ClipTime[c] <= until
\* ... and a page in hand has them all, or is full.
PageCovers ==
  \A c \in Owed : IF c \in pass.page THEN c \in pass.todo \cup pass.chunk \cup pass.needing
                  ELSE Cardinality(pass.page) = ClipsPerPage

WalkTyped ==
  /\ pass \in Passes /\ bookmark \in Untils /\ published \subseteq Clip
  /\ intended \subseteq published \ Shaless

WalkInv ==
  /\ WalkTyped /\ WalkSeesAll /\ InFront(bookmark)
  /\ pass.pc \in {"fetch", "treat"} => InFront(pass.until)
  /\ pass.pc = "treat" => PageCovers
-----------------------------------------------------------------------------
USE RelayWalkAssumption

LEMMA NextUntilIs ==
  ASSUME WalkTyped, NEW page \in SUBSET Clip PROVE NextUntil(page) \in Untils
<1>1. CASE page \subseteq Shaless
  BY <1>1 DEF NextUntil, WalkTyped, Passes
<1>2. CASE ~(page \subseteq Shaless)
  <2> DEFINE S == {ClipTime[c] : c \in page \ Shaless}
  <2>1. S \subseteq Nat /\ S # {}
    BY <1>2
  <2> HIDE DEF S
  <2>2. Min(S) \in Nat
    BY <2>1, LeastNat DEF Min
  <2>3. NextUntil(page) = Min(S) - 1
    BY <1>2 DEF NextUntil, S
  <2> QED
    BY <2>2, <2>3 DEF Untils
<1> QED
  BY <1>1, <1>2

LEMMA NoPassIs == NoPass \in Passes /\ NoPass.pc = "none"
  BY DEF NoPass, Passes, Untils

LEMMA WalkInitInv == RelayWalkInit => WalkInv
<1> SUFFICES ASSUME RelayWalkInit PROVE WalkInv
  OBVIOUS
<1>1. pass \in Passes /\ pass.pc = "none"
  BY NoPassIs DEF RelayWalkInit
<1> QED
  BY <1>1 DEF RelayWalkInit, WalkInv, WalkTyped, WalkSeesAll, InFront, Owed, Untils

\* A step that leaves the script between two pages, or stopped.
LEMMA WalkRests ==
  ASSUME WalkInv, WalkTyped', Owed' \subseteq Owed, NEW how \in {"none", "completed", "limited"},
         pass'.pc = how, bookmark' \in {bookmark, NoUntil}, how = "completed" => Owed' = {}
  PROVE  WalkInv'
  BY DEF WalkInv, WalkSeesAll, InFront, Owed

LEMMA BegunInv == ASSUME WalkInv, Begun PROVE WalkInv'
<1>1. PICK real \in BOOLEAN, until \in {bookmark, NoUntil} :
       /\ pass' = [NoPass EXCEPT !.pc = "fetch", !.real = real, !.until = until]
       /\ intended' = IF bookmark = NoUntil THEN published \ Shaless ELSE intended
       /\ leftOut' = IF bookmark = NoUntil THEN {} ELSE leftOut
  BY DEF Begun
<1>2. UNCHANGED <<published, treated, bookmark>>
  BY DEF Begun
<1>3. pass' \in Passes /\ pass'.pc = "fetch" /\ pass'.until = until
  <2> DEFINE p1 == [NoPass EXCEPT !.pc = "fetch"]
             p2 == [p1 EXCEPT !.real = real]
             p3 == [p2 EXCEPT !.until = until]
  <2>1. p1 \in Passes /\ p1.pc = "fetch"
    BY NoPassIs DEF Passes
  <2>2. until \in Untils
    BY DEF WalkInv, WalkTyped, Untils
  <2> HIDE DEF p1
  <2>3. p2 \in Passes /\ p2.pc = "fetch"
    BY <2>1 DEF Passes
  <2>4. pass' = p3
    BY <1>1 DEF p1
  <2> HIDE DEF p2
  <2>5. p3 \in Passes /\ p3.pc = "fetch" /\ p3.until = until
    BY <2>2, <2>3 DEF Passes
  <2> QED
    BY <2>4, <2>5
<1>4. WalkTyped'
  BY <1>1, <1>2, <1>3 DEF WalkInv, WalkTyped
<1>5. CASE bookmark = NoUntil
  BY <1>2, <1>3, <1>4, <1>5 DEF WalkInv, WalkSeesAll, InFront
<1>6. CASE bookmark # NoUntil
  BY <1>1, <1>2, <1>3, <1>4, <1>6 DEF WalkInv, WalkSeesAll, InFront, Owed
<1> QED
  BY <1>5, <1>6

\* A video that a walk owes is in reach of its next page.
LEMMA OwedInReach ==
  ASSUME WalkInv, pass.pc \in {"fetch", "treat"} PROVE Owed \subseteq InReach
  BY DEF WalkInv, WalkTyped, InFront, Owed, InReach

LEMMA TakePageInv ==
  ASSUME WalkInv, pass.pc = "fetch", NEW page \in SUBSET published, TakePage(page) PROVE WalkInv'
<1>1. Newest(page) /\ UNCHANGED <<published, treated, intended, leftOut>>
  BY DEF TakePage
<1>2. Owed' = Owed /\ Owed \subseteq InReach
  BY <1>1, OwedInReach DEF Owed
<1>3. CASE page = {}
  <2>1. pass' = [NoPass EXCEPT !.pc = "completed"] /\ bookmark' = NoUntil
    BY <1>3 DEF TakePage, End
  <2>2. pass' \in Passes /\ pass'.pc = "completed"
    BY <2>1, NoPassIs DEF Passes
  <2>3. InReach = {}
    BY <1>1, <1>3, FS_EmptySet DEF Newest
  <2>4. WalkTyped'
    BY <1>1, <2>1, <2>2 DEF WalkInv, WalkTyped, Untils
  <2> QED
    BY <1>2, <2>1, <2>2, <2>3, <2>4, WalkRests
<1>4. CASE page # {}
  <2>1. pass' = Turned(page) /\ bookmark' = bookmark
    BY <1>4 DEF TakePage
  <2>2. page \subseteq Clip /\ pass \in Passes
    BY DEF WalkInv, WalkTyped
  <2>3. /\ pass' \in Passes /\ pass'.pc = "treat" /\ pass'.until = pass.until
        /\ pass'.page = page /\ pass'.todo = page \ Shaless
    <3> DEFINE p1 == [pass EXCEPT !.pc = "treat"]
               p2 == [p1 EXCEPT !.page = page]
               p3 == [p2 EXCEPT !.todo = page \ Shaless]
    <3>1. p1 \in Passes /\ p1.pc = "treat" /\ p1.until = pass.until
      BY <2>2 DEF Passes
    <3>2. pass' = p3
      BY <2>1 DEF Turned
    <3> HIDE DEF p1
    <3>3. p2 \in Passes /\ p2.pc = "treat" /\ p2.until = pass.until /\ p2.page = page
      BY <2>2, <3>1 DEF Passes
    <3> HIDE DEF p2
    <3>4. /\ p3 \in Passes /\ p3.pc = "treat" /\ p3.until = pass.until /\ p3.page = page
          /\ p3.todo = page \ Shaless
      BY <2>2, <3>3 DEF Passes
    <3> QED
      BY <3>2, <3>4
  <2>4. WalkTyped'
    BY <1>1, <2>1, <2>3 DEF WalkInv, WalkTyped
  <2>5. PageCovers'
    <3> SUFFICES ASSUME NEW c \in Owed
                 PROVE  IF c \in page THEN c \in page \ Shaless ELSE Cardinality(page) = ClipsPerPage
      BY <1>2, <2>3 DEF PageCovers
    <3>1. c \in InReach /\ c \notin Shaless
      BY <1>2 DEF Owed, WalkInv, WalkTyped
    <3> QED
      BY <1>1, <3>1 DEF Newest
  <2> QED
    BY <1>2, <2>1, <2>3, <2>4, <2>5 DEF WalkInv, WalkSeesAll, InFront
<1> QED
  BY <1>3, <1>4

\* A step within a page: what leaves one set goes to the next, or is settled.
LEMMA PageStep ==
  ASSUME WalkInv, NEW p \in Passes, pass' = p, UNCHANGED <<published, bookmark, intended>>,
         p.pc = pass.pc, p.until = pass.until, p.page = pass.page,
         treated \subseteq treated', leftOut \subseteq leftOut',
         \A c \in Owed' : c \in pass.todo \cup pass.chunk \cup pass.needing =>
                            c \in p.todo \cup p.chunk \cup p.needing
  PROVE  WalkInv'
<1>1. Owed' \subseteq Owed
  BY DEF Owed
<1>2. WalkTyped'
  BY DEF WalkInv, WalkTyped
<1>3. pass.pc = "treat" => PageCovers'
  BY <1>1 DEF WalkInv, PageCovers
<1>4. WalkSeesAll'
  BY DEF WalkInv, WalkSeesAll
<1> QED
  BY <1>1, <1>2, <1>3, <1>4 DEF WalkInv, InFront

LEMMA NextChunkInv == ASSUME WalkInv, NEW chunk, NextChunk(chunk) PROVE WalkInv'
<1>1. PICK d \in Passes : d = pass
  BY DEF WalkInv, WalkTyped
<1>2. /\ chunk \subseteq d.todo
      /\ d.chunk = {} /\ pass' = [d EXCEPT !.todo = d.todo \ chunk, !.chunk = chunk]
      /\ UNCHANGED <<published, treated, bookmark, intended, leftOut>>
  BY <1>1 DEF NextChunk
<1> DEFINE p1 == [d EXCEPT !.todo = d.todo \ chunk]
           p == [p1 EXCEPT !.chunk = chunk]
<1>3. /\ p1 \in Passes /\ p1.pc = d.pc /\ p1.until = d.until /\ p1.page = d.page
      /\ p1.todo = d.todo \ chunk /\ p1.needing = d.needing
  BY DEF Passes
<1>4. pass' = p /\ chunk \subseteq Clip
  BY <1>2 DEF Passes
<1> HIDE DEF p1
<1>5. /\ p \in Passes /\ p.pc = d.pc /\ p.until = d.until /\ p.page = d.page
      /\ p.todo = d.todo \ chunk /\ p.needing = d.needing /\ p.chunk = chunk
  BY <1>3, <1>4 DEF Passes
<1> HIDE DEF p
<1> QED
  BY <1>1, <1>2, <1>4, <1>5, PageStep

LEMMA LookedInv == ASSUME WalkInv, NEW c, Looked(c) PROVE WalkInv'
<1>1. PICK d \in Passes : d = pass
  BY DEF WalkInv, WalkTyped
<1> DEFINE p == [d EXCEPT !.chunk = d.chunk \ {c}]
           q == [p EXCEPT !.needing = d.needing \cup {c}]
<1>2. /\ c \in d.chunk /\ UNCHANGED <<published, treated, bookmark, intended>>
      /\ \/ c \in treated /\ pass' = p /\ leftOut' = leftOut
         \/ pass' = q /\ leftOut' = leftOut
         \/ pass' = p /\ leftOut' = leftOut \cup {c}
  <2>1. p.needing = d.needing
    BY DEF Passes
  <2> QED
    BY <1>1, <2>1 DEF Looked
<1>3. /\ p \in Passes /\ p.pc = d.pc /\ p.until = d.until /\ p.page = d.page
      /\ p.todo = d.todo /\ p.needing = d.needing /\ p.chunk = d.chunk \ {c}
  BY DEF Passes
<1> HIDE DEF p
<1>4. /\ q \in Passes /\ q.pc = d.pc /\ q.until = d.until /\ q.page = d.page
      /\ q.todo = d.todo /\ q.needing = d.needing \cup {c} /\ q.chunk = d.chunk \ {c}
  BY <1>2, <1>3 DEF Passes
<1> HIDE DEF q
<1>5. CASE pass' = q /\ leftOut' = leftOut
  BY <1>1, <1>2, <1>4, <1>5, PageStep
<1>6. CASE pass' = p /\ (c \in treated \/ c \in leftOut') /\ leftOut \subseteq leftOut'
  <2>1. c \notin Owed'
    BY <1>2, <1>6 DEF Owed
  <2> QED
    BY <1>1, <1>2, <1>3, <1>6, <2>1, PageStep
<1> QED
  BY <1>2, <1>5, <1>6

LEMMA AskedInv == ASSUME WalkInv, NEW c, Asked(c) PROVE WalkInv'
<1>1. PICK d \in Passes : d = pass
  BY DEF WalkInv, WalkTyped
<1> DEFINE p == [d EXCEPT !.needing = d.needing \ {c}]
<1>2. /\ pass' = p /\ UNCHANGED <<published, bookmark, intended>>
      /\ treated \subseteq treated' /\ leftOut \subseteq leftOut' /\ c \in treated' \cup leftOut'
  BY <1>1 DEF Asked
<1>3. /\ p \in Passes /\ p.pc = d.pc /\ p.until = d.until /\ p.page = d.page
      /\ p.todo = d.todo /\ p.needing = d.needing \ {c} /\ p.chunk = d.chunk
  BY DEF Passes
<1> HIDE DEF p
<1>4. c \notin Owed'
  BY <1>2 DEF Owed
<1> QED
  BY <1>1, <1>2, <1>3, <1>4, PageStep

LEMMA PageDoneInv == ASSUME WalkInv, PageDone PROVE WalkInv'
<1>1. PICK d \in Passes : d = pass
  BY DEF WalkInv, WalkTyped
<1>2. /\ d.pc = "treat" /\ d.todo = {} /\ d.chunk = {} /\ d.needing = {}
      /\ UNCHANGED <<published, treated, intended>>
  BY <1>1 DEF PageDone
<1>3. Owed \subseteq InReach /\ \A c \in Owed : c \notin d.page /\ Cardinality(d.page) = ClipsPerPage
  BY <1>1, <1>2, OwedInReach DEF WalkInv, PageCovers
<1>4. ASSUME NEW how \in {"completed", "limited"}, End(how), leftOut \subseteq leftOut',
             how = "completed" => Cardinality(d.page) < ClipsPerPage
      PROVE  WalkInv'
  <2>1. pass' \in Passes /\ pass'.pc = how /\ bookmark' = NoUntil
    BY <1>4, NoPassIs DEF End, Passes
  <2>2. WalkTyped'
    BY <1>2, <2>1 DEF WalkInv, WalkTyped, Untils
  <2>3. Owed' \subseteq Owed
    BY <1>2, <1>4 DEF Owed
  <2>4. how = "completed" => Owed = {}
    <3> SUFFICES ASSUME how = "completed", NEW c \in Owed PROVE FALSE
      OBVIOUS
    <3>1. Cardinality(d.page) = ClipsPerPage /\ Cardinality(d.page) < ClipsPerPage
      BY <1>3, <1>4
    <3> QED
      BY <3>1
  <2> QED
    BY <2>1, <2>2, <2>3, <2>4, WalkRests
<1>5. CASE End("limited") /\ UNCHANGED leftOut
  BY <1>4, <1>5
<1>6. CASE leftOut' = leftOut \cup SameSecond(d.page) /\ End("completed")
           /\ Cardinality(d.page) < ClipsPerPage
  BY <1>4, <1>6
<1>7. CASE /\ leftOut' = leftOut \cup SameSecond(d.page)
           /\ pass' = [NoPass EXCEPT !.pc = "fetch", !.real = d.real, !.until = NextUntil(d.page)]
           /\ bookmark' = IF d.page \subseteq Shaless THEN bookmark ELSE NextUntil(d.page)
  <2>1. PICK next : next = NextUntil(d.page)
    OBVIOUS
  <2>2. next \in Untils
    BY <1>1, <2>1, NextUntilIs DEF WalkInv, WalkTyped, Passes
  <2>3. pass' \in Passes /\ pass'.pc = "fetch" /\ pass'.until = next
    <3> DEFINE p1 == [NoPass EXCEPT !.pc = "fetch"]
               p2 == [p1 EXCEPT !.real = d.real]
               p3 == [p2 EXCEPT !.until = next]
    <3>1. p1 \in Passes /\ p1.pc = "fetch"
      BY NoPassIs DEF Passes
    <3>2. pass' = p3
      BY <1>7, <2>1
    <3> HIDE DEF p1
    <3>3. p2 \in Passes /\ p2.pc = "fetch"
      BY <3>1 DEF Passes
    <3> HIDE DEF p2
    <3>4. p3 \in Passes /\ p3.pc = "fetch" /\ p3.until = next
      BY <2>2, <3>3 DEF Passes
    <3> QED
      BY <3>2, <3>4
  <2>4. bookmark' \in Untils
    BY <1>7, <2>1, <2>2 DEF WalkInv, WalkTyped
  <2>5. WalkTyped'
    BY <1>2, <2>3, <2>4 DEF WalkInv, WalkTyped
  <2>6. Owed' \subseteq Owed
    BY <1>2, <1>7 DEF Owed
  <2>7. InFront(next)'
    <3> SUFFICES ASSUME next # NoUntil, NEW c \in Owed' PROVE ClipTime[c] <= next
      BY DEF InFront
    <3>1. c \in Owed /\ c \in InReach /\ c \notin d.page /\ c \notin SameSecond(d.page)
      BY <1>2, <1>3, <1>7, <2>6 DEF Owed
    <3>2. CASE d.page \subseteq Shaless
      <4>1. next = pass.until
        BY <2>1, <3>2 DEF NextUntil
      <4> QED
        BY <1>1, <1>2, <3>1, <4>1 DEF WalkInv, InFront
    <3>3. CASE ~(d.page \subseteq Shaless)
      <4>1. ~(ClipTime[c] > next)
        BY <2>1, <3>1, <3>3 DEF SameSecond
      <4>2. ClipTime[c] \in Nat /\ next \in Int
        BY <2>2, <3>1 DEF InReach, WalkInv, WalkTyped, Untils
      <4> QED
        BY <4>1, <4>2
    <3> QED
      BY <3>2, <3>3
  <2>8. InFront(bookmark)'
    <3>1. CASE d.page \subseteq Shaless
      BY <1>7, <2>6, <3>1 DEF WalkInv, InFront
    <3>2. CASE ~(d.page \subseteq Shaless)
      BY <1>7, <2>1, <2>7, <3>2 DEF InFront
    <3> QED
      BY <3>1, <3>2
  <2>9. InFront(pass.until)'
    BY <2>3, <2>7 DEF InFront
  <2> QED
    BY <2>3, <2>5, <2>8, <2>9 DEF WalkInv, WalkSeesAll
<1> QED
  BY <1>1, <1>5, <1>6, <1>7 DEF PageDone

LEMMA WalkNextInv == WalkInv /\ [RelayWalkNext]_walkVars => WalkInv'
<1> SUFFICES ASSUME WalkInv, [RelayWalkNext]_walkVars PROVE WalkInv'
  OBVIOUS
<1>1. CASE UNCHANGED walkVars
  BY <1>1 DEF walkVars, WalkInv, WalkTyped, WalkSeesAll, InFront, Owed, PageCovers
<1>2. ASSUME NEW c \in Clip, Publish(c) \/ Treat(c) PROVE WalkInv'
  <2>1. /\ UNCHANGED <<bookmark, pass, intended, leftOut>> /\ published \subseteq published'
        /\ published' \subseteq Clip /\ treated \subseteq treated'
    BY <1>2 DEF Publish, Treat, WalkInv, WalkTyped
  <2>2. Owed' \subseteq Owed
    BY <2>1 DEF Owed
  <2> QED
    BY <2>1, <2>2 DEF WalkInv, WalkTyped, WalkSeesAll, InFront, PageCovers
<1>3. ASSUME NEW c \in Clip, \/ CheckModerated(c) \/ QueueModeration(c)
                             \/ CheckClassified(c) \/ ClassifyVideo(c)
      PROVE  WalkInv'
  BY <1>3, LookedInv, AskedInv DEF CheckModerated, QueueModeration, CheckClassified, ClassifyVideo
<1>4. CASE StartModeration \/ StartClassification
  BY <1>4, BegunInv DEF StartModeration, StartClassification
<1>5. CASE FetchVideos \/ FetchUnique
  BY <1>5, TakePageInv DEF FetchVideos, FetchUnique
<1>6. CASE NextVideo \/ NextVideos
  BY <1>6, NextChunkInv DEF NextVideo, NextVideos
<1>7. CASE TurnVideos \/ TurnUnique
  BY <1>7, PageDoneInv DEF TurnVideos, TurnUnique
<1>8. CASE StopWalk
  <2>1. pass' = NoPass /\ UNCHANGED <<published, treated, bookmark, intended, leftOut>>
    BY <1>8 DEF StopWalk
  <2>2. WalkTyped' /\ Owed' = Owed
    BY <2>1, NoPassIs DEF WalkInv, WalkTyped, Owed
  <2> QED
    BY <2>1, <2>2, NoPassIs, WalkRests
<1> QED
  BY <1>1, <1>2, <1>3, <1>4, <1>5, <1>6, <1>7, <1>8 DEF RelayWalkNext

\* What the cursors of a walk are worth: no video that it owes is above the
\* checkpoint or the cursor of the next page, and a page in hand has all of them
\* or is full (backfill-moderation.mjs 222-341).
THEOREM WalkInvariant == RelayWalkSpec => []WalkInv
  BY WalkInitInv, WalkNextInv, PTL DEF RelayWalkSpec

\* A walk that came to its end has seen to every video it owed, for any relay,
\* size of a page and number of runs that died (backfill-moderation.mjs 222-341,
\* backfill-classification.mjs 204-310).
THEOREM WalkSeesAllHolds == RelayWalkSpec => []WalkSeesAll
<1>1. WalkInv => WalkSeesAll
  BY DEF WalkInv
<1> QED
  BY <1>1, WalkInvariant, PTL

HIDE RelayWalkAssumption

-----------------------------------------------------------------------------
(* DeleteProbe.  What the probe knows of a scenario agrees with what is    *)
(* left of it as far as its removal has come, and the end of the script    *)
(* waits for the removals that it answers for.                             *)

USE DeleteProbeAssumption

Agendas == {<<>>, <<"sync">>, <<"cron">>, <<"sync", "cron">>}
ToBegin(q) == {q[i] : i \in DOMAIN q}

ScenarioSteps ==
  {"upload", "publish video", "wait for indexing", "publish deletion", "call sync",
   "poll status", "assert"}

Artifacts ==
  [target : BOOLEAN, kind5 : BOOLEAN, outcome : {"none", "pass", "fail"},
   cleaning : {"none", "blossom", "d1", "done"}, blossom : {"none", "ok", "failed"},
   d1 : {"none", "ok", "failed", "skipped"}]

Left == [blob : {"none", "stored", "gone"}, upload : BOOLEAN, kind5 : BOOLEAN,
         row : {"none", "accepted", "failed", "success"}]

ProbeTyped ==
  /\ probe \in [pc : ScenarioSteps \cup {"start", "next", "clean", "ended", "killed"},
                todo : Agendas, skipCleanup : BOOLEAN, aborted : BOOLEAN,
                exit : {-1, 0, 1, 2, 3, 130}]
  /\ artifacts \in [Scenarios -> Artifacts] /\ remote \in [Scenarios -> Left]

\* What is left of a scenario after each part of its removal.
RemovedSoFar(s, a, r, late, deaf) ==
  /\ a.cleaning \in {"d1", "done"} /\ r.blob = "stored"
       => a.blossom = "failed" \/ <<s, "blob">> \in late
  /\ a.cleaning = "done" /\ r.row # "none"
       => a.d1 = "failed" \/ <<s, "row">> \in late \/ ~a.kind5 \/ s \in deaf

\* What the script p makes of the scenarios, of which it knows a.
InOrder(p, a) ==
  /\ p.pc \in ScenarioSteps \cup {"clean"} => p.todo # <<>>
  /\ p.pc \in {"start", "next"} => ~p.aborted
  /\ \A s \in ToBegin(IF p.pc \in {"start", "next"} \/ p.todo = <<>> THEN p.todo ELSE Tail(p.todo)) :
       a[s] = Fresh
  /\ p.pc = "start" => \A s \in Scenarios : a[s] = Fresh
  /\ p.pc \in ScenarioSteps =>
       /\ a[Head(p.todo)].outcome = "none"
       /\ ~p.aborted => a[Head(p.todo)].cleaning = "none"
  /\ p.pc \in {"wait for indexing", "publish deletion", "call sync", "poll status", "assert"}
       => a[Head(p.todo)].target
  /\ \A s \in Scenarios :
       /\ a[s].kind5 => a[s].target
       /\ a[s].outcome # "none" =>
            a[s].cleaning = "done" \/ (p.todo # <<>> /\ s = Head(p.todo) /\ p.pc # "next")

\* What the end of the script says.
Concluded(p, a) ==
  p.pc = "ended" =>
    /\ p.exit # -1
    /\ p.aborted => /\ p.exit # 0 /\ p.todo # <<>> /\ a[Head(p.todo)].cleaning = "done"
                    /\ CleanupFailed(a[Head(p.todo)]) => p.exit \in {1, 3}
    /\ ~p.aborted => \A s \in Scenarios :
         a[s].outcome # "none" =>
           /\ a[s].cleaning = "done" /\ (CleanupFailed(a[s]) => p.exit \in {1, 3})
           /\ p.exit = 0 => a[s].outcome = "pass"

Removals ==
  ~probe.skipCleanup =>
    \A s \in Scenarios : RemovedSoFar(s, artifacts[s], remote[s], afterwards, unheard)

ProbeInv ==
  ProbeTyped /\ InOrder(probe, artifacts) /\ Concluded(probe, artifacts) /\ Removals

LEMMA AgendaRule ==
  /\ \A q \in Agendas : ToBegin(q) \subseteq Scenarios
  /\ ToBegin(<<>>) = {} /\ <<>> \in Agendas
  /\ \A q \in Agendas \ {<<>>} :
       /\ Head(q) \in Scenarios /\ Tail(q) \in Agendas
       /\ ToBegin(Tail(q)) \subseteq Scenarios \ {Head(q)}
       /\ ToBegin(q) = {Head(q)} \cup ToBegin(Tail(q))
<1>1. Tail(<<"sync">>) = <<>> /\ Tail(<<"cron">>) = <<>> /\ Tail(<<"sync", "cron">>) = <<"cron">>
  OBVIOUS
<1>2. /\ ToBegin(<<>>) = {} /\ ToBegin(<<"sync">>) = {"sync"} /\ ToBegin(<<"cron">>) = {"cron"}
      /\ ToBegin(<<"sync", "cron">>) = {"sync", "cron"}
  BY DEF ToBegin
<1>3. /\ Head(<<"sync">>) = "sync" /\ Head(<<"cron">>) = "cron"
      /\ Head(<<"sync", "cron">>) = "sync"
  OBVIOUS
<1> QED
  BY <1>1, <1>2, <1>3 DEF Agendas, Scenarios

LEMMA FreshType == Fresh \in Artifacts
  BY DEF Fresh, Artifacts

\* A scenario that has not begun has nothing that a removal or an outcome
\* would show.
LEMMA FreshSays ==
  /\ ~Fresh.target /\ ~Fresh.kind5 /\ Fresh.outcome = "none" /\ Fresh.cleaning = "none"
  BY DEF Fresh

\* The scenario under way goes on, or ends; its removal is left as it is.
LEMMA WorkKeeps ==
  ASSUME ProbeInv, probe.pc \in ScenarioSteps,
         NEW x \in ScenarioSteps \cup {"clean"}, probe' = [probe EXCEPT !.pc = x],
         NEW b \in Artifacts, artifacts' = [artifacts EXCEPT ![Active] = b],
         b.cleaning = artifacts[Active].cleaning, b.blossom = artifacts[Active].blossom,
         b.d1 = artifacts[Active].d1,
         b.kind5 => b.target,
         b.kind5 = artifacts[Active].kind5 \/ artifacts[Active].cleaning = "none",
         x \in ScenarioSteps => b.outcome = "none",
         x \in {"wait for indexing", "publish deletion", "call sync", "poll status", "assert"}
           => b.target,
         remote' \in [Scenarios -> Left],
         \A s \in Scenarios : remote'[s].blob = remote[s].blob /\ remote'[s].row = remote[s].row,
         UNCHANGED <<afterwards, unheard>>
  PROVE  ProbeInv'
<1>1. /\ probe.todo \in Agendas \ {<<>>} /\ Active \in Scenarios
      /\ probe'.pc = x /\ probe'.todo = probe.todo /\ probe'.skipCleanup = probe.skipCleanup
      /\ probe'.aborted = probe.aborted /\ probe'.exit = probe.exit
      /\ probe.pc \notin {"start", "next", "ended"}
      /\ x \notin {"start", "next", "ended"}
  BY AgendaRule DEF ProbeInv, ProbeTyped, InOrder, Active, ScenarioSteps
<1>2. /\ artifacts \in [Scenarios -> Artifacts] /\ artifacts' \in [Scenarios -> Artifacts]
      /\ artifacts'[Active] = b
      /\ \A s \in Scenarios \ {Active} : artifacts'[s] = artifacts[s]
  BY <1>1 DEF ProbeInv, ProbeTyped
<1>3. ProbeTyped'
  BY <1>1, <1>2 DEF ProbeInv, ProbeTyped
<1>4. InOrder(probe', artifacts')
  <2>1. \A s \in ToBegin(Tail(probe.todo)) : artifacts'[s] = Fresh
    <3>1. ToBegin(Tail(probe.todo)) \subseteq Scenarios \ {Active}
      BY <1>1, AgendaRule DEF Active
    <3>2. \A s \in ToBegin(Tail(probe.todo)) : artifacts[s] = Fresh
      BY <1>1 DEF ProbeInv, InOrder
    <3> QED
      BY <1>2, <3>1, <3>2
  <2>2. \A s \in Scenarios :
          /\ artifacts'[s].kind5 => artifacts'[s].target
          /\ artifacts'[s].outcome # "none" => artifacts'[s].cleaning = "done" \/ s = Head(probe.todo)
    BY <1>1, <1>2 DEF ProbeInv, InOrder, Active
  <2>3. x \in ScenarioSteps =>
          /\ artifacts'[Head(probe.todo)].outcome = "none"
          /\ ~probe.aborted => artifacts'[Head(probe.todo)].cleaning = "none"
    BY <1>1, <1>2 DEF ProbeInv, InOrder, Active
  <2> QED
    BY <1>1, <1>2, <2>1, <2>2, <2>3, ZenonT(60) DEF InOrder, Active
<1>5. Concluded(probe', artifacts')
  BY <1>1 DEF Concluded
<1>6. Removals'
  <2> SUFFICES ASSUME ~probe.skipCleanup, NEW s \in Scenarios
               PROVE  RemovedSoFar(s, artifacts'[s], remote'[s], afterwards, unheard)
    BY <1>1 DEF Removals
  <2>1. RemovedSoFar(s, artifacts[s], remote[s], afterwards, unheard)
    BY DEF ProbeInv, Removals
  <2> QED
    BY <1>1, <1>2, <2>1, ZenonT(60) DEF RemovedSoFar
<1> QED
  BY <1>3, <1>4, <1>5, <1>6 DEF ProbeInv

\* What the actions of a scenario start from.
LEMMA Working ==
  ASSUME ProbeInv, probe.pc \in ScenarioSteps
  PROVE  /\ Active \in Scenarios /\ artifacts[Active] \in Artifacts
         /\ artifacts \in [Scenarios -> Artifacts] /\ remote \in [Scenarios -> Left]
         /\ artifacts[Active].outcome = "none"
         /\ ~probe.aborted => artifacts[Active].cleaning = "none"
         /\ artifacts[Active].kind5 => artifacts[Active].target
         /\ probe.pc \in {"wait for indexing", "publish deletion", "call sync", "poll status",
                          "assert"} => artifacts[Active].target
  BY AgendaRule DEF ProbeInv, ProbeTyped, InOrder, Active

LEMMA GoesOn ==
  ASSUME ProbeInv, probe.pc \in ScenarioSteps, NEW x \in ScenarioSteps, Then(x),
         artifacts' = artifacts,
         x \in {"wait for indexing", "publish deletion", "call sync", "poll status", "assert"}
           => artifacts[Active].target,
         UNCHANGED <<remote, afterwards, unheard>>
  PROVE  ProbeInv'
<1> DEFINE b == artifacts[Active]
<1>1. artifacts' = [artifacts EXCEPT ![Active] = b] /\ b \in Artifacts
  BY Working
<1>2. probe' = [probe EXCEPT !.pc = x] /\ x \in ScenarioSteps \cup {"clean"}
  BY DEF Then
<1>3. /\ b.kind5 => b.target
      /\ b.outcome = "none" /\ remote' \in [Scenarios -> Left]
  BY Working
<1>4. \A s \in Scenarios : remote'[s].blob = remote[s].blob /\ remote'[s].row = remote[s].row
  OBVIOUS
<1> QED
  BY <1>1, <1>2, <1>3, <1>4, WorkKeeps

\* An error ends the scenario, whatever the relay has stored of it.
LEMMA ThrowKeeps ==
  ASSUME ProbeInv, probe.pc \in ScenarioSteps, Throw, remote' \in [Scenarios -> Left],
         \A s \in Scenarios : remote'[s].blob = remote[s].blob /\ remote'[s].row = remote[s].row,
         UNCHANGED <<afterwards, unheard>>
  PROVE  ProbeInv'
<1> DEFINE b == [artifacts[Active] EXCEPT !.outcome = "fail"]
<1>1. Active \in Scenarios /\ artifacts[Active] \in Artifacts
      /\ artifacts \in [Scenarios -> Artifacts]
  BY Working
<1>2. artifacts' = [artifacts EXCEPT ![Active] = b]
  BY <1>1 DEF Throw
<1>3. /\ b \in Artifacts /\ b.cleaning = artifacts[Active].cleaning
      /\ b.blossom = artifacts[Active].blossom /\ b.d1 = artifacts[Active].d1
      /\ b.kind5 = artifacts[Active].kind5 /\ b.target = artifacts[Active].target
  BY <1>1 DEF Artifacts
<1>4. b.kind5 => b.target
  BY <1>3, Working
<1>5. "clean" \in ScenarioSteps \cup {"clean"} /\ "clean" \notin ScenarioSteps
      /\ probe' = [probe EXCEPT !.pc = "clean"]
  BY DEF Throw, ScenarioSteps
<1> QED
  BY <1>2, <1>3, <1>4, <1>5, WorkKeeps

LEMMA ThrowAlone ==
  ASSUME ProbeInv, probe.pc \in ScenarioSteps, Throw, UNCHANGED <<remote, afterwards, unheard>>
  PROVE  ProbeInv'
<1>1. remote' \in [Scenarios -> Left]
  BY Working
<1>2. \A s \in Scenarios : remote'[s].blob = remote[s].blob /\ remote'[s].row = remote[s].row
  OBVIOUS
<1> QED
  BY <1>1, <1>2, ThrowKeeps

LEMMA UploadKeeps ==
  ASSUME ProbeInv, UploadToBlossom
  PROVE  ProbeInv'
<1>1. probe.pc \in ScenarioSteps /\ "publish video" \in ScenarioSteps
      /\ UNCHANGED <<remote, afterwards, unheard>>
  BY DEF UploadToBlossom, Doing, ScenarioSteps
<1>2. CASE Then("publish video") /\ artifacts' = artifacts
  BY <1>1, <1>2, GoesOn
<1>3. CASE Throw
  BY <1>1, <1>3, ThrowAlone
<1> QED
  BY <1>2, <1>3 DEF UploadToBlossom

LEMMA PublishVideoKeeps ==
  ASSUME ProbeInv, PublishVideo
  PROVE  ProbeInv'
<1>1. probe.pc \in ScenarioSteps /\ "wait for indexing" \in ScenarioSteps
      /\ UNCHANGED <<remote, afterwards, unheard>>
  BY DEF PublishVideo, Doing, ScenarioSteps
<1>2. CASE Then("wait for indexing") /\ artifacts' = [artifacts EXCEPT ![Active].target = TRUE]
  <2> DEFINE b == [artifacts[Active] EXCEPT !.target = TRUE]
  <2>1. Active \in Scenarios /\ artifacts[Active] \in Artifacts
        /\ artifacts \in [Scenarios -> Artifacts] /\ remote \in [Scenarios -> Left]
        /\ artifacts[Active].outcome = "none"
    BY <1>1, Working
  <2>2. artifacts' = [artifacts EXCEPT ![Active] = b]
    BY <1>2, <2>1
  <2>3. /\ b \in Artifacts /\ b.cleaning = artifacts[Active].cleaning
        /\ b.blossom = artifacts[Active].blossom /\ b.d1 = artifacts[Active].d1
        /\ b.kind5 = artifacts[Active].kind5 /\ b.target
        /\ b.outcome = artifacts[Active].outcome
    BY <2>1 DEF Artifacts
  <2>4. remote' \in [Scenarios -> Left]
        /\ \A s \in Scenarios : remote'[s].blob = remote[s].blob /\ remote'[s].row = remote[s].row
    BY <1>1, <2>1
  <2>5. probe' = [probe EXCEPT !.pc = "wait for indexing"]
    BY <1>2 DEF Then
  <2> QED
    BY <1>1, <2>1, <2>2, <2>3, <2>4, <2>5, WorkKeeps
<1>3. CASE Throw
  BY <1>1, <1>3, ThrowAlone
<1> QED
  BY <1>2, <1>3 DEF PublishVideo

LEMMA WaitForIndexingKeeps ==
  ASSUME ProbeInv, WaitForIndexing
  PROVE  ProbeInv'
<1>1. probe.pc = "wait for indexing" /\ {"wait for indexing", "publish deletion"} \subseteq ScenarioSteps
      /\ UNCHANGED <<remote, afterwards, unheard>>
  BY DEF WaitForIndexing, Doing, ScenarioSteps
<1>2. CASE Then("publish deletion") /\ artifacts' = artifacts
  BY <1>1, <1>2, GoesOn, Working
<1>3. CASE Throw
  BY <1>1, <1>3, ThrowAlone
<1> QED
  BY <1>2, <1>3 DEF WaitForIndexing

LEMMA PublishDeletionKeeps ==
  ASSUME ProbeInv, PublishDeletion
  PROVE  ProbeInv'
<1>1. probe.pc = "publish deletion" /\ {"publish deletion", "call sync", "poll status"} \subseteq ScenarioSteps
      /\ UNCHANGED <<afterwards, unheard>>
  BY DEF PublishDeletion, Doing, ScenarioSteps
<1>2. Active \in Scenarios /\ artifacts[Active] \in Artifacts
      /\ artifacts \in [Scenarios -> Artifacts] /\ remote \in [Scenarios -> Left]
      /\ artifacts[Active].outcome = "none" /\ artifacts[Active].target
      /\ (~probe.aborted => artifacts[Active].cleaning = "none")
  BY <1>1, Working
<1>3. remote' \in [Scenarios -> Left]
      /\ \A s \in Scenarios : remote'[s].blob = remote[s].blob /\ remote'[s].row = remote[s].row
  <2>1. PICK stored \in BOOLEAN : remote' = [remote EXCEPT ![Active].kind5 = stored]
    BY DEF PublishDeletion
  <2> QED
    BY <1>2, <2>1 DEF Left
<1>4. PICK x \in {"call sync", "poll status"} :
        \/ ~probe.aborted /\ Then(x) /\ artifacts' = [artifacts EXCEPT ![Active].kind5 = TRUE]
        \/ Throw
  BY DEF PublishDeletion
<1>5. CASE ~probe.aborted /\ Then(x) /\ artifacts' = [artifacts EXCEPT ![Active].kind5 = TRUE]
  <2> DEFINE b == [artifacts[Active] EXCEPT !.kind5 = TRUE]
  <2>1. artifacts' = [artifacts EXCEPT ![Active] = b]
    BY <1>2, <1>5
  <2>2. /\ b \in Artifacts /\ b.cleaning = artifacts[Active].cleaning
        /\ b.blossom = artifacts[Active].blossom /\ b.d1 = artifacts[Active].d1
        /\ b.target = artifacts[Active].target /\ b.outcome = artifacts[Active].outcome
    BY <1>2 DEF Artifacts
  <2>3. probe' = [probe EXCEPT !.pc = x]
    BY <1>5 DEF Then
  <2> QED
    BY <1>1, <1>2, <1>3, <1>5, <2>1, <2>2, <2>3, WorkKeeps
<1>6. CASE Throw
  BY <1>1, <1>3, <1>6, ThrowKeeps
<1> QED
  BY <1>4, <1>5, <1>6

LEMMA CallSyncKeeps ==
  ASSUME ProbeInv, CallSyncEndpoint
  PROVE  ProbeInv'
<1>1. probe.pc = "call sync" /\ {"call sync", "poll status"} \subseteq ScenarioSteps
      /\ UNCHANGED <<remote, afterwards, unheard>>
  BY DEF CallSyncEndpoint, Doing, ScenarioSteps
<1>2. CASE Then("poll status") /\ artifacts' = artifacts
  BY <1>1, <1>2, GoesOn, Working
<1>3. CASE Throw
  BY <1>1, <1>3, ThrowAlone
<1> QED
  BY <1>2, <1>3 DEF CallSyncEndpoint

LEMMA PollStatusKeeps ==
  ASSUME ProbeInv, PollStatus
  PROVE  ProbeInv'
<1>1. probe.pc = "poll status" /\ {"poll status", "assert"} \subseteq ScenarioSteps
      /\ UNCHANGED <<remote, afterwards, unheard>>
  BY DEF PollStatus, Doing, ScenarioSteps
<1>2. CASE Then("assert") /\ artifacts' = artifacts
  BY <1>1, <1>2, GoesOn, Working
<1>3. CASE Throw
  BY <1>1, <1>3, ThrowAlone
<1> QED
  BY <1>2, <1>3 DEF PollStatus

LEMMA AssertKeeps ==
  ASSUME ProbeInv, AssertD1AndBlossom
  PROVE  ProbeInv'
<1>1. probe.pc = "assert" /\ "assert" \in ScenarioSteps /\ "clean" \notin ScenarioSteps
      /\ UNCHANGED <<remote, afterwards, unheard>>
  BY DEF AssertD1AndBlossom, Doing, ScenarioSteps
<1>2. CASE Then("clean") /\ artifacts' = [artifacts EXCEPT ![Active].outcome = "pass"]
  <2> DEFINE b == [artifacts[Active] EXCEPT !.outcome = "pass"]
  <2>1. Active \in Scenarios /\ artifacts[Active] \in Artifacts
        /\ artifacts \in [Scenarios -> Artifacts] /\ remote \in [Scenarios -> Left]
        /\ artifacts[Active].target
    BY <1>1, Working
  <2>2. artifacts' = [artifacts EXCEPT ![Active] = b]
    BY <1>2, <2>1
  <2>3. /\ b \in Artifacts /\ b.cleaning = artifacts[Active].cleaning
        /\ b.blossom = artifacts[Active].blossom /\ b.d1 = artifacts[Active].d1
        /\ b.kind5 = artifacts[Active].kind5 /\ b.target = artifacts[Active].target
    BY <2>1 DEF Artifacts
  <2>4. remote' \in [Scenarios -> Left]
        /\ \A s \in Scenarios : remote'[s].blob = remote[s].blob /\ remote'[s].row = remote[s].row
    BY <1>1, <2>1
  <2>5. probe' = [probe EXCEPT !.pc = "clean"] /\ "clean" \in ScenarioSteps \cup {"clean"}
    BY <1>2 DEF Then
  <2> QED
    BY <1>1, <2>1, <2>2, <2>3, <2>4, <2>5, WorkKeeps
<1>3. CASE Throw
  BY <1>1, <1>3, ThrowAlone
<1> QED
  BY <1>2, <1>3 DEF AssertD1AndBlossom

-----------------------------------------------------------------------------
(* What happens beside the script.                                         *)

LEMMA RemoteKeeps ==
  ASSUME ProbeInv, UNCHANGED <<probe, artifacts, unheard>>, remote' \in [Scenarios -> Left],
         \A s \in Scenarios :
           /\ remote'[s].blob = "stored" =>
                \/ remote[s].blob = "stored" \/ <<s, "blob">> \in afterwards'
                \/ artifacts[s].cleaning \notin {"d1", "done"}
           /\ remote'[s].row # "none" =>
                \/ remote[s].row # "none" \/ <<s, "row">> \in afterwards'
                \/ artifacts[s].cleaning # "done",
         afterwards \subseteq afterwards'
  PROVE  ProbeInv'
<1>1. ProbeTyped' /\ InOrder(probe', artifacts') /\ Concluded(probe', artifacts')
  BY DEF ProbeInv, ProbeTyped
<1>2. Removals'
  <2> SUFFICES ASSUME ~probe.skipCleanup, NEW s \in Scenarios
               PROVE  RemovedSoFar(s, artifacts[s], remote'[s], afterwards', unheard)
    BY DEF Removals
  <2>1. RemovedSoFar(s, artifacts[s], remote[s], afterwards, unheard)
    BY DEF ProbeInv, Removals
  <2> QED
    BY <2>1 DEF RemovedSoFar
<1> QED
  BY <1>1, <1>2 DEF ProbeInv

LEMMA ProbeTypes ==
  ProbeInv => /\ artifacts \in [Scenarios -> Artifacts] /\ remote \in [Scenarios -> Left]
              /\ probe.todo \in Agendas
              /\ \A s \in Scenarios : artifacts[s] \in Artifacts /\ remote[s] \in Left
  BY DEF ProbeInv, ProbeTyped

LEMMA StoreBlobKeeps ==
  ASSUME ProbeInv, NEW s \in Scenarios, StoreBlob(s)
  PROVE  ProbeInv'
<1>1. remote' \in [Scenarios -> Left]
  BY ProbeTypes, ZenonT(60) DEF StoreBlob, Left
<1>2. \A t \in Scenarios \ {s} : remote'[t] = remote[t]
  BY ProbeTypes DEF StoreBlob
<1>3. remote'[s].row = remote[s].row
  BY ProbeTypes DEF StoreBlob, Left
<1>4. /\ artifacts[s].cleaning \in {"d1", "done"} => <<s, "blob">> \in afterwards'
      /\ afterwards \subseteq afterwards'
  BY DEF StoreBlob, Later
<1>5. UNCHANGED <<probe, artifacts, unheard>>
  BY DEF StoreBlob
<1> QED
  BY <1>1, <1>2, <1>3, <1>4, <1>5, RemoteKeeps

LEMMA TakeUpKeeps ==
  ASSUME ProbeInv, NEW s \in Scenarios, TakeUp(s)
  PROVE  ProbeInv'
<1>1. remote' \in [Scenarios -> Left]
  BY ProbeTypes DEF TakeUp, Left
<1>2. \A t \in Scenarios \ {s} : remote'[t] = remote[t]
  BY ProbeTypes DEF TakeUp
<1>3. remote'[s].blob = remote[s].blob
  BY ProbeTypes DEF TakeUp, Left
<1>4. /\ artifacts[s].cleaning = "done" => <<s, "row">> \in afterwards'
      /\ afterwards \subseteq afterwards'
  BY DEF TakeUp, Later
<1>5. UNCHANGED <<probe, artifacts, unheard>>
  BY DEF TakeUp
<1> QED
  BY <1>1, <1>2, <1>3, <1>4, <1>5, RemoteKeeps

LEMMA FinishRowKeeps ==
  ASSUME ProbeInv, NEW s \in Scenarios, FinishRow(s)
  PROVE  ProbeInv'
<1>1. PICK r \in {"failed", "success"}, b \in {remote[s].blob, "gone"} :
        remote' = [remote EXCEPT ![s].row = r, ![s].blob = b]
  BY DEF FinishRow
<1>2. remote' \in [Scenarios -> Left]
  BY <1>1, ProbeTypes, ZenonT(60) DEF Left
<1>3. \A t \in Scenarios \ {s} : remote'[t] = remote[t]
  BY <1>1, ProbeTypes
<1>4. remote'[s].blob = b
  BY <1>1, ProbeTypes DEF Left
<1>5. remote[s].row # "none" /\ UNCHANGED <<probe, artifacts, unheard, afterwards>>
  BY DEF FinishRow
<1> QED
  BY <1>1, <1>2, <1>3, <1>4, <1>5, RemoteKeeps

\* A removal goes on: nothing else of the scenario changes.
LEMMA RemovalKeeps ==
  ASSUME ProbeInv, NEW s \in Scenarios, NEW b \in Artifacts, probe.pc # "ended",
         artifacts' = [artifacts EXCEPT ![s] = b], probe' = probe,
         artifacts[s].cleaning \notin {"none", "done"}
           \/ (probe.pc = "clean" /\ s = Active /\ artifacts[s].cleaning = "none"),
         b.cleaning # "none",
         b.outcome = artifacts[s].outcome, b.target = artifacts[s].target,
         b.kind5 = artifacts[s].kind5, remote' \in [Scenarios -> Left],
         \A t \in Scenarios \ {s} : remote'[t] = remote[t],
         afterwards' = afterwards, unheard \subseteq unheard',
         ~probe.skipCleanup => RemovedSoFar(s, b, remote'[s], afterwards, unheard')
  PROVE  ProbeInv'
<1>1. artifacts \in [Scenarios -> Artifacts] /\ artifacts' \in [Scenarios -> Artifacts]
      /\ artifacts'[s] = b /\ \A t \in Scenarios \ {s} : artifacts'[t] = artifacts[t]
  BY ProbeTypes
<1>2. ProbeTyped'
  BY <1>1 DEF ProbeInv, ProbeTyped
<1>3. InOrder(probe, artifacts')
  <2> DEFINE coming == ToBegin(IF probe.pc \in {"start", "next"} \/ probe.todo = <<>>
                               THEN probe.todo ELSE Tail(probe.todo))
  <2>1. InOrder(probe, artifacts)
    BY DEF ProbeInv
  <2>2. s \notin coming /\ coming \subseteq Scenarios
    <3>1. coming \subseteq Scenarios
      BY AgendaRule, ProbeTypes
    <3>2. CASE probe.pc = "clean" /\ s = Active
      <4>1. probe.todo \in Agendas \ {<<>>}
        BY <2>1, <3>2, ProbeTypes DEF InOrder
      <4> QED
        BY <3>1, <3>2, <4>1, AgendaRule DEF Active
    <3>3. CASE artifacts[s].cleaning # "none"
      <4>1. artifacts[s] # Fresh
        BY <3>3, FreshSays
      <4> QED
        BY <2>1, <3>1, <4>1 DEF InOrder
    <3> QED
      BY <3>1, <3>2, <3>3
  <2>3. \A t \in coming : artifacts'[t] = Fresh
    BY <1>1, <2>1, <2>2, ZenonT(60) DEF InOrder
  <2>4. probe.pc # "start"
    BY <2>1, FreshSays DEF InOrder
  <2>5. probe.pc \in ScenarioSteps =>
          /\ artifacts'[Head(probe.todo)].outcome = "none"
          /\ ~probe.aborted => artifacts'[Head(probe.todo)].cleaning = "none"
          /\ probe.pc \in {"wait for indexing", "publish deletion", "call sync", "poll status",
                           "assert"} => artifacts'[Head(probe.todo)].target
    <3> SUFFICES ASSUME probe.pc \in ScenarioSteps
                 PROVE  /\ artifacts'[Head(probe.todo)].outcome = "none"
                        /\ ~probe.aborted => artifacts'[Head(probe.todo)].cleaning = "none"
                        /\ probe.pc \in {"wait for indexing", "publish deletion", "call sync",
                                         "poll status", "assert"}
                             => artifacts'[Head(probe.todo)].target
      OBVIOUS
    <3>1. Head(probe.todo) \in Scenarios /\ probe.pc # "clean"
      BY Working DEF Active, ScenarioSteps
    <3> QED
      BY <1>1, <2>1, <3>1, Working DEF Active
  <2>6. \A t \in Scenarios :
          /\ artifacts'[t].kind5 => artifacts'[t].target
          /\ artifacts'[t].outcome # "none" =>
               artifacts'[t].cleaning = "done" \/ (probe.todo # <<>> /\ t = Head(probe.todo) /\ probe.pc # "next")
    BY <1>1, <2>1 DEF InOrder, Active
  <2>7. probe.pc \in {"wait for indexing", "publish deletion", "call sync", "poll status", "assert"}
          => probe.pc \in ScenarioSteps
    BY DEF ScenarioSteps
  <2> QED
    BY <2>1, <2>3, <2>4, <2>5, <2>6, <2>7 DEF InOrder
<1>4. Concluded(probe, artifacts')
  BY DEF Concluded
<1>5. Removals'
  <2> SUFFICES ASSUME ~probe.skipCleanup, NEW t \in Scenarios
               PROVE  RemovedSoFar(t, artifacts'[t], remote'[t], afterwards', unheard')
    BY DEF Removals
  <2>1. RemovedSoFar(t, artifacts[t], remote[t], afterwards, unheard)
    BY DEF ProbeInv, Removals
  <2> QED
    BY <1>1, <2>1 DEF RemovedSoFar
<1> QED
  BY <1>2, <1>3, <1>4, <1>5 DEF ProbeInv

LEMMA BeginCleanupKeeps ==
  ASSUME ProbeInv, BeginCleanup
  PROVE  ProbeInv'
<1> DEFINE b == [artifacts[Active] EXCEPT !.cleaning = Cleaning(Active)]
<1>1. probe.todo \in Agendas \ {<<>>} /\ Active \in Scenarios /\ probe.pc = "clean"
  BY ProbeTypes, AgendaRule DEF ProbeInv, InOrder, BeginCleanup, Doing, Active
<1>2. artifacts' = [artifacts EXCEPT ![Active] = b]
  BY <1>1, ProbeTypes DEF BeginCleanup
<1>3. artifacts[Active].cleaning = "none" /\ Cleaning(Active) \in {"blossom", "done"}
      /\ (~probe.skipCleanup => Cleaning(Active) = "blossom")
  BY DEF BeginCleanup, Cleaning
<1>4. /\ b \in Artifacts /\ b.cleaning = Cleaning(Active)
      /\ b.outcome = artifacts[Active].outcome /\ b.target = artifacts[Active].target
      /\ b.kind5 = artifacts[Active].kind5
  BY <1>1, <1>3, ProbeTypes DEF Artifacts
<1>5. UNCHANGED <<probe, remote, afterwards, unheard>>
  BY DEF BeginCleanup
<1>6. ~probe.skipCleanup => RemovedSoFar(Active, b, remote[Active], afterwards, unheard)
  BY <1>3, <1>4 DEF RemovedSoFar
<1>7. remote' \in [Scenarios -> Left] /\ \A t \in Scenarios \ {Active} : remote'[t] = remote[t]
      /\ remote'[Active] = remote[Active]
  BY <1>5, ProbeTypes
<1> HIDE DEF b
<1> QED
  BY <1>1, <1>2, <1>3, <1>4, <1>5, <1>6, <1>7, RemovalKeeps

LEMMA CleanupBlossomKeeps ==
  ASSUME ProbeInv, NEW s \in Scenarios, CleanupBlossom(s)
  PROVE  ProbeInv'
<1>1. PICK result \in {"ok", "failed"}, blob \in {remote[s].blob, "gone"} :
        /\ artifacts' = [artifacts EXCEPT ![s].cleaning = "d1", ![s].blossom = result]
        /\ remote' = [remote EXCEPT ![s].blob = IF remote[s].blob = "stored" THEN blob ELSE remote[s].blob]
        /\ result = "ok" => blob = "gone"
  BY DEF CleanupBlossom
<1> DEFINE c == [artifacts[s] EXCEPT !.cleaning = "d1"]
           b == [c EXCEPT !.blossom = result]
           r == remote'[s]
<1>2. artifacts' = [artifacts EXCEPT ![s] = b]
  BY <1>1, ProbeTypes
<1>3. c \in Artifacts /\ c.cleaning = "d1" /\ c.blossom = artifacts[s].blossom
      /\ c.outcome = artifacts[s].outcome /\ c.target = artifacts[s].target
      /\ c.kind5 = artifacts[s].kind5
  BY ProbeTypes DEF Artifacts
<1> HIDE DEF c
<1>4. b \in Artifacts /\ b.cleaning = "d1" /\ b.blossom = result
      /\ b.outcome = artifacts[s].outcome /\ b.target = artifacts[s].target
      /\ b.kind5 = artifacts[s].kind5
  BY <1>3 DEF Artifacts
<1> HIDE DEF b
<1>5. /\ remote' \in [Scenarios -> Left] /\ \A t \in Scenarios \ {s} : remote'[t] = remote[t]
      /\ r.blob = "stored" => blob = "stored"
  BY <1>1, ProbeTypes DEF Left
<1>6. RemovedSoFar(s, b, r, afterwards, unheard)
  BY <1>1, <1>4, <1>5 DEF RemovedSoFar
<1>7. artifacts[s].cleaning \notin {"none", "done"} /\ probe' = probe
      /\ UNCHANGED <<afterwards, unheard>> /\ probe.pc # "ended"
  BY DEF CleanupBlossom, ProbeInv, Concluded
<1> QED
  BY <1>2, <1>4, <1>5, <1>6, <1>7, RemovalKeeps

LEMMA CleanupD1RowKeeps ==
  ASSUME ProbeInv, NEW s \in Scenarios, CleanupD1Row(s)
  PROVE  ProbeInv'
<1>1. PICK result \in {"ok", "failed", "skipped"}, row \in {remote[s].row, "none"} :
        /\ (result = "skipped") <=> ~(artifacts[s].kind5 /\ artifacts[s].target)
        /\ artifacts' = [artifacts EXCEPT ![s].cleaning = "done", ![s].d1 = result]
        /\ remote' = [remote EXCEPT ![s].row = row]
        /\ unheard \subseteq unheard'
        /\ result = "ok" => row = "none" \/ s \in unheard'
  BY DEF CleanupD1Row
<1> DEFINE c == [artifacts[s] EXCEPT !.cleaning = "done"]
           b == [c EXCEPT !.d1 = result]
           r == remote'[s]
<1>2. artifacts' = [artifacts EXCEPT ![s] = b]
  BY <1>1, ProbeTypes
<1>3. c \in Artifacts /\ c.cleaning = "done" /\ c.blossom = artifacts[s].blossom
      /\ c.outcome = artifacts[s].outcome /\ c.target = artifacts[s].target
      /\ c.kind5 = artifacts[s].kind5
  BY ProbeTypes DEF Artifacts
<1> HIDE DEF c
<1>4. b \in Artifacts /\ b.cleaning = "done" /\ b.blossom = artifacts[s].blossom /\ b.d1 = result
      /\ b.outcome = artifacts[s].outcome /\ b.target = artifacts[s].target
      /\ b.kind5 = artifacts[s].kind5
  BY <1>3 DEF Artifacts
<1> HIDE DEF b
<1>5. /\ remote' \in [Scenarios -> Left] /\ \A t \in Scenarios \ {s} : remote'[t] = remote[t]
      /\ r.blob = remote[s].blob /\ r.row = row
  BY <1>1, ProbeTypes DEF Left
<1>6. artifacts[s].cleaning = "d1" /\ probe' = probe
      /\ afterwards' = afterwards /\ probe.pc # "ended"
  BY DEF CleanupD1Row, ProbeInv, Concluded
<1>7. artifacts[s].kind5 => artifacts[s].target
  BY DEF ProbeInv, InOrder
<1>8. ~probe.skipCleanup => RemovedSoFar(s, b, r, afterwards, unheard')
  <2>1. ~probe.skipCleanup => RemovedSoFar(s, artifacts[s], remote[s], afterwards, unheard)
    BY DEF ProbeInv, Removals
  <2> QED
    BY <1>1, <1>4, <1>5, <1>6, <1>7, <2>1 DEF RemovedSoFar
<1> QED
  BY <1>1, <1>2, <1>4, <1>5, <1>6, <1>8, RemovalKeeps

\* A signal begins the removal of the scenario under way beside it.
LEMMA FirstSignalKeeps ==
  ASSUME ProbeInv, probe.pc \in ScenarioSteps \cup {"clean"},
         probe' = [probe EXCEPT !.aborted = TRUE],
         artifacts' = [artifacts EXCEPT ![Active].cleaning = Cleaning(Active)],
         UNCHANGED <<remote, afterwards, unheard>>
  PROVE  ProbeInv'
<1> DEFINE b == [artifacts[Active] EXCEPT !.cleaning = Cleaning(Active)]
<1>1. /\ probe.todo \in Agendas \ {<<>>} /\ Active \in Scenarios
      /\ probe'.pc = probe.pc /\ probe'.todo = probe.todo
      /\ probe'.skipCleanup = probe.skipCleanup /\ probe'.aborted /\ probe'.exit = probe.exit
      /\ probe.pc \notin {"start", "next", "ended"}
  BY AgendaRule DEF ProbeInv, ProbeTyped, InOrder, Active, ScenarioSteps
<1>2. /\ Cleaning(Active) \in {"none", "blossom", "d1", "done"}
      /\ artifacts[Active].cleaning # "none" => Cleaning(Active) = artifacts[Active].cleaning
      /\ artifacts[Active].cleaning = "none" =>
           Cleaning(Active) = IF probe.skipCleanup THEN "done" ELSE "blossom"
  BY <1>1, ProbeTypes DEF Cleaning, Artifacts
<1>3. /\ b \in Artifacts /\ b.cleaning = Cleaning(Active)
      /\ b.outcome = artifacts[Active].outcome /\ b.target = artifacts[Active].target
      /\ b.kind5 = artifacts[Active].kind5 /\ b.blossom = artifacts[Active].blossom
      /\ b.d1 = artifacts[Active].d1
  BY <1>1, <1>2, ProbeTypes DEF Artifacts
<1>4. /\ artifacts' \in [Scenarios -> Artifacts] /\ artifacts'[Active] = b
      /\ \A s \in Scenarios \ {Active} : artifacts'[s] = artifacts[s]
  BY <1>1, <1>3, ProbeTypes
<1> HIDE DEF b
<1>5. ProbeTyped'
  BY <1>1, <1>4 DEF ProbeInv, ProbeTyped
<1>6. InOrder(probe', artifacts')
  <2>1. \A s \in ToBegin(Tail(probe.todo)) : artifacts'[s] = Fresh
    <3>1. ToBegin(Tail(probe.todo)) \subseteq Scenarios \ {Active}
      BY <1>1, AgendaRule DEF Active
    <3>2. \A s \in ToBegin(Tail(probe.todo)) : artifacts[s] = Fresh
      BY <1>1 DEF ProbeInv, InOrder
    <3> QED
      BY <1>4, <3>1, <3>2
  <2>2. \A s \in Scenarios :
          /\ artifacts'[s].kind5 => artifacts'[s].target
          /\ artifacts'[s].outcome # "none" => artifacts'[s].cleaning = "done" \/ s = Head(probe.todo)
    BY <1>1, <1>3, <1>4 DEF ProbeInv, InOrder, Active
  <2>3. probe.pc \in ScenarioSteps => artifacts'[Head(probe.todo)].outcome = "none"
    BY <1>1, <1>3, <1>4 DEF ProbeInv, InOrder, Active
  <2>4. probe.pc \in {"wait for indexing", "publish deletion", "call sync", "poll status", "assert"}
          => artifacts'[Head(probe.todo)].target
    BY <1>1, <1>3, <1>4 DEF ProbeInv, InOrder, Active
  <2> QED
    BY <1>1, <2>1, <2>2, <2>3, <2>4 DEF InOrder
<1>7. Concluded(probe', artifacts')
  BY <1>1 DEF Concluded
<1>8. Removals'
  <2> SUFFICES ASSUME ~probe.skipCleanup, NEW s \in Scenarios
               PROVE  RemovedSoFar(s, artifacts'[s], remote[s], afterwards, unheard)
    BY <1>1 DEF Removals
  <2>1. RemovedSoFar(s, artifacts[s], remote[s], afterwards, unheard)
    BY DEF ProbeInv, Removals
  <2> QED
    BY <1>2, <1>3, <1>4, <2>1 DEF RemovedSoFar
<1> QED
  BY <1>5, <1>6, <1>7, <1>8 DEF ProbeInv

\* The script goes to a step outside of the scenarios, or to the next one.
LEMMA ScriptKeeps ==
  ASSUME ProbeInv, probe' \in [pc : ScenarioSteps \cup {"start", "next", "clean", "ended", "killed"},
                               todo : Agendas, skipCleanup : {probe.skipCleanup},
                               aborted : BOOLEAN, exit : {-1, 0, 1, 2, 3, 130}],
         InOrder(probe', artifacts), Concluded(probe', artifacts),
         remote' \in [Scenarios -> Left],
         \A s \in Scenarios : remote'[s].blob = remote[s].blob /\ remote'[s].row = remote[s].row,
         UNCHANGED <<artifacts, afterwards, unheard>>
  PROVE  ProbeInv'
<1>1. ProbeTyped' /\ probe'.skipCleanup = probe.skipCleanup
  BY DEF ProbeInv, ProbeTyped
<1>2. Removals'
  <2> SUFFICES ASSUME ~probe.skipCleanup, NEW s \in Scenarios
               PROVE  RemovedSoFar(s, artifacts[s], remote'[s], afterwards, unheard)
    BY <1>1 DEF Removals
  <2>1. RemovedSoFar(s, artifacts[s], remote[s], afterwards, unheard)
    BY DEF ProbeInv, Removals
  <2> QED
    BY <2>1 DEF RemovedSoFar
<1> QED
  BY <1>1, <1>2 DEF ProbeInv

LEMMA SignalKeeps ==
  ASSUME ProbeInv, Signal
  PROVE  ProbeInv'
<1>1. probe.pc \in ScenarioSteps \cup {"clean"} /\ UNCHANGED <<remote, afterwards, unheard>>
  BY DEF Signal, ProbeInv, ProbeTyped
<1>2. CASE /\ probe' = [probe EXCEPT !.aborted = TRUE]
           /\ artifacts' = [artifacts EXCEPT ![Active].cleaning = Cleaning(Active)]
  BY <1>1, <1>2, FirstSignalKeeps
<1>3. CASE probe' = [probe EXCEPT !.pc = "killed", !.exit = 130] /\ artifacts' = artifacts
  <2>1. /\ probe'.pc = "killed" /\ probe'.todo = probe.todo /\ probe'.aborted = probe.aborted
        /\ probe' \in [pc : ScenarioSteps \cup {"start", "next", "clean", "ended", "killed"},
                       todo : Agendas, skipCleanup : {probe.skipCleanup},
                       aborted : BOOLEAN, exit : {-1, 0, 1, 2, 3, 130}]
    BY <1>3 DEF ProbeInv, ProbeTyped
  <2>2. probe.todo # <<>> /\ probe.pc \notin {"start", "next"}
    BY <1>1 DEF ProbeInv, InOrder, ScenarioSteps
  <2>3. InOrder(probe', artifacts)
    <3>1. /\ \A s \in ToBegin(Tail(probe.todo)) : artifacts[s] = Fresh
          /\ \A s \in Scenarios :
               /\ artifacts[s].kind5 => artifacts[s].target
               /\ artifacts[s].outcome # "none" =>
                    artifacts[s].cleaning = "done" \/ s = Head(probe.todo)
      BY <2>2 DEF ProbeInv, InOrder
    <3> QED
      BY <2>1, <2>2, <3>1, ZenonT(60) DEF InOrder, ScenarioSteps
  <2>5. Concluded(probe', artifacts)
    BY <2>1 DEF Concluded
  <2>4. remote' \in [Scenarios -> Left]
    BY <1>1, ProbeTypes
  <2> QED
    BY <1>1, <1>3, <2>1, <2>3, <2>4, <2>5, ScriptKeeps
<1> QED
  BY <1>2, <1>3 DEF Signal

LEMMA RefuseArgumentsKeeps ==
  ASSUME ProbeInv, RefuseArguments
  PROVE  ProbeInv'
<1>1. /\ probe.pc = "start" /\ ~probe.aborted /\ \A s \in Scenarios : artifacts[s] = Fresh
      /\ UNCHANGED <<remote, artifacts, afterwards, unheard>>
  BY DEF RefuseArguments, Doing, ProbeInv, InOrder
<1>2. /\ probe'.pc = "ended" /\ probe'.todo = probe.todo /\ probe'.aborted = probe.aborted
      /\ probe'.exit = 2
      /\ probe' \in [pc : ScenarioSteps \cup {"start", "next", "clean", "ended", "killed"},
                     todo : Agendas, skipCleanup : {probe.skipCleanup},
                     aborted : BOOLEAN, exit : {-1, 0, 1, 2, 3, 130}]
  BY DEF RefuseArguments, ProbeInv, ProbeTyped
<1>3. InOrder(probe', artifacts)
  <2>1. \A q \in Agendas \ {<<>>} : ToBegin(Tail(q)) \subseteq Scenarios
    BY AgendaRule
  <2> QED
    BY <1>1, <1>2, <2>1, FreshSays, AgendaRule, ProbeTypes DEF InOrder, ScenarioSteps
<1>4. Concluded(probe', artifacts)
  BY <1>1, <1>2, FreshSays DEF Concluded
<1>5. remote' \in [Scenarios -> Left]
  BY <1>1, ProbeTypes
<1> QED
  BY <1>1, <1>2, <1>3, <1>4, <1>5, ScriptKeeps

LEMMA BeginScenarioKeeps ==
  ASSUME ProbeInv, BeginScenario
  PROVE  ProbeInv'
<1>1. /\ probe.pc \in {"start", "next"} /\ ~probe.aborted /\ probe.todo \in Agendas \ {<<>>}
      /\ \A s \in ToBegin(probe.todo) : artifacts[s] = Fresh
      /\ UNCHANGED <<artifacts, afterwards, unheard>>
  BY ProbeTypes DEF BeginScenario, Doing, ProbeInv, InOrder
<1>2. /\ probe'.pc = "upload" /\ probe'.todo = probe.todo /\ probe'.aborted = probe.aborted
      /\ probe' \in [pc : ScenarioSteps \cup {"start", "next", "clean", "ended", "killed"},
                     todo : Agendas, skipCleanup : {probe.skipCleanup},
                     aborted : BOOLEAN, exit : {-1, 0, 1, 2, 3, 130}]
  BY DEF BeginScenario, Then, ProbeInv, ProbeTyped, ScenarioSteps
<1>3. Active \in Scenarios /\ ToBegin(probe.todo) = {Active} \cup ToBegin(Tail(probe.todo))
  BY <1>1, AgendaRule DEF Active
<1>4. artifacts[Active] = Fresh
  BY <1>1, <1>3
<1>5. InOrder(probe', artifacts)
  <2>1. \A s \in Scenarios :
          /\ artifacts[s].kind5 => artifacts[s].target
          /\ artifacts[s].outcome # "none" => artifacts[s].cleaning = "done" \/ s = Head(probe.todo)
    BY <1>1 DEF ProbeInv, InOrder
  <2> QED
    BY <1>1, <1>2, <1>3, <1>4, <2>1, FreshSays DEF InOrder, Active
<1>6. Concluded(probe', artifacts)
  BY <1>2 DEF Concluded
<1>7. remote' \in [Scenarios -> Left]
      /\ \A s \in Scenarios : remote'[s].blob = remote[s].blob /\ remote'[s].row = remote[s].row
  BY <1>3, ProbeTypes DEF BeginScenario, Left
<1> QED
  BY <1>1, <1>2, <1>5, <1>6, <1>7, ScriptKeeps

LEMMA EndScenarioKeeps ==
  ASSUME ProbeInv, EndScenario
  PROVE  ProbeInv'
<1>1. /\ probe.pc = "clean" /\ probe.todo \in Agendas \ {<<>>} /\ Active \in Scenarios
      /\ artifacts[Active].cleaning = "done" /\ Tail(probe.todo) \in Agendas
      /\ \A s \in ToBegin(Tail(probe.todo)) : artifacts[s] = Fresh
      /\ UNCHANGED <<remote, artifacts, afterwards, unheard>>
  BY ProbeTypes, AgendaRule DEF EndScenario, Doing, ProbeInv, InOrder, Active
<1>2. \A s \in Scenarios :
        /\ artifacts[s].kind5 => artifacts[s].target
        /\ artifacts[s].outcome # "none" => artifacts[s].cleaning = "done"
  BY <1>1 DEF ProbeInv, InOrder, Active
<1>3. remote' \in [Scenarios -> Left]
  BY <1>1, ProbeTypes
<1>4. CASE probe.aborted
  <2> DEFINE e == IF CleanupFailed(artifacts[Active]) THEN 3 ELSE 130
  <2>1. /\ probe'.pc = "ended" /\ probe'.todo = probe.todo /\ probe'.aborted
        /\ probe'.exit = e
        /\ probe' \in [pc : ScenarioSteps \cup {"start", "next", "clean", "ended", "killed"},
                       todo : Agendas, skipCleanup : {probe.skipCleanup},
                       aborted : BOOLEAN, exit : {-1, 0, 1, 2, 3, 130}]
    BY <1>4, ZenonT(60) DEF EndScenario, ProbeInv, ProbeTyped
  <2>2. InOrder(probe', artifacts)
    BY <1>1, <1>2, <2>1 DEF InOrder, ScenarioSteps
  <2>3. Concluded(probe', artifacts)
    BY <1>1, <2>1 DEF Concluded, Active
  <2> QED
    BY <1>1, <1>3, <2>1, <2>2, <2>3, ScriptKeeps
<1>5. CASE ~probe.aborted
  <2>1. /\ probe'.pc = "next" /\ probe'.todo = Tail(probe.todo) /\ ~probe'.aborted
        /\ probe' \in [pc : ScenarioSteps \cup {"start", "next", "clean", "ended", "killed"},
                       todo : Agendas, skipCleanup : {probe.skipCleanup},
                       aborted : BOOLEAN, exit : {-1, 0, 1, 2, 3, 130}]
    BY <1>1, <1>5 DEF EndScenario, ProbeInv, ProbeTyped
  <2>2. InOrder(probe', artifacts)
    BY <1>1, <1>2, <2>1 DEF InOrder, ScenarioSteps
  <2>3. Concluded(probe', artifacts)
    BY <2>1 DEF Concluded
  <2> QED
    BY <1>1, <1>3, <2>1, <2>2, <2>3, ScriptKeeps
<1> QED
  BY <1>4, <1>5

LEMMA SummarizeKeeps ==
  ASSUME ProbeInv, Summarize
  PROVE  ProbeInv'
<1>1. /\ probe.pc = "next" /\ probe.todo = <<>> /\ ~probe.aborted
      /\ UNCHANGED <<remote, artifacts, afterwards, unheard>>
  BY DEF Summarize, Doing, ProbeInv, InOrder
<1>2. \A s \in Scenarios :
        /\ artifacts[s].kind5 => artifacts[s].target
        /\ artifacts[s].outcome # "none" => artifacts[s].cleaning = "done"
  BY <1>1 DEF ProbeInv, InOrder
<1> DEFINE e == ExitCode(Attempted)
<1>3. /\ e \in {0, 1, 3}
      /\ \A s \in Attempted : CleanupFailed(artifacts[s]) => e \in {1, 3}
      /\ e = 0 => \A s \in Attempted : artifacts[s].outcome # "fail"
  BY DEF ExitCode
<1>4. /\ probe'.pc = "ended" /\ probe'.todo = <<>> /\ ~probe'.aborted /\ probe'.exit = e
      /\ probe' \in [pc : ScenarioSteps \cup {"start", "next", "clean", "ended", "killed"},
                     todo : Agendas, skipCleanup : {probe.skipCleanup},
                     aborted : BOOLEAN, exit : {-1, 0, 1, 2, 3, 130}]
  BY <1>1, <1>3 DEF Summarize, ProbeInv, ProbeTyped
<1> HIDE DEF e
<1>5. InOrder(probe', artifacts)
  BY <1>2, <1>4, AgendaRule DEF InOrder, ScenarioSteps
<1>6. Concluded(probe', artifacts)
  BY <1>2, <1>3, <1>4, ProbeTypes DEF Concluded, Attempted, Artifacts
<1>7. remote' \in [Scenarios -> Left]
  BY <1>1, ProbeTypes
<1> QED
  BY <1>1, <1>4, <1>5, <1>6, <1>7, ScriptKeeps

LEMMA ProbeInit == DeleteProbeInit => ProbeInv
<1> SUFFICES ASSUME DeleteProbeInit PROVE ProbeInv
  OBVIOUS
<1>1. PICK plan \in Plans, skip \in BOOLEAN :
        probe = [pc |-> "start", todo |-> plan, skipCleanup |-> skip, aborted |-> FALSE, exit |-> -1]
  BY DEF DeleteProbeInit
<1>2. artifacts = [s \in Scenarios |-> Fresh]
      /\ remote = [s \in Scenarios |-> [blob |-> "none", upload |-> FALSE, kind5 |-> FALSE, row |-> "none"]]
  BY DEF DeleteProbeInit
<1>3. plan \in Agendas
  BY DEF Agendas
<1>4. ProbeTyped
  BY <1>1, <1>2, <1>3, FreshType DEF ProbeTyped, Left
<1>5. \A s \in Scenarios : artifacts[s] = Fresh /\ remote[s].blob = "none" /\ remote[s].row = "none"
  BY <1>2
<1>6. InOrder(probe, artifacts)
  BY <1>1, <1>3, <1>5, FreshSays, AgendaRule DEF InOrder, ScenarioSteps
<1>7. Concluded(probe, artifacts) /\ Removals
  BY <1>1, <1>5, FreshSays DEF Concluded, Removals, RemovedSoFar
<1> QED
  BY <1>4, <1>6, <1>7 DEF ProbeInv

LEMMA ProbeStep ==
  ASSUME ProbeInv, [DeleteProbeNext]_probeVars
  PROVE  ProbeInv'
<1>1. CASE UNCHANGED probeVars
  BY <1>1 DEF probeVars, ProbeInv, ProbeTyped, Removals
<1>2. ASSUME NEW s \in Scenarios,
             \/ StoreBlob(s) \/ TakeUp(s) \/ FinishRow(s) \/ CleanupBlossom(s) \/ CleanupD1Row(s)
      PROVE  ProbeInv'
  BY <1>2, StoreBlobKeeps, TakeUpKeeps, FinishRowKeeps, CleanupBlossomKeeps, CleanupD1RowKeeps
<1>3. CASE \/ RefuseArguments \/ BeginScenario \/ UploadToBlossom \/ PublishVideo \/ WaitForIndexing
           \/ PublishDeletion \/ CallSyncEndpoint \/ PollStatus \/ AssertD1AndBlossom
           \/ BeginCleanup \/ Signal \/ EndScenario \/ Summarize
  BY <1>3, RefuseArgumentsKeeps, BeginScenarioKeeps, UploadKeeps, PublishVideoKeeps,
     WaitForIndexingKeeps, PublishDeletionKeeps, CallSyncKeeps, PollStatusKeeps, AssertKeeps,
     BeginCleanupKeeps, SignalKeeps, EndScenarioKeeps, SummarizeKeeps
<1> QED
  BY <1>1, <1>2, <1>3 DEF DeleteProbeNext

\* What is left of each scenario agrees with what the script knows of its
\* removal, at every step of it and after the end.
THEOREM ProbeInvariant == DeleteProbeSpec => []ProbeInv
<1>1. DeleteProbeInit => ProbeInv
  BY ProbeInit
<1>2. ProbeInv /\ [DeleteProbeNext]_probeVars => ProbeInv'
  BY ProbeStep
<1> QED
  BY <1>1, <1>2, PTL DEF DeleteProbeSpec

\* A probe that has come to its end without a second signal leaves nothing in
\* production without telling, except what the script takes no note of: what
\* appeared once its removal was done, the row of a deletion whose OK never came,
\* and the row that a killed wrangler has left; and it ends with 0 only if all
\* scenarios passed.
THEOREM LeftoversReportedHolds == DeleteProbeSpec => []LeftoversReported
<1>1. ASSUME ProbeInv  PROVE LeftoversReported
  <2> SUFFICES ASSUME probe.pc = "ended", ~probe.skipCleanup
               PROVE  /\ \A s \in Answerable :
                           /\ remote[s].blob = "stored" =>
                                Reported(s, "blossom") \/ <<s, "blob">> \in afterwards
                           /\ remote[s].row # "none" =>
                                \/ Reported(s, "d1") \/ <<s, "row">> \in afterwards
                                \/ ~artifacts[s].kind5 \/ s \in unheard
                      /\ probe.exit = 0 => \A s \in Attempted : artifacts[s].outcome = "pass"
    BY DEF LeftoversReported
  <2>1. \A s \in Scenarios : RemovedSoFar(s, artifacts[s], remote[s], afterwards, unheard)
    BY <1>1 DEF ProbeInv, Removals
  <2>2. ASSUME NEW s \in Answerable
        PROVE  /\ s \in Scenarios /\ artifacts[s].cleaning = "done"
               /\ CleanupFailed(artifacts[s]) => probe.exit \in {1, 3}
    <3>1. CASE probe.aborted
      BY <1>1, <2>2, <3>1, ProbeTypes, AgendaRule DEF Answerable, Active, ProbeInv, Concluded
    <3>2. CASE ~probe.aborted
      BY <1>1, <2>2, <3>2 DEF Answerable, Attempted, ProbeInv, Concluded
    <3> QED
      BY <3>1, <3>2
  <2>3. ASSUME NEW s \in Answerable
        PROVE  /\ remote[s].blob = "stored" =>
                    Reported(s, "blossom") \/ <<s, "blob">> \in afterwards
               /\ remote[s].row # "none" =>
                    \/ Reported(s, "d1") \/ <<s, "row">> \in afterwards
                    \/ ~artifacts[s].kind5 \/ s \in unheard
    BY <2>1, <2>2 DEF RemovedSoFar, Reported, CleanupFailed
  <2>4. probe.exit = 0 => \A s \in Attempted : artifacts[s].outcome = "pass"
    BY <1>1 DEF ProbeInv, Concluded, Attempted
  <2> QED
    BY <2>3, <2>4
<1> QED
  BY <1>1, ProbeInvariant, PTL

HIDE DeleteProbeAssumption

=============================================================================
