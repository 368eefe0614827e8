--------------------------- MODULE DeletionLedger ---------------------------
(***************************************************************************)
(* What the creator-delete pipeline promises, without workers, claims,     *)
(* clocks or retries.  A deletion is a pair <<kind5, target>>: a signed    *)
(* kind 5 event and one event it names.  Its entry is opened once, stays   *)
(* open while blobs may be erased on its behalf, and is settled once, for  *)
(* good, as a success or a failure.                                        *)
(***************************************************************************)
CONSTANTS
  Deletions,     \* the pairs <<kind5, target>>
  Entitled(_),   \* may this deletion erase a blob (same author, blob known)?
  BlobOf(_)      \* the blob the deletion is about

VARIABLES
  ledger,        \* deletion -> "none", "open", "success" or "failed"
  gone           \* the blobs the store no longer serves

vars == <<ledger, gone>>

Init ==
  /\ ledger = [d \in Deletions |-> "none"]
  /\ gone = {}

Open(d) ==
  /\ ledger[d] = "none"
  /\ ledger' = [ledger EXCEPT ![d] = "open"]
  /\ UNCHANGED gone

\* The blob goes first and the entry is settled later: a crash may fall
\* between the two.
Erase(d) ==
  /\ ledger[d] = "open"
  /\ Entitled(d)
  /\ gone' = gone \cup {BlobOf(d)}
  /\ UNCHANGED ledger

Succeed(d) ==
  /\ ledger[d] = "open"
  /\ Entitled(d)
  /\ BlobOf(d) \in gone
  /\ ledger' = [ledger EXCEPT ![d] = "success"]
  /\ UNCHANGED gone

Fail(d) ==
  /\ ledger[d] = "open"
  /\ ledger' = [ledger EXCEPT ![d] = "failed"]
  /\ UNCHANGED gone

Next == \E d \in Deletions : Open(d) \/ Erase(d) \/ Succeed(d) \/ Fail(d)

Spec == Init /\ [][Next]_vars
=============================================================================
