----------------------- MODULE MCCreatorDeletePrompt ------------------------
(***************************************************************************)
(* CreatorDelete with three concurrent invocations on one deletion of a    *)
(* blob, for the refinement of the ledger.                                 *)
(***************************************************************************)
EXTENDS CreatorDelete, TLC

CONSTANTS w1, w2, w3, k, mine, blob, alice

MCAuthor == k :> alice
MCETags == k :> <<mine>>
MCTargetAuthor == mine :> alice
MCTargetBlob == mine :> blob
MCWorkWindow == [w \in Worker |-> InProgressTimeout]
=============================================================================
