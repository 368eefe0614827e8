---------------------------- MODULE MCModeration ----------------------------
(***************************************************************************)
(* Instances of Moderation for TLC.                                        *)
(***************************************************************************)
EXTENDS Moderation, TLC

CONSTANTS w1, w2

Invocations == Permutations({w1, w2})
=============================================================================
