------------------------ MODULE MCCreatorDeleteCron -------------------------
(***************************************************************************)
(* Instances of CreatorDeleteCron for TLC.                                 *)
(***************************************************************************)
EXTENDS CreatorDeleteCron, TLC

CONSTANTS k1, k2, c1, c2, s1

\* 30 s * 2^retries, in minutes.
MCBackoff == 1 :> 1
=============================================================================
