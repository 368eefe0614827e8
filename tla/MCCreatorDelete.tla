-------------------------- MODULE MCCreatorDelete ---------------------------
(***************************************************************************)
(* Instances of CreatorDelete for TLC.                                     *)
(***************************************************************************)
EXTENDS CreatorDelete, TLC

CONSTANTS sync, cron, k, mine, theirs, blob, other, alice, bob

\* A deletion by alice of a post of hers and of a post of bob's; MaxTargets
\* cuts off the third e-tag.
MCAuthor == k :> alice
MCETags == k :> <<mine, theirs, mine>>
MCTargetAuthor == mine :> alice @@ theirs :> bob
MCTargetBlob == mine :> blob @@ theirs :> other

\* waitUntil ends the work of the sync endpoint before its claim goes stale;
\* a cron invocation may run for much longer.
MCWorkWindow == sync :> 2 @@ cron :> 4
=============================================================================
