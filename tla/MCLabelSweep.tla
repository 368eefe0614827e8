---------------------------- MODULE MCLabelSweep ----------------------------
(***************************************************************************)
(* Instances of LabelSweep for TLC: viewers vote for one label on videos   *)
(* of one creator, who labelled clip.                                      *)
(***************************************************************************)
EXTENDS LabelSweep

CONSTANTS s1, s2, x1, x2, film, clip, nsfw, ann, ben, cat

MCAuthor == [x \in Vote |-> IF x = x2 THEN ben ELSE ann]
MCVideoOf == [x \in Vote |-> IF x = x2 THEN clip ELSE film]
MCLabelOf == [x \in Vote |-> nsfw]
MCCreator == [v \in Video |-> cat]
MCSelfLabels == [v \in Video |-> IF v = clip THEN {nsfw} ELSE {}]

\* Sweeps overlap over one vote, and one sweep meets two.
OneVoteWhenTwoSweep == job[s2].pc = "idle" \/ (at[x2] = 0 /\ now <= 1)

MCSpec == Init /\ [][Next /\ OneVoteWhenTwoSweep']_vars
=============================================================================
