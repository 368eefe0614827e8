-------------------------- MODULE MCPrivateReports --------------------------
(***************************************************************************)
(* Instances of PrivateReports for TLC: a report about spam, with its      *)
(* resend w4, and two reports about minors, whose route may be the slow    *)
(* one.                                                                    *)
(***************************************************************************)
EXTENDS PrivateReports

CONSTANTS c1, c2, w1, w2, w3, w4, spam, minor, child

MCReportOf ==
  [w \in Wrap |-> CASE w = w1 -> minor [] w = w2 -> spam [] w = w3 -> child [] w = w4 -> spam]

MCPriority ==
  [x \in Report |-> CASE x = spam -> 3 [] x = minor -> 2 [] x = child -> 2]
=============================================================================
