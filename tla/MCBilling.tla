----------------------------- MODULE MCBilling -----------------------------
(* Instances of Billing for TLC. *)
EXTENDS Billing, TLC

CONSTANTS l1, l2, l3, p1, p2, r1, r2

MCOneLesson == {l1}
MCThreeLessons == {l1, l2, l3}
MCNoShow == {}
MCLastIsNoShow == {l3}
MCPayers == {p1, p2}
MCOnePayer == {p1}
MCOneRequest == {r1}
MCTwoRequests == {r1, r2}

\* Lessons that were held, recipients and requests are interchangeable.
MCSymmetry == Permutations({l1, l2}) \cup Permutations(MCPayers)
MCRequestSymmetry == Permutations(MCTwoRequests)
=============================================================================
