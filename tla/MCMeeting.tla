----------------------------- MODULE MCMeeting -----------------------------
(* Instances of Meeting for TLC. *)
EXTENDS Meeting, TLC

CONSTANTS tutor, student, t1, s1, s2

MCUsers == {tutor, student}
\* the student reloads the page, or opens the room in a second tab
MCConns == {t1, s1, s2}
MCOwner == t1 :> tutor @@ s1 :> student @@ s2 :> student
MCLeavers == {s1, s2}

MCSymmetry == Permutations({s1, s2})
=============================================================================
