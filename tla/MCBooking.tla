------------------------------ MODULE MCBooking ------------------------------
(* A week of two days with two times each; the tutor does not work at the   *)
(* last of them.                                                            *)
EXTENDS Booking, TLC

MCHours == Slots \ {[day |-> MaxDay, time |-> MaxTime]}
Symmetry == Permutations(Contracts)
=============================================================================
