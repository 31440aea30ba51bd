------------------------------ MODULE MCBooking ------------------------------
(* Small instances of Booking for TLC: one barber, who works ticks 2..6 or *)
(* takes tick 4 off, one member of staff, the constants that differ per    *)
(* run in the .cfg files.                                                  *)
EXTENDS Booking, TLC

CONSTANTS b1, staff1

MCStaff == [b \in {b1} |-> {staff1}]
MCHours == [b \in {b1} |-> 2 .. 6]
MCSplitHours == [b \in {b1} |-> (2 .. 6) \ {4}]

RequestSymmetry == Permutations(Requests)
SlotSymmetry == Permutations(Requests) \cup Permutations(Appts)
=============================================================================
