------------------------------ MODULE Calendar ------------------------------
(***************************************************************************)
(* What the appointment book of BarberHub promises, whatever the requests  *)
(* and jobs that write to it do to each other: an appointment either holds *)
(* one slot of one barber or holds nothing, and a slot is only ever taken, *)
(* moved or kept when no other appointment holds overlapping time of the   *)
(* same barber.  Booking.tla is shown to implement this specification.     *)
(***************************************************************************)
EXTENDS Naturals

CONSTANTS
  Appts,     \* the appointment ids
  Barbers,   \* the barbers whose time is sold
  Times      \* the instants at which a slot may start or end

VARIABLE held  \* the slot held by each appointment that holds one

Slot == {s \in [barber : Barbers, start : Times, end : Times] : s.start < s.end}

(* Half-open [start, end) spans of the same barber that share an instant.  *)
Overlap(s, t) ==
  /\ s.barber = t.barber
  /\ s.start < t.end
  /\ t.start < s.end

(* Slot s is free for appointment a: nobody else holds any part of it.     *)
Fits(a, s) == \A o \in DOMAIN held \ {a} : ~ Overlap(s, held[o])

Init == held = [a \in {} |-> {}]

(* An appointment that holds nothing takes slot s.                         *)
Hold(a, s) ==
  /\ a \notin DOMAIN held
  /\ Fits(a, s)
  /\ held' = [x \in DOMAIN held \cup {a} |-> IF x = a THEN s ELSE held[x]]

(* An appointment exchanges its slot for another one of the same barber.   *)
Move(a, s) ==
  /\ a \in DOMAIN held
  /\ s.barber = held[a].barber
  /\ Fits(a, s)
  /\ held' = [held EXCEPT ![a] = s]

(* Some appointments give their slots back.                                *)
Release(S) == held' = [x \in DOMAIN held \ S |-> held[x]]

Next ==
  \/ \E S \in SUBSET Appts : Release(S)
  \/ \E a \in Appts, s \in Slot : Hold(a, s) \/ Move(a, s)

Spec == Init /\ [][Next]_held

TypeOK ==
  /\ DOMAIN held \subseteq Appts
  /\ held \in [DOMAIN held -> Slot]

(* No two appointments ever hold overlapping time of one barber.           *)
NoOverlap ==
  \A a, b \in DOMAIN held : a # b => ~ Overlap(held[a], held[b])
=============================================================================
