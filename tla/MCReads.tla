------------------------------ MODULE MCReads ------------------------------
(***************************************************************************)
(* Three reads of the API on small tables, one of them in a behaviour: the *)
(* slots of a day are asked for, a client walks a paged list, or a         *)
(* dashboard is put together.                                              *)
(***************************************************************************)
EXTENDS MCIntervals, Listing, Dashboard, TLC

CONSTANTS x1, x2, x3

MCIdOrder == (x1 :> 1) @@ (x2 :> 2) @@ (x3 :> 3)

(* All the bookings, or those of the month the request is made in.         *)
MCPeriods == {[from |-> 0, to |-> 3], [from |-> Nothing, to |-> Nothing]}

VARIABLE report

vars == <<slotVars, listVars, dashVars, report>>

Init ==
  /\ report \in {"slots", "list", "dashboard"}
  /\ SlotInit /\ (report # "slots" => zone = CHOOSE z \in Zones : TRUE)
  /\ ListInit /\ DashInit

Next ==
  \/ report = "slots" /\ SlotNext /\ UNCHANGED <<listVars, dashVars, report>>
  \/ report = "list" /\ ListNext /\ UNCHANGED <<slotVars, dashVars, report>>
  \/ report = "dashboard" /\ DashNext /\ UNCHANGED <<slotVars, listVars, report>>

Spec == Init /\ [][Next]_vars

IdSymmetry == Permutations(Appts) \cup Permutations(Services) \cup Permutations(Barbers)
=============================================================================
