----------------------------- MODULE MCSchedule -----------------------------
(* A small instance of Schedule: two days of four ticks, a service of two, *)
(* and a break, a closure and weeks that meet the bookable times at their  *)
(* edges.                                                                  *)
EXTENDS Schedule, TLC

Shift(d, s, e) == [day |-> d, start |-> s, end |-> e]

MCBreakSpans == {[start |-> 2, end |-> 4]}
MCClosureRanges == {[from |-> 0, to |-> 1]}

FullWeek  == {Shift(0, 0, 4), Shift(1, 0, 4)}
SplitWeek == {Shift(0, 1, 3), Shift(1, 1, 4)}
MCWeeks == {FullWeek, SplitWeek}

RequestSymmetry == Permutations(Requests) \cup Permutations(Appts)
=============================================================================
