----------------------------- MODULE MCReminders -----------------------------
(* Small instances of Reminders: a tick is five minutes, so that a sweep   *)
(* comes every 3 ticks and looks at 4; the horizons are shortened.         *)
EXTENDS Reminders, TLC

OneKind == <<"HOURS_BEFORE">>
OneHorizon == [HOURS_BEFORE |-> 2]

SweepSymmetry == Permutations(Appts) \cup Permutations(Workers)
=============================================================================
