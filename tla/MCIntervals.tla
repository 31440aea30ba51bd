----------------------------- MODULE MCIntervals -----------------------------
(***************************************************************************)
(* One availability query over every small day of every small zone: rows   *)
(* are added in any order, then one query is answered.  The answer is      *)
(* compared with what the words of the specification say, in terms of the  *)
(* instants covered and of what the clock of the shop shows at them.       *)
(***************************************************************************)
EXTENDS Intervals, FiniteSets

CONSTANTS
  Zones,       \* time zones: when and how the offset changes
  Midnight,    \* the local time the day begins at
  DayTicks,    \* ticks of an ordinary day
  MaxTick,     \* busy rows lie within the instants 0 .. MaxTick
  MaxShifts,   \* bound on the shifts of the day
  MaxBusy,     \* bound on the appointments and breaks
  Durations, Steps, NotBefores

(* Services and steps take time; the instants 0 .. MaxTick + DayTicks hold *)
(* the whole of the day in any offset; and no zone skips over midnight: it *)
(* may skip from midnight on, as zones do that change their offset then.   *)
ASSUME SlotsAssumption ==
  /\ Zones \subseteq [cut : Int, before : Int, after : Int]
  /\ Midnight \in Int /\ DayTicks \in Nat /\ MaxTick \in Nat
  /\ Durations \subseteq Nat \ {0} /\ Steps \subseteq Nat \ {0} /\ NotBefores \subseteq Int
  /\ \A z \in Zones, w \in Midnight .. (Midnight + DayTicks) :
       {w - z.before, w - z.after} \subseteq 0 .. (MaxTick + DayTicks)
  /\ \A z \in Zones : ~ (z.cut + z.before < Midnight /\ Midnight < z.cut + z.after)

(* Days of four ticks from instant 1: an ordinary one, one on which the    *)
(* clock skips a tick, one on which it shows a tick twice.                 *)
MCZones == {[cut |-> 9, before |-> 3, after |-> 3],
            [cut |-> 3, before |-> 3, after |-> 4],
            [cut |-> 3, before |-> 3, after |-> 2]}

VARIABLES zone, shifts, busy, query, answer

slotVars == <<zone, shifts, busy, query, answer>>

Spans(lo, hi) == {s \in [start : lo .. hi, end : lo .. hi] : IsSpan(s)}
Queries == [duration : Durations, step : Steps, notBefore : NotBefores, closed : {FALSE}]
   \cup {[duration |-> 1, step |-> 1, notBefore |-> 0, closed |-> TRUE]}
NoQuery == [duration |-> 0, step |-> 0, notBefore |-> 0, closed |-> FALSE]

Window == LocalDayBounds(Midnight, DayTicks, zone)
Working == WorkingIntervals(shifts, zone)

(* Interval raises ValueError, and the request fails.                      *)
Fails == \E i \in DOMAIN Working : ~IsSpan(Working[i])

SlotInit ==
  /\ zone \in Zones
  /\ shifts = <<>> /\ busy = <<>> /\ query = NoQuery /\ answer = <<>>

AddShift ==
  /\ query = NoQuery /\ busy = <<>> /\ Len(shifts) < MaxShifts
  /\ \E s \in Spans(Midnight, Midnight + DayTicks) : shifts' = Append(shifts, s)
  /\ UNCHANGED <<zone, busy, query, answer>>

AddBusy ==
  /\ query = NoQuery /\ Len(busy) < MaxBusy
  /\ \E s \in Spans(0, MaxTick) : busy' = Append(busy, s)
  /\ UNCHANGED <<zone, shifts, query, answer>>

Ask ==
  /\ query = NoQuery
  /\ \E q \in Queries :
       /\ query' = q
       /\ answer' = IF Fails THEN <<>>
                    ELSE AvailableSlots(q.closed, Working, busy, <<>>, Window,
                                        q.duration, q.step, q.notBefore)
  /\ UNCHANGED <<zone, shifts, busy>>

SlotNext == AddShift \/ AddBusy \/ Ask

SlotSpec == SlotInit /\ [][SlotNext]_slotVars

(* The instants a list of spans covers.                                    *)
Covered(spans) == UNION {spans[i].start .. (spans[i].end - 1) : i \in DOMAIN spans}

(* The local times the clock shows exactly once, of the day and around it. *)
Instants == 0 .. MaxTick + DayTicks
Plain(w) == Cardinality({t \in Instants : WallClock(t, zone) = w}) = 1

(* The instants of the local day at which somebody works by the clock.     *)
AtWork ==
  {t \in Instants :
     LET w == WallClock(t, zone)
     IN /\ w \in Midnight .. (Midnight + DayTicks - 1)
        /\ \E i \in DOMAIN shifts : shifts[i].start <= w /\ w < shifts[i].end}

Bookable(q) ==
  {t \in Instants :
     /\ ~ q.closed
     /\ (t - Window.start) % q.step = 0
     /\ t >= q.notBefore
     /\ t .. (t + q.duration - 1) \subseteq AtWork \ Covered(busy)}

StartsOf(slots) == {slots[i].start : i \in DOMAIN slots}

(* The slot list is exactly the grid times of the local day at which the   *)
(* whole service fits into working time by the clock of the shop and into  *)
(* time nothing blocks, once each, in order and each of the length of the  *)
(* service, also on a day of an hour more or less: converting, merging,    *)
(* subtracting and walking lose no slot and invent none.  Of shifts that   *)
(* begin or end at a time the clock skips or shows twice nothing is said.  *)
OffersExactlyTheBookable ==
  query # NoQuery /\ (\A i \in DOMAIN shifts : Plain(shifts[i].start) /\ Plain(shifts[i].end)) =>
    /\ StartsOf(answer) = Bookable(query)
    /\ \A i \in DOMAIN answer : answer[i].end - answer[i].start = query.duration
    /\ \A i, j \in DOMAIN answer : i < j => answer[i].start < answer[j].start

(* No span the engine builds of valid ones is empty or reversed, so that   *)
(* Interval raises no ValueError and the availability request is answered. *)
(* These spans do not depend on what is asked; the slots cut from them are *)
(* as long as the service, by the property above.                          *)
NoIntervalIsRejected ==
  query = NoQuery /\ ~Fails =>
    LET merged == Normalize(Clip(Working, Window))
        blocks == Clip(busy, Window)
    IN \A spans \in {Clip(Working, Window), blocks, merged, Subtract(merged, blocks)} :
         \A i \in DOMAIN spans : IsSpan(spans[i])

(* A request fails only on a day the clock skips a time on, over a shift   *)
(* that begins at a time skipped and ends so soon after it that the pushed *)
(* beginning has overtaken the end.                                        *)
FailsOnlyOverASkippedStart ==
  Fails => \E i \in DOMAIN shifts :
             /\ \A t \in Instants : WallClock(t, zone) # shifts[i].start
             /\ shifts[i].end - shifts[i].start <= zone.after - zone.before

(* "Returns None when the shift does not survive the conversion": a shift  *)
(* is converted into a span, and into none at all if the clock shows no    *)
(* time of it.                                                             *)
ShiftsSurviveOrAreNothing ==
  /\ ~Fails
  /\ \A i \in DOMAIN shifts :
       (\A t \in Instants : WallClock(t, zone) \notin shifts[i].start .. (shifts[i].end - 1))
         => WorkingIntervals(<<shifts[i]>>, zone) = <<>>
=============================================================================
