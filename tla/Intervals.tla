------------------------------ MODULE Intervals ------------------------------
(***************************************************************************)
(* The availability engine of BarberHub, app/services/availability.py: the *)
(* pure interval arithmetic that turns shifts and busy time into bookable  *)
(* slots.  Instants are numbers; a span is half-open, [start, end).  The   *)
(* functions are translated loop by loop, as folds, because what they have *)
(* to get right is what the loops keep and drop at the boundaries.         *)
(***************************************************************************)
EXTENDS Integers, Sequences, SequencesExt

(* Local time.  A zone changes its offset once, at the instant "cut"; the  *)
(* clock then skips some local times or shows some of them twice.          *)
WallClock(t, zone) == t + (IF t < zone.cut THEN zone.before ELSE zone.after)

(* What Python takes a local time for (PEP 495, fold = 0): the first of    *)
(* two instants, and for a time that is skipped the offset of before.      *)
M_InstantOfFold1(w, zone) ==
  IF w - zone.before < zone.cut /\ w - zone.after < zone.cut
  THEN w - zone.before ELSE w - zone.after
InstantOf(w, zone) ==
  IF w - zone.before >= zone.cut /\ w - zone.after >= zone.cut
  THEN w - zone.after ELSE w - zone.before

Span(lo, hi) == [start |-> lo, end |-> hi]

(* What Interval.__post_init__ accepts; anything else is a ValueError.     *)
IsSpan(i) == i.start < i.end

Overlaps(i, j) == i.start < j.end /\ j.start < i.end

Least(a, b) == IF a < b THEN a ELSE b
Greatest(a, b) == IF a < b THEN b ELSE a

(* The dataclass order: by start, then by end.                             *)
SpanBefore(i, j) == i.start < j.start \/ (i.start = j.start /\ i.end < j.end)

(* The spans of a list that have a length, in their order.                 *)
KeepSpan(kept, i) == IF IsSpan(i) THEN Append(kept, i) ELSE kept
Proper(spans) == FoldLeft(KeepSpan, <<>>, spans)

(* sorted(): each span goes before the first one it precedes.              *)
Inserted(ordered, i) ==
  LET later == {j \in DOMAIN ordered : SpanBefore(i, ordered[j])}
  IN IF later = {} THEN Append(ordered, i) ELSE InsertAt(ordered, Min(later), i)
Ordered(spans) == FoldLeft(Inserted, <<>>, spans)

(* normalize: sort, then merge overlapping and touching spans.             *)
MergeIntoLast(merged, current) ==
  LET last == merged[Len(merged)]
  IN IF merged # <<>> /\ current.start <= last.end
     THEN IF current.end > last.end
          THEN [merged EXCEPT ![Len(merged)] = Span(last.start, current.end)]
          ELSE merged
     ELSE Append(merged, current)

Normalize(spans) == FoldLeft(MergeIntoLast, <<>>, Ordered(spans))

(* The inner loop of subtract, over the obstacles that block one span: the *)
(* cursor is the first instant not yet decided, "done" stands for break.   *)
PassBlock(span, acc, block) ==
  IF acc.done \/ block.end <= acc.cursor THEN acc
  ELSE IF block.start >= span.end THEN [acc EXCEPT !.done = TRUE]
  ELSE LET cursor == Greatest(acc.cursor, block.end)
       IN [out    |-> IF block.start > acc.cursor
                      THEN Append(acc.out, Span(acc.cursor, Least(block.start, span.end)))
                      ELSE acc.out,
           cursor |-> cursor,
           done   |-> cursor >= span.end]

WhatRemains(span, obstacles) ==
  LET acc == FoldLeft(LAMBDA a, block : PassBlock(span, a, block),
                      [out |-> <<>>, cursor |-> span.start, done |-> FALSE], obstacles)
  IN IF acc.cursor < span.end THEN Append(acc.out, Span(acc.cursor, span.end)) ELSE acc.out

Subtract(base, blocks) ==
  LET obstacles == Normalize(blocks)
  IN IF obstacles = <<>> THEN base
     ELSE FlattenSeq([i \in DOMAIN base |-> WhatRemains(base[i], obstacles)])

(* align_up: onto the grid of "step" anchored at "anchor".                 *)
AlignUp(moment, step, anchor) ==
  LET offset == (moment - anchor) % step
  IN IF offset = 0 THEN moment ELSE moment + (step - offset)

(* slots_in, one free span: every start from the first aligned instant, a  *)
(* step apart, while the booking still fits before the end.                *)
Fitting(span, first, duration, step) ==
  {k \in 0 .. (span.end - span.start) : first + k * step + duration <= span.end}

SlotsInSpan(span, duration, step, notBefore, anchor) ==
  LET first == AlignUp(Greatest(span.start, notBefore), step, anchor)
      fitting == Fitting(span, first, duration, step)
  IN [n \in 1 .. Cardinality(fitting) |->
        Span(first + (n - 1) * step, first + (n - 1) * step + duration)]

SlotsIn(free, duration, step, notBefore, anchor) ==
  FlattenSeq([i \in DOMAIN free |->
                SlotsInSpan(free[i], duration, step, notBefore, anchor)])

ComputeFreeSlots(working, busy, duration, step, notBefore, anchor) ==
  SlotsIn(Subtract(Normalize(working), busy), duration, step, notBefore, anchor)

(* clip: trim to the window, drop what lies outside it.                    *)
M_ClipKeepingEmpty(spans, window) ==
  [i \in DOMAIN spans |-> Span(Greatest(spans[i].start, window.start),
                               Least(spans[i].end, window.end))]
Clip(spans, window) ==
  Proper([i \in DOMAIN spans |-> Span(Greatest(spans[i].start, window.start),
                                      Least(spans[i].end, window.end))])

(* local_day_bounds: from midnight to midnight, 23, 24 or 25 hours.        *)
M_LocalDayBounds(midnight, length, zone) ==
  Span(InstantOf(midnight, zone), InstantOf(midnight, zone) + length)
LocalDayBounds(midnight, length, zone) ==
  Span(InstantOf(midnight, zone), InstantOf(midnight + length, zone))

(* working_interval of every shift of the day: wall-clock times are        *)
(* compared before they are converted, None is left out (_shifts_for).     *)
WorkingIntervals(rows, zone) ==
  LET kept == Proper(rows)
  IN [i \in DOMAIN kept |-> Span(InstantOf(kept[i].start, zone),
                                 InstantOf(kept[i].end, zone))]

(* available_slots of app/services/slots.py once its rows are fetched: a   *)
(* closed day and a day without a shift offer nothing; the grid is         *)
(* anchored at the local midnight the day window starts at.                *)
AvailableSlots(closed, shifts, taken, breaks, window, duration, step, notBefore) ==
  IF closed \/ shifts = <<>> THEN <<>>
  ELSE ComputeFreeSlots(Clip(shifts, window), Clip(taken \o breaks, window),
                        duration, step, notBefore, window.start)
=============================================================================
