------------------------------ MODULE Schedule ------------------------------
(***************************************************************************)
(* What makes time bookable at a BarberHub shop, and who changes it while  *)
(* customers book: breaks and weekly hours (app/services/schedule.py),     *)
(* closures (closures.py), and the soft deletion of shops, barbers and     *)
(* services (barbershop.py, barber_directory.py, service_catalog.py).      *)
(*                                                                         *)
(* Each of these handlers checks the appointments first and writes its own *)
(* table later; a booking reads those tables first and writes appointments *)
(* later.  Every read is a statement of its own in a READ COMMITTED        *)
(* transaction, and no constraint spans the tables.  The appointments are  *)
(* the slots of Calendar.tla, which Booking.tla implements.                *)
(*                                                                         *)
(* One shop with one service; instants are ticks, a day has DayLength.     *)
(***************************************************************************)
EXTENDS Naturals, FiniteSets

CONSTANTS
  Appts, Barbers,
  Shop, Service,   \* the rows that can be soft-deleted besides the barbers
  Requests,        \* concurrent request handlers
  DayLength,       \* ticks in a local day
  Starts,          \* start times clients ask for
  Duration,        \* of the service
  Lead,            \* MIN_BOOKING_LEAD_MINUTES
  BreakIds,        \* bound on the breaks that exist at a time
  BreakSpans,      \* the breaks staff ask for
  ClosureRanges,   \* the day ranges owners close
  Weeks,           \* payloads of PUT /working-hours: sets of shifts
  FirstWeek,       \* the schedule every barber starts with
  MaxVersion,      \* bound on replacements of a week
  MaxTime          \* bound on the clock

Things == {Shop, Service} \cup Barbers

ASSUME ScheduleAssumption ==
  /\ Starts \subseteq Nat
  /\ DayLength \in Nat \ {0} /\ Duration \in Nat \ {0}
  /\ Lead \in Nat /\ MaxTime \in Nat /\ MaxVersion \in Nat
  /\ FirstWeek \in Weeks
  /\ ClosureRanges \subseteq [from : Nat, to : Nat]
  /\ Cardinality(Things) = Cardinality(Barbers) + 2

VARIABLES
  now,       \* the clock
  held,      \* the active appointments and their slots
  breaks,    \* table barber_breaks, a function on the ids that exist
  closures,  \* table shop_closures: [from |-> first day, to |-> last day]
  week,      \* table working_hours per barber: shifts tagged with the
             \* replacement that inserted them
  active,    \* the things whose is_active is set
  version,   \* replacements of each barber's week so far
  req        \* what each handler has in hand

vars == <<now, held, breaks, closures, week, active, version, req>>

Book == INSTANCE Calendar WITH Times <- Nat

Idle == [op |-> "idle"]

Day(t) == t \div DayLength
DayTicks(d) == d * DayLength .. (d + 1) * DayLength - 1
M_SlotFromItsEnd(b, s) == [barber |-> b, start |-> s + Duration, end |-> s + 2 * Duration]
Slot(b, s) == [barber |-> b, start |-> s, end |-> s + Duration]

(* Shifts are wall-clock spans [day, start, end) within a day.             *)
WorkingTicks(b) ==
  UNION {DayLength * w.shift.day + w.shift.start .. DayLength * w.shift.day + w.shift.end - 1
           : w \in week[b]}

Clash(lo, hi, span) == lo < span.end /\ span.start < hi

-----------------------------------------------------------------------------
(* Handlers *)

(* The handler goes on with q in hand, or gives up with nothing.           *)
Hand(r, q) == req' = [req EXCEPT ![r] = q]

(* What a handler has looked at before: the kinds of commits that come too *)
(* late for it.                                                            *)
Looked(q) ==
  CASE q.op = "book" -> {k \in {"closure", "break"} :
                           q.stage \in IF k = "break" THEN {"commit"}
                                       ELSE {"shifts", "taken", "breaks", "commit"}}
    [] q.op \in {"break", "closure", "deactivate"} -> {"book"}
    [] OTHER -> {}

(* A commit.  The field beside of the other handlers is history, which no  *)
(* guard reads: the kinds of commits that came too late for each.          *)
Commit(r, kind) ==
  req' = [x \in Requests |->
            IF x = r THEN Idle
            ELSE IF kind \in Looked(req[x])
                 THEN [req[x] EXCEPT !.beside = @ \cup {kind}]
                 ELSE req[x]]

-----------------------------------------------------------------------------
(* Bookings *)

(* The checks of a booking, in the order the statements are executed.      *)
After == [active |-> "closure", closure |-> "shifts", shifts |-> "taken",
          taken |-> "breaks", breaks |-> "commit"]

NotInBreak(slot) ==
  \A k \in DOMAIN breaks :
    breaks[k].barber = slot.barber => ~ Clash(slot.start, slot.end, breaks[k])

IsClosed(d) == \E c \in closures : c.from <= d /\ d <= c.to

Passes(stage, slot, appt) ==
  CASE stage = "active"  -> {slot.barber, Shop, Service} \subseteq active
    [] stage = "closure" -> ~ IsClosed(Day(slot.start))
    [] stage = "shifts"  -> slot.start .. (slot.end - 1) \subseteq
                              WorkingTicks(slot.barber) \cap DayTicks(Day(slot.start))
    [] stage = "taken"   -> Book!Fits(appt, slot)
    [] stage = "breaks"  -> NotInBreak(slot)

(* A booking, or a move of a booking the row of which is loaded here.      *)
Begin(r) ==
  /\ req[r] = Idle
  /\ \E s \in Starts, a \in Appts :
       /\ s >= now + Lead
       /\ \A q \in Requests : req[q].op = "book" => req[q].appt # a \/ a \in DOMAIN held
       /\ \E b \in Barbers :
            /\ a \in DOMAIN held => held[a].barber = b
            /\ Hand(r, [op |-> "book", stage |-> "active", move |-> a \in DOMAIN held,
                        appt |-> a, slot |-> Slot(b, s), beside |-> {}])
  /\ UNCHANGED <<now, held, breaks, closures, week, active, version>>

Check(r) ==
  /\ req[r].op = "book" /\ req[r].stage # "commit"
  /\ LET q == req[r]
     IN Hand(r, IF Passes(q.stage, q.slot, q.appt)
                THEN [q EXCEPT !.stage = After[q.stage]] ELSE Idle)
  /\ UNCHANGED <<now, held, breaks, closures, week, active, version>>

(* The exclusion constraint arbitrates.  A move of an appointment that is  *)
(* no longer active moves an inactive row, which holds nothing.            *)
CommitBooking(r) ==
  /\ req[r].op = "book" /\ req[r].stage = "commit"
  /\ LET q == req[r]
     IN \/ ~ q.move /\ Book!Hold(q.appt, q.slot) /\ Commit(r, "book")
        \/ q.move /\ Book!Move(q.appt, q.slot) /\ Commit(r, "book")
        \/ /\ ~ Book!Fits(q.appt, q.slot) \/ (q.move /\ q.appt \notin DOMAIN held)
           /\ UNCHANGED held /\ Hand(r, Idle)
  /\ UNCHANGED <<now, breaks, closures, week, active, version>>

(* A booking is cancelled, expires, or is closed out.                      *)
Leave ==
  /\ \E a \in DOMAIN held : Book!Release({a})
  /\ UNCHANGED <<now, breaks, closures, week, active, version, req>>

-----------------------------------------------------------------------------
(* Breaks and closures *)

M_AppointmentsStartingIn(b, span) ==
  {a \in DOMAIN held : held[a].barber = b /\ held[a].start \in span.start .. (span.end - 1)}
AppointmentsOverlapping(b, span) ==
  {a \in DOMAIN held : held[a].barber = b /\ Clash(held[a].start, held[a].end, span)}

CheckBreak(r) ==
  /\ req[r] = Idle
  /\ \E b \in Barbers, span \in BreakSpans :
       /\ AppointmentsOverlapping(b, span) = {}
       /\ Hand(r, [op |-> "break", barber |-> b, span |-> span, beside |-> {}])
  /\ UNCHANGED <<now, held, breaks, closures, week, active, version>>

CommitBreak(r) ==
  /\ req[r].op = "break"
  /\ \E k \in BreakIds \ DOMAIN breaks :
       breaks' = [x \in DOMAIN breaks \cup {k} |->
                    IF x = k THEN [barber |-> req[r].barber,
                                   start |-> req[r].span.start, end |-> req[r].span.end]
                    ELSE breaks[x]]
  /\ Commit(r, "break")
  /\ UNCHANGED <<now, held, closures, week, active, version>>

DeleteBreak ==
  /\ \E k \in DOMAIN breaks : breaks' = [x \in DOMAIN breaks \ {k} |-> breaks[x]]
  /\ UNCHANGED <<now, held, closures, week, active, version, req>>

(* The window of a closure: local midnight of its first day to local       *)
(* midnight after its last one, for every barber of the shop.              *)
M_ClosureWindowToLastMidnight(c) == [start |-> c.from * DayLength, end |-> c.to * DayLength]
ClosureWindow(c) == [start |-> c.from * DayLength, end |-> (c.to + 1) * DayLength]

CheckClosure(r) ==
  /\ req[r] = Idle
  /\ \E c \in ClosureRanges :
       /\ \A b \in Barbers : AppointmentsOverlapping(b, ClosureWindow(c)) = {}
       /\ Hand(r, [op |-> "closure", range |-> c, beside |-> {}])
  /\ UNCHANGED <<now, held, breaks, closures, week, active, version>>

(* A range that is already recorded violates the unique constraint, is     *)
(* rolled back and answered with a conflict: the table stays as it is.     *)
CommitClosure(r) ==
  /\ req[r].op = "closure"
  /\ closures' = closures \cup {req[r].range}
  /\ Commit(r, "closure")
  /\ UNCHANGED <<now, held, breaks, week, active, version>>

DeleteClosure ==
  /\ \E c \in closures : closures' = closures \ {c}
  /\ UNCHANGED <<now, held, breaks, week, active, version, req>>

-----------------------------------------------------------------------------
(* The weekly hours: delete what is visible, insert the payload, commit.   *)
(* The field began is history: how often the week had been replaced when   *)
(* the DELETE took its snapshot.                                           *)

ReplaceDelete(r) ==
  /\ req[r] = Idle
  /\ \E b \in Barbers, payload \in Weeks :
       /\ version[b] < MaxVersion
       /\ Hand(r, [op |-> "week", barber |-> b, payload |-> payload,
                   doomed |-> week[b], began |-> version[b]])
  /\ UNCHANGED <<now, held, breaks, closures, week, active, version>>

(* Rows another replacement inserted since the DELETE took its snapshot    *)
(* survive; the unique key (barber, weekday, start) may reject the insert, *)
(* which rolls the replacement back.                                       *)
M_Surviving(b, doomed) == week[b]
Surviving(b, doomed) == week[b] \ doomed

ReplaceCommit(r) ==
  /\ req[r].op = "week"
  /\ LET b == req[r].barber
         rest == Surviving(b, req[r].doomed)
         fresh == {[shift |-> s, from |-> version[b] + 1] : s \in req[r].payload}
         rejected == \E x \in rest, y \in fresh :
                       x.shift.day = y.shift.day /\ x.shift.start = y.shift.start
     IN IF rejected \/ version[b] = MaxVersion
        THEN UNCHANGED <<week, version>>
        ELSE /\ week' = [week EXCEPT ![b] = rest \cup fresh]
             /\ version' = [version EXCEPT ![b] = @ + 1]
  /\ Hand(r, Idle)
  /\ UNCHANGED <<now, held, breaks, closures, active>>

-----------------------------------------------------------------------------
(* Soft deletion *)

(* The customers still to come that thing t serves.                        *)
Upcoming(t) ==
  {a \in DOMAIN held : held[a].start >= now /\ (t \in Barbers => held[a].barber = t)}

M_NoneUpcoming(t) == \A a \in Upcoming(t) : held[a].start <= now
NoneUpcoming(t) == Upcoming(t) = {}

CheckDeactivate(r) ==
  /\ req[r] = Idle
  /\ \E t \in Things :
       /\ NoneUpcoming(t)
       /\ Hand(r, [op |-> "deactivate", thing |-> t, beside |-> {}])
  /\ UNCHANGED <<now, held, breaks, closures, week, active, version>>

CommitDeactivate(r) ==
  /\ req[r].op = "deactivate"
  /\ active' = active \ {req[r].thing}
  /\ Hand(r, Idle)
  /\ UNCHANGED <<now, held, breaks, closures, week, version>>

(* PATCH of a shop, a barber or a service assigns whatever fields the body *)
(* has, is_active among them, without a look at the appointments.          *)
Patch ==
  /\ \E t \in Things : active' \in {active \cup {t}, active \ {t}}
  /\ UNCHANGED <<now, held, breaks, closures, week, version, req>>

(* A request dies before its commit.                                       *)
Abandon(r) ==
  /\ req[r] # Idle
  /\ Hand(r, Idle)
  /\ UNCHANGED <<now, held, breaks, closures, week, active, version>>

Tick ==
  /\ now < MaxTime
  /\ now' = now + 1
  /\ UNCHANGED <<held, breaks, closures, week, active, version, req>>

Init ==
  /\ now = 0
  /\ Book!Init
  /\ breaks = [k \in {} |-> {}]
  /\ closures = {}
  /\ week = [b \in Barbers |-> {[shift |-> s, from |-> 0] : s \in FirstWeek}]
  /\ active = Things
  /\ version = [b \in Barbers |-> 0]
  /\ req = [r \in Requests |-> Idle]

Next ==
  \/ \E r \in Requests :
       \/ Begin(r) \/ Check(r) \/ CommitBooking(r)
       \/ CheckBreak(r) \/ CommitBreak(r)
       \/ CheckClosure(r) \/ CommitClosure(r)
       \/ ReplaceDelete(r) \/ ReplaceCommit(r)
       \/ CheckDeactivate(r) \/ CommitDeactivate(r)
       \/ Abandon(r)
  \/ Leave \/ DeleteBreak \/ DeleteClosure \/ Patch \/ Tick

Spec == Init /\ [][Next]_vars

-----------------------------------------------------------------------------
(* Properties *)

TypeOK ==
  /\ now \in 0 .. MaxTime
  /\ DOMAIN held \subseteq Appts
  /\ \A a \in DOMAIN held : held[a].barber \in Barbers /\ held[a].start \in Starts
  /\ DOMAIN breaks \subseteq BreakIds
  /\ closures \subseteq ClosureRanges
  /\ active \subseteq Things
  /\ version \in [Barbers -> 0 .. MaxVersion]
  /\ \A b \in Barbers : \A w \in week[b] : w.from \in 0 .. version[b]

(* Appointments inside a break of their barber, and appointments on a day  *)
(* the shop says it is shut.                                               *)
InBreaks ==
  {p \in {<<held[a], breaks[k]>> : a \in DOMAIN held, k \in DOMAIN breaks} :
     p[1].barber = p[2].barber /\ Clash(p[1].start, p[1].end, p[2])}

OnClosedDays ==
  {p \in {<<held[a], c>> : a \in DOMAIN held, c \in closures} :
     {Day(p[1].start), Day(p[1].end - 1)} \cap (p[2].from .. p[2].to) # {}}

(* No handler puts an appointment into a break, or a break over an         *)
(* appointment, except one that was overtaken: the other kind committed    *)
(* between its look and its own commit.  Whatever else goes on meanwhile,  *)
(* each look covers exactly what its commit is about to write.             *)
BreaksAreKept ==
  [][\/ InBreaks' \subseteq InBreaks
     \/ \E r \in Requests : \/ CommitBooking(r) /\ "break" \in req[r].beside
                            \/ CommitBreak(r) /\ "book" \in req[r].beside]_vars

(* Nor an appointment on a closed day, or a closure over an appointment:   *)
(* the local day a booking asks about and the window of instants a closure *)
(* asks about are the same days.                                           *)
ClosuresAreKept ==
  [][\/ OnClosedDays' \subseteq OnClosedDays
     \/ \E r \in Requests : \/ CommitBooking(r) /\ "closure" \in req[r].beside
                            \/ CommitClosure(r) /\ "book" \in req[r].beside]_vars

(* When a shop, barber or service is deleted, none of its customers is     *)
(* still to come, unless one booked or moved between the look and the      *)
(* commit.                                                                 *)
DeletionStrandsNobody ==
  [][\A r \in Requests :
       CommitDeactivate(r) /\ "book" \notin req[r].beside => Upcoming(req[r].thing) = {}]_vars

(* A replacement of a week removes all that was committed before it began: *)
(* what it leaves is its own payload, and what other replacements inserted *)
(* while it was under way.  One that nobody overlaps leaves its payload.   *)
WeekIsReplaced ==
  [][\A r \in Requests :
       ReplaceCommit(r) /\ version' # version =>
         \A w \in week'[req[r].barber] : w.from > req[r].began]_vars

-----------------------------------------------------------------------------
(* What does not hold, once two handlers overlap *)

BlockedTimeIsUnbooked == InBreaks = {} /\ OnClosedDays = {}

(* "The payload is the new schedule": two replacements leave a mixture.    *)
WeekIsOnePayload ==
  \A b \in Barbers : {w.shift : w \in week[b]} \in Weeks

(* Whoever still has an appointment to come has it with a barber, a        *)
(* service and a shop that exist for the customer.                         *)
NobodyIsStranded ==
  \A a \in DOMAIN held :
    held[a].start >= now => {held[a].barber, Shop, Service} \subseteq active
=============================================================================
