--------------------------- MODULE ScheduleProofs ---------------------------
(***************************************************************************)
(* Theorems about Schedule, for any number of concurrent handlers, while   *)
(* bookings leave, breaks and closures are taken back, rows are patched    *)
(* and time passes as they like.  Each check of a handler is right about   *)
(* the commit that follows it: only a commit of the other kind between the *)
(* two, which the handler has no way to see, can make it wrong.  At the    *)
(* end: the appointments are those of Calendar, and never overlap.         *)
(***************************************************************************)
EXTENDS Schedule, Integers, TLAPS

Slots == {s \in [barber : Barbers, start : Starts, end : Nat] : s.end = s.start + Duration}
Shifts == UNION Weeks
Rows == [shift : Shifts, from : Nat]
Stages == {"active", "closure", "shifts", "taken", "breaks", "commit"}

Kinds == {"book", "break", "closure"}

Booking      == [op : {"book"}, stage : Stages, move : BOOLEAN, appt : Appts, slot : Slots,
                 beside : SUBSET Kinds]
Blocking     == [op : {"break"}, barber : Barbers, span : BreakSpans, beside : SUBSET Kinds]
Closing      == [op : {"closure"}, range : ClosureRanges, beside : SUBSET Kinds]
Replacing    == [op : {"week"}, barber : Barbers, payload : Weeks, doomed : SUBSET Rows,
                 began : Nat]
Deactivating == [op : {"deactivate"}, thing : Things, beside : SUBSET Kinds]
Hands == {Idle} \cup Booking \cup Blocking \cup Closing \cup Replacing \cup Deactivating

Shapes ==
  /\ TypeOK
  /\ held \in [DOMAIN held -> Slots]
  /\ week \in [Barbers -> SUBSET Rows]
  /\ req \in [Requests -> Hands]

-----------------------------------------------------------------------------
(* What a handler has in hand, by what it is doing                         *)

LEMMA InHand ==
  ASSUME Shapes, NEW r \in Requests
  PROVE  /\ req[r].op = "book" => req[r] \in Booking
         /\ req[r].op = "break" => req[r] \in Blocking
         /\ req[r].op = "closure" => req[r] \in Closing
         /\ req[r].op = "week" => req[r] \in Replacing
         /\ req[r].op = "deactivate" => req[r] \in Deactivating
BY DEF Shapes, Hands, Idle, Booking, Blocking, Closing, Replacing, Deactivating

(* What a commit of some kind does to a handler that has p in hand: if it  *)
(* has looked before, the history notes it, and nothing else changes.      *)
Noted(kind, p, q) ==
  \/ q = p /\ kind \notin Looked(p)
  \/ /\ kind \in Looked(p) /\ q.op = p.op /\ kind \in q.beside
     /\ p.op = "book" =>
          /\ q.stage = p.stage /\ q.move = p.move /\ q.appt = p.appt /\ q.slot = p.slot
          /\ q.beside = p.beside \cup {kind}

LEMMA NotedInHand ==
  ASSUME NEW p \in Hands, NEW kind \in Kinds, kind \in Looked(p),
         NEW q, q = [p EXCEPT !.beside = p.beside \cup {kind}]
  PROVE  q \in Hands /\ Noted(kind, p, q)
<1>1. p \in Booking \cup Blocking \cup Closing \cup Deactivating
  BY DEF Hands, Looked, Idle, Booking, Blocking, Closing, Replacing, Deactivating
<1>2. CASE p \in Booking
  <2>1. q \in Booking
    BY <1>2 DEF Booking
  <2> QED BY <1>2, <2>1 DEF Hands, Booking, Noted
<1>3. CASE p \in Blocking
  <2>1. q \in Blocking
    BY <1>3 DEF Blocking
  <2> QED BY <1>3, <2>1 DEF Hands, Blocking, Noted
<1>4. CASE p \in Closing
  <2>1. q \in Closing
    BY <1>4 DEF Closing
  <2> QED BY <1>4, <2>1 DEF Hands, Closing, Noted
<1>5. CASE p \in Deactivating
  <2>1. q \in Deactivating
    BY <1>5 DEF Deactivating
  <2> QED BY <1>5, <2>1 DEF Hands, Deactivating, Noted
<1> QED BY <1>1, <1>2, <1>3, <1>4, <1>5

LEMMA CommitIsNoted ==
  ASSUME Shapes, NEW r \in Requests, NEW kind \in Kinds, Commit(r, kind)
  PROVE  /\ req' \in [Requests -> Hands] /\ req'[r] = Idle
         /\ \A x \in Requests \ {r} : Noted(kind, req[x], req'[x])
<1>1. req \in [Requests -> Hands] /\ Idle \in Hands
  BY DEF Shapes, Hands
<1>2. ASSUME NEW x \in Requests \ {r}
      PROVE  req'[x] \in Hands /\ Noted(kind, req[x], req'[x])
  <2>1. req[x] \in Hands
    BY <1>1
  <2>2. CASE kind \in Looked(req[x])
    <3>1. req'[x] = [req[x] EXCEPT !.beside = req[x].beside \cup {kind}]
      BY <2>2 DEF Commit
    <3> QED BY <2>1, <2>2, <3>1, NotedInHand
  <2>3. CASE kind \notin Looked(req[x])
    BY <2>1, <2>3 DEF Commit, Noted
  <2> QED BY <2>2, <2>3
<1>3. req'[r] = Idle
  BY DEF Commit
<1>4. req' = [x \in Requests |-> req'[x]]
  BY DEF Commit
<1> QED BY <1>1, <1>2, <1>3, <1>4

LEMMA SlotIsASlot == ASSUME NEW b \in Barbers, NEW s \in Starts PROVE Slot(b, s) \in Slots
BY ScheduleAssumption DEF Slot, Slots

LEMMA SlotsAreSpans ==
  ASSUME NEW s \in Slots
  PROVE  /\ s.barber \in Barbers /\ s.start \in Starts /\ s.start \in Nat /\ s.end \in Nat
         /\ s.end - 1 \in s.start .. (s.end - 1) /\ s.start < s.end
<1>1. s.barber \in Barbers /\ s.start \in Starts /\ s.end \in Nat /\ s.end = s.start + Duration
  BY DEF Slots
<1>2. Starts \subseteq Nat /\ Duration \in Nat /\ Duration > 0
  BY ScheduleAssumption
<1>3. s.start \in Nat
  BY <1>1, <1>2
<1>4. s.start < s.end
  BY <1>1, <1>2, <1>3
<1> QED
  BY <1>1, <1>3, <1>4

(* A commit of a booking changes one entry of the book, or none.           *)
LEMMA CommittedBooking ==
  ASSUME Shapes, NEW r \in Requests, CommitBooking(r)
  PROVE  /\ req[r] \in Booking /\ req[r].stage = "commit"
         /\ held' \in [DOMAIN held' -> Slots] /\ DOMAIN held' \subseteq Appts
         /\ \A a \in DOMAIN held' : \/ (a \in DOMAIN held /\ held'[a] = held[a])
                                   \/ held'[a] = req[r].slot
<1>1. req[r] \in Booking /\ req[r].stage = "commit"
  BY InHand DEF CommitBooking
<1>2. req[r].appt \in Appts /\ req[r].slot \in Slots
  BY <1>1 DEF Booking
<1>3. held \in [DOMAIN held -> Slots] /\ DOMAIN held \subseteq Appts
  BY DEF Shapes, TypeOK
<1>4. CASE Book!Hold(req[r].appt, req[r].slot)
  BY <1>1, <1>2, <1>3, <1>4 DEF Book!Hold
<1>5. CASE Book!Move(req[r].appt, req[r].slot)
  BY <1>1, <1>2, <1>3, <1>5 DEF Book!Move
<1>6. CASE UNCHANGED held
  BY <1>1, <1>3, <1>6
<1> QED
  BY <1>4, <1>5, <1>6 DEF CommitBooking

(* A replacement of a week leaves the week, or what survives and the       *)
(* payload.                                                                *)
LEMMA ReplacedWeek ==
  ASSUME Shapes, NEW r \in Requests, ReplaceCommit(r)
  PROVE  /\ req[r] \in Replacing
         /\ \/ UNCHANGED <<week, version>>
            \/ LET b == req[r].barber
               IN /\ version[b] \in 0 .. MaxVersion /\ version[b] < MaxVersion
                  /\ week' = [week EXCEPT ![b] = Surviving(b, req[r].doomed) \cup
                               {[shift |-> s, from |-> version[b] + 1] : s \in req[r].payload}]
                  /\ version' = [version EXCEPT ![b] = @ + 1]
<1>1. req[r] \in Replacing
  BY InHand DEF ReplaceCommit
<1>2. req[r].barber \in Barbers /\ version[req[r].barber] \in 0 .. MaxVersion
  BY <1>1 DEF Replacing, Shapes, TypeOK
<1>3. version[req[r].barber] # MaxVersion => version[req[r].barber] < MaxVersion
  BY <1>2, ScheduleAssumption
<1> QED
  BY <1>1, <1>2, <1>3 DEF ReplaceCommit

-----------------------------------------------------------------------------
(* Types *)

LEMMA ShapesBeginning == Init => Shapes
<1> SUFFICES ASSUME Init PROVE Shapes
  OBVIOUS
<1>1. now \in 0 .. MaxTime /\ version \in [Barbers -> 0 .. MaxVersion]
  BY ScheduleAssumption DEF Init
<1>2. DOMAIN held = {} /\ held \in [DOMAIN held -> Slots]
  BY DEF Init, Book!Init
<1>3. week \in [Barbers -> SUBSET Rows] /\ \A b \in Barbers : \A w \in week[b] : w.from \in 0 .. version[b]
  BY ScheduleAssumption DEF Init, Rows, Shifts
<1>4. DOMAIN breaks = {} /\ closures = {} /\ active = Things /\ req = [r \in Requests |-> Idle]
  BY DEF Init
<1> QED
  BY <1>1, <1>2, <1>3, <1>4 DEF Shapes, TypeOK, Hands

LEMMA ShapesStep == Shapes /\ [Next]_vars => Shapes'
<1> SUFFICES ASSUME Shapes, [Next]_vars PROVE Shapes'
  OBVIOUS
<1>1. TypeOK /\ held \in [DOMAIN held -> Slots] /\ week \in [Barbers -> SUBSET Rows]
  BY DEF Shapes
<1> DEFINE Fits(h) == /\ h \in [DOMAIN h -> Slots] /\ DOMAIN h \subseteq Appts
                      /\ \A a \in DOMAIN h : h[a].barber \in Barbers /\ h[a].start \in Starts
<1>2. req \in [Requests -> Hands] /\ Fits(held)
  BY DEF Shapes, TypeOK
<1>3. \A h : h \in [DOMAIN h -> Slots] /\ DOMAIN h \subseteq Appts => Fits(h)
  BY SlotsAreSpans
(* Only one handler's hand changes.                                        *)
<1>4. ASSUME NEW r \in Requests, NEW q \in Hands, Hand(r, q),
             UNCHANGED <<now, held, breaks, closures, week, active, version>>
      PROVE  Shapes'
  BY <1>1, <1>2, <1>4 DEF Shapes, TypeOK, Hand
<1>5. Idle \in Hands
  BY DEF Hands
<1>6. ASSUME NEW r \in Requests, Begin(r) PROVE Shapes'
  <2>1. PICK s \in Starts, a \in Appts, b \in Barbers :
          Hand(r, [op |-> "book", stage |-> "active", move |-> a \in DOMAIN held,
                   appt |-> a, slot |-> Slot(b, s), beside |-> {}])
    BY <1>6 DEF Begin
  <2>2. (a \in DOMAIN held) \in BOOLEAN /\ "active" \in Stages /\ Slot(b, s) \in Slots
    BY SlotIsASlot DEF Stages
  <2>3. [op |-> "book", stage |-> "active", move |-> a \in DOMAIN held,
         appt |-> a, slot |-> Slot(b, s), beside |-> {}] \in Booking
    BY <2>2 DEF Booking
  <2> QED
    BY <1>4, <1>6, <2>1, <2>3 DEF Begin, Hands
<1>7. ASSUME NEW r \in Requests, Check(r) PROVE Shapes'
  <2>1. req[r] \in Booking /\ req[r].stage # "commit"
    BY <1>7, InHand DEF Check
  <2>2. After[req[r].stage] \in Stages
    BY <2>1 DEF Booking, Stages, After
  <2>3. [req[r] EXCEPT !.stage = After[req[r].stage]] \in Booking
    BY <2>1, <2>2 DEF Booking
  <2>4. \/ Hand(r, [req[r] EXCEPT !.stage = After[req[r].stage]])
        \/ Hand(r, Idle)
    BY <1>7 DEF Check
  <2> QED
    BY <1>4, <1>5, <1>7, <2>3, <2>4 DEF Check, Hands
<1>8. ASSUME NEW r \in Requests, CommitBooking(r) PROVE Shapes'
  <2>1. held' \in [DOMAIN held' -> Slots] /\ DOMAIN held' \subseteq Appts
    BY <1>8, CommittedBooking
  <2>2. req' \in [Requests -> Hands] /\ UNCHANGED <<now, breaks, closures, week, active, version>>
    BY <1>2, <1>5, <1>8, CommitIsNoted DEF CommitBooking, Kinds, Hand
  <2>3. Fits(held')
    BY <1>3, <2>1
  <2> QED
    BY <1>1, <2>2, <2>3 DEF Shapes, TypeOK
<1>9. ASSUME UNCHANGED <<now, breaks, closures, week, active, version, req>>,
             DOMAIN held' \subseteq DOMAIN held, held' = [a \in DOMAIN held' |-> held[a]]
      PROVE  Shapes'
  <2>1. held' \in [DOMAIN held' -> Slots] /\ DOMAIN held' \subseteq Appts
    BY <1>2, <1>9
  <2>2. Fits(held')
    BY <1>3, <2>1
  <2> QED
    BY <1>1, <1>2, <1>9, <2>2 DEF Shapes, TypeOK
<1>10. ASSUME Leave PROVE Shapes'
  <2>1. PICK a \in DOMAIN held : held' = [x \in DOMAIN held \ {a} |-> held[x]]
    BY <1>10 DEF Leave, Book!Release
  <2>2. DOMAIN held' = DOMAIN held \ {a}
    BY <2>1
  <2> QED
    BY <1>9, <1>10, <2>1, <2>2 DEF Leave
<1>11. ASSUME NEW r \in Requests, CheckBreak(r) \/ CheckClosure(r) \/ ReplaceDelete(r) \/ CheckDeactivate(r)
       PROVE  Shapes'
  <2>1. CASE CheckBreak(r)
    BY <1>4, <2>1 DEF CheckBreak, Hands, Blocking
  <2>2. CASE CheckClosure(r)
    BY <1>4, <2>2 DEF CheckClosure, Hands, Closing
  <2>3. CASE ReplaceDelete(r)
    <3>1. PICK b \in Barbers, payload \in Weeks :
            Hand(r, [op |-> "week", barber |-> b, payload |-> payload,
                     doomed |-> week[b], began |-> version[b]])
      BY <2>3 DEF ReplaceDelete
    <3>2. version[b] \in Nat
      BY <1>1, ScheduleAssumption DEF TypeOK
    <3> QED
      BY <1>1, <1>4, <2>3, <3>1, <3>2 DEF ReplaceDelete, Hands, Replacing
  <2>4. CASE CheckDeactivate(r)
    BY <1>4, <2>4 DEF CheckDeactivate, Hands, Deactivating
  <2> QED
    BY <1>11, <2>1, <2>2, <2>3, <2>4
<1>12. ASSUME NEW r \in Requests, Abandon(r) PROVE Shapes'
  BY <1>4, <1>5, <1>12 DEF Abandon
(* A table of the owner changes, and the hand is empty or as it was.       *)
<1>13. ASSUME UNCHANGED <<now, held, week, version>>, DOMAIN breaks' \subseteq BreakIds,
              closures' \subseteq ClosureRanges, active' \subseteq Things, req' \in [Requests -> Hands]
       PROVE  Shapes'
  BY <1>1, <1>13 DEF Shapes, TypeOK
<1>14. ASSUME NEW r \in Requests, CommitBreak(r) \/ CommitClosure(r) \/ CommitDeactivate(r)
       PROVE  Shapes'
  <2>1. req' \in [Requests -> Hands]
    BY <1>2, <1>5, <1>14, CommitIsNoted
       DEF CommitBreak, CommitClosure, CommitDeactivate, Kinds, Hand
  <2>2. CASE CommitBreak(r)
    BY <1>1, <1>13, <2>1, <2>2 DEF CommitBreak, TypeOK
  <2>3. CASE CommitClosure(r)
    <3>1. req[r].range \in ClosureRanges
      BY <2>3, InHand DEF CommitClosure, Closing
    <3> QED
      BY <1>1, <1>13, <2>1, <2>3, <3>1 DEF CommitClosure, TypeOK
  <2>4. CASE CommitDeactivate(r)
    BY <1>1, <1>13, <2>1, <2>4 DEF CommitDeactivate, TypeOK
  <2> QED
    BY <1>14, <2>2, <2>3, <2>4
<1>15. CASE DeleteBreak \/ DeleteClosure \/ Patch
  BY <1>1, <1>2, <1>13, <1>15 DEF DeleteBreak, DeleteClosure, Patch, TypeOK
<1>16. ASSUME NEW r \in Requests, ReplaceCommit(r) PROVE Shapes'
  <2>1. req' \in [Requests -> Hands] /\ UNCHANGED <<now, held, breaks, closures, active>>
    BY <1>2, <1>5, <1>16 DEF ReplaceCommit, Hand
  <2>2. CASE UNCHANGED <<week, version>>
    BY <1>13, <1>1, <2>1, <2>2 DEF TypeOK
  <2>3. CASE ~ UNCHANGED <<week, version>>
    <3>1. PICK b \in Barbers : b = req[r].barber
      BY <1>16, ReplacedWeek DEF Replacing
    <3>2. PICK fresh : fresh = {[shift |-> s, from |-> version[b] + 1] : s \in req[r].payload}
      OBVIOUS
    <3>3. /\ week' = [week EXCEPT ![b] = Surviving(b, req[r].doomed) \cup fresh]
          /\ version' = [version EXCEPT ![b] = @ + 1]
          /\ version[b] \in 0 .. MaxVersion /\ version[b] < MaxVersion
      BY <1>16, <2>3, <3>1, <3>2, ReplacedWeek
    <3>4. MaxVersion \in Nat /\ version \in [Barbers -> 0 .. MaxVersion]
      BY <1>1, ScheduleAssumption DEF TypeOK
    <3>5. version[b] + 1 \in 0 .. MaxVersion /\ version' \in [Barbers -> 0 .. MaxVersion]
      BY <3>3, <3>4
    <3>6. fresh \subseteq Rows /\ \A w \in fresh : w.from = version[b] + 1
      <4>1. req[r].payload \subseteq Shifts
        BY <1>16, ReplacedWeek DEF Replacing, Shifts
      <4>2. version[b] + 1 \in Nat
        BY <3>5
      <4> QED
        BY <3>2, <4>1, <4>2 DEF Rows
    <3>7. week' \in [Barbers -> SUBSET Rows]
      BY <1>1, <3>3, <3>6 DEF Surviving
    <3>8. ASSUME NEW c \in Barbers, NEW w \in week'[c] PROVE w.from \in 0 .. version'[c]
      <4>1. CASE c # b
        BY <1>1, <3>3, <4>1 DEF TypeOK
      <4>2. CASE c = b
        <5>1. version'[c] = version[b] + 1 /\ version[b] \in Nat
          BY <3>3, <3>4, <4>2
        <5>2. w \in week[b] \/ w \in fresh
          BY <1>1, <3>3, <4>2 DEF Surviving
        <5>3. w.from \in 0 .. version[b] \/ w.from = version[b] + 1
          BY <1>1, <3>6, <5>2 DEF TypeOK
        <5> QED
          BY <5>1, <5>3
      <4> QED
        BY <4>1, <4>2
    <3> QED
      BY <1>1, <2>1, <3>5, <3>7, <3>8 DEF Shapes, TypeOK
  <2> QED
    BY <2>2, <2>3
<1>17. CASE Tick
  BY <1>1, <1>2, <1>17, ScheduleAssumption DEF Tick, Shapes, TypeOK
<1>18. CASE UNCHANGED vars
  BY <1>1, <1>2, <1>18 DEF vars, Shapes, TypeOK
<1> QED
  BY <1>6, <1>7, <1>8, <1>10, <1>11, <1>12, <1>14, <1>15, <1>16, <1>17, <1>18 DEF Next

(* Every row has its type, whatever the handlers do to one another.        *)
THEOREM TypesHold == Spec => []TypeOK
<1>1. Shapes => TypeOK
  BY DEF Shapes
<1> QED
  BY <1>1, ShapesBeginning, ShapesStep, PTL DEF Spec

-----------------------------------------------------------------------------
(* Days *)

(* A time is in day d, or a later one, from the first tick of d on.        *)
LEMMA DayBegins ==
  ASSUME NEW t \in Nat, NEW d \in Nat
  PROVE  /\ Day(t) \in Nat
         /\ Day(t) >= d <=> d * DayLength <= t
<1> DEFINE L == DayLength
           q == t \div L
<1>1. L \in Nat /\ L > 0
  BY ScheduleAssumption
<1> HIDE DEF L
<1>2. q \in Nat /\ L * q <= t /\ t < L * q + L
  <2>1. ASSUME NEW n \in Nat, NEW l \in Nat, l > 0
        PROVE  n \div l \in Nat /\ l * (n \div l) <= n /\ n < l * (n \div l) + l
    BY <2>1
  <2> QED
    BY <1>1, <2>1
<1> HIDE DEF q
<1>3. ASSUME NEW m \in Nat, NEW n \in Nat, m <= n PROVE m * L <= n * L
  <2>1. PICK k \in Nat : n = m + k
    <3>1. n - m \in Nat /\ n = m + (n - m)
      BY <1>3
    <3> QED
      BY <3>1
  <2>2. n * L = m * L + k * L /\ k * L \in Nat /\ m * L \in Nat
    BY <1>1, <2>1
  <2> QED
    BY <2>2
<1>4. d * L \in Nat /\ q * L = L * q /\ (q + 1) * L = L * q + L /\ L * q \in Nat
  BY <1>1, <1>2
<1>5. q >= d => d * L <= t
  BY <1>2, <1>3, <1>4
<1>6. ~ q >= d => ~ d * L <= t
  <2>1. q + 1 \in Nat /\ (~ q >= d => q + 1 <= d)
    BY <1>2
  <2>2. ~ q >= d => (q + 1) * L <= d * L
    BY <1>3, <2>1
  <2> QED
    BY <1>1, <1>2, <1>4, <2>2
<1> QED
  BY <1>2, <1>5, <1>6 DEF Day, L, q

(* A slot that ends on the day on which it begins.                         *)
OneDay(slot) == Day(slot.end - 1) = Day(slot.start)

LEMMA WithinTheDay ==
  ASSUME NEW s \in Slots, NEW T, s.start .. (s.end - 1) \subseteq T \cap DayTicks(Day(s.start))
  PROVE  OneDay(s)
<1>1. s.start \in Nat /\ s.end - 1 \in Nat /\ s.end - 1 \in DayTicks(Day(s.start))
  BY SlotsAreSpans
<1>2. PICK d \in Nat : d = Day(s.start)
  BY <1>1, DayBegins
<1>3. s.end - 1 \in d * DayLength .. (d + 1) * DayLength - 1
  BY <1>1, <1>2 DEF DayTicks
<1>4. d * DayLength \in Nat /\ (d + 1) * DayLength \in Nat
  BY ScheduleAssumption
<1>5. d * DayLength <= s.end - 1 /\ ~ (d + 1) * DayLength <= s.end - 1
  BY <1>1, <1>3, <1>4
<1>6. Day(s.end - 1) \in Nat /\ Day(s.end - 1) >= d /\ ~ Day(s.end - 1) >= d + 1
  BY <1>1, <1>5, DayBegins
<1>7. Day(s.end - 1) = d
  BY <1>6
<1> QED
  BY <1>2, <1>7 DEF OneDay

(* A closure for which no appointment overlaps the window shuts no day of  *)
(* an appointment.                                                         *)
LEMMA WindowCoversTheDays ==
  ASSUME NEW s \in Slots, OneDay(s), NEW c \in ClosureRanges,
         ~ Clash(s.start, s.end, ClosureWindow(c))
  PROVE  {Day(s.start), Day(s.end - 1)} \cap (c.from .. c.to) = {}
<1>1. c.from \in Nat /\ c.to \in Nat /\ s.start \in Nat /\ s.end \in Nat /\ s.start < s.end
  BY SlotsAreSpans, ScheduleAssumption
<1>2. ~ (s.start < (c.to + 1) * DayLength /\ c.from * DayLength < s.end)
  BY DEF Clash, ClosureWindow
<1>3. (c.to + 1) * DayLength \in Nat /\ c.from * DayLength \in Nat
  BY <1>1, ScheduleAssumption
<1>4. ~ ((c.to + 1) * DayLength > s.start /\ c.from * DayLength <= s.start)
  BY <1>1, <1>2, <1>3
<1>5. /\ Day(s.start) \in Nat
      /\ Day(s.start) >= c.from <=> c.from * DayLength <= s.start
      /\ Day(s.start) >= c.to + 1 <=> (c.to + 1) * DayLength <= s.start
  BY <1>1, DayBegins
<1>6. Day(s.start) \notin c.from .. c.to
  BY <1>1, <1>3, <1>4, <1>5
<1> QED
  BY <1>6 DEF OneDay

-----------------------------------------------------------------------------
(* What a handler has established when it goes on to its next statement,   *)
(* unless the history says that it has been overtaken.                     *)
Prepared(q) ==
  /\ q.op = "book" =>
       /\ q.stage \in {"shifts", "taken", "breaks", "commit"} /\ "closure" \notin q.beside
            => ~ IsClosed(Day(q.slot.start))
       /\ q.stage \in {"taken", "breaks", "commit"} => OneDay(q.slot)
       /\ q.stage = "commit" /\ "break" \notin q.beside => NotInBreak(q.slot)
  /\ q.op = "break" /\ "book" \notin q.beside => AppointmentsOverlapping(q.barber, q.span) = {}
  /\ q.op = "closure" /\ "book" \notin q.beside =>
       \A b \in Barbers : AppointmentsOverlapping(b, ClosureWindow(q.range)) = {}
  /\ q.op = "week" =>
       /\ q.began <= version[q.barber]
       /\ \A w \in week[q.barber] : w.from <= q.began => w \in q.doomed
  /\ q.op = "deactivate" /\ "book" \notin q.beside => NoneUpcoming(q.thing)

Ready == \A r \in Requests : Prepared(req[r])

SlotsAreOneDay == \A a \in DOMAIN held : OneDay(held[a])

(* The inductive invariant.                                                *)
IInv == Shapes /\ Ready /\ SlotsAreOneDay

(* Everything that happens besides the handlers only takes away what a     *)
(* check has to fear.                                                      *)
Recedes ==
  /\ now' >= now /\ week' = week /\ version' = version /\ req' = req
  /\ \A a \in DOMAIN held' : a \in DOMAIN held /\ held'[a] = held[a]
  /\ \A k \in DOMAIN breaks' : k \in DOMAIN breaks /\ breaks'[k] = breaks[k]
  /\ closures' \subseteq closures

Background == Leave \/ DeleteBreak \/ DeleteClosure \/ Patch \/ Tick \/ UNCHANGED vars

LEMMA BackgroundRecedes == ASSUME Shapes, Background PROVE Recedes
<1>1. now \in Nat
  BY ScheduleAssumption DEF Shapes, TypeOK
<1>2. CASE Leave
  BY <1>1, <1>2 DEF Leave, Book!Release, Recedes
<1>3. CASE DeleteBreak
  BY <1>1, <1>3 DEF DeleteBreak, Recedes
<1>4. CASE DeleteClosure \/ Patch \/ Tick \/ UNCHANGED vars
  BY <1>1, <1>4 DEF DeleteClosure, Patch, Tick, vars, Recedes
<1> QED
  BY <1>2, <1>3, <1>4 DEF Background

LEMMA PreparedStays ==
  ASSUME Shapes, Recedes, now' \in Nat, NEW q, Prepared(q)
  PROVE  Prepared(q)'
<1>1. ASSUME NEW b, NEW span, AppointmentsOverlapping(b, span) = {}
      PROVE  AppointmentsOverlapping(b, span)' = {}
  BY <1>1 DEF AppointmentsOverlapping, Recedes, Clash
<1>2. ASSUME NEW t, NoneUpcoming(t) PROVE NoneUpcoming(t)'
  <2>1. now \in Nat /\ \A a \in DOMAIN held : held[a].start \in Nat
    BY ScheduleAssumption, SlotsAreSpans DEF Shapes, TypeOK
  <2>2. ASSUME NEW a \in DOMAIN held', held'[a].start >= now', t \in Barbers => held'[a].barber = t
        PROVE  FALSE
    <3>1. a \in DOMAIN held /\ held'[a] = held[a] /\ now' >= now
      BY DEF Recedes
    <3>2. a \in Upcoming(t)
      BY <2>1, <2>2, <3>1 DEF Upcoming
    <3> QED
      BY <1>2, <3>2 DEF NoneUpcoming
  <2> QED
    BY <2>2 DEF NoneUpcoming, Upcoming
<1>3. ASSUME NEW slot, NotInBreak(slot) PROVE NotInBreak(slot)'
  BY <1>3 DEF NotInBreak, Recedes, Clash
<1>4. ASSUME NEW d, ~ IsClosed(d) PROVE ~ IsClosed(d)'
  BY <1>4 DEF IsClosed, Recedes
<1> QED
  BY <1>1, <1>2, <1>3, <1>4 DEF Prepared, Recedes, OneDay, Day, ClosureWindow

LEMMA BackgroundStep == ASSUME IInv, Shapes', Background PROVE IInv'
<1>1. Recedes /\ now' \in Nat
  BY BackgroundRecedes, ScheduleAssumption DEF IInv, Shapes, TypeOK
<1>2. Ready'
  <2>1. ASSUME NEW r \in Requests PROVE Prepared(req[r])'
    <3>1. PICK q : q = req[r]
      OBVIOUS
    <3>2. Prepared(q)'
      BY <1>1, <3>1, PreparedStays DEF IInv, Ready
    <3>3. req'[r] = q
      BY <1>1, <3>1 DEF Recedes
    <3> QED
      BY <3>2, <3>3
  <2> QED
    BY <2>1 DEF Ready
<1>3. SlotsAreOneDay'
  BY <1>1 DEF IInv, SlotsAreOneDay, Recedes, OneDay, Day
<1> QED
  BY <1>2, <1>3 DEF IInv

-----------------------------------------------------------------------------
(* The steps of the handlers *)

Freezes == UNCHANGED <<now, held, breaks, closures, week, version>>

LEMMA FrozenStaysPrepared == ASSUME Freezes, NEW q, Prepared(q) PROVE Prepared(q)'
BY DEF Freezes, Prepared, AppointmentsOverlapping, IsClosed, NotInBreak, NoneUpcoming, Upcoming,
       Clash, ClosureWindow, OneDay, Day

LEMMA IdleIsPrepared == Prepared(Idle)
BY DEF Prepared, Idle

LEMMA IdleStaysPrepared == Prepared(Idle)'
BY DEF Prepared, Idle

(* A handler that has gone on with what it may go on with.                 *)
LEMMA HandStep ==
  ASSUME IInv, Shapes', Freezes, NEW r \in Requests, NEW q, Prepared(q),
         Hand(r, q)
  PROVE  IInv'
<1>1. ASSUME NEW p \in Requests PROVE Prepared(req[p])'
  <2>1. PICK x : x = req'[p] /\ Prepared(x)
    BY DEF IInv, Ready, Shapes, Hand
  <2>2. Prepared(x)'
    BY <2>1, FrozenStaysPrepared
  <2> QED
    BY <2>1, <2>2
<1>2. Ready'
  BY <1>1 DEF Ready
<1>3. SlotsAreOneDay'
  BY DEF Freezes, IInv, SlotsAreOneDay, OneDay, Day
<1> QED
  BY <1>2, <1>3 DEF IInv

LEMMA CheckPrepares ==
  ASSUME IInv, NEW r \in Requests, Check(r), Passes(req[r].stage, req[r].slot, req[r].appt)
  PROVE  Prepared([req[r] EXCEPT !.stage = After[req[r].stage]])
<1>1. req[r] \in Booking /\ req[r].stage \in Stages \ {"commit"} /\ Prepared(req[r])
  BY InHand DEF IInv, Check, Ready, Booking
<1>2. PICK stage \in Stages \ {"commit"} : stage = req[r].stage
  BY <1>1
<1>3. PICK slot \in Slots : slot = req[r].slot
  BY <1>1 DEF Booking
<1>4. PICK q : q = [req[r] EXCEPT !.stage = After[req[r].stage]]
  OBVIOUS
<1>5. q.op = "book" /\ q.stage = After[stage] /\ q.slot = slot /\ q.beside = req[r].beside
  BY <1>1, <1>2, <1>3, <1>4 DEF Booking
<1>6. CASE stage = "active"
  BY <1>4, <1>5, <1>6 DEF Prepared, After
<1>7. CASE stage = "closure"
  BY <1>2, <1>3, <1>4, <1>5, <1>7 DEF Prepared, After, Passes
<1>8. CASE stage = "shifts"
  <2>1. "closure" \in q.beside \/ ~ IsClosed(Day(slot.start))
    BY <1>1, <1>2, <1>3, <1>5, <1>8 DEF Prepared, Booking
  <2>2. slot.start .. (slot.end - 1) \subseteq WorkingTicks(slot.barber) \cap DayTicks(Day(slot.start))
    BY <1>2, <1>3, <1>8 DEF Passes
  <2>3. OneDay(slot)
    BY <2>2, WithinTheDay
  <2> QED
    BY <1>4, <1>5, <1>8, <2>1, <2>3 DEF Prepared, After
<1>9. CASE stage = "taken"
  BY <1>1, <1>2, <1>3, <1>4, <1>5, <1>9 DEF Prepared, After, Booking
<1>10. CASE stage = "breaks"
  <2>1. ("closure" \in q.beside \/ ~ IsClosed(Day(slot.start))) /\ OneDay(slot)
    BY <1>1, <1>2, <1>3, <1>5, <1>10 DEF Prepared, Booking
  <2>2. NotInBreak(slot)
    BY <1>2, <1>3, <1>10 DEF Passes
  <2> QED
    BY <1>4, <1>5, <1>10, <2>1, <2>2 DEF Prepared, After
<1> QED
  BY <1>6, <1>7, <1>8, <1>9, <1>10 DEF Stages

LEMMA ChecksStep ==
  ASSUME IInv, Shapes', NEW r \in Requests,
         \/ Begin(r) \/ Check(r) \/ CheckBreak(r) \/ CheckClosure(r)
         \/ ReplaceDelete(r) \/ CheckDeactivate(r) \/ CommitDeactivate(r) \/ Abandon(r)
  PROVE  IInv'
<1>1. Freezes
  BY DEF Begin, Check, CheckBreak, CheckClosure, ReplaceDelete, CheckDeactivate,
         CommitDeactivate, Abandon, Freezes
<1>2. CASE Begin(r)
  <2>1. PICK q : q.op = "book" /\ q.stage = "active" /\ Hand(r, q)
    BY <1>2 DEF Begin
  <2>2. Prepared(q)
    BY <2>1 DEF Prepared
  <2> QED
    BY <1>1, <2>1, <2>2, HandStep
<1>3. CASE Check(r)
  <2>1. CASE Passes(req[r].stage, req[r].slot, req[r].appt)
    BY <1>1, <1>3, <2>1, CheckPrepares, HandStep DEF Check
  <2>2. CASE ~ Passes(req[r].stage, req[r].slot, req[r].appt)
    BY <1>1, <1>3, <2>2, IdleIsPrepared, HandStep DEF Check
  <2> QED
    BY <2>1, <2>2
<1>4. CASE CheckBreak(r)
  <2>1. PICK b \in Barbers, span \in BreakSpans :
          /\ AppointmentsOverlapping(b, span) = {}
          /\ Hand(r, [op |-> "break", barber |-> b, span |-> span, beside |-> {}])
    BY <1>4 DEF CheckBreak
  <2>2. Prepared([op |-> "break", barber |-> b, span |-> span, beside |-> {}])
    BY <2>1 DEF Prepared
  <2> QED
    BY <1>1, <2>1, <2>2, HandStep
<1>5. CASE CheckClosure(r)
  <2>1. PICK c \in ClosureRanges :
          /\ \A b \in Barbers : AppointmentsOverlapping(b, ClosureWindow(c)) = {}
          /\ Hand(r, [op |-> "closure", range |-> c, beside |-> {}])
    BY <1>5 DEF CheckClosure
  <2>2. Prepared([op |-> "closure", range |-> c, beside |-> {}])
    BY <2>1 DEF Prepared
  <2> QED
    BY <1>1, <2>1, <2>2, HandStep
<1>6. CASE ReplaceDelete(r)
  <2>1. PICK b \in Barbers, payload \in Weeks :
          Hand(r, [op |-> "week", barber |-> b, payload |-> payload,
                   doomed |-> week[b], began |-> version[b]])
    BY <1>6 DEF ReplaceDelete
  <2>2. Prepared([op |-> "week", barber |-> b, payload |-> payload,
                  doomed |-> week[b], began |-> version[b]])
    BY ScheduleAssumption DEF Prepared, IInv, Shapes, TypeOK
  <2> QED
    BY <1>1, <2>1, <2>2, HandStep
<1>7. CASE CheckDeactivate(r)
  <2>1. PICK t \in Things :
          NoneUpcoming(t) /\ Hand(r, [op |-> "deactivate", thing |-> t, beside |-> {}])
    BY <1>7 DEF CheckDeactivate
  <2>2. Prepared([op |-> "deactivate", thing |-> t, beside |-> {}])
    BY <2>1 DEF Prepared
  <2> QED
    BY <1>1, <2>1, <2>2, HandStep
<1>8. CASE Abandon(r) \/ CommitDeactivate(r)
  BY <1>1, <1>8, IdleIsPrepared, HandStep DEF Abandon, CommitDeactivate
<1> QED
  BY <1>2, <1>3, <1>4, <1>5, <1>6, <1>7, <1>8

-----------------------------------------------------------------------------
(* The commits: what the others have established stays so, or the history  *)
(* says that they have been overtaken.                                     *)

Steady(kind) ==
  /\ UNCHANGED <<now, week, version>>
  /\ kind = "book"    => UNCHANGED <<breaks, closures>>
  /\ kind = "break"   => UNCHANGED <<held, closures>>
  /\ kind = "closure" => UNCHANGED <<held, breaks>>

LEMMA NotedStaysPrepared ==
  ASSUME NEW kind \in Kinds, Steady(kind), NEW p, NEW q, Prepared(p), Noted(kind, p, q),
         p.op = "book" => p.stage \in Stages
  PROVE  Prepared(q)'
<1>1. CASE kind = "book"
  BY <1>1 DEF Steady, Noted, Looked, Prepared, IsClosed, NotInBreak, Clash, OneDay, Day
<1>2. CASE kind = "break"
  <2>1. UNCHANGED <<now, week, version, held, closures>>
    BY <1>2 DEF Steady
  <2>2. q = p \/ p.op = "book"
    BY <1>2 DEF Noted, Looked
  <2>3. CASE p.op # "book"
    BY <2>1, <2>2, <2>3 DEF Prepared, AppointmentsOverlapping, NoneUpcoming, Upcoming,
       Clash, ClosureWindow
  <2>4. CASE p.op = "book"
    BY <1>2, <2>1, <2>4 DEF Noted, Looked, Stages, Prepared, IsClosed, OneDay, Day
  <2> QED BY <2>3, <2>4
<1>3. CASE kind = "closure"
  <2>1. UNCHANGED <<now, week, version, held, breaks>>
    BY <1>3 DEF Steady
  <2>2. q = p \/ p.op = "book"
    BY <1>3 DEF Noted, Looked
  <2>3. CASE p.op # "book"
    BY <2>1, <2>2, <2>3 DEF Prepared, AppointmentsOverlapping, NoneUpcoming, Upcoming,
       Clash, ClosureWindow
  <2>4. CASE p.op = "book"
    BY <1>3, <2>1, <2>4 DEF Noted, Looked, Stages, Prepared, NotInBreak, Clash, OneDay, Day
  <2> QED BY <2>3, <2>4
<1> QED BY <1>1, <1>2, <1>3 DEF Kinds

LEMMA CommitLeavesReady ==
  ASSUME IInv, NEW r \in Requests, NEW kind \in Kinds, Commit(r, kind), Steady(kind)
  PROVE  Ready'
<1>1. /\ req'[r] = Idle
      /\ \A x \in Requests \ {r} : Noted(kind, req[x], req'[x])
  BY CommitIsNoted DEF IInv
<1>2. ASSUME NEW x \in Requests PROVE Prepared(req[x])'
  <2>1. CASE x = r
    BY <1>1, <2>1, IdleStaysPrepared
  <2>2. CASE x # r
    <3>1. PICK p, q : p = req[x] /\ q = req'[x]
      OBVIOUS
    <3>2. Prepared(p) /\ (p.op = "book" => p.stage \in Stages)
      BY <3>1, InHand DEF IInv, Ready, Booking
    <3>3. Noted(kind, p, q)
      BY <1>1, <2>2, <3>1
    <3>4. Prepared(q)'
      BY <3>2, <3>3, NotedStaysPrepared
    <3> QED BY <3>1, <3>4
  <2> QED BY <2>1, <2>2
<1> QED BY <1>2 DEF Ready

(* What a booking is about to write when it commits.                       *)
LEMMA BookedSlot ==
  ASSUME IInv, NEW r \in Requests, CommitBooking(r)
  PROVE  \E slot \in Slots :
           /\ slot = req[r].slot /\ OneDay(slot)
           /\ "closure" \in req[r].beside \/ ~ IsClosed(Day(slot.start))
           /\ "break" \in req[r].beside \/ NotInBreak(slot)
           /\ \A a \in DOMAIN held' : \/ (a \in DOMAIN held /\ held'[a] = held[a])
                                     \/ held'[a] = slot
<1>1. Shapes /\ Prepared(req[r]) /\ req[r] \in Booking /\ req[r].stage = "commit"
  BY CommittedBooking DEF IInv, Ready
<1> QED
  BY <1>1, CommittedBooking DEF Prepared, Booking

LEMMA CommitBookingStep ==
  ASSUME IInv, Shapes', NEW r \in Requests, CommitBooking(r)
  PROVE  IInv'
<1>1. CASE UNCHANGED held /\ Hand(r, Idle)
  <2>1. Freezes
    BY <1>1 DEF CommitBooking, Freezes
  <2> QED BY <1>1, <2>1, IdleIsPrepared, HandStep
<1>2. CASE Commit(r, "book")
  <2>1. Steady("book")
    BY DEF CommitBooking, Steady
  <2>2. Ready'
    BY <1>2, <2>1, CommitLeavesReady DEF Kinds
  <2>3. \A a \in DOMAIN held' : OneDay(held'[a])
    BY BookedSlot DEF IInv, SlotsAreOneDay
  <2> QED BY <2>2, <2>3 DEF IInv, SlotsAreOneDay, OneDay, Day
<1> QED BY <1>1, <1>2 DEF CommitBooking

LEMMA BlockingCommitStep ==
  ASSUME IInv, Shapes', NEW r \in Requests, CommitBreak(r) \/ CommitClosure(r)
  PROVE  IInv'
<1>1. Ready'
  <2>1. CASE CommitBreak(r)
    <3>1. Commit(r, "break") /\ Steady("break")
      BY <2>1 DEF CommitBreak, Steady
    <3> QED BY <3>1, CommitLeavesReady DEF Kinds
  <2>2. CASE CommitClosure(r)
    <3>1. Commit(r, "closure") /\ Steady("closure")
      BY <2>2 DEF CommitClosure, Steady
    <3> QED BY <3>1, CommitLeavesReady DEF Kinds
  <2> QED BY <2>1, <2>2
<1>2. SlotsAreOneDay'
  BY DEF CommitBreak, CommitClosure, IInv, SlotsAreOneDay, OneDay, Day
<1> QED BY <1>1, <1>2 DEF IInv

(* The rows that a replacement inserts are younger than any replacement    *)
(* that is under way, and those that survive it were there before.         *)
LEMMA ReplaceCommitStep ==
  ASSUME IInv, Shapes', NEW r \in Requests, ReplaceCommit(r)
  PROVE  IInv'
<1>1. UNCHANGED <<now, held, breaks, closures>> /\ Hand(r, Idle) /\ Shapes
  BY DEF ReplaceCommit, IInv
<1>2. ASSUME NEW c \in Barbers
      PROVE  /\ version[c] \in Nat /\ version'[c] \in Nat /\ version[c] <= version'[c]
             /\ \A w \in week'[c] : w \in week[c] \/ w.from > version[c]
  <2>1. version \in [Barbers -> 0 .. MaxVersion] /\ week \in [Barbers -> SUBSET Rows]
    BY <1>1 DEF Shapes, TypeOK
  <2>2. version[c] \in Nat
    BY <2>1, ScheduleAssumption
  <2>3. CASE UNCHANGED <<week, version>>
    BY <2>2, <2>3
  <2>4. CASE ~ UNCHANGED <<week, version>>
    <3>1. PICK b \in Barbers : b = req[r].barber
      BY <1>1, ReplacedWeek DEF Replacing
    <3>2. PICK fresh : fresh = {[shift |-> s, from |-> version[b] + 1] : s \in req[r].payload}
      OBVIOUS
    <3>3. /\ week' = [week EXCEPT ![b] = Surviving(b, req[r].doomed) \cup fresh]
          /\ version' = [version EXCEPT ![b] = @ + 1]
      BY <1>1, <2>4, <3>1, <3>2, ReplacedWeek
    <3>4. \A w \in fresh : w.from = version[b] + 1
      BY <3>2
    <3>5. CASE c = b
      BY <2>1, <2>2, <3>3, <3>4, <3>5 DEF Surviving
    <3>6. CASE c # b
      BY <2>1, <2>2, <3>3, <3>6
    <3> QED BY <3>5, <3>6
  <2> QED BY <2>3, <2>4
<1>3. ASSUME NEW x \in Requests PROVE Prepared(req[x])'
  <2>1. CASE x = r
    BY <1>1, <2>1, IdleStaysPrepared DEF Hand, Shapes
  <2>2. CASE x # r
    <3>1. PICK q : q = req[x] /\ q = req'[x] /\ Prepared(q)
      BY <1>1, <2>2 DEF Hand, Shapes, IInv, Ready
    <3>2. CASE q.op # "week"
      <4>1. Prepared(q)'
        BY <1>1, <3>1, <3>2 DEF Prepared, AppointmentsOverlapping, IsClosed, NotInBreak,
           NoneUpcoming, Upcoming, Clash, ClosureWindow, OneDay, Day
      <4> QED BY <3>1, <4>1
    <3>3. CASE q.op = "week"
      <4>1. q.barber \in Barbers /\ q.began \in Nat
        BY <1>1, <3>1, <3>3, InHand DEF Replacing
      <4>2. PICK c \in Barbers : c = q.barber
        BY <4>1
      <4>3. q.began <= version[c] /\ \A w \in week[c] : w.from <= q.began => w \in q.doomed
        BY <3>1, <3>3, <4>2 DEF Prepared
      <4>4. q.began <= version'[c]
        BY <1>2, <4>1, <4>3
      <4>5. ASSUME NEW w \in week'[c], w.from <= q.began PROVE w \in q.doomed
        <5>1. w \in week[c] \/ w.from > version[c]
          BY <1>2
        <5>2. w.from \in Nat /\ version[c] \in Nat
          BY <1>2 DEF Shapes, Rows
        <5> QED BY <4>1, <4>3, <4>5, <5>1, <5>2
      <4>6. Prepared(q)'
        BY <3>3, <4>2, <4>4, <4>5 DEF Prepared
      <4> QED BY <3>1, <4>6
    <3> QED BY <3>2, <3>3
  <2> QED BY <2>1, <2>2
<1>4. SlotsAreOneDay'
  BY <1>1 DEF IInv, SlotsAreOneDay, OneDay, Day
<1> QED BY <1>3, <1>4 DEF IInv, Ready

LEMMA Inductive == Spec => []IInv
<1>1. Init => IInv
  <2> SUFFICES ASSUME Init PROVE IInv
    OBVIOUS
  <2>1. Shapes /\ DOMAIN held = {} /\ req = [r \in Requests |-> Idle]
    BY ShapesBeginning DEF Init, Book!Init
  <2>2. Ready
    BY <2>1, IdleIsPrepared DEF Ready
  <2> QED
    BY <2>1, <2>2 DEF IInv, SlotsAreOneDay
<1>2. IInv /\ [Next]_vars => IInv'
  <2> SUFFICES ASSUME IInv, [Next]_vars PROVE IInv'
    OBVIOUS
  <2>1. Shapes'
    BY ShapesStep DEF IInv
  <2>2. CASE Background
    BY <2>1, <2>2, BackgroundStep
  <2>3. CASE \E r \in Requests :
               \/ Begin(r) \/ Check(r) \/ CheckBreak(r) \/ CheckClosure(r)
               \/ ReplaceDelete(r) \/ CheckDeactivate(r) \/ CommitDeactivate(r) \/ Abandon(r)
    BY <2>1, <2>3, ChecksStep
  <2>4. CASE \E r \in Requests :
               CommitBooking(r) \/ CommitBreak(r) \/ CommitClosure(r) \/ ReplaceCommit(r)
    BY <2>1, <2>4, CommitBookingStep, BlockingCommitStep, ReplaceCommitStep
  <2> QED
    BY <2>2, <2>3, <2>4 DEF Next, Background
<1> QED
  BY <1>1, <1>2, PTL DEF Spec

-----------------------------------------------------------------------------
(* What the looks are for *)

(* A step after which every clash is one that was there before.            *)
LEMMA NoNewClash ==
  ASSUME \A a \in DOMAIN held', k \in DOMAIN breaks' :
           held'[a].barber = breaks'[k].barber /\ Clash(held'[a].start, held'[a].end, breaks'[k])
             => \E x \in DOMAIN held, l \in DOMAIN breaks :
                  held[x] = held'[a] /\ breaks[l] = breaks'[k]
  PROVE  InBreaks' \subseteq InBreaks
<1> SUFFICES ASSUME NEW p \in InBreaks' PROVE p \in InBreaks
  OBVIOUS
<1>1. PICK a \in DOMAIN held', k \in DOMAIN breaks' :
        /\ p = <<held'[a], breaks'[k]>>
        /\ p[1].barber = p[2].barber /\ Clash(p[1].start, p[1].end, p[2])
  BY DEF InBreaks, Clash
<1>2. PICK x \in DOMAIN held, l \in DOMAIN breaks : held[x] = held'[a] /\ breaks[l] = breaks'[k]
  BY <1>1
<1> QED
  BY <1>1, <1>2 DEF InBreaks

LEMMA NoNewClosedDay ==
  ASSUME \A a \in DOMAIN held', c \in closures' :
           {Day(held'[a].start), Day(held'[a].end - 1)} \cap (c.from .. c.to) # {}
             => c \in closures /\ \E x \in DOMAIN held : held[x] = held'[a]
  PROVE  OnClosedDays' \subseteq OnClosedDays
<1> SUFFICES ASSUME NEW p \in OnClosedDays' PROVE p \in OnClosedDays
  OBVIOUS
<1>1. PICK a \in DOMAIN held', c \in closures' :
        /\ p = <<held'[a], c>>
        /\ {Day(p[1].start), Day(p[1].end - 1)} \cap (p[2].from .. p[2].to) # {}
  BY DEF OnClosedDays, Day
<1>2. c \in closures /\ \E x \in DOMAIN held : held[x] = held'[a]
  BY <1>1
<1> QED
  BY <1>1, <1>2 DEF OnClosedDays

(* The steps that write neither appointments, breaks nor closures, or only *)
(* remove some.                                                            *)
LEMMA QuietStep ==
  ASSUME Shapes, Background \/ Freezes
           \/ \E r \in Requests : ReplaceCommit(r) \/ CommitDeactivate(r)
  PROVE  /\ \A a \in DOMAIN held' : a \in DOMAIN held /\ held'[a] = held[a]
         /\ \A k \in DOMAIN breaks' : k \in DOMAIN breaks /\ breaks'[k] = breaks[k]
         /\ closures' \subseteq closures
<1>1. CASE Background
  BY <1>1, BackgroundRecedes DEF Recedes
<1>2. CASE Freezes
  BY <1>2 DEF Freezes
<1>3. CASE \E r \in Requests : ReplaceCommit(r) \/ CommitDeactivate(r)
  BY <1>3 DEF ReplaceCommit, CommitDeactivate
<1> QED BY <1>1, <1>2, <1>3

LEMMA Steps ==
  ASSUME [Next]_vars
  PROVE  \/ Background \/ Freezes
         \/ \E r \in Requests : ReplaceCommit(r) \/ CommitDeactivate(r)
         \/ \E r \in Requests : CommitBooking(r) \/ CommitBreak(r) \/ CommitClosure(r)
<1>1. ASSUME NEW r \in Requests,
             \/ Begin(r) \/ Check(r) \/ CheckBreak(r) \/ CheckClosure(r)
             \/ ReplaceDelete(r) \/ CheckDeactivate(r) \/ Abandon(r)
      PROVE  Freezes
  BY <1>1 DEF Begin, Check, CheckBreak, CheckClosure, ReplaceDelete, CheckDeactivate, Abandon,
     Freezes
<1> QED BY <1>1 DEF Next, Background

(* Whatever handlers overlap: an appointment and a break of its barber     *)
(* come to clash only by the commit of a handler that was overtaken.       *)
THEOREM NobodyIsBookedInABreak == Spec => BreaksAreKept
<1> DEFINE Kept ==
      \/ InBreaks' \subseteq InBreaks
      \/ \E r \in Requests : \/ CommitBooking(r) /\ "break" \in req[r].beside
                             \/ CommitBreak(r) /\ "book" \in req[r].beside
<1>1. ASSUME IInv, [Next]_vars PROVE Kept
  <2>1. CASE Background \/ Freezes \/ \E r \in Requests : ReplaceCommit(r) \/ CommitDeactivate(r)
    BY <1>1, <2>1, QuietStep, NoNewClash DEF IInv
  <2>2. ASSUME NEW r \in Requests, CommitBooking(r), "break" \notin req[r].beside
        PROVE  InBreaks' \subseteq InBreaks
    <3>1. PICK slot : NotInBreak(slot) /\ \A a \in DOMAIN held' :
            (a \in DOMAIN held /\ held'[a] = held[a]) \/ held'[a] = slot
      BY <1>1, <2>2, BookedSlot
    <3>2. UNCHANGED breaks
      BY <2>2 DEF CommitBooking
    <3>3. ASSUME NEW a \in DOMAIN held', NEW k \in DOMAIN breaks',
                 held'[a].barber = breaks'[k].barber,
                 Clash(held'[a].start, held'[a].end, breaks'[k])
          PROVE  a \in DOMAIN held /\ held'[a] = held[a]
      BY <3>1, <3>2, <3>3 DEF NotInBreak
    <3> QED BY <3>2, <3>3, NoNewClash
  <2>3. ASSUME NEW r \in Requests, CommitBreak(r), "book" \notin req[r].beside
        PROVE  InBreaks' \subseteq InBreaks
    <3>1. Prepared(req[r]) /\ req[r].op = "break" /\ UNCHANGED held
      BY <1>1, <2>3 DEF IInv, Ready, CommitBreak
    <3>2. PICK b, span : b = req[r].barber /\ span = req[r].span
      OBVIOUS
    <3>3. PICK k : breaks' = [x \in DOMAIN breaks \cup {k} |->
                                IF x = k THEN [barber |-> b, start |-> span.start, end |-> span.end]
                                ELSE breaks[x]]
      BY <2>3, <3>2 DEF CommitBreak
    <3>4. AppointmentsOverlapping(b, span) = {}
      BY <2>3, <3>1, <3>2 DEF Prepared
    <3>5. ASSUME NEW a \in DOMAIN held', NEW x \in DOMAIN breaks',
                 held'[a].barber = breaks'[x].barber,
                 Clash(held'[a].start, held'[a].end, breaks'[x])
          PROVE  x \in DOMAIN breaks /\ breaks'[x] = breaks[x]
      <4>1. CASE x = k
        <5>1. breaks'[x] = [barber |-> b, start |-> span.start, end |-> span.end]
          BY <3>3, <4>1
        <5> QED BY <3>1, <3>4, <3>5, <5>1 DEF AppointmentsOverlapping, Clash
      <4>2. CASE x # k
        BY <3>3, <4>2
      <4> QED BY <4>1, <4>2
    <3> QED BY <3>1, <3>5, NoNewClash
  <2>4. ASSUME NEW r \in Requests, CommitClosure(r) PROVE InBreaks' \subseteq InBreaks
    BY <2>4, NoNewClash DEF CommitClosure
  <2> QED BY <1>1, <2>1, <2>2, <2>3, <2>4, Steps
<1>2. IInv /\ [Next]_vars => [Kept]_vars
  BY <1>1
<1> QED
  BY <1>2, Inductive, PTL DEF Spec, BreaksAreKept

(* Nor on a closed day: the window of a closure covers its days for every  *)
(* length of a day.                                                        *)
THEOREM NobodyIsBookedOnAClosedDay == Spec => ClosuresAreKept
<1> DEFINE Kept ==
      \/ OnClosedDays' \subseteq OnClosedDays
      \/ \E r \in Requests : \/ CommitBooking(r) /\ "closure" \in req[r].beside
                             \/ CommitClosure(r) /\ "book" \in req[r].beside
<1>1. ASSUME IInv, [Next]_vars PROVE Kept
  <2>1. CASE Background \/ Freezes \/ \E r \in Requests : ReplaceCommit(r) \/ CommitDeactivate(r)
    BY <1>1, <2>1, QuietStep, NoNewClosedDay DEF IInv
  <2>2. ASSUME NEW r \in Requests, CommitBooking(r), "closure" \notin req[r].beside
        PROVE  OnClosedDays' \subseteq OnClosedDays
    <3>1. PICK slot \in Slots :
            /\ ~ IsClosed(Day(slot.start)) /\ OneDay(slot)
            /\ \A a \in DOMAIN held' : (a \in DOMAIN held /\ held'[a] = held[a]) \/ held'[a] = slot
      BY <1>1, <2>2, BookedSlot
    <3>2. ASSUME NEW c \in closures PROVE {Day(slot.start), Day(slot.end - 1)} \cap (c.from .. c.to) = {}
      <4>1. Day(slot.start) \in Nat /\ c.from \in Nat /\ c.to \in Nat
        BY <1>1, SlotsAreSpans, DayBegins, ScheduleAssumption DEF IInv, Shapes, TypeOK
      <4>2. ~ (c.from <= Day(slot.start) /\ Day(slot.start) <= c.to)
        BY <3>1 DEF IsClosed
      <4> QED BY <3>1, <4>1, <4>2 DEF OneDay
    <3>3. UNCHANGED closures
      BY <2>2 DEF CommitBooking
    <3>4. ASSUME NEW a \in DOMAIN held', NEW c \in closures',
                 {Day(held'[a].start), Day(held'[a].end - 1)} \cap (c.from .. c.to) # {}
          PROVE  a \in DOMAIN held /\ held'[a] = held[a]
      BY <3>1, <3>2, <3>3, <3>4
    <3> QED BY <3>3, <3>4, NoNewClosedDay
  <2>3. ASSUME NEW r \in Requests, CommitClosure(r), "book" \notin req[r].beside
        PROVE  OnClosedDays' \subseteq OnClosedDays
    <3>1. /\ Prepared(req[r]) /\ req[r].op = "closure" /\ req[r] \in Closing /\ UNCHANGED held
          /\ Shapes /\ SlotsAreOneDay
      BY <1>1, <2>3, InHand DEF IInv, Ready, CommitClosure
    <3>2. PICK range \in ClosureRanges : range = req[r].range /\ closures' = closures \cup {range}
      BY <2>3, <3>1 DEF CommitClosure, Closing
    <3>3. \A b \in Barbers : AppointmentsOverlapping(b, ClosureWindow(range)) = {}
      BY <2>3, <3>1, <3>2 DEF Prepared
    <3>4. ASSUME NEW a \in DOMAIN held
          PROVE  {Day(held[a].start), Day(held[a].end - 1)} \cap (range.from .. range.to) = {}
      <4>1. PICK slot \in Slots : slot = held[a]
        BY <3>1 DEF Shapes
      <4>2. ~ Clash(slot.start, slot.end, ClosureWindow(range))
        BY <3>3, <4>1, SlotsAreSpans DEF AppointmentsOverlapping
      <4>3. OneDay(slot)
        BY <3>1, <4>1 DEF SlotsAreOneDay
      <4> QED BY <4>1, <4>2, <4>3, WindowCoversTheDays
    <3>5. \A a \in DOMAIN held', c \in closures' :
            {Day(held'[a].start), Day(held'[a].end - 1)} \cap (c.from .. c.to) # {}
              => c \in closures /\ held[a] = held'[a]
      BY <3>1, <3>2, <3>4
    <3> QED BY <3>1, <3>5, NoNewClosedDay
  <2>4. ASSUME NEW r \in Requests, CommitBreak(r) PROVE OnClosedDays' \subseteq OnClosedDays
    BY <2>4, NoNewClosedDay DEF CommitBreak
  <2> QED BY <1>1, <2>1, <2>2, <2>3, <2>4, Steps
<1>2. IInv /\ [Next]_vars => [Kept]_vars
  BY <1>1
<1> QED
  BY <1>2, Inductive, PTL DEF Spec, ClosuresAreKept

(* A deletion strands nobody but who booked or moved between its look and  *)
(* its commit.                                                             *)
THEOREM DeletionIsSafe == Spec => DeletionStrandsNobody
<1>1. IInv =>
        \A r \in Requests :
          CommitDeactivate(r) /\ "book" \notin req[r].beside => Upcoming(req[r].thing) = {}
  BY DEF IInv, Ready, Prepared, NoneUpcoming, CommitDeactivate
<1> QED
  BY <1>1, Inductive, PTL DEF DeletionStrandsNobody

(* However replacements of a week overlap, what was committed before one   *)
(* of them began is gone when it commits.                                  *)
THEOREM WeeksAreReplaced == Spec => WeekIsReplaced
<1>1. ASSUME IInv, NEW r \in Requests, ReplaceCommit(r), version' # version,
             NEW w \in week'[req[r].barber]
      PROVE  w.from > req[r].began
  <2>1. Shapes /\ Prepared(req[r]) /\ req[r].op = "week" /\ req[r] \in Replacing
    BY <1>1, InHand DEF IInv, Ready, ReplaceCommit
  <2>2. PICK b \in Barbers : b = req[r].barber
    BY <2>1 DEF Replacing
  <2>3. PICK fresh : fresh = {[shift |-> s, from |-> version[b] + 1] : s \in req[r].payload}
    OBVIOUS
  <2>4. week' = [week EXCEPT ![b] = Surviving(b, req[r].doomed) \cup fresh]
    BY <1>1, <2>1, <2>2, <2>3, ReplacedWeek
  <2>5. week \in [Barbers -> SUBSET Rows] /\ version[b] \in Nat /\ req[r].began \in Nat
    BY <2>1, ScheduleAssumption DEF Shapes, TypeOK, Replacing
  <2>6. /\ req[r].began <= version[b]
        /\ \A x \in week[b] : x.from <= req[r].began => x \in req[r].doomed
    BY <2>1, <2>2 DEF Prepared
  <2>7. w \in week[b] \ req[r].doomed \/ w.from = version[b] + 1
    BY <1>1, <2>2, <2>3, <2>4, <2>5 DEF Surviving
  <2>8. w \in week[b] => w.from \in Nat
    BY <2>5 DEF Rows
  <2> QED BY <2>5, <2>6, <2>7, <2>8
<1>2. IInv =>
        \A r \in Requests :
          ReplaceCommit(r) /\ version' # version =>
            \A w \in week'[req[r].barber] : w.from > req[r].began
  BY <1>1
<1> QED
  BY <1>2, Inductive, PTL DEF WeekIsReplaced

-----------------------------------------------------------------------------
(* The appointments are those of Calendar *)

(* A request that moves an appointment has the barber of that appointment, *)
(* and one that makes an appointment is alone with its id, so that what    *)
(* the exclusion constraint does not refuse can be committed.              *)
MovesKeepTheirBarber ==
  \A r \in Requests : req[r].op = "book" =>
    IF req[r].move
    THEN req[r].appt \in DOMAIN held => held[req[r].appt].barber = req[r].slot.barber
    ELSE /\ req[r].appt \notin DOMAIN held
         /\ \A q \in Requests \ {r} : req[q].op = "book" => req[q].appt # req[r].appt

SameBooking(p, q) ==
  /\ q.op = "book" <=> p.op = "book"
  /\ p.op = "book" => q.move = p.move /\ q.appt = p.appt /\ q.slot = p.slot

LEMMA OtherHandsKeepTheirBarber ==
  ASSUME MovesKeepTheirBarber, NEW r \in Requests, req'[r].op # "book",
         \A x \in Requests \ {r} : SameBooking(req[x], req'[x]), UNCHANGED held
  PROVE  MovesKeepTheirBarber'
BY DEF MovesKeepTheirBarber, SameBooking

(* All that a handler has in hand of others stays, or is noted.            *)
LEMMA OthersStay ==
  ASSUME Shapes, NEW r \in Requests, (\E q : Hand(r, q)) \/ \E kind \in Kinds : Commit(r, kind)
  PROVE  \A x \in Requests \ {r} : SameBooking(req[x], req'[x])
<1>1. CASE \E q : Hand(r, q)
  BY <1>1 DEF Shapes, Hand, SameBooking
<1>2. CASE \E kind \in Kinds : Commit(r, kind)
  BY <1>2, CommitIsNoted DEF Noted, SameBooking
<1> QED BY <1>1, <1>2

LEMMA MovesStep ==
  ASSUME Shapes, MovesKeepTheirBarber, [Next]_vars
  PROVE  MovesKeepTheirBarber'
<1>0. DOMAIN req = Requests
  BY DEF Shapes
<1>1. ASSUME NEW r \in Requests, Begin(r) PROVE MovesKeepTheirBarber'
  <2>1. PICK s \in Starts, a \in Appts, b \in Barbers :
          /\ \A q \in Requests : req[q].op = "book" => req[q].appt # a \/ a \in DOMAIN held
          /\ a \in DOMAIN held => held[a].barber = b
          /\ req' = [req EXCEPT ![r] = [op |-> "book", stage |-> "active",
                                        move |-> a \in DOMAIN held, appt |-> a,
                                        slot |-> Slot(b, s), beside |-> {}]]
    BY <1>1 DEF Begin, Hand
  <2>2. /\ req'[r].op = "book" /\ req'[r].appt = a /\ req'[r].slot.barber = b
        /\ req'[r].move <=> a \in DOMAIN held
        /\ \A x \in Requests \ {r} : req'[x] = req[x]
    BY <1>0, <2>1 DEF Slot
  <2>3. UNCHANGED held
    BY <1>1 DEF Begin
  <2> QED  BY <2>1, <2>2, <2>3 DEF MovesKeepTheirBarber
<1>2. ASSUME NEW r \in Requests, Check(r) PROVE MovesKeepTheirBarber'
  <2>1. UNCHANGED held /\ req[r] \in Booking
    BY <1>2, InHand DEF Check
  <2>2. CASE Passes(req[r].stage, req[r].slot, req[r].appt)
    <3>1. req' = [req EXCEPT ![r] = [req[r] EXCEPT !.stage = After[req[r].stage]]]
      BY <1>2, <2>2 DEF Check, Hand
    <3>2. /\ req'[r].op = req[r].op /\ req'[r].move = req[r].move
          /\ req'[r].appt = req[r].appt /\ req'[r].slot = req[r].slot
          /\ \A x \in Requests \ {r} : req'[x] = req[x]
      BY <1>0, <2>1, <3>1 DEF Booking
    <3> QED  BY <2>1, <3>2 DEF MovesKeepTheirBarber
  <2>3. CASE ~ Passes(req[r].stage, req[r].slot, req[r].appt)
    <3>1. req' = [req EXCEPT ![r] = Idle]
      BY <1>2, <2>3 DEF Check, Hand
    <3>2. req'[r].op # "book" /\ \A x \in Requests \ {r} : SameBooking(req[x], req'[x])
      BY <1>0, <3>1 DEF Idle, SameBooking
    <3> QED  BY <2>1, <3>2, OtherHandsKeepTheirBarber
  <2> QED  BY <2>2, <2>3
<1>3. ASSUME NEW r \in Requests, CommitBooking(r) PROVE MovesKeepTheirBarber'
  <2>1. /\ req[r].op = "book"
        /\ \/ ~ req[r].move /\ Book!Hold(req[r].appt, req[r].slot)
           \/ req[r].move /\ Book!Move(req[r].appt, req[r].slot)
           \/ UNCHANGED held
    BY <1>3 DEF CommitBooking
  <2>2. req'[r].op # "book" /\ \A x \in Requests \ {r} : SameBooking(req[x], req'[x])
    <3>1. Hand(r, Idle) \/ Commit(r, "book")
      BY <1>3 DEF CommitBooking
    <3>2. req'[r] = Idle
      BY <1>0, <3>1 DEF Hand, Commit
    <3> QED  BY <3>1, <3>2, OthersStay DEF Kinds, Idle
  <2>3. CASE UNCHANGED held
    BY <2>2, <2>3 DEF MovesKeepTheirBarber, SameBooking
  <2>4. CASE ~ req[r].move /\ Book!Hold(req[r].appt, req[r].slot)
    <3>1. /\ DOMAIN held' = DOMAIN held \cup {req[r].appt}
          /\ \A x \in DOMAIN held : x # req[r].appt => held'[x] = held[x]
      BY <2>4 DEF Book!Hold
    <3>2. \A x \in Requests \ {r} : req[x].op = "book" => req[x].appt # req[r].appt
      BY <2>1, <2>4 DEF MovesKeepTheirBarber
    <3> QED  BY <2>2, <3>1, <3>2 DEF MovesKeepTheirBarber, SameBooking
  <2>5. CASE req[r].move /\ Book!Move(req[r].appt, req[r].slot)
    <3>1. /\ DOMAIN held' = DOMAIN held
          /\ \A x \in DOMAIN held : held'[x].barber = held[x].barber
      BY <2>5 DEF Book!Move
    <3> QED  BY <2>2, <3>1 DEF MovesKeepTheirBarber, SameBooking
  <2> QED  BY <2>1, <2>3, <2>4, <2>5
<1>4. CASE Leave
  <2>1. /\ DOMAIN held' \subseteq DOMAIN held /\ \A x \in DOMAIN held' : held'[x] = held[x]
        /\ UNCHANGED req
    BY <1>4 DEF Leave, Book!Release
  <2> QED  BY <2>1 DEF MovesKeepTheirBarber
<1>5. ASSUME NEW r \in Requests,
             \/ CheckBreak(r) \/ CommitBreak(r) \/ CheckClosure(r) \/ CommitClosure(r)
             \/ ReplaceDelete(r) \/ ReplaceCommit(r) \/ CheckDeactivate(r) \/ CommitDeactivate(r)
             \/ Abandon(r)
      PROVE  MovesKeepTheirBarber'
  <2>1. \/ \E q : q.op # "book" /\ Hand(r, q)
        \/ \E kind \in Kinds : Commit(r, kind)
    <3>1. CASE CheckBreak(r)
      <4>1. PICK b \in Barbers, span \in BreakSpans :
              Hand(r, [op |-> "break", barber |-> b, span |-> span, beside |-> {}])
        BY <3>1 DEF CheckBreak
      <4>2. [op |-> "break", barber |-> b, span |-> span, beside |-> {}].op # "book"
        OBVIOUS
      <4> QED  BY <4>1, <4>2
    <3>2. CASE CheckClosure(r)
      <4>1. PICK c \in ClosureRanges : Hand(r, [op |-> "closure", range |-> c, beside |-> {}])
        BY <3>2 DEF CheckClosure
      <4>2. [op |-> "closure", range |-> c, beside |-> {}].op # "book"
        OBVIOUS
      <4> QED  BY <4>1, <4>2
    <3>3. CASE ReplaceDelete(r)
      <4>1. PICK b \in Barbers, payload \in Weeks :
              Hand(r, [op |-> "week", barber |-> b, payload |-> payload,
                       doomed |-> week[b], began |-> version[b]])
        BY <3>3 DEF ReplaceDelete
      <4>2. [op |-> "week", barber |-> b, payload |-> payload,
             doomed |-> week[b], began |-> version[b]].op # "book"
        OBVIOUS
      <4> QED  BY <4>1, <4>2
    <3>4. CASE CheckDeactivate(r)
      <4>1. PICK t \in Things : Hand(r, [op |-> "deactivate", thing |-> t, beside |-> {}])
        BY <3>4 DEF CheckDeactivate
      <4>2. [op |-> "deactivate", thing |-> t, beside |-> {}].op # "book"
        OBVIOUS
      <4> QED  BY <4>1, <4>2
    <3>5. CASE ReplaceCommit(r) \/ CommitDeactivate(r) \/ Abandon(r)
      <4>1. Hand(r, Idle)
        BY <3>5 DEF ReplaceCommit, CommitDeactivate, Abandon
      <4> QED  BY <4>1 DEF Idle
    <3>6. CASE CommitBreak(r) \/ CommitClosure(r)
      BY <3>6 DEF CommitBreak, CommitClosure, Kinds
    <3> QED  BY <1>5, <3>1, <3>2, <3>3, <3>4, <3>5, <3>6
  <2>2. UNCHANGED held
    BY <1>5 DEF CheckBreak, CommitBreak, CheckClosure, CommitClosure, ReplaceDelete, ReplaceCommit,
                CheckDeactivate, CommitDeactivate, Abandon
  <2>3. req'[r].op # "book"
    BY <1>0, <2>1 DEF Hand, Commit, Idle
  <2>4. \A x \in Requests \ {r} : SameBooking(req[x], req'[x])
    BY <2>1, OthersStay
  <2> QED  BY <2>2, <2>3, <2>4, OtherHandsKeepTheirBarber
<1>6. CASE DeleteBreak \/ DeleteClosure \/ Patch \/ Tick \/ UNCHANGED vars
  BY <1>6 DEF DeleteBreak, DeleteClosure, Patch, Tick, vars, MovesKeepTheirBarber
<1> QED  BY <1>1, <1>2, <1>3, <1>4, <1>5, <1>6 DEF Next

(* Whatever handlers overlap, a move never takes an appointment to another *)
(* barber and a new appointment never overwrites an older one: what the    *)
(* request loaded of its own row is still so when it commits.              *)
THEOREM MovesStayWithTheirBarber == Spec => []MovesKeepTheirBarber
<1>1. Init => MovesKeepTheirBarber
  BY DEF Init, MovesKeepTheirBarber, Idle
<1>2. Shapes /\ MovesKeepTheirBarber /\ [Next]_vars => MovesKeepTheirBarber'
  BY MovesStep
<1> QED  BY <1>1, <1>2, ShapesBeginning, ShapesStep, PTL DEF Spec

LEMMA BookStep ==
  ASSUME Shapes, [Next]_vars
  PROVE  [Book!Next]_held
<1>1. ASSUME NEW r \in Requests, CommitBooking(r) PROVE [Book!Next]_held
  <2>1. req[r] \in Booking
    BY <1>1, InHand DEF CommitBooking
  <2>2. req[r].appt \in Appts /\ req[r].slot \in Slots
    BY <2>1 DEF Booking
  <2>3. req[r].slot \in Book!Slot
    BY <2>2, SlotsAreSpans DEF Book!Slot, Slots
  <2> QED  BY <1>1, <2>2, <2>3 DEF CommitBooking, Book!Next
<1>2. CASE Leave
  <2>1. PICK a \in DOMAIN held : Book!Release({a})
    BY <1>2 DEF Leave
  <2>2. {a} \in SUBSET Appts
    BY DEF Shapes, TypeOK
  <2> QED  BY <2>1, <2>2 DEF Book!Next
<1>3. ASSUME NEW r \in Requests,
             \/ Begin(r) \/ Check(r)
             \/ CheckBreak(r) \/ CommitBreak(r) \/ CheckClosure(r) \/ CommitClosure(r)
             \/ ReplaceDelete(r) \/ ReplaceCommit(r) \/ CheckDeactivate(r) \/ CommitDeactivate(r)
             \/ Abandon(r)
      PROVE  UNCHANGED held
  BY <1>3 DEF Begin, Check, CheckBreak, CommitBreak, CheckClosure, CommitClosure, ReplaceDelete,
              ReplaceCommit, CheckDeactivate, CommitDeactivate, Abandon
<1>4. CASE DeleteBreak \/ DeleteClosure \/ Patch \/ Tick \/ UNCHANGED vars
  BY <1>4 DEF DeleteBreak, DeleteClosure, Patch, Tick, vars
<1> QED  BY <1>1, <1>2, <1>3, <1>4 DEF Next

(* The appointments that Schedule's handlers check breaks, closures and    *)
(* deletions against are those of Calendar, as those of Booking are.       *)
THEOREM ScheduleImplementsCalendar == Spec => Book!Spec
<1>1. Init => Book!Init
  BY DEF Init
<1>2. Shapes /\ [Next]_vars => [Book!Next]_held
  BY BookStep
<1> QED  BY <1>1, <1>2, ShapesBeginning, ShapesStep, PTL DEF Spec, Book!Spec

(* What Calendar is for: whatever sequence of bookings, moves and releases *)
(* it allows, no two appointments hold overlapping time of one barber.     *)
THEOREM CalendarNeverOverlaps == Book!Spec => []Book!NoOverlap
<1> DEFINE Inv == Book!TypeOK /\ Book!NoOverlap
<1>1. Book!Init => Inv
  BY DEF Book!Init, Book!TypeOK, Book!NoOverlap
<1>2. Inv /\ [Book!Next]_held => Inv'
  <2> SUFFICES ASSUME Inv, [Book!Next]_held PROVE Inv'
    OBVIOUS
  <2>0. /\ DOMAIN held \subseteq Appts /\ \A a \in DOMAIN held : held[a] \in Book!Slot
        /\ \A a, b \in DOMAIN held : a # b => ~ Book!Overlap(held[a], held[b])
    BY DEF Book!TypeOK, Book!NoOverlap
  <2>s. \A s, t : Book!Overlap(s, t) <=> Book!Overlap(t, s)
    BY DEF Book!Overlap
  <2>f. ASSUME DOMAIN held' \subseteq Appts, \A a \in DOMAIN held' : held'[a] \in Book!Slot,
               held' \in [DOMAIN held' -> Book!Slot],
               \A a, b \in DOMAIN held' : a # b => ~ Book!Overlap(held'[a], held'[b])
        PROVE  Inv'
    BY <2>f DEF Book!TypeOK, Book!NoOverlap, Book!Slot, Book!Overlap
  <2>1. ASSUME NEW S \in SUBSET Appts, Book!Release(S) PROVE Inv'
    <3>1. held' = [x \in DOMAIN held \ S |-> held[x]]
      BY <2>1 DEF Book!Release
    <3> QED  BY <2>0, <2>f, <3>1
  <2>2. ASSUME NEW a \in Appts, NEW s \in Book!Slot, Book!Hold(a, s) PROVE Inv'
    <3>1. /\ held' = [x \in DOMAIN held \cup {a} |-> IF x = a THEN s ELSE held[x]]
          /\ a \notin DOMAIN held
          /\ \A o \in DOMAIN held \ {a} : ~ Book!Overlap(s, held[o])
      BY <2>2 DEF Book!Hold, Book!Fits
    <3> QED  BY <2>0, <2>s, <2>f, <3>1
  <2>3. ASSUME NEW a \in Appts, NEW s \in Book!Slot, Book!Move(a, s) PROVE Inv'
    <3>1. /\ held' = [held EXCEPT ![a] = s] /\ a \in DOMAIN held
          /\ \A o \in DOMAIN held \ {a} : ~ Book!Overlap(s, held[o])
      BY <2>3 DEF Book!Move, Book!Fits
    <3>2. held' \in [DOMAIN held -> Book!Slot] /\ DOMAIN held' = DOMAIN held
      BY <2>0, <3>1 DEF Book!TypeOK
    <3> QED  BY <2>0, <2>s, <2>f, <3>1, <3>2
  <2>4. CASE UNCHANGED held
    BY <2>4 DEF Book!TypeOK, Book!NoOverlap, Book!Overlap, Book!Slot
  <2> QED  BY <2>1, <2>2, <2>3, <2>4 DEF Book!Next
<1>3. Inv => Book!NoOverlap
  OBVIOUS
<1> QED  BY <1>1, <1>2, <1>3, PTL DEF Book!Spec

(* So no two appointments of one barber overlap, whatever breaks, closures *)
(* and deletions are going on.                                             *)
THEOREM ScheduleNeverOverlaps == Spec => []Book!NoOverlap
BY ScheduleImplementsCalendar, CalendarNeverOverlaps, PTL
=============================================================================
