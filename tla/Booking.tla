------------------------------- MODULE Booking -------------------------------
(***************************************************************************)
(* The appointment life cycle of BarberHub (app/services/booking.py) as    *)
(* the API processes and the Celery worker really run it: every request is *)
(* a READ COMMITTED transaction without row locks that loads, checks, and  *)
(* commits in separate steps, so the rows it checked may have changed by   *)
(* the time it writes.  The UPDATE the ORM emits addresses the row by its  *)
(* primary key and sets only the columns whose value differs from what was *)
(* loaded; the exclusion constraint no_double_booking is evaluated on the  *)
(* row versions that are current when the write happens.                   *)
(*                                                                         *)
(* Time is counted in ticks.  A barber's working time, which Schedule.tla  *)
(* lets vary, is the fixed set Hours[b] here.                              *)
(***************************************************************************)
EXTENDS Naturals, FiniteSets

CONSTANTS
  Appts,        \* appointment ids (uuids): the bound on rows ever inserted
  Barbers,      \* the barbers
  Customers,    \* users with the CUSTOMER role
  Staff,        \* Staff[b]: the users that count as staff for barber b
  Requests,     \* concurrent request handlers of the API
  Workers,      \* concurrent executions of the expiry job
  Hours,        \* Hours[b]: the ticks at which barber b works
  Starts,       \* the start times clients ask for
  Durations,    \* the durations the service may have when it is read
  Vetting,      \* the values of shop.requires_confirmation when it is read
  Step,         \* SLOT_STEP_MINUTES
  Lead,         \* MIN_BOOKING_LEAD_MINUTES
  Cutoff,       \* APPOINTMENT_CHANGE_CUTOFF_MINUTES
  PendingTTL,   \* the 30 minutes of expire_stale_pending
  MaxTime       \* bound on the clock

ASSUME BookingAssumption ==
  /\ Starts \subseteq Nat
  /\ Durations \subseteq Nat \ {0}
  /\ Vetting \subseteq BOOLEAN
  /\ Step \in Nat \ {0}
  /\ Lead \in Nat /\ Cutoff \in Nat /\ PendingTTL \in Nat /\ MaxTime \in Nat

VARIABLES
  now,    \* the clock
  rows,   \* table appointments, a function on the ids inserted so far
  req,    \* what each request handler has in hand
  stale   \* what each execution of the expiry job has selected

vars == <<now, rows, req, stale>>

Status   == {"PENDING", "CONFIRMED", "COMPLETED", "CANCELLED", "NO_SHOW"}
Active   == {"PENDING", "CONFIRMED"}
Terminal == Status \ Active
Actor    == {"nobody", "customer", "staff"}
Users    == Customers \cup UNION {Staff[b] : b \in Barbers}

Ends == {s + d : s \in Starts, d \in Durations}

Row == [barber : Barbers, customer : Customers, start : Starts, end : Ends,
        status : Status, cancelledBy : Actor, created : Nat]

Answers == {"none", "ok", "SLOT_TAKEN", "OUTSIDE_WORKING_HOURS", "ERROR"}

(* A handler is idle, with the answer it gave last, or it works on a new   *)
(* booking, on a move, or on a change of status, or a time it was asked    *)
(* for is not on offer and it has to find the reason.  Stage "offer" is    *)
(* before the slot list is read, "commit" after every check has passed.    *)
(* blocked is history, which no guard reads: whether somebody's active     *)
(* booking was in the way when the slot list was read.                     *)
Idle(answer) == [op |-> "idle", answer |-> answer]
IdleReq   == [op : {"idle"}, answer : Answers]
Stages    == {"offer", "commit"}
CreateReq == [op : {"create"}, stage : Stages, customer : Customers, barber : Barbers,
              start : Starts, dur : Durations, moment : Nat]
MoveReq   == [op : {"reschedule"}, stage : Stages, appt : Appts, barber : Barbers,
              start : Starts, dur : Durations, moment : Nat,
              seenStart : Starts, seenEnd : Ends]
RefusedReq == [op : {"refused"}, blocked : BOOLEAN, barber : Barbers,
               start : Starts, dur : Durations, moment : Nat]
StatusReq == [op : {"status"}, stage : {"commit"}, appt : Appts,
              target : Status \ {"PENDING"}, by : Actor]
Req == IdleReq \cup CreateReq \cup MoveReq \cup RefusedReq \cup StatusReq

-----------------------------------------------------------------------------
(* The checks *)

IsStaffFor(u, a) == u \in Staff[rows[a].barber]

(* _load_for_action: staff may act on the row, and so may its customer.    *)
MayAct(u, a) == IsStaffFor(u, a) \/ rows[a].customer = u

(* Overlapping active rows of barber b in the half-open span [lo, hi),     *)
(* the rows in "except" left out: what both the slot list and the          *)
(* exclusion constraint look at.                                           *)
Clashing(b, lo, hi, except) ==
  {o \in DOMAIN rows \ except :
     /\ rows[o].barber = b
     /\ rows[o].status \in Active
     /\ rows[o].start < hi
     /\ lo < rows[o].end}

(* The slot list of an empty book: on the grid, not before the lead time,  *)
(* and inside working time from start to end.                              *)
M_StartsInHours(b, s, d, moment) ==
  /\ s % Step = 0
  /\ s >= moment + Lead
  /\ s \in Hours[b]
Bookable(b, s, d, moment) ==
  /\ s % Step = 0
  /\ s >= moment + Lead
  /\ s .. (s + d - 1) \subseteq Hours[b]

(* Members of the slot list that is really served.                         *)
OnOffer(b, s, d, moment, except) ==
  Bookable(b, s, d, moment) /\ Clashing(b, s, s + d, except) = {}

(* Why a time is refused: the slot list is computed once more as if nobody *)
(* had booked anything.                                                    *)
M_RefusalWithoutSecondLook(b, s, d, moment) == "OUTSIDE_WORKING_HOURS"
Refusal(b, s, d, moment) ==
  IF Bookable(b, s, d, moment) THEN "SLOT_TAKEN" ELSE "OUTSIDE_WORKING_HOURS"

(* The right to change a booking ends Cutoff ticks before it starts, for   *)
(* customers only.                                                         *)
WithinCutoff(u, a) == IsStaffFor(u, a) \/ now + Cutoff < rows[a].start

(* The exclusion constraint, applied to the version v of row a about to be *)
(* written: an active row clashes with every other active row.             *)
M_ExcludedIfConfirmed(a, v) ==
  v.status = "CONFIRMED" /\ \E o \in Clashing(v.barber, v.start, v.end, {a}) :
                               rows[o].status = "CONFIRMED"
M_ExcludedOnInsertOnly(a, v) ==
  a \notin DOMAIN rows /\ Clashing(v.barber, v.start, v.end, {a}) # {}
Excluded(a, v) ==
  v.status \in Active /\ Clashing(v.barber, v.start, v.end, {a}) # {}

-----------------------------------------------------------------------------
(* Requests *)

(* POST /appointments: the barber and the service are resolved, the clock  *)
(* is read once.                                                           *)
Create(r) ==
  /\ req[r].op = "idle"
  /\ \E c \in Customers, b \in Barbers, s \in Starts, d \in Durations :
       req' = [req EXCEPT ![r] =
                 [op |-> "create", stage |-> "offer", customer |-> c, barber |-> b,
                  start |-> s, dur |-> d, moment |-> now]]
  /\ UNCHANGED <<now, rows, stale>>

(* PATCH /reschedule: load the row and check it, then read the service.    *)
MoveMayTouch(a) == rows[a].status \in Active
Reschedule(r) ==
  /\ req[r].op = "idle"
  /\ \E a \in DOMAIN rows, u \in Users, s \in Starts, d \in Durations :
       /\ MayAct(u, a)
       /\ MoveMayTouch(a)
       /\ WithinCutoff(u, a)
       /\ req' = [req EXCEPT ![r] =
                    [op |-> "reschedule", stage |-> "offer", appt |-> a,
                     barber |-> rows[a].barber, start |-> s, dur |-> d, moment |-> now,
                     seenStart |-> rows[a].start, seenEnd |-> rows[a].end]]
  /\ UNCHANGED <<now, rows, stale>>

(* _assert_on_offer, the first look: one read of the other bookings.  A    *)
(* move leaves the row being moved out of the busy set.                    *)
Own(q) == IF q.op = "create" THEN {} ELSE {q.appt}

CheckOffer(r) ==
  /\ req[r].op \in {"create", "reschedule"}
  /\ req[r].stage = "offer"
  /\ LET q == req[r]
     IN req' = [req EXCEPT ![r] =
                  IF OnOffer(q.barber, q.start, q.dur, q.moment, Own(q))
                  THEN [q EXCEPT !.stage = "commit"]
                  ELSE [op |-> "refused", barber |-> q.barber, start |-> q.start,
                        dur |-> q.dur, moment |-> q.moment,
                        blocked |-> Clashing(q.barber, q.start, q.start + q.dur, Own(q)) # {}]]
  /\ UNCHANGED <<now, rows, stale>>

(* The second look decides what the client is told, out of a slot list     *)
(* that ignores the bookings: by now the one in the way may be gone.       *)
SecondLook(r) ==
  /\ req[r].op = "refused"
  /\ LET q == req[r]
     IN req' = [req EXCEPT ![r] = Idle(Refusal(q.barber, q.start, q.dur, q.moment))]
  /\ UNCHANGED <<now, rows, stale>>

(* The status changes: each loads the row, checks the caller, the status   *)
(* it found and the clock, and stages one assignment.                      *)
Stage(r, a, target, by) ==
  /\ req[r].op = "idle"
  /\ req' = [req EXCEPT ![r] = [op |-> "status", stage |-> "commit",
                                appt |-> a, target |-> target, by |-> by]]
  /\ UNCHANGED <<now, rows, stale>>

M_CancelMayTouch(a) == rows[a].status # "CANCELLED"
CancelMayTouch(a) == rows[a].status \in Active
Cancel(r) ==
  \E a \in DOMAIN rows, u \in Users :
    /\ MayAct(u, a)
    /\ CancelMayTouch(a)
    /\ WithinCutoff(u, a)
    /\ Stage(r, a, "CANCELLED", IF u \in Customers THEN "customer" ELSE "staff")

Confirm(r) ==
  \E a \in DOMAIN rows, u \in Users :
    /\ IsStaffFor(u, a)
    /\ rows[a].status = "PENDING"
    /\ Stage(r, a, "CONFIRMED", "nobody")

M_HasBegun(a) == TRUE
HasBegun(a) == rows[a].start <= now
CloseOut(r) ==
  \E a \in DOMAIN rows, u \in Users, target \in {"COMPLETED", "NO_SHOW"} :
    /\ IsStaffFor(u, a)
    /\ rows[a].status \in Active
    /\ HasBegun(a)
    /\ Stage(r, a, target, "nobody")

-----------------------------------------------------------------------------
(* Commits *)

(* The row a new booking inserts.                                          *)
NewRow(q, vetted) ==
  [barber |-> q.barber, customer |-> q.customer,
   start |-> q.start, end |-> q.start + q.dur,
   status |-> IF vetted THEN "PENDING" ELSE "CONFIRMED",
   cancelledBy |-> "nobody", created |-> q.moment]

CommitCreate(r) ==
  /\ req[r].op = "create" /\ req[r].stage = "commit"
  /\ \E a \in Appts \ DOMAIN rows, vetted \in Vetting :
       LET v == NewRow(req[r], vetted)
       IN IF Excluded(a, v)
          THEN /\ req' = [req EXCEPT ![r] = Idle("SLOT_TAKEN")]
               /\ UNCHANGED rows
          ELSE /\ req' = [req EXCEPT ![r] = Idle("ok")]
               /\ rows' = [x \in DOMAIN rows \cup {a} |-> IF x = a THEN v ELSE rows[x]]
  /\ UNCHANGED <<now, stale>>

(* The version of the row a move writes: a bound that equals the one that  *)
(* was loaded is not part of the UPDATE.                                   *)
M_MovedAndVettedAgain(row, q) ==
  [row EXCEPT !.start = q.start, !.end = q.start + q.dur, !.status = "PENDING"]
Moved(row, q) ==
  [row EXCEPT
     !.start = IF q.start = q.seenStart THEN row.start ELSE q.start,
     !.end   = IF q.start + q.dur = q.seenEnd THEN row.end ELSE q.start + q.dur]

(* CHECK (end_time > start_time) failing is an unhandled IntegrityError.   *)
CheckFails(v) == v.end <= v.start

CommitMove(r) ==
  /\ req[r].op = "reschedule" /\ req[r].stage = "commit"
  /\ LET a == req[r].appt
         v == Moved(rows[a], req[r])
     IN IF CheckFails(v) \/ Excluded(a, v)
        THEN /\ req' = [req EXCEPT ![r] = Idle(IF CheckFails(v) THEN "ERROR" ELSE "SLOT_TAKEN")]
             /\ UNCHANGED rows
        ELSE /\ req' = [req EXCEPT ![r] = Idle("ok")]
             /\ rows' = [rows EXCEPT ![a] = v]
  /\ UNCHANGED <<now, stale>>

(* The UPDATE of a status change sets the status, and for a cancellation   *)
(* its author; it sees neither the status nor the times the row has now.   *)
(* A plain db.commit(): an exclusion violation is not translated.          *)
M_WithStatusAsAuthor(row, target, by) ==
  [row EXCEPT !.status = target, !.cancelledBy = target]
WithStatus(row, target, by) ==
  [row EXCEPT !.status = target,
              !.cancelledBy = IF target = "CANCELLED" THEN by ELSE @]

CommitStatus(r) ==
  /\ req[r].op = "status"
  /\ LET a == req[r].appt
         v == WithStatus(rows[a], req[r].target, req[r].by)
     IN IF Excluded(a, v)
        THEN /\ req' = [req EXCEPT ![r] = Idle("ERROR")]
             /\ UNCHANGED rows
        ELSE /\ req' = [req EXCEPT ![r] = Idle("ok")]
             /\ rows' = [rows EXCEPT ![a] = v]
  /\ UNCHANGED <<now, stale>>

(* The process dies, or the database drops the connection, before the      *)
(* commit: the transaction is rolled back.                                 *)
Abandon(r) ==
  /\ req[r].op # "idle"
  /\ req' = [req EXCEPT ![r] = Idle("none")]
  /\ UNCHANGED <<now, rows, stale>>

-----------------------------------------------------------------------------
(* The hourly job expire_stale_pending *)

M_PendingLongEnough(a) == rows[a].created + PendingTTL > now
PendingTooLong(a) == rows[a].created + PendingTTL < now

ExpireScan(w) ==
  /\ stale[w] = {}
  /\ stale' = [stale EXCEPT ![w] =
                 {a \in DOMAIN rows : rows[a].status = "PENDING" /\ PendingTooLong(a)}]
  /\ UNCHANGED <<now, rows, req>>

(* The UPDATEs are emitted when the session commits, by primary key.       *)
ExpireCommit(w) ==
  /\ stale[w] # {}
  /\ rows' = [a \in DOMAIN rows |->
                IF a \in stale[w] THEN [rows[a] EXCEPT !.status = "CANCELLED"] ELSE rows[a]]
  /\ stale' = [stale EXCEPT ![w] = {}]
  /\ UNCHANGED <<now, req>>

(* The worker dies; acks_late has the task delivered again.                *)
ExpireCrash(w) ==
  /\ stale[w] # {}
  /\ stale' = [stale EXCEPT ![w] = {}]
  /\ UNCHANGED <<now, rows, req>>

Tick ==
  /\ now < MaxTime
  /\ now' = now + 1
  /\ UNCHANGED <<rows, req, stale>>

-----------------------------------------------------------------------------
Init ==
  /\ now = 0
  /\ rows = [a \in {} |-> {}]
  /\ req = [r \in Requests |-> Idle("none")]
  /\ stale = [w \in Workers |-> {}]

Request(r) ==
  \/ Create(r) \/ Reschedule(r) \/ CheckOffer(r) \/ SecondLook(r)
  \/ Cancel(r) \/ Confirm(r) \/ CloseOut(r)
  \/ CommitCreate(r) \/ CommitMove(r) \/ CommitStatus(r)
  \/ Abandon(r)

Job(w) == ExpireScan(w) \/ ExpireCommit(w) \/ ExpireCrash(w)

Next ==
  \/ \E r \in Requests : Request(r)
  \/ \E w \in Workers : Job(w)
  \/ Tick

Spec == Init /\ [][Next]_vars

(* Beat sends the job every hour and the task is redelivered until it is   *)
(* acknowledged, so it keeps being started and does not crash for ever.    *)
(* Clients owe nothing.                                                    *)
Fairness ==
  /\ WF_vars(Tick)
  /\ \A w \in Workers : WF_vars(ExpireScan(w)) /\ SF_vars(ExpireCommit(w))

FairSpec == Spec /\ Fairness

-----------------------------------------------------------------------------
(* Properties *)

(* Every variable has its type; a request and a job name existing rows.    *)
TypeOK ==
  /\ now \in Nat
  /\ DOMAIN rows \subseteq Appts
  /\ rows \in [DOMAIN rows -> Row]
  /\ req \in [Requests -> Req]
  /\ \A r \in Requests : req[r].op \in {"reschedule", "status"} => req[r].appt \in DOMAIN rows
  /\ stale \in [Workers -> SUBSET DOMAIN rows]

(* The authority of the exclusion constraint: no interleaving of bookings, *)
(* moves, cancellations, late confirmations and expiry leaves two active   *)
(* appointments on overlapping time of one barber.                         *)
NoDoubleBooking ==
  \A a \in DOMAIN rows :
    rows[a].status \in Active => Clashing(rows[a].barber, rows[a].start, rows[a].end, {a}) = {}

(* Two moves of one booking may interleave column by column; what is left  *)
(* is still a span of time, although nobody may have asked for it.         *)
EndAfterStart == \A a \in DOMAIN rows : rows[a].start < rows[a].end

(* An active booking occupies time the barber works, on the grid, from its *)
(* first tick to its last, however often it was moved.                     *)
BookedTimeIsWorkingTime ==
  \A a \in DOMAIN rows :
    rows[a].status \in Active =>
      /\ rows[a].start % Step = 0
      /\ rows[a].start .. (rows[a].end - 1) \subseteq Hours[rows[a].barber]

(* Another move of the booking was committed since q loaded its row.       *)
MovedMeanwhile(q) ==
  /\ q.op = "reschedule"
  /\ rows[q.appt].start # q.seenStart \/ rows[q.appt].end # q.seenEnd

(* The reason a client is given is one the handler saw: SLOT_TAKEN only if *)
(* somebody else's active booking was in the way of the time asked for     *)
(* when the slot list was read, or is in the way when the row is written;  *)
(* OUTSIDE_WORKING_HOURS only for a time no empty book would offer, so it  *)
(* does not depend on who won a race (the comment in _assert_on_offer).    *)
(* The booking that was in the way may have gone between the two looks: a  *)
(* client can be told SLOT_TAKEN of a time that is free by then.  A move   *)
(* that raced another move of the same booking is an exception: it writes  *)
(* the two bounds column by column, and what the constraint refuses is a   *)
(* span nobody asked for.                                                  *)
RefusedForTheRightReason ==
  [][\A r \in Requests :
       LET q == req[r]
       IN q.op \in {"create", "reschedule", "refused"} /\ req'[r].op = "idle" =>
            /\ req'[r].answer = "SLOT_TAKEN" =>
                 IF q.op = "refused"
                 THEN q.blocked
                 ELSE \/ Clashing(q.barber, q.start, q.start + q.dur, Own(q)) # {}
                      \/ MovedMeanwhile(q)
            /\ req'[r].answer = "OUTSIDE_WORKING_HOURS" =>
                 ~ Bookable(q.barber, q.start, q.dur, q.moment)]_vars

(* What the answer of the second look does not mean: that anybody's        *)
(* booking is in the way at the moment the client is told so.              *)
TakenWhenToldSo ==
  [][\A r \in Requests :
       LET q == req[r]
       IN SecondLook(r) /\ req'[r].answer = "SLOT_TAKEN" =>
            Clashing(q.barber, q.start, q.start + q.dur, {}) # {}]_vars

(* A booking that was decided (accepted, cancelled, closed out) is never   *)
(* awaiting a decision again, although updates are lost to one another.    *)
DecidedStaysDecided ==
  [][\A a \in DOMAIN rows :
       rows[a].status # "PENDING" => rows'[a].status # "PENDING"]_vars

(* The slot a shop has not accepted is not held for ever: every pending    *)
(* booking is eventually accepted, closed out or released.                 *)
EveryPendingIsDecided ==
  \A a \in Appts :
    (a \in DOMAIN rows /\ rows[a].status = "PENDING")
      ~> (a \in DOMAIN rows /\ rows[a].status # "PENDING")

(* COMPLETED, CANCELLED and NO_SHOW are terminal (SPEC section 4).         *)
TerminalIsFinal ==
  [][\A a \in DOMAIN rows :
       rows[a].status \in Terminal => rows'[a].status = rows[a].status]_vars

(* No work is counted as done, and nobody as absent, before the start of   *)
(* the appointment as it stands in the row.                                *)
ClosedOutOnlyAfterStart ==
  \A a \in DOMAIN rows :
    rows[a].status \in {"COMPLETED", "NO_SHOW"} => rows[a].start <= now

(* end_time is derived from the service duration.                          *)
LengthIsAServiceDuration ==
  \A a \in DOMAIN rows : rows[a].end - rows[a].start \in Durations

(* The expiry job never takes a booking from a customer whose shop         *)
(* accepted it: only a person's cancellation ends a confirmed one.         *)
ConfirmedNeverExpires ==
  [][\A a \in DOMAIN rows :
       rows[a].status = "CONFIRMED" /\ rows'[a].status = "CANCELLED"
         => rows'[a].cancelledBy # "nobody"]_vars

-----------------------------------------------------------------------------
(* The slots the active rows hold, and what they promise.                  *)
Held ==
  [a \in {x \in DOMAIN rows : rows[x].status \in Active} |->
     [barber |-> rows[a].barber, start |-> rows[a].start, end |-> rows[a].end]]

Book == INSTANCE Calendar WITH held <- Held, Times <- Starts \cup Ends
ImplementsCalendar == Book!Spec
=============================================================================
