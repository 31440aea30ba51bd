---------------------------- MODULE BookingProofs ----------------------------
(***************************************************************************)
(* Proofs about Booking for every set of appointments, barbers, customers, *)
(* handlers and workers and every value of the settings: type correctness, *)
(* the absence of double bookings, and that the rows implement Calendar.   *)
(***************************************************************************)
EXTENDS Booking, TLAPS

(* The strengthening of NoDoubleBooking that every step preserves.         *)
IInv == TypeOK /\ EndAfterStart /\ NoDoubleBooking

(* Row a gets version v, inserted or updated; the other rows stay.         *)
Writes(a, v) ==
  /\ DOMAIN rows' = DOMAIN rows \cup {a}
  /\ rows' = [x \in DOMAIN rows' |-> IF x = a THEN v ELSE rows[x]]

-----------------------------------------------------------------------------
(* What each commit writes *)

LEMMA EndsOfSlots ==
  \A s \in Starts, d \in Durations : s + d \in Ends /\ s < s + d
<1>1. \A s \in Starts, d \in Durations : s + d \in Ends
  BY DEF Ends
<1>2. \A s \in Starts : s \in Nat
  BY BookingAssumption
<1>3. \A d \in Durations : d \in Nat /\ d > 0
  BY BookingAssumption
<1> QED  BY <1>1, <1>2, <1>3

LEMMA InsertedRow ==
  ASSUME TypeOK, NEW r \in Requests,
         req[r].op = "create", NEW vetted \in Vetting
  PROVE  /\ NewRow(req[r], vetted) \in Row
         /\ NewRow(req[r], vetted).start < NewRow(req[r], vetted).end
<1>1. req[r] \in CreateReq
  BY DEF TypeOK, Req, IdleReq, CreateReq, MoveReq, RefusedReq, StatusReq
<1>2. req[r].start \in Starts /\ req[r].dur \in Durations
  BY <1>1 DEF CreateReq
<1>3. req[r].start + req[r].dur \in Ends /\ req[r].start < req[r].start + req[r].dur
  BY <1>2, EndsOfSlots
<1> QED
  BY <1>1, <1>2, <1>3 DEF NewRow, CreateReq, Row, Status, Actor

LEMMA MovedRow ==
  ASSUME TypeOK, NEW r \in Requests, req[r].op = "reschedule"
  PROVE  /\ req[r].appt \in DOMAIN rows
         /\ Moved(rows[req[r].appt], req[r]) \in Row
         /\ Moved(rows[req[r].appt], req[r]).barber = rows[req[r].appt].barber
         /\ Moved(rows[req[r].appt], req[r]).status = rows[req[r].appt].status
<1>1. req[r] \in MoveReq
  BY DEF TypeOK, Req, IdleReq, CreateReq, MoveReq, RefusedReq, StatusReq
<1>2. req[r].start \in Starts /\ req[r].dur \in Durations
  BY <1>1 DEF MoveReq
<1>4. req[r].start + req[r].dur \in Ends
  BY <1>2, EndsOfSlots
<1>3. req[r].appt \in DOMAIN rows /\ rows[req[r].appt] \in Row
  BY DEF TypeOK
<1> QED
  BY <1>2, <1>3, <1>4 DEF Moved, Row

LEMMA StatusRow ==
  ASSUME TypeOK, NEW r \in Requests, req[r].op = "status"
  PROVE  LET a == req[r].appt
             v == WithStatus(rows[a], req[r].target, req[r].by)
         IN /\ a \in DOMAIN rows
            /\ v \in Row
            /\ v.status # "PENDING"
            /\ v.barber = rows[a].barber /\ v.start = rows[a].start /\ v.end = rows[a].end
<1>1. req[r] \in StatusReq
  BY DEF TypeOK, Req, IdleReq, CreateReq, MoveReq, RefusedReq, StatusReq
<1>2. req[r].appt \in DOMAIN rows /\ rows[req[r].appt] \in Row
  BY DEF TypeOK
<1> QED
  BY <1>1, <1>2 DEF WithStatus, Row, StatusReq, Status

LEMMA RowBoundsAreNat ==
  \A v \in Row : v.start \in Nat /\ v.end \in Nat
<1>1. \A s \in Starts : s \in Nat
  BY BookingAssumption
<1>2. \A d \in Durations : d \in Nat
  BY BookingAssumption
<1>3. \A e \in Ends : e \in Nat
  BY <1>1, <1>2 DEF Ends
<1> QED  BY <1>1, <1>3 DEF Row

(* An update of an existing row is a write.                                *)
LEMMA UpdateWrites ==
  ASSUME NEW a \in DOMAIN rows, NEW v, TypeOK, rows' = [rows EXCEPT ![a] = v]
  PROVE  Writes(a, v)
BY DEF Writes, TypeOK

-----------------------------------------------------------------------------
(* Type correctness *)

(* The rows stay a table of rows when one of them is written.              *)
LEMMA WriteKeepsTypes ==
  ASSUME NEW a \in Appts, NEW v \in Row, TypeOK, Writes(a, v)
  PROVE  /\ DOMAIN rows' \subseteq Appts
         /\ rows' \in [DOMAIN rows' -> Row]
         /\ DOMAIN rows \subseteq DOMAIN rows'
BY DEF Writes, TypeOK

(* A handler that goes back to idle, over a table that only grows.         *)
LEMMA AnswerKeepsTypes ==
  ASSUME NEW r \in Requests, NEW answer \in Answers, TypeOK,
         req' = [req EXCEPT ![r] = Idle(answer)],
         DOMAIN rows \subseteq DOMAIN rows',
         UNCHANGED stale
  PROVE  /\ req' \in [Requests -> Req]
         /\ \A q \in Requests :
              req'[q].op \in {"reschedule", "status"} => req'[q].appt \in DOMAIN rows'
         /\ stale' \in [Workers -> SUBSET DOMAIN rows']
<1>1. Idle(answer) \in Req /\ Idle(answer).op = "idle"
  BY DEF Idle, Req, IdleReq
<1>2. req' \in [Requests -> Req]
  BY <1>1 DEF TypeOK
<1>3. ASSUME NEW q \in Requests, req'[q].op \in {"reschedule", "status"}
      PROVE  req'[q].appt \in DOMAIN rows'
  BY <1>1, <1>3 DEF TypeOK
<1>4. stale' \in [Workers -> SUBSET DOMAIN rows']
  BY DEF TypeOK
<1> QED  BY <1>2, <1>3, <1>4

(* The first look lets a request that it offers the time go on to its      *)
(* commit; the others have a reason to find.                               *)
LEMMA FirstLook ==
  ASSUME TypeOK, NEW r \in Requests, CheckOffer(r)
  PROVE  LET q == req[r]
             p == req'[r]
         IN /\ req' = [req EXCEPT ![r] = p]
            /\ p \in Req
            /\ \/ p.op = "refused"
               \/ /\ p.op = q.op /\ p.barber = q.barber /\ p.start = q.start
                  /\ p.dur = q.dur /\ p.moment = q.moment /\ p.stage = "commit"
                  /\ p.op = "reschedule" =>
                       p.appt = q.appt /\ p.seenStart = q.seenStart /\ p.seenEnd = q.seenEnd
                  /\ OnOffer(q.barber, q.start, q.dur, q.moment, Own(q))
            /\ p.op = "refused" => (Bookable(p.barber, p.start, p.dur, p.moment) => p.blocked)
            /\ UNCHANGED <<now, rows, stale>>
<1> DEFINE q == req[r]
           Blocked == Clashing(q.barber, q.start, q.start + q.dur, Own(q)) # {}
<1>1. q \in CreateReq \/ q \in MoveReq
  BY DEF CheckOffer, TypeOK, Req, IdleReq, CreateReq, MoveReq, RefusedReq, StatusReq
<1>2. CASE OnOffer(q.barber, q.start, q.dur, q.moment, Own(q))
  <2>1. req' = [req EXCEPT ![r] = [q EXCEPT !.stage = "commit"]]
    BY <1>2 DEF CheckOffer
  <2>2. req'[r] = [q EXCEPT !.stage = "commit"]
    BY <2>1 DEF TypeOK
  <2>3. req'[r] \in Req
    BY <1>1, <2>2 DEF Req, CreateReq, MoveReq, Stages
  <2> QED
    BY <1>1, <1>2, <2>1, <2>2, <2>3 DEF CheckOffer, CreateReq, MoveReq
<1>3. CASE ~ OnOffer(q.barber, q.start, q.dur, q.moment, Own(q))
  <2> DEFINE p == [op |-> "refused", barber |-> q.barber, start |-> q.start,
                   dur |-> q.dur, moment |-> q.moment, blocked |-> Blocked]
  <2>1. req' = [req EXCEPT ![r] = p]
    BY <1>3 DEF CheckOffer
  <2>2. req'[r] = p
    BY <2>1 DEF TypeOK
  <2>3. Blocked \in BOOLEAN /\ (Bookable(q.barber, q.start, q.dur, q.moment) => Blocked)
    BY <1>3 DEF OnOffer
  <2> HIDE DEF Blocked
  <2>4. p \in Req
    BY <1>1, <2>3 DEF Req, CreateReq, MoveReq, RefusedReq
  <2>5. /\ p.op = "refused" /\ p.barber = q.barber /\ p.start = q.start /\ p.dur = q.dur
        /\ p.moment = q.moment /\ p.blocked = Blocked
    OBVIOUS
  <2>6. UNCHANGED <<now, rows, stale>>
    BY DEF CheckOffer
  <2> HIDE DEF p
  <2>7. Bookable(p.barber, p.start, p.dur, p.moment) => p.blocked
    BY <2>3, <2>5
  <2> QED
    BY <2>1, <2>2, <2>4, <2>5, <2>6, <2>7
<1> QED  BY <1>2, <1>3

(* The second look ends it with an answer.                                 *)
LEMMA TheSecondLook ==
  ASSUME TypeOK, NEW r \in Requests, SecondLook(r)
  PROVE  /\ req' = [req EXCEPT ![r] = Idle(Refusal(req[r].barber, req[r].start,
                                                   req[r].dur, req[r].moment))]
         /\ Refusal(req[r].barber, req[r].start, req[r].dur, req[r].moment) \in Answers
         /\ req'[r].op = "idle"
         /\ UNCHANGED <<now, rows, stale>>
BY DEF SecondLook, TypeOK, Refusal, Answers, Idle

LEMMA TypeStep ==
  ASSUME TypeOK, [Next]_vars
  PROVE  TypeOK'
<1>1. ASSUME NEW r \in Requests, Create(r)
      PROVE  TypeOK'
  <2>1. PICK c \in Customers, b \in Barbers, s \in Starts, d \in Durations :
          req' = [req EXCEPT ![r] =
                    [op |-> "create", stage |-> "offer", customer |-> c, barber |-> b,
                     start |-> s, dur |-> d, moment |-> now]]
    BY <1>1 DEF Create
  <2>2. [op |-> "create", stage |-> "offer", customer |-> c, barber |-> b,
         start |-> s, dur |-> d, moment |-> now] \in Req
    BY DEF TypeOK, Req, CreateReq, Stages
  <2> QED  BY <1>1, <2>1, <2>2 DEF TypeOK, Create
<1>2. ASSUME NEW r \in Requests, Reschedule(r)
      PROVE  TypeOK'
  <2>1. PICK a \in DOMAIN rows, s \in Starts, d \in Durations :
          req' = [req EXCEPT ![r] =
                    [op |-> "reschedule", stage |-> "offer", appt |-> a,
                     barber |-> rows[a].barber, start |-> s, dur |-> d, moment |-> now,
                     seenStart |-> rows[a].start, seenEnd |-> rows[a].end]]
    BY <1>2 DEF Reschedule
  <2>2. a \in Appts /\ rows[a] \in Row
    BY DEF TypeOK
  <2>3. [op |-> "reschedule", stage |-> "offer", appt |-> a,
         barber |-> rows[a].barber, start |-> s, dur |-> d, moment |-> now,
         seenStart |-> rows[a].start, seenEnd |-> rows[a].end] \in Req
    BY <2>2 DEF TypeOK, Req, MoveReq, Row, Stages
  <2> QED  BY <1>2, <2>1, <2>3 DEF TypeOK, Reschedule
<1>3. ASSUME NEW r \in Requests, CheckOffer(r)
      PROVE  TypeOK'
  <2>1. req' = [req EXCEPT ![r] = req'[r]] /\ req'[r] \in Req
    BY <1>3, FirstLook
  <2>2. req'[r].op \in {"reschedule", "status"} => req'[r].appt \in DOMAIN rows
    BY <1>3, FirstLook DEF TypeOK, CheckOffer
  <2> QED  BY <1>3, <2>1, <2>2 DEF TypeOK, CheckOffer
<1>14. ASSUME NEW r \in Requests, SecondLook(r)
       PROVE  TypeOK'
  BY <1>14, TheSecondLook, AnswerKeepsTypes DEF TypeOK
<1>4. ASSUME NEW r \in Requests, Cancel(r) \/ Confirm(r) \/ CloseOut(r)
      PROVE  TypeOK'
  <2>1. PICK a \in DOMAIN rows, target \in Status \ {"PENDING"}, by \in Actor : Stage(r, a, target, by)
    BY <1>4 DEF Cancel, Confirm, CloseOut, Status, Actor
  <2>2. [op |-> "status", stage |-> "commit", appt |-> a, target |-> target, by |-> by] \in Req
    BY DEF TypeOK, Req, StatusReq
  <2> QED  BY <2>1, <2>2 DEF TypeOK, Stage
<1>5. ASSUME NEW r \in Requests, CommitCreate(r)
      PROVE  TypeOK'
  <2>1. PICK a \in Appts \ DOMAIN rows, vetted \in Vetting :
          \/ req' = [req EXCEPT ![r] = Idle("SLOT_TAKEN")] /\ UNCHANGED rows
          \/ /\ req' = [req EXCEPT ![r] = Idle("ok")]
             /\ Writes(a, NewRow(req[r], vetted))
    BY <1>5 DEF CommitCreate, Writes
  <2>2. NewRow(req[r], vetted) \in Row
    BY <1>5, InsertedRow DEF CommitCreate
  <2> QED
    BY <1>5, <2>1, <2>2, AnswerKeepsTypes, WriteKeepsTypes DEF CommitCreate, TypeOK, Answers
<1>6. ASSUME NEW r \in Requests, CommitMove(r)
      PROVE  TypeOK'
  <2> DEFINE a == req[r].appt
             v == Moved(rows[a], req[r])
  <2>1. a \in DOMAIN rows /\ v \in Row
    BY <1>6, MovedRow DEF CommitMove
  <2>2. CASE UNCHANGED rows
    BY <1>6, <2>2, AnswerKeepsTypes DEF CommitMove, TypeOK, Answers
  <2>3. CASE rows' = [rows EXCEPT ![a] = v] /\ req' = [req EXCEPT ![r] = Idle("ok")]
    BY <1>6, <2>1, <2>3, UpdateWrites, AnswerKeepsTypes, WriteKeepsTypes
       DEF CommitMove, TypeOK, Answers
  <2> QED  BY <1>6, <2>2, <2>3 DEF CommitMove
<1>7. ASSUME NEW r \in Requests, CommitStatus(r)
      PROVE  TypeOK'
  <2> DEFINE a == req[r].appt
             v == WithStatus(rows[a], req[r].target, req[r].by)
  <2>1. a \in DOMAIN rows /\ v \in Row
    BY <1>7, StatusRow DEF CommitStatus
  <2>2. CASE UNCHANGED rows
    BY <1>7, <2>2, AnswerKeepsTypes DEF CommitStatus, TypeOK, Answers
  <2>3. CASE rows' = [rows EXCEPT ![a] = v] /\ req' = [req EXCEPT ![r] = Idle("ok")]
    BY <1>7, <2>1, <2>3, UpdateWrites, AnswerKeepsTypes, WriteKeepsTypes
       DEF CommitStatus, TypeOK, Answers
  <2> QED  BY <1>7, <2>2, <2>3 DEF CommitStatus
<1>8. ASSUME NEW r \in Requests, Abandon(r)
      PROVE  TypeOK'
  BY <1>8, AnswerKeepsTypes DEF Abandon, TypeOK, Answers
<1>9. ASSUME NEW w \in Workers, ExpireScan(w)
      PROVE  TypeOK'
  BY <1>9 DEF ExpireScan, TypeOK
<1>10. ASSUME NEW w \in Workers, ExpireCommit(w)
       PROVE  TypeOK'
  <2>1. \A a \in DOMAIN rows : [rows[a] EXCEPT !.status = "CANCELLED"] \in Row
    BY DEF TypeOK, Row, Status
  <2> QED  BY <1>10, <2>1 DEF ExpireCommit, TypeOK
<1>11. ASSUME NEW w \in Workers, ExpireCrash(w)
       PROVE  TypeOK'
  BY <1>11 DEF ExpireCrash, TypeOK
<1>12. CASE Tick
  BY <1>12 DEF Tick, TypeOK
<1>13. CASE UNCHANGED vars
  BY <1>13 DEF vars, TypeOK
<1> QED
  BY <1>1, <1>2, <1>3, <1>4, <1>5, <1>6, <1>7, <1>8, <1>9, <1>10, <1>11, <1>12, <1>13,
     <1>14
     DEF Next, Request, Job

(* Every variable keeps its type, and handlers and jobs only ever hold ids *)
(* of rows that exist.                                                     *)
THEOREM TypeCorrect == Spec => []TypeOK
<1>1. Init => TypeOK
  BY DEF Init, TypeOK, Idle, Req, IdleReq, Answers
<1>2. TypeOK /\ [Next]_vars => TypeOK'
  BY TypeStep
<1> QED  BY <1>1, <1>2, PTL DEF Spec

-----------------------------------------------------------------------------
(* No double booking *)

(* NoDoubleBooking, two rows at a time.                                    *)
Apart(x, y) ==
  x.barber = y.barber => ~ (x.start < y.end /\ y.start < x.end)

LEMMA Pairwise ==
  NoDoubleBooking <=>
    \A a, o \in DOMAIN rows :
      a # o /\ rows[a].status \in Active /\ rows[o].status \in Active
        => Apart(rows[a], rows[o])
BY DEF NoDoubleBooking, Clashing, Apart

LEMMA PairwiseNext ==
  NoDoubleBooking' <=>
    \A a, o \in DOMAIN rows' :
      a # o /\ rows'[a].status \in Active /\ rows'[o].status \in Active
        => Apart(rows'[a], rows'[o])
BY DEF NoDoubleBooking, Clashing, Apart

(* A write that the exclusion constraint lets through keeps rows apart: an *)
(* inactive version blocks nobody, an active one clashes with nobody, and  *)
(* clashing is symmetric.                                                  *)
LEMMA WriteKeepsRowsApart ==
  ASSUME NEW a \in Appts, NEW v, NoDoubleBooking, EndAfterStart,
         Writes(a, v), ~ Excluded(a, v), v.start < v.end
  PROVE  NoDoubleBooking' /\ EndAfterStart'
<1>1. ASSUME NEW x \in DOMAIN rows', NEW y \in DOMAIN rows', x # y,
             rows'[x].status \in Active, rows'[y].status \in Active
      PROVE  Apart(rows'[x], rows'[y])
  <2>1. CASE x # a /\ y # a
    BY <1>1, <2>1, Pairwise DEF Writes
  <2>2. CASE x = a
    BY <1>1, <2>2 DEF Writes, Excluded, Clashing, Apart
  <2>3. CASE y = a
    BY <1>1, <2>3 DEF Writes, Excluded, Clashing, Apart
  <2> QED  BY <2>1, <2>2, <2>3
<1>2. NoDoubleBooking'
  BY <1>1, PairwiseNext
<1>3. EndAfterStart'
  BY DEF EndAfterStart, Writes
<1> QED  BY <1>2, <1>3

LEMMA InvariantStep ==
  ASSUME IInv, [Next]_vars
  PROVE  NoDoubleBooking' /\ EndAfterStart'
<1> USE DEF IInv
<1>1. ASSUME UNCHANGED rows
      PROVE  NoDoubleBooking' /\ EndAfterStart'
  BY <1>1 DEF NoDoubleBooking, EndAfterStart, Clashing
<1>2. ASSUME NEW r \in Requests,
             \/ Create(r) \/ Reschedule(r) \/ CheckOffer(r) \/ SecondLook(r)
             \/ Cancel(r) \/ Confirm(r) \/ CloseOut(r) \/ Abandon(r)
      PROVE  UNCHANGED rows
  BY <1>2 DEF Create, Reschedule, CheckOffer, SecondLook, Cancel, Confirm, CloseOut, Abandon, Stage
<1>3. ASSUME NEW w \in Workers, ExpireScan(w) \/ ExpireCrash(w)
      PROVE  UNCHANGED rows
  BY <1>3 DEF ExpireScan, ExpireCrash
<1>4. CASE Tick
  BY <1>1, <1>4 DEF Tick
<1>5. CASE UNCHANGED vars
  BY <1>1, <1>5 DEF vars
<1>6. ASSUME NEW r \in Requests, CommitCreate(r)
      PROVE  NoDoubleBooking' /\ EndAfterStart'
  <2>1. PICK a \in Appts \ DOMAIN rows, vetted \in Vetting :
          \/ UNCHANGED rows
          \/ ~ Excluded(a, NewRow(req[r], vetted)) /\ Writes(a, NewRow(req[r], vetted))
    BY <1>6 DEF CommitCreate, Writes
  <2>2. NewRow(req[r], vetted).start < NewRow(req[r], vetted).end
    BY <1>6, InsertedRow DEF CommitCreate
  <2> QED  BY <1>1, <2>1, <2>2, WriteKeepsRowsApart
<1>7. ASSUME NEW r \in Requests, CommitMove(r)
      PROVE  NoDoubleBooking' /\ EndAfterStart'
  <2> DEFINE a == req[r].appt
             v == Moved(rows[a], req[r])
  <2>1. a \in DOMAIN rows /\ a \in Appts /\ v \in Row
    BY <1>7, MovedRow DEF CommitMove, TypeOK
  <2>2. CASE UNCHANGED rows
    BY <1>1, <2>2
  <2>3. CASE ~ (CheckFails(v) \/ Excluded(a, v)) /\ rows' = [rows EXCEPT ![a] = v]
    <3>1. v.start \in Nat /\ v.end \in Nat
      BY <2>1, RowBoundsAreNat
    <3>2. v.start < v.end
      BY <2>3, <3>1 DEF CheckFails
    <3>3. Writes(a, v)
      BY <2>1, <2>3, UpdateWrites
    <3> QED  BY <2>1, <2>3, <3>2, <3>3, WriteKeepsRowsApart
  <2> QED  BY <1>7, <2>2, <2>3 DEF CommitMove
<1>8. ASSUME NEW r \in Requests, CommitStatus(r)
      PROVE  NoDoubleBooking' /\ EndAfterStart'
  <2> DEFINE a == req[r].appt
             v == WithStatus(rows[a], req[r].target, req[r].by)
  <2>1. a \in DOMAIN rows /\ a \in Appts /\ v.start < v.end
    BY <1>8, StatusRow DEF CommitStatus, TypeOK, EndAfterStart
  <2>2. CASE UNCHANGED rows
    BY <1>1, <2>2
  <2>3. CASE ~ Excluded(a, v) /\ rows' = [rows EXCEPT ![a] = v]
    <3>1. Writes(a, v)
      BY <2>1, <2>3, UpdateWrites
    <3> QED  BY <2>1, <2>3, <3>1, WriteKeepsRowsApart
  <2> QED  BY <1>8, <2>2, <2>3 DEF CommitStatus
<1>9. ASSUME NEW w \in Workers, ExpireCommit(w)
      PROVE  NoDoubleBooking' /\ EndAfterStart'
  <2>1. /\ DOMAIN rows' = DOMAIN rows
        /\ \A a \in DOMAIN rows :
             /\ rows'[a].barber = rows[a].barber
             /\ rows'[a].start = rows[a].start /\ rows'[a].end = rows[a].end
             /\ rows'[a].status \in Active => rows[a].status \in Active
    <3>1. \A a \in DOMAIN rows : rows[a] \in Row
      BY DEF TypeOK
    <3> QED  BY <1>9, <3>1 DEF ExpireCommit, Active, Row
  <2>2. NoDoubleBooking'
    BY <2>1, Pairwise, PairwiseNext DEF Apart
  <2>3. EndAfterStart'
    BY <2>1 DEF EndAfterStart
  <2> QED  BY <2>2, <2>3
<1> QED
  BY <1>1, <1>2, <1>3, <1>4, <1>5, <1>6, <1>7, <1>8, <1>9 DEF Next, Request, Job

LEMMA IInvCorrect == Spec => []IInv
<1>1. Init => IInv
  BY DEF Init, IInv, TypeOK, EndAfterStart, NoDoubleBooking, Idle, Req, IdleReq, Answers
<1>2. IInv /\ [Next]_vars => IInv'
  BY TypeStep, InvariantStep DEF IInv
<1> QED  BY <1>1, <1>2, PTL DEF Spec

(* The promise the data model makes: whatever requests, late commits and   *)
(* jobs interleave, no two active appointments of one barber overlap.      *)
THEOREM DoubleBookingIsImpossible == Spec => []NoDoubleBooking
<1>1. IInv => NoDoubleBooking
  BY DEF IInv
<1> QED  BY <1>1, IInvCorrect, PTL

(* However moves interleave column by column, a row is a proper span: an   *)
(* empty one overlaps nothing, and a reversed one is not a range at all.   *)
THEOREM RowsAreSpans == Spec => []EndAfterStart
<1>1. IInv => EndAfterStart
  BY DEF IInv
<1> QED  BY <1>1, IInvCorrect, PTL

-----------------------------------------------------------------------------
(* Booking implements Calendar *)

HeldSlot(row) == [barber |-> row.barber, start |-> row.start, end |-> row.end]

ActiveRows == {x \in DOMAIN rows : rows[x].status \in Active}

LEMMA HeldIs ==
  /\ Held = [a \in ActiveRows |-> HeldSlot(rows[a])]
  /\ Held' = [a \in ActiveRows' |-> HeldSlot(rows'[a])]
BY DEF Held, ActiveRows, HeldSlot

LEMMA HeldSlotIsSlot ==
  ASSUME NEW v \in Row, v.start < v.end
  PROVE  HeldSlot(v) \in Book!Slot
BY DEF HeldSlot, Book!Slot, Row

(* A write the constraint lets through takes, moves or releases one slot.  *)
LEMMA WriteImplements ==
  ASSUME NEW a \in Appts, NEW v \in Row, v.start < v.end, Writes(a, v), ~ Excluded(a, v),
         a \in DOMAIN rows => v.barber = rows[a].barber
  PROVE  [Book!Next]_Held
<1> USE HeldIs
<1>1. CASE v.status \notin Active
  <2>1. ActiveRows' = ActiveRows \ {a}
    BY <1>1 DEF Writes, ActiveRows
  <2>2. Held' = [x \in DOMAIN Held \ {a} |-> Held[x]]
    BY <2>1 DEF Writes, ActiveRows
  <2> QED  BY <2>2 DEF Book!Next, Book!Release
<1>2. CASE v.status \in Active
  <2>1. ActiveRows' = ActiveRows \cup {a} /\ rows'[a] = v
    BY <1>2 DEF Writes, ActiveRows
  <2>2. Book!Fits(a, HeldSlot(v))
    BY <1>2 DEF Excluded, Clashing, Book!Fits, Book!Overlap, HeldSlot, ActiveRows
  <2>3. HeldSlot(v) \in Book!Slot
    BY HeldSlotIsSlot
  <2>4. CASE a \notin ActiveRows
    <3>1. Held' = [x \in DOMAIN Held \cup {a} |-> IF x = a THEN HeldSlot(v) ELSE Held[x]]
      BY <2>1, <2>4 DEF Writes, ActiveRows
    <3>2. Book!Hold(a, HeldSlot(v))
      BY <2>2, <2>4, <3>1 DEF Book!Hold
    <3> QED  BY <2>3, <3>2 DEF Book!Next
  <2>5. CASE a \in ActiveRows
    <3>1. Held' = [Held EXCEPT ![a] = HeldSlot(v)]
      BY <2>1, <2>5 DEF Writes, ActiveRows
    <3>2. a \in DOMAIN Held /\ HeldSlot(v).barber = Held[a].barber
      BY <2>5 DEF ActiveRows, HeldSlot
    <3>3. Book!Move(a, HeldSlot(v))
      BY <2>2, <3>1, <3>2 DEF Book!Move
    <3> QED  BY <2>3, <3>3 DEF Book!Next
  <2> QED  BY <2>4, <2>5
<1> QED  BY <1>1, <1>2

LEMMA StepImplements ==
  ASSUME IInv, [Next]_vars
  PROVE  [Book!Next]_Held
<1> USE DEF IInv
<1>1. ASSUME UNCHANGED rows
      PROVE  [Book!Next]_Held
  BY <1>1 DEF Held
<1>2. ASSUME NEW r \in Requests,
             \/ Create(r) \/ Reschedule(r) \/ CheckOffer(r) \/ SecondLook(r)
             \/ Cancel(r) \/ Confirm(r) \/ CloseOut(r) \/ Abandon(r)
      PROVE  UNCHANGED rows
  BY <1>2 DEF Create, Reschedule, CheckOffer, SecondLook, Cancel, Confirm, CloseOut, Abandon, Stage
<1>3. ASSUME NEW w \in Workers, ExpireScan(w) \/ ExpireCrash(w)
      PROVE  UNCHANGED rows
  BY <1>3 DEF ExpireScan, ExpireCrash
<1>4. ASSUME NEW r \in Requests, CommitCreate(r)
      PROVE  [Book!Next]_Held
  <2>1. PICK a \in Appts \ DOMAIN rows, vetted \in Vetting :
          \/ UNCHANGED rows
          \/ ~ Excluded(a, NewRow(req[r], vetted)) /\ Writes(a, NewRow(req[r], vetted))
    BY <1>4 DEF CommitCreate, Writes
  <2>2. /\ NewRow(req[r], vetted) \in Row
        /\ NewRow(req[r], vetted).start < NewRow(req[r], vetted).end
    BY <1>4, InsertedRow DEF CommitCreate
  <2> QED  BY <1>1, <2>1, <2>2, WriteImplements
<1>5. ASSUME NEW r \in Requests, CommitMove(r)
      PROVE  [Book!Next]_Held
  <2> DEFINE a == req[r].appt
             v == Moved(rows[a], req[r])
  <2>1. a \in Appts /\ a \in DOMAIN rows /\ v \in Row /\ v.barber = rows[a].barber
    BY <1>5, MovedRow DEF CommitMove, TypeOK
  <2>2. CASE ~ (CheckFails(v) \/ Excluded(a, v)) /\ rows' = [rows EXCEPT ![a] = v]
    <3>1. v.start < v.end
      BY <2>1, <2>2, RowBoundsAreNat DEF CheckFails
    <3>2. Writes(a, v)
      BY <2>1, <2>2, UpdateWrites
    <3> QED  BY <2>1, <2>2, <3>1, <3>2, WriteImplements
  <2> QED  BY <1>1, <1>5, <2>2 DEF CommitMove
<1>6. ASSUME NEW r \in Requests, CommitStatus(r)
      PROVE  [Book!Next]_Held
  <2> DEFINE a == req[r].appt
             v == WithStatus(rows[a], req[r].target, req[r].by)
  <2>1. /\ a \in Appts /\ a \in DOMAIN rows /\ v \in Row
        /\ v.barber = rows[a].barber /\ v.start < v.end
    BY <1>6, StatusRow DEF CommitStatus, TypeOK, EndAfterStart
  <2>2. CASE ~ Excluded(a, v) /\ rows' = [rows EXCEPT ![a] = v]
    <3>1. Writes(a, v)
      BY <2>1, <2>2, UpdateWrites
    <3> QED  BY <2>1, <2>2, <3>1, WriteImplements
  <2> QED  BY <1>1, <1>6, <2>2 DEF CommitStatus
<1>7. ASSUME NEW w \in Workers, ExpireCommit(w)
      PROVE  [Book!Next]_Held
  <2> DEFINE S == stale[w]
  <2>1. S \subseteq DOMAIN rows /\ S \subseteq Appts
    BY DEF TypeOK
  <2>2. /\ DOMAIN rows' = DOMAIN rows
        /\ \A a \in DOMAIN rows \ S : rows'[a] = rows[a]
        /\ \A a \in S : rows'[a].status = "CANCELLED"
    <3>1. \A a \in DOMAIN rows : rows[a] \in Row
      BY DEF TypeOK
    <3> QED  BY <1>7, <2>1, <3>1 DEF ExpireCommit, Row
  <2>3. ActiveRows' = ActiveRows \ S
    BY <2>1, <2>2 DEF ActiveRows, Active
  <2>4. Held' = [x \in DOMAIN Held \ S |-> Held[x]]
    BY <2>2, <2>3, HeldIs DEF ActiveRows
  <2> QED  BY <2>1, <2>4 DEF Book!Next, Book!Release
<1>8. CASE Tick
  BY <1>1, <1>8 DEF Tick
<1>9. CASE UNCHANGED vars
  BY <1>1, <1>9 DEF vars
<1> QED
  BY <1>1, <1>2, <1>3, <1>4, <1>5, <1>6, <1>7, <1>8, <1>9 DEF Next, Request, Job

(* The rows implement the abstract appointment book: every step of every   *)
(* request and job takes, moves or releases slots that are free, or leaves *)
(* the slots alone.                                                        *)
THEOREM BookingImplementsCalendar == Spec => ImplementsCalendar
<1>1. Init => Book!Init
  BY DEF Init, Book!Init, Held
<1>2. IInv /\ [Next]_vars => [Book!Next]_Held
  BY StepImplements
<1> QED  BY <1>1, <1>2, IInvCorrect, PTL DEF Spec, ImplementsCalendar, Book!Spec

-----------------------------------------------------------------------------
(* The vetting decision *)

LEMMA DecidedStep ==
  ASSUME TypeOK, [Next]_vars, NEW a \in DOMAIN rows, rows[a].status # "PENDING"
  PROVE  rows'[a].status # "PENDING"
<1>1. CASE UNCHANGED rows
  BY <1>1
<1>2. ASSUME NEW r \in Requests, CommitCreate(r), ~ UNCHANGED rows
      PROVE  rows'[a] = rows[a]
  BY <1>2 DEF CommitCreate
<1>3. ASSUME NEW r \in Requests, CommitMove(r)
      PROVE  rows'[a].status = rows[a].status
  <2> DEFINE b == req[r].appt
             v == Moved(rows[b], req[r])
  <2>1. b \in DOMAIN rows /\ v.status = rows[b].status
    BY <1>3, MovedRow DEF CommitMove
  <2>2. UNCHANGED rows \/ rows' = [rows EXCEPT ![b] = v]
    BY <1>3 DEF CommitMove
  <2> QED  BY <2>1, <2>2 DEF TypeOK
<1>4. ASSUME NEW r \in Requests, CommitStatus(r)
      PROVE  rows'[a].status # "PENDING"
  <2> DEFINE b == req[r].appt
             v == WithStatus(rows[b], req[r].target, req[r].by)
  <2>1. b \in DOMAIN rows /\ v.status # "PENDING"
    BY <1>4, StatusRow DEF CommitStatus
  <2>2. UNCHANGED rows \/ rows' = [rows EXCEPT ![b] = v]
    BY <1>4 DEF CommitStatus
  <2> QED  BY <2>1, <2>2 DEF TypeOK
<1>5. ASSUME NEW w \in Workers, ExpireCommit(w)
      PROVE  rows'[a].status # "PENDING"
  <2>1. rows[a] \in Row
    BY DEF TypeOK
  <2> QED  BY <1>5, <2>1 DEF ExpireCommit, Row
<1> QED
  BY <1>1, <1>2, <1>3, <1>4, <1>5
     DEF Next, Request, Job, vars, Create, Reschedule, CheckOffer, SecondLook, Cancel, Confirm, CloseOut,
         Abandon, Stage, ExpireScan, ExpireCrash, Tick

(* Although updates are lost to one another, no schedule of requests and   *)
(* jobs puts a decided booking back among those awaiting a decision.       *)
THEOREM VettingIsDecidedOnce == Spec => DecidedStaysDecided
<1>1. TypeOK /\ [Next]_vars
        => [\A a \in DOMAIN rows :
              rows[a].status # "PENDING" => rows'[a].status # "PENDING"]_vars
  BY DecidedStep
<1> QED  BY <1>1, TypeCorrect, PTL DEF Spec, DecidedStaysDecided
-----------------------------------------------------------------------------
(* The reason for a refusal *)

(* A move knows the barber of its row: no write changes the barber.        *)
MovesKnowTheBarber ==
  \A r \in Requests :
    req[r].op = "reschedule" => req[r].barber = rows[req[r].appt].barber

LEMMA BarbersStay ==
  ASSUME TypeOK, [Next]_vars, NEW a \in DOMAIN rows
  PROVE  a \in DOMAIN rows' /\ rows'[a].barber = rows[a].barber
<1>1. CASE UNCHANGED rows
  BY <1>1
<1>2. ASSUME NEW r \in Requests, CommitCreate(r), ~ UNCHANGED rows
      PROVE  a \in DOMAIN rows' /\ rows'[a] = rows[a]
  BY <1>2 DEF CommitCreate
<1>3. ASSUME NEW r \in Requests, CommitMove(r), ~ UNCHANGED rows
      PROVE  a \in DOMAIN rows' /\ rows'[a].barber = rows[a].barber
  <2> DEFINE b == req[r].appt
             v == Moved(rows[b], req[r])
  <2>1. b \in DOMAIN rows /\ v.barber = rows[b].barber
    BY <1>3, MovedRow DEF CommitMove
  <2>2. rows' = [rows EXCEPT ![b] = v]
    BY <1>3 DEF CommitMove
  <2> QED  BY <2>1, <2>2 DEF TypeOK
<1>4. ASSUME NEW r \in Requests, CommitStatus(r), ~ UNCHANGED rows
      PROVE  a \in DOMAIN rows' /\ rows'[a].barber = rows[a].barber
  <2> DEFINE b == req[r].appt
             v == WithStatus(rows[b], req[r].target, req[r].by)
  <2>1. b \in DOMAIN rows /\ v.barber = rows[b].barber
    BY <1>4, StatusRow DEF CommitStatus
  <2>2. rows' = [rows EXCEPT ![b] = v]
    BY <1>4 DEF CommitStatus
  <2> QED  BY <2>1, <2>2 DEF TypeOK
<1>5. ASSUME NEW w \in Workers, ExpireCommit(w)
      PROVE  a \in DOMAIN rows' /\ rows'[a].barber = rows[a].barber
  <2>1. rows[a] \in Row
    BY DEF TypeOK
  <2> QED  BY <1>5, <2>1 DEF ExpireCommit, Row
<1> QED
  BY <1>1, <1>2, <1>3, <1>4, <1>5
     DEF Next, Request, Job, vars, Create, Reschedule, CheckOffer, SecondLook, Cancel, Confirm, CloseOut,
         Abandon, Stage, ExpireScan, ExpireCrash, Tick

(* What a step makes of a handler that has a move in hand after it: it     *)
(* loaded the row in this step, or it had the same move in hand before.    *)
LEMMA MovesInHand ==
  ASSUME TypeOK, [Next]_vars, NEW r \in Requests, req'[r].op = "reschedule"
  PROVE  \/ /\ Reschedule(r)
            /\ req'[r].appt \in DOMAIN rows
            /\ req'[r].barber = rows[req'[r].appt].barber
         \/ /\ req[r].op = "reschedule"
            /\ req'[r].appt = req[r].appt /\ req'[r].barber = req[r].barber
<1>1. CASE UNCHANGED req
  BY <1>1
<1>2. ASSUME NEW q \in Requests, Request(q), q # r
      PROVE  req'[r] = req[r]
  BY <1>2 DEF Request, TypeOK, Create, Reschedule, CheckOffer, SecondLook, Cancel, Confirm, CloseOut,
              Stage, CommitCreate, CommitMove, CommitStatus, Abandon
<1>3. CASE Reschedule(r)
  <2>1. req'[r].appt \in DOMAIN rows /\ req'[r].barber = rows[req'[r].appt].barber
    BY <1>3 DEF Reschedule, TypeOK
  <2> QED  BY <1>3, <2>1
<1>4. CASE CheckOffer(r)
  BY <1>4, FirstLook
<1>5. CASE Create(r) \/ Cancel(r) \/ Confirm(r) \/ CloseOut(r)
  BY <1>5 DEF TypeOK, Create, Cancel, Confirm, CloseOut, Stage
<1>6. CASE SecondLook(r) \/ CommitCreate(r) \/ CommitMove(r) \/ CommitStatus(r) \/ Abandon(r)
  <2>1. \E answer : req' = [req EXCEPT ![r] = Idle(answer)]
    BY <1>6 DEF SecondLook, CommitCreate, CommitMove, CommitStatus, Abandon
  <2>2. req'[r].op = "idle"
    BY <2>1 DEF TypeOK, Idle
  <2> QED  BY <2>2
<1> QED
  BY <1>1, <1>2, <1>3, <1>4, <1>5, <1>6
     DEF Next, Request, Job, vars, ExpireScan, ExpireCommit, ExpireCrash, Tick

(* A handler that is looking for the reason of a refusal has seen somebody *)
(* in the way, or an empty book would not have offered the time either.    *)
KnowsWhy(q) ==
  q.op = "refused" => (Bookable(q.barber, q.start, q.dur, q.moment) => q.blocked)

RefusalsKnowWhy == \A r \in Requests : KnowsWhy(req[r])

LEMMA KnownStep ==
  ASSUME TypeOK, RefusalsKnowWhy, [Next]_vars
  PROVE  RefusalsKnowWhy'
<1> SUFFICES ASSUME NEW r \in Requests
             PROVE  KnowsWhy(req'[r])
  BY DEF RefusalsKnowWhy
<1>1. CASE UNCHANGED req
  BY <1>1 DEF RefusalsKnowWhy
<1>2. ASSUME NEW p \in Requests, Request(p), p # r
      PROVE  KnowsWhy(req'[r])
  <2>1. req'[r] = req[r]
    BY <1>2 DEF Request, TypeOK, Create, Reschedule, CheckOffer, SecondLook, Cancel, Confirm,
                CloseOut, Stage, CommitCreate, CommitMove, CommitStatus, Abandon
  <2> QED  BY <2>1 DEF RefusalsKnowWhy
<1>3. CASE CheckOffer(r)
  BY <1>3, FirstLook DEF KnowsWhy
<1>4. CASE Create(r) \/ Reschedule(r)
  <2>1. req'[r].op \in {"create", "reschedule"}
    BY <1>4 DEF TypeOK, Create, Reschedule
  <2> QED  BY <2>1 DEF KnowsWhy
<1>5. CASE Cancel(r) \/ Confirm(r) \/ CloseOut(r)
  <2>1. req'[r].op = "status"
    BY <1>5 DEF TypeOK, Cancel, Confirm, CloseOut, Stage
  <2> QED  BY <2>1 DEF KnowsWhy
<1>6. CASE SecondLook(r) \/ CommitCreate(r) \/ CommitMove(r) \/ CommitStatus(r) \/ Abandon(r)
  <2>1. \E answer : req' = [req EXCEPT ![r] = Idle(answer)]
    BY <1>6 DEF SecondLook, CommitCreate, CommitMove, CommitStatus, Abandon
  <2>2. req'[r].op = "idle"
    BY <2>1 DEF TypeOK, Idle
  <2> QED  BY <2>2 DEF KnowsWhy
<1> QED
  BY <1>1, <1>2, <1>3, <1>4, <1>5, <1>6
     DEF Next, Request, Job, vars, ExpireScan, ExpireCommit, ExpireCrash, Tick

LEMMA BarbersAndReasonsAreKnown == Spec => [](TypeOK /\ MovesKnowTheBarber /\ RefusalsKnowWhy)
<1>1. Init => TypeOK /\ MovesKnowTheBarber /\ RefusalsKnowWhy
  BY DEF Init, TypeOK, MovesKnowTheBarber, RefusalsKnowWhy, KnowsWhy, Idle, Req, IdleReq, Answers
<1>2. TypeOK /\ MovesKnowTheBarber /\ RefusalsKnowWhy /\ [Next]_vars
        => (TypeOK /\ MovesKnowTheBarber /\ RefusalsKnowWhy)'
  <2> SUFFICES ASSUME TypeOK, MovesKnowTheBarber, RefusalsKnowWhy, [Next]_vars
               PROVE  TypeOK' /\ MovesKnowTheBarber' /\ RefusalsKnowWhy'
    OBVIOUS
  <2>1. TypeOK' /\ RefusalsKnowWhy'
    BY TypeStep, KnownStep
  <2>2. ASSUME NEW r \in Requests, req'[r].op = "reschedule"
        PROVE  req'[r].barber = rows'[req'[r].appt].barber
    <3>1. req'[r].appt \in DOMAIN rows /\ req'[r].barber = rows[req'[r].appt].barber
      BY <2>2, MovesInHand DEF TypeOK, MovesKnowTheBarber
    <3> QED  BY <3>1, BarbersStay
  <2> QED  BY <2>1, <2>2 DEF MovesKnowTheBarber
<1> QED  BY <1>1, <1>2, PTL DEF Spec

LEMMA RefusalStep ==
  ASSUME TypeOK, MovesKnowTheBarber, RefusalsKnowWhy, [Next]_vars, NEW r \in Requests,
         req[r].op \in {"create", "reschedule", "refused"}, req'[r].op = "idle"
  PROVE  LET q == req[r]
         IN /\ req'[r].answer = "SLOT_TAKEN" =>
                 IF q.op = "refused"
                 THEN q.blocked
                 ELSE \/ Clashing(q.barber, q.start, q.start + q.dur, Own(q)) # {}
                      \/ MovedMeanwhile(q)
            /\ req'[r].answer = "OUTSIDE_WORKING_HOURS" =>
                 ~ Bookable(q.barber, q.start, q.dur, q.moment)
<1> DEFINE q == req[r]
           own == Own(q)
<1>1. ~ UNCHANGED req
  OBVIOUS
<1>2. ASSUME NEW p \in Requests, Request(p), p # r
      PROVE  req'[r] = req[r]
  BY <1>2 DEF Request, TypeOK, Create, Reschedule, CheckOffer, SecondLook, Cancel, Confirm,
              CloseOut, Stage, CommitCreate, CommitMove, CommitStatus, Abandon
<1>3. Request(r)
  BY <1>1, <1>2 DEF Next, Job, vars, ExpireScan, ExpireCommit, ExpireCrash, Tick
<1>4. CASE CheckOffer(r)
  BY <1>4, FirstLook
<1>8. CASE SecondLook(r)
  <2>1. req'[r].answer = Refusal(q.barber, q.start, q.dur, q.moment) /\ q.op = "refused"
    BY <1>8 DEF SecondLook, TypeOK, Idle
  <2>2. KnowsWhy(q)
    BY DEF RefusalsKnowWhy
  <2> QED  BY <2>1, <2>2 DEF KnowsWhy, Refusal
<1>5. CASE CommitCreate(r)
  <2>1. PICK a \in Appts \ DOMAIN rows, vetted \in Vetting :
          \/ req' = [req EXCEPT ![r] = Idle("SLOT_TAKEN")] /\ Excluded(a, NewRow(q, vetted))
          \/ req' = [req EXCEPT ![r] = Idle("ok")]
    BY <1>5 DEF CommitCreate
  <2>2. Excluded(a, NewRow(q, vetted)) => Clashing(q.barber, q.start, q.start + q.dur, {}) # {}
    BY DEF Excluded, Clashing, NewRow
  <2>3. own = {} /\ q.op = "create"
    BY <1>5 DEF CommitCreate, Own
  <2> QED  BY <2>1, <2>2, <2>3 DEF TypeOK, Idle
<1>6. CASE CommitMove(r)
  <2> DEFINE a == q.appt
             v == Moved(rows[a], q)
  <2>1. /\ q.op = "reschedule" /\ own = {a}
        /\ a \in DOMAIN rows /\ rows[a] \in Row /\ v.barber = q.barber
    BY <1>6, MovedRow DEF CommitMove, MovesKnowTheBarber, TypeOK, Own
  <2>2. ~ MovedMeanwhile(q) => v.start = q.start /\ v.end = q.start + q.dur
    BY <2>1 DEF MovedMeanwhile, Moved, Row
  <2>3. Excluded(a, v) => MovedMeanwhile(q) \/ Clashing(q.barber, q.start, q.start + q.dur, own) # {}
    BY <2>1, <2>2 DEF Excluded
  <2>4. req'[r].answer \in {"ERROR", "ok"} \/ (req'[r].answer = "SLOT_TAKEN" /\ Excluded(a, v))
    BY <1>6 DEF CommitMove, TypeOK, Idle
  <2> QED  BY <2>1, <2>3, <2>4
<1>7. CASE Abandon(r)
  BY <1>7 DEF Abandon, TypeOK, Idle
<1> QED
  BY <1>3, <1>4, <1>5, <1>6, <1>7, <1>8
     DEF Request, Create, Reschedule, Cancel, Confirm, CloseOut, Stage, CommitStatus

(* Whatever commits between the two looks and the write: SLOT_TAKEN names  *)
(* a time that somebody else held when the slot list was read or holds     *)
(* when the row is written, OUTSIDE_WORKING_HOURS one that no empty book   *)
(* would offer.  The exception is a move that raced another move of the    *)
(* same booking.                                                           *)
THEOREM RefusalsAreTrue == Spec => RefusedForTheRightReason
<1>1. ASSUME TypeOK, MovesKnowTheBarber, RefusalsKnowWhy, [Next]_vars
      PROVE  [\A r \in Requests :
                LET q == req[r]
                IN q.op \in {"create", "reschedule", "refused"} /\ req'[r].op = "idle" =>
                     /\ req'[r].answer = "SLOT_TAKEN" =>
                          IF q.op = "refused"
                          THEN q.blocked
                          ELSE \/ Clashing(q.barber, q.start, q.start + q.dur, Own(q)) # {}
                               \/ MovedMeanwhile(q)
                     /\ req'[r].answer = "OUTSIDE_WORKING_HOURS" =>
                          ~ Bookable(q.barber, q.start, q.dur, q.moment)]_vars
  BY <1>1, RefusalStep
<1> QED  BY <1>1, BarbersAndReasonsAreKnown, PTL DEF Spec, RefusedForTheRightReason

-----------------------------------------------------------------------------
(* One request at a time *)

(* Handlers that do not interleave are one handler; the clock and the      *)
(* expiry job, however many executions of it, still step between the       *)
(* load, the check and the commit of a request.                            *)
OneAtATime == \A r, q \in Requests : r = q

(* A span that begins on the grid and that the barber works from its first *)
(* tick to its last.                                                       *)
IsWorkingTime(b, lo, hi) == lo % Step = 0 /\ lo .. (hi - 1) \subseteq Hours[b]

ClosedOut == {"COMPLETED", "NO_SHOW"}

(* Every row, whatever its status: a row cancelled by the job may be moved *)
(* by the handler that loaded it before, and a confirm may revive it.      *)
RowsAreWorkingTime ==
  \A a \in DOMAIN rows : IsWorkingTime(rows[a].barber, rows[a].start, rows[a].end)

(* A time that passed the check is working time.                           *)
CheckedIsWorkingTime(r) ==
  req[r].op \in {"create", "reschedule"} /\ req[r].stage = "commit"
    => IsWorkingTime(req[r].barber, req[r].start, req[r].start + req[r].dur)

(* A move still sees the row it loaded, which nobody has closed out.       *)
LoadedIsCurrent(r) ==
  req[r].op = "reschedule" =>
    /\ req[r].barber = rows[req[r].appt].barber
    /\ ~ MovedMeanwhile(req[r])
    /\ rows[req[r].appt].status \notin ClosedOut

(* An appointment about to be closed out has begun.                        *)
StagedHasBegun(r) ==
  req[r].op = "status" /\ req[r].target \in ClosedOut => rows[req[r].appt].start <= now

InHand == \A r \in Requests : CheckedIsWorkingTime(r) /\ LoadedIsCurrent(r) /\ StagedHasBegun(r)

Alone == TypeOK /\ RowsAreWorkingTime /\ ClosedOutOnlyAfterStart /\ InHand

(* A step that changes no row and no request keeps all of it, whatever it  *)
(* does to the clock.                                                      *)
LEMMA QuietStep ==
  ASSUME Alone, TypeOK', UNCHANGED <<rows, req>>, now' >= now
  PROVE  Alone'
<1>1. RowsAreWorkingTime'
  BY DEF Alone, RowsAreWorkingTime, IsWorkingTime
<1>2. \A a \in DOMAIN rows : rows[a].start \in Nat
  BY RowBoundsAreNat DEF Alone, TypeOK
<1>3. now \in Nat /\ now' \in Nat
  BY DEF Alone, TypeOK
<1>4. ClosedOutOnlyAfterStart'
  BY <1>2, <1>3 DEF Alone, ClosedOutOnlyAfterStart
<1>5. ASSUME NEW r \in Requests
      PROVE  (CheckedIsWorkingTime(r) /\ LoadedIsCurrent(r) /\ StagedHasBegun(r))'
  <2>1. req[r].op = "status" => req[r].appt \in DOMAIN rows
    BY DEF Alone, TypeOK
  <2>2. CheckedIsWorkingTime(r) /\ LoadedIsCurrent(r) /\ StagedHasBegun(r)
    BY DEF Alone, InHand
  <2>3. CheckedIsWorkingTime(r)'
    BY <2>2 DEF CheckedIsWorkingTime, IsWorkingTime
  <2>4. LoadedIsCurrent(r)'
    BY <2>2 DEF LoadedIsCurrent, MovedMeanwhile
  <2>5. StagedHasBegun(r)'
    BY <1>2, <1>3, <2>1, <2>2 DEF StagedHasBegun
  <2> QED  BY <2>3, <2>4, <2>5
<1> QED  BY <1>1, <1>4, <1>5 DEF Alone, InHand

(* The only handler has something new in hand, over the same rows.         *)
LEMMA HandlerStep ==
  ASSUME OneAtATime, Alone, TypeOK', UNCHANGED <<now, rows>>, NEW r \in Requests,
         (CheckedIsWorkingTime(r) /\ LoadedIsCurrent(r) /\ StagedHasBegun(r))'
  PROVE  Alone'
<1>1. RowsAreWorkingTime'
  BY DEF Alone, RowsAreWorkingTime, IsWorkingTime
<1>2. ClosedOutOnlyAfterStart'
  BY DEF Alone, ClosedOutOnlyAfterStart
<1>3. \A q \in Requests : q = r
  BY DEF OneAtATime
<1>4. InHand'
  BY <1>3 DEF InHand
<1> QED  BY <1>1, <1>2, <1>4 DEF Alone

(* The only handler writes version v of row a, and is done.                *)
LEMMA CommitStep ==
  ASSUME OneAtATime, Alone, TypeOK', UNCHANGED now, NEW r \in Requests, req'[r].op = "idle",
         NEW a, NEW v, Writes(a, v),
         IsWorkingTime(v.barber, v.start, v.end),
         v.status \in ClosedOut => v.start <= now
  PROVE  Alone'
<1>1. RowsAreWorkingTime'
  BY DEF Alone, RowsAreWorkingTime, IsWorkingTime, Writes
<1>2. ClosedOutOnlyAfterStart'
  BY DEF Alone, ClosedOutOnlyAfterStart, ClosedOut, Writes
<1>3. \A q \in Requests : q = r
  BY DEF OneAtATime
<1>4. InHand'
  BY <1>3 DEF InHand, CheckedIsWorkingTime, LoadedIsCurrent, StagedHasBegun
<1> QED  BY <1>1, <1>2, <1>4 DEF Alone

LEMMA AloneStep ==
  ASSUME OneAtATime, Alone, [Next]_vars
  PROVE  Alone'
<1>0. TypeOK /\ TypeOK'
  BY TypeStep DEF Alone
<1>1. ASSUME NEW r \in Requests, Create(r)
      PROVE  Alone'
  <2>1. req'[r].op = "create" /\ req'[r].stage = "offer" /\ UNCHANGED <<now, rows>>
    BY <1>0, <1>1 DEF Create, TypeOK
  <2>2. (CheckedIsWorkingTime(r) /\ LoadedIsCurrent(r) /\ StagedHasBegun(r))'
    BY <2>1 DEF CheckedIsWorkingTime, LoadedIsCurrent, StagedHasBegun
  <2> QED  BY <1>0, <2>1, <2>2, HandlerStep
<1>2. ASSUME NEW r \in Requests, Reschedule(r)
      PROVE  Alone'
  <2>1. PICK a \in DOMAIN rows :
          /\ rows[a].status \in Active
          /\ req'[r].op = "reschedule" /\ req'[r].stage = "offer" /\ req'[r].appt = a
          /\ req'[r].barber = rows[a].barber
          /\ req'[r].seenStart = rows[a].start /\ req'[r].seenEnd = rows[a].end
    BY <1>0, <1>2 DEF Reschedule, MoveMayTouch, TypeOK
  <2>2. UNCHANGED <<now, rows>>
    BY <1>2 DEF Reschedule
  <2>3. (CheckedIsWorkingTime(r) /\ LoadedIsCurrent(r) /\ StagedHasBegun(r))'
    BY <2>1, <2>2 DEF CheckedIsWorkingTime, LoadedIsCurrent, StagedHasBegun, MovedMeanwhile,
                      Active, ClosedOut
  <2> QED  BY <1>0, <2>2, <2>3, HandlerStep
<1>3. ASSUME NEW r \in Requests, CheckOffer(r)
      PROVE  Alone'
  <2> DEFINE q == req[r]
  <2>0. CASE req'[r].op = "refused"
    <3>1. UNCHANGED <<now, rows>>
      BY <1>3 DEF CheckOffer
    <3>2. (CheckedIsWorkingTime(r) /\ LoadedIsCurrent(r) /\ StagedHasBegun(r))'
      BY <2>0 DEF CheckedIsWorkingTime, LoadedIsCurrent, StagedHasBegun
    <3> QED  BY <1>0, <3>1, <3>2, HandlerStep
  <2> SUFFICES ASSUME req'[r].op # "refused"
               PROVE  Alone'
    BY <2>0
  <2>1. /\ req'[r].op = q.op /\ req'[r].barber = q.barber
        /\ req'[r].start = q.start /\ req'[r].dur = q.dur
        /\ req'[r].op = "reschedule" =>
             /\ req'[r].appt = q.appt
             /\ req'[r].seenStart = q.seenStart /\ req'[r].seenEnd = q.seenEnd
        /\ OnOffer(q.barber, q.start, q.dur, q.moment, Own(q))
        /\ UNCHANGED <<now, rows>>
    BY <1>0, <1>3, FirstLook
  <2>2. q.op \in {"create", "reschedule"} /\ LoadedIsCurrent(r)
    BY <1>3 DEF CheckOffer, Alone, InHand
  <2>3. CheckedIsWorkingTime(r)'
    <3>1. q.start \in Nat /\ q.dur \in Nat
      BY <1>0, <1>3, BookingAssumption
      DEF CheckOffer, TypeOK, Req, IdleReq, CreateReq, MoveReq, RefusedReq, StatusReq
    <3>2. q.start + (q.dur - 1) = (q.start + q.dur) - 1
      BY <3>1
    <3>3. IsWorkingTime(q.barber, q.start, q.start + q.dur)
      BY <2>1, <3>2 DEF OnOffer, Bookable, IsWorkingTime
    <3> QED  BY <2>1, <3>3 DEF CheckedIsWorkingTime, IsWorkingTime
  <2>4. LoadedIsCurrent(r)'
    BY <2>1, <2>2 DEF LoadedIsCurrent, MovedMeanwhile
  <2>5. StagedHasBegun(r)'
    BY <2>1, <2>2 DEF StagedHasBegun
  <2> QED  BY <1>0, <2>1, <2>3, <2>4, <2>5, HandlerStep
<1>4. ASSUME NEW r \in Requests, Cancel(r) \/ Confirm(r) \/ CloseOut(r)
      PROVE  Alone'
  <2>1. PICK a \in DOMAIN rows, target \in Status, by \in Actor :
          Stage(r, a, target, by) /\ (target \in ClosedOut => HasBegun(a))
    BY <1>4 DEF Cancel, Confirm, CloseOut, Status, Actor, ClosedOut
  <2>2. /\ req'[r].op = "status" /\ req'[r].appt = a /\ req'[r].target = target
        /\ UNCHANGED <<now, rows>>
    BY <1>0, <2>1 DEF Stage, TypeOK
  <2>3. (CheckedIsWorkingTime(r) /\ LoadedIsCurrent(r) /\ StagedHasBegun(r))'
    BY <2>1, <2>2 DEF CheckedIsWorkingTime, LoadedIsCurrent, StagedHasBegun, HasBegun
  <2> QED  BY <1>0, <2>2, <2>3, HandlerStep
<1>5. ASSUME NEW r \in Requests, req'[r].op = "idle", UNCHANGED <<now, rows>>
      PROVE  Alone'
  <2>1. (CheckedIsWorkingTime(r) /\ LoadedIsCurrent(r) /\ StagedHasBegun(r))'
    BY <1>5 DEF CheckedIsWorkingTime, LoadedIsCurrent, StagedHasBegun
  <2> QED  BY <1>0, <1>5, <2>1, HandlerStep
<1>6. ASSUME NEW r \in Requests, CommitCreate(r)
      PROVE  Alone'
  <2>1. req'[r].op = "idle" /\ UNCHANGED now
    BY <1>0, <1>6 DEF CommitCreate, TypeOK, Idle
  <2>2. PICK a \in Appts \ DOMAIN rows, vetted \in Vetting :
          UNCHANGED rows \/ Writes(a, NewRow(req[r], vetted))
    BY <1>6 DEF CommitCreate, Writes
  <2>3. IsWorkingTime(req[r].barber, req[r].start, req[r].start + req[r].dur)
    BY <1>6 DEF CommitCreate, Alone, InHand, CheckedIsWorkingTime
  <2>4. /\ IsWorkingTime(NewRow(req[r], vetted).barber, NewRow(req[r], vetted).start,
                         NewRow(req[r], vetted).end)
        /\ NewRow(req[r], vetted).status \notin ClosedOut
    BY <2>3 DEF NewRow, ClosedOut
  <2>5. CASE Writes(a, NewRow(req[r], vetted))
    BY <1>0, <2>1, <2>4, <2>5, CommitStep
  <2> QED  BY <1>5, <2>1, <2>2, <2>5
<1>7. ASSUME NEW r \in Requests, CommitMove(r)
      PROVE  Alone'
  <2> DEFINE a == req[r].appt
             v == Moved(rows[a], req[r])
  <2>1. req'[r].op = "idle" /\ UNCHANGED now
    BY <1>0, <1>7 DEF CommitMove, TypeOK, Idle
  <2>2. /\ a \in DOMAIN rows /\ rows[a] \in Row
        /\ v.barber = rows[a].barber /\ v.status = rows[a].status
    BY <1>0, <1>7, MovedRow DEF CommitMove, TypeOK
  <2>3. /\ IsWorkingTime(req[r].barber, req[r].start, req[r].start + req[r].dur)
        /\ LoadedIsCurrent(r) /\ req[r].op = "reschedule"
    BY <1>7 DEF CommitMove, Alone, InHand, CheckedIsWorkingTime
  <2>4. v.start = req[r].start /\ v.end = req[r].start + req[r].dur
    BY <2>2, <2>3 DEF LoadedIsCurrent, MovedMeanwhile, Moved, Row
  <2>5. v.status \notin ClosedOut /\ v.barber = req[r].barber
    BY <2>2, <2>3 DEF LoadedIsCurrent
  <2>6. CASE rows' = [rows EXCEPT ![a] = v]
    <3>1. Writes(a, v)
      BY <1>0, <2>2, <2>6, UpdateWrites
    <3> QED  BY <1>0, <2>1, <2>3, <2>4, <2>5, <3>1, CommitStep
  <2> QED  BY <1>5, <1>7, <2>1, <2>6 DEF CommitMove
<1>8. ASSUME NEW r \in Requests, CommitStatus(r)
      PROVE  Alone'
  <2> DEFINE a == req[r].appt
             v == WithStatus(rows[a], req[r].target, req[r].by)
  <2>1. req'[r].op = "idle" /\ UNCHANGED now
    BY <1>0, <1>8 DEF CommitStatus, TypeOK, Idle
  <2>2. /\ a \in DOMAIN rows /\ rows[a] \in Row
        /\ v.barber = rows[a].barber /\ v.start = rows[a].start /\ v.end = rows[a].end
        /\ v.status = req[r].target
    BY <1>0, <1>8, StatusRow DEF CommitStatus, TypeOK, WithStatus, Row
  <2>3. IsWorkingTime(v.barber, v.start, v.end)
    BY <2>2 DEF Alone, RowsAreWorkingTime
  <2>4. v.status \in ClosedOut => v.start <= now
    BY <1>8, <2>2 DEF CommitStatus, Alone, InHand, StagedHasBegun
  <2>5. CASE rows' = [rows EXCEPT ![a] = v]
    <3>1. Writes(a, v)
      BY <1>0, <2>2, <2>5, UpdateWrites
    <3> QED  BY <1>0, <2>1, <2>3, <2>4, <3>1, CommitStep
  <2> QED  BY <1>5, <1>8, <2>1, <2>5 DEF CommitStatus
<1>9. ASSUME NEW r \in Requests, SecondLook(r) \/ Abandon(r)
      PROVE  Alone'
  BY <1>0, <1>5, <1>9, TheSecondLook DEF Abandon, TypeOK, Idle
<1>10. ASSUME NEW w \in Workers, ExpireCommit(w)
       PROVE  Alone'
  <2>1. UNCHANGED <<now, req>> /\ DOMAIN rows' = DOMAIN rows
    BY <1>10 DEF ExpireCommit
  <2>2. \A a \in DOMAIN rows :
          /\ rows'[a].barber = rows[a].barber
          /\ rows'[a].start = rows[a].start /\ rows'[a].end = rows[a].end
          /\ rows'[a].status \in ClosedOut => rows[a].status \in ClosedOut
    <3>1. \A a \in DOMAIN rows : rows[a] \in Row
      BY <1>0 DEF TypeOK
    <3> QED  BY <1>10, <3>1 DEF ExpireCommit, Row, ClosedOut
  <2>3. RowsAreWorkingTime'
    BY <2>1, <2>2 DEF Alone, RowsAreWorkingTime, IsWorkingTime
  <2>4. ClosedOutOnlyAfterStart'
    BY <2>1, <2>2 DEF Alone, ClosedOutOnlyAfterStart, ClosedOut
  <2>5. \A r \in Requests :
          req[r].op \in {"reschedule", "status"} => req[r].appt \in DOMAIN rows
    BY <1>0 DEF TypeOK
  <2>6. ASSUME NEW r \in Requests
        PROVE  (CheckedIsWorkingTime(r) /\ LoadedIsCurrent(r) /\ StagedHasBegun(r))'
    <3>1. CheckedIsWorkingTime(r) /\ LoadedIsCurrent(r) /\ StagedHasBegun(r)
      BY DEF Alone, InHand
    <3>2. CheckedIsWorkingTime(r)'
      BY <2>1, <3>1 DEF CheckedIsWorkingTime, IsWorkingTime
    <3>3. LoadedIsCurrent(r)'
      BY <2>1, <2>2, <2>5, <3>1 DEF LoadedIsCurrent, MovedMeanwhile
    <3>4. StagedHasBegun(r)'
      BY <2>1, <2>2, <2>5, <3>1 DEF StagedHasBegun
    <3> QED  BY <3>2, <3>3, <3>4
  <2> QED  BY <1>0, <2>3, <2>4, <2>6 DEF Alone, InHand
<1>11. ASSUME UNCHANGED <<rows, req>>, now' >= now
       PROVE  Alone'
  BY <1>0, <1>11, QuietStep
<1>12. now \in Nat
  BY <1>0 DEF TypeOK
<1> QED
  BY <1>1, <1>2, <1>3, <1>4, <1>6, <1>7, <1>8, <1>9, <1>10, <1>11, <1>12
     DEF Next, Request, Job, vars, ExpireScan, ExpireCrash, Tick

LEMMA AloneCorrect ==
  ASSUME OneAtATime
  PROVE  Spec => []Alone
<1>1. Init => Alone
  <2> SUFFICES ASSUME Init
               PROVE  Alone
    OBVIOUS
  <2>1. TypeOK
    BY DEF Init, TypeOK, Idle, Req, IdleReq, Answers
  <2> QED
    BY <2>1 DEF Init, Alone, RowsAreWorkingTime, ClosedOutOnlyAfterStart, InHand,
                CheckedIsWorkingTime, LoadedIsCurrent, StagedHasBegun, Idle
<1>2. Alone /\ [Next]_vars => Alone'
  BY AloneStep
<1> QED  BY <1>1, <1>2, PTL DEF Spec

(* As long as requests do not interleave, an active booking is on the grid *)
(* and inside working time from its first tick to its last, however often  *)
(* it was moved and whatever the expiry job does in between.               *)
THEOREM BookingsAreWorkingTime ==
  ASSUME OneAtATime
  PROVE  Spec => []BookedTimeIsWorkingTime
<1>1. Alone => BookedTimeIsWorkingTime
  BY DEF Alone, RowsAreWorkingTime, IsWorkingTime, BookedTimeIsWorkingTime
<1> QED  BY <1>1, AloneCorrect, PTL

(* As long as requests do not interleave, no appointment is closed out     *)
(* before it begins, by the time its row has now.                          *)
THEOREM NothingIsClosedOutEarly ==
  ASSUME OneAtATime
  PROVE  Spec => []ClosedOutOnlyAfterStart
<1>1. Alone => ClosedOutOnlyAfterStart
  BY DEF Alone
<1> QED  BY <1>1, AloneCorrect, PTL

(* A handler that has a row to change found it open, and it still is.      *)
FoundOpen ==
  \A r \in Requests :
    req[r].op \in {"reschedule", "status"} => rows[req[r].appt].status \in Active

LEMMA OpenStep ==
  ASSUME OneAtATime, Workers = {}, TypeOK, FoundOpen, [Next]_vars
  PROVE  /\ FoundOpen'
         /\ \A a \in DOMAIN rows :
              rows[a].status \in Terminal => rows'[a].status = rows[a].status
<1>1. ASSUME NEW r \in Requests, req'[r].op \notin {"reschedule", "status"}
      PROVE  FoundOpen'
  BY <1>1 DEF OneAtATime, FoundOpen
<1>2. ASSUME UNCHANGED rows
      PROVE  \A a \in DOMAIN rows :
               rows[a].status \in Terminal => rows'[a].status = rows[a].status
  BY <1>2
<1>3. ASSUME NEW r \in Requests, Create(r) \/ SecondLook(r) \/ Abandon(r)
      PROVE  UNCHANGED rows /\ FoundOpen'
  BY <1>1, <1>3, TheSecondLook DEF Create, Abandon, TypeOK, Idle
<1>4. ASSUME NEW r \in Requests, UNCHANGED rows, req'[r].appt \in DOMAIN rows,
             rows[req'[r].appt].status \in Active
      PROVE  FoundOpen'
  BY <1>4 DEF OneAtATime, FoundOpen
<1>5. ASSUME NEW r \in Requests, Reschedule(r)
      PROVE  UNCHANGED rows /\ FoundOpen'
  <2>1. UNCHANGED rows
    BY <1>5 DEF Reschedule
  <2>2. req'[r].appt \in DOMAIN rows /\ rows[req'[r].appt].status \in Active
    BY <1>5 DEF Reschedule, MoveMayTouch, TypeOK
  <2> QED  BY <1>4, <2>1, <2>2
<1>6. ASSUME NEW r \in Requests, Cancel(r) \/ Confirm(r) \/ CloseOut(r)
      PROVE  UNCHANGED rows /\ FoundOpen'
  <2>1. PICK a \in DOMAIN rows :
          rows[a].status \in Active /\ \E target, by : Stage(r, a, target, by)
    BY <1>6 DEF Cancel, Confirm, CloseOut, CancelMayTouch, Active
  <2>2. UNCHANGED rows /\ req'[r].appt = a
    BY <2>1 DEF Stage, TypeOK
  <2> QED  BY <1>4, <2>1, <2>2
<1>7. ASSUME NEW r \in Requests, CheckOffer(r)
      PROVE  UNCHANGED rows /\ FoundOpen'
  <2>1. UNCHANGED rows
    BY <1>7 DEF CheckOffer
  <2>2. CASE req'[r].op \in {"refused", "create"}
    BY <1>1, <2>1, <2>2
  <2>3. CASE req'[r].op \notin {"refused", "create"}
    <3>1. req'[r].op = req[r].op /\ req[r].op \in {"create", "reschedule"}
      BY <1>7, <2>3, FirstLook DEF CheckOffer
    <3>2. req[r].op = "reschedule" /\ req'[r].appt = req[r].appt
      BY <1>7, <2>3, <3>1, FirstLook
    <3>3. req[r].appt \in DOMAIN rows /\ rows[req[r].appt].status \in Active
      BY <3>2 DEF TypeOK, FoundOpen
    <3> QED  BY <1>4, <2>1, <3>2, <3>3
  <2> QED  BY <2>2, <2>3
<1>8. ASSUME NEW r \in Requests, CommitCreate(r)
      PROVE  FoundOpen' /\ \A a \in DOMAIN rows : rows'[a] = rows[a]
  <2>1. req'[r].op = "idle"
    BY <1>8 DEF CommitCreate, TypeOK, Idle
  <2> QED  BY <1>1, <1>8, <2>1 DEF CommitCreate
<1>9. ASSUME NEW r \in Requests, CommitMove(r) \/ CommitStatus(r)
      PROVE  /\ FoundOpen'
             /\ \A a \in DOMAIN rows :
                  rows[a].status \in Terminal => rows'[a].status = rows[a].status
  <2>1. \E answer : req' = [req EXCEPT ![r] = Idle(answer)]
    BY <1>9 DEF CommitMove, CommitStatus
  <2>2. req'[r].op = "idle"
    BY <2>1 DEF TypeOK, Idle
  <2>3. UNCHANGED rows \/ \E v : rows' = [rows EXCEPT ![req[r].appt] = v]
    BY <1>9 DEF CommitMove, CommitStatus
  <2>4. rows[req[r].appt].status \notin Terminal
    BY <1>9 DEF CommitMove, CommitStatus, FoundOpen, Terminal
  <2>5. \A a \in DOMAIN rows : a # req[r].appt => rows'[a] = rows[a]
    BY <2>3 DEF TypeOK
  <2> QED  BY <1>1, <2>2, <2>4, <2>5
<1>10. CASE Tick \/ UNCHANGED vars
  BY <1>10 DEF Tick, vars, FoundOpen
<1> QED
  BY <1>2, <1>3, <1>5, <1>6, <1>7, <1>8, <1>9, <1>10 DEF Next, Request

(* As long as requests do not interleave, with one another or with the     *)
(* expiry job, a booking that is cancelled or closed out stays so: every   *)
(* handler checks the status, and what it checked is what it overwrites.   *)
THEOREM TerminalStaysTerminal ==
  ASSUME OneAtATime, Workers = {}
  PROVE  Spec => TerminalIsFinal
<1>1. Init => TypeOK /\ FoundOpen
  BY DEF Init, TypeOK, FoundOpen, Idle, Req, IdleReq, Answers
<1>2. TypeOK /\ FoundOpen /\ [Next]_vars => (TypeOK /\ FoundOpen)'
  BY TypeStep, OpenStep
<1>3. TypeOK /\ FoundOpen /\ [Next]_vars
        => [\A a \in DOMAIN rows :
              rows[a].status \in Terminal => rows'[a].status = rows[a].status]_vars
  BY OpenStep
<1> QED  BY <1>1, <1>2, <1>3, PTL DEF Spec, TerminalIsFinal
=============================================================================
