------------------------------ MODULE Dashboard ------------------------------
(***************************************************************************)
(* The dashboard of a shop or of a barber (app/services/analytics.py):     *)
(* five statements in a READ COMMITTED transaction, so that the numbers of *)
(* one answer are of different moments.  Time is counted in ticks of the   *)
(* shop's own clock.                                                       *)
(***************************************************************************)
EXTENDS Integers, Sequences, FiniteSets, FiniteSetsExt

CONSTANTS
  Appts,        \* appointment ids: the bound on rows ever inserted
  Barbers,      \* the barbers of the shop
  Services,     \* the services of the shop, all of different names
  Prices,       \* what a service may cost when it is booked
  Starts,       \* start times
  Periods,      \* periods a client asks for, [from, to]
  DayLength,    \* ticks of a local day
  MonthLength,  \* ticks of a local month
  Today,        \* the moment of the request
  Everybody,    \* the scope of a shop's dashboard, otherwise it is a barber
  Nothing,      \* a bound left out, or no popular service or top barber
  MaxChanges    \* bound on the changes committed under the reader

ASSUME DashboardAssumption ==
  /\ IsFiniteSet(Barbers) /\ IsFiniteSet(Services)
  /\ Prices \subseteq Nat /\ Starts \subseteq Nat /\ Today \in Nat
  /\ Periods \subseteq [from : Nat \cup {Nothing}, to : Nat \cup {Nothing}]
  /\ DayLength \in Nat \ {0} /\ MonthLength \in Nat \ {0} /\ MaxChanges \in Nat
  /\ Everybody \notin Barbers /\ Nothing \notin Barbers \cup Services \cup Nat

VARIABLES
  booked,   \* table appointments, a function on the ids inserted so far
  read,     \* the request that puts a dashboard together
  changed   \* how many changes were committed under it

dashVars == <<booked, read, changed>>

Active   == {"PENDING", "CONFIRMED"}
Terminal == {"COMPLETED", "CANCELLED", "NO_SHOW"}
Status   == Active \cup Terminal

NoRead == [next |-> 0]

-----------------------------------------------------------------------------
(* The period *)

(* _resolve_period: a bound left out is that of the current local month.   *)
MonthStart(now) == now - (now % MonthLength)
Resolve(asked, now) ==
  [from |-> IF asked.from # Nothing THEN asked.from ELSE MonthStart(now),
   to   |-> IF asked.to # Nothing THEN asked.to ELSE MonthStart(now) + MonthLength]

Within(a, from, to) == booked[a].start >= from /\ booked[a].start < to

(* The rows a statement is about: of the scope and of the period.          *)
Scoped(scope, from, to) ==
  {a \in DOMAIN booked : /\ scope \in {Everybody, booked[a].barber}
                         /\ Within(a, from, to)}
OfStatus(as, statuses) == {a \in as : booked[a].status \in statuses}

-----------------------------------------------------------------------------
(* The five statements, in the order they are executed in *)

Takings(as) == MapThenSumSet(LAMBDA a : booked[a].price, as)

InPeriod == Scoped(read.scope, read.period.from, read.period.to)

M_Statements == <<"revenue", "counts", "today", "popular", "top">>
Statements == <<"counts", "revenue", "today", "popular", "top">>

(* A barber's dashboard has no top barber.                                 *)
Shown == /\ read # NoRead
         /\ \/ read.next > Len(Statements)
            \/ read.scope # Everybody /\ Statements[read.next] = "top"

Turn(statement) == read # NoRead /\ ~Shown /\ Statements[read.next] = statement

Answer(field, answer) ==
  /\ read' = [f \in DOMAIN read \cup {field} |->
                IF f = "next" THEN read.next + 1
                ELSE IF f = field THEN answer ELSE read[f]]
  /\ UNCHANGED <<booked, changed>>

Open ==
  /\ read = NoRead
  /\ \E asked \in Periods, scope \in Barbers \cup {Everybody} :
       read' = [next |-> 1, scope |-> scope, period |-> Resolve(asked, Today),
                meanwhile |-> "nothing"]
  /\ UNCHANGED <<booked, changed>>

(* _status_counts                                                          *)
CountStatuses ==
  /\ Turn("counts")
  /\ Answer("counts", [s \in Status |-> Cardinality(OfStatus(InPeriod, {s}))])

(* _revenue: the sum, and the number of rows the average is taken over.    *)
Earning(as) == OfStatus(as, {"COMPLETED"})
SumRevenue ==
  /\ Turn("revenue")
  /\ Answer("revenue", [sum  |-> Takings(Earning(InPeriod)),
                        over |-> Cardinality(Earning(InPeriod))])

(* _today_count: the local day of the request.                             *)
CountToday ==
  /\ Turn("today")
  /\ LET midnight == Today - (Today % DayLength)
     IN Answer("today", Cardinality(Scoped(read.scope, midnight, midnight + DayLength)))

(* _popular_service: a cancelled booking does not count; of services that  *)
(* tie, the first by name; here any of them.                               *)
M_PopularAmong(as) == as
PopularAmong(as) == OfStatus(as, Status \ {"CANCELLED"})
Bookings(as, v) == Cardinality({a \in as : booked[a].service = v})
FindPopular ==
  /\ Turn("popular")
  /\ LET as == PopularAmong(InPeriod)
         most == {v \in Services : \A w \in Services : Bookings(as, w) <= Bookings(as, v)}
     IN \/ as = {} /\ Answer("popular", [service |-> Nothing, count |-> 0])
        \/ /\ as # {}
           /\ \E v \in most : Answer("popular", [service |-> v, count |-> Bookings(as, v)])

(* _top_barber, of a shop only: who earned most; of those who tie the     *)
(* first by id, here any of them.                                          *)
By(as, b) == {a \in as : booked[a].barber = b}
FindTop ==
  /\ Turn("top")
  /\ LET as == Earning(InPeriod)
         best == {b \in Barbers : By(as, b) # {}
                    /\ \A c \in Barbers : Takings(By(as, c)) <= Takings(By(as, b))}
     IN \/ as = {} /\ Answer("top", [barber |-> Nothing, completed |-> 0, sum |-> 0])
        \/ \E b \in best : Answer("top", [barber |-> b, sum |-> Takings(By(as, b)),
                                           completed |-> Cardinality(By(as, b))])

-----------------------------------------------------------------------------
(* The bookings *)

UnderRead(what) ==
  IF read = NoRead \/ Shown THEN UNCHANGED <<read, changed>>
  ELSE /\ changed < MaxChanges /\ changed' = changed + 1
       /\ read' = [read EXCEPT !.meanwhile =
                     IF @ = "undone" \/ what = "undone" THEN "undone" ELSE "usual"]

(* A booking is made; its price is that of the service at that moment.     *)
Book ==
  /\ \E a \in Appts \ DOMAIN booked, b \in Barbers, v \in Services,
        t \in Starts, p \in Prices, s \in Active :
       booked' = [x \in DOMAIN booked \cup {a} |->
                    IF x = a THEN [barber |-> b, service |-> v, start |-> t,
                                   price |-> p, status |-> s]
                    ELSE booked[x]]
  /\ UnderRead("usual")

(* An active booking is confirmed, closed out or cancelled, or moved.      *)
Decide ==
  /\ \E a \in DOMAIN booked, s \in Status \ {"PENDING"} :
       /\ booked[a].status \in Active /\ s # booked[a].status
       /\ booked' = [booked EXCEPT ![a].status = s]
  /\ UnderRead("usual")

Reschedule ==
  /\ \E a \in DOMAIN booked, t \in Starts :
       /\ booked[a].status \in Active /\ t # booked[a].start
       /\ booked' = [booked EXCEPT ![a].start = t]
  /\ UnderRead("usual")

(* What two handlers that loaded one active row bring about (Booking.tla): *)
(* a terminal status is overwritten, or the closed-out booking moved.      *)
Overwrite ==
  /\ \E a \in DOMAIN booked, s \in Status \ {"PENDING"}, t \in Starts :
       /\ booked[a].status \in Terminal
       /\ (s = booked[a].status) # (t = booked[a].start)
       /\ booked' = [booked EXCEPT ![a].status = s, ![a].start = t]
  /\ UnderRead("undone")

DashInit == booked = <<>> /\ read = NoRead /\ changed = 0

DashNext ==
  \/ Open \/ CountStatuses \/ SumRevenue \/ CountToday \/ FindPopular \/ FindTop
  \/ Book \/ Decide \/ Reschedule \/ Overwrite

DashSpec == DashInit /\ [][DashNext]_dashVars

-----------------------------------------------------------------------------
(* Read while nothing changes, the five statements, each with its own      *)
(* conditions, agree: the revenue is that of the completed bookings, the   *)
(* top barber has his part of it, the popular service its share of the     *)
(* bookings not cancelled, and a day within the period no more bookings    *)
(* than the period.                                                        *)
ReportAddsUp ==
  Shown /\ read.meanwhile = "nothing" =>
    LET total     == MapThenSumSet(LAMBDA s : read.counts[s], Status)
        standing  == total - read.counts["CANCELLED"]
        midnight  == Today - (Today % DayLength)
    IN /\ read.revenue.over = read.counts["COMPLETED"]
       /\ read.popular.count <= standing
       /\ standing <= Cardinality(Services) * read.popular.count
       /\ read.scope = Everybody =>
            /\ read.top.completed <= read.counts["COMPLETED"]
            /\ read.top.sum <= read.revenue.sum
            /\ read.revenue.sum <= Cardinality(Barbers) * read.top.sum
       /\ read.period.from <= midnight /\ midnight + DayLength <= read.period.to =>
            read.today <= total

(* However many bookings are made, moved, closed out and cancelled between *)
(* the two statements, the revenue is never that of fewer bookings than    *)
(* the answer says are completed: the counts are read first, and what is   *)
(* completed stays so, unless a race overwrites it.                        *)
RevenueCoversTheCompleted ==
  Shown /\ read.meanwhile # "undone" => read.revenue.over >= read.counts["COMPLETED"]
=============================================================================
