---------------------------- MODULE Notifications ----------------------------
(***************************************************************************)
(* What people are told about their appointments: the hand-off of an event *)
(* after the commit of a change (app/services/notifications.py), the       *)
(* Celery tasks that turn an event into one mail to the customer and one   *)
(* to the barber, and the task that delivers a mail                        *)
(* (app/workers/tasks.py).                                                 *)
(*                                                                         *)
(* Of an appointment, only what mails tell is kept.  Handlers commit on    *)
(* what they loaded earlier (Booking.tla), so any change may meet a row in *)
(* any state.  The broker is a bag: tasks are taken in any order, as       *)
(* several workers and the delays of retries make it look.                 *)
(***************************************************************************)
EXTENDS Naturals, FiniteSets, Bags

CONSTANTS
  Appts,       \* appointment ids
  Times,       \* the times an appointment may be at
  Requests,    \* concurrent request handlers of the API
  Off,         \* what a mail says of a cancelled appointment
  Retries,     \* max_retries of send_email
  Accidents,   \* bound on broker failures and deaths of processes
  Changes      \* bound on the changes that are committed

ASSUME NotificationsAssumption ==
  /\ Off \notin Times
  /\ Retries \in Nat /\ Accidents \in Nat /\ Changes \in Nat

VARIABLES
  rows,      \* table appointments: the time, and whether it is still on
  changes,   \* how many changes were committed
  due,       \* the events each handler has committed and not handed off
  broker,    \* the tasks that are queued or being executed
  told,      \* the mails that were delivered
  lost,      \* the appointments some event or mail of which is gone for good
  accidents  \* how many there were

vars == <<rows, changes, due, broker, told, lost, accidents>>

People == {"customer", "barber"}

(* "off" is cancelled by somebody, "released" cancelled by the hourly job. *)
Row == [time : Times, state : {"on", "off", "released"}]

(* An event asks to tell the time of an appointment (created, rescheduled) *)
(* or that it is off (cancelled); a mail says one or the other.            *)
Event == [tells : {"time", "off"}, appt : Appts]
Mail  == [to : People, appt : Appts, says : Times \cup {Off}]
Task  == [task : {"notify"}, event : Event]
    \cup [task : {"send"}, mail : Mail, left : 0 .. Retries]

Tasks == BagToSet(broker)
Replace(t, ts) == (broker (-) SetToBag({t})) (+) SetToBag(ts)
Accident == accidents < Accidents /\ accidents' = accidents + 1

-----------------------------------------------------------------------------
(* The request path *)

(* The commit of handler r leaves row a as v and announces "tells"; a      *)
(* handler that still has an event to hand off does nothing else.          *)
Commit(r, a, v, tells) ==
  /\ due[r] = {}
  /\ changes < Changes /\ changes' = changes + 1
  /\ rows' = [x \in DOMAIN rows \cup {a} |-> IF x = a THEN v ELSE rows[x]]
  /\ due' = [due EXCEPT ![r] = {[tells |-> t, appt |-> a] : t \in tells}]
  /\ UNCHANGED <<broker, told, lost, accidents>>

Book(r) ==
  \E a \in Appts \ DOMAIN rows, t \in Times :
    Commit(r, a, [time |-> t, state |-> "on"], {"time"})

M_MoveTells == {}
MoveTells == {"time"}
Move(r) ==
  \E a \in DOMAIN rows, t \in Times :
    Commit(r, a, [rows[a] EXCEPT !.time = t], MoveTells)

(* A confirmation is announced as a new booking is.                        *)
Confirm(r) ==
  \E a \in DOMAIN rows : Commit(r, a, [rows[a] EXCEPT !.state = "on"], {"time"})

Cancel(r) ==
  \E a \in DOMAIN rows : Commit(r, a, [rows[a] EXCEPT !.state = "off"], {"off"})

(* Closing out an appointment, and the hourly job, are announced to nobody.*)
(* The job leaves cancelled_by as it is.                                   *)
CloseOut(r) ==
  \E a \in DOMAIN rows : Commit(r, a, [rows[a] EXCEPT !.state = "on"], {})

Expire ==
  /\ changes < Changes /\ changes' = changes + 1
  /\ \E a \in DOMAIN rows :
       rows[a].state = "on" /\ rows' = [rows EXCEPT ![a].state = "released"]
  /\ UNCHANGED <<due, broker, told, lost, accidents>>

(* appointment_event: the last thing a handler does.                       *)
HandOff(r) ==
  /\ due[r] # {}
  /\ broker' = broker (+) SetToBag({[task |-> "notify", event |-> e] : e \in due[r]})
  /\ due' = [due EXCEPT ![r] = {}]
  /\ UNCHANGED <<rows, changes, told, lost, accidents>>

(* The broker cannot be reached, which is logged and forgotten, or the     *)
(* process dies after the commit.                                          *)
HandOffLost(r) ==
  /\ due[r] # {}
  /\ Accident
  /\ due' = [due EXCEPT ![r] = {}]
  /\ lost' = lost \cup {e.appt : e \in due[r]}
  /\ UNCHANGED <<rows, changes, broker, told>>

-----------------------------------------------------------------------------
(* The workers *)

(* A notify task reads the row as it is now, and queues one mail to each.  *)
MailsOf(e) ==
  {[task |-> "send", left |-> Retries,
    mail |-> [to |-> p, appt |-> e.appt,
              says |-> IF e.tells = "time" THEN rows[e.appt].time ELSE Off]] : p \in People}

Notify(t) ==
  /\ t.task = "notify"
  /\ broker' = Replace(t, MailsOf(t.event))
  /\ UNCHANGED <<told, lost, accidents>>

(* The broker goes away before the first mail or between the two: the task *)
(* fails and is not retried.                                               *)
NotifyFails(t) ==
  /\ t.task = "notify"
  /\ Accident
  /\ \E queued \in {{}, {m \in MailsOf(t.event) : m.mail.to = "customer"}} :
       broker' = Replace(t, queued)
  /\ lost' = lost \cup {t.event.appt}
  /\ UNCHANGED told

(* The worker dies after it has queued one mail or both: acks_late has the *)
(* task delivered again.                                                   *)
NotifyDies(t) ==
  /\ t.task = "notify"
  /\ Accident
  /\ \E queued \in {MailsOf(t.event), {m \in MailsOf(t.event) : m.mail.to = "customer"}} :
       broker' = Replace(t, {t} \cup queued)
  /\ UNCHANGED <<told, lost>>

(* An attempt to deliver a mail succeeds; the worker may die before it has *)
(* acknowledged the task; ...                                              *)
Deliver(t) ==
  /\ t.task = "send"
  /\ told' = told \cup {t.mail}
  /\ \/ broker' = Replace(t, {}) /\ UNCHANGED accidents
     \/ Accident /\ UNCHANGED broker
  /\ UNCHANGED lost

(* ... or it fails, and is repeated while there are retries left.          *)
M_RetriesForever(t) == {[t EXCEPT !.left = IF t.left > 0 THEN @ - 1 ELSE Retries]}
M_RetriesUnchecked(t) == {[t EXCEPT !.left = @ - 1]}
RetriesLeft(t) == IF t.left > 0 THEN {[t EXCEPT !.left = @ - 1]} ELSE {}
DeliveryFails(t) ==
  /\ t.task = "send"
  /\ broker' = Replace(t, RetriesLeft(t))
  /\ lost' = IF RetriesLeft(t) = {} THEN lost \cup {t.mail.appt} ELSE lost
  /\ UNCHANGED <<told, accidents>>

Work ==
  /\ \E t \in Tasks : Notify(t) \/ NotifyFails(t) \/ NotifyDies(t) \/ Deliver(t) \/ DeliveryFails(t)
  /\ UNCHANGED <<rows, changes, due>>

-----------------------------------------------------------------------------
Init ==
  /\ rows = [a \in {} |-> {}]
  /\ changes = 0
  /\ due = [r \in Requests |-> {}]
  /\ broker = EmptyBag
  /\ told = {} /\ lost = {} /\ accidents = 0

Next ==
  \/ \E r \in Requests :
       \/ Book(r) \/ Move(r) \/ Confirm(r) \/ Cancel(r) \/ CloseOut(r)
       \/ HandOff(r) \/ HandOffLost(r)
  \/ Expire
  \/ Work

(* A handler that has committed ends, and workers keep taking tasks.       *)
(* Nothing is assumed of clients, and nothing of the mail server.          *)
Fairness ==
  /\ \A r \in Requests : WF_vars(HandOff(r) \/ HandOffLost(r))
  /\ WF_vars(Work)

Spec == Init /\ [][Next]_vars /\ Fairness

-----------------------------------------------------------------------------
(* Properties *)

(* Every variable has its type; what is announced is about rows that exist.*)
TypeOK ==
  /\ DOMAIN rows \subseteq Appts /\ rows \in [DOMAIN rows -> Row]
  /\ changes \in 0 .. Changes
  /\ due \in [Requests -> SUBSET Event]
  /\ \A r \in Requests : \A e \in due[r] : e.appt \in DOMAIN rows
  /\ IsABag(broker) /\ Tasks \subseteq Task
  /\ told \subseteq Mail
  /\ lost \subseteq Appts
  /\ accidents \in 0 .. Accidents

(* Something about appointment a is still on its way.                      *)
OnItsWay(a) ==
  \/ \E r \in Requests : \E e \in due[r] : e.appt = a
  \/ \E t \in Tasks : IF t.task = "notify" THEN t.event.appt = a ELSE t.mail.appt = a

(* What p has to be told of appointment a as it stands.                   *)
Knows(p, a) ==
  CASE rows[a].state = "on"       -> [to |-> p, appt |-> a, says |-> rows[a].time] \in told
    [] rows[a].state = "off"      -> [to |-> p, appt |-> a, says |-> Off] \in told
    [] rows[a].state = "released" -> TRUE

(* However requests, moves, cancellations and workers overlap: when        *)
(* nothing about an appointment is on its way any more, and nothing was    *)
(* lost, then customer and barber were both told when it is, or that it    *)
(* was called off.  Only what the hourly job releases is told to nobody.   *)
EverybodyKnows ==
  \A a \in DOMAIN rows :
    ~OnItsWay(a) /\ a \notin lost => \A p \in People : Knows(p, a)

(* Nothing stays on its way: a broker that fails, workers that die and a   *)
(* mail server that refuses everything only delay it, or make it lost.     *)
NothingStaysOnItsWay == \A a \in Appts : OnItsWay(a) ~> ~OnItsWay(a)
=============================================================================
