------------------------ MODULE NotificationsProofs ------------------------
(***************************************************************************)
(* Theorems about Notifications, for any number of appointments, times and *)
(* request handlers and any bounds on retries, accidents and changes.      *)
(***************************************************************************)
EXTENDS Notifications, Integers, TLAPS

(* A row is announced only after it was committed, and no row ever goes:   *)
(* a notify task always finds the row it reads.                            *)
AboutRows == \A t \in Tasks : t.task = "notify" => t.event.appt \in DOMAIN rows

(* What a mail about "what" has to say of appointment a as it stands.      *)
Due(p, a, what) ==
  [to |-> p, appt |-> a, says |-> IF what = "time" THEN rows[a].time ELSE Off]

(* Task t will tell p that: a queued mail if it says what is true now, an  *)
(* event in any case, for the row is read when its turn comes.             *)
Carries(t, p, a, what) ==
  \/ t.task = "notify" /\ t.event = [tells |-> what, appt |-> a]
  \/ t.task = "send" /\ t.mail = Due(p, a, what)

Assured(p, a, what) ==
  \/ Due(p, a, what) \in told
  \/ \E r \in Requests : [tells |-> what, appt |-> a] \in due[r]
  \/ \E t \in Tasks : Carries(t, p, a, what)

(* The time is assured in every state of the row, the cancelled one too:   *)
(* a handler that loaded the row earlier may bring it back unannounced.    *)
Promise ==
  \A a \in DOMAIN rows \ lost : \A p \in People :
    Assured(p, a, "time") /\ (rows[a].state = "off" => Assured(p, a, "off"))

IInv == TypeOK /\ AboutRows /\ Promise

-----------------------------------------------------------------------------
(* Bags *)

LEMMA SetIsABag == ASSUME NEW S PROVE IsABag(SetToBag(S)) /\ BagToSet(SetToBag(S)) = S
BY DEF IsABag, SetToBag, BagToSet

LEMMA AddedToABag ==
  ASSUME NEW A, NEW B, IsABag(A), IsABag(B)
  PROVE  IsABag(A (+) B) /\ BagToSet(A (+) B) = BagToSet(A) \cup BagToSet(B)
<1>1. \A x \in DOMAIN A \cup DOMAIN B : (A (+) B)[x] \in {n \in Nat : n > 0}
  BY DEF IsABag, (+)
<1> QED
  BY <1>1 DEF IsABag, BagToSet, (+)

LEMMA TakenFromABag ==
  ASSUME NEW A, NEW t, IsABag(A)
  PROVE  /\ IsABag(A (-) SetToBag({t}))
         /\ BagToSet(A (-) SetToBag({t})) \subseteq BagToSet(A)
         /\ BagToSet(A) \ {t} \subseteq BagToSet(A (-) SetToBag({t}))
<1> DEFINE B == A (-) SetToBag({t})
           copies == [e \in DOMAIN A |-> IF e \in {t} THEN A[e] - 1 ELSE A[e]]
<1>1. B = [e \in {d \in DOMAIN A : copies[d] > 0} |-> copies[e]]
  BY DEF (-), SetToBag
<1>2. \A e \in DOMAIN A : copies[e] \in Int /\ (e # t => copies[e] > 0)
  BY DEF IsABag
<1> HIDE DEF B, copies
<1>3. DOMAIN copies = DOMAIN A
  BY DEF copies
<1>4. \A e \in DOMAIN B : B[e] \in {n \in Nat : n > 0}
  BY <1>1, <1>2
<1> QED
  BY <1>1, <1>2, <1>4 DEF B, IsABag, BagToSet

(* The broker after task t was taken from it and the tasks ts were queued. *)
LEMMA Replaced ==
  ASSUME NEW t, NEW ts, IsABag(broker)
  PROVE  /\ IsABag(Replace(t, ts))
         /\ BagToSet(Replace(t, ts)) \subseteq Tasks \cup ts
         /\ (Tasks \ {t}) \cup ts \subseteq BagToSet(Replace(t, ts))
<1> DEFINE left == broker (-) SetToBag({t})
<1>1. /\ IsABag(left) /\ BagToSet(left) \subseteq Tasks
      /\ Tasks \ {t} \subseteq BagToSet(left)
  BY TakenFromABag DEF Tasks
<1>2. IsABag(SetToBag(ts)) /\ BagToSet(SetToBag(ts)) = ts
  BY SetIsABag
<1>3. Replace(t, ts) = left (+) SetToBag(ts)
  BY DEF Replace
<1> HIDE DEF left
<1>4. IsABag(Replace(t, ts)) /\ BagToSet(Replace(t, ts)) = BagToSet(left) \cup ts
  BY <1>1, <1>2, <1>3, AddedToABag
<1> QED
  BY <1>1, <1>4

-----------------------------------------------------------------------------
(* Type correctness *)

LEMMA Beginning == Init => IInv
<1> SUFFICES ASSUME Init PROVE IInv
  OBVIOUS
<1>1. DOMAIN rows = {} /\ IsABag(broker) /\ Tasks = {}
  BY SetIsABag DEF Init, EmptyBag, Tasks
<1>2. TypeOK
  <2>1. rows \in [DOMAIN rows -> Row] /\ due \in [Requests -> SUBSET Event]
    BY <1>1 DEF Init
  <2>2. changes \in 0 .. Changes /\ accidents \in 0 .. Accidents
    BY NotificationsAssumption DEF Init
  <2> QED
    BY <1>1, <2>1, <2>2 DEF Init, TypeOK
<1> QED
  BY <1>1, <1>2 DEF IInv, AboutRows, Promise

(* A commit writes a row and announces it, or says nothing.                *)
LEMMA CommitTyped ==
  ASSUME TypeOK, AboutRows, NEW r \in Requests, NEW a \in Appts, NEW v \in Row,
         NEW tells \in SUBSET {"time", "off"}, Commit(r, a, v, tells)
  PROVE  TypeOK' /\ AboutRows'
<1>1. /\ DOMAIN rows' = DOMAIN rows \cup {a}
      /\ rows' \in [DOMAIN rows' -> Row]
  BY DEF Commit, TypeOK
<1>2. changes' \in 0 .. Changes
  BY NotificationsAssumption DEF Commit, TypeOK
<1>3. due' \in [Requests -> SUBSET Event]
  BY DEF Commit, TypeOK, Event
<1>4. \A q \in Requests : \A e \in due'[q] : e.appt \in DOMAIN rows'
  BY <1>1 DEF Commit, TypeOK
<1> QED
  BY <1>1, <1>2, <1>3, <1>4 DEF Commit, TypeOK, AboutRows, Tasks

(* A worker replaces a task by others that are about rows as well.         *)
LEMMA WorkTyped ==
  ASSUME TypeOK, AboutRows, UNCHANGED <<rows, changes, due>>, NEW t \in Tasks, NEW ts,
         broker' \in {broker, Replace(t, ts)}, ts \subseteq Task,
         \A u \in ts : u.task = "notify" => u.event.appt \in DOMAIN rows,
         told' \subseteq Mail, lost' \subseteq Appts, accidents' \in 0 .. Accidents
  PROVE  TypeOK' /\ AboutRows'
<1>1. IsABag(broker') /\ Tasks' \subseteq Tasks \cup ts
  BY Replaced DEF TypeOK, Tasks
<1> QED
  BY <1>1 DEF TypeOK, AboutRows

LEMMA MailsTyped ==
  ASSUME TypeOK, AboutRows, NEW t \in Tasks, t.task = "notify"
  PROVE  /\ t.event \in Event /\ t.event.appt \in DOMAIN rows /\ t.event.appt \in Appts
         /\ MailsOf(t.event) \subseteq Task
         /\ \A m \in MailsOf(t.event) : m.task = "send"
<1>1. t.event \in Event /\ t.event.appt \in DOMAIN rows /\ t.event.appt \in Appts
  BY DEF TypeOK, AboutRows, Task
<1>2. rows[t.event.appt].time \in Times
  BY <1>1 DEF TypeOK, Row
<1>3. ASSUME NEW p \in People
      PROVE  [task |-> "send", left |-> Retries,
              mail |-> [to |-> p, appt |-> t.event.appt,
                        says |-> IF t.event.tells = "time" THEN rows[t.event.appt].time ELSE Off]]
               \in Task
  <2>1. [to |-> p, appt |-> t.event.appt,
         says |-> IF t.event.tells = "time" THEN rows[t.event.appt].time ELSE Off] \in Mail
    BY <1>1, <1>2 DEF Mail
  <2>2. Retries \in 0 .. Retries
    BY NotificationsAssumption
  <2> QED
    BY <2>1, <2>2 DEF Task
<1> QED
  BY <1>1, <1>3 DEF MailsOf

LEMMA RetryTyped ==
  ASSUME TypeOK, NEW t \in Tasks, t.task = "send"
  PROVE  /\ t.mail \in Mail /\ t.mail.appt \in Appts
         /\ RetriesLeft(t) \subseteq Task
         /\ \A u \in RetriesLeft(t) : u.task = "send" /\ u.mail = t.mail
<1>1. t \in [task : {"send"}, mail : Mail, left : 0 .. Retries]
  BY DEF TypeOK, Task
<1>2. t.left > 0 => t.left - 1 \in 0 .. Retries
  BY <1>1, NotificationsAssumption
<1>3. t.left > 0 => [t EXCEPT !.left = @ - 1] \in [task : {"send"}, mail : Mail, left : 0 .. Retries]
  BY <1>1, <1>2
<1> QED
  BY <1>1, <1>3 DEF RetriesLeft, Task, Mail

LEMMA TypedStep == TypeOK /\ AboutRows /\ [Next]_vars => TypeOK' /\ AboutRows'
<1> SUFFICES ASSUME TypeOK, AboutRows, [Next]_vars PROVE TypeOK' /\ AboutRows'
  OBVIOUS
<1>1. \A a \in DOMAIN rows : a \in Appts /\ rows[a] \in Row
  BY DEF TypeOK
<1>2. ASSUME NEW r \in Requests, Book(r) PROVE TypeOK' /\ AboutRows'
  <2>1. PICK a \in Appts, t \in Times : Commit(r, a, [time |-> t, state |-> "on"], {"time"})
    BY <1>2 DEF Book
  <2>2. [time |-> t, state |-> "on"] \in Row
    BY DEF Row
  <2> QED
    BY <2>1, <2>2, CommitTyped
<1>3. ASSUME NEW r \in Requests, Move(r) PROVE TypeOK' /\ AboutRows'
  <2>1. PICK a \in DOMAIN rows, t \in Times : Commit(r, a, [rows[a] EXCEPT !.time = t], {"time"})
    BY <1>3 DEF Move, MoveTells
  <2>2. [rows[a] EXCEPT !.time = t] \in Row
    BY <1>1 DEF Row
  <2> QED
    BY <1>1, <2>1, <2>2, CommitTyped
<1>4. ASSUME NEW r \in Requests, NEW a \in DOMAIN rows, NEW s \in {"on", "off"},
             NEW tells \in SUBSET {"time", "off"}, Commit(r, a, [rows[a] EXCEPT !.state = s], tells)
      PROVE  TypeOK' /\ AboutRows'
  <2>1. [rows[a] EXCEPT !.state = s] \in Row
    BY <1>1 DEF Row
  <2> QED
    BY <1>1, <1>4, <2>1, CommitTyped
<1>5. ASSUME NEW r \in Requests, Confirm(r) \/ Cancel(r) \/ CloseOut(r) PROVE TypeOK' /\ AboutRows'
  <2>1. PICK a \in DOMAIN rows, s \in {"on", "off"}, tells \in SUBSET {"time", "off"} :
          Commit(r, a, [rows[a] EXCEPT !.state = s], tells)
    <3>1. CASE Confirm(r)
      <4>1. PICK a \in DOMAIN rows : Commit(r, a, [rows[a] EXCEPT !.state = "on"], {"time"})
        BY <3>1 DEF Confirm
      <4>2. {"time"} \in SUBSET {"time", "off"}
        OBVIOUS
      <4> QED
        BY <4>1, <4>2
    <3>2. CASE Cancel(r)
      <4>1. PICK a \in DOMAIN rows : Commit(r, a, [rows[a] EXCEPT !.state = "off"], {"off"})
        BY <3>2 DEF Cancel
      <4>2. {"off"} \in SUBSET {"time", "off"}
        OBVIOUS
      <4> QED
        BY <4>1, <4>2
    <3>3. CASE CloseOut(r)
      <4>1. PICK a \in DOMAIN rows : Commit(r, a, [rows[a] EXCEPT !.state = "on"], {})
        BY <3>3 DEF CloseOut
      <4>2. {} \in SUBSET {"time", "off"}
        OBVIOUS
      <4> QED
        BY <4>1, <4>2
    <3> QED
      BY <1>5, <3>1, <3>2, <3>3
  <2> QED
    BY <1>4, <2>1
<1>6. ASSUME NEW r \in Requests, HandOff(r) PROVE TypeOK' /\ AboutRows'
  <2> DEFINE ts == {[task |-> "notify", event |-> e] : e \in due[r]}
  <2>1. IsABag(broker') /\ Tasks' = Tasks \cup ts
    BY <1>6, SetIsABag, AddedToABag DEF HandOff, TypeOK, Tasks
  <2>2. ts \subseteq Task /\ \A t \in ts : t.event.appt \in DOMAIN rows
    BY DEF TypeOK, Task
  <2>3. due' \in [Requests -> SUBSET Event] /\ \A q \in Requests : due'[q] \subseteq due[q]
    BY <1>6 DEF HandOff, TypeOK
  <2> QED
    BY <1>6, <2>1, <2>2, <2>3 DEF HandOff, TypeOK, AboutRows
<1>7. ASSUME NEW r \in Requests, HandOffLost(r) PROVE TypeOK' /\ AboutRows'
  <2>1. due' \in [Requests -> SUBSET Event] /\ \A q \in Requests : due'[q] \subseteq due[q]
    BY <1>7 DEF HandOffLost, TypeOK
  <2>2. lost' \subseteq Appts
    BY <1>1, <1>7 DEF HandOffLost, TypeOK
  <2>3. accidents' \in 0 .. Accidents
    BY <1>7, NotificationsAssumption DEF HandOffLost, Accident, TypeOK
  <2> QED
    BY <1>7, <2>1, <2>2, <2>3 DEF HandOffLost, TypeOK, AboutRows, Tasks
<1>8. CASE Expire
  <2>1. PICK a \in DOMAIN rows : rows' = [rows EXCEPT ![a].state = "released"]
    BY <1>8 DEF Expire
  <2>2. DOMAIN rows' = DOMAIN rows /\ rows' \in [DOMAIN rows -> Row]
    BY <1>1, <2>1 DEF TypeOK, Row
  <2>3. changes' \in 0 .. Changes
    BY <1>8, NotificationsAssumption DEF Expire, TypeOK
  <2> QED
    BY <1>8, <2>2, <2>3 DEF Expire, TypeOK, AboutRows, Tasks
<1>9. CASE Work
  <2>1. PICK t \in Tasks : Notify(t) \/ NotifyFails(t) \/ NotifyDies(t) \/ Deliver(t) \/ DeliveryFails(t)
    BY <1>9 DEF Work
  <2>2. UNCHANGED <<rows, changes, due>>
    BY <1>9 DEF Work
  <2>3. told \subseteq Mail /\ lost \subseteq Appts /\ accidents \in 0 .. Accidents /\ t \in Task
    BY DEF TypeOK
  <2>4. Accident => accidents' \in 0 .. Accidents
    BY NotificationsAssumption DEF Accident, TypeOK
  <2>5. CASE Notify(t)
    BY <2>2, <2>3, <2>5, MailsTyped, WorkTyped DEF Notify
  <2>6. CASE NotifyFails(t)
    <3>1. PICK ts \in SUBSET MailsOf(t.event) : broker' = Replace(t, ts)
      BY <2>6 DEF NotifyFails
    <3>2. lost' \subseteq Appts /\ told' = told /\ accidents' \in 0 .. Accidents
      BY <2>3, <2>4, <2>6, MailsTyped DEF NotifyFails
    <3> QED
      BY <2>2, <2>3, <2>6, <3>1, <3>2, MailsTyped, WorkTyped DEF NotifyFails
  <2>7. CASE NotifyDies(t)
    <3>1. PICK ts \in SUBSET MailsOf(t.event) : broker' = Replace(t, {t} \cup ts)
      BY <2>7 DEF NotifyDies
    <3>2. lost' = lost /\ told' = told /\ accidents' \in 0 .. Accidents /\ t.task = "notify"
      BY <2>4, <2>7 DEF NotifyDies
    <3>3. /\ {t} \cup ts \subseteq Task
          /\ \A u \in {t} \cup ts : u.task = "notify" => u.event.appt \in DOMAIN rows
      BY <2>3, <3>2, MailsTyped
    <3> QED
      BY <2>2, <2>3, <3>1, <3>2, <3>3, WorkTyped
  <2>8. CASE Deliver(t)
    <3>1. broker' \in {broker, Replace(t, {})} /\ accidents' \in 0 .. Accidents
      BY <2>3, <2>4, <2>8 DEF Deliver
    <3>2. told' \subseteq Mail /\ lost' = lost
      BY <2>3, <2>8, RetryTyped DEF Deliver
    <3> QED
      BY <2>2, <2>3, <3>1, <3>2, WorkTyped
  <2>9. CASE DeliveryFails(t)
    <3>1. t.mail.appt \in Appts /\ RetriesLeft(t) \subseteq Task /\ \A u \in RetriesLeft(t) : u.task = "send"
      BY <2>9, RetryTyped DEF DeliveryFails
    <3> QED
      BY <2>2, <2>3, <2>9, <3>1, WorkTyped DEF DeliveryFails
  <2> QED
    BY <2>1, <2>5, <2>6, <2>7, <2>8, <2>9
<1>10. CASE UNCHANGED vars
  BY <1>10 DEF vars, TypeOK, AboutRows, Tasks
<1> QED
  BY <1>2, <1>3, <1>5, <1>6, <1>7, <1>8, <1>9, <1>10 DEF Next

-----------------------------------------------------------------------------
(* What is true is told or will be *)

(* A commit that changes what is true announces it; what was announced or  *)
(* told before stays so.                                                   *)
LEMMA CommitPromises ==
  ASSUME Promise, NEW r \in Requests, NEW a, NEW v, NEW tells, Commit(r, a, v, tells),
         due \in [Requests -> SUBSET Event],
         "time" \in tells \/ (a \in DOMAIN rows /\ v.time = rows[a].time),
         v.state = "off" => "off" \in tells \/ (a \in DOMAIN rows /\ rows[a].state = "off")
  PROVE  Promise'
<1>1. /\ DOMAIN rows' = DOMAIN rows \cup {a} /\ rows'[a] = v
      /\ \A x \in DOMAIN rows \ {a} : rows'[x] = rows[x]
      /\ told' = told /\ lost' = lost /\ Tasks' = Tasks
      /\ due[r] = {} /\ \A q \in Requests \ {r} : due'[q] = due[q]
      /\ due'[r] = {[tells |-> t, appt |-> a] : t \in tells}
  BY DEF Commit, Tasks
<1>2. \A x, what : what \in tells => [tells |-> what, appt |-> a] \in due'[r]
  BY <1>1
<1>3. ASSUME NEW x \in DOMAIN rows, NEW p \in People, NEW what \in {"time", "off"},
             Assured(p, x, what), what = "time" => rows'[x].time = rows[x].time
      PROVE  Assured(p, x, what)'
  <2>1. Due(p, x, what)' = Due(p, x, what)
    BY <1>3 DEF Due
  <2>2. CASE Due(p, x, what) \in told
    BY <1>1, <2>1, <2>2 DEF Assured
  <2>3. CASE \E q \in Requests : [tells |-> what, appt |-> x] \in due[q]
    BY <1>1, <2>3 DEF Assured
  <2>4. CASE \E t \in Tasks : Carries(t, p, x, what)
    <3>1. \E t \in Tasks' : Carries(t, p, x, what)'
      BY <1>1, <2>1, <2>4 DEF Carries
    <3> QED
      BY <3>1 DEF Assured
  <2> QED
    BY <1>3, <2>2, <2>3, <2>4 DEF Assured
<1>4. ASSUME NEW p \in People, NEW what \in tells PROVE Assured(p, a, what)'
  BY <1>2 DEF Assured
<1>5. ASSUME NEW x \in DOMAIN rows' \ lost', NEW p \in People
      PROVE  Assured(p, x, "time")' /\ (rows'[x].state = "off" => Assured(p, x, "off")')
  <2>1. CASE x # a
    <3>1. x \in DOMAIN rows \ lost /\ rows'[x] = rows[x]
      BY <1>1, <1>5, <2>1
    <3> QED
      BY <1>3, <3>1 DEF Promise
  <2>2. CASE x = a
    <3>1. Assured(p, a, "time")'
      BY <1>1, <1>3, <1>4, <1>5, <2>2 DEF Promise
    <3>2. rows'[a].state = "off" => Assured(p, a, "off")'
      BY <1>1, <1>3, <1>4, <1>5, <2>2 DEF Promise
    <3> QED
      BY <2>2, <3>1, <3>2
  <2> QED
    BY <2>1, <2>2
<1> QED
  BY <1>5 DEF Promise

(* Whatever happens to events and tasks, the rows being as they are, the   *)
(* promise stands if what is taken from its place turns up in the next.    *)
LEMMA WorkPromises ==
  ASSUME Promise, rows' = rows, told \subseteq told', lost \subseteq lost',
         \A a \in DOMAIN rows \ lost', p \in People, what \in {"time", "off"} :
           /\ \A r \in Requests : [tells |-> what, appt |-> a] \in due[r] => Assured(p, a, what)'
           /\ \A t \in Tasks : Carries(t, p, a, what) => Assured(p, a, what)'
  PROVE  Promise'
<1>1. ASSUME NEW a \in DOMAIN rows \ lost', NEW p \in People, NEW what \in {"time", "off"},
             Assured(p, a, what)
      PROVE  Assured(p, a, what)'
  <2>1. Due(p, a, what)' = Due(p, a, what)
    BY DEF Due
  <2>2. CASE Due(p, a, what) \in told
    BY <2>1, <2>2 DEF Assured
  <2> QED
    BY <1>1, <2>2 DEF Assured
<1>2. \A a \in DOMAIN rows \ lost' : a \notin lost
  OBVIOUS
<1> QED
  BY <1>1, <1>2 DEF Promise

(* The mails made of an event say what is true.                            *)
LEMMA MailsCarry ==
  ASSUME NEW p \in People, NEW a, NEW what
  PROVE  \E m \in MailsOf([tells |-> what, appt |-> a]) : Carries(m, p, a, what)
<1> DEFINE m == [task |-> "send", left |-> Retries,
                 mail |-> [to |-> p, appt |-> a, says |-> IF what = "time" THEN rows[a].time ELSE Off]]
<1>1. m \in MailsOf([tells |-> what, appt |-> a])
  BY DEF MailsOf
<1>2. Carries(m, p, a, what)
  BY DEF Carries, Due
<1> QED
  BY <1>1, <1>2

LEMMA WorkerPromises ==
  ASSUME Promise, TypeOK, AboutRows, Work PROVE Promise'
<1>1. PICK t \in Tasks : Notify(t) \/ NotifyFails(t) \/ NotifyDies(t) \/ Deliver(t) \/ DeliveryFails(t)
  BY DEF Work
<1>2. rows' = rows /\ due' = due
  BY DEF Work
<1>3. \A ts : broker' = Replace(t, ts) => ts \subseteq Tasks' /\ Tasks \ {t} \subseteq Tasks'
  BY Replaced DEF TypeOK, Tasks
<1>4. told \subseteq told' /\ lost \subseteq lost' /\ Tasks \ {t} \subseteq Tasks'
  BY <1>1, <1>3 DEF Notify, NotifyFails, NotifyDies, Deliver, DeliveryFails, Tasks
<1>5. \A a, p, what : Due(p, a, what)' = Due(p, a, what)
  BY <1>2 DEF Due
<1>6. \A u, a, p, what : Carries(u, p, a, what)' <=> Carries(u, p, a, what)
  BY <1>5 DEF Carries
<1>7. ASSUME NEW a \in DOMAIN rows \ lost', NEW p \in People, NEW what \in {"time", "off"}
      PROVE  /\ \A r \in Requests : [tells |-> what, appt |-> a] \in due[r] => Assured(p, a, what)'
             /\ \A u \in Tasks : Carries(u, p, a, what) => Assured(p, a, what)'
  <2>1. \A u \in Tasks' : Carries(u, p, a, what) => Assured(p, a, what)'
    BY <1>6 DEF Assured
  <2>2. Carries(t, p, a, what) => Assured(p, a, what)'
    <3> SUFFICES ASSUME Carries(t, p, a, what) PROVE Assured(p, a, what)'
      OBVIOUS
    <3>1. CASE Notify(t)
      <4>1. MailsOf(t.event) \subseteq Tasks' /\ t.event = [tells |-> what, appt |-> a]
        BY <1>3, <3>1 DEF Notify, Carries
      <4> QED
        BY <2>1, <4>1, MailsCarry
    <3>2. CASE NotifyFails(t)
      <4>1. t.event.appt = a
        BY <3>2 DEF NotifyFails, Carries
      <4> QED
        BY <1>7, <3>2, <4>1 DEF NotifyFails
    <3>3. CASE NotifyDies(t)
      <4>1. t \in Tasks'
        BY <1>3, <3>3 DEF NotifyDies
      <4> QED
        BY <2>1, <4>1
    <3>4. CASE Deliver(t)
      <4>1. t.mail = Due(p, a, what) /\ t.mail \in told'
        BY <3>4 DEF Deliver, Carries
      <4> QED
        BY <1>5, <4>1 DEF Assured
    <3>5. CASE DeliveryFails(t)
      <4>1. t.mail = Due(p, a, what) /\ t.mail.appt = a
        BY <3>5 DEF DeliveryFails, Carries, Due
      <4>2. PICK u \in RetriesLeft(t) : TRUE
        BY <1>7, <3>5, <4>1 DEF DeliveryFails
      <4>3. u \in Tasks' /\ u.task = "send" /\ u.mail = t.mail
        BY <1>3, <3>5, <4>2, RetryTyped DEF DeliveryFails
      <4> QED
        BY <2>1, <4>1, <4>3 DEF Carries
    <3> QED
      BY <1>1, <3>1, <3>2, <3>3, <3>4, <3>5
  <2>3. \A r \in Requests : [tells |-> what, appt |-> a] \in due[r] => Assured(p, a, what)'
    BY <1>2 DEF Assured
  <2> QED
    BY <1>4, <2>1, <2>2, <2>3
<1> QED
  BY <1>2, <1>4, <1>7, WorkPromises

LEMMA PromiseStep ==
  ASSUME TypeOK, AboutRows, Promise, [Next]_vars PROVE Promise'
<1>1. \A a \in DOMAIN rows : rows[a] \in Row
  BY DEF TypeOK
<1>2. due \in [Requests -> SUBSET Event]
  BY DEF TypeOK
<1>3. ASSUME NEW r \in Requests, Book(r) PROVE Promise'
  <2>1. PICK a, t : Commit(r, a, [time |-> t, state |-> "on"], {"time"})
    BY <1>3 DEF Book
  <2> QED
    BY <1>2, <2>1, CommitPromises
<1>4. ASSUME NEW r \in Requests, NEW a \in DOMAIN rows, NEW v, NEW tells, Commit(r, a, v, tells),
             "time" \in tells \/ v.time = rows[a].time,
             v.state = "off" => "off" \in tells \/ rows[a].state = "off"
      PROVE  Promise'
  BY <1>2, <1>4, CommitPromises
<1>5. ASSUME NEW r \in Requests, Move(r) PROVE Promise'
  <2>1. PICK a \in DOMAIN rows, t \in Times : Commit(r, a, [rows[a] EXCEPT !.time = t], {"time"})
    BY <1>5 DEF Move, MoveTells
  <2>2. [rows[a] EXCEPT !.time = t].state = rows[a].state
    BY <1>1 DEF Row
  <2> QED
    BY <1>4, <2>1, <2>2
<1>6. \A a \in DOMAIN rows : \A s : /\ [rows[a] EXCEPT !.state = s].time = rows[a].time
                                   /\ [rows[a] EXCEPT !.state = s].state = s
  BY <1>1 DEF Row
<1>7. ASSUME NEW r \in Requests, Confirm(r) PROVE Promise'
  <2>1. PICK a \in DOMAIN rows : Commit(r, a, [rows[a] EXCEPT !.state = "on"], {"time"})
    BY <1>7 DEF Confirm
  <2>2. [rows[a] EXCEPT !.state = "on"].state # "off"
    BY <1>6
  <2> QED
    BY <1>4, <2>1, <2>2
<1>8. ASSUME NEW r \in Requests, Cancel(r) PROVE Promise'
  <2>1. PICK a \in DOMAIN rows : Commit(r, a, [rows[a] EXCEPT !.state = "off"], {"off"})
    BY <1>8 DEF Cancel
  <2> QED
    BY <1>4, <1>6, <2>1
<1>9. ASSUME NEW r \in Requests, CloseOut(r) PROVE Promise'
  <2>1. PICK a \in DOMAIN rows : Commit(r, a, [rows[a] EXCEPT !.state = "on"], {})
    BY <1>9 DEF CloseOut
  <2>2. [rows[a] EXCEPT !.state = "on"].state # "off"
    BY <1>6
  <2> QED
    BY <1>4, <1>6, <2>1, <2>2
<1>10. ASSUME NEW r \in Requests, HandOff(r) PROVE Promise'
  <2> DEFINE ts == {[task |-> "notify", event |-> e] : e \in due[r]}
  <2>1. Tasks' = Tasks \cup ts
    BY <1>10, SetIsABag, AddedToABag DEF HandOff, TypeOK, Tasks
  <2>2. \A q \in Requests \ {r} : due'[q] = due[q]
    BY <1>10 DEF HandOff
  <2>3. rows' = rows /\ told' = told /\ lost' = lost
    BY <1>10 DEF HandOff
  <2>4. \A u, a, p, what : Carries(u, p, a, what)' <=> Carries(u, p, a, what)
    BY <2>3 DEF Carries, Due
  <2>5. ASSUME NEW a, NEW p, NEW what, [tells |-> what, appt |-> a] \in due[r]
        PROVE  Assured(p, a, what)'
    <3> DEFINE u == [task |-> "notify", event |-> [tells |-> what, appt |-> a]]
    <3>1. u \in Tasks' /\ Carries(u, p, a, what)
      BY <2>1, <2>5 DEF Carries
    <3> QED
      BY <2>4, <3>1 DEF Assured
  <2>6. \A a, p, what, q : q \in Requests \ {r} /\ [tells |-> what, appt |-> a] \in due[q]
                           => Assured(p, a, what)'
    BY <2>2 DEF Assured
  <2>7. \A a, p, what : \A u \in Tasks : Carries(u, p, a, what) => Assured(p, a, what)'
    BY <2>1, <2>4 DEF Assured
  <2> QED
    BY <2>3, <2>5, <2>6, <2>7, WorkPromises
<1>11. ASSUME NEW r \in Requests, HandOffLost(r) PROVE Promise'
  <2>1. /\ rows' = rows /\ told' = told /\ Tasks' = Tasks
        /\ lost' = lost \cup {e.appt : e \in due[r]}
        /\ \A q \in Requests \ {r} : due'[q] = due[q]
    BY <1>11 DEF HandOffLost, Tasks
  <2>2. \A u, a, p, what : Carries(u, p, a, what)' <=> Carries(u, p, a, what)
    BY <2>1 DEF Carries, Due
  <2>3. ASSUME NEW a \in DOMAIN rows \ lost', NEW what, NEW q \in Requests,
               [tells |-> what, appt |-> a] \in due[q]
        PROVE  [tells |-> what, appt |-> a] \in due'[q]
    BY <2>1, <2>3
  <2> QED
    BY <2>1, <2>2, <2>3, WorkPromises DEF Assured
<1>12. CASE Expire
  <2>1. PICK a \in DOMAIN rows : rows' = [rows EXCEPT ![a].state = "released"]
    BY <1>12 DEF Expire
  <2>2. DOMAIN rows' = DOMAIN rows /\ told' = told /\ lost' = lost /\ due' = due /\ Tasks' = Tasks
    BY <1>12, <2>1 DEF Expire, Tasks
  <2>3. \A x \in DOMAIN rows : rows'[x].time = rows[x].time /\ (rows'[x].state = "off" => rows[x].state = "off")
    BY <1>1, <2>1 DEF Row
  <2>4. \A x \in DOMAIN rows : \A p, what : Due(p, x, what)' = Due(p, x, what)
    BY <2>3 DEF Due
  <2>5. \A x \in DOMAIN rows : \A p, what : Assured(p, x, what) => Assured(p, x, what)'
    BY <2>2, <2>4 DEF Assured, Carries
  <2> QED
    BY <2>2, <2>3, <2>5 DEF Promise
<1>13. CASE UNCHANGED vars
  BY <1>13 DEF vars, Promise, Assured, Carries, Due, Tasks
<1> QED
  BY <1>3, <1>5, <1>7, <1>8, <1>9, <1>10, <1>11, <1>12, <1>13, WorkerPromises DEF Next

LEMMA Inductive == Spec => []IInv
<1>1. Init => IInv
  BY Beginning
<1>2. IInv /\ [Next]_vars => IInv'
  BY TypedStep, PromiseStep DEF IInv
<1> QED
  BY <1>1, <1>2, PTL DEF Spec

(* Every variable has its type; what is announced is about rows that exist,*)
(* however commits, hand-offs and workers interleave.                      *)
THEOREM TypesHold == Spec => []TypeOK
<1>1. IInv => TypeOK
  BY DEF IInv
<1> QED
  BY <1>1, Inductive, PTL

(* When nothing about an appointment is on its way any more and nothing    *)
(* was lost, customer and barber were both told when it is, or that it was *)
(* called off, for any number of changes, handlers, deaths and retries.    *)
THEOREM NobodyIsLeftInTheDark == Spec => []EverybodyKnows
<1>1. ASSUME IInv, NEW a \in DOMAIN rows, ~ OnItsWay(a), a \notin lost, NEW p \in People
      PROVE  Knows(p, a)
  <2>1. \A t \in Tasks : \A what : ~ Carries(t, p, a, what)
    BY <1>1 DEF OnItsWay, Carries, Due, IInv, TypeOK, Task
  <2>2. \A what : Assured(p, a, what) => Due(p, a, what) \in told
    BY <1>1, <2>1 DEF OnItsWay, Assured
  <2>3. /\ Assured(p, a, "time") /\ (rows[a].state = "off" => Assured(p, a, "off"))
        /\ rows[a] \in Row
    BY <1>1 DEF IInv, Promise, TypeOK
  <2> QED
    BY <2>2, <2>3 DEF Knows, Due, Row
<1>2. IInv => EverybodyKnows
  BY <1>1 DEF EverybodyKnows
<1> QED
  BY <1>2, Inductive, PTL
=============================================================================
