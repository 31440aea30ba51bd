------------------------------ MODULE Reminders ------------------------------
(***************************************************************************)
(* Reminders (send_appointment_reminders of app/workers/tasks.py): every   *)
(* Interval the beat queues a sweep; a sweep selects, for each kind, the   *)
(* appointments that start within a window one horizon ahead, claims each  *)
(* by inserting a row of appointment_reminders, and queues the mail.  The  *)
(* claims are committed at the end of the sweep, the mails are with the    *)
(* broker at once.                                                         *)
(***************************************************************************)
EXTENDS Naturals, Sequences, SequencesExt, FiniteSets, Waits

CONSTANTS
  Appts,
  Starts,      \* start times of appointments
  Lead,        \* MIN_BOOKING_LEAD_MINUTES
  Kinds,       \* the reminders in the order a sweep works on them
  Horizon,     \* REMINDER_HORIZONS
  Window,      \* REMINDER_WINDOW
  Interval,    \* between two beats
  MaxDelay,    \* how long a queued sweep waits for a worker
  Workers,     \* concurrent executions of the sweep
  MaxCrashes,  \* bound on executions that die
  MaxTime      \* bound on the clock

KindSet == {Kinds[i] : i \in DOMAIN Kinds}

ASSUME RemindersAssumption ==
  /\ Starts \subseteq Nat /\ Lead \in Nat /\ MaxDelay \in Nat
  /\ MaxCrashes \in Nat /\ MaxTime \in Nat
  /\ Window \in Nat \ {0} /\ Interval \in Nat \ {0}
  /\ Kinds \in Seq(KindSet) /\ Horizon \in [KindSet -> Nat]

VARIABLES
  now,
  book,     \* the active appointments: start, and since when it is that
  queue,    \* the beats that wait for a worker
  sweep,    \* what each execution has in hand
  claims,   \* table appointment_reminders, committed
  mails,    \* how many mails were queued for each claim
  crashes, deadlocks  \* executions that died so far

vars == <<now, book, queue, sweep, claims, mails, crashes, deadlocks>>

Keys == Appts \X KindSet
M_KeyKindFirst(a, kind) == <<kind, a>>
Key(a, kind) == <<a, kind>>

(* The kinds a sweep has still to select, the keys it has still to claim,  *)
(* those it has claimed, and the time it goes by.                          *)
Hand(kinds, due, claimed, moment) ==
  [kinds |-> kinds, due |-> due, claimed |-> claimed, moment |-> moment]
Idle == Hand(<<>>, <<>>, {}, 0)

-----------------------------------------------------------------------------
(* Appointments come, move and go (Booking.tla)                            *)

Book(a) ==
  /\ a \notin DOMAIN book
  /\ \A k \in KindSet : <<a, k>> \notin claims /\ mails[<<a, k>>] = 0
  /\ \E s \in Starts :
       /\ s >= now + Lead
       /\ book' = [x \in DOMAIN book \cup {a} |->
                     IF x = a THEN [start |-> s, since |-> now] ELSE book[x]]
  /\ UNCHANGED <<now, queue, sweep, claims, mails, crashes, deadlocks>>

Move(a) ==
  /\ a \in DOMAIN book
  /\ \E s \in Starts \ {book[a].start} :
       s >= now + Lead /\ book' = [book EXCEPT ![a] = [start |-> s, since |-> now]]
  /\ UNCHANGED <<now, queue, sweep, claims, mails, crashes, deadlocks>>

Leave(a) ==
  /\ a \in DOMAIN book
  /\ book' = [x \in DOMAIN book \ {a} |-> book[x]]
  /\ UNCHANGED <<now, queue, sweep, claims, mails, crashes, deadlocks>>

-----------------------------------------------------------------------------
(* The sweep *)

StartSweep(w) ==
  /\ sweep[w] = Idle
  /\ \E t \in queue : queue' = queue \ {t}
  /\ sweep' = [sweep EXCEPT ![w] = Hand(Kinds, <<>>, {}, now)]
  /\ UNCHANGED <<now, book, claims, mails, crashes, deadlocks>>

(* The appointments that are due for a kind.                               *)
M_DueWithinTheInterval(kind, moment) ==
  {a \in DOMAIN book : /\ book[a].start >= moment + Horizon[kind]
                       /\ book[a].start < moment + Horizon[kind] + Interval}
Due(kind, moment) ==
  {a \in DOMAIN book : /\ book[a].start >= moment + Horizon[kind]
                       /\ book[a].start < moment + Horizon[kind] + Window}

(* SELECT for the first kind that is left, in whatever order it returns.   *)
(* The list is worked off with that kind at the head of "kinds"; a SELECT  *)
(* that finds nothing leads to the next kind.                              *)
Working(w) == sweep[w].due # <<>>

Select(w) ==
  /\ sweep[w].kinds # <<>> /\ ~ Working(w)
  /\ LET kind == Head(sweep[w].kinds)
         due  == Due(kind, sweep[w].moment)
     IN \E order \in SetToSeqs(due) :
          sweep' = [sweep EXCEPT ![w] =
            Hand(Tail(@.kinds), [i \in DOMAIN order |-> Key(order[i], kind)], @.claimed, @.moment)]
  /\ UNCHANGED <<now, book, queue, claims, mails, crashes, deadlocks>>

(* An insert of a key another transaction has inserted waits for its end.  *)
Blockers(w) ==
  IF Working(w)
  THEN {v \in Workers \ {w} : Head(sweep[w].due) \in sweep[v].claimed}
  ELSE {}

M_Claimable(w) == TRUE
Claimable(w) == Head(sweep[w].due) \notin claims \cup sweep[w].claimed

(* _claim_reminder in a savepoint; a claim that exists is left alone, one  *)
(* that succeeds is followed by send_email.delay.                          *)
ClaimAndSend(w) ==
  /\ Working(w)
  /\ Blockers(w) = {}
  /\ LET key == Head(sweep[w].due)
     IN IF Claimable(w)
        THEN /\ sweep' = [sweep EXCEPT ![w] =
                            Hand(@.kinds, Tail(@.due), @.claimed \cup {key}, @.moment)]
             /\ mails' = [mails EXCEPT ![key] = @ + 1]
        ELSE /\ sweep' = [sweep EXCEPT ![w] = Hand(@.kinds, Tail(@.due), @.claimed, @.moment)]
             /\ UNCHANGED mails
  /\ UNCHANGED <<now, book, queue, claims, crashes, deadlocks>>

CommitSweep(w) ==
  /\ sweep[w] # Idle /\ sweep[w].kinds = <<>> /\ ~ Working(w)
  /\ claims' = claims \cup sweep[w].claimed
  /\ sweep' = [sweep EXCEPT ![w] = Idle]
  /\ UNCHANGED <<now, book, queue, mails, crashes, deadlocks>>

(* The worker is killed: the claims are rolled back, the mails are gone,   *)
(* and the task, not acknowledged yet, is delivered again.                 *)
CrashSweep(w) ==
  /\ sweep[w] # Idle /\ crashes < MaxCrashes
  /\ sweep' = [sweep EXCEPT ![w] = Idle]
  /\ queue' = queue \cup {now}
  /\ crashes' = crashes + 1
  /\ UNCHANGED <<now, book, claims, mails, deadlocks>>

(* Two sweeps that claim in different orders wait for one another; the     *)
(* task that is ended for it has failed and is not delivered again.        *)
DeadlockVictim(w) ==
  /\ OnCycle(w, [v \in Workers |-> Blockers(v)])
  /\ sweep' = [sweep EXCEPT ![w] = Idle]
  /\ deadlocks' = deadlocks + 1
  /\ UNCHANGED <<now, book, queue, claims, mails, crashes>>

(* Time passes, the beat fires; a queued sweep is taken within MaxDelay.   *)
Tick ==
  /\ now < MaxTime
  /\ \A t \in queue : now < t + MaxDelay
  /\ now' = now + 1
  /\ queue' = IF now' % Interval = 0 THEN queue \cup {now'} ELSE queue
  /\ UNCHANGED <<book, sweep, claims, mails, crashes, deadlocks>>

-----------------------------------------------------------------------------
Init ==
  /\ now = 0
  /\ book = <<>>
  /\ queue = {0}
  /\ sweep = [w \in Workers |-> Idle]
  /\ claims = {}
  /\ mails = [k \in Keys |-> 0]
  /\ crashes = 0 /\ deadlocks = 0

Next ==
  \/ \E a \in Appts : Book(a) \/ Move(a) \/ Leave(a)
  \/ \E w \in Workers :
       \/ StartSweep(w) \/ Select(w) \/ ClaimAndSend(w) \/ CommitSweep(w)
       \/ CrashSweep(w) \/ DeadlockVictim(w)
  \/ Tick

Spec == Init /\ [][Next]_vars

(* A sweep that was started runs on.                                       *)
Fairness == \A w \in Workers : WF_vars(Select(w) \/ ClaimAndSend(w) \/ CommitSweep(w))

FairSpec == Spec /\ Fairness

-----------------------------------------------------------------------------
(* Properties *)

TypeOK ==
  /\ now \in 0 .. MaxTime
  /\ DOMAIN book \subseteq Appts
  /\ \A a \in DOMAIN book : book[a].start \in Starts /\ book[a].since \in 0 .. now
  /\ queue \subseteq 0 .. now
  /\ claims \subseteq Keys
  /\ \A w \in Workers : /\ sweep[w].claimed \subseteq Keys /\ sweep[w].moment <= now
                        /\ \A i \in DOMAIN sweep[w].due : sweep[w].due[i] \in Keys
  /\ mails \in [Keys -> Nat]
  /\ crashes \in 0 .. MaxCrashes /\ deadlocks \in Nat

(* The customer gets one message per reminder, although sweeps overlap     *)
(* (models/notification.py promises it for replayed batches, too).         *)
OneMailPerReminder == \A k \in Keys : mails[k] <= 1

(* A message is only ever repeated for a sweep that died with its claim    *)
(* uncommitted: every further one costs one more crash or deadlock.        *)
RepeatedOnlyForADeadSweep == \A k \in Keys : mails[k] <= 1 + crashes + deadlocks

(* With a window of at least the interval plus the delay of a sweep, and   *)
(* sweeps that do not die, nobody falls between two of them: an            *)
(* appointment that stood as it is before its window opened has its mail,  *)
(* or a sweep has it on its list, as soon as the window has closed.        *)
InHand(key) ==
  \E w \in Workers :
    \/ key \in {sweep[w].due[i] : i \in DOMAIN sweep[w].due}
    \/ /\ key[2] \in {sweep[w].kinds[i] : i \in DOMAIN sweep[w].kinds}
       /\ key[1] \in Due(key[2], sweep[w].moment)

NobodyIsForgotten ==
  \A a \in DOMAIN book, k \in KindSet :
    /\ crashes = 0 /\ deadlocks = 0
    /\ book[a].since + Horizon[k] + Window <= book[a].start
    /\ book[a].start < now + Horizon[k]
    => mails[<<a, k>>] >= 1 \/ InHand(<<a, k>>)
=============================================================================
