# BarberHub in TLA+

BarberHub sells barbers' time: customers book appointments through a FastAPI
service backed by PostgreSQL, and Celery workers send mail, release bookings
nobody accepted, and repair ratings. These modules model the parts of it where
several requests, workers and the clock meet over the same rows, check them with
TLC on small instances, and prove the central properties with TLAPS for every
size of the system.

Paths below are relative to the repository (`src/app/...` is written `app/...`).

## 1. The system

### Components, their state and their operations

| component | state | operations | where it is hard |
|---|---|---|---|
| appointment life cycle (`app/services/booking.py`, `app/models/appointment.py`) | table `appointments` | book, move, cancel, confirm, complete, no-show | requests load, check and commit in separate steps of READ COMMITTED transactions without row locks; only the exclusion constraint `no_double_booking` and the CHECK `end_after_start` see the rows as they are when the write happens |
| expiry of pending bookings (`app/workers/tasks.py`) | the same table | hourly job `expire_stale_pending` | selects, then updates by primary key; the worker may die and the task comes again |
| availability engine (`app/services/availability.py`) | none | normalize, subtract, align, walk, clip | boundaries: touching, nested, empty and out-of-order spans |
| slot query (`app/services/slots.py`) | none; reads six tables in six statements | `available_slots` | the tables change between the statements |
| weekly hours and breaks (`app/services/schedule.py`) | `working_hours`, `barber_breaks` | replace the week, create and delete a break | checks appointments first, writes its own table later; bookings do the reverse |
| closures (`app/services/closures.py`) | `shop_closures` | create, delete | the same, for whole local days and every barber |
| soft deletion (`barbershop.py`, `barber_directory.py`, `service_catalog.py`) | `is_active` of shops, barbers, services | delete, PATCH | the deletion counts customers to come and commits later; a PATCH does not count |
| reviews and ratings (`reviews.py`, `ratings.py`) | `reviews`, denormalized `barbers.rating`, `reviews_count` | review, recompute | lock modes and their order; lost updates of the aggregate |
| nightly repair (`tasks.py`) | the same | `recompute_barber_ratings` | locks all barbers in one transaction in no fixed order |
| reminders (`tasks.py`, `app/models/notification.py`) | `appointment_reminders`, the broker's queue | sweep every 15 minutes | overlapping, late and dying sweeps; the mail leaves before the claim commits |
| notifications and mail (`notifications.py`, `email.py`, `tasks.py`) | the broker's queue | hand-off after the commit, two notify tasks, delivery with retries | the row changes again before the task reads it; tasks are lost, repeated, late and overtaken |
| sessions (`auth.py`, `core/security.py`) | `users`, `refresh_tokens` | register, login, refresh, logout, revoke all | rotation is a read and a later UPDATE by primary key, which does not see that the session was ended in between |
| rate limiter (`app/core/rate_limit.py`) | hits per client, in memory of each process | `check` | boundary of the window, seconds rounded down |
| directory (`barbershop.py`, `barber_directory.py`, `service_catalog.py`, `permissions.py`) | `barbershops`, `barbers`, `services`, `barber_services`, `users.role` | create, rename, switch on and off, hire, assign services | a rule over two tables without a constraint; replacement of a list that was loaded earlier; promotion within a transaction that may fail |
| paged lists (`core/pagination.py` and the list functions) | none | COUNT, ordered SELECT with OFFSET | rows are added and move between the statements and between the pages |
| analytics (`analytics.py`) | none | five statements of one dashboard | each is of another moment and has conditions of its own |
| geo distance, schemas, routing, frontend, seed data | none of their own | – | – |

### How they interact

* Every writer of `appointments` goes through the life cycle or the expiry job;
  both write through the same constraint.
* A booking is accepted if it is a member of the list the slot query would
  serve (`_assert_on_offer`); the slot query reads the tables that the schedule,
  the closures and the soft deletions write. Nothing but the order of
  statements relates the two sides.
* Completing an appointment allows one review of it; a review recomputes its
  barber's rating under the lock of the barber's row, and so does the nightly job.
* The reminder sweep reads appointments and writes claims; the primary
  key of `appointment_reminders` is what makes it run once.
* Every commit that changes an appointment is followed by a hand-off to the broker,
  outside of the transaction; the task reads the row again.
* What the directory shows is what a booking has to accept, by rules that are
  written down in two places (`_to_read`, `_resolve_barber_and_service`).
* Login and registration pass through the limiter of the process that serves them.
* The beat (`app/workers/celery_app.py`) starts the three jobs; tasks are
  acknowledged late, so a worker that dies has its task delivered again.

### What makes each part correct

* Life cycle: no two active appointments of a barber overlap; an active one lies
  in bookable time; a decision is not undone; a refusal gives a reason the handler saw;
  a pending booking is decided some day.
* Engine: exactly the times that fit are offered, once, in order, also on a day
  of 23 or 25 hours; no computation fails on a degenerate span.
* Schedule, closures, deletion: nothing is closed, blocked or deleted over
  somebody's appointment, unless the appointment was committed between the look and
  the commit; a week is its last payload and those that overlapped it.
* Ratings: the rating is that of the reviews; reviewers do not deadlock and are
  answered; a rating that drifted becomes right.
* Reminders: one mail each, nobody forgotten.
* Notifications: once nothing is on its way any more, and nothing was lost,
  everybody was told what is the case; everything on its way arrives or is given up.
* Sessions: a refresh token buys at most one pair for each handler that had it in
  hand; a revoked one buys nothing more, except for handlers that had it in hand when it
  was revoked; the limiter holds in every window, and who waits as long as told is let in.
* Directory: what is shown can be booked; roles agree with profiles; a replaced
  list is the one asked for, up to replacements that overlapped it.
* Reads: a walk through a list nobody changes sees each row once; the figures of a
  dashboard are consistent with each other.

## 2. The modules

| module | models | module that checks it | proofs |
|---|---|---|---|
| `Calendar` | what the appointment book promises: slots are taken, exchanged and given back, and never overlap | – (abstract; used by `Booking` and `Schedule`) | `BookingProofs`, `ScheduleProofs` |
| `Booking` | `booking.py`, the constraints of `appointment.py`, `expire_stale_pending` | `MCBooking` | `BookingProofs` |
| `Intervals` | `availability.py` with its conversion of local times, the arithmetic of `slots.py` | `MCIntervals`, `MCReads` | `ReadsProofs` |
| `Schedule` | `schedule.py`, `closures.py`, soft deletion, and bookings beside them | `MCSchedule` | `ScheduleProofs` |
| `Waits` | cycles of lock waits, as the database's deadlock detector looks for them | with `Ratings`, `Reminders` | `RatingsProofs` |
| `Ratings` | `reviews.py`, `ratings.py`, `recompute_barber_ratings` | `MCRatings` | `RatingsProofs` |
| `Reminders` | `send_appointment_reminders`, `_claim_reminder` | `MCReminders` | `RemindersProofs` |
| `Notifications` | `notifications.py`, the notify tasks and `send_email` of `tasks.py` | `MCNotifications` | `NotificationsProofs` |
| `Sessions` | `auth.py`, `models/user.py` | through `Accounts` | `AccountsProofs` |
| `RateLimiter` | `core/rate_limit.py` | through `Accounts` | `AccountsProofs` |
| `Accounts` | `api/v1/auth.py`: `RateLimiter` in front of `Sessions` | `MCAccounts` | `AccountsProofs` |
| `Directory` | `barbershop.py`, `barber_directory.py`, `service_catalog.py`, `permissions.py` | `MCDirectory` | `DirectoryProofs` |
| `Listing` | `core/pagination.py` and the lists that use it | `MCReads` | `ReadsProofs` |
| `Dashboard` | `analytics.py` | `MCReads` | `ReadsProofs` |

`Booking` implements `Calendar` (checked and proved). `Schedule`, which implements it, too
(proved), composes `Calendar` with the tables that make time bookable: its appointments are the
slots of `Calendar`, so that it need not repeat the life cycle. `Accounts`
composes `Sessions` with an instance of `RateLimiter`; that it implements `Sessions` is
proved. `MCReads` runs the three reads (`MCIntervals`, `Listing`, `Dashboard`), one
in a behaviour.

### Booking: state and actions against the code

`rows` is the table, a function on the ids inserted so far. `req[r]` is what one
handler holds between its reads and its commit; `stale[w]` is what one execution of
the expiry job has selected. `now` is the clock in ticks.

| action | code |
|---|---|
| `Create`, `CheckOffer`, `SecondLook` or `CommitCreate` | `create_appointment`: resolve and read the clock; `_assert_on_offer`; insert in `_commit_or_slot_taken` |
| `Reschedule`, `CheckOffer`, `SecondLook` or `CommitMove` | `reschedule_appointment`: load and check the row; offer check with the row left out; UPDATE of the columns that differ from those loaded |
| `Cancel`, `Confirm`, `CloseOut`, then `CommitStatus` | load and check; UPDATE of the status by primary key; a plain `db.commit()` whose exclusion violation is not translated |
| `Abandon` | rollback of a request that dies (`app/db/session.py`) |
| `ExpireScan`, `ExpireCommit`, `ExpireCrash` | the SELECT, the UPDATEs and the death of `expire_stale_pending` |

`CheckOffer` is the first look of `_assert_on_offer`, at the slot list that is served. If the time
is not on it, the request becomes a `RefusedReq`, and `SecondLook` computes the list as if
nobody had booked and answers by it; anybody
may commit between the two. `blocked` is the history of what the first look saw.

What another transaction may do between two of these steps is what it may do
between the two statements. The check and the insert or update of one commit are
one step because the constraint makes the second of two clashing transactions
wait for the first. `Moved` is the reason `EndAfterStart` is not evident: a move
writes `start_time` only if it differs from the start that was loaded, and
likewise for `end_time`, so two moves that were computed from different service
durations may each contribute one column; the CHECK refuses the reversed ones.

Working time is the fixed set `Hours[b]` here; `Bookable` states the slot list by
instants, and `Intervals` shows that the engine computes that set.

### Intervals

Each Python loop is a left fold whose accumulator is the loop's local state:
`MergeIntoLast` is the body of `normalize`, `PassBlock` that of the inner loop of
`subtract` (with `done` for `break`), `KeepSpan` that of `clip`; `Inserted` is one step of an
insertion sort, which is what `sorted` amounts to for a total order. A zone is the instant its offset changes at and
the two offsets; `InstantOf` is what Python takes a local time for (the first of two
instants, and for a skipped time the offset of before), `LocalDayBounds` and
`WorkingIntervals` are built on it. `MCIntervals` adds rows one at a time in any
order, asks one query, and compares the answer with a definition by instants that
says when somebody is at work by the clock on the wall, and does not use `InstantOf`
for it.

### Schedule

A booking's `Check` executes one read at a time in the order of
`available_slots` (`After`); the other handlers are a check action and a commit
action. Rows of `working_hours` carry the replacement that inserted them, because
`replace_working_hours` deletes the rows its statement sees and inserts others. Two fields of what
a handler has in hand are histories, which no guard reads: `beside` has the kinds of commits that
came after it had looked and before it commits (`Looked`, `Commit`), `began` the number of
replacements when its DELETE ran. The properties name with them what an overlap may spoil, so that
whatever else goes wrong violates them.

### Ratings

`locks[b]` holds who has the barber's row, `update` from SELECT FOR UPDATE or
`keyshare` from the foreign key of an inserted review. An action whose
`Blockers` are not empty is not enabled: the transaction waits. `Drift` is the
"manual DELETE" the nightly job is there for. The job computes every barber
under its lock and writes at its commit.

### Reminders

`queue` holds the beats no worker has taken; `sweep[w]` is one execution. The
claim is an insert that waits for another sweep's uncommitted claim of the same key.
`mails` counts what the broker was given. `Tick` lets no beat wait longer than
`MaxDelay`: this is the assumption about capacity under which
`NobodyIsForgotten` is stated. Beats of one instant are one member of the queue,
and a task that is delivered again after a crash is as punctual as a new one.

### Notifications

Only what a mail tells is kept of an appointment: its time, and whether it is on,
called off by somebody, or released by the job. `due[r]` is what a handler has
committed and not handed off yet. The broker is a bag; a task is taken in any order
(`Work`). `Notify` reads the row as it is when the task runs; `NotifyFails` and
`NotifyDies` are the broker going away, and the worker dying, before, between and
after its two mails; the second has the task delivered again. `Deliver` and
`DeliveryFails` are attempts of `send_email`; after `Retries` of them the mail is lost.
Since handlers commit on what they loaded earlier, any change may meet a row in
any state here. `lost` and `told` are histories.

### Sessions, RateLimiter, Accounts

A refresh token is its row. `Refresh` and `CommitRefresh` are the read and the commit of the
exchange: the UPDATE goes by primary key and does not see that another handler
revoked the row. `Reuse` and `CommitReuse` are the UPDATE of all live rows of a user and its
commit: it revokes what its snapshot shows and is still live. A registration
holds its address from the flush to the commit. `parent`, `by` and `late` of a token are
histories: whom it was exchanged from and by, and who had it in hand, to exchange it, when it was
revoked. `RateLimiter` keeps the queue of `_hits`: `Kept` is what the loop that pops the oldest hits
leaves of it, which begins with the first hit the window still holds (`Held`). `Second` is how
many ticks a second has, so that rounding to seconds is visible; `RestartProcess` empties the memory. An
`Attempt` is counted whether or not the handler behind it succeeds.

### Directory

`add_barber` and `set_services` load in one step and commit in another
(`LoadAccount`/`CommitJoin`; `LoadAssignment`/`Resolve`/`CommitAssignment`); the others
write only the fields they are asked to. `CommitJoin` is the flush and the commit
of one transaction: promotion and profile, or neither. `Assignment` is the diff
SQLAlchemy writes: rows loaded and not wanted are deleted, rows wanted and not loaded
inserted. `beside` is a history: the lists others have committed for the barber since
a handler loaded the old one. `Shown` is what a stranger sees and `BookingAccepts` what a booking checks;
each is translated from its own file.

### Listing and Dashboard

A client of `Listing` counts, fetches, and goes on while the answer says there is a next
page; rows are added and moved at any moment. `Sorted` is every order ORDER BY allows.
A reader of `Dashboard` executes `Statements` one by one, while bookings are made, moved,
decided and, as `booking_terminal` shows they can be, overwritten.

## 3. What is checked

| run | bounds | shows |
|---|---|---|
| `booking_slots` | 2 appointments, 2 handlers, service durations 1 and 2, starts 2, 3 and 5 in hours 2 to 6 without 4, vetting | under every interleaving, those between the two looks of a refusal among them: `NoDoubleBooking`, `RefusedForTheRightReason`, and that the rows implement `Calendar` |
| `booking_sequential` | 2 appointments, 2 customers, 1 handler, a barber with a gap in the hours, the whole life of an appointment | what the handlers' own checks guarantee when nothing runs beside them: `BookedTimeIsWorkingTime`, `TerminalIsFinal`, `ClosedOutOnlyAfterStart` |
| `booking_lifecycle` | 1 vetted appointment, 2 handlers, 1 worker, under fairness | `DecidedStaysDecided`, `EveryPendingIsDecided` |
| `schedule_overlap` | 1 barber, 2 appointments, 2 handlers, 2 days of 4 ticks, 2 weeks, 2 replacements, a break of half a day, a closure of both days | `BreaksAreKept`, `ClosuresAreKept`, `DeletionStrandsNobody`, `WeekIsReplaced`: under every interleaving, only the commits that overtake a handler between its look and its commit spoil what it checked |
| `ratings` | 2 reviewers of one barber, 2 executions of the job over 2 barbers, 1 crash, 1 drift, under fairness | `RatingAgreesWithReviews`, `ReviewersNeverDeadlock`, `EveryReviewIsAnswered`, `DriftIsRepaired` |
| `reminders` | 2 appointments, 2 sweeps, 1 crash, three beats, sweeps at most one tick late | `RepeatedOnlyForADeadSweep`, `NobodyIsForgotten` |
| `accounts` | one address, which two user ids race for, so that one account is ever made; 3 refresh tokens of 2 ticks, 2 handlers; 2 attempts in a window of a second of two ticks, in a process that restarts | `ExchangedOncePerHandler`, `RevokedBuysOnlyWhatIsUnderWay`, `AtMostLimitPerWindow`, `TheWaitToldIsEnough` |
| `notifications` | 1 appointment at 2 times, 3 changes by 2 handlers and the job, 1 retry, 1 accident, under fairness | `EverybodyKnows`, `NothingStaysOnItsWay` |
| `directory` | an owner and a customer; 2 shops, services, names and handlers, 1 barber, so that of two hirings at once the later insert fails and takes its promotion back | `ShownIsBookable`, `RolesFollowProfiles`, `ReplacedUpToOverlaps` |
| `reads` | slots: every list of at most 2 shifts and 2 busy spans of a day of 4 ticks that is ordinary, short or long, 2 durations, 2 grids; lists: 3 rows, 2 keys, pages of 1 and 2, 2 changes under the walk; dashboards: 2 appointments, 2 barbers, 2 services, 2 prices, 1 change between the statements | `OffersExactlyTheBookable`, `FailsOnlyOverASkippedStart`, `NoIntervalIsRejected`; `WalkFindsEachRow`; `ReportAddsUp`, `RevenueCoversTheCompleted` |

One run of every module that has a `TypeOK` checks it.

Why the bounds are enough to meet the interesting cases: a clash, a lost update
and a deadlock each need two transactions; adjacent starts and services of one and of two
ticks make bookings that overlap without starting together, times that no empty book offers, and
moves of one booking that mix into a span neither asked for; a break of the second half of a day
meets a booking that starts before it, and a closure that ends with the second day meets one on
its last day; two barbers are what two executions of the nightly
job need to take in different orders; window 4 against interval 3 with a delay of 1
is the code's 20 minutes against 15 with the slack used up. Three tokens are one
exchanged and the two it is exchanged for when two handlers meet; two ticks to a
second make a client come back between two seconds. Three changes are a booking, a change
and one that undoes it while the mail about the first is under way. Three rows on pages of
one or two make a last page that is full and one that is not, and a tie of keys across
their border. What does not depend on those numbers is proved (section 5).

`CHECK_DEADLOCK FALSE` stands in `Reads.cfg` and `Local_shift.cfg`, where an answered query
is the end, in `Notifications.cfg`, where the changes are used up and everybody is told, and in
`Reminders.cfg`, where the clock stops at its bound.

### Disagreements with what the repository says

Two runs end with a violation; each trace is a behaviour of the code.

| run | property | trace |
|---|---|---|
| `booking_terminal` | `TerminalIsFinal` (docs/SPEC.md:242) | two handlers load one active row; the later commit overwrites the terminal status the earlier one wrote, and a confirm revives a cancelled booking |
| `local_shift` | `ShiftsSurviveOrAreNothing` (app/services/availability.py:146) | the docstring has a shift inside a spring-forward gap collapse to nothing. `working_interval` (line 155) compares the bounds as wall-clock times: in Berlin on 2025-03-30 a shift 02:15–02:45 becomes half an hour after the gap, which is offered, and 02:30–03:00 makes `Interval` raise `ValueError`, so that the request fails |

Nine more statements, most of them quoted from the repository, are written down as properties and are false;
they have no run of their own. To see a trace, put the property into the configuration named:

| property | configuration | trace |
|---|---|---|
| `ConfirmedNeverExpires` (tests/integration/test_workers.py:282) | `Booking_terminal.cfg` with `Workers = {w1}` and `Vetting = {TRUE}` | the shop confirms between the SELECT and the UPDATE of the job, which cancels the confirmed booking |
| `TakenWhenToldSo` (app/services/booking.py:366) | `Booking_slots.cfg` | a time is taken at the first look of a refusal and cancelled before the second: the client hears `SLOT_TAKEN` of a time that is free |
| `ClosedOutOnlyAfterStart` (app/services/booking.py:225) | `Booking_sequential.cfg` with `Requests = {r1, r2}` | a close-out commits after a move to a later time |
| `BlockedTimeIsUnbooked` (README.md:112) | `Schedule_overlap.cfg` | a break is checked, a booking into its time is checked and commits, the break commits |
| `WeekIsOnePayload` (app/services/schedule.py:47) | `Schedule_overlap.cfg` | two replacements delete the same week and each inserts its own: both stay |
| `ListIsReplacedWhole` (app/services/barber_directory.py:159) | `Directory.cfg` | two replacements load the same empty list and each inserts its own: both stay |
| `ReuseEndsEverySession` (app/services/auth.py:70) | `Accounts.cfg` | a reuse finds the live tokens of a user, a sign-in or a refresh commits another one, and the reuse leaves it live |
| `NobodyIsStranded` (app/services/barber_directory.py:131) | `Schedule_overlap.cfg` | a PATCH with `is_active: false` takes a barber with customers to come off the books; a barber may send it for themselves |
| `OneMailPerReminder` (app/models/notification.py:28) | `Reminders.cfg` | a sweep queues a mail and dies before it commits the claim; the next sweep mails again |

Two docstrings say more than the code does, which the models follow: `auth.py` calls a refresh
token "usable at most once", and two handlers that refresh at the same time both exchange
it (`ExchangedOncePerHandler` says what is left); `rate_limit.py` speaks of a fixed
window, and the window slides, which is the stronger promise (`AtMostLimitPerWindow`).

A third statement holds only in part. The comment in `_assert_on_offer`
(app/services/booking.py:366) wants a request that loses a race to hear the same reason whatever
the timing. What is told is what the first look or the commit saw: the one in the way may be gone by the
second look (`TakenWhenToldSo`), and `RefusedForTheRightReason` therefore asks that somebody was in
the way at the first look, or is at the commit. And two moves of one booking may cross: the later one writes only the columns that
differ from the row it loaded, and the constraint refuses a span nobody asked for, so that it
answers `SLOT_TAKEN` for a time that is free. `RefusedForTheRightReason`
excepts a move that raced another move of the same booking (`MovedMeanwhile`) and nothing
else; without this disjunct `booking_slots` finds the trace: one handler loads a booking,
another one moves it to an earlier time, the time after that is booked, and the first one's new
end, combined with the start the other one wrote, spans that booking.

With two handlers instead of one, the properties of `booking_sequential` fall
for one reason, a check that is separated from its commit: besides the close-out of the table, two
moves leave a row as long as no service (`LengthIsAServiceDuration`, which holds for one
handler), which may even bridge a gap in the hours (`BookedTimeIsWorkingTime`). That run shows what
the checks of a handler are worth by themselves, not what interleavings do to them. In
`schedule_overlap` the handlers do overlap, and the properties say what remains true then.

`EverybodyKnows` asks that the present state of an appointment was mailed, not that it was
mailed last: a mail that is overtaken and tells of an older state may be the one that is read last, and
`told`, which is a set of past mails, does not notice.

## 4. Fairness

* `Booking`: the clock, and the expiry job. The beat queues the job every hour
  (`celery_app.py`) and `task_acks_late` has it delivered again when a worker dies, so
  it is started again and again (WF) and does not die every time it could commit
  (SF). Clients and staff owe nothing: `EveryPendingIsDecided` rests on the job alone.
* `Ratings`: a handler that has started runs on; the nightly job is started and
  runs on; the database ends one transaction of a cycle. Row locks are granted
  to waiters in a queue, so a lock that is free again and again is obtained: SF on the
  steps that wait, for the job on each lock of its sweep, WF on the others.
* `Notifications`: a handler that has committed reaches its last statement or dies, and the
  workers keep taking tasks; which task, and whether the mail server
  accepts it, is left open. That a mail is not retried for ever rests on `max_retries`.
* The other modules have safety properties only and are checked without fairness; `FairSpec` of
  `Reminders` says that a sweep that has started runs on.

## 5. What is proved

`BookingProofs` holds for any sets of appointments, barbers, customers,
handlers and workers, any hours and any settings, under `BookingAssumption`
(starts and settings are natural numbers, durations and the grid positive).

| theorem | says |
|---|---|
| `TypeCorrect` | `Spec => []TypeOK` |
| `RowsAreSpans` | `Spec => []EndAfterStart` |
| `DoubleBookingIsImpossible` | `Spec => []NoDoubleBooking` |
| `BookingImplementsCalendar` | `Spec => ImplementsCalendar`: every step takes, exchanges or releases free slots, or stutters |
| `VettingIsDecidedOnce` | `Spec => DecidedStaysDecided` |
| `RefusalsAreTrue` | `Spec => RefusedForTheRightReason` |
| `BookingsAreWorkingTime` | `Spec => []BookedTimeIsWorkingTime`, if `OneAtATime` |
| `NothingIsClosedOutEarly` | `Spec => []ClosedOutOnlyAfterStart`, if `OneAtATime` |
| `TerminalStaysTerminal` | `Spec => TerminalIsFinal`, if `OneAtATime` and `Workers = {}` |

`OneAtATime` says that there is one request handler. It is a hypothesis of these
theorems and no assumption of the model: with two handlers the properties are false (section 3), so
the theorems say that what is lost is lost to concurrency and to nothing else in the
checks. The expiry workers stay free in two of the three; in the third even a single
one, which overwrites a status by primary key, is too much.

The inductive invariant is `IInv == TypeOK /\ EndAfterStart /\ NoDoubleBooking`.
`NoDoubleBooking` needs `TypeOK` to be inductive: a commit must name a row that
exists, and a status change must leave the row's barber and times alone.
`EndAfterStart` is what makes it say something: an empty span overlaps
nothing and a reversed one is not a range at all, so a row the moves had torn into
one would be outside what `NoDoubleBooking` compares. It is also what makes the rows slots of `Calendar`.

The argument: each commit writes one version of one row (`Writes`; lemmas
`InsertedRow`, `MovedRow` and `StatusRow` say what version) and is let through only
if it is not `Excluded`; `WriteKeepsRowsApart` shows that such a write keeps every
pair of active rows apart; the expiry job only deactivates rows.
`WriteImplements` maps the same writes to `Hold`, `Move`, `Release` or a stutter
of `Calendar`, depending on whether the row was active before and after:
reviving a cancelled booking is a `Hold`, which is why the late confirmation that
`booking_terminal` shows can lose a status but never sell time twice.

`RefusalsAreTrue` needs besides the types `MovesKnowTheBarber` (a move answers for the
barber of its row, and no write ever changes that barber) and `RefusalsKnowWhy`: a handler that was
refused at its first look, for a time an empty book would offer, saw somebody in the way, which
`blocked` remembers whoever commits until the second look. `BookingsAreWorkingTime` and
`NothingIsClosedOutEarly` share `Alone`. It speaks of every row, whatever its status
(`RowsAreWorkingTime`), because a handler may move a row the job has cancelled since it was
loaded, and confirming it makes it active again; and of what the handler has in hand
(`InHand`): a checked time is working time, the row is still as it was loaded, and what is
about to be closed out has begun. `TerminalStaysTerminal` rests on `FoundOpen`: the row a handler
is about to change is active.

`ScheduleProofs` holds for any appointments, barbers, breaks, closures, weeks, lengths of day and
handlers, under `ScheduleAssumption` (times are natural numbers, closures are pairs of days; shop, service
and barbers are different things).

| theorem | says |
|---|---|
| `TypesHold` | `Spec => []TypeOK` |
| `NobodyIsBookedInABreak` | `Spec => BreaksAreKept` |
| `NobodyIsBookedOnAClosedDay` | `Spec => ClosuresAreKept` |
| `DeletionIsSafe` | `Spec => DeletionStrandsNobody` |
| `WeeksAreReplaced` | `Spec => WeekIsReplaced` |
| `MovesStayWithTheirBarber` | `Spec => []MovesKeepTheirBarber`, which no run checks |
| `ScheduleImplementsCalendar` | `Spec => Book!Spec`: every step is a step of `Calendar` on `held`, or a stutter |
| `CalendarNeverOverlaps` | `Book!Spec => []Book!NoOverlap` |
| `ScheduleNeverOverlaps` | `Spec => []Book!NoOverlap` |

The invariant is `IInv == Shapes /\ Ready /\ SlotsAreOneDay`. `Ready`: what a handler has checked
is still true, for each of its statements separately, because a booking reads closures, hours,
appointments and breaks one after the other, unless its history says that a commit of the kind
it has to fear came after (`Prepared`). So the proofs say more than that a handler is right when
nothing runs beside it: everything that may run beside it, except the one kind of commit, is
harmless. `Recedes` collects what happens besides the handlers (appointments are
decided, breaks and closures deleted, things switched on and off, the clock runs): it only takes
away what a check has to fear. `CommitIsNoted` and `NotedStaysPrepared` are about the commits:
each either is of a kind the other handler has not looked for, or is in its history. For the weeks,
`Ready` says that the rows older than the DELETE of a replacement are among those it removes.
`SlotsAreOneDay` is what `ClosuresAreKept` rests on: the slot query looks at the closures of one local
day, and a slot over midnight would reach into another one.

For the refinement it takes the types: what a
handler has carried through its statements is a slot of `Calendar`, and everything but
`CommitBooking` and `Leave` lets `held` alone. `CommitBooking` uses `Hold` and `Move` of `Calendar`,
whose guards also have a move keep its barber and a new appointment take a fresh id; that
`Schedule` does not owe its refinement to these two, which no statement of the code checks at the
commit, is what `MovesKeepTheirBarber` says: they are true whenever a handler gets there.
`CalendarNeverOverlaps` is the promise of the abstract book, proved from its own
specification, so that it holds of everything that implements it.

`RatingsProofs` holds for any reviewers, executions of the job and stars, and any
finite sets of barbers and of appointments, under `RatingsAssumption`.

| theorem | says |
|---|---|
| `RatingsStayHonest` | `Spec => []RatingAgreesWithReviews` |
| `ReviewersAreNoVictims` | `Spec => []ReviewersNeverDeadlock` |
| `RatingsAreTyped` | `Spec => []TypeOK` |

The invariant is `IInv == Shapes /\ Locking /\ Current`. `Locking`: a row has one holder in mode
`update`, whoever has staged something holds that row, and whoever holds the row of a barber
for a review is past its lock. `Current`: what was computed under a lock is still the summary of
the committed reviews when it is written, which is why the aggregate is not lost although two
transactions write it. That a reviewer is on no cycle follows from `Locking` alone: a reviewer
who waits for a barber's row holds nothing that anybody else waits for, and once it holds the row
its other locks are granted at once. `OnCycleIsBothWays` says of `Waits` that who is on
a cycle both waits and is waited for. `RatingsAreTyped` says that the columns hold what they
can hold: the mean of `n` reviews is between zero and five stars and `n` is at most the number of
appointments. Its invariant `Typed` bounds what a request or the job has staged in the same way,
and `SummaryIsBounded` bounds what `recompute_barber_rating` computes, by sums over the parts of the
set of reviews (`SumBounds`).

`NotificationsProofs` holds for any appointments, times, handlers and bounds, under
`NotificationsAssumption`.

| theorem | says |
|---|---|
| `TypesHold` | `Spec => []TypeOK` |
| `NobodyIsLeftInTheDark` | `Spec => []EverybodyKnows` |

The invariant is `IInv == TypeOK /\ AboutRows /\ Promise`. `Promise` is what `EverybodyKnows`
becomes before the queues are empty: for each person, and each thing to be told of an appointment, either
it was told, or a handler still has the event in hand, or a task carries it: a mail if it says
what is true now, an event in any case, because its task reads the row when it runs. The
time of an appointment is promised in every state of its row, the cancelled one too, because
a confirmation that was loaded earlier revives the row without announcing it as new.

`RemindersProofs` holds for any appointments, starts, executions, bounds and list of
kinds, under `RemindersAssumption`.

| theorem | says |
|---|---|
| `TypesHold` | `Spec => []TypeOK` |
| `MailsCostDeaths` | `Spec => []RepeatedOnlyForADeadSweep` |
| `WideWindowForgetsNobody` | `Spec => []NobodyIsForgotten`, if `Window >= Interval + MaxDelay` |

The hypothesis of the last one is the reason why `REMINDER_WINDOW` is 20 minutes and not
the 15 of the beat: it is met with equality by the configuration, and a tick less makes the property
false. The invariant says of every beat that meets an appointment
(`Meets`: however late its sweep, the appointment is in its window) that it waits in the
queue, or that the mail was queued, or that a sweep has it in hand (`BeatsAreAnswered`). An
appointment whose window has closed has met a beat, since a window at least as long as
interval and delay contains one. `MailsCostDeaths` counts mails against claims: one more
than the deaths only if the key is claimed or a live sweep has the claim.

`ReadsProofs` holds for any rows, keys, page sizes and bookings, any number of
changes under the read, any shifts and busy spans, and any finite sets of barbers and services,
under `ListingAssumption`, `DashboardAssumption` and `SlotsAssumption` (services and steps take
time, prices are natural numbers, the instants considered hold the whole day in every zone, and
no zone skips from before a midnight to after it; a zone may skip from midnight on, as some
do).

| theorem | says |
|---|---|
| `SlotsAreExactlyTheBookable` | `SlotSpec => []OffersExactlyTheBookable` |
| `NoIntervalIsEverRejected` | `SlotSpec => []NoIntervalIsRejected` |
| `OnlyASkippedStartFails` | `SlotSpec => []FailsOnlyOverASkippedStart` |
| `ReportsAddUp` | `DashSpec => []ReportAddsUp` |
| `RevenueCovers` | `DashSpec => []RevenueCoversTheCompleted` |
| `NoRowIsPassedBy` | `ListSpec => []WalkFindsEachRow` |

`SlotSpec`, `DashSpec` and `ListSpec` are the behaviours of one read.

For the slots the invariant, `SlotInv`, says little: the answer is what the engine computes from the
rows. The work is in what each loop computes, stated by the instants its list covers:
`SortedSpans` (sorted, and the same spans), `NormalizeSpans` (the same instants, in
spans that are apart and in order), `SubtractSpans` (the instants of the one list that are not of
the other, in spans that are apart), `ClipSpans`, and `SlotsOfSpan` with `Aligned` (the walk from the
first multiple of the step on finds each start that fits, once, in order). That the spans are
apart is what makes a booking lie in one of them (`FitsInOne`): a run of
free instants cannot cross a border between two. `SlotsOfDay` composes them. On the side of
the clock, `ClockPassesOnce` and `LaterIsLater` relate the local times of the shifts to instants. The
theorem's condition on the shifts, that their bounds are plain local times, neither skipped nor
shown twice (`Plain`), is the property's own: it compares with the clock on the wall, by which the
others are no time or two. That a skipped start is the only thing a request
can fail over is `OnlyASkippedStartFails`.

For the dashboard the invariant `ReportInv` says of each statement already executed that its number is the
right one about the present table, as long as nothing has changed (`RightSoFar`); a change
in between makes it say nothing, and once the report is shown it is fixed. That right
numbers agree with each other (`RightIsAgreed`) rests on sums over parts of a set: the statuses
part the bookings (`StatusesAddUp`), and no service or barber has more than its share
(`PopularShare`, `TopShare`). For `RevenueCovers`: the completed bookings of the request only become
more between the counts and the revenue (`Covering`).

For the walk, `WalkInv`: the rows still to be shown have a rank beyond the pages fetched, and as
long as nothing changes those pages were full. It rests on the order being strict, which the id as
last key makes it (`OrderIsStrict`), and on a row's place in any answer ORDER BY allows being its
rank (`RankIsPlace`).

`AccountsProofs` holds for any users, addresses, tokens, handlers, processes and life
times, under `SessionsAssumption` (times are natural numbers) and `LimiterAssumption` (limit and
window are positive and the window is a whole number of seconds, as `window_seconds` is).

| theorem | says |
|---|---|
| `AccountsImplementSessions` | `AccountsSpec => Spec`: the limiter only removes behaviours |
| `AccountsTyped` | `AccountsSpec => []TypeOK` |
| `OneExchangePerHandler` | `AccountsSpec => []ExchangedOncePerHandler` |
| `OneAccount` | `AccountsSpec => []OneAccountPerEmail`, which no run checks |
| `RevokedBuysNoMore` | `AccountsSpec => []RevokedBuysOnlyWhatIsUnderWay` |
| `LimitHolds` | `AccountsSpec => []AtMostLimitPerWindow` |
| `ToldIsEnough` | `AccountsSpec => []TheWaitToldIsEnough` |

Each rests on an invariant of its own over `TypeOK`. `Chains`: a token that was exchanged is
revoked, a handler has in hand only a token that it has not exchanged itself,
which its own check guarantees because a revoked token stays revoked. `Addresses`: an
address that is being inserted is neither that of an account nor of another
insertion. `UnderWay`: a handler whose token was revoked under it was there when that
happened (`OvertakenIsLate`); one that comes later finds the token revoked, and a revoked token is never
revoked again, so that the history of the first time stays. `Limits`, of the limiter: for every process and client, the hits are the
end of the passes, in order, and what is missing at the front is older than the window; who was
told to wait was told long enough for the oldest hit to leave it. The queue that is kept is a tail
because its first element is the least index that is still held (`Least`, `KeptIsATail`); that such
an index exists is the well-ordering of the naturals (`WFMin`).

`DirectoryProofs` holds for any users, shops, barbers, services, names and handlers,
under `DirectoryAssumption` (nobody registers as a barber).

| theorem | says |
|---|---|
| `DirectoryTyped` | `Spec => []TypeOK` |
| `RolesAgree` | `Spec => []RolesFollowProfiles` |
| `ShownCanBeBooked` | `Spec => []ShownIsBookable` |
| `ReplacementsMix` | `Spec => ReplacedUpToOverlaps` |

The invariant is `IInv == TypeOK /\ Loaded /\ OwnShop /\ RolesFollowProfiles /\ ListsKnown`. `ShownIsBookable` is
not inductive: it speaks of what is active at the moment, and a service that is switched on
again must have been of the right shop all the time (`OwnShop`). `OwnShop` survives the time between
the check of an assignment and its commit because `Loaded` has every handler hold
only services of the barber's own shop, and no shop, barber or service ever moves.
`Loaded` also says which roles an account may have by the time it is hired. `ListsKnown` relates the list a
replacement has loaded to the one in the table: of the loaded services, those that every
replacement since kept are still there, and all that is there was loaded or asked for by one of
them. The diff a replacement writes is about the loaded list, and what it makes of the present one follows.

Model-checked only are the liveness properties: `EveryPendingIsDecided`, `EveryReviewIsAnswered`,
`DriftIsRepaired` and `NothingStaysOnItsWay`. Liveness and ENABLED are out of the prover's reach.
Every other property of a passing run is stated by a theorem.

### Induction without induction theorems

What a fold computes for a list of every length, or a sum for every finite set, needs
induction, and the library's induction theorems have a predicate for a parameter, which the
installed provers cannot instantiate. These lemmas take their place; they speak of sets where
those speak of predicates:

* `FirstOf`: a set of numbers that is not empty has a least element (from the library's
  `WFMin`). `Climb`: a set of numbers that has 0 and the successor of each of its elements
  below `n` has every number up to `n`.
* `ClimbSets`: a set that has every part of a finite `A` whose own parts, smaller by one, it has,
  has every part of `A`. It climbs by cardinality.
* `FoldExists`, `AddsExists`: the community modules define a fold as `CHOOSE` of a recursive
  function, which says nothing until such a function is shown to exist.
* `FoldTrace`: the fold of a list is the last of a sequence of accumulators each of which is one
  step of the one before, over which `Climb` proves whatever the loop preserves.

## 6. What is not modelled

* Geo distance and the bounding box around it are trigonometry on real numbers, out of
  TLC's reach; the filters of a search are a yes or no per row in `Listing`.
* Wording and layout of mails, rendering, logging, routing, schema parsing: formats without
  state of their own. The limits the schemas enforce appear as the inputs that are
  enumerated.
* Password hashes and the encoding of tokens: a wrong password changes nothing.
* Access tokens: they are not stored, and their worth is fixed when they are signed.
* Who may read what. Who may change what is in the guards of `Booking` and `Directory`.
* Migrations, connection pools, the frontend and the seed script.
* A zone that changes its offset twice in one day, or skips a midnight from before to after it; sub-tick fractions of time in slots.

## 7. Plan

Done: every module of section 2, and the theorems of section 5.

What is left. The liveness properties of section 5, should their fairness ever be within
reach of a prover. The theorems of `BookingProofs` with the hypothesis `OneAtATime` would become theorems about any
number of handlers if the handlers locked the rows they check; they say what such a change
has to preserve. A day whose midnight lies inside a skipped hour, which `SlotsAssumption`
excludes, would need a definition of the day to compare `local_day_bounds` with.
