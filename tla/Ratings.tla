------------------------------- MODULE Ratings -------------------------------
(***************************************************************************)
(* Reviews and the denormalized rating of a barber: create_review of       *)
(* app/services/reviews.py, app/services/ratings.py, and the nightly job   *)
(* recompute_barber_ratings of app/workers/tasks.py.                       *)
(*                                                                         *)
(* What matters here is the row lock of the barber: who waits for whom.    *)
(* SELECT FOR UPDATE takes it exclusively; inserting a review takes it in  *)
(* the mode KEY SHARE, for the foreign key; both last until the end of the *)
(* transaction.  The value of a rating is in hundredths of a star.         *)
(***************************************************************************)
EXTENDS Naturals, Sequences, FiniteSets, FiniteSetsExt, Waits

CONSTANTS
  Barbers,
  Appts,       \* the completed appointments, each of one customer
  BarberOf,    \* BarberOf[a]: the barber of appointment a
  Stars,       \* the ratings customers give
  Reviewers,   \* concurrent requests POST /appointments/{id}/review
  Workers,     \* concurrent executions of the nightly job
  MaxDrifts,   \* bound on what happens to the tables outside the program
  MaxCrashes   \* bound on executions of the job that die

ASSUME RatingsAssumption ==
  /\ IsFiniteSet(Barbers) /\ IsFiniteSet(Appts)
  /\ BarberOf \in [Appts -> Barbers]
  /\ Stars \subseteq 1 .. 5
  /\ Reviewers \cap Workers = {}
  /\ MaxDrifts \in Nat /\ MaxCrashes \in Nat

VARIABLES
  reviews,   \* table reviews: the stars of each appointment that has one
  board,     \* the columns rating and reviews_count of table barbers
  locks,     \* locks[b]: who holds the row of barber b, in which mode
  req,       \* what each review request has in hand
  job,       \* what each execution of the job has in hand
  drifts, crashes

vars == <<reviews, board, locks, req, job, drifts, crashes>>

Txns == Reviewers \cup Workers

Idle == [stage |-> "idle"]

(* avg() over the reviews, half a hundredth rounded up; no review is 0.    *)
M_MeanInThousandths(sum, n) == (1000 * sum) \div n
Mean(sum, n) == (200 * sum + n) \div (2 * n)

(* What a set of reviews amounts to, and those that are about barber b.    *)
Score(given) ==
  LET n == Cardinality(DOMAIN given)
  IN [rating |-> IF n = 0 THEN 0
                 ELSE Mean(MapThenSumSet(LAMBDA a : given[a], DOMAIN given), n),
      count  |-> n]

About(b, given) == [a \in {x \in DOMAIN given : BarberOf[x] = b} |-> given[a]]
Summary(b, given) == Score(About(b, given))

With(given, a, stars) ==
  [x \in DOMAIN given \cup {a} |-> IF x = a THEN stars ELSE given[x]]

-----------------------------------------------------------------------------
(* Row locks *)

(* The holders that keep t from taking the row of b in a mode.             *)
M_KeepingOut(t, b, mode) == {}
KeepingOut(t, b, mode) ==
  {l.txn : l \in {k \in locks[b] :
     k.txn # t /\ ("update" \in {mode, k.mode})}}

Taking(t, b, mode) == [locks EXCEPT ![b] = @ \cup {[txn |-> t, mode |-> mode]}]
Releasing(t) == [b \in Barbers |-> {l \in locks[b] : l.txn # t}]

(* Whom transaction t is waiting for.                                      *)
Blockers(t) ==
  IF t \in Reviewers
  THEN CASE req[t].stage \in {"lock", "recompute"} ->
              KeepingOut(t, BarberOf[req[t].appt], "update")
         [] req[t].stage = "insert" -> KeepingOut(t, BarberOf[req[t].appt], "keyshare")
         [] OTHER -> {}
  ELSE IF job[t].stage = "sweep" /\ job[t].todo # <<>>
       THEN KeepingOut(t, Head(job[t].todo), "update")
       ELSE {}

WaitsFor == [t \in Txns |-> Blockers(t)]

-----------------------------------------------------------------------------
(* POST /appointments/{id}/review *)

(* The statements of create_review in their order.                         *)
M_WithoutLockFirst ==
  [load |-> "insert", lock |-> "insert", insert |-> "recompute", recompute |-> "commit"]
Following ==
  [load |-> "lock", lock |-> "insert", insert |-> "recompute", recompute |-> "commit"]

Load(r) ==
  /\ req[r] = Idle
  /\ \E a \in Appts, s \in Stars :
       req' = [req EXCEPT ![r] = [stage |-> Following["load"], appt |-> a, stars |-> s]]
  /\ UNCHANGED <<reviews, board, locks, job, drifts, crashes>>

LockBarber(r) ==
  /\ req[r].stage = "lock"
  /\ Blockers(r) = {}
  /\ locks' = Taking(r, BarberOf[req[r].appt], "update")
  /\ req' = [req EXCEPT ![r].stage = Following["lock"]]
  /\ UNCHANGED <<reviews, board, job, drifts, crashes>>

(* A second review of the appointment violates the unique key.             *)
InsertReview(r) ==
  /\ req[r].stage = "insert"
  /\ Blockers(r) = {}
  /\ IF req[r].appt \in DOMAIN reviews
     THEN /\ req' = [req EXCEPT ![r] = Idle]
          /\ locks' = Releasing(r)
     ELSE /\ req' = [req EXCEPT ![r].stage = Following["insert"]]
          /\ locks' = Taking(r, BarberOf[req[r].appt], "keyshare")
  /\ UNCHANGED <<reviews, board, job, drifts, crashes>>

(* Takes the lock (again), then reads the committed reviews and its own.   *)
Recompute(r) ==
  /\ req[r].stage = "recompute"
  /\ Blockers(r) = {}
  /\ LET q == req[r]
         b == BarberOf[q.appt]
     IN /\ locks' = Taking(r, b, "update")
        /\ req' = [req EXCEPT ![r] =
                     [stage |-> Following["recompute"], appt |-> q.appt, stars |-> q.stars,
                      summary |-> Summary(b, With(reviews, q.appt, q.stars))]]
  /\ UNCHANGED <<reviews, board, job, drifts, crashes>>

CommitReview(r) ==
  /\ req[r].stage = "commit"
  /\ reviews' = With(reviews, req[r].appt, req[r].stars)
  /\ board' = [board EXCEPT ![BarberOf[req[r].appt]] = req[r].summary]
  /\ locks' = Releasing(r)
  /\ req' = [req EXCEPT ![r] = Idle]
  /\ UNCHANGED <<job, drifts, crashes>>

(* The process dies or the database ends the transaction: rolled back.     *)
Abandon(r) ==
  /\ req[r] # Idle
  /\ req' = [req EXCEPT ![r] = Idle]
  /\ locks' = Releasing(r)
  /\ UNCHANGED <<reviews, board, job, drifts, crashes>>

-----------------------------------------------------------------------------
(* recompute_barber_ratings: one transaction over all barbers *)

(* SELECT id FROM barbers has no ORDER BY.                                 *)
StartJob(w) ==
  /\ job[w] = Idle
  /\ \E order \in [1 .. Cardinality(Barbers) -> Barbers] :
       /\ {order[i] : i \in DOMAIN order} = Barbers
       /\ job' = [job EXCEPT ![w] = [stage |-> "sweep", todo |-> order, staged |-> <<>>]]
  /\ UNCHANGED <<reviews, board, locks, req, drifts, crashes>>

(* _recompute_one: lock, read, assign; nothing is written before commit.   *)
RecomputeOne(w) ==
  /\ job[w].stage = "sweep" /\ job[w].todo # <<>>
  /\ Blockers(w) = {}
  /\ LET b == Head(job[w].todo)
     IN /\ locks' = Taking(w, b, "update")
        /\ job' = [job EXCEPT ![w] =
                     [stage |-> "sweep", todo |-> Tail(@.todo),
                      staged |-> [x \in DOMAIN @.staged \cup {b} |->
                                    IF x = b THEN Summary(b, reviews) ELSE @.staged[x]]]]
  /\ UNCHANGED <<reviews, board, req, drifts, crashes>>

M_CommitJobWithoutFlush(w) ==
  /\ job[w].stage = "sweep" /\ job[w].todo = <<>>
  /\ locks' = Releasing(w)
  /\ job' = [job EXCEPT ![w] = Idle]
  /\ UNCHANGED <<reviews, board, req, drifts, crashes>>
CommitJob(w) ==
  /\ job[w].stage = "sweep" /\ job[w].todo = <<>>
  /\ board' = [b \in Barbers |-> job[w].staged[b]]
  /\ locks' = Releasing(w)
  /\ job' = [job EXCEPT ![w] = Idle]
  /\ UNCHANGED <<reviews, req, drifts, crashes>>

RollBackJob(w) ==
  /\ job' = [job EXCEPT ![w] = Idle]
  /\ locks' = Releasing(w)
  /\ UNCHANGED <<reviews, board, req, drifts>>

CrashJob(w) ==
  /\ job[w] # Idle /\ crashes < MaxCrashes
  /\ crashes' = crashes + 1
  /\ RollBackJob(w)

(* The database notices a cycle of waits and ends one of its transactions. *)
DeadlockVictim(w) ==
  /\ OnCycle(w, WaitsFor)
  /\ RollBackJob(w)
  /\ UNCHANGED crashes

(* "A bug, a manual DELETE, or a restore from backup."                     *)
Drift ==
  /\ drifts < MaxDrifts
  /\ \E a \in DOMAIN reviews : reviews' = [x \in DOMAIN reviews \ {a} |-> reviews[x]]
  /\ drifts' = drifts + 1
  /\ UNCHANGED <<board, locks, req, job, crashes>>

-----------------------------------------------------------------------------
Init ==
  /\ reviews = <<>>
  /\ board = [b \in Barbers |-> [rating |-> 0, count |-> 0]]
  /\ locks = [b \in Barbers |-> {}]
  /\ req = [r \in Reviewers |-> Idle]
  /\ job = [w \in Workers |-> Idle]
  /\ drifts = 0 /\ crashes = 0

Review(r) ==
  LockBarber(r) \/ InsertReview(r) \/ Recompute(r) \/ CommitReview(r)

Next ==
  \/ \E r \in Reviewers : Load(r) \/ Review(r) \/ Abandon(r)
  \/ \E w \in Workers :
       StartJob(w) \/ RecomputeOne(w) \/ CommitJob(w) \/ CrashJob(w) \/ DeadlockVictim(w)
  \/ Drift

Spec == Init /\ [][Next]_vars

(* A request that was started runs on; the job comes round every night and *)
(* runs on.  Whoever waits for a row stands in a queue for that row, so a  *)
(* lock that becomes free again and again is obtained -- for the job, each *)
(* of the locks of its sweep.                                              *)
Fairness ==
  /\ \A r \in Reviewers : SF_vars(LockBarber(r)) /\ WF_vars(Review(r))
  /\ \A w \in Workers :
       /\ WF_vars(StartJob(w)) /\ WF_vars(CommitJob(w)) /\ WF_vars(DeadlockVictim(w))
       /\ \A n \in 1 .. Cardinality(Barbers) :
            SF_vars(RecomputeOne(w) /\ Len(job[w].todo) = n)

FairSpec == Spec /\ Fairness

-----------------------------------------------------------------------------
(* Properties *)

Honest(b) == board[b] = Summary(b, reviews)

TypeOK ==
  /\ DOMAIN reviews \subseteq Appts /\ \A a \in DOMAIN reviews : reviews[a] \in Stars
  /\ \A b \in Barbers : board[b].count \in 0 .. Cardinality(Appts) /\ board[b].rating \in 0 .. 500
  /\ \A b \in Barbers : locks[b] \subseteq [txn : Txns, mode : {"update", "keyshare"}]
  /\ \A r \in Reviewers : req[r] # Idle => req[r].appt \in Appts
  /\ \A w \in Workers : job[w] # Idle => DOMAIN job[w].staged \subseteq Barbers
  /\ drifts \in 0 .. MaxDrifts /\ crashes \in 0 .. MaxCrashes

(* As long as nobody touches the tables behind the program's back, the     *)
(* committed rating and count of every barber are those of the committed   *)
(* reviews, although reviewers and the nightly job write them at once.     *)
RatingAgreesWithReviews == drifts = 0 => \A b \in Barbers : Honest(b)

(* Writers of reviews take the barber's row before they touch the reviews, *)
(* so none of them is ever part of a cycle of waits and killed for it,     *)
(* whatever executions of the nightly job do to each other.                *)
ReviewersNeverDeadlock == \A r \in Reviewers : ~ OnCycle(r, WaitsFor)

(* Every request to review is answered: nobody waits for a lock for ever.  *)
EveryReviewIsAnswered == \A r \in Reviewers : (req[r] # Idle) ~> (req[r] = Idle)

(* Whatever made a rating wrong, the nightly job makes it right again.     *)
DriftIsRepaired == \A b \in Barbers : ~ Honest(b) ~> Honest(b)
=============================================================================
