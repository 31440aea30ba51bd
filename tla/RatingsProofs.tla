---------------------------- MODULE RatingsProofs ----------------------------
(***************************************************************************)
(* Theorems about Ratings, for any number of barbers, appointments,        *)
(* reviewers and executions of the nightly job.  That what is written is   *)
(* the score of the reviews committed with it needs nothing of the         *)
(* arithmetic of Score; that it is a rating at all, which comes last,      *)
(* bounds the mean of a set of reviews.                                    *)
(***************************************************************************)
EXTENDS Ratings, FiniteSetTheorems, NaturalsInduction, WellFoundedInduction, TLAPS

(* What a request and an execution of the job have in hand.                *)
Reviewing(q) ==
  \/ q = Idle
  \/ q \in [stage : {"lock", "insert", "recompute"}, appt : Appts, stars : Stars]
  \/ q.stage = "commit" /\ q.appt \in Appts /\ q.stars \in Stars

Sweeping(j) ==
  /\ j.stage = "sweep"
  /\ j.todo \in Seq(Barbers)
  /\ DOMAIN j.staged \subseteq Barbers
  /\ \A b \in Barbers : b \in DOMAIN j.staged \/ \E i \in DOMAIN j.todo : j.todo[i] = b

Shapes ==
  /\ DOMAIN board = Barbers /\ DOMAIN locks = Barbers
  /\ DOMAIN req = Reviewers /\ DOMAIN job = Workers
  /\ DOMAIN reviews \subseteq Appts
  /\ \A r \in Reviewers : Reviewing(req[r])
  /\ \A w \in Workers : job[w] = Idle \/ Sweeping(job[w])
  /\ drifts \in Nat

(* The transactions that must have the row of barber b, and in which mode. *)
Update(t) == [txn |-> t, mode |-> "update"]
PastLock(r) == req[r].stage \in {"insert", "recompute", "commit"}

(* The row of a barber belongs to one transaction at a time: to one that   *)
(* is past its SELECT FOR UPDATE of that row, and every such one has it.   *)
OneHolder == \A b \in Barbers : \A l, m \in locks[b] : l.txn = m.txn

Held ==
  /\ \A r \in Reviewers : PastLock(r) => Update(r) \in locks[BarberOf[req[r].appt]]
  /\ \A w \in Workers : job[w] # Idle =>
       \A b \in DOMAIN job[w].staged : Update(w) \in locks[b]

HoldersArePastLock ==
  \A b \in Barbers : \A l \in locks[b] : \A r \in Reviewers :
    l.txn = r => PastLock(r) /\ BarberOf[req[r].appt] = b

Locking == OneHolder /\ Held /\ HoldersArePastLock

(* What was computed under a lock is still right when it is written.       *)
StagedIsCurrent ==
  /\ \A r \in Reviewers : req[r].stage = "commit" =>
       req[r].summary = Summary(BarberOf[req[r].appt], With(reviews, req[r].appt, req[r].stars))
  /\ \A w \in Workers : job[w] # Idle =>
       \A b \in DOMAIN job[w].staged : job[w].staged[b] = Summary(b, reviews)

Current == drifts = 0 => StagedIsCurrent /\ \A b \in Barbers : Honest(b)

IInv == Shapes /\ Locking /\ Current

-----------------------------------------------------------------------------
(* A review of another barber's appointment leaves the summary alone.      *)
LEMMA OtherBarber ==
  ASSUME NEW given, NEW a, NEW stars, NEW b, BarberOf[a] # b
  PROVE  Summary(b, With(given, a, stars)) = Summary(b, given)
<1>1. About(b, With(given, a, stars)) = About(b, given)
  BY DEF About, With
<1> QED
  BY <1>1 DEF Summary

(* So it does when it is added besides one of this barber.                 *)
LEMMA OtherReviewer ==
  ASSUME NEW given, NEW a, NEW s, NEW c, NEW t, NEW b, BarberOf[a] # b
  PROVE  Summary(b, With(With(given, a, s), c, t)) = Summary(b, With(given, c, t))
<1>1. About(b, With(With(given, a, s), c, t)) = About(b, With(given, c, t))
  BY DEF About, With
<1> QED
  BY <1>1 DEF Summary

-----------------------------------------------------------------------------
LEMMA ShapesBeginning == RatingsAssumption /\ Init => Shapes
BY DEF RatingsAssumption, Init, Shapes, Reviewing, Idle

LEMMA ShapesStep == RatingsAssumption /\ Shapes /\ [Next]_vars => Shapes'
<1> SUFFICES ASSUME RatingsAssumption, Shapes, [Next]_vars PROVE Shapes'
  OBVIOUS
<1> USE DEF Shapes
<1>1. ASSUME NEW r \in Reviewers, NEW q, Reviewing(q),
             req' = [req EXCEPT ![r] = q], DOMAIN locks' = Barbers, UNCHANGED <<job, drifts>>,
             DOMAIN reviews' \subseteq Appts, DOMAIN board' = Barbers
      PROVE  Shapes'
  <2>1. \A x \in Reviewers : Reviewing(req'[x])
    BY <1>1
  <2> QED
    BY <1>1, <2>1
<1>2. ASSUME NEW w \in Workers, NEW j, j = Idle \/ Sweeping(j),
             job' = [job EXCEPT ![w] = j], DOMAIN locks' = Barbers, UNCHANGED <<req, drifts, reviews>>,
             DOMAIN board' = Barbers
      PROVE  Shapes'
  <2>1. \A x \in Workers : job'[x] = Idle \/ Sweeping(job'[x])
    BY <1>2
  <2> QED
    BY <1>2, <2>1
<1>3. \A t : DOMAIN Releasing(t) = Barbers
  BY DEF Releasing
<1>4. \A t, b, mode : DOMAIN Taking(t, b, mode) = Barbers
  BY DEF Taking
<1>5. \A r \in Reviewers : Reviewing(req[r])
  OBVIOUS
<1>6. Reviewing(Idle)
  BY DEF Reviewing
<1>7. ASSUME NEW r \in Reviewers, Load(r) PROVE Shapes'
  <2>1. PICK a \in Appts, s \in Stars :
          req' = [req EXCEPT ![r] = [stage |-> "lock", appt |-> a, stars |-> s]]
    BY <1>7 DEF Load, Following
  <2>2. Reviewing([stage |-> "lock", appt |-> a, stars |-> s])
    BY DEF Reviewing
  <2> QED
    BY <1>1, <1>7, <2>1, <2>2 DEF Load
<1>8. ASSUME NEW r \in Reviewers, LockBarber(r) PROVE Shapes'
  <2>1. Reviewing([req[r] EXCEPT !.stage = "insert"])
    BY <1>5, <1>8 DEF LockBarber, Reviewing, Idle
  <2> QED
    BY <1>1, <1>4, <1>8, <2>1 DEF LockBarber, Following
<1>9. ASSUME NEW r \in Reviewers, InsertReview(r) PROVE Shapes'
  <2>1. Reviewing([req[r] EXCEPT !.stage = "recompute"])
    BY <1>5, <1>9 DEF InsertReview, Reviewing, Idle
  <2> QED
    BY <1>1, <1>3, <1>4, <1>6, <1>9, <2>1 DEF InsertReview, Following
<1>10. ASSUME NEW r \in Reviewers, Recompute(r) PROVE Shapes'
  <2> DEFINE q == [stage |-> "commit", appt |-> req[r].appt, stars |-> req[r].stars,
                   summary |-> Summary(BarberOf[req[r].appt],
                                       With(reviews, req[r].appt, req[r].stars))]
  <2>1. req[r].appt \in Appts /\ req[r].stars \in Stars
    BY <1>5, <1>10 DEF Recompute, Reviewing, Idle
  <2>2. Reviewing(q)
    BY <2>1 DEF Reviewing
  <2>3. req' = [req EXCEPT ![r] = q]
    BY <1>10 DEF Recompute, Following
  <2> QED
    BY <1>1, <1>4, <1>10, <2>2, <2>3 DEF Recompute
<1>11. ASSUME NEW r \in Reviewers, CommitReview(r) PROVE Shapes'
  <2>1. req[r].appt \in Appts
    BY <1>5, <1>11 DEF CommitReview, Reviewing, Idle
  <2>2. DOMAIN reviews' \subseteq Appts
    BY <1>11, <2>1 DEF CommitReview, With
  <2> QED
    BY <1>1, <1>3, <1>6, <1>11, <2>2 DEF CommitReview
<1>12. ASSUME NEW r \in Reviewers, Abandon(r) PROVE Shapes'
  BY <1>1, <1>3, <1>6, <1>12 DEF Abandon
<1>13. ASSUME NEW w \in Workers, StartJob(w) PROVE Shapes'
  <2>1. PICK order \in [1 .. Cardinality(Barbers) -> Barbers] :
          /\ {order[i] : i \in DOMAIN order} = Barbers
          /\ job' = [job EXCEPT ![w] = [stage |-> "sweep", todo |-> order, staged |-> <<>>]]
    BY <1>13 DEF StartJob
  <2>2. Cardinality(Barbers) \in Nat
    BY FS_CardinalityType DEF RatingsAssumption
  <2>3. order \in Seq(Barbers)
    BY <2>2
  <2>4. DOMAIN <<>> = {}
    OBVIOUS
  <2>5. Sweeping([stage |-> "sweep", todo |-> order, staged |-> <<>>])
    <3>1. \A b \in Barbers : \E i \in DOMAIN order : order[i] = b
      BY <2>1
    <3> QED
      BY <2>3, <2>4, <3>1 DEF Sweeping
  <2> QED
    BY <1>2, <1>13, <2>1, <2>5 DEF StartJob
<1>14. ASSUME NEW w \in Workers, RecomputeOne(w) PROVE Shapes'
  <2> DEFINE b == Head(job[w].todo)
             j == [stage |-> "sweep", todo |-> Tail(job[w].todo),
                   staged |-> [x \in DOMAIN job[w].staged \cup {b} |->
                                 IF x = b THEN Summary(b, reviews) ELSE job[w].staged[x]]]
  <2>1. Sweeping(job[w]) /\ job[w].todo # <<>>
    BY <1>14 DEF RecomputeOne, Idle
  <2>2. Sweeping(j)
    <3>1. Tail(job[w].todo) \in Seq(Barbers) /\ b \in Barbers
      BY <2>1 DEF Sweeping
    <3>2. \A i \in DOMAIN job[w].todo : i = 1 \/ (i - 1 \in DOMAIN Tail(job[w].todo)
                                                  /\ Tail(job[w].todo)[i - 1] = job[w].todo[i])
      BY <2>1 DEF Sweeping
    <3>3. \A i \in DOMAIN job[w].todo :
            job[w].todo[i] = b \/ \E k \in DOMAIN Tail(job[w].todo) : Tail(job[w].todo)[k] = job[w].todo[i]
      <4>1. job[w].todo[1] = b
        BY <2>1 DEF Sweeping
      <4> QED
        BY <3>2, <4>1
    <3>4. DOMAIN j.staged = DOMAIN job[w].staged \cup {b}
      OBVIOUS
    <3> HIDE DEF b
    <3>5. \A x \in Barbers : x \in DOMAIN j.staged \/ \E k \in DOMAIN j.todo : j.todo[k] = x
      BY <2>1, <3>3, <3>4 DEF Sweeping
    <3> QED
      BY <2>1, <3>1, <3>4, <3>5 DEF Sweeping
  <2>3. job' = [job EXCEPT ![w] = j]
    BY <1>14 DEF RecomputeOne
  <2> QED
    BY <1>2, <1>4, <1>14, <2>2, <2>3 DEF RecomputeOne
<1>15. ASSUME NEW w \in Workers, CommitJob(w) PROVE Shapes'
  BY <1>2, <1>3, <1>15 DEF CommitJob
<1>16. ASSUME NEW w \in Workers, RollBackJob(w) PROVE Shapes'
  BY <1>2, <1>3, <1>16 DEF RollBackJob
<1>17. CASE Drift
  BY <1>17 DEF Drift
<1>18. CASE UNCHANGED vars
  BY <1>18 DEF vars
<1> QED
  BY <1>7, <1>8, <1>9, <1>10, <1>11, <1>12, <1>13, <1>14, <1>15, <1>16, <1>17, <1>18
     DEF Next, Review, CrashJob, DeadlockVictim

-----------------------------------------------------------------------------
(* A transaction that takes a row nobody else has is its one holder, and   *)
(* one that ends leaves the rows of the others to them.                    *)
LEMMA TakingARow ==
  ASSUME Shapes, OneHolder, NEW t, NEW b \in Barbers, NEW mode,
         \A l \in locks[b] : l.txn = t, locks' = Taking(t, b, mode)
  PROVE  /\ locks'[b] = locks[b] \cup {[txn |-> t, mode |-> mode]}
         /\ \A c \in Barbers \ {b} : locks'[c] = locks[c]
         /\ OneHolder'
<1> DEFINE new == [txn |-> t, mode |-> mode]
<1>2. /\ locks'[b] = locks[b] \cup {new}
      /\ \A c \in Barbers \ {b} : locks'[c] = locks[c]
  BY DEF Taking, Shapes
<1>3. new.txn = t
  OBVIOUS
<1> HIDE DEF new
<1>4. ASSUME NEW c \in Barbers, NEW l \in locks'[c], NEW m \in locks'[c]
      PROVE  l.txn = m.txn
  <2>1. CASE c = b
    BY <1>2, <1>3, <2>1
  <2>2. CASE c # b
    BY <1>2, <2>2 DEF OneHolder
  <2> QED
    BY <2>1, <2>2
<1> QED
  BY <1>2, <1>4 DEF new, OneHolder

LEMMA ReleasingRows ==
  ASSUME NEW t, NEW b \in Barbers
  PROVE  /\ Releasing(t)[b] \subseteq locks[b]
         /\ \A l \in locks[b] : l \in Releasing(t)[b] <=> l.txn # t
         /\ \A u : u # t /\ Update(u) \in locks[b] => Update(u) \in Releasing(t)[b]
BY DEF Releasing, Update

(* A transaction that ends, one way or another.                            *)
LEMMA ReviewerEnds ==
  ASSUME RatingsAssumption, Shapes, Locking, NEW r \in Reviewers,
         req' = [req EXCEPT ![r] = Idle], locks' = Releasing(r), job' = job
  PROVE  Locking'
<1>1. req'[r] = Idle /\ \A x \in Reviewers \ {r} : req'[x] = req[x]
  BY DEF Shapes
<1>2. ~ PastLock(r)' /\ \A x \in Reviewers \ {r} : PastLock(x)' = PastLock(x)
  BY <1>1 DEF PastLock, Idle
<1>3. OneHolder'
  BY ReleasingRows DEF Locking, OneHolder
<1>4. ASSUME NEW x \in Reviewers, PastLock(x)' PROVE Update(x) \in locks'[BarberOf[req'[x].appt]]
  <2>1. x # r /\ PastLock(x) /\ req'[x] = req[x]
    BY <1>1, <1>2, <1>4
  <2>2. Update(x) \in locks[BarberOf[req[x].appt]] /\ BarberOf[req[x].appt] \in Barbers
    BY <2>1 DEF Locking, Held, Shapes, RatingsAssumption, Reviewing, Idle, PastLock
  <2> QED
    BY <2>1, <2>2, ReleasingRows
<1>5. ASSUME NEW w \in Workers, job[w] # Idle, NEW b \in DOMAIN job[w].staged
      PROVE  Update(w) \in locks'[b]
  <2>1. w # r /\ b \in Barbers /\ Update(w) \in locks[b]
    BY <1>5 DEF Locking, Held, Shapes, RatingsAssumption, Sweeping
  <2> QED
    BY <2>1, ReleasingRows
<1>6. HoldersArePastLock'
  BY <1>1, <1>2, ReleasingRows DEF Locking, HoldersArePastLock
<1> QED
  BY <1>3, <1>4, <1>5, <1>6 DEF Locking, Held, Update

LEMMA JobEnds ==
  ASSUME RatingsAssumption, Shapes, Locking, NEW w \in Workers,
         job' = [job EXCEPT ![w] = Idle], locks' = Releasing(w), req' = req
  PROVE  Locking'
<1>1. job'[w] = Idle /\ \A x \in Workers \ {w} : job'[x] = job[x]
  BY DEF Shapes
<1>2. OneHolder'
  BY ReleasingRows DEF Locking, OneHolder
<1>3. ASSUME NEW x \in Reviewers, PastLock(x) PROVE Update(x) \in locks'[BarberOf[req[x].appt]]
  <2>1. x # w /\ Update(x) \in locks[BarberOf[req[x].appt]] /\ BarberOf[req[x].appt] \in Barbers
    BY <1>3 DEF Locking, Held, Shapes, RatingsAssumption, Reviewing, Idle, PastLock
  <2> QED
    BY <2>1, ReleasingRows
<1>4. ASSUME NEW x \in Workers, job'[x] # Idle, NEW b \in DOMAIN job'[x].staged
      PROVE  Update(x) \in locks'[b]
  <2>1. x # w /\ job'[x] = job[x] /\ b \in Barbers /\ Update(x) \in locks[b]
    BY <1>1, <1>4 DEF Locking, Held, Shapes, Sweeping
  <2> QED
    BY <2>1, ReleasingRows
<1>5. HoldersArePastLock'
  BY ReleasingRows DEF Locking, HoldersArePastLock, PastLock
<1> QED
  BY <1>2, <1>3, <1>4, <1>5 DEF Locking, Held, PastLock, Update

(* A reviewer goes on with the row, or from SELECT FOR UPDATE to having it.*)
LEMMA ReviewerProceeds ==
  ASSUME RatingsAssumption, Shapes, Locking, NEW r \in Reviewers, NEW q, NEW mode,
         NEW b \in Barbers, b = BarberOf[q.appt],
         q.stage \in {"insert", "recompute", "commit"}, q.appt = req[r].appt, q.appt \in Appts,
         req' = [req EXCEPT ![r] = q], job' = job,
         locks' = Taking(r, b, mode),
         KeepingOut(r, b, mode) = {},
         mode = "update" \/ PastLock(r)
  PROVE  Locking'
<1>1. b \in Barbers
  OBVIOUS
<1>2. req'[r] = q /\ \A x \in Reviewers \ {r} : req'[x] = req[x]
  BY DEF Shapes
<1>3. PastLock(r)' /\ \A x \in Reviewers \ {r} : PastLock(x)' = PastLock(x)
  BY <1>2 DEF PastLock
<1>4. mode = "update" \/ \A l \in locks[b] : l.txn = r
  <2>1. PastLock(r) => Update(r) \in locks[b]
    BY DEF Locking, Held
  <2> QED
    BY <1>1, <2>1 DEF Locking, OneHolder, Update
<1>5. /\ locks'[b] = locks[b] \cup {[txn |-> r, mode |-> mode]}
      /\ \A c \in Barbers \ {b} : locks'[c] = locks[c]
      /\ OneHolder'
  <2>1. OneHolder
    BY DEF Locking
  <2>2. \A l \in locks[b] : l.txn = r
    BY <1>4 DEF KeepingOut
  <2>3. Shapes /\ locks' = Taking(r, b, mode) /\ b \in Barbers
    OBVIOUS
  <2> QED
    BY ONLY <2>1, <2>2, <2>3, TakingARow
<1>6. \A c \in Barbers : locks[c] \subseteq locks'[c]
  BY <1>5
<1>7. Update(r) \in locks'[b]
  BY <1>5 DEF Locking, Held, Update
<1>8. ASSUME NEW x \in Reviewers, PastLock(x)' PROVE Update(x) \in locks'[BarberOf[req'[x].appt]]
  <2>1. CASE x = r
    BY <1>2, <1>7, <2>1
  <2>2. CASE x # r
    <3>1. PastLock(x) /\ req'[x] = req[x]
      BY <1>2, <1>3, <1>8, <2>2
    <3>2. Update(x) \in locks[BarberOf[req[x].appt]] /\ BarberOf[req[x].appt] \in Barbers
      BY <3>1 DEF Locking, Held, Shapes, RatingsAssumption, Reviewing, Idle, PastLock
    <3> QED
      BY <1>6, <3>1, <3>2
  <2> QED
    BY <2>1, <2>2
<1>9. ASSUME NEW w \in Workers, job[w] # Idle, NEW c \in DOMAIN job[w].staged
      PROVE  Update(w) \in locks'[c]
  BY <1>6, <1>9 DEF Locking, Held, Shapes, Sweeping
<1>10. ASSUME NEW c \in Barbers, NEW l \in locks'[c], NEW x \in Reviewers, l.txn = x
       PROVE  PastLock(x)' /\ BarberOf[req'[x].appt] = c
  <2>1. CASE l \in locks[c]
    <3>1. PastLock(x) /\ BarberOf[req[x].appt] = c
      BY <1>10, <2>1 DEF Locking, HoldersArePastLock
    <3> QED
      BY <1>2, <1>3, <3>1
  <2>2. CASE l \notin locks[c]
    <3>1. c = b /\ l = [txn |-> r, mode |-> mode]
      BY <1>5, <2>2
    <3> QED
      BY <1>2, <1>3, <1>10, <3>1
  <2> QED
    BY <2>1, <2>2
<1> QED
  BY <1>5, <1>8, <1>9, <1>10 DEF Locking, Held, HoldersArePastLock, Update

(* The nightly job takes one more row and stages what it read under it.    *)
LEMMA JobProceeds ==
  ASSUME RatingsAssumption, Shapes, Locking, NEW w \in Workers, RecomputeOne(w)
  PROVE  Locking'
<1> DEFINE b == Head(job[w].todo)
<1>1. Sweeping(job[w]) /\ b \in Barbers
  BY DEF RecomputeOne, Shapes, Sweeping, Idle
<1>2. /\ \A x \in Workers \ {w} : job'[x] = job[x]
      /\ DOMAIN job'[w].staged = DOMAIN job[w].staged \cup {b}
      /\ req' = req /\ locks' = Taking(w, b, "update")
  BY DEF RecomputeOne, Shapes
<1>3. KeepingOut(w, b, "update") = {}
  BY <1>1 DEF RecomputeOne, Blockers, Shapes, Sweeping, RatingsAssumption
<1> HIDE DEF b
<1>4. \A l \in locks[b] : l.txn = w
  BY <1>3 DEF KeepingOut
<1>5. /\ locks'[b] = locks[b] \cup {Update(w)}
      /\ \A c \in Barbers \ {b} : locks'[c] = locks[c]
      /\ OneHolder'
  <2>1. OneHolder
    BY DEF Locking
  <2> QED
    BY <1>1, <1>2, <1>4, <2>1, TakingARow DEF Update
<1>6. \A c \in Barbers : locks[c] \subseteq locks'[c]
  BY <1>5
<1>7. ASSUME NEW x \in Reviewers, PastLock(x) PROVE Update(x) \in locks'[BarberOf[req[x].appt]]
  BY <1>6, <1>7 DEF Locking, Held, Shapes, RatingsAssumption, Reviewing, Idle, PastLock
<1>8. ASSUME NEW x \in Workers, job'[x] # Idle, NEW c \in DOMAIN job'[x].staged
      PROVE  Update(x) \in locks'[c]
  <2>1. CASE x = w /\ c = b
    BY <1>5, <2>1
  <2>2. CASE ~ (x = w /\ c = b)
    <3>1. job[x] # Idle /\ c \in DOMAIN job[x].staged
      BY <1>2, <1>8, <2>2 DEF RecomputeOne, Idle
    <3>2. c \in Barbers /\ Update(x) \in locks[c]
      BY <3>1 DEF Locking, Held, Shapes, Sweeping
    <3> QED
      BY <1>6, <3>2
  <2> QED
    BY <2>1, <2>2
<1>9. ASSUME NEW c \in Barbers, NEW l \in locks'[c], NEW x \in Reviewers, l.txn = x
      PROVE  PastLock(x) /\ BarberOf[req[x].appt] = c
  <2>1. l \in locks[c]
    BY <1>5, <1>9 DEF Update, RatingsAssumption
  <2> QED
    BY <1>9, <2>1 DEF Locking, HoldersArePastLock
<1> QED
  BY <1>2, <1>5, <1>7, <1>8, <1>9 DEF Locking, Held, HoldersArePastLock, PastLock, Update

(* Who has which row, after every step.                                    *)
LEMMA LockingStep ==
  ASSUME RatingsAssumption, Shapes, Locking, [Next]_vars PROVE Locking'
<1>1. ASSUME NEW r \in Reviewers, Load(r) PROVE Locking'
  <2>1. PICK a \in Appts, s \in Stars :
          req' = [req EXCEPT ![r] = [stage |-> "lock", appt |-> a, stars |-> s]]
    BY <1>1 DEF Load, Following
  <2>2. ~ PastLock(r) /\ ~ PastLock(r)'
    BY <1>1, <2>1 DEF Load, PastLock, Idle, Shapes
  <2>3. \A x \in Reviewers \ {r} : req'[x] = req[x]
    BY <2>1 DEF Shapes
  <2>4. locks' = locks /\ job' = job
    BY <1>1 DEF Load
  <2> QED
    BY <2>2, <2>3, <2>4 DEF Locking, OneHolder, Held, HoldersArePastLock, PastLock, Update
<1>2. ASSUME NEW r \in Reviewers, req[r] # Idle
      PROVE  req[r].appt \in Appts /\ BarberOf[req[r].appt] \in Barbers
  BY <1>2 DEF Shapes, Reviewing, RatingsAssumption
<1>3. ASSUME NEW r \in Reviewers, LockBarber(r) PROVE Locking'
  <2> DEFINE q == [req[r] EXCEPT !.stage = "insert"]
             b == BarberOf[req[r].appt]
  <2>1. req[r].appt \in Appts /\ b \in Barbers
    BY <1>2, <1>3 DEF LockBarber, Idle
  <2>2. q.stage = "insert" /\ q.appt = req[r].appt
    BY <1>3 DEF LockBarber, Shapes, Reviewing, Idle
  <2>3. KeepingOut(r, b, "update") = {}
    BY <1>3 DEF LockBarber, Blockers
  <2>4. req' = [req EXCEPT ![r] = q] /\ job' = job /\ locks' = Taking(r, b, "update")
    BY <1>3 DEF LockBarber, Following
  <2> HIDE DEF q, b
  <2>5. b = BarberOf[q.appt]
    BY <2>2 DEF b
  <2> QED
    BY <2>1, <2>2, <2>3, <2>4, <2>5, ReviewerProceeds
<1>4. ASSUME NEW r \in Reviewers, InsertReview(r) PROVE Locking'
  <2> DEFINE q == [req[r] EXCEPT !.stage = "recompute"]
             b == BarberOf[req[r].appt]
  <2>1. req[r].appt \in Appts /\ b \in Barbers
    BY <1>2, <1>4 DEF InsertReview, Idle
  <2>2. q.stage = "recompute" /\ q.appt = req[r].appt
    BY <1>4 DEF InsertReview, Shapes, Reviewing, Idle
  <2>3. KeepingOut(r, b, "keyshare") = {} /\ PastLock(r)
    BY <1>4 DEF InsertReview, Blockers, PastLock
  <2>4. CASE req[r].appt \in DOMAIN reviews
    BY <1>4, <2>4, ReviewerEnds DEF InsertReview
  <2>5. CASE req[r].appt \notin DOMAIN reviews
    <3>1. req' = [req EXCEPT ![r] = q] /\ job' = job /\ locks' = Taking(r, b, "keyshare")
      BY <1>4, <2>5 DEF InsertReview, Following
    <3> HIDE DEF q, b
    <3>2. b = BarberOf[q.appt]
      BY <2>2 DEF b
    <3> QED
      BY <2>1, <2>2, <2>3, <3>1, <3>2, ReviewerProceeds
  <2> QED
    BY <2>4, <2>5
<1>5. ASSUME NEW r \in Reviewers, Recompute(r) PROVE Locking'
  <2> DEFINE b == BarberOf[req[r].appt]
             q == [stage |-> "commit", appt |-> req[r].appt, stars |-> req[r].stars,
                   summary |-> Summary(b, With(reviews, req[r].appt, req[r].stars))]
  <2>1. req[r].appt \in Appts /\ b \in Barbers
    BY <1>2, <1>5 DEF Recompute, Idle
  <2>2. q.stage = "commit" /\ q.appt = req[r].appt
    OBVIOUS
  <2>3. KeepingOut(r, b, "update") = {}
    BY <1>5 DEF Recompute, Blockers
  <2>4. req' = [req EXCEPT ![r] = q] /\ job' = job /\ locks' = Taking(r, b, "update")
    BY <1>5 DEF Recompute, Following
  <2> HIDE DEF q, b
  <2>5. b = BarberOf[q.appt]
    BY <2>2 DEF b
  <2> QED
    BY <2>1, <2>2, <2>3, <2>4, <2>5, ReviewerProceeds
<1>6. ASSUME NEW r \in Reviewers, CommitReview(r) \/ Abandon(r) PROVE Locking'
  BY <1>6, ReviewerEnds DEF CommitReview, Abandon
<1>7. ASSUME NEW w \in Workers, StartJob(w) PROVE Locking'
  <2>1. DOMAIN job'[w].staged = {} /\ \A x \in Workers \ {w} : job'[x] = job[x]
    BY <1>7 DEF StartJob, Shapes
  <2>2. req' = req /\ locks' = locks
    BY <1>7 DEF StartJob
  <2> QED
    BY <2>1, <2>2 DEF Locking, OneHolder, Held, HoldersArePastLock, PastLock, Update
<1>8. ASSUME NEW w \in Workers, RecomputeOne(w) PROVE Locking'
  BY <1>8, JobProceeds
<1>9. ASSUME NEW w \in Workers, CommitJob(w) \/ RollBackJob(w) PROVE Locking'
  BY <1>9, JobEnds DEF CommitJob, RollBackJob
<1>10. CASE Drift \/ UNCHANGED vars
  BY <1>10 DEF Drift, vars, Locking, OneHolder, Held, HoldersArePastLock, PastLock, Update
<1> QED
  BY <1>1, <1>3, <1>4, <1>5, <1>6, <1>7, <1>8, <1>9, <1>10
     DEF Next, Review, CrashJob, DeadlockVictim

-----------------------------------------------------------------------------
LEMMA CurrentBeginning == RatingsAssumption /\ Init => Locking /\ Current
<1> SUFFICES ASSUME RatingsAssumption, Init PROVE Locking /\ Current
  OBVIOUS
<1>1. Locking
  BY DEF Init, Locking, OneHolder, Held, HoldersArePastLock, PastLock, Idle
<1>2. ASSUME NEW b \in Barbers PROVE Honest(b)
  <2>1. DOMAIN About(b, <<>>) = {}
    BY DEF About
  <2>2. Score(About(b, <<>>)) = [rating |-> 0, count |-> 0]
    BY <2>1, FS_EmptySet DEF Score
  <2> QED
    BY <2>2 DEF Init, Honest, Summary
<1>3. StagedIsCurrent
  BY DEF Init, StagedIsCurrent, Idle
<1> QED
  BY <1>1, <1>2, <1>3 DEF Current

(* The row makes the committer of a review the only one whose computation  *)
(* the review could have outdated.                                         *)
LEMMA CommittedReviewIsTheOnlyNews ==
  ASSUME RatingsAssumption, Shapes, Locking, StagedIsCurrent, \A b \in Barbers : Honest(b),
         NEW r \in Reviewers, CommitReview(r)
  PROVE  StagedIsCurrent' /\ \A b \in Barbers : Honest(b)'
<1> DEFINE a == req[r].appt
           s == req[r].stars
           mine == BarberOf[a]
<1>1. req[r].stage = "commit" /\ a \in Appts /\ mine \in Barbers
  BY DEF CommitReview, Shapes, Reviewing, RatingsAssumption, Idle
<1>2. Update(r) \in locks[mine]
  BY <1>1 DEF Locking, Held, PastLock
<1>3. reviews' = With(reviews, a, s)
  BY DEF CommitReview
<1>4. /\ board'[mine] = Summary(mine, With(reviews, a, s))
      /\ \A b \in Barbers \ {mine} : board'[b] = board[b]
  BY <1>1 DEF CommitReview, Shapes, StagedIsCurrent
<1>5. ASSUME NEW b \in Barbers PROVE Honest(b)'
  <2>1. CASE b = mine
    BY <1>3, <1>4, <2>1 DEF Honest
  <2>2. CASE b # mine
    <3>1. Summary(b, With(reviews, a, s)) = Summary(b, reviews)
      BY <2>2, OtherBarber
    <3> QED
      BY <1>3, <1>4, <2>2, <3>1 DEF Honest
  <2> QED
    BY <2>1, <2>2
<1>6. ASSUME NEW x \in Reviewers, req'[x].stage = "commit"
      PROVE  req'[x].summary = Summary(BarberOf[req'[x].appt], With(reviews', req'[x].appt, req'[x].stars))
  <2> DEFINE c == req[x].appt
             t == req[x].stars
             theirs == BarberOf[c]
  <2>1. x # r /\ req'[x] = req[x]
    BY <1>6 DEF CommitReview, Shapes, Idle
  <2>2. c \in Appts /\ theirs \in Barbers
    BY <1>6, <2>1 DEF Shapes, Reviewing, RatingsAssumption, Idle
  <2>3. Update(x) \in locks[theirs]
    BY <1>6, <2>1 DEF Locking, Held, PastLock
  <2>4. mine # theirs
    BY <1>2, <2>1, <2>2, <2>3 DEF Locking, OneHolder, Update
  <2>5. Summary(theirs, With(With(reviews, a, s), c, t)) = Summary(theirs, With(reviews, c, t))
    BY <2>4, OtherReviewer
  <2>6. req[x].summary = Summary(theirs, With(reviews, c, t))
    BY <1>6, <2>1 DEF StagedIsCurrent
  <2> QED
    BY <1>3, <2>1, <2>5, <2>6
<1>7. ASSUME NEW w \in Workers, job'[w] # Idle, NEW b \in DOMAIN job'[w].staged
      PROVE  job'[w].staged[b] = Summary(b, reviews')
  <2>1. job' = job
    BY DEF CommitReview
  <2>2. b \in Barbers /\ Update(w) \in locks[b]
    BY <1>7, <2>1 DEF Shapes, Sweeping, Locking, Held
  <2>3. mine # b
    BY <1>2, <2>2 DEF Locking, OneHolder, Update, RatingsAssumption
  <2>4. Summary(b, With(reviews, a, s)) = Summary(b, reviews)
    BY <2>3, OtherBarber
  <2> QED
    BY <1>3, <1>7, <2>1, <2>4 DEF StagedIsCurrent
<1> QED
  BY <1>5, <1>6, <1>7 DEF StagedIsCurrent

LEMMA CurrentStep ==
  ASSUME RatingsAssumption, Shapes, Locking, Current, [Next]_vars PROVE Current'
<1> SUFFICES ASSUME drifts' = 0 PROVE StagedIsCurrent' /\ \A b \in Barbers : Honest(b)'
  BY DEF Current
<1>1. drifts = 0
  <2>1. drifts' = drifts \/ drifts' = drifts + 1
    BY DEF Next, Load, Review, LockBarber, InsertReview, Recompute, CommitReview, Abandon, StartJob,
           RecomputeOne, CommitJob, CrashJob, DeadlockVictim, RollBackJob, Drift, vars
  <2>2. drifts \in Nat
    BY DEF Shapes
  <2> QED
    BY ONLY <2>1, <2>2, drifts' = 0
<1>2. StagedIsCurrent /\ \A b \in Barbers : Honest(b)
  BY <1>1 DEF Current
<1>3. ~ Drift
  BY <1>1 DEF Drift
<1>4. ASSUME UNCHANGED <<reviews, board, job>>, NEW r \in Reviewers, NEW q,
             req' = [req EXCEPT ![r] = q], q.stage # "commit"
      PROVE  StagedIsCurrent' /\ \A b \in Barbers : Honest(b)'
  BY <1>2, <1>4 DEF StagedIsCurrent, Honest, Shapes
<1>5. ASSUME NEW r \in Reviewers, Load(r) PROVE StagedIsCurrent' /\ \A b \in Barbers : Honest(b)'
  <2>1. PICK a \in Appts, s \in Stars :
          req' = [req EXCEPT ![r] = [stage |-> "lock", appt |-> a, stars |-> s]]
    BY <1>5 DEF Load, Following
  <2> DEFINE q == [stage |-> "lock", appt |-> a, stars |-> s]
  <2>2. q.stage # "commit" /\ req' = [req EXCEPT ![r] = q]
    BY <2>1
  <2> HIDE DEF q
  <2> QED
    BY <1>4, <1>5, <2>2 DEF Load
<1>6. ASSUME NEW r \in Reviewers, LockBarber(r) \/ InsertReview(r) \/ Abandon(r)
      PROVE  StagedIsCurrent' /\ \A b \in Barbers : Honest(b)'
  <2>1. UNCHANGED <<reviews, board, job>>
    BY <1>6 DEF LockBarber, InsertReview, Abandon
  <2>2. CASE req' = [req EXCEPT ![r] = Idle]
    <3>1. Idle.stage # "commit"
      BY DEF Idle
    <3> QED
      BY <1>4, <2>1, <2>2, <3>1
  <2>3. ASSUME NEW stage \in {"insert", "recompute"}, req[r].stage \in {"lock", "insert"},
               req' = [req EXCEPT ![r].stage = stage]
        PROVE  StagedIsCurrent' /\ \A b \in Barbers : Honest(b)'
    <3> DEFINE q == [req[r] EXCEPT !.stage = stage]
    <3>1. q.stage = stage
      BY <2>3 DEF Shapes, Reviewing, Idle
    <3>2. req' = [req EXCEPT ![r] = q]
      BY <2>3
    <3> HIDE DEF q
    <3> QED
      BY <1>4, <2>1, <3>1, <3>2
  <2> QED
    BY <1>6, <2>2, <2>3 DEF LockBarber, InsertReview, Abandon, Following
<1>7. ASSUME NEW r \in Reviewers, Recompute(r) PROVE StagedIsCurrent' /\ \A b \in Barbers : Honest(b)'
  <2> DEFINE q == [stage |-> "commit", appt |-> req[r].appt, stars |-> req[r].stars,
                   summary |-> Summary(BarberOf[req[r].appt],
                                       With(reviews, req[r].appt, req[r].stars))]
  <2>1. req' = [req EXCEPT ![r] = q]
    BY <1>7 DEF Recompute, Following
  <2>2. UNCHANGED <<reviews, board, job>>
    BY <1>7 DEF Recompute
  <2>3. q.summary = Summary(BarberOf[q.appt], With(reviews, q.appt, q.stars))
    OBVIOUS
  <2> HIDE DEF q
  <2> QED
    BY <1>2, <2>1, <2>2, <2>3 DEF StagedIsCurrent, Honest, Shapes
<1>8. ASSUME NEW r \in Reviewers, CommitReview(r)
      PROVE  StagedIsCurrent' /\ \A b \in Barbers : Honest(b)'
  BY <1>2, <1>8, CommittedReviewIsTheOnlyNews
<1>9. ASSUME NEW w \in Workers, StartJob(w) PROVE StagedIsCurrent' /\ \A b \in Barbers : Honest(b)'
  <2>1. DOMAIN job'[w].staged = {} /\ \A x \in Workers \ {w} : job'[x] = job[x]
    BY <1>9 DEF StartJob, Shapes
  <2> QED
    BY <1>2, <1>9, <2>1 DEF StartJob, StagedIsCurrent, Honest
<1>10. ASSUME NEW w \in Workers, RecomputeOne(w)
       PROVE  StagedIsCurrent' /\ \A b \in Barbers : Honest(b)'
  <2>1. /\ \A x \in Workers \ {w} : job'[x] = job[x]
        /\ job[w] # Idle
        /\ \A b \in DOMAIN job'[w].staged :
             \/ job'[w].staged[b] = Summary(b, reviews)
             \/ b \in DOMAIN job[w].staged /\ job'[w].staged[b] = job[w].staged[b]
    BY <1>10 DEF RecomputeOne, Shapes, Idle
  <2> QED
    BY <1>2, <1>10, <2>1 DEF RecomputeOne, StagedIsCurrent, Honest
<1>11. ASSUME NEW w \in Workers, job' = [job EXCEPT ![w] = Idle], UNCHANGED <<reviews, req>>
       PROVE  StagedIsCurrent'
  BY <1>2, <1>11 DEF StagedIsCurrent, Shapes
<1>12. ASSUME NEW w \in Workers, CommitJob(w)
       PROVE  StagedIsCurrent' /\ \A b \in Barbers : Honest(b)'
  <2>1. job[w] # Idle /\ Sweeping(job[w]) /\ DOMAIN job[w].todo = {}
    BY <1>12 DEF CommitJob, Shapes, Idle
  <2>2. \A b \in Barbers : b \in DOMAIN job[w].staged
    BY <2>1 DEF Sweeping
  <2>3. \A b \in Barbers : board'[b] = Summary(b, reviews)
    BY <1>2, <1>12, <2>1, <2>2 DEF CommitJob, StagedIsCurrent
  <2> QED
    BY <1>11, <1>12, <2>3 DEF CommitJob, Honest
<1>13. ASSUME NEW w \in Workers, RollBackJob(w)
       PROVE  StagedIsCurrent' /\ \A b \in Barbers : Honest(b)'
  BY <1>2, <1>11, <1>13 DEF RollBackJob, Honest
<1>14. CASE UNCHANGED vars
  BY <1>2, <1>14 DEF vars, StagedIsCurrent, Honest
<1> QED
  BY <1>3, <1>5, <1>6, <1>7, <1>8, <1>9, <1>10, <1>12, <1>13, <1>14
     DEF Next, Review, CrashJob, DeadlockVictim

LEMMA Inductive == Spec => []IInv
<1>1. Init => IInv
  BY RatingsAssumption, ShapesBeginning, CurrentBeginning DEF IInv
<1>2. IInv /\ [Next]_vars => IInv'
  BY RatingsAssumption, ShapesStep, LockingStep, CurrentStep DEF IInv
<1> QED
  BY <1>1, <1>2, PTL DEF Spec

(* As long as nobody touches the tables behind the program's back, every   *)
(* committed rating and count are those of the committed reviews, however  *)
(* many reviewers and executions of the nightly job write at once.         *)
THEOREM RatingsStayHonest == Spec => []RatingAgreesWithReviews
<1>1. IInv => RatingAgreesWithReviews
  BY DEF IInv, Current, RatingAgreesWithReviews
<1> QED
  BY <1>1, Inductive, PTL

-----------------------------------------------------------------------------
(* On a cycle of waits one waits for somebody, and is waited for.          *)
LEMMA OnCycleIsBothWays ==
  ASSUME NEW t, NEW waitsFor, OnCycle(t, waitsFor)
  PROVE  /\ t \in DOMAIN waitsFor /\ waitsFor[t] # {}
         /\ \E u \in DOMAIN waitsFor : t \in waitsFor[u]
<1> DEFINE waiting == {u \in DOMAIN waitsFor : waitsFor[u] # {}}
<1>1. PICK n \in 1 .. Cardinality(waiting) : \E c \in [0 .. n - 1 -> waiting] :
         /\ c[0] = t
         /\ \A i \in 0 .. n - 1 : c[(i + 1) % n] \in waitsFor[c[i]]
  BY DEF OnCycle
<1>2. PICK c \in [0 .. n - 1 -> waiting] :
         /\ c[0] = t
         /\ \A i \in 0 .. n - 1 : c[(i + 1) % n] \in waitsFor[c[i]]
  BY <1>1
<1>3. n \in Nat /\ n >= 1
  OBVIOUS
<1>4. n - 1 \in 0 .. n - 1 /\ (n - 1) + 1 = n
  BY <1>3
<1>5. n % n = 0
  BY <1>3
<1>6. t \in waitsFor[c[n - 1]] /\ c[n - 1] \in waiting
  BY <1>2, <1>4, <1>5
<1> QED
  BY <1>6 DEF OnCycle

(* Writers of reviews take the barber's row before they touch the reviews: *)
(* whoever waits for one has nothing anybody waits for, so none of them is *)
(* ever part of a cycle of waits and killed for it.                        *)
THEOREM ReviewersAreNoVictims == Spec => []ReviewersNeverDeadlock
<1>1. ASSUME IInv, NEW r \in Reviewers, OnCycle(r, WaitsFor) PROVE FALSE
  <2>1. Blockers(r) # {} /\ \E u \in Txns : r \in Blockers(u)
    BY <1>1, OnCycleIsBothWays DEF WaitsFor, Txns
  <2>2. PICK u \in Txns : r \in Blockers(u)
    BY <2>1
  <2>3. \E b \in Barbers : \E mode : r \in KeepingOut(u, b, mode)
    <3>1. CASE u \in Reviewers
      <4>1. BarberOf[req[u].appt] \in Barbers
        BY <1>1, <2>2, <3>1, RatingsAssumption DEF Blockers, IInv, Shapes, Reviewing, Idle
      <4> QED
        BY <2>2, <3>1, <4>1 DEF Blockers
    <3>2. CASE u \notin Reviewers
      <4>1. job[u].stage = "sweep" /\ job[u].todo # <<>> /\ r \in KeepingOut(u, Head(job[u].todo), "update")
        BY <2>2, <3>2 DEF Blockers
      <4>2. Head(job[u].todo) \in Barbers
        BY <1>1, <3>2, <4>1 DEF IInv, Shapes, Sweeping, Idle, Txns
      <4> QED
        BY <4>1, <4>2
    <3> QED
      BY <3>1, <3>2
  <2>4. PICK b \in Barbers : \E l \in locks[b] : l.txn = r
    BY <2>3 DEF KeepingOut
  <2>5. PastLock(r) /\ BarberOf[req[r].appt] = b /\ Update(r) \in locks[b]
    BY <1>1, <2>4 DEF IInv, Locking, HoldersArePastLock, Held
  <2>6. \A m \in locks[b] : m.txn = r
    BY <1>1, <2>4 DEF IInv, Locking, OneHolder
  <2>7. Blockers(r) = {}
    BY <2>5, <2>6 DEF Blockers, KeepingOut, PastLock
  <2> QED
    BY <2>1, <2>7
<1>2. IInv => ReviewersNeverDeadlock
  BY <1>1 DEF ReviewersNeverDeadlock
<1> QED
  BY <1>2, Inductive, PTL
-----------------------------------------------------------------------------
(* The mean of the stars *)

(* The least of a set of numbers, from which induction over numbers, as a  *)
(* fact about sets of them, follows.                                       *)
LEMMA FirstOf ==
  ASSUME NEW S \in SUBSET Nat, S # {}
  PROVE  \E n \in S : \A m \in S : n <= m
<1> DEFINE Smaller == {p \in Nat \X Nat : p[1] < p[2]}
<1>1. IsWellFoundedOn(Smaller, Nat)
  <2>1. Smaller \subseteq OpToRel(<, Nat)
    BY DEF OpToRel
  <2> QED
    BY NatLessThanWellFounded, <2>1, IsWellFoundedOnSubrelation
<1>2. PICK n \in S : \A m \in S : <<m, n>> \notin Smaller
  <2> HIDE DEF Smaller
  <2> QED
    BY <1>1, WFMin
<1>3. ASSUME NEW m \in S PROVE n <= m
  <2>1. m \in Nat /\ n \in Nat
    OBVIOUS
  <2>2. ~ m < n
    BY <1>2, <2>1
  <2> QED
    BY <2>1, <2>2
<1> QED
  BY <1>3

(* Induction up to n, as a fact about a set.                               *)
LEMMA Climb ==
  ASSUME NEW n \in Nat, NEW S, 0 \in S, \A k \in 1 .. n : k - 1 \in S => k \in S
  PROVE  \A k \in 0 .. n : k \in S
<1> SUFFICES ASSUME \E k \in 0 .. n : k \notin S PROVE FALSE
  OBVIOUS
<1> DEFINE Bad == {k \in 0 .. n : k \notin S}
<1>1. PICK k \in Bad : \A j \in Bad : k <= j
  <2>1. Bad \in SUBSET Nat /\ Bad # {}
    OBVIOUS
  <2> HIDE DEF Bad
  <2> QED
    BY <2>1, FirstOf
<1>2. k \in 1 .. n
  OBVIOUS
<1>3. k - 1 \in 0 .. n /\ k - 1 \notin Bad
  BY <1>1, <1>2
<1> QED
  BY <1>1, <1>2, <1>3

(* Induction over the subsets of a finite set, as a fact about a set of    *)
(* them.                                                                   *)
LEMMA ClimbSets ==
  ASSUME NEW A, IsFiniteSet(A), NEW G,
         \A U \in SUBSET A : (\A x \in U : U \ {x} \in G) => U \in G
  PROVE  \A U \in SUBSET A : U \in G
<1> DEFINE n == Cardinality(A)
           K == {k \in 0 .. n : \A U \in SUBSET A : Cardinality(U) = k => U \in G}
<1>1. n \in Nat /\ \A U \in SUBSET A : IsFiniteSet(U) /\ Cardinality(U) \in 0 .. n
  <2>1. n \in Nat
    BY FS_CardinalityType
  <2>2. ASSUME NEW U \in SUBSET A PROVE IsFiniteSet(U) /\ Cardinality(U) \in 0 .. n
    <3>1. IsFiniteSet(U) /\ Cardinality(U) <= n
      BY FS_Subset
    <3>2. Cardinality(U) \in Nat
      BY <3>1, FS_CardinalityType
    <3> HIDE DEF n
    <3> QED BY <2>1, <3>1, <3>2
  <2> QED BY <2>1, <2>2
<1> HIDE DEF n
<1>2. 0 \in K
  <2>1. ASSUME NEW U \in SUBSET A, Cardinality(U) = 0 PROVE U \in G
    <3>1. U = {}
      BY <1>1, <2>1, FS_EmptySet
    <3> QED BY <3>1
  <2> QED BY <1>1, <2>1
<1>3. ASSUME NEW k \in 1 .. n, k - 1 \in K PROVE k \in K
  <2>1. ASSUME NEW U \in SUBSET A, Cardinality(U) = k PROVE U \in G
    <3>1. ASSUME NEW x \in U PROVE U \ {x} \in G
      <4>1. Cardinality(U \ {x}) = k - 1
        BY <1>1, <2>1, FS_RemoveElement
      <4>2. U \ {x} \in SUBSET A
        OBVIOUS
      <4> QED BY <1>3, <4>1, <4>2
    <3> QED BY <3>1
  <2> QED BY <2>1
<1>4. \A k \in 0 .. n : k \in K
  <2> HIDE DEF K
  <2> QED BY <1>1, <1>2, <1>3, Climb
<1>5. ASSUME NEW U \in SUBSET A PROVE U \in G
  <2>1. Cardinality(U) \in K
    BY <1>1, <1>4
  <2> QED BY <2>1
<1> QED BY <1>5

(* MapThenSumSet takes one element after the other: g adds up f over the   *)
(* subsets of A.                                                           *)
Some(T) == CHOOSE x \in T : TRUE
Adds(g, A, f) ==
  \A T \in SUBSET A : g[T] = IF T = {} THEN 0 ELSE f[Some(T)] + g[T \ {Some(T)}]
Weighs(f, A) == \A x \in A : f[x] \in Nat

LEMMA SomeOf == ASSUME NEW T, T # {} PROVE Some(T) \in T
  BY DEF Some

LEMMA AddsExists ==
  ASSUME NEW A, IsFiniteSet(A), NEW f, Weighs(f, A)
  PROVE  \E g \in [SUBSET A -> Nat] : Adds(g, A, f)
<1> DEFINE n == Cardinality(A)
           Upto(k, g) == \A T \in SUBSET A : Cardinality(T) <= k =>
                           g[T] = IF T = {} THEN 0 ELSE f[Some(T)] + g[T \ {Some(T)}]
           Good == {k \in 0 .. n : \E g \in [SUBSET A -> Nat] : Upto(k, g)}
<1>1. n \in Nat /\ \A T \in SUBSET A : Cardinality(T) \in Nat /\ Cardinality(T) <= n
  <2>1. n \in Nat
    BY FS_CardinalityType
  <2>2. ASSUME NEW U \in SUBSET A PROVE Cardinality(U) \in Nat /\ Cardinality(U) <= n
    <3>1. IsFiniteSet(U) /\ Cardinality(U) <= n
      BY FS_Subset
    <3>2. Cardinality(U) \in Nat
      BY <3>1, FS_CardinalityType
    <3> QED BY <3>1, <3>2
  <2> QED BY <2>1, <2>2
<1>f. ASSUME NEW T \in SUBSET A, T # {}
      PROVE  /\ f[Some(T)] \in Nat /\ T \ {Some(T)} \in SUBSET A
             /\ Cardinality(T \ {Some(T)}) = Cardinality(T) - 1
  <2>1. Some(T) \in T
    BY <1>f, SomeOf
  <2>2. IsFiniteSet(T)
    BY FS_Subset
  <2>3. Cardinality(T \ {Some(T)}) = Cardinality(T) - 1
    BY <2>1, <2>2, FS_RemoveElement
  <2>4. Some(T) \in A /\ T \ {Some(T)} \in SUBSET A
    BY <2>1
  <2> QED BY <2>3, <2>4 DEF Weighs
<1> HIDE DEF n
<1>2. 0 \in Good
  <2> DEFINE g == [T \in SUBSET A |-> 0]
  <2>1. g \in [SUBSET A -> Nat]
    OBVIOUS
  <2>2. Upto(0, g)
    <3>1. ASSUME NEW T \in SUBSET A, Cardinality(T) <= 0 PROVE T = {}
      <4>1. IsFiniteSet(T) /\ Cardinality(T) = 0
        BY <1>1, <3>1, FS_Subset
      <4> QED BY <4>1, FS_EmptySet
    <3> QED BY <3>1
  <2>3. 0 \in 0 .. n
    BY <1>1
  <2> HIDE DEF g, Upto
  <2>4. \E h \in [SUBSET A -> Nat] : Upto(0, h)
    BY <2>1, <2>2
  <2> QED BY <2>3, <2>4
<1>3. ASSUME NEW k \in 1 .. n, k - 1 \in Good PROVE k \in Good
  <2>1. PICK h \in [SUBSET A -> Nat] : Upto(k - 1, h)
    BY <1>3
  <2> DEFINE g == [T \in SUBSET A |-> IF T = {} THEN 0 ELSE f[Some(T)] + h[T \ {Some(T)}]]
  <2>2. g \in [SUBSET A -> Nat]
    <3>1. ASSUME NEW T \in SUBSET A PROVE g[T] \in Nat
      <4>1. CASE T = {} BY <4>1
      <4>2. CASE T # {}
        <5>1. f[Some(T)] \in Nat /\ h[T \ {Some(T)}] \in Nat
          BY <4>2, <1>f
        <5>2. g[T] = f[Some(T)] + h[T \ {Some(T)}]
          BY <4>2
        <5> HIDE DEF g
        <5> QED BY <5>1, <5>2
      <4> QED BY <4>1, <4>2
    <3> QED BY <3>1
  <2>3. \A T \in SUBSET A : Cardinality(T) <= k - 1 => g[T] = h[T]
    BY <2>1
  <2>4. ASSUME NEW T \in SUBSET A, Cardinality(T) <= k, T # {}
        PROVE  g[T] = f[Some(T)] + g[T \ {Some(T)}]
    <3> DEFINE U == T \ {Some(T)}
    <3>1. U \in SUBSET A /\ Cardinality(U) <= k - 1
      BY <1>1, <1>f, <2>4
    <3>2. g[T] = f[Some(T)] + h[U]
      BY <2>4
    <3> HIDE DEF U, g
    <3>3. g[U] = h[U]
      BY <3>1, <2>3
    <3>4. g[T] = f[Some(T)] + g[U]
      BY <3>2, <3>3
    <3> QED BY <3>4 DEF U
  <2>5. g[{}] = 0
    OBVIOUS
  <2> HIDE DEF g
  <2>6. Upto(k, g)
    BY <2>4, <2>5
  <2> HIDE DEF Upto
  <2>7. k \in 0 .. n
    OBVIOUS
  <2> QED BY <2>2, <2>6, <2>7
<1>4. n \in Good
  <2>1. \A k \in 0 .. n : k \in Good
    <3> HIDE DEF Good
    <3> QED BY <1>1, <1>2, <1>3, Climb
  <2>2. n \in 0 .. n
    BY <1>1
  <2> HIDE DEF Good
  <2> QED BY <2>1, <2>2
<1>5. PICK g \in [SUBSET A -> Nat] : Upto(n, g)
  BY <1>4
<1>6. Adds(g, A, f)
  BY <1>1, <1>5 DEF Adds
<1> QED BY <1>6

LEMMA SumBounds ==
  ASSUME NEW A, IsFiniteSet(A), NEW f, Weighs(f, A), NEW lo \in Nat, NEW hi \in Nat,
         \A x \in A : lo <= f[x] /\ f[x] <= hi,
         NEW g \in [SUBSET A -> Nat], Adds(g, A, f)
  PROVE  Cardinality(A) * lo <= g[A] /\ g[A] <= Cardinality(A) * hi
<1> DEFINE Between(n, t) == n * lo <= t /\ t <= n * hi
           G == {B \in SUBSET A : Between(Cardinality(B), g[B])}
<1>2. ASSUME NEW n \in Nat, NEW t \in Nat, Between(n, t), NEW w \in Nat, lo <= w, w <= hi
      PROVE  Between(n + 1, w + t)
  BY <1>2
<1>3. ASSUME NEW B \in SUBSET A, \A x \in B : B \ {x} \in G PROVE B \in G
  <2>1. CASE B = {}
    <3>1. Between(0, 0)
      OBVIOUS
    <3>2. Cardinality(B) = 0 /\ g[B] = 0
      BY <2>1, FS_EmptySet DEF Adds
    <3> HIDE DEF Between
    <3> QED BY <3>1, <3>2
  <2>2. CASE B # {}
    <3>1. PICK x : x = Some(B) /\ x \in B
      BY <2>2, SomeOf
    <3> DEFINE C == B \ {x}
    <3>2. C \in G /\ IsFiniteSet(B) /\ IsFiniteSet(C) /\ C \in SUBSET A
      BY <1>3, <3>1, FS_Subset
    <3>3. Cardinality(C) \in Nat /\ Cardinality(B) = Cardinality(C) + 1
      <4>1. Cardinality(C) = Cardinality(B) - 1 /\ Cardinality(B) \in Nat
        BY <3>1, <3>2, FS_RemoveElement, FS_CardinalityType
      <4>2. Cardinality(C) \in Nat
        BY <3>2, FS_CardinalityType
      <4> HIDE DEF C
      <4> QED BY <4>1, <4>2
    <3>4. g[B] = f[x] + g[C] /\ g[C] \in Nat
      BY <2>2, <3>1 DEF Adds
    <3>5. f[x] \in Nat /\ lo <= f[x] /\ f[x] <= hi
      BY <3>1 DEF Weighs
    <3>6. Between(Cardinality(C), g[C])
      BY <3>2
    <3> HIDE DEF C, Between
    <3>7. Between(Cardinality(C) + 1, f[x] + g[C])
      BY <1>2, <3>3, <3>4, <3>5, <3>6
    <3> QED BY <3>3, <3>4, <3>7
  <2> QED BY <2>1, <2>2
<1>4. A \in G
  <2> HIDE DEF G
  <2>1. \A B \in SUBSET A : (\A x \in B : B \ {x} \in G) => B \in G
    BY <1>3
  <2>2. \A B \in SUBSET A : B \in G
    BY <2>1, ClimbSets
  <2> QED BY <2>2
<1> QED BY <1>4

LEMMA SumOfStars ==
  ASSUME NEW given, IsFiniteSet(DOMAIN given), \A a \in DOMAIN given : given[a] \in 1 .. 5,
         NEW sum, sum = MapThenSumSet(LAMBDA a : given[a], DOMAIN given)
  PROVE  sum \in Nat /\ Cardinality(DOMAIN given) <= sum /\ sum <= 5 * Cardinality(DOMAIN given)
<1> DEFINE A == DOMAIN given
           Eq(g) == g = [T \in SUBSET A |-> IF T = {} THEN 0
                           ELSE given[CHOOSE x \in T : TRUE] + g[T \ {CHOOSE x \in T : TRUE}]]
           iter == CHOOSE g : Eq(g)
<1>0. Weighs(given, A)
  BY DEF Weighs
<1>1. PICK g \in [SUBSET A -> Nat] : Adds(g, A, given)
  BY <1>0, AddsExists
<1>2. Eq(iter)
  <2>1. Eq(g)
    BY <1>1 DEF Adds, Some
  <2> HIDE DEF Eq
  <2> QED BY <2>1
<1>3. Adds(iter, A, given)
  <2> HIDE DEF iter
  <2> QED BY <1>2 DEF Adds, Some
<1>4. sum = iter[A]
  BY DEF MapThenSumSet, MapThenFoldSet
<1> DEFINE G == {B \in SUBSET A : iter[B] = g[B]}
<1>5. ASSUME NEW B \in SUBSET A, \A x \in B : B \ {x} \in G PROVE B \in G
  <2> HIDE DEF iter
  <2>1. CASE B = {}
    BY <1>1, <1>3, <2>1 DEF Adds
  <2>2. CASE B # {}
    <3>1. PICK x : x = Some(B) /\ x \in B
      BY <2>2, SomeOf
    <3>2. iter[B \ {x}] = g[B \ {x}]
      BY <1>5, <3>1
    <3> QED BY <1>1, <1>3, <2>2, <3>1, <3>2 DEF Adds
  <2> QED BY <2>1, <2>2
<1>6. iter[A] = g[A]
  <2>1. A \in G
    <3> HIDE DEF G
    <3>1. \A B \in SUBSET A : (\A x \in B : B \ {x} \in G) => B \in G
      BY <1>5
    <3>2. \A B \in SUBSET A : B \in G
      BY <3>1, ClimbSets
    <3> QED BY <3>2
  <2> QED BY <2>1
<1> HIDE DEF iter
<1>7. PICK lo, hi : lo = 1 /\ hi = 5
  OBVIOUS
<1>8. Cardinality(A) * lo <= g[A] /\ g[A] <= Cardinality(A) * hi
  <2>1. lo \in Nat /\ hi \in Nat /\ \A x \in A : lo <= given[x] /\ given[x] <= hi
    BY <1>7
  <2> QED BY <1>0, <1>1, <2>1, SumBounds
<1>9. Cardinality(A) \in Nat
  BY FS_CardinalityType
<1> QED BY <1>1, <1>4, <1>6, <1>7, <1>8, <1>9

(* The mean of ratings between one and five stars is between them.         *)
LEMMA MeanBounds ==
  ASSUME NEW sum \in Nat, NEW n \in Nat \ {0}, n <= sum, sum <= 5 * n
  PROVE  Mean(sum, n) \in 100 .. 500
<1> DEFINE x == 200 * sum + n
           d == 2 * n
           q == x \div d
<1>1. x \in Nat /\ d \in Nat \ {0}
  OBVIOUS
<1>2. q \in Int /\ d * q <= x /\ x < d * (q + 1)
  <2> HIDE DEF x, d
  <2> QED BY <1>1
<1>3. 100 * d <= x /\ x < 501 * d
  OBVIOUS
<1>4. 100 <= q
  <2> SUFFICES ASSUME q <= 99 PROVE FALSE
    BY <1>2
  <2>1. d * (q + 1) <= d * 100
    <3> HIDE DEF x, d, q
    <3> QED BY <1>1, <1>2
  <2> HIDE DEF x, d, q
  <2> QED BY <1>1, <1>2, <1>3, <2>1
<1>5. q <= 500
  <2> SUFFICES ASSUME 501 <= q PROVE FALSE
    BY <1>2
  <2>1. d * 501 <= d * q
    <3> HIDE DEF x, d, q
    <3> QED BY <1>1, <1>2
  <2> HIDE DEF x, d, q
  <2> QED BY <1>1, <1>2, <1>3, <2>1
<1> QED BY <1>2, <1>4, <1>5 DEF Mean

(* What may stand in the columns rating and reviews_count.                 *)
Bounded(s) == s.count \in 0 .. Cardinality(Appts) /\ s.rating \in 0 .. 500
Given(g) == DOMAIN g \subseteq Appts /\ \A a \in DOMAIN g : g[a] \in Stars

LEMMA SummaryIsBounded ==
  ASSUME RatingsAssumption, NEW given, Given(given), NEW b
  PROVE  Bounded(Summary(b, given))
<1>1. PICK about : about = About(b, given)
  OBVIOUS
<1>2. DOMAIN about \subseteq Appts /\ \A a \in DOMAIN about : about[a] \in 1 .. 5
  BY <1>1 DEF About, Given, RatingsAssumption
<1>3. PICK n : n = Cardinality(DOMAIN about)
  OBVIOUS
<1>4. IsFiniteSet(DOMAIN about) /\ n \in Nat /\ n <= Cardinality(Appts) /\ Cardinality(Appts) \in Nat
  BY <1>2, <1>3, FS_Subset, FS_CardinalityType DEF RatingsAssumption
<1>5. PICK sum : sum = MapThenSumSet(LAMBDA a : about[a], DOMAIN about)
  OBVIOUS
<1>6. sum \in Nat /\ n <= sum /\ sum <= 5 * n
  BY <1>2, <1>3, <1>4, <1>5, SumOfStars
<1>7. n # 0 => Mean(sum, n) \in 100 .. 500
  BY <1>4, <1>6, MeanBounds, ZenonT(40)
<1>8. Summary(b, given) = [rating |-> IF n = 0 THEN 0 ELSE Mean(sum, n), count |-> n]
  BY <1>1, <1>3, <1>5 DEF Summary, Score
<1>9. (IF n = 0 THEN 0 ELSE Mean(sum, n)) \in 0 .. 500
  BY <1>7
<1> QED BY <1>4, <1>8, <1>9 DEF Bounded

(* What is in hand to be written is bounded as well, and the rows are held *)
(* by transactions.                                                        *)
Typed ==
  /\ TypeOK
  /\ \A r \in Reviewers : req[r].stage = "commit" => Bounded(req[r].summary)
  /\ \A w \in Workers : job[w] # Idle => \A b \in DOMAIN job[w].staged : Bounded(job[w].staged[b])

LEMMA TypedStep ==
  ASSUME RatingsAssumption, Shapes, Shapes', Typed, [Next]_vars
  PROVE  Typed'
<1> DEFINE Lock == [txn : Txns, mode : {"update", "keyshare"}]
           Locks(l) == \A b \in Barbers : l[b] \subseteq Lock
           Board(t) == \A b \in Barbers : Bounded(t[b])
           Req(q) == /\ q # Idle => q.appt \in Appts
                     /\ q.stage = "commit" => Bounded(q.summary)
           Job(j) == j # Idle => /\ DOMAIN j.staged \subseteq Barbers
                                 /\ \A b \in DOMAIN j.staged : Bounded(j.staged[b])
           Counts(d, c) == d \in 0 .. MaxDrifts /\ c \in 0 .. MaxCrashes
<1>1. /\ Given(reviews) /\ Locks(locks) /\ Board(board) /\ Counts(drifts, crashes)
      /\ \A r \in Reviewers : Req(req[r])
      /\ \A w \in Workers : Job(job[w])
  <2>1. Given(reviews)
    BY ZenonT(30) DEF Typed, TypeOK, Given
  <2>2. Locks(locks) /\ Counts(drifts, crashes)
    BY ZenonT(30) DEF Typed, TypeOK
  <2>3. Board(board)
    BY ZenonT(30) DEF Typed, TypeOK, Bounded
  <2>4. \A r \in Reviewers : Req(req[r])
    BY ZenonT(30) DEF Typed, TypeOK
  <2>5. \A w \in Workers : Job(job[w])
    BY ZenonT(30) DEF Typed, TypeOK
  <2> QED BY <2>1, <2>2, <2>3, <2>4, <2>5
<1>2. ASSUME Given(reviews'), Locks(locks'), Board(board'), Counts(drifts', crashes'),
             \A r \in Reviewers : Req(req'[r]), \A w \in Workers : Job(job'[w])
      PROVE  Typed'
  <2>1. /\ DOMAIN reviews' \subseteq Appts /\ \A a \in DOMAIN reviews' : reviews'[a] \in Stars
        /\ \A b \in Barbers : locks'[b] \subseteq Lock
        /\ drifts' \in 0 .. MaxDrifts /\ crashes' \in 0 .. MaxCrashes
    BY <1>2, ZenonT(30) DEF Given
  <2>2. \A b \in Barbers : board'[b].count \in 0 .. Cardinality(Appts) /\ board'[b].rating \in 0 .. 500
    BY <1>2 DEF Bounded
  <2>3. \A r \in Reviewers : req'[r] # Idle => req'[r].appt \in Appts
    BY <1>2
  <2>4. \A r \in Reviewers : req'[r].stage = "commit" => Bounded(req'[r].summary)
    BY <1>2
  <2>5. \A w \in Workers : job'[w] # Idle => DOMAIN job'[w].staged \subseteq Barbers
    BY <1>2
  <2>6. \A w \in Workers : job'[w] # Idle => \A b \in DOMAIN job'[w].staged : Bounded(job'[w].staged[b])
    BY <1>2
  <2>7. TypeOK'
    BY <2>1, <2>2, <2>3, <2>5 DEF TypeOK, Idle, Txns
  <2>8. Idle' = Idle
    BY DEF Idle
  <2> QED BY <2>4, <2>6, <2>7, <2>8 DEF Typed, Bounded
<1>3. Req(Idle) /\ Job(Idle)
  BY DEF Idle
<1>4. /\ DOMAIN board = Barbers /\ DOMAIN locks = Barbers
      /\ DOMAIN req = Reviewers /\ DOMAIN job = Workers
      /\ \A r \in Reviewers : Reviewing(req[r])
      /\ \A w \in Workers : job[w] = Idle \/ Sweeping(job[w])
  BY DEF Shapes
<1>5. ASSUME NEW t \in Txns, NEW b, NEW mode \in {"update", "keyshare"} PROVE Locks(Taking(t, b, mode))
  BY <1>1, <1>4 DEF Taking
<1>6. ASSUME NEW t PROVE Locks(Releasing(t))
  BY <1>1 DEF Releasing
<1>7. ASSUME NEW a \in Appts, NEW s \in Stars PROVE Given(With(reviews, a, s))
  BY <1>1 DEF Given, With
<1>8. \A r \in Reviewers : r \in Txns
  BY DEF Txns
<1>9. \A w \in Workers : w \in Txns
  BY DEF Txns
<1> HIDE DEF Locks, Board, Req, Job, Counts
<1>r. ASSUME NEW r \in Reviewers, NEW q, Req(q), req' = [req EXCEPT ![r] = q]
      PROVE  \A x \in Reviewers : Req(req'[x])
  BY <1>1, <1>4, <1>r
<1>w. ASSUME NEW w \in Workers, NEW j, Job(j), job' = [job EXCEPT ![w] = j]
      PROVE  \A x \in Workers : Job(job'[x])
  BY <1>1, <1>4, <1>w
<1>10. ASSUME NEW r \in Reviewers, Load(r) PROVE Typed'
  <2>1. PICK a \in Appts, s \in Stars :
          req' = [req EXCEPT ![r] = [stage |-> "lock", appt |-> a, stars |-> s]]
    BY <1>10 DEF Load, Following
  <2>2. Req([stage |-> "lock", appt |-> a, stars |-> s])
    BY DEF Req
  <2> QED BY <1>1, <1>2, <1>r, <1>10, <2>1, <2>2 DEF Load
<1>11. ASSUME NEW r \in Reviewers, LockBarber(r) PROVE Typed'
  <2>1. Req([req[r] EXCEPT !.stage = "insert"])
    BY <1>4, <1>11 DEF LockBarber, Reviewing, Idle, Req
  <2>2. Locks(locks')
    BY <1>5, <1>8, <1>11 DEF LockBarber
  <2> QED BY <1>1, <1>2, <1>r, <1>11, <2>1, <2>2 DEF LockBarber, Following
<1>12. ASSUME NEW r \in Reviewers, InsertReview(r) PROVE Typed'
  <2>1. Req([req[r] EXCEPT !.stage = "recompute"])
    BY <1>4, <1>12 DEF InsertReview, Reviewing, Idle, Req
  <2>2. Locks(locks')
    BY <1>5, <1>6, <1>8, <1>12 DEF InsertReview
  <2> QED BY <1>1, <1>2, <1>3, <1>r, <1>12, <2>1, <2>2 DEF InsertReview, Following
<1>13. ASSUME NEW r \in Reviewers, Recompute(r) PROVE Typed'
  <2>1. req[r].appt \in Appts /\ req[r].stars \in Stars
    BY <1>4, <1>13 DEF Recompute, Reviewing, Idle
  <2>2. PICK q : q = [stage |-> "commit", appt |-> req[r].appt, stars |-> req[r].stars,
                      summary |-> Summary(BarberOf[req[r].appt],
                                          With(reviews, req[r].appt, req[r].stars))]
    OBVIOUS
  <2>3. Bounded(q.summary)
    <3>1. PICK given : given = With(reviews, req[r].appt, req[r].stars)
      OBVIOUS
    <3>2. Given(given)
      BY <1>7, <2>1, <3>1
    <3>3. Bounded(Summary(BarberOf[req[r].appt], given))
      BY <3>2, SummaryIsBounded
    <3> QED BY <2>2, <3>1, <3>3
  <2>4. Req(q)
    BY <2>1, <2>2, <2>3 DEF Req
  <2>5. req' = [req EXCEPT ![r] = q]
    BY <1>13, <2>2 DEF Recompute, Following
  <2>6. Locks(locks')
    BY <1>5, <1>8, <1>13 DEF Recompute
  <2> QED BY <1>1, <1>2, <1>r, <1>13, <2>4, <2>5, <2>6 DEF Recompute
<1>14. ASSUME NEW r \in Reviewers, CommitReview(r) PROVE Typed'
  <2>1. req[r].appt \in Appts /\ req[r].stars \in Stars /\ Bounded(req[r].summary)
    BY <1>1, <1>4, <1>14 DEF CommitReview, Reviewing, Idle, Req
  <2>2. Given(reviews')
    BY <1>7, <1>14, <2>1 DEF CommitReview
  <2>3. Board(board')
    BY <1>1, <1>4, <1>14, <2>1 DEF CommitReview, Board
  <2>4. Locks(locks')
    BY <1>6, <1>14 DEF CommitReview
  <2> QED BY <1>1, <1>2, <1>3, <1>r, <1>14, <2>2, <2>3, <2>4 DEF CommitReview
<1>15. ASSUME NEW r \in Reviewers, Abandon(r) PROVE Typed'
  <2>1. Locks(locks')
    BY <1>6, <1>15 DEF Abandon
  <2> QED BY <1>1, <1>2, <1>3, <1>r, <1>15, <2>1 DEF Abandon
<1>16. ASSUME NEW w \in Workers, StartJob(w) PROVE Typed'
  <2>1. PICK order : job' = [job EXCEPT ![w] = [stage |-> "sweep", todo |-> order, staged |-> <<>>]]
    BY <1>16 DEF StartJob
  <2>2. Job([stage |-> "sweep", todo |-> order, staged |-> <<>>])
    BY DEF Job
  <2> QED BY <1>1, <1>2, <1>w, <1>16, <2>1, <2>2 DEF StartJob
<1>17. ASSUME NEW w \in Workers, RecomputeOne(w) PROVE Typed'
  <2>1. job[w] # Idle /\ Sweeping(job[w]) /\ job[w].todo # <<>>
    BY <1>4, <1>17 DEF RecomputeOne, Idle
  <2>2. PICK b : b = Head(job[w].todo)
    OBVIOUS
  <2>3. b \in Barbers
    BY <2>1, <2>2 DEF Sweeping
  <2>4. PICK j : j = [stage |-> "sweep", todo |-> Tail(job[w].todo),
                      staged |-> [x \in DOMAIN job[w].staged \cup {b} |->
                                    IF x = b THEN Summary(b, reviews) ELSE job[w].staged[x]]]
    OBVIOUS
  <2>5. Bounded(Summary(b, reviews))
    BY <1>1, SummaryIsBounded
  <2>6. Job(j)
    BY <1>1, <2>1, <2>3, <2>4, <2>5 DEF Job
  <2>7. job' = [job EXCEPT ![w] = j]
    BY <1>17, <2>2, <2>4 DEF RecomputeOne
  <2>8. Locks(locks')
    BY <1>5, <1>9, <1>17 DEF RecomputeOne
  <2> QED BY <1>1, <1>2, <1>w, <1>17, <2>6, <2>7, <2>8 DEF RecomputeOne
<1>18. ASSUME NEW w \in Workers, CommitJob(w) PROVE Typed'
  <2>1. job[w] # Idle /\ Sweeping(job[w]) /\ job[w].todo = <<>>
    BY <1>4, <1>18 DEF CommitJob, Idle
  <2>2. \A b \in Barbers : b \in DOMAIN job[w].staged /\ Bounded(job[w].staged[b])
    BY <1>1, <2>1 DEF Sweeping, Job
  <2>3. Board(board')
    BY <1>18, <2>2 DEF CommitJob, Board
  <2>4. Locks(locks')
    BY <1>6, <1>18 DEF CommitJob
  <2> QED BY <1>1, <1>2, <1>3, <1>w, <1>18, <2>3, <2>4 DEF CommitJob
<1>19. ASSUME NEW w \in Workers, CrashJob(w) \/ DeadlockVictim(w) PROVE Typed'
  <2>1. RollBackJob(w)
    BY <1>19 DEF CrashJob, DeadlockVictim
  <2>2. Locks(locks')
    BY <1>6, <2>1 DEF RollBackJob
  <2>3. Counts(drifts', crashes')
    BY <1>1, <1>19, <2>1 DEF CrashJob, DeadlockVictim, RollBackJob, Counts, RatingsAssumption
  <2> QED BY <1>1, <1>2, <1>3, <1>w, <2>1, <2>2, <2>3 DEF RollBackJob
<1>20. CASE Drift
  <2>1. Given(reviews')
    BY <1>1, <1>20 DEF Drift, Given
  <2>2. Counts(drifts', crashes')
    BY <1>1, <1>20 DEF Drift, Counts, RatingsAssumption
  <2> QED BY <1>1, <1>2, <1>20, <2>1, <2>2 DEF Drift
<1>21. CASE UNCHANGED vars
  BY <1>1, <1>2, <1>21 DEF vars
<1> QED
  BY <1>10, <1>11, <1>12, <1>13, <1>14, <1>15, <1>16, <1>17, <1>18, <1>19, <1>20, <1>21
     DEF Next, Review

(* The columns hold what they can hold: a mean between zero and five stars *)
(* and no more reviews than appointments, in whatever order reviewers, the *)
(* nightly job, crashes and drifts write them.                             *)
THEOREM RatingsAreTyped == Spec => []TypeOK
<1>1. Init => Typed
  <2> SUFFICES ASSUME Init PROVE Typed
    OBVIOUS
  <2>1. Cardinality(Appts) \in Nat
    BY RatingsAssumption, FS_CardinalityType DEF RatingsAssumption
  <2> QED BY <2>1, RatingsAssumption DEF RatingsAssumption, Init, Typed, TypeOK, Idle
<1>2. Typed /\ Shapes /\ Shapes' /\ [Next]_vars => Typed'
  BY RatingsAssumption, TypedStep
<1>3. IInv => Shapes
  BY DEF IInv
<1>4. Typed => TypeOK
  BY DEF Typed
<1> QED BY <1>1, <1>2, <1>3, <1>4, Inductive, PTL DEF Spec

=============================================================================
