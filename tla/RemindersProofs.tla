-------------------------- MODULE RemindersProofs --------------------------
(***************************************************************************)
(* Theorems about Reminders, for any appointments, start times, kinds of   *)
(* reminder, number of executions and any bounds.                          *)
(***************************************************************************)
EXTENDS Reminders, FiniteSetTheorems, TLAPS

Sweep == [kinds : Seq(KindSet), due : Seq(Keys), claimed : SUBSET Keys, moment : Nat]

Shapes ==
  /\ TypeOK
  /\ IsFiniteSet(DOMAIN book)
  /\ sweep \in [Workers -> Sweep]

(* A mail costs a claim, or the death of the sweep that had the claim.     *)
Taken(key) == key \in claims \/ \E w \in Workers : key \in sweep[w].claimed

Costs ==
  \A key \in Keys : \/ mails[key] <= crashes + deadlocks
                    \/ mails[key] <= 1 + (crashes + deadlocks) /\ Taken(key)

-----------------------------------------------------------------------------
LEMMA EmptyHands == Idle \in Sweep
BY DEF Idle, Hand, Sweep

LEMMA ShapesBeginning == Init => Shapes
<1> SUFFICES ASSUME Init PROVE Shapes
  OBVIOUS
<1>1. DOMAIN book = {} /\ IsFiniteSet(DOMAIN book)
  BY FS_EmptySet DEF Init
<1>2. sweep \in [Workers -> Sweep] /\ \A w \in Workers : sweep[w] = Idle
  BY EmptyHands DEF Init
<1>3. mails \in [Keys -> Nat] /\ claims \subseteq Keys
  BY DEF Init
<1>4. now \in 0 .. MaxTime /\ queue \subseteq 0 .. now /\ crashes \in 0 .. MaxCrashes /\ deadlocks \in Nat
  BY RemindersAssumption DEF Init
<1> QED
  BY <1>1, <1>2, <1>3, <1>4 DEF Shapes, TypeOK, Idle, Hand

(* What a sweep finds due makes keys, each once, in some order.            *)
LEMMA Ordered ==
  ASSUME Shapes, NEW kind \in KindSet, NEW moment, NEW order \in SetToSeqs(Due(kind, moment))
  PROVE  /\ [i \in DOMAIN order |-> Key(order[i], kind)] \in Seq(Keys)
         /\ \A a \in Due(kind, moment) : \E i \in DOMAIN order : order[i] = a
<1> DEFINE due == Due(kind, moment)
<1>1. due \subseteq DOMAIN book /\ due \subseteq Appts
  BY DEF Due, Shapes, TypeOK
<1>2. IsFiniteSet(due) /\ Cardinality(due) \in Nat
  BY <1>1, FS_Subset, FS_CardinalityType DEF Shapes
<1>3. order \in [1 .. Cardinality(due) -> due]
  BY DEF SetToSeqs
<1>4. [i \in DOMAIN order |-> Key(order[i], kind)] \in Seq(Keys)
  <2>1. \A i \in DOMAIN order : Key(order[i], kind) \in Keys
    BY <1>1, <1>3 DEF Key, Keys
  <2> QED
    BY <1>2, <1>3, <2>1
<1>5. order \in Surjection(1 .. Cardinality(due), due)
  <2>1. order \in Injection(1 .. Cardinality(due), due)
    BY <1>3 DEF SetToSeqs, Injection, IsInjective
  <2>2. IsFiniteSet(1 .. Cardinality(due)) /\ Cardinality(1 .. Cardinality(due)) = Cardinality(due)
    BY <1>2, FS_Interval
  <2> QED
    BY <1>2, <2>1, <2>2, FS_Injection
<1> QED
  BY <1>3, <1>4, <1>5 DEF Surjection

(* What one execution has in hand changes, or the table and the clock do.  *)
LEMMA HandTyped ==
  ASSUME Shapes, UNCHANGED <<now, book>>,
         sweep' \in [Workers -> Sweep], \A v \in Workers : sweep'[v].moment <= now,
         queue' \subseteq queue \cup {now}, claims' \subseteq Keys, mails' \in [Keys -> Nat],
         crashes' \in 0 .. MaxCrashes, deadlocks' \in Nat
  PROVE  Shapes'
<1>1. \A v \in Workers : /\ sweep'[v].claimed \subseteq Keys
                         /\ \A i \in DOMAIN sweep'[v].due : sweep'[v].due[i] \in Keys
  BY DEF Sweep
<1>2. queue' \subseteq 0 .. now'
  BY DEF Shapes, TypeOK
<1> QED
  BY <1>1, <1>2 DEF Shapes, TypeOK

LEMMA BookTyped ==
  ASSUME Shapes, NEW a \in Appts, NEW s \in Starts,
         book' = [x \in DOMAIN book \cup {a} |-> IF x = a THEN [start |-> s, since |-> now] ELSE book[x]],
         UNCHANGED <<now, queue, sweep, claims, mails, crashes, deadlocks>>
  PROVE  Shapes'
<1>1. IsFiniteSet(DOMAIN book') /\ DOMAIN book' \subseteq Appts
  BY FS_AddElement DEF Shapes, TypeOK
<1>2. \A x \in DOMAIN book' : book'[x].start \in Starts /\ book'[x].since \in 0 .. now
  BY DEF Shapes, TypeOK
<1> QED
  BY <1>1, <1>2 DEF Shapes, TypeOK

(* What the steps of a sweep leave it with.                                *)
LEMMA AfterSelect ==
  ASSUME Shapes, NEW w \in Workers, Select(w), NEW kind, kind = Head(sweep[w].kinds)
  PROVE  /\ kind \in KindSet /\ sweep[w].due = <<>> /\ sweep[w].kinds \in Seq(KindSet) \ {<<>>}
         /\ \A a \in Due(kind, sweep[w].moment) :
              \E i \in DOMAIN sweep'[w].due : sweep'[w].due[i] = <<a, kind>>
         /\ sweep'[w].kinds = Tail(sweep[w].kinds)
         /\ sweep'[w].claimed = sweep[w].claimed /\ sweep'[w].moment = sweep[w].moment
         /\ sweep' \in [Workers -> Sweep] /\ \A v \in Workers \ {w} : sweep'[v] = sweep[v]
<1>1. sweep \in [Workers -> Sweep] /\ sweep[w] \in Sweep
  BY DEF Shapes
<1>2. kind \in KindSet /\ sweep[w].due = <<>> /\ sweep[w].kinds \in Seq(KindSet) \ {<<>>}
  BY <1>1 DEF Select, Working, Sweep
<1>3. PICK order \in SetToSeqs(Due(kind, sweep[w].moment)) :
        sweep' = [sweep EXCEPT ![w] =
          Hand(Tail(sweep[w].kinds), [i \in DOMAIN order |-> Key(order[i], kind)],
               sweep[w].claimed, sweep[w].moment)]
  BY DEF Select
<1> DEFINE list == [i \in DOMAIN order |-> Key(order[i], kind)]
           s == Hand(Tail(sweep[w].kinds), list, sweep[w].claimed, sweep[w].moment)
<1>4. list \in Seq(Keys) /\ \A a \in Due(kind, sweep[w].moment) : \E i \in DOMAIN order : order[i] = a
  BY <1>2, Ordered
<1>5. sweep' = [sweep EXCEPT ![w] = s]
  BY <1>3
<1>6. \A a \in Due(kind, sweep[w].moment) : \E i \in DOMAIN list : list[i] = <<a, kind>>
  BY <1>4 DEF Key
<1> HIDE DEF list
<1>7. /\ s \in Sweep /\ s.due = list /\ s.kinds = Tail(sweep[w].kinds)
      /\ s.claimed = sweep[w].claimed /\ s.moment = sweep[w].moment
  BY <1>1, <1>2, <1>4 DEF Sweep, Hand
<1> HIDE DEF s
<1>8. sweep'[w] = s /\ sweep' \in [Workers -> Sweep] /\ \A v \in Workers \ {w} : sweep'[v] = sweep[v]
  BY <1>1, <1>5, <1>7
<1> QED
  BY <1>2, <1>6, <1>7, <1>8

LEMMA AfterClaim ==
  ASSUME Shapes, NEW w \in Workers, ClaimAndSend(w), NEW key, key = Head(sweep[w].due)
  PROVE  /\ key \in Keys /\ sweep[w].due \in Seq(Keys) \ {<<>>}
         /\ sweep'[w].due = Tail(sweep[w].due) /\ sweep'[w].kinds = sweep[w].kinds
         /\ sweep'[w].claimed = sweep[w].claimed \cup (IF Claimable(w) THEN {key} ELSE {})
         /\ sweep'[w].moment = sweep[w].moment
         /\ sweep' \in [Workers -> Sweep] /\ \A v \in Workers \ {w} : sweep'[v] = sweep[v]
         /\ mails' = IF Claimable(w) THEN [mails EXCEPT ![key] = @ + 1] ELSE mails
<1>1. sweep \in [Workers -> Sweep] /\ sweep[w] \in Sweep
  BY DEF Shapes
<1>2. key \in Keys /\ sweep[w].due \in Seq(Keys) \ {<<>>}
  BY <1>1 DEF ClaimAndSend, Working, Sweep
<1> DEFINE mine == sweep[w].claimed \cup (IF Claimable(w) THEN {key} ELSE {})
           s == Hand(sweep[w].kinds, Tail(sweep[w].due), mine, sweep[w].moment)
<1>3. sweep' = [sweep EXCEPT ![w] = s]
  BY DEF ClaimAndSend
<1>4. mails' = IF Claimable(w) THEN [mails EXCEPT ![key] = @ + 1] ELSE mails
  BY DEF ClaimAndSend
<1>5. /\ s \in Sweep /\ s.due = Tail(sweep[w].due) /\ s.kinds = sweep[w].kinds
      /\ s.claimed = mine /\ s.moment = sweep[w].moment
  BY <1>1, <1>2 DEF Sweep, Hand
<1> HIDE DEF s
<1>6. sweep'[w] = s /\ sweep' \in [Workers -> Sweep] /\ \A v \in Workers \ {w} : sweep'[v] = sweep[v]
  BY <1>1, <1>3, <1>5
<1> QED
  BY <1>2, <1>4, <1>5, <1>6

LEMMA ShapesStep == Shapes /\ [Next]_vars => Shapes'
<1> SUFFICES ASSUME Shapes, [Next]_vars PROVE Shapes'
  OBVIOUS
<1>1. /\ sweep \in [Workers -> Sweep] /\ \A v \in Workers : sweep[v].moment <= now
      /\ now \in Nat /\ claims \subseteq Keys /\ mails \in [Keys -> Nat]
      /\ crashes \in 0 .. MaxCrashes /\ deadlocks \in Nat
  BY RemindersAssumption DEF Shapes, TypeOK
<1>2. ASSUME NEW a \in Appts, Book(a) \/ Move(a) PROVE Shapes'
  <2>1. PICK s \in Starts :
          book' = [x \in DOMAIN book \cup {a} |-> IF x = a THEN [start |-> s, since |-> now] ELSE book[x]]
    <3>1. CASE Book(a)
      BY <3>1 DEF Book
    <3>2. CASE Move(a)
      <4>1. PICK s \in Starts : book' = [book EXCEPT ![a] = [start |-> s, since |-> now]]
        BY <3>2 DEF Move
      <4>2. DOMAIN book \cup {a} = DOMAIN book
        BY <3>2 DEF Move
      <4> QED
        BY <4>1, <4>2
    <3> QED
      BY <1>2, <3>1, <3>2
  <2> QED
    BY <1>2, <2>1, BookTyped DEF Book, Move
<1>3. ASSUME NEW a \in Appts, Leave(a) PROVE Shapes'
  <2>1. DOMAIN book' \subseteq DOMAIN book /\ IsFiniteSet(DOMAIN book')
    BY <1>3, FS_Subset DEF Leave, Shapes
  <2> QED
    BY <1>3, <2>1 DEF Leave, Shapes, TypeOK
<1>4. ASSUME NEW w \in Workers, NEW s \in Sweep, s.moment <= now, sweep' = [sweep EXCEPT ![w] = s]
      PROVE  sweep' \in [Workers -> Sweep] /\ \A v \in Workers : sweep'[v].moment <= now
  BY <1>1, <1>4
<1>5. ASSUME NEW w \in Workers, StartSweep(w) PROVE Shapes'
  <2> DEFINE s == Hand(Kinds, <<>>, {}, now)
  <2>1. s \in Sweep /\ s.moment <= now
    <3>1. Kinds \in Seq(KindSet) /\ <<>> \in Seq(Keys) /\ now \in Nat /\ now <= now
      BY <1>1, RemindersAssumption
    <3> QED
      BY ONLY <3>1 DEF Sweep, Hand
  <2>2. sweep' = [sweep EXCEPT ![w] = s] /\ queue' \subseteq queue
    BY <1>5 DEF StartSweep
  <2> HIDE DEF s
  <2> QED
    BY <1>1, <1>4, <1>5, <2>1, <2>2, HandTyped DEF StartSweep
<1>6. ASSUME NEW w \in Workers, Select(w) PROVE Shapes'
  <2>1. sweep' \in [Workers -> Sweep] /\ \A v \in Workers : sweep'[v].moment <= now
    BY <1>1, <1>6, AfterSelect
  <2> QED
    BY <1>1, <1>6, <2>1, HandTyped DEF Select
<1>7. ASSUME NEW w \in Workers, ClaimAndSend(w) PROVE Shapes'
  <2>1. sweep' \in [Workers -> Sweep] /\ \A v \in Workers : sweep'[v].moment <= now
    BY <1>1, <1>7, AfterClaim
  <2>2. mails' \in [Keys -> Nat]
    <3> DEFINE key == Head(sweep[w].due)
    <3>1. key \in Keys /\ mails' = IF Claimable(w) THEN [mails EXCEPT ![key] = @ + 1] ELSE mails
      BY <1>7, AfterClaim
    <3> HIDE DEF key
    <3> QED
      BY <1>1, <3>1
  <2> QED
    BY <1>1, <1>7, <2>1, <2>2, HandTyped DEF ClaimAndSend
<1>8. ASSUME NEW w \in Workers, sweep' = [sweep EXCEPT ![w] = Idle]
      PROVE  sweep' \in [Workers -> Sweep] /\ \A v \in Workers : sweep'[v].moment <= now
  <2>1. Idle \in Sweep /\ Idle.moment <= now
    BY <1>1, EmptyHands DEF Idle, Hand
  <2> QED
    BY <1>4, <1>8, <2>1
<1>9. ASSUME NEW w \in Workers, CommitSweep(w) PROVE Shapes'
  <2>1. claims' \subseteq Keys
    BY <1>1, <1>9 DEF CommitSweep, Sweep
  <2> QED
    BY <1>1, <1>8, <1>9, <2>1, HandTyped DEF CommitSweep
<1>10. ASSUME NEW w \in Workers, CrashSweep(w) \/ DeadlockVictim(w) PROVE Shapes'
  <2>1. crashes' \in 0 .. MaxCrashes /\ deadlocks' \in Nat
    BY <1>1, <1>10, RemindersAssumption DEF CrashSweep, DeadlockVictim
  <2>2. queue' \subseteq queue \cup {now} /\ sweep' = [sweep EXCEPT ![w] = Idle]
    BY <1>10 DEF CrashSweep, DeadlockVictim
  <2> QED
    BY <1>1, <1>8, <1>10, <2>1, <2>2, HandTyped DEF CrashSweep, DeadlockVictim
<1>11. CASE Tick
  <2>1. now' \in 0 .. MaxTime /\ now <= now'
    BY <1>1, <1>11, RemindersAssumption DEF Tick
  <2>2. queue' \subseteq queue \cup {now'}
    BY <1>11 DEF Tick
  <2>3. queue' \subseteq 0 .. now' /\ \A a \in DOMAIN book : book[a].since \in 0 .. now'
    BY <1>1, <2>1, <2>2 DEF Shapes, TypeOK
  <2>4. \A w \in Workers : sweep[w].moment <= now'
    BY <1>1, <2>1 DEF Sweep
  <2> QED
    BY <1>11, <2>1, <2>3, <2>4 DEF Tick, Shapes, TypeOK
<1>12. CASE UNCHANGED vars
  BY <1>12 DEF vars, Shapes, TypeOK
<1> QED
  BY <1>2, <1>3, <1>5, <1>6, <1>7, <1>9, <1>10, <1>11, <1>12 DEF Next

-----------------------------------------------------------------------------
(* What a repeated mail costs *)

LEMMA CostsStep == Shapes /\ Costs /\ [Next]_vars => Costs'
<1> SUFFICES ASSUME Shapes, Costs, [Next]_vars PROVE Costs'
  OBVIOUS
<1>1. /\ sweep \in [Workers -> Sweep] /\ claims \subseteq Keys /\ mails \in [Keys -> Nat]
      /\ crashes \in Nat /\ deadlocks \in Nat
  BY RemindersAssumption DEF Shapes, TypeOK
<1> DEFINE deaths == crashes + deadlocks
<1>2. deaths \in Nat /\ \A key \in Keys : mails[key] \in Nat
  BY <1>1
<1>3. \A key \in Keys : mails[key] <= deaths \/ (mails[key] <= 1 + deaths /\ Taken(key))
  BY DEF Costs
<1>4. (\A key \in Keys : \/ mails'[key] <= deaths'
                         \/ mails'[key] <= 1 + deaths' /\ Taken(key)') => Costs'
  BY DEF Costs
<1> HIDE DEF deaths
<1>5. ASSUME mails' = mails, deaths' = deaths, \A key \in Keys : Taken(key) => Taken(key)' PROVE Costs'
  BY <1>3, <1>4, <1>5
<1>6. ASSUME NEW w \in Workers, StartSweep(w) \/ Select(w) PROVE Costs'
  <2>1. \A v \in Workers : sweep[v].claimed \subseteq sweep'[v].claimed
    <3>1. CASE StartSweep(w)
      BY <1>1, <3>1 DEF StartSweep, Idle, Hand
    <3>2. CASE Select(w)
      BY <1>1, <3>2, AfterSelect
    <3> QED
      BY <1>6, <3>1, <3>2
  <2>2. mails' = mails /\ claims' = claims /\ deaths' = deaths
    BY <1>6 DEF StartSweep, Select, deaths
  <2> QED
    BY <1>5, <2>1, <2>2 DEF Taken
<1>7. ASSUME NEW w \in Workers, ClaimAndSend(w) PROVE Costs'
  <2>1. PICK key \in Keys : key = Head(sweep[w].due)
    BY <1>7, AfterClaim
  <2>2. claims' = claims /\ deaths' = deaths
    BY <1>7 DEF ClaimAndSend, deaths
  <2>3. \A v \in Workers : sweep[v].claimed \subseteq sweep'[v].claimed
    BY <1>1, <1>7, AfterClaim
  <2>4. \A x : Taken(x) => Taken(x)'
    BY <2>2, <2>3 DEF Taken
  <2>5. CASE Claimable(w)
    <3>1. mails' = [mails EXCEPT ![key] = @ + 1] /\ key \in sweep'[w].claimed
      BY <1>1, <1>7, <2>1, <2>5, AfterClaim
    <3>2. ~ Taken(key) /\ Taken(key)'
      BY <1>7, <2>1, <2>5, <3>1 DEF Taken, Claimable, ClaimAndSend, Blockers
    <3>3. mails'[key] = mails[key] + 1 /\ \A x \in Keys \ {key} : mails'[x] = mails[x]
      BY <1>1, <3>1
    <3>4. mails[key] \in Nat /\ mails[key] <= deaths
      BY <1>2, <1>3, <3>2
    <3>5. mails'[key] <= 1 + deaths
      BY <1>2, <3>3, <3>4
    <3> QED
      BY <1>3, <1>4, <2>2, <2>4, <3>2, <3>3, <3>5
  <2>6. CASE ~ Claimable(w)
    <3>1. mails' = mails
      BY <1>7, <2>1, <2>6, AfterClaim
    <3> QED
      BY <1>5, <2>2, <2>4, <3>1
  <2> QED
    BY <2>5, <2>6
<1>8. ASSUME NEW w \in Workers, CommitSweep(w) PROVE Costs'
  <2>1. \A v \in Workers \ {w} : sweep'[v] = sweep[v]
    BY <1>1, <1>8 DEF CommitSweep
  <2>2. \A key \in Keys : Taken(key) => Taken(key)'
    BY <1>8, <2>1 DEF CommitSweep, Taken
  <2> QED
    BY <1>5, <1>8, <2>2 DEF CommitSweep, deaths
<1>9. ASSUME NEW w \in Workers, CrashSweep(w) \/ DeadlockVictim(w) PROVE Costs'
  <2>1. mails' = mails /\ deaths' = 1 + deaths
    BY <1>1, <1>9 DEF CrashSweep, DeadlockVictim, deaths
  <2>2. \A key \in Keys : mails'[key] <= deaths'
    BY <1>2, <1>3, <2>1
  <2> QED
    BY <1>4, <2>2
<1>10. ASSUME UNCHANGED <<sweep, claims, mails, crashes, deadlocks>> PROVE Costs'
  BY <1>10 DEF Costs, Taken
<1> QED
  BY <1>6, <1>7, <1>8, <1>9, <1>10 DEF Next, Book, Move, Leave, Tick, vars

LEMMA ShapesAlways == Spec => []Shapes
<1> QED
  BY ShapesBeginning, ShapesStep, PTL DEF Spec

(* Every variable has its type, whatever sweeps overlap, die and repeat.   *)
THEOREM TypesHold == Spec => []TypeOK
<1>1. Shapes => TypeOK
  BY DEF Shapes
<1> QED
  BY <1>1, ShapesAlways, PTL

(* A reminder is mailed once more only for an execution that died with its *)
(* claim: the mails of a reminder never outnumber those deaths by two.     *)
THEOREM MailsCostDeaths == Spec => []RepeatedOnlyForADeadSweep
<1>1. Init => Costs
  BY DEF Init, Costs
<1>2. Shapes /\ Costs => RepeatedOnlyForADeadSweep
  <2> SUFFICES ASSUME Shapes, Costs, NEW key \in Keys
               PROVE  mails[key] <= 1 + crashes + deadlocks
    BY DEF RepeatedOnlyForADeadSweep
  <2>1. mails[key] \in Nat /\ crashes \in Nat /\ deadlocks \in Nat
    BY RemindersAssumption DEF Shapes, TypeOK
  <2> QED
    BY <2>1 DEF Costs
<1> QED
  BY <1>1, <1>2, CostsStep, ShapesAlways, PTL DEF Spec

-----------------------------------------------------------------------------
(* Nobody is forgotten *)

ClaimsAreMailed == \A key \in Keys : Taken(key) => mails[key] >= 1

(* A beat is taken by a worker in time, so the moment a sweep goes by is   *)
(* close to its beat.                                                      *)
BeatsAreFresh == \A t \in queue : now <= t + MaxDelay

Answered(key) == mails[key] >= 1 \/ InHand(key)

(* Beat t is one whose sweep, however late, finds appointment a due for    *)
(* kind k, since the appointment stood as it is before the beat.           *)
Meets(t, a, k) ==
  /\ t % Interval = 0
  /\ book[a].since < t
  /\ book[a].start < t + Horizon[k] + Window
  /\ t + MaxDelay + Horizon[k] <= book[a].start

(* As long as no sweep has died, such a beat waits or has been answered.   *)
BeatsAreAnswered ==
  crashes = 0 /\ deadlocks = 0 =>
    \A a \in DOMAIN book, k \in KindSet, t \in 0 .. now :
      Meets(t, a, k) => t \in queue \/ Answered(<<a, k>>)

IInv == Shapes /\ ClaimsAreMailed /\ BeatsAreFresh /\ BeatsAreAnswered

LEMMA HeadOrTail ==
  ASSUME NEW S, NEW s \in Seq(S), s # <<>>, NEW x, \E i \in DOMAIN s : s[i] = x, x # Head(s)
  PROVE  \E j \in DOMAIN Tail(s) : Tail(s)[j] = x
<1>1. PICK i \in DOMAIN s : s[i] = x
  OBVIOUS
<1>2. i # 1
  BY <1>1
<1>3. i - 1 \in DOMAIN Tail(s) /\ Tail(s)[i - 1] = s[i]
  BY <1>2
<1> QED
  BY <1>1, <1>3

(* In any stretch of n moments there is a multiple of n.                   *)
LEMMA NextMultiple ==
  ASSUME NEW n \in Nat \ {0}, NEW l \in Nat
  PROVE  \E t \in Nat : l < t /\ t <= l + n /\ t % n = 0
<1> DEFINE t == l - (l % n) + n
<1>1. l % n \in 0 .. n - 1 /\ l % n <= l
  OBVIOUS
<1>2. t % n = 0
  OBVIOUS
<1> QED
  BY <1>1, <1>2

(* InHand, of one execution.                                               *)
Has(w, a, k) ==
  \/ \E i \in DOMAIN sweep[w].due : sweep[w].due[i] = <<a, k>>
  \/ (\E i \in DOMAIN sweep[w].kinds : sweep[w].kinds[i] = k) /\ a \in Due(k, sweep[w].moment)

LEMMA InHandIsHas == ASSUME NEW a, NEW k PROVE InHand(<<a, k>>) <=> \E w \in Workers : Has(w, a, k)
BY DEF InHand, Has

LEMMA InHandIsHasLater ==
  ASSUME NEW a, NEW k PROVE InHand(<<a, k>>)' <=> \E w \in Workers : Has(w, a, k)'
BY DEF InHand, Has

(* The times of an appointment are times.                                  *)
LEMMA TimesOfABooking ==
  ASSUME Shapes, NEW a \in DOMAIN book
  PROVE  book[a].start \in Nat /\ book[a].since \in Nat
<1>1. book[a].start \in Starts /\ book[a].since \in 0 .. now
  BY DEF Shapes, TypeOK
<1>2. Starts \subseteq Nat
  BY RemindersAssumption
<1>3. \A x : x \in 0 .. now => x \in Nat
  OBVIOUS
<1> QED
  BY <1>1, <1>2, <1>3

LEMMA ClaimsMailedStep ==
  ASSUME Shapes, ClaimsAreMailed, [Next]_vars PROVE ClaimsAreMailed'
<1>1. sweep \in [Workers -> Sweep] /\ mails \in [Keys -> Nat] /\ claims \subseteq Keys
  BY DEF Shapes, TypeOK
<1>2. ASSUME NEW w \in Workers, StartSweep(w) \/ Select(w) PROVE ClaimsAreMailed'
  <2>1. \A v \in Workers : sweep'[v].claimed \subseteq sweep[v].claimed
    <3>1. CASE StartSweep(w)
      BY <1>1, <3>1 DEF StartSweep, Hand
    <3>2. CASE Select(w)
      BY <1>1, <3>2, AfterSelect
    <3> QED
      BY <1>2, <3>1, <3>2
  <2>2. mails' = mails /\ claims' = claims
    BY <1>2 DEF StartSweep, Select
  <2> QED
    BY <2>1, <2>2 DEF ClaimsAreMailed, Taken
<1>3. ASSUME NEW w \in Workers, ClaimAndSend(w) PROVE ClaimsAreMailed'
  <2>1. PICK key \in Keys : key = Head(sweep[w].due)
    BY <1>3, AfterClaim
  <2>2. claims' = claims
    BY <1>3 DEF ClaimAndSend
  <2>3. /\ mails' = IF Claimable(w) THEN [mails EXCEPT ![key] = @ + 1] ELSE mails
        /\ \A v \in Workers : \A x \in sweep'[v].claimed :
             x \in sweep[v].claimed \/ (Claimable(w) /\ x = key)
    BY <1>1, <1>3, <2>1, AfterClaim
  <2>4. \A x \in Keys : Taken(x)' => Taken(x) \/ (Claimable(w) /\ x = key)
    BY <2>2, <2>3 DEF Taken
  <2>5. \A x \in Keys : mails'[x] >= mails[x] /\ (Claimable(w) /\ x = key => mails'[x] >= 1)
    BY <1>1, <2>3
  <2>6. \A x \in Keys : mails[x] \in Nat /\ mails'[x] \in Nat
    BY <1>1, <2>3
  <2> QED
    BY <2>4, <2>5, <2>6 DEF ClaimsAreMailed
<1>4. ASSUME NEW w \in Workers, sweep' = [sweep EXCEPT ![w] = Idle], mails' = mails,
             claims' \subseteq claims \cup sweep[w].claimed
      PROVE  ClaimsAreMailed'
  <2>1. \A x \in Keys : Taken(x)' => Taken(x)
    BY <1>1, <1>4 DEF Taken, Idle, Hand
  <2> QED
    BY <1>4, <2>1 DEF ClaimsAreMailed
<1>5. ASSUME NEW w \in Workers, CommitSweep(w) \/ CrashSweep(w) \/ DeadlockVictim(w)
      PROVE  ClaimsAreMailed'
  BY <1>4, <1>5 DEF CommitSweep, CrashSweep, DeadlockVictim
<1>6. ASSUME UNCHANGED <<sweep, claims, mails>> PROVE ClaimsAreMailed'
  BY <1>6 DEF ClaimsAreMailed, Taken
<1> QED
  BY <1>2, <1>3, <1>5, <1>6 DEF Next, Book, Move, Leave, Tick, vars

LEMMA BeatsFreshStep == ASSUME Shapes, BeatsAreFresh, [Next]_vars PROVE BeatsAreFresh'
<1>1. now \in Nat /\ MaxDelay \in Nat /\ \A t \in queue : t \in Nat
  <2>1. now \in 0 .. MaxTime /\ queue \subseteq 0 .. now
    BY DEF Shapes, TypeOK
  <2> QED
    BY <2>1, RemindersAssumption
<1>2. CASE Tick
  <2>1. ASSUME NEW t \in queue' PROVE now' <= t + MaxDelay
    <3>1. CASE t \in queue
      BY <1>1, <1>2, <3>1 DEF Tick
    <3>2. CASE t \notin queue
      BY <1>1, <1>2, <2>1, <3>2 DEF Tick
    <3> QED
      BY <3>1, <3>2
  <2> QED
    BY <2>1 DEF BeatsAreFresh
<1>3. ASSUME now' = now, queue' \subseteq queue \cup {now} PROVE BeatsAreFresh'
  BY <1>1, <1>3 DEF BeatsAreFresh
<1>4. ASSUME NEW a \in Appts, Book(a) \/ Move(a) \/ Leave(a) PROVE BeatsAreFresh'
  BY <1>3, <1>4 DEF Book, Move, Leave
<1>5. ASSUME NEW w \in Workers, StartSweep(w) \/ Select(w) \/ ClaimAndSend(w) PROVE BeatsAreFresh'
  BY <1>3, <1>5 DEF StartSweep, Select, ClaimAndSend
<1>6. ASSUME NEW w \in Workers, CommitSweep(w) \/ CrashSweep(w) \/ DeadlockVictim(w)
      PROVE  BeatsAreFresh'
  BY <1>3, <1>6 DEF CommitSweep, CrashSweep, DeadlockVictim
<1>7. CASE UNCHANGED vars
  BY <1>3, <1>7 DEF vars
<1> QED
  BY <1>2, <1>4, <1>5, <1>6, <1>7 DEF Next

(* What an execution has in hand stays there until it is mailed.           *)
LEMMA HasStays ==
  ASSUME Shapes, ClaimsAreMailed, NEW w \in Workers, NEW a \in DOMAIN book, NEW k \in KindSet,
         Has(w, a, k), book' = book,
         Select(w) \/ ClaimAndSend(w) \/ CommitSweep(w) \/ UNCHANGED <<sweep, mails>>
  PROVE  Has(w, a, k)' \/ mails'[<<a, k>>] >= 1
<1>1. sweep \in [Workers -> Sweep] /\ mails \in [Keys -> Nat] /\ <<a, k>> \in Keys
  BY DEF Shapes, TypeOK, Keys
<1>2. sweep[w].due \in Seq(Keys) /\ sweep[w].kinds \in Seq(KindSet)
  BY <1>1 DEF Sweep
<1>3. \A kind, moment : Due(kind, moment)' = Due(kind, moment)
  BY DEF Due
<1>4. CASE Select(w)
  <2>1. PICK kind \in KindSet : kind = Head(sweep[w].kinds)
    BY <1>4, AfterSelect
  <2>2. /\ sweep[w].due = <<>> /\ sweep[w].kinds \in Seq(KindSet) \ {<<>>}
        /\ sweep'[w].kinds = Tail(sweep[w].kinds) /\ sweep'[w].moment = sweep[w].moment
    BY <1>4, <2>1, AfterSelect
  <2>3. \A x \in Due(kind, sweep[w].moment) :
          \E i \in DOMAIN sweep'[w].due : sweep'[w].due[i] = <<x, kind>>
    BY <1>4, <2>1, AfterSelect, ZenonT(60)
  <2>4. a \in Due(k, sweep[w].moment) /\ \E i \in DOMAIN sweep[w].kinds : sweep[w].kinds[i] = k
    BY <2>2 DEF Has
  <2>5. CASE k = kind
    <3>1. \E i \in DOMAIN sweep'[w].due : sweep'[w].due[i] = <<a, k>>
      BY <2>3, <2>4, <2>5
    <3> QED
      BY <3>1 DEF Has
  <2>6. CASE k # kind
    <3>1. \E j \in DOMAIN Tail(sweep[w].kinds) : Tail(sweep[w].kinds)[j] = k
      BY <1>2, <2>1, <2>2, <2>4, <2>6, HeadOrTail
    <3> QED
      BY <1>3, <2>2, <2>4, <3>1 DEF Has
  <2> QED
    BY <2>5, <2>6
<1>5. CASE ClaimAndSend(w)
  <2>1. PICK key \in Keys : key = Head(sweep[w].due)
    BY <1>5, AfterClaim
  <2>2. /\ sweep[w].due \in Seq(Keys) \ {<<>>}
        /\ sweep'[w].due = Tail(sweep[w].due) /\ sweep'[w].kinds = sweep[w].kinds
        /\ sweep'[w].moment = sweep[w].moment
        /\ mails' = IF Claimable(w) THEN [mails EXCEPT ![key] = @ + 1] ELSE mails
    BY <1>5, <2>1, AfterClaim
  <2>3. CASE key = <<a, k>>
    <3>1. CASE Claimable(w)
      <4>1. mails'[key] = mails[key] + 1 /\ mails[key] \in Nat
        BY <1>1, <2>1, <2>2, <3>1
      <4> QED
        BY <2>3, <4>1
    <3>2. CASE ~ Claimable(w)
      <4>1. Taken(key)
        BY <2>1, <3>2 DEF Claimable, Taken
      <4> QED
        BY <2>1, <2>2, <2>3, <3>2, <4>1 DEF ClaimsAreMailed
    <3> QED
      BY <3>1, <3>2
  <2>4. CASE key # <<a, k>>
    <3>1. CASE \E i \in DOMAIN sweep[w].due : sweep[w].due[i] = <<a, k>>
      <4>1. \E j \in DOMAIN Tail(sweep[w].due) : Tail(sweep[w].due)[j] = <<a, k>>
        BY <1>2, <2>1, <2>2, <2>4, <3>1, HeadOrTail, ZenonT(60)
      <4> QED
        BY <2>2, <4>1 DEF Has
    <3>2. CASE (\E i \in DOMAIN sweep[w].kinds : sweep[w].kinds[i] = k) /\ a \in Due(k, sweep[w].moment)
      BY <1>3, <2>2, <3>2 DEF Has
    <3> QED
      BY <3>1, <3>2 DEF Has
  <2> QED
    BY <2>3, <2>4
<1>6. CASE CommitSweep(w)
  <2>1. DOMAIN sweep[w].due = {} /\ DOMAIN sweep[w].kinds = {}
    BY <1>6 DEF CommitSweep, Working
  <2> QED
    BY <2>1 DEF Has
<1>7. CASE UNCHANGED <<sweep, mails>>
  BY <1>3, <1>7 DEF Has
<1> QED
  BY <1>4, <1>5, <1>6, <1>7

LEMMA BeatsAnsweredStep ==
  ASSUME Shapes, ClaimsAreMailed, BeatsAreFresh, BeatsAreAnswered, [Next]_vars
  PROVE  BeatsAreAnswered'
<1>1. /\ sweep \in [Workers -> Sweep] /\ now \in Nat /\ mails \in [Keys -> Nat]
      /\ crashes \in Nat /\ deadlocks \in Nat /\ MaxDelay \in Nat /\ Window \in Nat
      /\ Horizon \in [KindSet -> Nat]
  BY RemindersAssumption DEF Shapes, TypeOK
<1>2. \A a \in DOMAIN book : book[a].start \in Nat /\ book[a].since \in Nat
  BY TimesOfABooking
<1> SUFFICES ASSUME crashes' = 0, deadlocks' = 0,
                    NEW a \in DOMAIN book', NEW k \in KindSet, NEW t \in 0 .. now', Meets(t, a, k)'
             PROVE  t \in queue' \/ Answered(<<a, k>>)'
  BY DEF BeatsAreAnswered
<1>3. <<a, k>> \in Keys => mails[<<a, k>>] \in Nat
  BY <1>1
(* A step that leaves the appointment, the clock and the queue alone, and  *)
(* the answer where it is.                                                 *)
<1>4. ASSUME crashes = 0, deadlocks = 0, now' = now, a \in DOMAIN book, book'[a] = book[a], queue \subseteq queue',
             Answered(<<a, k>>) => Answered(<<a, k>>)'
      PROVE  t \in queue' \/ Answered(<<a, k>>)'
  BY <1>4 DEF BeatsAreAnswered, Meets
<1>5. ASSUME NEW c \in Appts, Book(c) \/ Move(c) \/ Leave(c) PROVE t \in queue' \/ Answered(<<a, k>>)'
  <2>1. /\ UNCHANGED <<now, queue, sweep, mails, crashes, deadlocks>>
        /\ \A x \in DOMAIN book' : \/ (x \in DOMAIN book /\ book'[x] = book[x])
                                  \/ (x = c /\ book'[x].since = now)
    <3>1. CASE Book(c)
      BY <3>1 DEF Book
    <3>2. CASE Move(c)
      BY <3>2 DEF Move
    <3>3. CASE Leave(c)
      BY <3>3 DEF Leave
    <3> QED
      BY <1>5, <3>1, <3>2, <3>3
  <2>2. a \in DOMAIN book /\ book'[a] = book[a]
    BY <1>1, <2>1 DEF Meets
  <2>3. \A m : a \in Due(k, m) <=> (a \in Due(k, m))'
    BY <2>2 DEF Due
  <2>4. \A w \in Workers : Has(w, a, k) => Has(w, a, k)'
    BY <2>1, <2>3 DEF Has
  <2>5. Answered(<<a, k>>) => Answered(<<a, k>>)'
    BY <2>1, <2>4, InHandIsHas, InHandIsHasLater DEF Answered
  <2> QED
    BY <1>4, <2>1, <2>2, <2>5
<1>6. ASSUME book' = book, UNCHANGED <<crashes, deadlocks>>, a \in DOMAIN book,
             NEW w \in Workers, \A v \in Workers \ {w} : sweep'[v] = sweep[v],
             mails' \in [Keys -> Nat], \A key \in Keys : mails'[key] >= mails[key],
             Has(w, a, k) => Has(w, a, k)' \/ mails'[<<a, k>>] >= 1
      PROVE  Answered(<<a, k>>) => Answered(<<a, k>>)'
  <2>1. <<a, k>> \in Keys
    BY <1>6 DEF Shapes, TypeOK, Keys
  <2>2. mails[<<a, k>>] >= 1 => mails'[<<a, k>>] >= 1
    BY <1>1, <1>6, <2>1
  <2>3. \A v \in Workers \ {w} : Has(v, a, k) => Has(v, a, k)'
    <3>1. \A m : a \in Due(k, m) => (a \in Due(k, m))'
      BY <1>6 DEF Due
    <3> QED
      BY <1>6, <3>1 DEF Has
  <2>4. InHand(<<a, k>>) => InHand(<<a, k>>)' \/ mails'[<<a, k>>] >= 1
    BY <1>6, <2>3, InHandIsHas, InHandIsHasLater
  <2> QED
    BY <2>2, <2>4 DEF Answered
<1>7. ASSUME NEW w \in Workers, StartSweep(w) PROVE t \in queue' \/ Answered(<<a, k>>)'
  <2>1. /\ UNCHANGED <<now, book, claims, mails, crashes, deadlocks>>
        /\ sweep' = [sweep EXCEPT ![w] = Hand(Kinds, <<>>, {}, now)]
        /\ sweep[w] = Idle
    BY <1>7 DEF StartSweep
  <2>2. PICK taken \in queue : queue' = queue \ {taken}
    BY <1>7 DEF StartSweep
  <2>3. ~ Has(w, a, k)
    BY <2>1 DEF Has, Idle, Hand
  <2>4. Answered(<<a, k>>) => Answered(<<a, k>>)'
    <3>1. a \in DOMAIN book /\ book' = book /\ UNCHANGED <<crashes, deadlocks>>
      BY <2>1
    <3>2. \A v \in Workers \ {w} : sweep'[v] = sweep[v]
      BY <1>1, <2>1
    <3>3. mails' \in [Keys -> Nat] /\ \A key \in Keys : mails'[key] >= mails[key]
      BY <1>1, <2>1
    <3> QED
      BY <1>6, <2>3, <3>1, <3>2, <3>3
  <2>5. CASE t # taken
    BY <2>1, <2>2, <2>4, <2>5 DEF BeatsAreAnswered, Meets
  <2>6. CASE t = taken
    <3>1. now <= t + MaxDelay /\ t <= now
      BY <2>1, <2>2, <2>6 DEF BeatsAreFresh
    <3>2. t + MaxDelay + Horizon[k] <= book[a].start /\ book[a].start < t + Horizon[k] + Window
      BY <2>1 DEF Meets
    <3>3. a \in Due(k, now)
      <4>1. Horizon[k] \in Nat /\ book[a].start \in Nat /\ a \in DOMAIN book /\ t \in Nat
        BY <1>1, <1>2, <2>1
      <4>2. book[a].start >= now + Horizon[k] /\ book[a].start < now + Horizon[k] + Window
        BY <1>1, <3>1, <3>2, <4>1
      <4> QED
        BY <4>1, <4>2 DEF Due
    <3>4. \E i \in DOMAIN Kinds : Kinds[i] = k
      BY DEF KindSet
    <3>5. Has(w, a, k)'
      <4>1. sweep'[w].kinds = Kinds /\ sweep'[w].moment = now
        BY <1>1, <2>1 DEF Hand
      <4>2. (a \in Due(k, now))' 
        BY <2>1, <3>3 DEF Due
      <4> QED
        BY <2>1, <3>4, <4>1, <4>2 DEF Has
    <3> QED
      BY <3>5, InHandIsHasLater DEF Answered
  <2> QED
    BY <2>5, <2>6
<1>8. ASSUME NEW w \in Workers, Select(w) \/ ClaimAndSend(w) \/ CommitSweep(w)
      PROVE  t \in queue' \/ Answered(<<a, k>>)'
  <2>1. UNCHANGED <<now, book, queue, crashes, deadlocks>>
    BY <1>8 DEF Select, ClaimAndSend, CommitSweep
  <2>2. \A v \in Workers \ {w} : sweep'[v] = sweep[v]
    BY <1>1, <1>8, AfterSelect, AfterClaim DEF CommitSweep
  <2>3. mails' \in [Keys -> Nat] /\ \A key \in Keys : mails'[key] >= mails[key]
    <3>1. CASE ClaimAndSend(w)
      <4>1. PICK key \in Keys : key = Head(sweep[w].due)
        BY <3>1, AfterClaim
      <4>2. mails' = IF Claimable(w) THEN [mails EXCEPT ![key] = @ + 1] ELSE mails
        BY <3>1, <4>1, AfterClaim
      <4> QED
        BY <1>1, <4>1, <4>2
    <3>2. CASE mails' = mails
      BY <1>1, <3>2
    <3> QED
      BY <1>8, <3>1, <3>2 DEF Select, CommitSweep
  <2>4. a \in DOMAIN book /\ (Has(w, a, k) => Has(w, a, k)' \/ mails'[<<a, k>>] >= 1)
    BY <1>8, <2>1, HasStays
  <2>5. Answered(<<a, k>>) => Answered(<<a, k>>)'
    BY <1>6, <2>1, <2>2, <2>3, <2>4
  <2> QED
    BY <1>4, <2>1, <2>4, <2>5
<1>9. ASSUME NEW w \in Workers, CrashSweep(w) \/ DeadlockVictim(w) PROVE FALSE
  BY <1>1, <1>9 DEF CrashSweep, DeadlockVictim
<1>10. CASE Tick
  <2>1. UNCHANGED <<book, sweep, claims, mails, crashes, deadlocks>> /\ queue \subseteq queue' /\ now' = now + 1
    BY <1>10 DEF Tick
  <2>2. Answered(<<a, k>>) => Answered(<<a, k>>)'
    BY <2>1 DEF Answered, InHand, Due
  <2>3. CASE t <= now
    <3>1. t \in 0 .. now
      BY <1>1, <2>1, <2>3
    <3> QED
      BY <2>1, <2>2, <3>1 DEF BeatsAreAnswered, Meets
  <2>4. CASE ~ t <= now
    <3>1. t = now'
      BY <1>1, <2>1, <2>4
    <3> QED
      BY <1>10, <3>1 DEF Tick, Meets
  <2> QED
    BY <2>3, <2>4
<1>11. CASE UNCHANGED vars
  BY <1>11 DEF vars, BeatsAreAnswered, Meets, Answered, InHand, Due
<1> QED
  BY <1>5, <1>7, <1>8, <1>9, <1>10, <1>11 DEF Next

LEMMA Inductive == Spec => []IInv
<1>1. Init => IInv
  <2> SUFFICES ASSUME Init PROVE IInv
    OBVIOUS
  <2>1. Shapes
    BY ShapesBeginning
  <2>2. ClaimsAreMailed
    BY DEF Init, ClaimsAreMailed, Taken, Idle, Hand
  <2>3. BeatsAreFresh
    BY RemindersAssumption DEF Init, BeatsAreFresh
  <2>4. BeatsAreAnswered
    <3>1. DOMAIN book = {}
      BY DEF Init
    <3> QED
      BY <3>1 DEF BeatsAreAnswered
  <2> QED
    BY <2>1, <2>2, <2>3, <2>4 DEF IInv
<1>2. IInv /\ [Next]_vars => IInv'
  BY ShapesStep, ClaimsMailedStep, BeatsFreshStep, BeatsAnsweredStep DEF IInv
<1> QED
  BY <1>1, <1>2, PTL DEF Spec

(* If the window covers the interval and the delay of a sweep, and no      *)
(* sweep dies, an appointment that stood as it is before its window opened *)
(* has its mail, or is in the hands of a sweep, when the window has closed:*)
(* whatever the horizons and however sweeps overlap.                       *)
THEOREM WideWindowForgetsNobody ==
  ASSUME Window >= Interval + MaxDelay
  PROVE  Spec => []NobodyIsForgotten
<1>1. ASSUME IInv, NEW a \in DOMAIN book, NEW k \in KindSet, crashes = 0, deadlocks = 0,
             book[a].since + Horizon[k] + Window <= book[a].start,
             book[a].start < now + Horizon[k]
      PROVE  Answered(<<a, k>>)
  <2>1. /\ now \in Nat /\ MaxDelay \in Nat /\ Window \in Nat /\ Interval \in Nat \ {0}
        /\ Horizon[k] \in Nat
    BY <1>1, RemindersAssumption DEF IInv, Shapes, TypeOK
  <2>2. book[a].start \in Nat /\ book[a].since \in Nat
    BY <1>1, TimesOfABooking DEF IInv
  <2> DEFINE l == book[a].start - Horizon[k] - Window
  <2>3. l \in Nat /\ book[a].since <= l
    BY <1>1, <2>1, <2>2
  <2>4. PICK t \in Nat : l < t /\ t <= l + Interval /\ t % Interval = 0
    BY <2>1, <2>3, NextMultiple
  <2>5. /\ book[a].since < t /\ book[a].start < t + Horizon[k] + Window
        /\ t + MaxDelay + Horizon[k] <= book[a].start /\ t + MaxDelay < now
    BY <1>1, <2>1, <2>2, <2>3, <2>4
  <2>6. t \in 0 .. now /\ Meets(t, a, k)
    BY <2>1, <2>4, <2>5 DEF Meets
  <2>7. t \notin queue
    BY <1>1, <2>1, <2>5 DEF IInv, BeatsAreFresh
  <2> QED
    BY <1>1, <2>6, <2>7 DEF IInv, BeatsAreAnswered
<1>2. IInv => NobodyIsForgotten
  BY <1>1 DEF NobodyIsForgotten, Answered
<1> QED
  BY <1>2, Inductive, PTL
=============================================================================
