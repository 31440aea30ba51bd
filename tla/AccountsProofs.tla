--------------------------- MODULE AccountsProofs ---------------------------
(***************************************************************************)
(* Theorems about Accounts, for any number of handlers, users, tokens,     *)
(* processes and clients.  The limiter only ever holds operations back, so *)
(* what holds of Sessions holds of Accounts.                               *)
(***************************************************************************)
EXTENDS Accounts, Integers, SequenceTheorems, WellFoundedInduction, TLAPS

(* The inductive invariant.  A token that was exchanged is revoked, and    *)
(* what a handler has in hand was not yet exchanged by that same handler:  *)
(* its own exchange would have to come between its read and its commit.    *)
ExchangedIsRevoked ==
  \A t \in DOMAIN tokens : tokens[t].parent # None => ~TokenIsLive(tokens[t].parent)

InHandIsUnspent ==
  \A r \in Requests, t \in DOMAIN tokens :
    req[r].op = "refresh" /\ tokens[t].parent = req[r].token => tokens[t].by # r

Chains == ExchangedIsRevoked /\ InHandIsUnspent /\ ExchangedOncePerHandler

-----------------------------------------------------------------------------
(* A stamped table is a table of the same tokens, each from the same       *)
(* exchange.  A token that is live in it was live before and is not one of *)
(* the stamped; a token this revokes remembers who has it in hand.         *)
LEMMA Stamped ==
  ASSUME SessionsAssumption, TypeOK, NEW S
  PROVE  /\ DOMAIN Stamp(S) = DOMAIN tokens
         /\ Stamp(S) \in [DOMAIN tokens -> Token]
         /\ \A x \in DOMAIN tokens :
              /\ Stamp(S)[x].user = tokens[x].user
              /\ Stamp(S)[x].parent = tokens[x].parent
              /\ Stamp(S)[x].by = tokens[x].by
              /\ Stamp(S)[x].live => tokens[x].live /\ x \notin S
              /\ ~tokens[x].live => ~Stamp(S)[x].live /\ Stamp(S)[x].late = tokens[x].late
              /\ tokens[x].live /\ ~Stamp(S)[x].live => Stamp(S)[x].late = InHand(x)
<1> USE DEF Stamp, TypeOK, Token, TokenIsLive
<1>1. DOMAIN Stamp(S) = DOMAIN tokens
  OBVIOUS
<1>2. ASSUME NEW x \in DOMAIN tokens
      PROVE  /\ Stamp(S)[x] \in Token
             /\ Stamp(S)[x].user = tokens[x].user
             /\ Stamp(S)[x].parent = tokens[x].parent
             /\ Stamp(S)[x].by = tokens[x].by
             /\ Stamp(S)[x].live => tokens[x].live /\ x \notin S
             /\ ~tokens[x].live => ~Stamp(S)[x].live /\ Stamp(S)[x].late = tokens[x].late
             /\ tokens[x].live /\ ~Stamp(S)[x].live => Stamp(S)[x].late = InHand(x)
  <2>1. tokens[x] \in Token
    OBVIOUS
  <2>2. CASE x \in S /\ tokens[x].live
    <3>1. Stamp(S)[x] = [tokens[x] EXCEPT !.live = FALSE, !.late = InHand(x)]
      BY <1>2, <2>2
    <3>2. InHand(x) \in SUBSET Requests
      BY DEF InHand
    <3> QED
      BY <2>1, <2>2, <3>1, <3>2
  <2>3. CASE ~(x \in S /\ tokens[x].live)
    <3>1. Stamp(S)[x] = tokens[x]
      BY <1>2, <2>3
    <3> QED
      BY <2>1, <2>3, <3>1
  <2> QED
    BY <2>2, <2>3
<1>3. Stamp(S) \in [DOMAIN tokens -> Token]
  BY <1>2
<1> QED
  BY <1>1, <1>2, <1>3

(* A table with one more token issued by a handler has its type.           *)
LEMMA Issued ==
  ASSUME SessionsAssumption, TypeOK,
         NEW rows \in [DOMAIN tokens -> Token],
         \A x \in DOMAIN tokens : rows[x].user = tokens[x].user /\ rows[x].parent = tokens[x].parent,
         NEW u \in Users, NEW p \in DOMAIN tokens \cup {None}, NEW r \in Requests \cup {None},
         IssuePair(u, p, r, rows)
  PROVE  /\ DOMAIN tokens \subseteq DOMAIN tokens' /\ DOMAIN tokens' \subseteq Tokens
         /\ tokens' \in [DOMAIN tokens' -> Token]
         /\ \A x \in DOMAIN tokens : tokens'[x] = rows[x]
         /\ \A x \in DOMAIN tokens' \ DOMAIN tokens :
              tokens'[x].user = u /\ tokens'[x].parent = p /\ tokens'[x].by = r
         /\ \A x, y \in DOMAIN tokens' \ DOMAIN tokens : x = y
         /\ \A x \in DOMAIN tokens' : tokens'[x].parent \in DOMAIN tokens \cup {None}
<1>1. PICK t \in Tokens \ DOMAIN tokens :
        tokens' = [x \in DOMAIN rows \cup {t} |->
                     IF x = t THEN [user |-> u, issued |-> now, live |-> TRUE,
                                    parent |-> p, by |-> r, late |-> {}]
                     ELSE rows[x]]
  BY DEF IssuePair
<1>2. DOMAIN tokens' = DOMAIN tokens \cup {t} /\ DOMAIN tokens \subseteq Tokens
  BY <1>1 DEF TypeOK
<1>3. \A x \in DOMAIN tokens : tokens'[x] = rows[x]
  BY <1>1
<1>4. tokens'[t] = [user |-> u, issued |-> now, live |-> TRUE,
                    parent |-> p, by |-> r, late |-> {}]
  BY <1>1
<1>5. tokens'[t] \in Token
  BY <1>2, <1>4 DEF TypeOK, Token
<1>6. tokens' \in [DOMAIN tokens' -> Token]
  <2>1. \A x \in DOMAIN tokens' : tokens'[x] \in Token
    BY <1>2, <1>3, <1>5
  <2> QED
    BY <1>1, <1>2, <2>1
<1>7. \A x \in DOMAIN tokens' : tokens'[x].parent \in DOMAIN tokens \cup {None}
  BY <1>2, <1>3, <1>4 DEF TypeOK
<1> QED
  BY <1>2, <1>3, <1>4, <1>6, <1>7

-----------------------------------------------------------------------------
(* Typing of one step: what the tables and the handlers refer to exists.   *)
LEMMA TypingStep == SessionsAssumption /\ TypeOK /\ [Next]_vars => TypeOK'
<1> SUFFICES ASSUME SessionsAssumption, TypeOK, [Next]_vars PROVE TypeOK'
  OBVIOUS
<1> USE SessionsAssumption
<1>1. ASSUME NEW r \in Requests, Register(r) PROVE TypeOK'
  BY <1>1 DEF Register, Keep, TypeOK, Req
<1>2. ASSUME NEW r \in Requests, CommitRegister(r) PROVE TypeOK'
  <2> DEFINE q == req[r]
  <2>1. q.user \in Users /\ q.email \in Emails
    BY <1>2 DEF CommitRegister, TypeOK, Req
  <2>2. IssuePair(q.user, None, None, tokens)
    BY <1>2 DEF CommitRegister
  <2>3. /\ tokens' \in [DOMAIN tokens' -> Token] /\ DOMAIN tokens' \subseteq Tokens
        /\ DOMAIN tokens \subseteq DOMAIN tokens'
        /\ \A x \in DOMAIN tokens : tokens'[x] = tokens[x]
        /\ \A x \in DOMAIN tokens' \ DOMAIN tokens : tokens'[x].user = q.user
        /\ \A x \in DOMAIN tokens' : tokens'[x].parent \in DOMAIN tokens \cup {None}
    BY <2>1, <2>2, Issued DEF TypeOK
  <2>4. /\ DOMAIN accounts' = DOMAIN accounts \cup {q.user}
        /\ accounts' \in [DOMAIN accounts' -> Emails]
    BY <1>2, <2>1 DEF CommitRegister, TypeOK
  <2>5. req' \in [Requests -> Req] /\ \A x \in Requests : req'[x] = req[x] \/ req'[x].op = "idle"
    BY <1>2 DEF CommitRegister, Keep, TypeOK, Idle, Req
  <2> QED
    BY <1>2, <2>1, <2>3, <2>4, <2>5 DEF CommitRegister, TypeOK
<1>3. ASSUME NEW r \in Requests, Login(r) PROVE TypeOK'
  <2>1. PICK u \in DOMAIN accounts : IssuePair(u, None, None, tokens)
    BY <1>3 DEF Login
  <2>2. /\ tokens' \in [DOMAIN tokens' -> Token] /\ DOMAIN tokens' \subseteq Tokens
        /\ DOMAIN tokens \subseteq DOMAIN tokens'
        /\ \A x \in DOMAIN tokens : tokens'[x] = tokens[x]
        /\ \A x \in DOMAIN tokens' \ DOMAIN tokens : tokens'[x].user = u
        /\ \A x \in DOMAIN tokens' : tokens'[x].parent \in DOMAIN tokens \cup {None}
    BY <2>1, Issued DEF TypeOK
  <2> QED
    BY <1>3, <2>1, <2>2 DEF Login, TypeOK
<1>4. ASSUME NEW r \in Requests, Refresh(r) PROVE TypeOK'
  BY <1>4 DEF Refresh, Keep, TypeOK, Req
<1>5. ASSUME NEW r \in Requests, CommitRefresh(r) PROVE TypeOK'
  <2> DEFINE p == req[r].token
             rows == Stamp({p})
  <2>1. p \in DOMAIN tokens /\ tokens[p].user \in Users
    BY <1>5 DEF CommitRefresh, TypeOK, Token
  <2>2. IssuePair(tokens[p].user, p, r, rows)
    BY <1>5 DEF CommitRefresh
  <2>3. /\ rows \in [DOMAIN tokens -> Token]
        /\ \A x \in DOMAIN tokens : rows[x].user = tokens[x].user /\ rows[x].parent = tokens[x].parent
    BY Stamped
  <2> HIDE DEF rows
  <2>4. /\ tokens' \in [DOMAIN tokens' -> Token] /\ DOMAIN tokens' \subseteq Tokens
        /\ DOMAIN tokens \subseteq DOMAIN tokens'
        /\ \A x \in DOMAIN tokens : tokens'[x] = rows[x]
        /\ \A x \in DOMAIN tokens' \ DOMAIN tokens : tokens'[x].user = tokens[p].user
        /\ \A x \in DOMAIN tokens' : tokens'[x].parent \in DOMAIN tokens \cup {None}
    BY <2>1, <2>2, <2>3, Issued
  <2>5. req' \in [Requests -> Req] /\ \A x \in Requests : req'[x] = req[x] \/ req'[x].op = "idle"
    BY <1>5 DEF CommitRefresh, Keep, TypeOK, Idle, Req
  <2> QED
    BY <1>5, <2>1, <2>3, <2>4, <2>5 DEF CommitRefresh, TypeOK
<1>6. ASSUME NEW S, tokens' = Stamp(S),
             req' \in [Requests -> Req],
             \A x \in Requests : req'[x] = req[x] \/ req'[x].op = "idle",
             UNCHANGED <<now, accounts>>
      PROVE TypeOK'
  BY <1>6, Stamped DEF TypeOK
<1>7. ASSUME NEW r \in Requests, Reuse(r) PROVE TypeOK'
  <2>1. PICK t \in DOMAIN tokens : Keep(r, [op |-> "reuse", found |-> FoundLive(t)])
    BY <1>7 DEF Reuse
  <2>2. FoundLive(t) \subseteq DOMAIN tokens /\ DOMAIN tokens \subseteq Tokens
    BY DEF FoundLive, TypeOK
  <2>3. [op |-> "reuse", found |-> FoundLive(t)] \in Req
    BY <2>2 DEF Req
  <2> QED
    BY <1>7, <2>1, <2>2, <2>3 DEF Reuse, Keep, TypeOK
<1>8. ASSUME NEW r \in Requests, Logout(r) PROVE TypeOK'
  BY <1>8 DEF Logout, Keep, TypeOK, Req
<1>9. ASSUME NEW r \in Requests, CommitReuse(r) \/ CommitLogout(r) PROVE TypeOK'
  <2>1. req' \in [Requests -> Req] /\ \A x \in Requests : req'[x] = req[x] \/ req'[x].op = "idle"
    BY <1>9 DEF CommitReuse, CommitLogout, Keep, TypeOK, Idle, Req
  <2> QED
    BY <1>6, <1>9, <2>1 DEF CommitReuse, CommitLogout
<1>10. ASSUME NEW r \in Requests, Abandon(r) PROVE TypeOK'
  BY <1>10 DEF Abandon, Keep, TypeOK, Idle, Req
<1>11. CASE Tick
  BY <1>11 DEF Tick, TypeOK
<1>12. CASE UNCHANGED vars
  BY <1>12 DEF vars, TypeOK
<1> QED
  BY <1>1, <1>2, <1>3, <1>4, <1>5, <1>7, <1>8, <1>9, <1>10, <1>11, <1>12 DEF Next, SignIn, Proceed

-----------------------------------------------------------------------------
(* What a step that issues no token, and lets no handler take a token in   *)
(* hand, does to the chains: nothing, if it only stamps.                   *)
LEMMA ChainsStamped ==
  ASSUME SessionsAssumption, TypeOK, Chains, NEW S, tokens' = Stamp(S),
         \A r \in Requests : req'[r].op = "refresh" => req'[r] = req[r]
  PROVE  Chains'
<1>1. /\ DOMAIN tokens' = DOMAIN tokens
      /\ \A x \in DOMAIN tokens :
           /\ tokens'[x].parent = tokens[x].parent /\ tokens'[x].by = tokens[x].by
           /\ tokens'[x].live => tokens[x].live
  BY Stamped
<1>2. \A x \in DOMAIN tokens : tokens[x].parent \in DOMAIN tokens \cup {None}
  BY DEF TypeOK
<1> QED
  BY <1>1, <1>2 DEF Chains, ExchangedIsRevoked, InHandIsUnspent, ExchangedOncePerHandler, TokenIsLive

(* A sign-in starts a new chain and leaves the others alone.               *)
LEMMA ChainsSignIn ==
  ASSUME SessionsAssumption, TypeOK, Chains, NEW u \in Users,
         IssuePair(u, None, None, tokens),
         \A r \in Requests : req'[r].op = "refresh" => req'[r] = req[r]
  PROVE  Chains'
<1>1. /\ DOMAIN tokens \subseteq DOMAIN tokens'
      /\ \A x \in DOMAIN tokens : tokens'[x] = tokens[x]
      /\ \A x \in DOMAIN tokens' \ DOMAIN tokens : tokens'[x].parent = None
  BY Issued DEF TypeOK
<1>2. \A x \in DOMAIN tokens : tokens[x].parent \in DOMAIN tokens \cup {None}
  BY DEF TypeOK
<1>3. \A r \in Requests : req'[r].op = "refresh" => req'[r].token \in DOMAIN tokens
  BY DEF TypeOK
<1>4. None \notin DOMAIN tokens
  BY DEF TypeOK, SessionsAssumption
<1>5. ExchangedIsRevoked'
  BY <1>1, <1>2 DEF Chains, ExchangedIsRevoked, TokenIsLive
<1>6. InHandIsUnspent'
  BY <1>1, <1>3, <1>4 DEF Chains, InHandIsUnspent
<1>7. ExchangedOncePerHandler'
  BY <1>1 DEF Chains, ExchangedOncePerHandler
<1> QED
  BY <1>5, <1>6, <1>7 DEF Chains

(* A read takes in hand a live token, which nobody has exchanged.          *)
LEMMA ChainsRead ==
  ASSUME SessionsAssumption, TypeOK, Chains, NEW r \in Requests, Refresh(r)
  PROVE  Chains'
<1>1. PICK t \in DOMAIN tokens : MayExchange(t) /\ Keep(r, [op |-> "refresh", token |-> t])
  BY DEF Refresh
<1>2. tokens' = tokens /\ req' = [req EXCEPT ![r] = [op |-> "refresh", token |-> t]]
  BY <1>1 DEF Refresh, Keep
<1>3. TokenIsLive(t) /\ t # None
  BY <1>1 DEF MayExchange, TypeOK, SessionsAssumption
<1>4. \A x \in DOMAIN tokens : tokens[x].parent # t
  BY <1>3 DEF Chains, ExchangedIsRevoked
<1>5. InHandIsUnspent'
  <2> SUFFICES ASSUME NEW h \in Requests, NEW x \in DOMAIN tokens,
                      req'[h].op = "refresh", tokens[x].parent = req'[h].token
               PROVE  tokens[x].by # h
    BY <1>2 DEF InHandIsUnspent
  <2>1. h # r
    BY <1>2, <1>4 DEF TypeOK
  <2> QED
    BY <1>2, <2>1 DEF Chains, InHandIsUnspent, TypeOK
<1> QED
  BY <1>2, <1>5 DEF Chains, ExchangedIsRevoked, ExchangedOncePerHandler, TokenIsLive

(* An exchange adds the one child this handler gives the token it read,    *)
(* and revokes that token if another handler has not.                      *)
LEMMA ChainsExchange ==
  ASSUME SessionsAssumption, TypeOK, Chains, NEW r \in Requests, CommitRefresh(r)
  PROVE  Chains'
<1> DEFINE p == req[r].token
           rows == Stamp({p})
<1>1. p \in DOMAIN tokens /\ tokens[p].user \in Users /\ p # None
  BY DEF CommitRefresh, TypeOK, Token, SessionsAssumption
<1>2. /\ rows \in [DOMAIN tokens -> Token]
      /\ \A x \in DOMAIN tokens :
           /\ rows[x].user = tokens[x].user
           /\ rows[x].parent = tokens[x].parent /\ rows[x].by = tokens[x].by
           /\ rows[x].live => tokens[x].live /\ x # p
  BY Stamped
<1>3. IssuePair(tokens[p].user, p, r, rows)
  BY DEF CommitRefresh
<1> HIDE DEF rows
<1>4. /\ DOMAIN tokens \subseteq DOMAIN tokens'
      /\ \A x \in DOMAIN tokens : tokens'[x] = rows[x]
      /\ \A x \in DOMAIN tokens' \ DOMAIN tokens : tokens'[x].parent = p /\ tokens'[x].by = r
      /\ \A x, y \in DOMAIN tokens' \ DOMAIN tokens : x = y
  BY <1>1, <1>2, <1>3, Issued
<1>5. /\ \A h \in Requests : req'[h].op = "refresh" => h # r /\ req'[h] = req[h]
      /\ \A x \in DOMAIN tokens : tokens[x].parent = p => tokens[x].by # r
  BY DEF CommitRefresh, Keep, Idle, TypeOK, Chains, InHandIsUnspent
<1>6. \A x \in DOMAIN tokens : tokens[x].parent \in DOMAIN tokens \cup {None}
  BY DEF TypeOK
<1>7. ExchangedIsRevoked'
  BY <1>1, <1>2, <1>4, <1>6 DEF Chains, ExchangedIsRevoked, TokenIsLive
<1>8. InHandIsUnspent'
  BY <1>2, <1>4, <1>5 DEF Chains, InHandIsUnspent
<1>9. ExchangedOncePerHandler'
  BY <1>2, <1>4, <1>5 DEF Chains, ExchangedOncePerHandler
<1> QED
  BY <1>7, <1>8, <1>9 DEF Chains

LEMMA ChainsStep == SessionsAssumption /\ TypeOK /\ Chains /\ [Next]_vars => Chains'
<1> SUFFICES ASSUME SessionsAssumption, TypeOK, Chains, [Next]_vars PROVE Chains'
  OBVIOUS
<1>1. ASSUME tokens' = tokens,
             \A r \in Requests : req'[r].op = "refresh" => req'[r] = req[r]
      PROVE  Chains'
  BY <1>1 DEF Chains, ExchangedIsRevoked, InHandIsUnspent, ExchangedOncePerHandler, TokenIsLive
<1>2. ASSUME NEW r \in Requests, Register(r) PROVE Chains'
  BY <1>1, <1>2 DEF Register, Keep, TypeOK
<1>3. ASSUME NEW r \in Requests, CommitRegister(r) PROVE Chains'
  BY <1>3, ChainsSignIn DEF CommitRegister, Keep, Idle, TypeOK, Req
<1>4. ASSUME NEW r \in Requests, Login(r) PROVE Chains'
  BY <1>4, ChainsSignIn DEF Login, TypeOK
<1>5. ASSUME NEW r \in Requests, Refresh(r) PROVE Chains'
  BY <1>5, ChainsRead
<1>6. ASSUME NEW r \in Requests, CommitRefresh(r) PROVE Chains'
  BY <1>6, ChainsExchange
<1>8. ASSUME NEW r \in Requests, Reuse(r) \/ Logout(r) PROVE Chains'
  BY <1>1, <1>8 DEF Reuse, Logout, Keep, TypeOK
<1>9. ASSUME NEW r \in Requests, CommitReuse(r) \/ CommitLogout(r) PROVE Chains'
  BY <1>9, ChainsStamped DEF CommitReuse, CommitLogout, Keep, Idle, TypeOK
<1>10. ASSUME NEW r \in Requests, Abandon(r) PROVE Chains'
  BY <1>1, <1>10 DEF Abandon, Keep, Idle, TypeOK
<1>11. CASE Tick
  BY <1>1, <1>11 DEF Tick
<1>12. CASE UNCHANGED vars
  BY <1>1, <1>12 DEF vars
<1> QED
  BY <1>2, <1>3, <1>4, <1>5, <1>6, <1>8, <1>9, <1>10, <1>11, <1>12 DEF Next, SignIn, Proceed

-----------------------------------------------------------------------------
(* The limiter only holds back: what the endpoints do is what Sessions     *)
(* does, or leaves it alone.                                               *)
THEOREM AccountsImplementSessions == AccountsSpec => Spec
<1>1. AccountsInit => Init
  BY DEF AccountsInit
<1>2. [AccountsNext]_allVars => [Next]_vars
  BY DEF AccountsNext, Attempt, Restart, Next, allVars
<1> QED
  BY <1>1, <1>2, PTL DEF AccountsSpec, Spec

(* Every table row and every handler has its type, for any constants.      *)
THEOREM AccountsTyped == AccountsSpec => []TypeOK
<1>1. Init => TypeOK
  BY DEF Init, TypeOK, Idle, Req
<1>2. Spec => []TypeOK
  BY <1>1, TypingStep, SessionsAssumption, PTL DEF Spec
<1> QED
  BY <1>2, AccountsImplementSessions, PTL

(* However many handlers exchange one refresh token at the same time, each *)
(* of them gets at most one new pair for it: with one handler, the token   *)
(* is good for one exchange.                                               *)
THEOREM OneExchangePerHandler == AccountsSpec => []ExchangedOncePerHandler
<1>1. Init => Chains
  BY DEF Init, Chains, ExchangedIsRevoked, InHandIsUnspent, ExchangedOncePerHandler
<1>2. Chains => ExchangedOncePerHandler
  BY DEF Chains
<1>3. Spec /\ []TypeOK => []Chains
  BY <1>1, ChainsStep, SessionsAssumption, PTL DEF Spec
<1> QED
  BY <1>2, <1>3, AccountsImplementSessions, AccountsTyped, PTL

-----------------------------------------------------------------------------
(* Addresses: a registration under way has an address and an id that no    *)
(* account and no other registration has.                                  *)
AddressesReserved ==
  \A r \in Requests : req[r].op = "register" =>
    /\ ~Registered(req[r].email)
    /\ \A s \in Requests : req[s].op = "register" /\ s # r => req[s].email # req[r].email

Addresses == OneAccountPerEmail /\ AddressesReserved

LEMMA AddressesStep == TypeOK /\ Addresses /\ [Next]_vars => Addresses'
<1> SUFFICES ASSUME TypeOK, Addresses, [Next]_vars PROVE Addresses'
  OBVIOUS
<1> USE DEF Addresses, OneAccountPerEmail, AddressesReserved, Registered
<1>1. ASSUME accounts' = accounts,
             \A r \in Requests : req'[r].op = "register" => req'[r] = req[r]
      PROVE  Addresses'
  BY <1>1
<1>2. ASSUME NEW r \in Requests, Register(r) PROVE Addresses'
  <2>1. PICK u \in Users, e \in Emails :
          MayInsert(e) /\ req' = [req EXCEPT ![r] = [op |-> "register", user |-> u, email |-> e]]
    BY <1>2 DEF Register, Keep
  <2>2. accounts' = accounts /\ req[r].op = "idle"
    BY <1>2 DEF Register
  <2>3. \A s \in Requests : req'[s] = IF s = r THEN [op |-> "register", user |-> u, email |-> e]
                                              ELSE req[s]
    BY <2>1 DEF TypeOK
  <2> QED
    BY <2>1, <2>2, <2>3 DEF MayInsert, BeingRegistered
<1>3. ASSUME NEW r \in Requests, CommitRegister(r) PROVE Addresses'
  <2>1. \A s \in Requests : req'[s].op = "register" => s # r /\ req'[s] = req[s]
    BY <1>3 DEF CommitRegister, Keep, Idle, TypeOK
  <2>2. accounts' = [u \in DOMAIN accounts \cup {req[r].user} |->
                       IF u = req[r].user THEN req[r].email ELSE accounts[u]]
    BY <1>3 DEF CommitRegister
  <2>3. \A u \in DOMAIN accounts : accounts[u] # req[r].email
    BY <1>3 DEF CommitRegister
  <2>4. OneAccountPerEmail'
    BY <2>2, <2>3
  <2>5. AddressesReserved'
    <3> SUFFICES ASSUME NEW s \in Requests, req'[s].op = "register"
                 PROVE  /\ ~Registered(req[s].email)'
                        /\ \A x \in Requests : req'[x].op = "register" /\ x # s
                                              => req'[x].email # req'[s].email
      OBVIOUS
    <3>1. req'[s] = req[s] /\ s # r /\ req[r].op = "register"
      BY <1>3, <2>1 DEF CommitRegister
    <3>2. req[s].email # req[r].email /\ ~Registered(req[s].email)
      BY <3>1
    <3>3. \A u \in DOMAIN accounts' : accounts'[u] # req[s].email
      BY <2>2, <3>2
    <3> QED
      BY <2>1, <3>1, <3>3
  <2> QED
    BY <2>4, <2>5
<1>4. ASSUME NEW r \in Requests, Login(r) PROVE Addresses'
  BY <1>1, <1>4 DEF Login
<1>5. ASSUME NEW r \in Requests, Refresh(r) \/ Reuse(r) \/ Logout(r) PROVE Addresses'
  BY <1>1, <1>5 DEF Refresh, Reuse, Logout, Keep, TypeOK
<1>6. ASSUME NEW r \in Requests,
             CommitRefresh(r) \/ CommitReuse(r) \/ CommitLogout(r) \/ Abandon(r)
      PROVE  Addresses'
  BY <1>1, <1>6 DEF CommitRefresh, CommitReuse, CommitLogout, Abandon, Keep, Idle, TypeOK
<1>7. CASE Tick \/ UNCHANGED vars
  BY <1>1, <1>7 DEF Tick, vars
<1> QED
  BY <1>2, <1>3, <1>4, <1>5, <1>6, <1>7 DEF Next, SignIn, Proceed

(* Of any number of registrations of one address that overlap, one makes   *)
(* an account.                                                             *)
THEOREM OneAccount == AccountsSpec => []OneAccountPerEmail
<1>1. Init => Addresses
  BY DEF Init, Addresses, OneAccountPerEmail, AddressesReserved, Idle
<1>2. Addresses => OneAccountPerEmail
  BY DEF Addresses
<1>3. Spec /\ []TypeOK => []Addresses
  BY <1>1, AddressesStep, PTL DEF Spec
<1> QED
  BY <1>2, <1>3, AccountsImplementSessions, AccountsTyped, PTL

-----------------------------------------------------------------------------
(* A handler whose token was revoked under it was there when that happened *)
(* and is remembered: it is one of those the property allows to exchange   *)
(* the token all the same.                                                 *)
OvertakenIsLate ==
  \A r \in Requests :
    req[r].op = "refresh" /\ ~TokenIsLive(req[r].token) => r \in tokens[req[r].token].late

UnderWay == OvertakenIsLate /\ RevokedBuysOnlyWhatIsUnderWay

(* Revoking more tokens keeps it: whoever has one of them in hand is noted.*)
LEMMA UnderWayStamped ==
  ASSUME SessionsAssumption, TypeOK, UnderWay, NEW S, tokens' = Stamp(S),
         \A r \in Requests : req'[r].op = "refresh" => req'[r] = req[r]
  PROVE  UnderWay'
<1>1. ASSUME NEW r \in Requests, req'[r].op = "refresh", ~tokens'[req'[r].token].live
      PROVE  r \in tokens'[req'[r].token].late
  <2>1. req'[r] = req[r] /\ req[r].token \in DOMAIN tokens
    BY <1>1 DEF TypeOK
  <2>2. CASE tokens[req[r].token].live
    BY <1>1, <2>1, <2>2, Stamped DEF InHand
  <2>3. CASE ~tokens[req[r].token].live
    BY <1>1, <2>1, <2>3, Stamped DEF UnderWay, OvertakenIsLate, TokenIsLive
  <2> QED
    BY <2>2, <2>3
<1>2. RevokedBuysOnlyWhatIsUnderWay'
  <2>1. \A x \in DOMAIN tokens : tokens[x].parent \in DOMAIN tokens \cup {None}
    BY DEF TypeOK
  <2> QED
    BY <2>1, Stamped DEF UnderWay, RevokedBuysOnlyWhatIsUnderWay
<1> QED
  BY <1>1, <1>2 DEF UnderWay, OvertakenIsLate, TokenIsLive

LEMMA UnderWaySignIn ==
  ASSUME SessionsAssumption, TypeOK, UnderWay, NEW u \in Users,
         IssuePair(u, None, None, tokens),
         \A r \in Requests : req'[r].op = "refresh" => req'[r] = req[r]
  PROVE  UnderWay'
<1>1. /\ DOMAIN tokens \subseteq DOMAIN tokens'
      /\ \A x \in DOMAIN tokens : tokens'[x] = tokens[x]
      /\ \A x \in DOMAIN tokens' \ DOMAIN tokens : tokens'[x].parent = None
  BY Issued DEF TypeOK
<1>2. \A x \in DOMAIN tokens : tokens[x].parent \in DOMAIN tokens \cup {None}
  BY DEF TypeOK
<1>3. \A r \in Requests : req[r].op = "refresh" => req[r].token \in DOMAIN tokens
  BY DEF TypeOK
<1>4. OvertakenIsLate'
  BY <1>1, <1>3 DEF UnderWay, OvertakenIsLate, TokenIsLive
<1>5. RevokedBuysOnlyWhatIsUnderWay'
  BY <1>1, <1>2 DEF UnderWay, RevokedBuysOnlyWhatIsUnderWay
<1> QED
  BY <1>4, <1>5 DEF UnderWay

(* The exchange of a token that was revoked under the handler is the       *)
(* exception the property names; any other revokes the token itself.       *)
LEMMA UnderWayExchange ==
  ASSUME SessionsAssumption, TypeOK, UnderWay, NEW r \in Requests, CommitRefresh(r)
  PROVE  UnderWay'
<1> DEFINE p == req[r].token
           rows == Stamp({p})
<1>1. p \in DOMAIN tokens /\ tokens[p].user \in Users /\ p # None /\ r \in InHand(p)
  BY DEF CommitRefresh, TypeOK, Token, SessionsAssumption, InHand
<1>2. /\ rows \in [DOMAIN tokens -> Token]
      /\ \A x \in DOMAIN tokens :
           /\ rows[x].user = tokens[x].user
           /\ rows[x].parent = tokens[x].parent /\ rows[x].by = tokens[x].by
           /\ rows[x].live => tokens[x].live /\ x # p
           /\ ~tokens[x].live => ~rows[x].live /\ rows[x].late = tokens[x].late
           /\ tokens[x].live /\ ~rows[x].live => rows[x].late = InHand(x)
  BY Stamped
<1>3. IssuePair(tokens[p].user, p, r, rows)
  BY DEF CommitRefresh
<1> HIDE DEF rows
<1>4. /\ DOMAIN tokens \subseteq DOMAIN tokens'
      /\ \A x \in DOMAIN tokens : tokens'[x] = rows[x]
      /\ \A x \in DOMAIN tokens' \ DOMAIN tokens : tokens'[x].parent = p /\ tokens'[x].by = r
  BY <1>1, <1>2, <1>3, Issued
<1>5. r \in rows[p].late /\ ~rows[p].live
  BY <1>1, <1>2 DEF CommitRefresh, UnderWay, OvertakenIsLate, TokenIsLive
<1>6. \A x \in DOMAIN tokens : tokens[x].parent \in DOMAIN tokens \cup {None}
  BY DEF TypeOK
<1>7. RevokedBuysOnlyWhatIsUnderWay'
  BY <1>1, <1>2, <1>4, <1>5, <1>6 DEF UnderWay, RevokedBuysOnlyWhatIsUnderWay
<1>8. ASSUME NEW h \in Requests, req'[h].op = "refresh", ~tokens'[req'[h].token].live
      PROVE  h \in tokens'[req'[h].token].late
  <2>1. req'[h] = req[h] /\ req[h].token \in DOMAIN tokens
    BY <1>8 DEF CommitRefresh, Keep, Idle, TypeOK
  <2>2. h \in InHand(req[h].token)
    BY <1>8, <2>1 DEF InHand
  <2> QED
    BY <1>2, <1>4, <1>8, <2>1, <2>2 DEF UnderWay, OvertakenIsLate, TokenIsLive
<1> QED
  BY <1>7, <1>8 DEF UnderWay, OvertakenIsLate, TokenIsLive

LEMMA UnderWayStep == SessionsAssumption /\ TypeOK /\ UnderWay /\ [Next]_vars => UnderWay'
<1> SUFFICES ASSUME SessionsAssumption, TypeOK, UnderWay, [Next]_vars PROVE UnderWay'
  OBVIOUS
<1>1. ASSUME tokens' = tokens,
             \A r \in Requests : req'[r].op = "refresh" => req'[r] = req[r]
      PROVE  UnderWay'
  BY <1>1 DEF UnderWay, OvertakenIsLate, RevokedBuysOnlyWhatIsUnderWay, TokenIsLive
<1>2. ASSUME NEW r \in Requests, Register(r) \/ Reuse(r) \/ Logout(r) \/ Abandon(r)
      PROVE  UnderWay'
  BY <1>1, <1>2 DEF Register, Reuse, Logout, Abandon, Keep, Idle, TypeOK
<1>3. ASSUME NEW r \in Requests, CommitRegister(r) PROVE UnderWay'
  BY <1>3, UnderWaySignIn DEF CommitRegister, Keep, Idle, TypeOK, Req
<1>4. ASSUME NEW r \in Requests, Login(r) PROVE UnderWay'
  BY <1>4, UnderWaySignIn DEF Login, TypeOK
<1>5. ASSUME NEW r \in Requests, Refresh(r) PROVE UnderWay'
  <2>1. PICK t \in DOMAIN tokens : MayExchange(t) /\ Keep(r, [op |-> "refresh", token |-> t])
    BY <1>5 DEF Refresh
  <2>2. tokens' = tokens /\ req' = [req EXCEPT ![r] = [op |-> "refresh", token |-> t]]
    BY <1>5, <2>1 DEF Refresh, Keep
  <2> QED
    BY <2>1, <2>2 DEF MayExchange, UnderWay, OvertakenIsLate, RevokedBuysOnlyWhatIsUnderWay,
                      TokenIsLive, TypeOK
<1>6. ASSUME NEW r \in Requests, CommitRefresh(r) PROVE UnderWay'
  BY <1>6, UnderWayExchange
<1>7. ASSUME NEW r \in Requests, CommitReuse(r) \/ CommitLogout(r) PROVE UnderWay'
  BY <1>7, UnderWayStamped DEF CommitReuse, CommitLogout, Keep, Idle, TypeOK
<1>8. CASE Tick \/ UNCHANGED vars
  BY <1>1, <1>8 DEF Tick, vars
<1> QED
  BY <1>2, <1>3, <1>4, <1>5, <1>6, <1>7, <1>8 DEF Next, SignIn, Proceed

(* A refresh token that was revoked, by an exchange, a logout or a reuse,  *)
(* buys a pair only for a handler that was exchanging it at that moment.   *)
THEOREM RevokedBuysNoMore == AccountsSpec => []RevokedBuysOnlyWhatIsUnderWay
<1>1. Init => UnderWay
  BY DEF Init, UnderWay, OvertakenIsLate, RevokedBuysOnlyWhatIsUnderWay, Idle
<1>2. UnderWay => RevokedBuysOnlyWhatIsUnderWay
  BY DEF UnderWay
<1>3. Spec /\ []TypeOK => []UnderWay
  BY <1>1, UnderWayStep, SessionsAssumption, PTL DEF Spec
<1> QED
  BY <1>2, <1>3, AccountsImplementSessions, AccountsTyped, PTL

-----------------------------------------------------------------------------
(* The limiter *)

(* A set of natural numbers that is not empty has a least element: the     *)
(* form in which induction is at hand for a first-order prover.            *)
LEMMA Least ==
  ASSUME NEW S \in SUBSET Nat, S # {}
  PROVE  \E n \in S : \A m \in S : n <= m
<1> DEFINE Smaller == {p \in Nat \X Nat : p[1] < p[2]}
<1>1. IsWellFoundedOn(Smaller, Nat)
  <2>1. Smaller \subseteq OpToRel(<, Nat)
    BY DEF OpToRel
  <2> QED
    BY NatLessThanWellFounded, <2>1, IsWellFoundedOnSubrelation
<1>2. PICK n \in S : \A m \in S : <<m, n>> \notin Smaller
  <2> HIDE DEF Smaller
  <2> QED
    BY <1>1, WFMin
<1>3. ASSUME NEW m \in S PROVE n <= m
  <2>1. m \in Nat /\ n \in Nat
    OBVIOUS
  <2>2. ~ m < n
    BY <1>2, <2>1
  <2> QED
    BY <2>1, <2>2
<1> QED
  BY <1>3

(* What is kept of the hits is what follows k of them, all expired.        *)
LEMMA KeptIsATail ==
  ASSUME NEW h \in Seq(Nat), NEW t \in Nat, Window \in Nat
  PROVE  \E k \in 0 .. Len(h) :
           /\ Limiter!Kept(h, t) \in Seq(Nat)
           /\ Len(Limiter!Kept(h, t)) = Len(h) - k
           /\ \A i \in 1 .. Len(h) - k : Limiter!Kept(h, t)[i] = h[k + i]
           /\ \A i \in 1 .. k : h[i] + Window < t
           /\ k < Len(h) => t <= h[k + 1] + Window
<1> DEFINE S == Limiter!Held(h, t)
<1>1. S = {i \in 1 .. Len(h) : t <= h[i] + Window}
  BY DEF Limiter!Held
<1>2. CASE S = {}
  <2>1. Limiter!Kept(h, t) = <<>>
    BY <1>2 DEF Limiter!Kept
  <2>2. \A i \in 1 .. Len(h) : h[i] + Window < t
    BY <1>1, <1>2
  <2> QED
    BY <2>1, <2>2
<1>3. CASE S # {}
  <2>1. S \in SUBSET Nat
    BY <1>1
  <2>2. Limiter!Min(S) \in S /\ \A m \in S : Limiter!Min(S) <= m
    <3>1. \E n \in S : \A m \in S : n <= m
      BY <1>3, <2>1, Least
    <3> QED
      BY <3>1 DEF Limiter!Min
  <2>3. PICK first \in 1 .. Len(h) :
          /\ first = Limiter!Min(S)
          /\ t <= h[first] + Window
          /\ \A i \in 1 .. Len(h) : t <= h[i] + Window => first <= i
    BY <1>1, <2>2
  <2>4. Limiter!Kept(h, t) = SubSeq(h, first, Len(h))
    BY <1>3, <2>3 DEF Limiter!Kept
  <2>5. /\ SubSeq(h, first, Len(h)) \in Seq(Nat)
        /\ Len(SubSeq(h, first, Len(h))) = Len(h) - (first - 1)
        /\ \A i \in 1 .. Len(h) - (first - 1) : SubSeq(h, first, Len(h))[i] = h[first - 1 + i]
    <3> DEFINE last == Len(h)
               R == SubSeq(h, first, last)
    <3>1. last \in Nat /\ first \in 1 .. last /\ \A i \in first .. last : h[i] \in Nat
      BY <2>3
    <3> HIDE DEF last
    <3>2. first \in Int /\ last \in Int
      BY <3>1
    <3>3. /\ R \in Seq(Nat)
          /\ Len(R) = IF first <= last THEN last - first + 1 ELSE 0
          /\ \A i \in 1 .. last - first + 1 : R[i] = h[first + i - 1]
      BY <3>1, <3>2, SubSeqProperties
    <3> HIDE DEF R
    <3>4. Len(R) = last - (first - 1)
      BY <3>1, <3>3
    <3>5. \A i \in 1 .. last - (first - 1) : R[i] = h[first - 1 + i]
      BY <3>1, <3>3
    <3> QED
      BY <3>3, <3>4, <3>5 DEF last, R
  <2>6. ASSUME NEW i \in 1 .. first - 1 PROVE h[i] + Window < t
    <3>1. i \in 1 .. Len(h) /\ ~ first <= i /\ h[i] \in Nat
      OBVIOUS
    <3> QED
      BY ONLY <2>3, <3>1, t \in Nat, Window \in Nat, SMTT(30)
  <2>7. PICK k \in 0 .. Len(h) : k = first - 1
    OBVIOUS
  <2>8. /\ Limiter!Kept(h, t) \in Seq(Nat)
        /\ Len(Limiter!Kept(h, t)) = Len(h) - k
        /\ \A i \in 1 .. Len(h) - k : Limiter!Kept(h, t)[i] = h[k + i]
    BY <2>4, <2>5, <2>7
  <2>9. (\A i \in 1 .. k : h[i] + Window < t) /\ t <= h[k + 1] + Window
    BY <2>3, <2>6, <2>7
  <2> QED
    BY <2>8, <2>9
<1> QED
  BY <1>2, <1>3

(* H is what is left, at time t, of the last passes P of a client.         *)
Tracks(P, H, t) ==
  /\ P \in Seq(Nat) /\ H \in Seq(Nat)
  /\ Len(P) <= Limit + 1 /\ Len(H) <= Limit /\ Len(H) <= Len(P)
  /\ \A i \in 1 .. Len(P) : P[i] <= t
  /\ \A i \in 1 .. Len(H) : H[i] = P[Len(P) - Len(H) + i]
  /\ \A i \in 1 .. Len(P) - Len(H) : P[i] + Window < t
  /\ Len(P) = Limit + 1 => P[1] + Window < P[Limit + 1]

(* A client that was told something was told a time at which the oldest of *)
(* the hits left is too old.                                               *)
Waits(H, time) ==
  /\ time \in Nat
  /\ time # Limiter!NeverTold => Len(H) >= 1 /\ H[1] + Window < time

LEMMA TracksLater ==
  ASSUME NEW P, NEW H, NEW t \in Nat, NEW u \in Nat, t <= u, Window \in Nat, Limit \in Nat, Tracks(P, H, t)
  PROVE  Tracks(P, H, u)
<1>1. P \in Seq(Nat) /\ \A i \in 1 .. Len(P) : P[i] \in Nat /\ P[i] <= t
  BY DEF Tracks
<1>2. \A i \in 1 .. Len(P) : P[i] <= u
  BY <1>1
<1>3. \A i \in 1 .. Len(P) - Len(H) : i \in 1 .. Len(P)
  BY DEF Tracks
<1>4. ASSUME NEW i \in 1 .. Len(P) - Len(H) PROVE P[i] + Window < u
  <2>1. P[i] \in Nat /\ P[i] + Window < t
    BY <1>1, <1>3 DEF Tracks
  <2> QED
    BY <2>1
<1> QED
  BY <1>2, <1>4 DEF Tracks

LEMMA TracksKept ==
  ASSUME NEW P, NEW H, NEW t \in Nat, Window \in Nat, Limit \in Nat, Tracks(P, H, t)
  PROVE  Tracks(P, Limiter!Kept(H, t), t)
<1> DEFINE K == Limiter!Kept(H, t)
<1>1. PICK k \in 0 .. Len(H) :
        /\ K \in Seq(Nat) /\ Len(K) = Len(H) - k
        /\ \A i \in 1 .. Len(H) - k : K[i] = H[k + i]
        /\ \A i \in 1 .. k : H[i] + Window < t
  BY KeptIsATail DEF Tracks
<1> HIDE DEF K
<1>2. \A i \in 1 .. Len(K) : K[i] = P[Len(P) - Len(K) + i]
  <2> SUFFICES ASSUME NEW i \in 1 .. Len(K)
               PROVE  K[i] = P[Len(P) - Len(K) + i]
    OBVIOUS
  <2>1. Len(H) \in Nat /\ Len(P) \in Nat /\ Len(K) = Len(H) - k
    <3>1. H \in Seq(Nat) /\ P \in Seq(Nat)
      BY DEF Tracks
    <3> QED
      BY <1>1, <3>1
  <2>2. K[i] = H[k + i]
    BY <1>1, <2>1
  <2>3. k + i \in 1 .. Len(H) /\ Len(P) - Len(H) + (k + i) = Len(P) - Len(K) + i
    BY <2>1
  <2>4. H[k + i] = P[Len(P) - Len(H) + (k + i)]
    <3>1. \A j \in 1 .. Len(H) : H[j] = P[Len(P) - Len(H) + j]
      BY DEF Tracks
    <3> QED
      BY <2>3, <3>1
  <2> QED
    BY <2>2, <2>3, <2>4
<1>3. ASSUME NEW i \in 1 .. Len(P) - Len(K) PROVE P[i] + Window < t
  <2>1. CASE i <= Len(P) - Len(H)
    BY <1>1, <2>1 DEF Tracks
  <2>2. CASE i > Len(P) - Len(H)
    <3> DEFINE j == i - (Len(P) - Len(H))
    <3>1. Len(P) \in Nat /\ Len(H) \in Nat /\ Len(H) <= Len(P)
      BY DEF Tracks
    <3>2. j \in 1 .. k /\ i = Len(P) - Len(H) + j
      BY <1>1, <2>2, <3>1
    <3>3. P[i] = H[j]
      BY <3>1, <3>2 DEF Tracks
    <3> QED
      BY <1>1, <3>2, <3>3
  <2> QED
    BY <1>1, <2>1, <2>2 DEF Tracks
<1> QED
  BY <1>1, <1>2, <1>3 DEF Tracks, K

LEMMA TracksPass ==
  ASSUME NEW P, NEW H, NEW t \in Nat, Window \in Nat, Limit \in Nat \ {0}, Tracks(P, H, t), Len(H) < Limit
  PROVE  Tracks(Limiter!LastPassed(Append(P, t)), Append(H, t), t)
<1> DEFINE Q == Append(P, t)
           G == Append(H, t)
<1>1. /\ Q \in Seq(Nat) /\ Len(Q) = Len(P) + 1
      /\ \A i \in 1 .. Len(P) : Q[i] = P[i]
      /\ Q[Len(P) + 1] = t
      /\ G \in Seq(Nat) /\ Len(G) = Len(H) + 1
      /\ \A i \in 1 .. Len(H) : G[i] = H[i]
      /\ G[Len(H) + 1] = t
  BY DEF Tracks
<1>2. /\ \A i \in 1 .. Len(Q) : Q[i] <= t
      /\ \A i \in 1 .. Len(G) : G[i] = Q[Len(Q) - Len(G) + i]
      /\ \A i \in 1 .. Len(Q) - Len(G) : Q[i] + Window < t
      /\ Len(G) <= Len(Q) /\ Len(Q) <= Limit + 2 /\ Len(G) <= Limit
  <2>1. Len(P) \in Nat /\ Len(H) \in Nat /\ Len(P) <= Limit + 1 /\ Len(H) <= Len(P)
    BY DEF Tracks
  <2> HIDE DEF Q, G
  <2>2. ASSUME NEW i \in 1 .. Len(Q) PROVE Q[i] <= t
    <3>1. CASE i = Len(P) + 1
      BY <1>1, <3>1
    <3>2. CASE i \in 1 .. Len(P)
      BY <1>1, <3>2 DEF Tracks
    <3> QED
      BY <1>1, <2>1, <3>1, <3>2
  <2>3. ASSUME NEW i \in 1 .. Len(G) PROVE G[i] = Q[Len(Q) - Len(G) + i]
    <3>1. CASE i = Len(H) + 1
      BY <1>1, <2>1, <3>1
    <3>2. CASE i \in 1 .. Len(H)
      <4>1. G[i] = P[Len(P) - Len(H) + i]
        BY <1>1, <3>2 DEF Tracks
      <4>2. Len(P) - Len(H) + i \in 1 .. Len(P) /\ Len(Q) - Len(G) = Len(P) - Len(H)
        BY <1>1, <2>1, <3>2
      <4> QED
        BY <1>1, <4>1, <4>2
    <3> QED
      BY <1>1, <2>1, <3>1, <3>2
  <2>4. ASSUME NEW i \in 1 .. Len(Q) - Len(G) PROVE Q[i] + Window < t
    <3>1. i \in 1 .. Len(P) - Len(H) /\ i \in 1 .. Len(P)
      BY <1>1, <2>1, SMTT(30)
    <3> QED
      BY <1>1, <3>1 DEF Tracks
  <2> QED
    BY <1>1, <2>1, <2>2, <2>3, <2>4
<1> HIDE DEF Q, G
<1>3. CASE Len(Q) <= Limit + 1
  <2>1. Limiter!LastPassed(Q) = Q
    BY <1>1, <1>3 DEF Limiter!LastPassed
  <2>2. Len(Q) = Limit + 1 => Q[1] + Window < Q[Limit + 1]
    BY <1>1, <1>2
  <2> QED
    BY <1>1, <1>2, <1>3, <2>1, <2>2 DEF Tracks, Q, G
<1>4. CASE Len(Q) > Limit + 1
  <2> DEFINE T == Tail(Q)
  <2>1. Limiter!LastPassed(Q) = T
    BY <1>1, <1>4 DEF Limiter!LastPassed
  <2>2. T \in Seq(Nat) /\ Len(T) = Limit + 1 /\ \A i \in 1 .. Limit + 1 : T[i] = Q[i + 1]
    BY <1>1, <1>2, <1>4
  <2> HIDE DEF T
  <2>7. /\ Len(Q) = Limit + 2 /\ Len(T) = Len(Q) - 1
        /\ Len(G) \in Nat /\ Len(G) >= 1 /\ Len(G) <= Limit
    BY <1>1, <1>2, <1>4, <2>2 DEF Tracks
  <2>3. ASSUME NEW i \in 1 .. Len(T) PROVE T[i] <= t
    <3>1. i + 1 \in 1 .. Len(Q) /\ i \in 1 .. Limit + 1
      BY <2>2, <2>7
    <3> QED
      BY <1>2, <2>2, <3>1
  <2>4. ASSUME NEW i \in 1 .. Len(G) PROVE G[i] = T[Len(T) - Len(G) + i]
    <3> DEFINE j == Len(T) - Len(G) + i
    <3>1. j \in 1 .. Limit + 1 /\ j + 1 = Len(Q) - Len(G) + i
      BY <2>2, <2>7
    <3>2. j = Len(T) - Len(G) + i
      OBVIOUS
    <3> HIDE DEF j
    <3> QED
      BY <1>2, <2>2, <3>1, <3>2
  <2>5. ASSUME NEW i \in 1 .. Len(T) - Len(G) PROVE T[i] + Window < t
    <3> DEFINE g == Len(G)
    <3>1. g \in 1 .. Limit /\ i \in 1 .. (Limit + 1) - g /\ Len(Q) - g = (Limit + 2) - g
      BY <2>2, <2>7
    <3> HIDE DEF g
    <3>2. i + 1 \in 1 .. (Limit + 2) - g /\ i \in 1 .. Limit + 1
      BY <3>1
    <3>3. i + 1 \in 1 .. Len(Q) - Len(G)
      BY <3>1, <3>2 DEF g
    <3> QED
      BY <1>2, <2>2, <3>2, <3>3
  <2>6. T[1] + Window < T[Limit + 1]
    <3>1. 2 \in 1 .. Len(Q) - Len(G) /\ Q[Len(Q)] = t
      BY <1>1, <2>2, <2>7
    <3>2. Q[2] + Window < t /\ T[1] = Q[2] /\ T[Limit + 1] = Q[Len(Q)]
      BY <1>2, <2>2, <2>7, <3>1
    <3> QED
      BY <3>1, <3>2
  <2> QED
    <3>1. Tracks(T, G, t)
      BY <1>1, <1>2, <2>2, <2>3, <2>4, <2>5, <2>6, <2>7 DEF Tracks
    <3> QED
      BY <2>1, <3>1 DEF Q, G
<1> QED
  BY <1>1, <1>2, <1>3, <1>4

(* The whole seconds that are told cover what is left of the window.       *)
LEMMA ToldCovers ==
  ASSUME NEW H \in Seq(Nat), NEW t \in Nat, Window \in Nat, Second \in Nat \ {0},
         Len(H) >= 1, H[1] <= t, t <= H[1] + Window
  PROVE  Waits(H, t + Second * Limiter!RetryAfter(H, t))
<1> DEFINE x == Window - (t - H[1])
<1>1. x \in Nat
  OBVIOUS
<1>2. (x \div Second) \in Nat /\ Second * (x \div Second + 1) > x
  <2>1. ASSUME NEW n \in Nat, NEW s \in Nat \ {0}
        PROVE  (n \div s) \in Nat /\ s * (n \div s + 1) > n
    BY <2>1
  <2> QED
    BY <1>1, <2>1
<1>3. Limiter!RetryAfter(H, t) = x \div Second + 1
  BY DEF Limiter!RetryAfter
<1> HIDE DEF x
<1>4. Second * (x \div Second + 1) \in Nat
  BY <1>2
<1>5. t + Second * (x \div Second + 1) > H[1] + Window
  BY <1>2, <1>4, SMTT(30) DEF x
<1> QED
  BY <1>3, <1>4, <1>5 DEF Waits, Limiter!NeverTold

-----------------------------------------------------------------------------
(* The inductive invariant of the limiter: in every process and for every  *)
(* client, the hits are what is left of the passes.                        *)
Limits ==
  /\ hits \in [Processes -> [Clients -> Seq(Nat)]]
  /\ passed \in [Processes -> [Clients -> Seq(Nat)]]
  /\ told \in [Processes -> [Clients -> Nat]]
  /\ \A p \in Processes, c \in Clients :
       Tracks(passed[p][c], hits[p][c], now) /\ Waits(hits[p][c], told[p][c])

LEMMA LimitsStep == TypeOK /\ TypeOK' /\ Limits /\ [AccountsNext]_allVars => Limits'
<1> SUFFICES ASSUME TypeOK, TypeOK', Limits, [AccountsNext]_allVars PROVE Limits'
  OBVIOUS
<1>1. /\ now \in Nat /\ now' \in Nat /\ Window \in Nat
      /\ Second \in Nat \ {0} /\ Limit \in Nat \ {0} /\ Limit \in Nat
  BY LimiterAssumption DEF TypeOK
(* One client of one process is served, the clock stands still.            *)
<1>2. ASSUME NEW p \in Processes, NEW c \in Clients, now' = now,
             NEW P, NEW H, NEW time, Tracks(P, H, now), Waits(H, time),
             hits' = [hits EXCEPT ![p][c] = H], passed' = [passed EXCEPT ![p][c] = P],
             told' = [told EXCEPT ![p][c] = time]
      PROVE  Limits'
  <2>1. P \in Seq(Nat) /\ H \in Seq(Nat) /\ time \in Nat
    BY <1>2 DEF Tracks, Waits
  <2>2. /\ hits' \in [Processes -> [Clients -> Seq(Nat)]]
        /\ passed' \in [Processes -> [Clients -> Seq(Nat)]]
        /\ told' \in [Processes -> [Clients -> Nat]]
    BY <1>2, <2>1 DEF Limits
  <2>3. ASSUME NEW q \in Processes, NEW d \in Clients
        PROVE  Tracks(passed'[q][d], hits'[q][d], now) /\ Waits(hits'[q][d], told'[q][d])
    <3>1. CASE q = p /\ d = c
      BY <1>2, <3>1 DEF Limits
    <3>2. CASE ~ (q = p /\ d = c)
      <4>1. hits'[q][d] = hits[q][d] /\ passed'[q][d] = passed[q][d] /\ told'[q][d] = told[q][d]
        BY <1>2, <3>2 DEF Limits
      <4> QED
        BY <4>1 DEF Limits
    <3> QED
      BY <3>1, <3>2
  <2>4. ASSUME NEW q \in Processes, NEW d \in Clients
        PROVE  Tracks(passed'[q][d], hits'[q][d], now') /\ Waits(hits'[q][d], told'[q][d])
    BY <1>2, <2>3
  <2> QED
    BY <2>2, <2>4 DEF Limits, Tracks, Waits
<1>3. ASSUME NEW p \in Processes, NEW c \in Clients, Limiter!Pass(p, c), now' = now PROVE Limits'
  <2> DEFINE H == Limiter!Kept(hits[p][c], now)
             P == passed[p][c]
  <2>1. /\ Len(H) < Limit
        /\ hits' = [hits EXCEPT ![p][c] = Append(H, now)]
        /\ passed' = [passed EXCEPT ![p][c] = Limiter!LastPassed(Append(P, now))]
        /\ told' = [told EXCEPT ![p][c] = Limiter!NeverTold]
    BY <1>3 DEF Limiter!Pass, Limits
  <2>2. Tracks(P, hits[p][c], now)
    BY DEF Limits
  <2> HIDE DEF P, H
  <2>3. Tracks(P, H, now)
    BY <1>1, <2>2, TracksKept DEF H
  <2>4. Tracks(Limiter!LastPassed(Append(P, now)), Append(H, now), now)
    BY <1>1, <2>1, <2>3, TracksPass
  <2>5. Waits(Append(H, now), Limiter!NeverTold)
    BY DEF Waits, Limiter!NeverTold
  <2> QED
    BY <1>2, <1>3, <2>1, <2>4, <2>5
<1>4. ASSUME NEW p \in Processes, NEW c \in Clients, Limiter!Refuse(p, c), now' = now PROVE Limits'
  <2> DEFINE H == Limiter!Kept(hits[p][c], now)
             P == passed[p][c]
             time == now + Second * Limiter!RetryAfter(H, now)
  <2>1. /\ Len(H) >= Limit
        /\ hits' = [hits EXCEPT ![p][c] = H]
        /\ passed' = [passed EXCEPT ![p][c] = P]
        /\ told' = [told EXCEPT ![p][c] = time]
    BY <1>4 DEF Limiter!Refuse, Limits
  <2>2. Tracks(P, hits[p][c], now)
    BY DEF Limits
  <2>3. Tracks(P, H, now)
    BY <1>1, <2>2, TracksKept
  <2>4. Waits(H, time)
    <3>1. PICK k \in 0 .. Len(hits[p][c]) :
            /\ Len(H) = Len(hits[p][c]) - k
            /\ \A i \in 1 .. Len(hits[p][c]) - k : H[i] = hits[p][c][k + i]
            /\ k < Len(hits[p][c]) => now <= hits[p][c][k + 1] + Window
      BY <1>1, KeptIsATail DEF Limits
    <3>2. H \in Seq(Nat) /\ Len(H) \in Nat /\ Len(H) >= 1 /\ Len(hits[p][c]) \in Nat
      BY <1>1, <2>1, <2>3, SMTT(30) DEF Tracks, Limits
    <3> HIDE DEF H
    <3>3. now <= H[1] + Window
      BY <3>1, <3>2
    <3>4. H[1] <= now
      <4>1. Len(P) - Len(H) + 1 \in 1 .. Len(P) /\ H[1] = P[Len(P) - Len(H) + 1]
        BY <2>3, <3>2 DEF Tracks
      <4> QED
        BY <2>3, <4>1 DEF Tracks
    <3> QED
      BY <1>1, <3>2, <3>3, <3>4, ToldCovers
  <2> HIDE DEF P, H, time
  <2> QED
    BY <1>2, <1>4, <2>1, <2>3, <2>4
<1>5. ASSUME NEW p \in Processes, Limiter!RestartProcess(p), now' = now PROVE Limits'
  <2>1. <<>> \in Seq(Nat) /\ Limiter!NeverTold \in Nat
    BY DEF Limiter!NeverTold
  <2>2. /\ hits' \in [Processes -> [Clients -> Seq(Nat)]]
        /\ passed' \in [Processes -> [Clients -> Seq(Nat)]]
        /\ told' \in [Processes -> [Clients -> Nat]]
    BY <1>5, <2>1 DEF Limits, Limiter!RestartProcess
  <2>3. Tracks(<<>>, <<>>, now) /\ Waits(<<>>, Limiter!NeverTold)
    BY <1>1 DEF Tracks, Waits, Limiter!NeverTold
  <2>4. ASSUME NEW q \in Processes, NEW d \in Clients
        PROVE  Tracks(passed'[q][d], hits'[q][d], now') /\ Waits(hits'[q][d], told'[q][d])
    BY <1>5, <2>3 DEF Limits, Limiter!RestartProcess
  <2> QED
    BY <2>2, <2>4 DEF Limits, Tracks, Waits
<1>6. ASSUME UNCHANGED <<hits, passed, told>>, now' >= now PROVE Limits'
  <2>1. ASSUME NEW q \in Processes, NEW d \in Clients
        PROVE  Tracks(passed'[q][d], hits'[q][d], now') /\ Waits(hits'[q][d], told'[q][d])
    BY <1>1, <1>6, TracksLater DEF Limits
  <2> QED
    BY <1>6, <2>1 DEF Limits, Tracks, Waits
<1>7. ASSUME NEW r \in Requests, SignIn(r) \/ Proceed(r) PROVE now' = now
  BY <1>7 DEF SignIn, Register, Login, Proceed, CommitRegister, Refresh, CommitRefresh, Reuse,
              CommitReuse, Logout, CommitLogout, Abandon
<1>8. ASSUME NEW r \in Requests, Attempt(r) PROVE Limits'
  BY <1>3, <1>4, <1>7, <1>8 DEF Attempt, vars
<1>9. ASSUME NEW p \in Processes, Restart(p) PROVE Limits'
  BY <1>5, <1>9 DEF Restart, vars
<1>10. CASE (Tick \/ \E r \in Requests : Proceed(r)) /\ UNCHANGED <<hits, passed, told>>
  BY <1>1, <1>6, <1>7, <1>10 DEF Tick
<1>11. CASE UNCHANGED allVars
  BY <1>1, <1>6, <1>11 DEF allVars, vars
<1> QED
  BY <1>8, <1>9, <1>10, <1>11 DEF AccountsNext

LEMMA LimitsAlways == AccountsSpec => []Limits
<1>1. AccountsInit => Limits
  <2> SUFFICES ASSUME AccountsInit PROVE Limits
    OBVIOUS
  <2>1. now = 0 /\ Window \in Nat /\ Limit \in Nat
    BY LimiterAssumption DEF AccountsInit, Init
  <2>2. Tracks(<<>>, <<>>, now) /\ Waits(<<>>, Limiter!NeverTold)
    BY <2>1 DEF Tracks, Waits, Limiter!NeverTold
  <2> QED
    BY <2>2 DEF AccountsInit, Limits, Limiter!LimiterInit, Limiter!NeverTold
<1> QED
  BY <1>1, LimitsStep, AccountsTyped, PTL DEF AccountsSpec

(* No process lets a client pass more than Limit times in a span as long   *)
(* as the window, wherever the span begins.                                *)
THEOREM LimitHolds == AccountsSpec => []AtMostLimitPerWindow
<1>1. Limits => AtMostLimitPerWindow
  <2> SUFFICES ASSUME Limits, NEW p \in Processes, NEW c \in Clients, Len(passed[p][c]) > Limit
               PROVE  passed[p][c][Len(passed[p][c])] - passed[p][c][Len(passed[p][c]) - Limit] > Window
    BY DEF AtMostLimitPerWindow, Limiter!AtMostLimitPerWindow
  <2> DEFINE P == passed[p][c]
  <2>1. /\ P \in Seq(Nat) /\ Len(P) <= Limit + 1 /\ Limit \in Nat \ {0} /\ Window \in Nat
        /\ Len(P) = Limit + 1 => P[1] + Window < P[Limit + 1]
    BY LimiterAssumption DEF Limits, Tracks
  <2> HIDE DEF P
  <2>2. Len(P) = Limit + 1
    BY <2>1 DEF P
  <2>3. P[1] \in Nat /\ P[Limit + 1] \in Nat
    BY <2>1, <2>2
  <2> QED
    BY <2>1, <2>2, <2>3 DEF P
<1> QED
  BY <1>1, LimitsAlways, PTL

(* A refused client that waits as long as it was told is not refused again.*)
THEOREM ToldIsEnough == AccountsSpec => []TheWaitToldIsEnough
<1>1. TypeOK /\ Limits => TheWaitToldIsEnough
  <2> SUFFICES ASSUME TypeOK, Limits, NEW p \in Processes, NEW c \in Clients,
                      told[p][c] # Limiter!NeverTold, now >= told[p][c]
               PROVE  Len(Limiter!Kept(hits[p][c], now)) < Limit
    BY DEF TheWaitToldIsEnough, Limiter!TheWaitToldIsEnough
  <2> DEFINE H == hits[p][c]
             K == Limiter!Kept(H, now)
  <2>1. /\ H \in Seq(Nat) /\ Len(H) <= Limit /\ Len(H) >= 1 /\ H[1] + Window < told[p][c]
        /\ told[p][c] \in Nat /\ now \in Nat /\ Window \in Nat /\ Limit \in Nat
    BY LimiterAssumption DEF TypeOK, Limits, Tracks, Waits
  <2>2. PICK k \in 0 .. Len(H) :
          /\ Len(K) = Len(H) - k
          /\ k < Len(H) => now <= H[k + 1] + Window
    BY <2>1, KeptIsATail
  <2> HIDE DEF H, K
  <2>3. k # 0
    BY <2>1, <2>2 DEF H
  <2> QED
    BY <2>1, <2>2, <2>3 DEF H, K
<1> QED
  BY <1>1, LimitsAlways, AccountsImplementSessions, AccountsTyped, PTL
=============================================================================
