------------------------------ MODULE Sessions ------------------------------
(***************************************************************************)
(* Accounts and refresh tokens (app/services/auth.py).  A handler reads in *)
(* one step and commits in another: between the two, other handlers may    *)
(* rotate or revoke the token it has read.  Left out: passwords, a wrong   *)
(* one changes nothing; users.is_active, which every operation checks and  *)
(* none changes; access tokens, which are not stored, so that what they    *)
(* are worth is decided when they are signed.                              *)
(***************************************************************************)
EXTENDS Naturals, FiniteSets

CONSTANTS
  Users,        \* user ids
  Emails,       \* addresses, equal up to case being equal (CITEXT)
  Tokens,       \* ids of refresh tokens: the bound on rows ever inserted
  Requests,     \* concurrent request handlers of the API
  RefreshTTL,   \* REFRESH_TOKEN_EXPIRE_DAYS
  None,         \* where a token comes from that a sign-in issued
  MaxTime       \* bound on the clock

ASSUME SessionsAssumption ==
  /\ RefreshTTL \in Nat /\ MaxTime \in Nat
  /\ None \notin Tokens \cup Requests

VARIABLES
  now,       \* the clock
  accounts,  \* table users: the address of every id inserted so far
  tokens,    \* table refresh_tokens, a function on the ids inserted so far
  req        \* what each request handler has in hand

vars == <<now, accounts, tokens, req>>

(* live says that revoked_at IS NULL.  The rest the database does not keep *)
(* and no guard reads, the properties need it: parent is the token that    *)
(* was exchanged for this one, by the handler that did it, late those that *)
(* had this one in hand, to exchange it, when it was revoked.              *)
Token == [user : Users, issued : Nat, live : BOOLEAN,
          parent : Tokens \cup {None}, by : Requests \cup {None}, late : SUBSET Requests]

Idle == [op |-> "idle"]
Req  == [op : {"idle"}]
   \cup [op : {"register"}, user : Users, email : Emails]
   \cup [op : {"refresh"}, token : Tokens]
   \cup [op : {"reuse"}, found : SUBSET Tokens]
   \cup [op : {"logout"}, token : Tokens]

-----------------------------------------------------------------------------
TokenIsLive(t) == tokens[t].live

Keep(r, q) == req' = [req EXCEPT ![r] = q]

InHand(t) == {r \in Requests : req[r].op = "refresh" /\ req[r].token = t}

(* revoked_at is set in the rows of "revoked", the others are left.        *)
M_Stamp(revoked) == [t \in DOMAIN tokens \ revoked |-> tokens[t]]
Stamp(revoked) ==
  [t \in DOMAIN tokens |->
     IF t \in revoked /\ TokenIsLive(t)
     THEN [tokens[t] EXCEPT !.live = FALSE, !.late = InHand(t)]
     ELSE tokens[t]]

(* _issue_token_pair: one more row, and an access token minted with it.    *)
IssuePair(u, p, r, rows) ==
  \E t \in Tokens \ DOMAIN tokens :
    tokens' = [x \in DOMAIN rows \cup {t} |->
                 IF x = t THEN [user |-> u, issued |-> now, live |-> TRUE,
                                parent |-> p, by |-> r, late |-> {}]
                 ELSE rows[x]]

-----------------------------------------------------------------------------
(* Registration and login *)

(* The address is taken by a committed account, or by one that is being    *)
(* inserted: the unique index makes the second INSERT wait for the first.  *)
Registered(e) == \E u \in DOMAIN accounts : accounts[u] = e
BeingRegistered(e) == \E r \in Requests : req[r].op = "register" /\ req[r].email = e
NewUser(u) == u \notin DOMAIN accounts /\ \A r \in Requests :
                 req[r].op = "register" => req[r].user # u

MayInsert(e) == ~Registered(e) /\ ~BeingRegistered(e)

(* The flush of the new account; a taken address is a conflict and the     *)
(* handler stays idle.                                                     *)
Register(r) ==
  /\ req[r].op = "idle"
  /\ \E u \in Users, e \in Emails :
       NewUser(u) /\ MayInsert(e) /\ Keep(r, [op |-> "register", user |-> u, email |-> e])
  /\ UNCHANGED <<now, accounts, tokens>>

CommitRegister(r) ==
  /\ req[r].op = "register"
  /\ LET q == req[r]
     IN /\ accounts' = [u \in DOMAIN accounts \cup {q.user} |->
                          IF u = q.user THEN q.email ELSE accounts[u]]
        /\ IssuePair(q.user, None, None, tokens)
  /\ Keep(r, Idle)
  /\ UNCHANGED now

(* Nothing another handler does can make the account read here another.    *)
Login(r) ==
  /\ req[r].op = "idle"
  /\ \E u \in DOMAIN accounts : IssuePair(u, None, None, tokens)
  /\ UNCHANGED <<now, accounts, req>>

-----------------------------------------------------------------------------
(* Refresh and logout *)

(* Only a live token that has not expired can be exchanged.                *)
M_MayExchange(t) == now < tokens[t].issued + RefreshTTL
MayExchange(t) == TokenIsLive(t) /\ now < tokens[t].issued + RefreshTTL

Refresh(r) ==
  /\ req[r].op = "idle"
  /\ \E t \in DOMAIN tokens : MayExchange(t) /\ Keep(r, [op |-> "refresh", token |-> t])
  /\ UNCHANGED <<now, accounts, tokens>>

(* The UPDATE of the exchanged row goes by primary key: it does not see    *)
(* that another handler has revoked the row since it was read.             *)
CommitRefresh(r) ==
  /\ req[r].op = "refresh"
  /\ LET t == req[r].token
     IN IssuePair(tokens[t].user, t, r, Stamp({t}))
  /\ Keep(r, Idle)
  /\ UNCHANGED <<now, accounts>>

(* A token that was revoked, whatever its age, is a reuse: one UPDATE of   *)
(* all live tokens of the user.  It finds the rows its snapshot shows, and *)
(* skips those that another handler revokes before it gets to them; a      *)
(* token inserted since is not found.  A revoked token stays revoked, so   *)
(* the read is one step with the snapshot; one that finds none changes     *)
(* nothing.                                                                *)
FoundLive(t) == {s \in DOMAIN tokens : TokenIsLive(s) /\ tokens[s].user = tokens[t].user}

Reuse(r) ==
  /\ req[r].op = "idle"
  /\ \E t \in DOMAIN tokens :
       /\ ~TokenIsLive(t) /\ FoundLive(t) # {}
       /\ Keep(r, [op |-> "reuse", found |-> FoundLive(t)])
  /\ UNCHANGED <<now, accounts, tokens>>

CommitReuse(r) ==
  /\ req[r].op = "reuse"
  /\ tokens' = Stamp(req[r].found)
  /\ Keep(r, Idle)
  /\ UNCHANGED <<now, accounts>>

(* A logout that finds the token revoked changes nothing.                  *)
Logout(r) ==
  /\ req[r].op = "idle"
  /\ \E t \in DOMAIN tokens : TokenIsLive(t) /\ Keep(r, [op |-> "logout", token |-> t])
  /\ UNCHANGED <<now, accounts, tokens>>

CommitLogout(r) ==
  /\ req[r].op = "logout"
  /\ tokens' = Stamp({req[r].token})
  /\ Keep(r, Idle)
  /\ UNCHANGED <<now, accounts>>

(* The handler dies before its commit: the transaction is rolled back.     *)
Abandon(r) ==
  /\ req[r].op # "idle"
  /\ Keep(r, Idle)
  /\ UNCHANGED <<now, accounts, tokens>>

-----------------------------------------------------------------------------
Tick ==
  /\ now < MaxTime
  /\ now' = now + 1
  /\ UNCHANGED <<accounts, tokens, req>>

Init ==
  /\ now = 0
  /\ accounts = [u \in {} |-> {}]
  /\ tokens = [t \in {} |-> {}]
  /\ req = [r \in Requests |-> Idle]

(* The two operations a client is limited in, and the others.              *)
SignIn(r) == Register(r) \/ Login(r)
Proceed(r) ==
  \/ CommitRegister(r)
  \/ Refresh(r) \/ CommitRefresh(r)
  \/ Reuse(r) \/ CommitReuse(r)
  \/ Logout(r) \/ CommitLogout(r)
  \/ Abandon(r)

Next ==
  \/ \E r \in Requests : SignIn(r) \/ Proceed(r)
  \/ Tick

Spec == Init /\ [][Next]_vars

-----------------------------------------------------------------------------
(* Properties *)

(* Every variable has its type, and what refers to a row finds it.         *)
TypeOK ==
  /\ now \in Nat
  /\ DOMAIN accounts \subseteq Users /\ accounts \in [DOMAIN accounts -> Emails]
  /\ DOMAIN tokens \subseteq Tokens /\ tokens \in [DOMAIN tokens -> Token]
  /\ \A t \in DOMAIN tokens :
       tokens[t].user \in DOMAIN accounts /\ tokens[t].parent \in DOMAIN tokens \cup {None}
  /\ req \in [Requests -> Req]
  /\ \A r \in Requests :
       /\ req[r].op \in {"refresh", "logout"} => req[r].token \in DOMAIN tokens
       /\ req[r].op = "reuse" => req[r].found \subseteq DOMAIN tokens

(* Two registrations of one address that run at the same time leave one    *)
(* account, and the other client is told so.                               *)
OneAccountPerEmail ==
  \A u, v \in DOMAIN accounts : accounts[u] = accounts[v] => u = v

(* A refresh token buys at most one new pair per handler that had it in    *)
(* hand at the time: a client that repeats a refresh later, because the    *)
(* answer was lost, is noticed and gets nothing.  With one handler this is *)
(* the docstring's "usable at most once".                                  *)
ExchangedOncePerHandler ==
  \A s, t \in DOMAIN tokens :
    s # t /\ tokens[s].parent = tokens[t].parent /\ tokens[s].parent # None
      => tokens[s].by # tokens[t].by

(* A token that a logout, a rotation or a reuse has revoked buys nothing   *)
(* more, except to the handlers that had it in hand at that moment: their  *)
(* commits do not look at the row again, and the pair they issue is live   *)
(* although the session was ended before.                                  *)
RevokedBuysOnlyWhatIsUnderWay ==
  \A t \in DOMAIN tokens :
    tokens[t].parent # None =>
      LET p == tokens[tokens[t].parent]
      IN ~p.live /\ tokens[t].by \in p.late

(* What does not hold: that a reuse leaves the user without a session      *)
(* ("every session for that user is revoked and both must log in again").  *)
ReuseEndsEverySession ==
  [][\A r \in Requests :
       CommitReuse(r) =>
         \A s \in req[r].found, t \in DOMAIN tokens' :
           tokens'[t].live => tokens'[t].user # tokens[s].user]_vars
=============================================================================
