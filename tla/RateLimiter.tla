----------------------------- MODULE RateLimiter -----------------------------
(***************************************************************************)
(* The limiter of the login and registration endpoints                     *)
(* (app/core/rate_limit.py): each API process keeps, for each client       *)
(* address, a queue of the times at which it let the client pass.  Time    *)
(* runs in ticks of which Second make a second, because the limiter tells  *)
(* clients whole seconds and compares fractions of them.                   *)
(***************************************************************************)
EXTENDS Naturals, Sequences, FiniteSetsExt

CONSTANTS
  Processes,  \* API processes, each with a limiter of its own
  Clients,    \* client addresses
  Limit,      \* SlidingWindowLimiter.limit
  Window,     \* SlidingWindowLimiter.window, in ticks
  Second      \* ticks per second

VARIABLES
  now,     \* time.monotonic()
  hits,    \* _hits, per process and client
  passed,  \* history: the last Limit + 1 times a client was let pass
  told     \* history: when the client refused last was told to come back

(* The hits the window still holds: one of exactly the window's age does.  *)
(* Those before the first of them are dropped.                             *)
M_Held(h, t) == {i \in DOMAIN h : t - h[i] < Window}
Held(h, t) == {i \in DOMAIN h : t - h[i] <= Window}
Kept(h, t) == IF Held(h, t) = {} THEN <<>> ELSE SubSeq(h, Min(Held(h, t)), Len(h))

(* retry_after_seconds: the age left of the oldest hit, rounded down, and  *)
(* a second more.                                                          *)
M_RetryAfter(h, t) == (Window - (t - Head(h))) \div Second
RetryAfter(h, t) == (Window - (t - Head(h))) \div Second + 1

NeverTold == 0

LimiterInit ==
  /\ hits   = [p \in Processes |-> [c \in Clients |-> <<>>]]
  /\ passed = [p \in Processes |-> [c \in Clients |-> <<>>]]
  /\ told   = [p \in Processes |-> [c \in Clients |-> NeverTold]]

LastPassed(s) == IF Len(s) > Limit + 1 THEN Tail(s) ELSE s

(* check() lets the client pass ...                                        *)
Pass(p, c) ==
  LET h == Kept(hits[p][c], now)
  IN /\ Len(h) < Limit
     /\ hits' = [hits EXCEPT ![p][c] = Append(h, now)]
     /\ passed' = [passed EXCEPT ![p][c] = LastPassed(Append(@, now))]
     /\ told' = [told EXCEPT ![p][c] = NeverTold]

(* ... or raises RateLimitedError.                                         *)
Refuse(p, c) ==
  LET h == Kept(hits[p][c], now)
  IN /\ Len(h) >= Limit
     /\ hits' = [hits EXCEPT ![p][c] = h]
     /\ told' = [told EXCEPT ![p][c] = now + Second * RetryAfter(h, now)]
     /\ UNCHANGED passed

(* The process is restarted: its memory is gone.                           *)
RestartProcess(p) ==
  /\ hits'   = [hits EXCEPT ![p] = [c \in Clients |-> <<>>]]
  /\ passed' = [passed EXCEPT ![p] = [c \in Clients |-> <<>>]]
  /\ told'   = [told EXCEPT ![p] = [c \in Clients |-> NeverTold]]

-----------------------------------------------------------------------------
(* Properties *)

(* In no span of time as long as the window, wherever it begins, does one  *)
(* process let a client pass more than Limit times.                        *)
AtMostLimitPerWindow ==
  \A p \in Processes, c \in Clients :
    Len(passed[p][c]) > Limit =>
      passed[p][c][Len(passed[p][c])] - passed[p][c][Len(passed[p][c]) - Limit] > Window

(* A refused client that waits as long as it was told, and no longer, is   *)
(* not refused again, however the fractions of a second fell.              *)
TheWaitToldIsEnough ==
  \A p \in Processes, c \in Clients :
    told[p][c] # NeverTold /\ now >= told[p][c] => Len(Kept(hits[p][c], now)) < Limit
=============================================================================
