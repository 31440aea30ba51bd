------------------------------ MODULE Accounts ------------------------------
(***************************************************************************)
(* The /auth endpoints as they are served (app/api/v1/auth.py): Sessions,  *)
(* with the limiter of the API processes in front of login and             *)
(* registration.  An attempt is counted before it is known whether it      *)
(* succeeds; refresh and logout are not limited.                           *)
(***************************************************************************)
EXTENDS Sessions

CONSTANTS Processes, Clients, Limit, Window, Second

(* The window is a whole number of seconds (window_seconds).               *)
ASSUME LimiterAssumption ==
  /\ Limit \in Nat \ {0}
  /\ Second \in Nat \ {0}
  /\ Window \in Nat \ {0} /\ Window % Second = 0

VARIABLES hits, passed, told

Limiter == INSTANCE RateLimiter

allVars == <<vars, hits, passed, told>>

(* limit_auth is a dependency of the endpoint: it runs before the handler, *)
(* which may then fail (a wrong password, a taken address).                *)
Attempt(r) ==
  \E p \in Processes, c \in Clients :
    \/ Limiter!Pass(p, c) /\ (SignIn(r) \/ (req[r].op = "idle" /\ UNCHANGED vars))
    \/ Limiter!Refuse(p, c) /\ UNCHANGED vars

Restart(p) ==
  /\ Limiter!RestartProcess(p)
  /\ UNCHANGED vars

AccountsInit == Init /\ Limiter!LimiterInit
AccountsNext ==
  \/ \E r \in Requests : Attempt(r)
  \/ \E p \in Processes : Restart(p)
  \/ (Tick \/ \E r \in Requests : Proceed(r)) /\ UNCHANGED <<hits, passed, told>>

AccountsSpec == AccountsInit /\ [][AccountsNext]_allVars

AtMostLimitPerWindow == Limiter!AtMostLimitPerWindow
TheWaitToldIsEnough  == Limiter!TheWaitToldIsEnough
=============================================================================
