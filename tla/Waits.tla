-------------------------------- MODULE Waits --------------------------------
(* The waits of database transactions for one another, as PostgreSQL's     *)
(* deadlock detector looks at them.                                        *)
EXTENDS Naturals, FiniteSets

(* t waits, directly or over others, for itself; waitsFor[u] are those     *)
(* transaction u is waiting for.                                           *)
OnCycle(t, waitsFor) ==
  LET waiting == {u \in DOMAIN waitsFor : waitsFor[u] # {}}
  IN t \in waiting /\ \E n \in 1 .. Cardinality(waiting) : \E c \in [0 .. n - 1 -> waiting] :
       /\ c[0] = t
       /\ \A i \in 0 .. n - 1 : c[(i + 1) % n] \in waitsFor[c[i]]
=============================================================================
