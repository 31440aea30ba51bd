---------------------------- MODULE MCDirectory ----------------------------
(* A small directory: an owner with two shops and a customer to hire.  With *)
(* one id for barbers, the commit of whoever is hired second fails.         *)
EXTENDS Directory, TLC

CONSTANTS o1, c1

MCFirstRole == (o1 :> "SHOP_OWNER") @@ (c1 :> "CUSTOMER")

IdSymmetry == Permutations(Requests) \cup Permutations(Barbers)
                \cup Permutations(Services) \cup Permutations(Shops)
                \cup Permutations(Names)
=============================================================================
