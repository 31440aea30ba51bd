------------------------------ MODULE MCRatings ------------------------------
(* A small instance of Ratings: all reviews are about the first of two     *)
(* barbers; the nightly job locks both, in either order.                   *)
EXTENDS Ratings, TLC

CONSTANT b1

MCBarberOf == [a \in Appts |-> b1]
=============================================================================
