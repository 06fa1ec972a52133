---------------------------- MODULE MCBusTamper ----------------------------
(* A small instance of BusTamper for TLC. *)
EXTENDS BusTamper, TLC

OneCid == <<"cid">>

\* Bound: a behaviour is followed until two mishaps have happened.
FewMishaps == Cardinality(raced) <= 1
=============================================================================
