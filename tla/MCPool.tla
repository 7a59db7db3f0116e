------------------------------- MODULE MCPool -------------------------------
(* A small instance of Pool: three calls for one endpoint, one for another. *)
EXTENDS Pool

CONSTANTS e1, e2, other

MCEndpointOf == [c \in Calls |-> IF c = other THEN e2 ELSE e1]
=============================================================================
