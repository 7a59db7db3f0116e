--------------------------- MODULE MCConnection ---------------------------
(* A small instance of Connection: every call has an id of its own.        *)
EXTENDS Connection, TLC

CONSTANTS c1, c2, c3

MCIdOf == (c1 :> 1) @@ (c2 :> 2) @@ (c3 :> 3)
=============================================================================
