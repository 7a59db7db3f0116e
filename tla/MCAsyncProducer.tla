-------------------------- MODULE MCAsyncProducer --------------------------
(* Small instances of AsyncProducer: records of one size for partition ka, *)
(* one larger than a batch for kb.                                         *)
EXTENDS AsyncProducer

CONSTANTS big, ka, kb

MCKeyOf   == [r \in Records |-> IF r = big THEN kb ELSE ka]
MCBytesOf == [r \in Records |-> IF r = big THEN 3 ELSE 1]
=============================================================================
