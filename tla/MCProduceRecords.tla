------------------------- MODULE MCProduceRecords -------------------------
(* Small instances of ProduceRecords.                                      *)
EXTENDS ProduceRecords

CONSTANTS a1, a2, b1,    \* calls: two for one partition, one for another
          ka, kb         \* their partitions

MCKeyOf  == [c \in Calls |-> IF c = b1 THEN kb ELSE ka]
MCSizeOf == [c \in Calls |-> IF c = b1 THEN 1 ELSE 2]
=============================================================================
