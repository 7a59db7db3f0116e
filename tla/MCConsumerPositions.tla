------------------------ MODULE MCConsumerPositions ------------------------
(* Small instances of ConsumerPositions.                                   *)
EXTENDS ConsumerPositions, TLC

CONSTANTS p1, p2,    \* partitions
          app, loop  \* goroutines that commit

MCSymmetry == Permutations({p1, p2}) \cup Permutations({app, loop})
=============================================================================
