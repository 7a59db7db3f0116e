-------------------------- MODULE MCConsumerGroup --------------------------
(* Small instances of ConsumerGroup.                                       *)
EXTENDS ConsumerGroup

CONSTANTS c1,        \* a goroutine of the application
          p1, p2     \* partitions

(* A partition comes and another one goes.                                 *)
MCOffers == {{p1}, {p2}}
=============================================================================
