------------------------ MODULE MCCoordinatorClient ------------------------
(* Small instances of CoordinatorClient.                                   *)
EXTENDS CoordinatorClient

CONSTANTS b1, b2,    \* brokers
          app, loop  \* goroutines that commit
=============================================================================
