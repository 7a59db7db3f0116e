------------------------------ MODULE Delivery ------------------------------
(***************************************************************************)
(* What a producer promises the callers of Send and SendAsync, without     *)
(* locks, sequences, attempts or a network: a batch that is acknowledged   *)
(* has been appended, one that fails has not, and neither happens twice.   *)
(* ProduceRecords implements it while no deadline passes and no connection *)
(* breaks under a request.                                                 *)
(***************************************************************************)
EXTENDS Naturals

CONSTANTS Calls

VARIABLES
    status,     \* how far the caller of each call is
    appended    \* calls whose batch is in the log of its partition

vars == <<status, appended>>

TypeOK == /\ status \in [Calls -> {"idle", "pending", "acked", "failed"}]
          /\ appended \in SUBSET Calls

Init == /\ status = [c \in Calls |-> "idle"]
        /\ appended = {}

Send(c) == /\ status[c] = "idle"
           /\ status' = [status EXCEPT ![c] = "pending"]
           /\ UNCHANGED appended

Append(c) == /\ status[c] = "pending"
             /\ c \notin appended
             /\ appended' = appended \cup {c}
             /\ UNCHANGED status

Ack(c) == /\ status[c] = "pending"
          /\ c \in appended
          /\ status' = [status EXCEPT ![c] = "acked"]
          /\ UNCHANGED appended

Fail(c) == /\ status[c] = "pending"
           /\ c \notin appended
           /\ status' = [status EXCEPT ![c] = "failed"]
           /\ UNCHANGED appended

Next == \E c \in Calls : Send(c) \/ Append(c) \/ Ack(c) \/ Fail(c)

Spec == Init /\ [][Next]_vars
=============================================================================
