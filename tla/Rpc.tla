-------------------------------- MODULE Rpc --------------------------------
(***************************************************************************)
(* What a connection promises the callers of Send, without ids, channels,  *)
(* a reader or locks: a request is sent at most once, answered at most     *)
(* once, and a call that returns a response returns that of its own        *)
(* request.  The name of a call stands for its response.                   *)
(***************************************************************************)
CONSTANTS Calls, None, Error

VARIABLES
    sent,       \* requests the peer got
    answered,   \* requests the peer answered
    result      \* what Send returned

vars == <<sent, answered, result>>

Init == /\ sent = {}
        /\ answered = {}
        /\ result = [c \in Calls |-> None]

Send(c) == /\ c \notin sent
           /\ result[c] = None
           /\ sent' = sent \cup {c}
           /\ UNCHANGED <<answered, result>>

Answer(c) == /\ c \in sent \ answered
             /\ answered' = answered \cup {c}
             /\ UNCHANGED <<sent, result>>

Return(c) == /\ c \in answered
             /\ result[c] = None
             /\ result' = [result EXCEPT ![c] = c]
             /\ UNCHANGED <<sent, answered>>

(* Closed, canceled, refused: the peer may have got the request or not.    *)
Fail(c) == /\ result[c] = None
           /\ result' = [result EXCEPT ![c] = Error]
           /\ UNCHANGED <<sent, answered>>

Next == \E c \in Calls : Send(c) \/ Answer(c) \/ Return(c) \/ Fail(c)

Spec == Init /\ [][Next]_vars
=============================================================================
