------------------------- MODULE CoordinatorClient -------------------------
(* How the consumer (consumer.Client) finds the coordinator of its group:  *)
(* the endpoint in the session, read by Commit and replaced by             *)
(* refreshCoordinator, the copy that the heartbeat loop keeps, the one a   *)
(* join asks for offsets, and the two attempts that each of their requests *)
(* has. The coordinator moves at any time.                                 *)
EXTENDS Naturals

CONSTANTS Brokers,         \* that may coordinate the group
          Committers,      \* goroutines that commit
          NilEndpoint,     \* of a session that is not there yet
          MaxPartitions,   \* bound: partitions of a commit
          MaxCalls,        \* bound: commits, heartbeats and joins
          MaxSessions,     \* bound: joins that succeed
          MaxMoves         \* bound: moves of the coordinator

ASSUME BoundsAssumption == /\ MaxPartitions \in Nat \ {0} /\ MaxCalls \in Nat
                           /\ MaxSessions \in Nat \ {0} /\ MaxMoves \in Nat
ASSUME NamesAssumption == Committers \cap {"heartbeat", "offset"} = {}

Callers    == Committers \cup {"heartbeat", "offset"}
Endpoints  == [host : Brokers, port : Brokers]
Whole(b)   == [host |-> b, port |-> b]   \* every other one is nobody's

VARIABLES
    coordinatorAt,     \* broker that coordinates the group
    groupSession,      \* number of the session in place, 0 is nil
    sessions,          \* sessions there have been
    endpointOf,        \* Coordinator of each session
    heartbeatSession,  \* endpoint in the copy the heartbeat loop has
    joinPc,
    joinCoordinator,   \* endpoint the join under way has found
    callPc,            \* where each call stands
    reading,           \* session whose endpoint a Commit reads
    coordinator,       \* endpoint a call uses
    attempt,
    left,              \* partitions it has still to ask for
    calls, moves,      \* what the bounds count
    moved              \* history: calls during which the coordinator moved

sessionVars == <<groupSession, sessions, endpointOf, heartbeatSession>>
joinVars    == <<joinPc, joinCoordinator>>
callVars    == <<callPc, reading, coordinator, attempt, left>>
coordVars   == <<coordinatorAt, sessionVars, joinVars, callVars, calls, moves, moved>>

(* A consumer with the session of its first join.                          *)
CoordInit ==
    /\ coordinatorAt \in Brokers
    /\ groupSession = 1 /\ sessions = 1
    /\ endpointOf = [s \in 1..MaxSessions |->
                        IF s = 1 THEN Whole(coordinatorAt) ELSE NilEndpoint]
    /\ heartbeatSession = Whole(coordinatorAt)
    /\ joinPc = "idle"
    /\ joinCoordinator = Whole(coordinatorAt)
    /\ callPc = [k \in Callers |-> "idle"]
    /\ reading = [k \in Callers |-> 0]
    /\ coordinator = [k \in Callers |-> Whole(coordinatorAt)]
    /\ attempt = [k \in Callers |-> 1]
    /\ left = [k \in Callers |-> 0]
    /\ calls = 0
    /\ moves = 0
    /\ moved = {}

-----------------------------------------------------------------------------
GoTo(k, label) == callPc' = [callPc EXCEPT ![k] = label]
Use(k, endpoint) == coordinator' = [coordinator EXCEPT ![k] = endpoint]
Count == calls < MaxCalls /\ calls' = calls + 1

(* Commit takes the session under mu.                                      *)
Commit(k) ==
    /\ callPc[k] = "idle"
    /\ Count
    /\ \E n \in 1..MaxPartitions : left' = [left EXCEPT ![k] = n]
    /\ reading' = [reading EXCEPT ![k] = groupSession]
    /\ GoTo(k, "coordinator")
    /\ moved' = moved \ {k}
    /\ UNCHANGED <<coordinatorAt, sessionVars, joinVars, coordinator, attempt, moves>>

(* It begins to copy the session's endpoint, or asks the cluster.          *)
Coordinator(k) ==
    /\ callPc[k] = "coordinator"
    /\ IF reading[k] = 0
       THEN Use(k, Whole(coordinatorAt)) /\ GoTo(k, "send")
       ELSE Use(k, endpointOf[reading[k]]) /\ GoTo(k, "reading")
    /\ UNCHANGED <<coordinatorAt, sessionVars, joinVars, reading, attempt, left, calls, moves,
                   moved>>

(* The copy is made without mu. If refreshCoordinator has written the      *)
(* endpoint meanwhile, each word may be that of before or of after.        *)
CoordinatorRead(k) ==
    /\ callPc[k] = "reading"
    /\ \E some, other \in {coordinator[k], endpointOf[reading[k]]} :
         Use(k, [host |-> some.host, port |-> other.port])
    /\ reading' = [reading EXCEPT ![k] = 0]
    /\ GoTo(k, "send")
    /\ UNCHANGED <<coordinatorAt, sessionVars, joinVars, attempt, left, calls, moves, moved>>

(* The loop begins every heartbeat with the endpoint of its own copy of    *)
(* the session, that no refresh writes to.                                 *)
Heartbeat ==
    /\ callPc["heartbeat"] = "idle"
    /\ groupSession # 0
    /\ Count
    /\ left' = [left EXCEPT !["heartbeat"] = 1]
    /\ Use("heartbeat", heartbeatSession)
    /\ GoTo("heartbeat", "send")
    /\ moved' = moved \ {"heartbeat"}
    /\ UNCHANGED <<coordinatorAt, sessionVars, joinVars, reading, attempt, moves>>

(* A join finds the coordinator, joins and syncs, and asks for offsets.    *)
Join ==
    /\ joinPc = "idle"
    /\ sessions < MaxSessions
    /\ Count
    /\ joinPc' = "joining"
    /\ joinCoordinator' = Whole(coordinatorAt)
    /\ UNCHANGED <<coordinatorAt, sessionVars, callVars, moves, moved>>

JoinFails ==
    /\ joinPc = "joining"
    /\ joinPc' = "idle"
    /\ UNCHANGED <<coordinatorAt, sessionVars, joinCoordinator, callVars, calls, moves, moved>>

FetchCommittedOffset ==
    /\ joinPc = "joining"
    /\ joinPc' = "offset"
    /\ left' = [left EXCEPT !["offset"] = 1]
    /\ Use("offset", joinCoordinator)
    /\ GoTo("offset", "send")
    /\ moved' = moved \ {"offset"}
    /\ UNCHANGED <<coordinatorAt, sessionVars, joinCoordinator, reading, attempt, calls, moves>>

(* The session and the loop's copy have the endpoint that was joined.      *)
InstallSession ==
    /\ joinPc = "session"
    /\ joinPc' = "idle"
    /\ sessions' = sessions + 1
    /\ groupSession' = sessions + 1
    /\ endpointOf' = [endpointOf EXCEPT ![sessions + 1] = joinCoordinator]
    /\ heartbeatSession' = joinCoordinator
    /\ UNCHANGED <<coordinatorAt, joinCoordinator, callVars, calls, moves, moved>>

(* Assign drops the session.                                               *)
Assign ==
    /\ groupSession # 0
    /\ Count
    /\ groupSession' = 0
    /\ UNCHANGED <<coordinatorAt, sessions, endpointOf, heartbeatSession, joinVars, callVars, moves, moved>>

-----------------------------------------------------------------------------
Reached(k) == coordinator[k] = Whole(coordinatorAt)

(* A call ends; that of a join takes the join with it.                     *)
End(k, joined) ==
    /\ GoTo(k, "idle")
    /\ reading' = [reading EXCEPT ![k] = 0]
    /\ Use(k, Whole(coordinatorAt))
    /\ attempt' = [attempt EXCEPT ![k] = 1]
    /\ left' = [left EXCEPT ![k] = 0]
    /\ joinPc' = IF k # "offset" THEN joinPc ELSE IF joined THEN "session" ELSE "idle"
    /\ UNCHANGED <<coordinatorAt, sessionVars, joinCoordinator, calls, moves, moved>>

(* A partition is done. The next one of a Commit has two attempts of its   *)
(* own and begins with the endpoint that this one ended with.              *)
Answered(k) ==
    /\ callPc[k] = "send"
    /\ Reached(k)
    /\ IF left[k] = 1
       THEN End(k, TRUE)
       ELSE /\ left' = [left EXCEPT ![k] = @ - 1]
            /\ attempt' = [attempt EXCEPT ![k] = 1]
            /\ UNCHANGED <<coordinatorAt, sessionVars, joinVars, callPc, reading, coordinator,
                           calls, moves, moved>>

(* The answer of a Commit or an OffsetFetch lacks the partition: the next  *)
(* attempt asks the same broker.                                           *)
AnswerIncomplete(k) ==
    /\ callPc[k] = "send"
    /\ k # "heartbeat"
    /\ Reached(k)
    /\ attempt[k] = 1
    /\ attempt' = [attempt EXCEPT ![k] = 2]
    /\ UNCHANGED <<coordinatorAt, sessionVars, joinVars, callPc, reading, coordinator, left,
                   calls, moves, moved>>

(* shouldRefreshCoordinator: a code of a broker that does not coordinate,  *)
(* or an error of the transport.                                           *)
AttemptFails(k) ==
    /\ callPc[k] = "send"
    /\ attempt[k] = 1
    /\ GoTo(k, "find")
    /\ UNCHANGED <<coordinatorAt, sessionVars, joinVars, reading, coordinator, attempt, left,
                   calls, moves, moved>>

(* Variants a bug could leave in the code: a new endpoint in a variable of *)
(* an inner block, and an attempt that is not counted.                     *)
FindCoordinatorShadowed(k) ==
    /\ callPc[k] = "find"
    /\ attempt' = [attempt EXCEPT ![k] = 2]
    /\ GoTo(k, "send")
    /\ UNCHANGED <<coordinatorAt, sessionVars, joinVars, reading, coordinator, left, calls,
                   moves, moved>>

FindCoordinatorUncounted(k) ==
    /\ callPc[k] = "find"
    /\ Use(k, Whole(coordinatorAt))
    /\ GoTo(k, IF k = "offset" THEN "send" ELSE "store")
    /\ UNCHANGED <<coordinatorAt, sessionVars, joinVars, reading, attempt, left, calls, moves,
                   moved>>

(* The cluster names the coordinator for the second attempt. An OffsetFetch*)
(* keeps it to itself.                                                     *)
FindCoordinator(k) ==
    /\ callPc[k] = "find"
    /\ Use(k, Whole(coordinatorAt))
    /\ attempt' = [attempt EXCEPT ![k] = 2]
    /\ GoTo(k, IF k = "offset" THEN "send" ELSE "store")
    /\ UNCHANGED <<coordinatorAt, sessionVars, joinVars, reading, left, calls, moves, moved>>

(* refreshCoordinator stores it in the session, if there is one still.     *)
StoreCoordinator(k) ==
    /\ callPc[k] = "store"
    /\ endpointOf' = IF groupSession = 0 THEN endpointOf
                     ELSE [endpointOf EXCEPT ![groupSession] = coordinator[k]]
    /\ GoTo(k, "send")
    /\ UNCHANGED <<coordinatorAt, groupSession, sessions, heartbeatSession, joinVars, reading,
                   coordinator, attempt, left, calls, moves, moved>>

(* Any other error, or a second one, or a failed lookup, ends the call.    *)
GiveUp(k) ==
    /\ callPc[k] \in {"coordinator", "send", "find"}
    /\ callPc[k] = "coordinator" => reading[k] = 0
    /\ End(k, FALSE)

(* So does a second attempt that does not reach the coordinator.           *)
Miss(k) ==
    /\ callPc[k] = "send"
    /\ attempt[k] = 2
    /\ ~Reached(k)
    /\ End(k, FALSE)

MoveCoordinator ==
    /\ moves < MaxMoves
    /\ moves' = moves + 1
    /\ coordinatorAt' \in Brokers \ {coordinatorAt}
    /\ moved' = moved \cup {k \in Callers : callPc[k] # "idle"}
    /\ UNCHANGED <<sessionVars, joinVars, callVars, calls>>

-----------------------------------------------------------------------------
CallStep(k) == \/ Coordinator(k) \/ CoordinatorRead(k)
               \/ Answered(k) \/ AnswerIncomplete(k) \/ AttemptFails(k)
               \/ FindCoordinator(k) \/ StoreCoordinator(k)
               \/ GiveUp(k) \/ Miss(k)

JoinStep == JoinFails \/ FetchCommittedOffset \/ InstallSession

CoordNext ==
    \/ \E k \in Committers : Commit(k)
    \/ Heartbeat \/ Join \/ Assign
    \/ \E k \in Callers : CallStep(k)
    \/ JoinStep
    \/ MoveCoordinator

CoordSpec == CoordInit /\ [][CoordNext]_coordVars

(* Every request ends by its answer, an error or RequestTimeout.           *)
Fairness == WF_coordVars(JoinStep) /\ \A k \in Callers : WF_coordVars(CallStep(k))

CoordFairSpec == CoordSpec /\ Fairness

-----------------------------------------------------------------------------
CoordTypeOK ==
    /\ coordinatorAt \in Brokers
    /\ groupSession \in 0..sessions
    /\ sessions \in 1..MaxSessions
    /\ endpointOf \in [1..MaxSessions -> Endpoints \cup {NilEndpoint}]
    /\ \A s \in 1..sessions : endpointOf[s] \in Endpoints
    /\ heartbeatSession \in Endpoints
    /\ joinPc \in {"idle", "joining", "offset", "session"}
    /\ joinPc # "idle" => sessions < MaxSessions
    /\ joinCoordinator \in Endpoints
    /\ callPc \in [Callers -> {"idle", "coordinator", "reading", "send", "find", "store"}]
    /\ reading \in [Callers -> 0..sessions]
    /\ \A k \in Callers : callPc[k] = "reading" => reading[k] # 0
    /\ coordinator \in [Callers -> Endpoints]
    /\ attempt \in [Callers -> 1..2]
    /\ left \in [Callers -> Nat]
    /\ calls \in 0..MaxCalls
    /\ moves \in 0..MaxMoves
    /\ moved \subseteq Callers

(* Two attempts are enough: unless the coordinator moves during the call,  *)
(* no second attempt misses it, even if the endpoint of the first was torn *)
(* in reading, was out of date in the session, the loop's copy or the      *)
(* join, or has been put back to an older one by a slower refresh.         *)
SecondAttemptReaches == [][\A k \in Callers : Miss(k) => k \in moved]_coordVars

(* Requests end, and so do all calls and joins, however often the          *)
(* coordinator has moved.                                                  *)
CallsEnd == <>[](joinPc = "idle" /\ \A k \in Callers : callPc[k] = "idle")

=============================================================================
