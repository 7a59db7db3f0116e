--------------------------- MODULE ConsumerGroup ---------------------------
(* Membership of one consumer in its group (consumer.Client): Subscribe,   *)
(* Assign, Close and Poll as far as they join or leave, the rejoin that    *)
(* Poll and the heartbeat loop start by themselves, the heartbeat and the  *)
(* auto-commit loops, and the calls of the RebalanceListener.              *)
(* A join is named by the generation the coordinator gives it, and the     *)
(* loops it starts have its name. What a fetch, a heartbeat or a commit    *)
(* asks for is not part of this module: ConsumerPositions has it, and the  *)
(* coordinator's address with it.                                          *)
EXTENDS Naturals, FiniteSets

CONSTANTS Callers,           \* goroutines of the application
          Partitions,        \* of the subscribed topics
          Offers,            \* what metadata responses and Assign may name
          MaxJoins,          \* bound: generations
          MaxCalls,          \* bound: calls of the application
          EnableAutoCommit

ASSUME BoundsAssumption == MaxJoins \in Nat /\ MaxCalls \in Nat
ASSUME OffersAssumption == Offers \subseteq (SUBSET Partitions) \ {{}}
ASSUME AutoCommitAssumption == EnableAutoCommit \in BOOLEAN
ASSUME NamesAssumption == Callers \cap Nat = {}

Joins   == 1..MaxJoins
Joiners == Callers \cup Joins    \* a heartbeat loop joins, too

VARIABLES
    subscribed,        \* subscribedTopics is not empty
    assignment,        \* the assigned partitions
    groupSession,      \* the join whose session is installed, or 0
    heartbeatCancel,   \* the join whose heartbeat loop it stops, or 0
    autoCommitCancel,  \* the same for the auto-commit loop
    lastPollOld,       \* lastPoll is more than MaxPollInterval ago
    pc,                \* where a caller or a heartbeat loop stands
    join,              \* generation of the join it is in, or 0
    wanted,            \* partitions its metadata response names
    revoked, assigned, \* what it tells the listener
    committer,         \* where an auto-commit loop stands
    stopHeartbeat,     \* heartbeat loops whose context is canceled
    stopCommit,        \* auto-commit loops whose context is canceled
    held,              \* partitions as the listener has been told
    generation,        \* the coordinator's last generation
    calls,             \* calls the application has made
    \* history
    late,              \* no Poll for more than MaxPollInterval
    closed,            \* Close has returned, nobody has joined or polled into a join since
    manual,            \* partitions of the Assign in force, or {}
    assignUsed,        \* Assign was called
    overlapped         \* joins overlapped one another, an Assign or a Close

clientVars  == <<subscribed, assignment, groupSession, heartbeatCancel,
                 autoCommitCancel, lastPollOld>>
joinerVars  == <<join, wanted, revoked, assigned>>
loopVars    == <<committer, stopHeartbeat, stopCommit>>
historyVars == <<late, closed, manual, assignUsed, overlapped>>
vars == <<clientVars, pc, joinerVars, loopVars, held, generation, calls, historyVars>>

Asking    == {"join", "metadata"}
Notifying == {"revoke", "install", "notify"}
JoinBody  == Asking \cup {"diff"} \cup Notifying \cup
             {"session", "stopHB", "startHB", "stopAC", "startAC"}
Stopping  == {"assignHB", "assignAC", "assignSet", "closeHB", "closeAC"}
Joining   == {j \in Joiners : pc[j] \in JoinBody}
Leaving   == {c \in Callers : pc[c] \in Stopping}

Init ==
    /\ subscribed = FALSE
    /\ assignment = {}
    /\ groupSession = 0
    /\ heartbeatCancel = 0
    /\ autoCommitCancel = 0
    /\ lastPollOld = FALSE
    /\ pc = [j \in Joiners |-> IF j \in Callers THEN "idle" ELSE "none"]
    /\ join = [j \in Joiners |-> 0]
    /\ wanted = [j \in Joiners |-> {}]
    /\ revoked = [j \in Joiners |-> {}]
    /\ assigned = [j \in Joiners |-> {}]
    /\ committer = [n \in Joins |-> "none"]
    /\ stopHeartbeat = {}
    /\ stopCommit = {}
    /\ held = {}
    /\ generation = 0
    /\ calls = 0
    /\ late = FALSE
    /\ closed = FALSE
    /\ manual = {}
    /\ assignUsed = FALSE
    /\ overlapped = FALSE

-----------------------------------------------------------------------------
GoTo(j, label) == pc' = [pc EXCEPT ![j] = label]

Call(c) == /\ pc[c] = "idle"
           /\ calls < MaxCalls
           /\ calls' = calls + 1

(* A join, an Assign or a Close begins.                                    *)
Overlap == overlapped' = (overlapped \/ Joining \cup Leaving # {})

(* Variants a bug could leave in the code: a stop that waits until the     *)
(* loop is quiet, and one that cancels nothing.                            *)
StopHeartbeatLoopAwaiting ==
    /\ heartbeatCancel # 0 => pc[heartbeatCancel] \in {"waiting", "ended"}
    /\ heartbeatCancel' = 0
    /\ stopHeartbeat' = stopHeartbeat \cup ({heartbeatCancel} \ {0})

StopAutoCommitLoopForgetting ==
    /\ autoCommitCancel' = 0
    /\ stopCommit' = stopCommit

(* A caller is done when it returns, a loop waits for its next tick.       *)
Return(j) == GoTo(j, IF j \in Callers THEN "idle" ELSE "waiting")

(* stopHeartbeatLoop and stopAutoCommitLoop: take the function under mu,   *)
(* and call it. A context is canceled once.                                *)
StopHeartbeatLoop ==
    /\ heartbeatCancel' = 0
    /\ stopHeartbeat' = stopHeartbeat \cup ({heartbeatCancel} \ {0})

StopAutoCommitLoop ==
    /\ autoCommitCancel' = 0
    /\ stopCommit' = stopCommit \cup ({autoCommitCancel} \ {0})

-----------------------------------------------------------------------------
(* The application: Subscribe with a group id and topics.                  *)
Subscribe(c) ==
    /\ Call(c)
    /\ GoTo(c, "join")
    /\ subscribed' = TRUE
    /\ lastPollOld' = FALSE
    /\ closed' = FALSE
    /\ manual' = {}
    /\ Overlap
    /\ UNCHANGED <<assignment, groupSession, heartbeatCancel, autoCommitCancel,
                   joinerVars, loopVars, held, generation,
                   late, assignUsed>>

(* Assign stops both loops and then replaces everything under mu.          *)
Assign(c) ==
    /\ Call(c)
    /\ GoTo(c, "assignHB")
    /\ Overlap
    /\ UNCHANGED <<clientVars, joinerVars, loopVars, held, generation,
                   late, closed, manual, assignUsed>>

(* Variant: subscribedTopics stays.                                        *)
AssignSetOnly(c) ==
    /\ pc[c] = "assignSet"
    /\ \E partitions \in Offers :
         /\ assignment' = partitions
         /\ manual' = partitions
    /\ groupSession' = 0
    /\ assignUsed' = TRUE
    /\ Return(c)
    /\ UNCHANGED <<subscribed, heartbeatCancel, autoCommitCancel, lastPollOld, joinerVars,
                   loopVars, held, generation, calls, late, closed, overlapped>>

AssignSet(c) ==
    /\ pc[c] = "assignSet"
    /\ \E partitions \in Offers :
         /\ assignment' = partitions
         /\ manual' = partitions
    /\ groupSession' = 0
    /\ subscribed' = FALSE
    /\ assignUsed' = TRUE
    /\ Return(c)
    /\ UNCHANGED <<heartbeatCancel, autoCommitCancel, lastPollOld, joinerVars, loopVars,
                   held, generation, calls, late, closed, overlapped>>

Close(c) ==
    /\ Call(c)
    /\ GoTo(c, "closeHB")
    /\ Overlap
    /\ UNCHANGED <<clientVars, joinerVars, loopVars, held, generation,
                   late, closed, manual, assignUsed>>

(* The stop of the heartbeat loop in Assign, Close and startHeartbeatLoop. *)
StopHB(j) ==
    /\ pc[j] \in {"assignHB", "closeHB", "stopHB"}
    /\ StopHeartbeatLoop
    /\ GoTo(j, CASE pc[j] = "assignHB" -> "assignAC"
                 [] pc[j] = "closeHB"  -> "closeAC"
                 [] OTHER              -> "startHB")
    /\ UNCHANGED <<subscribed, assignment, groupSession, autoCommitCancel, lastPollOld,
                   joinerVars, committer, stopCommit, held, generation, calls, historyVars>>

StopAC(j) ==
    /\ pc[j] \in {"assignAC", "closeAC", "stopAC"}
    /\ StopAutoCommitLoop
    /\ IF pc[j] = "closeAC" THEN Return(j)
       ELSE IF pc[j] = "assignAC" THEN GoTo(j, "assignSet")
       ELSE IF EnableAutoCommit THEN GoTo(j, "startAC") ELSE Return(j)
    /\ closed' = (closed \/ pc[j] = "closeAC")
    /\ UNCHANGED <<subscribed, assignment, groupSession, heartbeatCancel, lastPollOld,
                   joinerVars, committer, stopHeartbeat, held, generation, calls,
                   late, manual, assignUsed, overlapped>>

-----------------------------------------------------------------------------
(* Poll within the interval fetches the assigned partitions, if any.       *)
Poll(c) ==
    /\ Call(c)
    /\ ~lastPollOld
    /\ GoTo(c, IF assignment = {} THEN "idle" ELSE "poll")
    /\ late' = FALSE
    /\ UNCHANGED <<clientVars, joinerVars, loopVars, held, generation,
                   closed, manual, assignUsed, overlapped>>

(* Poll after the interval fetches nothing, rejoins and gives an error. It *)
(* leaves lastPoll as it is, and so does rejoin.                           *)
PollRefused(c) ==
    /\ Call(c)
    /\ lastPollOld
    /\ GoTo(c, "rejoin")
    /\ late' = FALSE
    /\ UNCHANGED <<clientVars, joinerVars, loopVars, held, generation,
                   closed, manual, assignUsed, overlapped>>

(* The fetches of a Poll end, or one fails with an error that asks for a   *)
(* rejoin.                                                                 *)
PollEnds(c) ==
    /\ pc[c] = "poll"
    /\ \/ Return(c)
       \/ GoTo(c, "rejoin")
    /\ UNCHANGED <<clientVars, joinerVars, loopVars, held, generation, calls, historyVars>>

(* More than MaxPollInterval passes without a Poll.                        *)
Elapse ==
    /\ ~late
    /\ late' = TRUE
    /\ lastPollOld' = TRUE
    /\ UNCHANGED <<subscribed, assignment, groupSession, heartbeatCancel, autoCommitCancel,
                   pc, joinerVars, loopVars, held, generation, calls,
                   closed, manual, assignUsed, overlapped>>

(* rejoin joins again for the subscribed topics, if there are any. A loop  *)
(* that has been told to stop should not do so any more.                   *)
Rejoin(j) ==
    /\ pc[j] = "rejoin"
    /\ IF subscribed
       THEN /\ GoTo(j, "join")
            /\ overlapped' = \/ overlapped
                             \/ Joining \cup Leaving # {}
                             \/ j \in stopHeartbeat
            /\ closed' = (closed /\ j \notin Callers)
       ELSE /\ Return(j)
            /\ UNCHANGED <<overlapped, closed>>
    /\ UNCHANGED <<clientVars, joinerVars, loopVars, held, generation, calls,
                   late, manual, assignUsed>>

-----------------------------------------------------------------------------
(* joinSubscription: find the coordinator and join. Between its requests a *)
(* join changes nothing that another goroutine can see, so those that only *)
(* lead to the next one are not steps of their own.                        *)
JoinGroup(j) ==
    /\ pc[j] = "join"
    /\ generation < MaxJoins
    /\ generation' = generation + 1
    /\ join' = [join EXCEPT ![j] = generation + 1]
    /\ GoTo(j, "metadata")
    /\ UNCHANGED <<clientVars, wanted, revoked, assigned, loopVars, held, calls, historyVars>>

(* Sync, ask for the partitions with a leader now (an error if there are   *)
(* none), and for the offset where each of them was left.                  *)
AssignmentFromMetadata(j) ==
    /\ pc[j] = "metadata"
    /\ \E partitions \in Offers :
         wanted' = [wanted EXCEPT ![j] = partitions]
    /\ GoTo(j, "diff")
    /\ UNCHANGED <<clientVars, join, revoked, assigned, loopVars, held, generation,
                   calls, historyVars>>

(* Any request of the join fails, or its context ends.                     *)
JoinFails(j) ==
    /\ pc[j] \in Asking
    /\ Return(j)
    /\ join' = [join EXCEPT ![j] = 0]
    /\ UNCHANGED <<clientVars, wanted, revoked, assigned, loopVars, held, generation,
                   calls, historyVars>>

(* Variant: the two differences swapped.                                   *)
DiffSwapped(j) ==
    /\ pc[j] = "diff"
    /\ revoked' = [revoked EXCEPT ![j] = wanted[j] \ assignment]
    /\ assigned' = [assigned EXCEPT ![j] = assignment \ wanted[j]]
    /\ GoTo(j, "revoke")
    /\ UNCHANGED <<clientVars, join, wanted, loopVars, held, generation, calls, historyVars>>

(* assignWithOffsets compares with the assignment in one hold of mu, tells *)
(* the listener without mu, and installs in another hold.                  *)
Diff(j) ==
    /\ pc[j] = "diff"
    /\ revoked' = [revoked EXCEPT ![j] = assignment \ wanted[j]]
    /\ assigned' = [assigned EXCEPT ![j] = wanted[j] \ assignment]
    /\ GoTo(j, "revoke")
    /\ UNCHANGED <<clientVars, join, wanted, loopVars, held, generation, calls, historyVars>>

NotifyRevoked(j) ==
    /\ pc[j] = "revoke"
    /\ held' = held \ revoked[j]
    /\ GoTo(j, "install")
    /\ UNCHANGED <<clientVars, joinerVars, loopVars, generation, calls, historyVars>>

Install(j) ==
    /\ pc[j] = "install"
    /\ assignment' = wanted[j]
    /\ GoTo(j, "notify")
    /\ UNCHANGED <<subscribed, groupSession, heartbeatCancel, autoCommitCancel, lastPollOld,
                   joinerVars, loopVars, held, generation, calls, historyVars>>

NotifyAssigned(j) ==
    /\ pc[j] = "notify"
    /\ held' = held \cup assigned[j]
    /\ wanted' = [wanted EXCEPT ![j] = {}]
    /\ revoked' = [revoked EXCEPT ![j] = {}]
    /\ assigned' = [assigned EXCEPT ![j] = {}]
    /\ GoTo(j, "session")
    /\ UNCHANGED <<clientVars, join, loopVars, generation, calls, historyVars>>

(* Variant: a session that is there is kept.                               *)
InstallSessionOnce(j) ==
    /\ pc[j] = "session"
    /\ groupSession' = IF groupSession = 0 THEN join[j] ELSE groupSession
    /\ GoTo(j, "stopHB")
    /\ UNCHANGED <<subscribed, assignment, heartbeatCancel, autoCommitCancel, lastPollOld,
                   joinerVars, loopVars, held, generation, calls, historyVars>>

InstallSession(j) ==
    /\ pc[j] = "session"
    /\ groupSession' = join[j]
    /\ GoTo(j, "stopHB")
    /\ UNCHANGED <<subscribed, assignment, heartbeatCancel, autoCommitCancel, lastPollOld,
                   joinerVars, loopVars, held, generation, calls, historyVars>>

(* startHeartbeatLoop and startAutoCommitLoop stop the loop that runs in   *)
(* one hold of mu and put the new one in its place in another.             *)
StartHB(j) ==
    /\ pc[j] = "startHB"
    /\ heartbeatCancel' = join[j]
    /\ pc' = [pc EXCEPT ![j] = "stopAC", ![join[j]] = "waiting"]
    /\ UNCHANGED <<subscribed, assignment, groupSession, autoCommitCancel, lastPollOld,
                   joinerVars, loopVars, held, generation, calls, historyVars>>

StartAC(j) ==
    /\ pc[j] = "startAC"
    /\ autoCommitCancel' = join[j]
    /\ committer' = [committer EXCEPT ![join[j]] = "running"]
    /\ Return(j)
    /\ UNCHANGED <<subscribed, assignment, groupSession, heartbeatCancel, lastPollOld,
                   joinerVars, stopHeartbeat, stopCommit, held, generation, calls, historyVars>>

-----------------------------------------------------------------------------
(* The heartbeat loop. Its select may take a tick although it is stopped.  *)
Tick(n) ==
    /\ pc[n] = "waiting"
    /\ GoTo(n, "asking")
    /\ UNCHANGED <<clientVars, joinerVars, loopVars, held, generation, calls, historyVars>>

(* shouldRejoin: an error of the transport counts only while the context   *)
(* of the loop lives, a retriable code whatever the context.               *)
ShouldRejoin(n, kind) == \/ kind = "retriable"
                         \/ kind = "transport" /\ n \notin stopHeartbeat

HeartbeatReturns(n) ==
    /\ pc[n] = "asking"
    /\ \E kind \in {"none", "transport", "retriable", "final"} :
         IF ShouldRejoin(n, kind) THEN GoTo(n, "rejoin") ELSE Return(n)
    /\ UNCHANGED <<clientVars, joinerVars, loopVars, held, generation, calls, historyVars>>

HeartbeatLoopEnds(n) ==
    /\ pc[n] = "waiting"
    /\ n \in stopHeartbeat
    /\ GoTo(n, "ended")
    /\ UNCHANGED <<clientVars, joinerVars, loopVars, held, generation, calls, historyVars>>

(* The auto-commit loop. Its commits are those of ConsumerPositions, they  *)
(* change nothing here and end by a context of their own.                  *)
CommitLoopEnds(n) ==
    /\ committer[n] = "running"
    /\ n \in stopCommit
    /\ committer' = [committer EXCEPT ![n] = "ended"]
    /\ UNCHANGED <<clientVars, pc, joinerVars, stopHeartbeat, stopCommit, held, generation,
                   calls, historyVars>>

-----------------------------------------------------------------------------
Begin(c)     == Subscribe(c) \/ Assign(c) \/ Close(c) \/ Poll(c) \/ PollRefused(c)
Continue(c)  == AssignSet(c) \/ PollEnds(c)
JoinStep(j)  == \/ Rejoin(j)
                \/ JoinGroup(j) \/ AssignmentFromMetadata(j) \/ JoinFails(j)
                \/ Diff(j) \/ NotifyRevoked(j) \/ Install(j) \/ NotifyAssigned(j)
                \/ InstallSession(j)
                \/ StopHB(j) \/ StartHB(j) \/ StopAC(j) \/ StartAC(j)
Loop(n)      == \/ Tick(n) \/ HeartbeatReturns(n) \/ HeartbeatLoopEnds(n)
                \/ CommitLoopEnds(n)

Next == \/ \E c \in Callers : Begin(c) \/ Continue(c)
        \/ \E j \in Joiners : JoinStep(j)
        \/ \E n \in Joins : Loop(n)
        \/ Elapse

Spec == Init /\ [][Next]_vars

(* Go runs every goroutine, requests end by RequestTimeout or the context, *)
(* and a select that finds a loop stopped again and again takes that at    *)
(* some time. Nobody has to call anything, and no tick has to come.        *)
Fairness ==
    /\ \A c \in Callers : WF_vars(Continue(c) \/ JoinStep(c))
    /\ \A n \in Joins : /\ WF_vars(HeartbeatReturns(n) \/ JoinStep(n))
                        /\ SF_vars(HeartbeatLoopEnds(n))
                        /\ WF_vars(CommitLoopEnds(n))

FairSpec == Spec /\ Fairness

-----------------------------------------------------------------------------
TypeOK ==
    /\ subscribed \in BOOLEAN
    /\ assignment \subseteq Partitions
    /\ groupSession \in 0..MaxJoins
    /\ heartbeatCancel \in 0..MaxJoins
    /\ autoCommitCancel \in 0..MaxJoins
    /\ lastPollOld \in BOOLEAN
    /\ \A c \in Callers : pc[c] \in {"idle", "poll", "rejoin"} \cup JoinBody \cup Stopping
    /\ \A n \in Joins : pc[n] \in {"none", "waiting", "asking", "rejoin", "ended"} \cup JoinBody
    /\ join \in [Joiners -> 0..MaxJoins]
    /\ wanted \in [Joiners -> SUBSET Partitions]
    /\ revoked \in [Joiners -> SUBSET Partitions]
    /\ assigned \in [Joiners -> SUBSET Partitions]
    /\ committer \in [Joins -> {"none", "running", "ended"}]
    /\ stopHeartbeat \subseteq Joins
    /\ stopCommit \subseteq Joins
    /\ held \subseteq Partitions
    /\ generation \in 0..MaxJoins
    /\ calls \in 0..MaxCalls
    /\ late \in BOOLEAN /\ closed \in BOOLEAN
    /\ manual \subseteq Partitions
    /\ assignUsed \in BOOLEAN /\ overlapped \in BOOLEAN

(* Loops that run and have not been told to stop.                          *)
Heartbeating == {n \in Joins : pc[n] \notin {"none", "ended"}} \ stopHeartbeat
Committing   == {n \in Joins : committer[n] \notin {"none", "ended"}} \ stopCommit

(* "Close stops background group work" (consumer.go:400), as far as the    *)
(* code keeps it: no loop goes on after it, whatever heartbeats and        *)
(* commits were under way, unless Close overlapped a join or the last      *)
(* heartbeat of the stopped loop asked for one.                            *)
CloseStopsWork == closed /\ ~overlapped => Heartbeating \cup Committing = {}

(* A loop that goes on is the one Close or Assign would stop, and it       *)
(* serves the session in place: no older generation goes on heartbeating   *)
(* beside the new one, unless joins overlapped.                            *)
LoopsServeSession ==
    ~overlapped => /\ Heartbeating \subseteq {heartbeatCancel}
                   /\ Committing \subseteq {autoCommitCancel}
                   /\ Heartbeating \cup Committing # {} /\ Joining \cup Leaving = {} =>
                        Heartbeating \cup Committing = {groupSession}

(* Assign does not join a group and stays: the session, the topics and the *)
(* loops of an earlier Subscribe do not come back by a heartbeat or a Poll *)
(* that was under way.                                                     *)
ManualStays ==
    manual # {} /\ ~overlapped =>
        assignment = manual /\ groupSession = 0 /\ (Leaving = {} => Heartbeating = {})

(* What the listener has been told adds up to the assignment whenever no   *)
(* join is about to tell it more. Assign does not speak to the listener.   *)
ListenerFollows ==
    /\ ~overlapped /\ ~assignUsed
    /\ \A j \in Joiners : pc[j] \notin Notifying
    => held = assignment

(* When the application has stopped calling, its calls return at last, and *)
(* every loop that was told to stop ends, also one that is joining again   *)
(* or keeps finding ticks.                                                 *)
StoppedLoopsEnd ==
    <>[](/\ \A c \in Callers : pc[c] = "idle"
         /\ \A n \in stopHeartbeat : pc[n] = "ended"
         /\ \A n \in stopCommit : committer[n] = "ended")

=============================================================================
