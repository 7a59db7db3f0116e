------------------------ MODULE ConsumerGroupProofs ------------------------
(* Proofs about ConsumerGroup, for any callers, partitions, offers and     *)
(* bounds.                                                                 *)
EXTENDS ConsumerGroup, TLAPS

CallerLabels == {"idle", "poll", "rejoin"} \cup JoinBody \cup Stopping
LoopLabels   == {"none", "waiting", "asking", "rejoin", "ended"} \cup JoinBody

TypeInv == TypeOK /\ pc \in [Joiners -> CallerLabels \cup LoopLabels]

(* A label that fits the goroutine keeps the type of pc.                   *)
LEMMA GoToType ==
    ASSUME TypeInv, NEW j \in Joiners, NEW l, GoTo(j, l),
           j \in Callers => l \in CallerLabels,
           j \in Joins => l \in LoopLabels
    PROVE  /\ pc' \in [Joiners -> CallerLabels \cup LoopLabels]
           /\ \A c \in Callers : pc'[c] \in CallerLabels
           /\ \A n \in Joins : pc'[n] \in LoopLabels
  <1>1. /\ \A c \in Callers : pc[c] \in CallerLabels
        /\ \A n \in Joins : pc[n] \in LoopLabels
        /\ pc \in [Joiners -> CallerLabels \cup LoopLabels]
      BY DEF TypeInv, TypeOK, CallerLabels, LoopLabels
  <1>2. pc' = [pc EXCEPT ![j] = l]
      BY DEF GoTo
  <1> QED
      BY <1>1, <1>2 DEF Joiners

(* Return is one of those.                                                 *)
LEMMA ReturnType ==
    ASSUME TypeInv, NEW j \in Joiners, Return(j)
    PROVE  /\ pc' \in [Joiners -> CallerLabels \cup LoopLabels]
           /\ \A c \in Callers : pc'[c] \in CallerLabels
           /\ \A n \in Joins : pc'[n] \in LoopLabels
  <1>1. j \in Joins => j \notin Callers
      BY NamesAssumption, BoundsAssumption DEF Joins
  <1>2. CASE j \in Callers
    <2>1. GoTo(j, "idle")
        BY <1>2 DEF Return
    <2> QED  BY <1>1, <1>2, <2>1, GoToType DEF CallerLabels
  <1>3. CASE j \notin Callers
    <2>1. GoTo(j, "waiting")
        BY <1>3 DEF Return
    <2> QED  BY <1>3, <2>1, GoToType DEF LoopLabels
  <1> QED
      BY <1>2, <1>3

(* The initial state is well typed.                                        *)
LEMMA TypeInit == Init => TypeInv
  <1> SUFFICES ASSUME Init PROVE TypeInv
      OBVIOUS
  <1>1. \A n \in Joins : n \notin Callers
      BY NamesAssumption, BoundsAssumption DEF Joins
  <1>2. /\ pc \in [Joiners -> CallerLabels \cup LoopLabels]
        /\ \A c \in Callers : pc[c] \in CallerLabels
        /\ \A n \in Joins : pc[n] \in LoopLabels
      BY <1>1 DEF Init, Joiners, CallerLabels, LoopLabels
  <1>3. 0 \in 0..MaxJoins /\ 0 \in 0..MaxCalls
      BY BoundsAssumption
  <1>4. /\ join \in [Joiners -> 0..MaxJoins]
        /\ wanted \in [Joiners -> SUBSET Partitions]
        /\ revoked \in [Joiners -> SUBSET Partitions]
        /\ assigned \in [Joiners -> SUBSET Partitions]
        /\ committer \in [Joins -> {"none", "running", "ended"}]
      BY <1>3 DEF Init
  <1> QED
      BY <1>2, <1>3, <1>4 DEF TypeInv, TypeOK, Init, CallerLabels, LoopLabels

(* A step of the application keeps the types.                              *)
LEMMA TypeBegin ==
    ASSUME TypeInv, NEW c \in Callers, Begin(c) \/ Continue(c)
    PROVE  TypeInv'
  <1> USE BoundsAssumption DEF Call, Overlap, clientVars, joinerVars, loopVars, historyVars
  <1>1. c \in Joiners /\ c \notin Joins
      BY NamesAssumption DEF Joiners, Joins
  <1>2. ASSUME NEW l \in CallerLabels, GoTo(c, l)
        PROVE  /\ pc' \in [Joiners -> CallerLabels \cup LoopLabels]
               /\ \A d \in Callers : pc'[d] \in CallerLabels
               /\ \A n \in Joins : pc'[n] \in LoopLabels
      BY <1>1, <1>2, GoToType
  <1>3. \A l \in {"join", "assignHB", "closeHB", "poll", "idle", "rejoin"} : l \in CallerLabels
      BY DEF CallerLabels, JoinBody, Asking, Stopping
  <1>4. calls \in 0..MaxCalls /\ calls < MaxCalls => calls + 1 \in 0..MaxCalls
      OBVIOUS
  <1>5. CASE Subscribe(c)
    <2>1. GoTo(c, "join")
        BY <1>5 DEF Subscribe
    <2>2. calls' \in 0..MaxCalls
        BY <1>4, <1>5 DEF Subscribe, TypeInv, TypeOK
    <2>3. overlapped' \in BOOLEAN
        BY <1>5 DEF Subscribe, TypeInv, TypeOK
    <2> QED  BY <1>2, <1>3, <1>5, <2>1, <2>2, <2>3
             DEF Subscribe, TypeInv, TypeOK, CallerLabels, LoopLabels
  <1>6. CASE Assign(c)
    <2>1. GoTo(c, "assignHB")
        BY <1>6 DEF Assign
    <2>2. calls' \in 0..MaxCalls
        BY <1>4, <1>6 DEF Assign, TypeInv, TypeOK
    <2>3. overlapped' \in BOOLEAN
        BY <1>6 DEF Assign, TypeInv, TypeOK
    <2> QED  BY <1>2, <1>3, <1>6, <2>1, <2>2, <2>3
             DEF Assign, TypeInv, TypeOK, CallerLabels, LoopLabels
  <1>7. CASE Close(c)
    <2>1. GoTo(c, "closeHB")
        BY <1>7 DEF Close
    <2>2. calls' \in 0..MaxCalls
        BY <1>4, <1>7 DEF Close, TypeInv, TypeOK
    <2>3. overlapped' \in BOOLEAN
        BY <1>7 DEF Close, TypeInv, TypeOK
    <2> QED  BY <1>2, <1>3, <1>7, <2>1, <2>2, <2>3
             DEF Close, TypeInv, TypeOK, CallerLabels, LoopLabels
  <1>8. CASE Poll(c)
    <2>1. GoTo(c, "idle") \/ GoTo(c, "poll")
        BY <1>8 DEF Poll
    <2>2. calls' \in 0..MaxCalls
        BY <1>4, <1>8 DEF Poll, TypeInv, TypeOK
    <2> QED  BY <1>2, <1>3, <1>8, <2>1, <2>2
             DEF Poll, TypeInv, TypeOK, CallerLabels, LoopLabels
  <1>9. CASE PollRefused(c)
    <2>1. GoTo(c, "rejoin")
        BY <1>9 DEF PollRefused
    <2>2. calls' \in 0..MaxCalls
        BY <1>4, <1>9 DEF PollRefused, TypeInv, TypeOK
    <2> QED  BY <1>2, <1>3, <1>9, <2>1, <2>2
             DEF PollRefused, TypeInv, TypeOK, CallerLabels, LoopLabels
  <1>10. CASE AssignSet(c)
    <2>1. PICK partitions \in Offers : assignment' = partitions /\ manual' = partitions
        BY <1>10 DEF AssignSet
    <2>2. assignment' \subseteq Partitions /\ manual' \subseteq Partitions
        BY <2>1, OffersAssumption
    <2>3. /\ pc' \in [Joiners -> CallerLabels \cup LoopLabels]
          /\ \A d \in Callers : pc'[d] \in CallerLabels
          /\ \A n \in Joins : pc'[n] \in LoopLabels
        BY <1>1, <1>10, ReturnType DEF AssignSet
    <2>4. groupSession' = 0 /\ subscribed' = FALSE /\ assignUsed' = TRUE
        BY <1>10 DEF AssignSet
    <2>5. UNCHANGED <<heartbeatCancel, autoCommitCancel, lastPollOld, joinerVars, loopVars,
                      held, generation, calls, late, closed, overlapped>>
        BY <1>10 DEF AssignSet
    <2>6. groupSession' \in 0..MaxJoins
        BY <2>4
    <2>7. subscribed' \in BOOLEAN
        BY <2>4
    <2>8. assignUsed' \in BOOLEAN
        BY <2>4
    <2> QED  BY <2>2, <2>3, <2>5, <2>6, <2>7, <2>8
             DEF TypeInv, TypeOK, CallerLabels, LoopLabels
  <1>11. CASE PollEnds(c)
    <2>1. /\ pc' \in [Joiners -> CallerLabels \cup LoopLabels]
          /\ \A d \in Callers : pc'[d] \in CallerLabels
          /\ \A n \in Joins : pc'[n] \in LoopLabels
      <3>1. CASE Return(c)
          BY <1>1, <3>1, ReturnType
      <3>2. CASE GoTo(c, "rejoin")
          BY <1>2, <1>3, <3>2
      <3> QED  BY <1>11, <3>1, <3>2 DEF PollEnds
    <2> QED  BY <1>11, <2>1 DEF PollEnds, TypeInv, TypeOK, CallerLabels, LoopLabels
  <1> QED
      BY <1>5, <1>6, <1>7, <1>8, <1>9, <1>10, <1>11 DEF Begin, Continue

(* The stops keep the types of what they touch.                            *)
LEMMA StopType ==
    ASSUME TypeInv
    PROVE  /\ StopHeartbeatLoop => heartbeatCancel' \in 0..MaxJoins /\ stopHeartbeat' \subseteq Joins
           /\ StopAutoCommitLoop => autoCommitCancel' \in 0..MaxJoins /\ stopCommit' \subseteq Joins
  <1>1. /\ heartbeatCancel \in 0..MaxJoins /\ stopHeartbeat \subseteq Joins
        /\ autoCommitCancel \in 0..MaxJoins /\ stopCommit \subseteq Joins
      BY DEF TypeInv, TypeOK
  <1>2. 0 \in 0..MaxJoins /\ \A n \in 0..MaxJoins : n # 0 => n \in Joins
      BY BoundsAssumption DEF Joins
  <1> QED
      BY <1>1, <1>2 DEF StopHeartbeatLoop, StopAutoCommitLoop

(* A step of a join keeps the types.                                       *)
LEMMA TypeJoin ==
    ASSUME TypeInv, NEW j \in Joiners, JoinStep(j)
    PROVE  TypeInv'
  <1> USE BoundsAssumption DEF clientVars, joinerVars, loopVars, historyVars
  <1> DEFINE PcTyped == /\ pc' \in [Joiners -> CallerLabels \cup LoopLabels]
                        /\ \A c \in Callers : pc'[c] \in CallerLabels
                        /\ \A n \in Joins : pc'[n] \in LoopLabels
  <1>1. ASSUME NEW l \in JoinBody, GoTo(j, l)
        PROVE  PcTyped
      BY <1>1, GoToType DEF CallerLabels, LoopLabels
  <1>2. ASSUME Return(j)
        PROVE  PcTyped
      BY <1>2, ReturnType
  <1>3. /\ {"join", "metadata", "diff", "revoke", "install", "notify", "session"} \subseteq JoinBody
        /\ {"stopHB", "startHB", "stopAC", "startAC"} \subseteq JoinBody
      BY DEF JoinBody, Asking, Notifying
  <1>4. j \in Joins => pc[j] \in LoopLabels
      BY DEF TypeInv, TypeOK, LoopLabels
  <1> HIDE DEF PcTyped
  <1>5. CASE Rejoin(j)
    <2>1. PcTyped
        BY <1>1, <1>2, <1>3, <1>5 DEF Rejoin
    <2>2. overlapped' \in BOOLEAN /\ closed' \in BOOLEAN
      <3>1. CASE subscribed
          BY <1>5, <3>1 DEF Rejoin, TypeInv, TypeOK
      <3>2. CASE ~subscribed
          BY <1>5, <3>2 DEF Rejoin, TypeInv, TypeOK
      <3> QED  BY <3>1, <3>2
    <2> QED  BY <1>5, <2>1, <2>2
             DEF Rejoin, TypeInv, TypeOK, CallerLabels, LoopLabels, PcTyped
  <1>6. CASE JoinGroup(j)
    <2>1. PcTyped
        BY <1>1, <1>3, <1>6 DEF JoinGroup
    <2>2. generation' \in 0..MaxJoins /\ join' \in [Joiners -> 0..MaxJoins]
        BY <1>6 DEF JoinGroup, TypeInv, TypeOK
    <2> QED  BY <1>6, <2>1, <2>2
             DEF JoinGroup, TypeInv, TypeOK, CallerLabels, LoopLabels, PcTyped
  <1>7. CASE AssignmentFromMetadata(j)
    <2>1. PcTyped
        BY <1>1, <1>3, <1>7 DEF AssignmentFromMetadata
    <2>2. PICK partitions \in Offers : wanted' = [wanted EXCEPT ![j] = partitions]
        BY <1>7 DEF AssignmentFromMetadata
    <2>3. wanted' \in [Joiners -> SUBSET Partitions]
        BY <2>2, OffersAssumption DEF TypeInv, TypeOK
    <2> QED  BY <1>7, <2>1, <2>3
             DEF AssignmentFromMetadata, TypeInv, TypeOK, CallerLabels, LoopLabels, PcTyped
  <1>8. CASE JoinFails(j)
    <2>1. PcTyped
        BY <1>2, <1>8 DEF JoinFails
    <2>2. join' \in [Joiners -> 0..MaxJoins]
        BY <1>8 DEF JoinFails, TypeInv, TypeOK
    <2> QED  BY <1>8, <2>1, <2>2
             DEF JoinFails, TypeInv, TypeOK, CallerLabels, LoopLabels, PcTyped
  <1>9. CASE Diff(j)
    <2>1. PcTyped
        BY <1>1, <1>3, <1>9 DEF Diff
    <2>2. revoked' \in [Joiners -> SUBSET Partitions] /\ assigned' \in [Joiners -> SUBSET Partitions]
        BY <1>9 DEF Diff, TypeInv, TypeOK
    <2> QED  BY <1>9, <2>1, <2>2
             DEF Diff, TypeInv, TypeOK, CallerLabels, LoopLabels, PcTyped
  <1>10. CASE NotifyRevoked(j)
    <2>1. PcTyped
        BY <1>1, <1>3, <1>10 DEF NotifyRevoked
    <2>2. held' \subseteq Partitions
        BY <1>10 DEF NotifyRevoked, TypeInv, TypeOK
    <2> QED  BY <1>10, <2>1, <2>2
             DEF NotifyRevoked, TypeInv, TypeOK, CallerLabels, LoopLabels, PcTyped
  <1>11. CASE Install(j)
    <2>1. PcTyped
        BY <1>1, <1>3, <1>11 DEF Install
    <2>2. assignment' \subseteq Partitions
        BY <1>11 DEF Install, TypeInv, TypeOK
    <2> QED  BY <1>11, <2>1, <2>2
             DEF Install, TypeInv, TypeOK, CallerLabels, LoopLabels, PcTyped
  <1>12. CASE NotifyAssigned(j)
    <2>1. PcTyped
        BY <1>1, <1>3, <1>12 DEF NotifyAssigned
    <2>2. held' \subseteq Partitions
        BY <1>12 DEF NotifyAssigned, TypeInv, TypeOK
    <2>3. /\ wanted' \in [Joiners -> SUBSET Partitions]
          /\ revoked' \in [Joiners -> SUBSET Partitions]
          /\ assigned' \in [Joiners -> SUBSET Partitions]
        BY <1>12 DEF NotifyAssigned, TypeInv, TypeOK
    <2> QED  BY <1>12, <2>1, <2>2, <2>3
             DEF NotifyAssigned, TypeInv, TypeOK, CallerLabels, LoopLabels, PcTyped
  <1>13. CASE InstallSession(j)
    <2>1. PcTyped
        BY <1>1, <1>3, <1>13 DEF InstallSession
    <2>2. groupSession' \in 0..MaxJoins
        BY <1>13 DEF InstallSession, TypeInv, TypeOK
    <2> QED  BY <1>13, <2>1, <2>2
             DEF InstallSession, TypeInv, TypeOK, CallerLabels, LoopLabels, PcTyped
  <1>14. CASE StopHB(j)
    <2>1. PcTyped
      <3>1. CASE pc[j] = "stopHB"
          BY <1>1, <1>3, <1>14, <3>1 DEF StopHB
      <3>2. CASE pc[j] # "stopHB"
        <4>1. j \notin Joins
            BY <1>4, <1>14, <3>2 DEF StopHB, LoopLabels, JoinBody, Asking, Notifying
        <4>2. GoTo(j, "assignAC") \/ GoTo(j, "closeAC")
            BY <1>14, <3>2 DEF StopHB
        <4> QED  BY <4>1, <4>2, GoToType DEF CallerLabels, Stopping, PcTyped
      <3> QED  BY <3>1, <3>2
    <2>2. heartbeatCancel' \in 0..MaxJoins /\ stopHeartbeat' \subseteq Joins
        BY <1>14, StopType DEF StopHB
    <2> QED  BY <1>14, <2>1, <2>2
             DEF StopHB, TypeInv, TypeOK, CallerLabels, LoopLabels, PcTyped
  <1>15. CASE StopAC(j)
    <2>1. PcTyped
      <3>1. CASE pc[j] = "assignAC"
        <4>1. j \notin Joins
            BY <1>4, <3>1 DEF LoopLabels, JoinBody, Asking, Notifying
        <4>2. GoTo(j, "assignSet")
            BY <1>15, <3>1 DEF StopAC
        <4> QED  BY <4>1, <4>2, GoToType DEF CallerLabels, Stopping, PcTyped
      <3>2. CASE pc[j] # "assignAC"
        <4>1. Return(j) \/ GoTo(j, "startAC")
            BY <1>15, <3>2 DEF StopAC
        <4> QED  BY <1>1, <1>2, <1>3, <4>1
      <3> QED  BY <3>1, <3>2
    <2>2. autoCommitCancel' \in 0..MaxJoins /\ stopCommit' \subseteq Joins
        BY <1>15, StopType DEF StopAC
    <2>3. closed' \in BOOLEAN
        BY <1>15 DEF StopAC, TypeInv, TypeOK
    <2> QED  BY <1>15, <2>1, <2>2, <2>3
             DEF StopAC, TypeInv, TypeOK, CallerLabels, LoopLabels, PcTyped
  <1>16. CASE StartHB(j)
    <2>1. PcTyped
      <3>1. pc' = [pc EXCEPT ![j] = "stopAC", ![join[j]] = "waiting"]
          BY <1>16 DEF StartHB
      <3>2. join[j] \in 0..MaxJoins /\ join[j] \notin Callers
          BY NamesAssumption DEF TypeInv, TypeOK
      <3>3. "stopAC" \in CallerLabels /\ "stopAC" \in LoopLabels /\ "waiting" \in LoopLabels
          BY <1>3 DEF CallerLabels, LoopLabels
      <3>4. /\ \A c \in Callers : pc[c] \in CallerLabels
            /\ \A n \in Joins : pc[n] \in LoopLabels
            /\ pc \in [Joiners -> CallerLabels \cup LoopLabels]
          BY DEF TypeInv, TypeOK, CallerLabels, LoopLabels
      <3> QED  BY <3>1, <3>2, <3>3, <3>4 DEF PcTyped, Joiners
    <2>2. heartbeatCancel' \in 0..MaxJoins
        BY <1>16 DEF StartHB, TypeInv, TypeOK
    <2> QED  BY <1>16, <2>1, <2>2
             DEF StartHB, TypeInv, TypeOK, CallerLabels, LoopLabels, PcTyped
  <1>17. CASE StartAC(j)
    <2>1. PcTyped
        BY <1>2, <1>17 DEF StartAC
    <2>2. autoCommitCancel' \in 0..MaxJoins
        BY <1>17 DEF StartAC, TypeInv, TypeOK
    <2>3. committer' \in [Joins -> {"none", "running", "ended"}]
        BY <1>17 DEF StartAC, TypeInv, TypeOK
    <2> QED  BY <1>17, <2>1, <2>2, <2>3
             DEF StartAC, TypeInv, TypeOK, CallerLabels, LoopLabels, PcTyped
  <1> QED
      BY <1>5, <1>6, <1>7, <1>8, <1>9, <1>10, <1>11, <1>12, <1>13, <1>14, <1>15,
         <1>16, <1>17 DEF JoinStep

(* A step of a loop, or of time, keeps the types.                          *)
LEMMA TypeLoop ==
    ASSUME TypeInv, \/ \E n \in Joins : Loop(n)
                    \/ Elapse
                    \/ UNCHANGED vars
    PROVE  TypeInv'
  <1> USE DEF clientVars, joinerVars, loopVars, historyVars
  <1>1. ASSUME NEW n \in Joins, NEW l \in {"asking", "waiting", "rejoin", "ended"}, GoTo(n, l)
        PROVE  /\ pc' \in [Joiners -> CallerLabels \cup LoopLabels]
               /\ \A c \in Callers : pc'[c] \in CallerLabels
               /\ \A m \in Joins : pc'[m] \in LoopLabels
    <2>1. n \in Joiners /\ n \notin Callers
        BY NamesAssumption, BoundsAssumption DEF Joiners, Joins
    <2> QED  BY <1>1, <2>1, GoToType DEF LoopLabels
  <1>2. ASSUME NEW n \in Joins, Tick(n) \/ HeartbeatReturns(n) \/ HeartbeatLoopEnds(n)
        PROVE  TypeInv'
    <2>1. n \notin Callers
        BY NamesAssumption, BoundsAssumption DEF Joins
    <2>2. \E l \in {"asking", "waiting", "rejoin", "ended"} : GoTo(n, l)
      <3>1. CASE Tick(n)
          BY <3>1 DEF Tick
      <3>2. CASE HeartbeatReturns(n)
          BY <2>1, <3>2 DEF HeartbeatReturns, Return
      <3>3. CASE HeartbeatLoopEnds(n)
          BY <3>3 DEF HeartbeatLoopEnds
      <3> QED  BY <1>2, <3>1, <3>2, <3>3
    <2>3. UNCHANGED <<clientVars, joinerVars, loopVars, held, generation, calls, historyVars>>
        BY <1>2 DEF Tick, HeartbeatReturns, HeartbeatLoopEnds
    <2> QED  BY <1>1, <2>2, <2>3 DEF TypeInv, TypeOK, CallerLabels, LoopLabels
  <1>3. ASSUME NEW n \in Joins, CommitLoopEnds(n)
        PROVE  TypeInv'
    <2>1. committer' \in [Joins -> {"none", "running", "ended"}]
        BY <1>3 DEF CommitLoopEnds, TypeInv, TypeOK
    <2> QED  BY <1>3, <2>1 DEF CommitLoopEnds, TypeInv, TypeOK, CallerLabels, LoopLabels
  <1>4. CASE Elapse
      BY <1>4 DEF Elapse, TypeInv, TypeOK, CallerLabels, LoopLabels
  <1>5. CASE UNCHANGED vars
      BY <1>5 DEF vars, TypeInv, TypeOK, CallerLabels, LoopLabels
  <1> QED
      BY <1>2, <1>3, <1>4, <1>5 DEF Loop

LEMMA TypeStep == TypeInv /\ [Next]_vars => TypeInv'
  BY TypeBegin, TypeJoin, TypeLoop DEF Next

(* Type correctness: loops are named by joins the coordinator has given,   *)
(* only a caller stops and only a loop heartbeats (Subscribe, Assign,      *)
(* Close, Poll and the two loops).                                         *)
THEOREM TypeCorrect == Spec => []TypeOK
  <1>1. TypeInv => TypeOK
      BY DEF TypeInv
  <1> QED
      BY TypeInit, TypeStep, <1>1, PTL DEF Spec

-----------------------------------------------------------------------------
(* The inductive invariant of the safety properties.  All of it speaks of  *)
(* runs in which joins, Assigns and Closes do not overlap: one goroutine   *)
(* at a time is busy, and what it has done so far says what the others see. *)

Busy        == JoinBody \cup Stopping
Serving     == {"stopHB", "startHB", "stopAC", "startAC"}
Unstarted   == {"metadata", "diff", "revoke", "install", "notify", "session",
                "stopHB", "startHB"}

OneBusy == \A j, k \in Joiners : pc[j] \in Busy /\ pc[k] \in Busy => j = k

(* The loop of the join under way does not run yet, nor does any later one. *)
FreshInv ==
    /\ \A j \in Joiners : pc[j] \in Unstarted =>
         join[j] \in 1..generation /\ pc[join[j]] = "none"
    /\ \A n \in Joins : n > generation => pc[n] = "none"

(* heartbeatCancel and autoCommitCancel reach every loop that goes on.     *)
LoopInv == /\ Heartbeating \subseteq {heartbeatCancel}
           /\ Committing \subseteq {autoCommitCancel}

(* What a busy goroutine has stopped, installed and started.               *)
ProgressInv == \A j \in Joiners :
    /\ pc[j] \in {"assignAC", "closeAC", "assignSet", "startHB"} => heartbeatCancel = 0
    /\ pc[j] \in {"assignSet", "startAC"} => autoCommitCancel = 0
    /\ pc[j] \in Serving => groupSession = join[j]
    /\ pc[j] \in {"stopAC", "startAC"} => heartbeatCancel = groupSession

(* Both loops are those of the session, but for a join that replaces them. *)
SessionInv ==
    (\A j \in Joiners : pc[j] \notin Serving) =>
        /\ heartbeatCancel \in {0, groupSession}
        /\ autoCommitCancel \in {0, groupSession}

ClosedInv == closed => /\ Joining = {}
                       /\ Heartbeating = {}
                       /\ Committing = {}

ManualInv == manual # {} => /\ Joining = {}
                            /\ ~subscribed
                            /\ assignment = manual
                            /\ groupSession = 0

(* What the listener knows, seen from the join that tells it.              *)
HeldInv ==
    /\ (\A j \in Joiners : pc[j] \notin Notifying) => held = assignment
    /\ \A j \in Joiners :
         /\ pc[j] = "revoke" => /\ held = assignment
                                /\ revoked[j] = assignment \ wanted[j]
                                /\ assigned[j] = wanted[j] \ assignment
         /\ pc[j] = "install" => held \cup assigned[j] = wanted[j]
         /\ pc[j] = "notify" => /\ held \cup assigned[j] = wanted[j]
                                /\ assignment = wanted[j]

IInv == ~overlapped =>
    /\ OneBusy /\ FreshInv
    /\ LoopInv /\ ProgressInv /\ SessionInv
    /\ ClosedInv /\ ManualInv
    /\ (~assignUsed => HeldInv)

(* The initial state.                                                      *)
LEMMA InvInit == Init => IInv
  <1> SUFFICES ASSUME Init PROVE IInv
      OBVIOUS
  <1>1. \A j \in Joiners : pc[j] \in {"idle", "none"}
      BY DEF Init
  <1>2. \A n \in Joins : pc[n] = "none"
      BY NamesAssumption, BoundsAssumption DEF Init, Joins, Joiners
  <1>3. \A j \in Joiners : pc[j] \notin Busy \cup Serving \cup Notifying \cup Unstarted
      BY <1>1 DEF Busy, JoinBody, Asking, Notifying, Stopping, Serving, Unstarted
  <1>4. Joining = {}
      BY <1>3 DEF Joining, Busy
  <1>5. Heartbeating = {} /\ Committing = {}
      BY <1>2 DEF Heartbeating, Committing, Init
  <1>6. OneBusy /\ FreshInv
      BY <1>2, <1>3 DEF OneBusy, FreshInv
  <1>7. LoopInv /\ SessionInv
      BY <1>5 DEF LoopInv, SessionInv, Init
  <1>8. ProgressInv
      BY <1>1 DEF ProgressInv, Serving
  <1>9. ClosedInv /\ ManualInv
      BY <1>4, <1>5 DEF ClosedInv, ManualInv, Init
  <1>10. HeldInv
      BY <1>1 DEF HeldInv, Init
  <1> QED
      BY <1>6, <1>7, <1>8, <1>9, <1>10 DEF IInv

(* What a step of goroutine j that moves to label l is to the others: they *)
(* stay where they are, and none of them is busy if j is.                  *)
Move(j, l) ==
    /\ pc'[j] = l
    /\ \A k \in Joiners \ {j} : pc'[k] = pc[k]
    /\ pc[j] \notin {"none", "ended"}
    /\ l # "none"
Alone(j) == \A k \in Joiners \ {j} : pc[k] \notin Busy

LEMMA GoToMoves ==
    ASSUME TypeInv, NEW j \in Joiners, NEW l, GoTo(j, l),
           pc[j] \notin {"none", "ended"}, l # "none"
    PROVE  Move(j, l)
  BY DEF TypeInv, GoTo, Move

LEMMA ReturnMoves ==
    ASSUME TypeInv, NEW j \in Joiners, Return(j), pc[j] \notin {"none", "ended"}
    PROVE  \E l \in {"idle", "waiting"} : Move(j, l)
  <1>1. \E l \in {"idle", "waiting"} : GoTo(j, l)
      BY DEF Return
  <1> QED
      BY <1>1, GoToMoves

LEMMA BusyAlone ==
    ASSUME OneBusy, NEW j \in Joiners, pc[j] \in Busy
    PROVE  Alone(j)
  BY DEF OneBusy, Alone

LEMMA OneBusyKept ==
    ASSUME NEW j \in Joiners, NEW l, Move(j, l), Alone(j)
    PROVE  OneBusy'
  BY DEF OneBusy, Move, Alone

LEMMA FreshKept ==
    ASSUME TypeInv, FreshInv, NEW j \in Joiners, NEW l, Move(j, l),
           l \in Unstarted => pc[j] \in Unstarted,
           join' = join, generation' = generation
    PROVE  FreshInv'
  <1>1. \A k \in Joiners : k \in Joins => (pc'[k] = "none" <=> pc[k] = "none")
      BY DEF Move
  <1>2. \A n \in Joins : n > generation => pc'[n] = "none"
      BY <1>1 DEF FreshInv, Joiners
  <1>3. ASSUME NEW k \in Joiners, pc'[k] \in Unstarted
        PROVE  join[k] \in 1..generation /\ pc'[join[k]] = "none"
    <2>1. pc[k] \in Unstarted
        BY <1>3 DEF Move
    <2>2. join[k] \in 1..generation /\ pc[join[k]] = "none"
        BY <2>1 DEF FreshInv
    <2>3. generation \in 0..MaxJoins
        BY DEF TypeInv, TypeOK
    <2>4. join[k] \in Joins
        BY <2>2, <2>3, BoundsAssumption DEF Joins
    <2> QED  BY <1>1, <2>2, <2>4 DEF Joiners
  <1> QED
      BY <1>2, <1>3 DEF FreshInv

(* A heartbeat loop goes on as before when its own goroutine moves.        *)
LEMMA RunningKept ==
    ASSUME NEW j \in Joiners, NEW l, Move(j, l)
    PROVE  \A n \in Joins : pc'[n] \notin {"none", "ended"} => pc[n] \notin {"none", "ended"}
  BY DEF Move, Joiners

LEMMA LoopsKept ==
    ASSUME LoopInv, NEW j \in Joiners, NEW l, Move(j, l),
           UNCHANGED <<heartbeatCancel, autoCommitCancel, loopVars>>
    PROVE  LoopInv' /\ Heartbeating' \subseteq Heartbeating /\ Committing' = Committing
  BY RunningKept DEF LoopInv, Heartbeating, Committing, loopVars

LEMMA ServingKept ==
    ASSUME ProgressInv, SessionInv, NEW j \in Joiners, NEW l, Move(j, l),
           pc[j] \notin Serving,
           l \notin Serving \cup {"assignAC", "closeAC", "assignSet"},
           UNCHANGED <<groupSession, heartbeatCancel, autoCommitCancel, join>>
    PROVE  ProgressInv' /\ SessionInv'
  <1>1. \A k \in Joiners : pc[k] \in Serving <=> pc'[k] \in Serving
      BY DEF Move
  <1>2. SessionInv'
      BY <1>1 DEF SessionInv
  <1>3. \A k \in Joiners : pc'[k] \in Serving \cup {"assignAC", "closeAC", "assignSet"} =>
                             pc'[k] = pc[k]
      BY DEF Move
  <1>4. ProgressInv'
      BY <1>3 DEF ProgressInv, Serving
  <1> QED
      BY <1>2, <1>4

LEMMA ClosedKept ==
    ASSUME ClosedInv, NEW j \in Joiners, NEW l, Move(j, l),
           l \in JoinBody => pc[j] \in JoinBody,
           closed' => closed,
           Heartbeating' \subseteq Heartbeating, Committing' \subseteq Committing
    PROVE  ClosedInv'
  <1>1. \A k \in Joiners : pc'[k] \in JoinBody => pc[k] \in JoinBody
      BY DEF Move
  <1>2. Joining' \subseteq Joining
      BY <1>1 DEF Joining
  <1> QED
      BY <1>2 DEF ClosedInv

(* While a join is under way, nothing is assigned by hand.                 *)
LEMMA ManualKeptByJoin ==
    ASSUME ManualInv, NEW j \in Joiners, pc[j] \in JoinBody, manual' = manual
    PROVE  ManualInv'
  BY DEF ManualInv, Joining

LEMMA ManualKept ==
    ASSUME ManualInv, NEW j \in Joiners, NEW l, Move(j, l),
           l \in JoinBody => pc[j] \in JoinBody,
           UNCHANGED <<subscribed, assignment, groupSession, manual>>
    PROVE  ManualInv'
  <1>1. \A k \in Joiners : pc'[k] \in JoinBody => pc[k] \in JoinBody
      BY DEF Move
  <1>2. Joining' \subseteq Joining
      BY <1>1 DEF Joining
  <1> QED
      BY <1>2 DEF ManualInv

LEMMA HeldKept ==
    ASSUME HeldInv, NEW j \in Joiners, NEW l, Move(j, l),
           pc[j] \notin Notifying, l \notin Notifying,
           UNCHANGED <<held, assignment, wanted, revoked, assigned>>
    PROVE  HeldInv'
  <1>1. \A k \in Joiners : pc[k] \in Notifying <=> pc'[k] \in Notifying
      BY DEF Move
  <1>2. \A k \in Joiners : pc'[k] \in Notifying => pc'[k] = pc[k]
      BY DEF Move
  <1> QED
      BY <1>1, <1>2 DEF HeldInv, Notifying

(* Wanted, revoked and assigned matter only while a join notifies.         *)
LEMMA HeldKeptByAsking ==
    ASSUME HeldInv, NEW j \in Joiners, NEW l, Move(j, l), Alone(j),
           pc[j] \in Busy, pc[j] \notin Notifying, l \notin Notifying,
           UNCHANGED <<held, assignment>>
    PROVE  HeldInv'
  <1>1. \A k \in Joiners : pc'[k] \notin Notifying /\ pc[k] \notin Notifying
      BY DEF Move, Alone, Busy, JoinBody
  <1> QED
      BY <1>1 DEF HeldInv, Notifying

-----------------------------------------------------------------------------
(* A step of a goroutine that is not busy and stays so.                    *)
CalmVars == <<subscribed, assignment, groupSession, heartbeatCancel, autoCommitCancel,
              joinerVars, loopVars, held, generation, closed, manual, assignUsed,
              overlapped>>

LEMMA CalmStep ==
    ASSUME TypeInv, IInv, NEW j \in Joiners, NEW l, Move(j, l),
           pc[j] \notin Busy, l \notin Busy, UNCHANGED CalmVars
    PROVE  IInv'
  <1> SUFFICES ASSUME ~overlapped'
               PROVE  IInv'
      BY DEF IInv
  <1>0. UNCHANGED <<subscribed, assignment, groupSession, heartbeatCancel, autoCommitCancel,
                    join, wanted, revoked, assigned, loopVars, held, generation, closed,
                    manual, assignUsed, overlapped>>
      BY DEF CalmVars, joinerVars
  <1>1. ~overlapped
      BY <1>0
  <1>2. /\ l \notin Serving /\ l \notin Unstarted /\ l \notin Notifying /\ l \notin JoinBody
        /\ l \notin {"assignAC", "closeAC", "assignSet"}
        /\ pc[j] \notin Serving /\ pc[j] \notin Notifying
      BY DEF Busy, JoinBody, Asking, Notifying, Stopping, Serving, Unstarted
  <1>3. OneBusy'
    <2>1. \A k \in Joiners : pc'[k] \in Busy => pc[k] \in Busy
        BY DEF Move
    <2> QED  BY <1>1, <2>1 DEF IInv, OneBusy
  <1>4. FreshInv'
      BY <1>0, <1>1, <1>2, FreshKept DEF IInv
  <1>5. LoopInv' /\ Heartbeating' \subseteq Heartbeating /\ Committing' \subseteq Committing
      BY <1>0, <1>1, LoopsKept DEF IInv
  <1>6. ProgressInv' /\ SessionInv'
      BY <1>0, <1>1, <1>2, ServingKept DEF IInv
  <1>7. ClosedInv'
      BY <1>0, <1>1, <1>2, <1>5, ClosedKept DEF IInv
  <1>8. ManualInv'
      BY <1>0, <1>1, <1>2, ManualKept DEF IInv
  <1>9. ~assignUsed' => HeldInv'
      BY <1>0, <1>1, <1>2, HeldKept DEF IInv
  <1> QED
      BY <1>3, <1>4, <1>5, <1>6, <1>7, <1>8, <1>9 DEF IInv

(* A goroutine becomes busy: with a join, if nothing forbids one, or with  *)
(* an Assign or a Close.                                                   *)
LEMMA BusyStep ==
    ASSUME TypeInv, IInv, NEW j \in Joiners, NEW l \in {"join", "assignHB", "closeHB"},
           Move(j, l), pc[j] \notin Busy,
           ~overlapped' => ~overlapped /\ Joining \cup Leaving = {},
           closed' => closed, l = "join" => ~closed',
           manual' \in {manual, {}}, l = "join" => manual' = {},
           subscribed' = subscribed \/ manual' = {},
           UNCHANGED <<assignment, groupSession, heartbeatCancel, autoCommitCancel,
                       joinerVars, loopVars, held, generation, assignUsed>>
    PROVE  IInv'
  <1> SUFFICES ASSUME ~overlapped'
               PROVE  IInv'
      BY DEF IInv
  <1>0. UNCHANGED <<assignment, groupSession, heartbeatCancel, autoCommitCancel,
                    join, wanted, revoked, assigned, loopVars, held, generation,
                    assignUsed>>
      BY DEF joinerVars
  <1>1. ~overlapped /\ Joining \cup Leaving = {}
      OBVIOUS
  <1>2. /\ l \notin Serving /\ l \notin Unstarted /\ l \notin Notifying
        /\ l \notin {"assignAC", "closeAC", "assignSet"}
        /\ pc[j] \notin Serving /\ pc[j] \notin Notifying
      BY DEF Busy, JoinBody, Asking, Notifying, Stopping, Serving, Unstarted
  <1>3. OneBusy'
    <2>1. \A k \in Joiners : pc[k] \notin JoinBody
        BY <1>1 DEF Joining
    <2>2. \A k \in Joiners : pc[k] \in Stopping => k \in Callers
        BY DEF TypeInv, TypeOK, Joiners, Stopping, JoinBody, Asking, Notifying
    <2>3. \A k \in Joiners : pc[k] \notin Busy
        BY <1>1, <2>1, <2>2 DEF Leaving, Busy
    <2> QED  BY <2>3, OneBusyKept DEF Alone
  <1>4. FreshInv'
      BY <1>0, <1>1, <1>2, FreshKept DEF IInv
  <1>5. LoopInv' /\ Heartbeating' \subseteq Heartbeating /\ Committing' \subseteq Committing
      BY <1>0, <1>1, LoopsKept DEF IInv
  <1>6. ProgressInv' /\ SessionInv'
      BY <1>0, <1>1, <1>2, ServingKept DEF IInv
  <1>7. ClosedInv'
    <2>1. l # "join" => l \notin JoinBody
        BY DEF JoinBody, Asking, Notifying
    <2>2. CASE l = "join"
        BY <2>2 DEF ClosedInv
    <2>3. CASE l # "join"
        BY <1>0, <1>1, <1>5, <2>1, <2>3, ClosedKept DEF IInv
    <2> QED  BY <2>2, <2>3
  <1>8. ManualInv'
    <2>1. l # "join" => l \notin JoinBody
        BY DEF JoinBody, Asking, Notifying
    <2>2. CASE manual' = {}
        BY <2>2 DEF ManualInv
    <2>3. CASE manual' # {}
        BY <1>0, <1>1, <2>1, <2>3, ManualKept DEF IInv
    <2> QED  BY <2>2, <2>3
  <1>9. ~assignUsed' => HeldInv'
      BY <1>0, <1>1, <1>2, HeldKept DEF IInv
  <1> QED
      BY <1>3, <1>4, <1>5, <1>6, <1>7, <1>8, <1>9 DEF IInv

(* What the application begins or ends keeps the invariant.                *)
LEMMA ApplicationStep ==
    ASSUME TypeInv, IInv, NEW c \in Callers, Begin(c) \/ PollEnds(c)
    PROVE  IInv'
  <1> USE DEF Call, clientVars, loopVars, joinerVars, historyVars
  <1>1. c \in Joiners
      BY DEF Joiners
  <1>2. \A l \in {"idle", "poll", "rejoin"} : l \notin Busy /\ l # "none" /\ l # "ended"
      BY DEF Busy, JoinBody, Asking, Notifying, Stopping
  <1>3. CASE Subscribe(c)
    <2>1. Move(c, "join")
        BY <1>1, <1>2, <1>3, GoToMoves DEF Subscribe
    <2>2. ~overlapped' => ~overlapped /\ Joining \cup Leaving = {}
        BY <1>3 DEF Subscribe, Overlap
    <2>3. pc[c] \notin Busy
        BY <1>2, <1>3 DEF Subscribe
    <2>4. ~closed' /\ manual' = {}
        BY <1>3 DEF Subscribe
    <2>5. UNCHANGED <<assignment, groupSession, heartbeatCancel, autoCommitCancel,
                      joinerVars, loopVars, held, generation, assignUsed>>
        BY <1>3 DEF Subscribe
    <2> QED  BY <1>1, <2>1, <2>2, <2>3, <2>4, <2>5, BusyStep
  <1>4. CASE Assign(c)
    <2>1. Move(c, "assignHB")
        BY <1>1, <1>2, <1>4, GoToMoves DEF Assign
    <2>2. ~overlapped' => ~overlapped /\ Joining \cup Leaving = {}
        BY <1>4 DEF Assign, Overlap
    <2>3. pc[c] \notin Busy
        BY <1>2, <1>4 DEF Assign
    <2>4. UNCHANGED <<subscribed, assignment, groupSession, heartbeatCancel, autoCommitCancel,
                      joinerVars, loopVars, held, generation, closed, manual, assignUsed>>
        BY <1>4 DEF Assign
    <2> QED  BY <1>1, <2>1, <2>2, <2>3, <2>4, BusyStep
  <1>5. CASE Close(c)
    <2>1. Move(c, "closeHB")
        BY <1>1, <1>2, <1>5, GoToMoves DEF Close
    <2>2. ~overlapped' => ~overlapped /\ Joining \cup Leaving = {}
        BY <1>5 DEF Close, Overlap
    <2>3. pc[c] \notin Busy
        BY <1>2, <1>5 DEF Close
    <2>4. UNCHANGED <<subscribed, assignment, groupSession, heartbeatCancel, autoCommitCancel,
                      joinerVars, loopVars, held, generation, closed, manual, assignUsed>>
        BY <1>5 DEF Close
    <2> QED  BY <1>1, <2>1, <2>2, <2>3, <2>4, BusyStep
  <1>6. CASE Poll(c) \/ PollRefused(c) \/ PollEnds(c)
    <2>1. pc[c] \in {"idle", "poll"} /\ UNCHANGED CalmVars
        BY <1>6 DEF Poll, PollRefused, PollEnds, CalmVars
    <2>2. \E l \in {"idle", "poll", "rejoin"} : GoTo(c, l)
        BY <1>6 DEF Poll, PollRefused, PollEnds, Return
    <2>3. \E l \in {"idle", "poll", "rejoin"} : Move(c, l)
        BY <1>1, <1>2, <2>1, <2>2, GoToMoves
    <2> QED  BY <1>1, <1>2, <2>1, <2>3, CalmStep
  <1> QED
      BY <1>3, <1>4, <1>5, <1>6 DEF Begin

(* So do the loops and the clock.                                          *)
LEMMA LoopStep ==
    ASSUME TypeInv, IInv, \/ \E n \in Joins : Loop(n)
                          \/ Elapse
                          \/ UNCHANGED vars
    PROVE  IInv'
  <1> USE DEF clientVars, loopVars, joinerVars, historyVars
  <1>1. ASSUME NEW n \in Joins, Tick(n) \/ HeartbeatReturns(n) \/ HeartbeatLoopEnds(n)
        PROVE  IInv'
    <2>1. n \in Joiners /\ n \notin Callers
        BY NamesAssumption, BoundsAssumption DEF Joiners, Joins
    <2>2. \A l \in {"waiting", "asking", "rejoin", "ended"} : l \notin Busy /\ l # "none"
        BY DEF Busy, JoinBody, Asking, Notifying, Stopping
    <2>3. pc[n] \in {"waiting", "asking"} /\ UNCHANGED CalmVars
        BY <1>1 DEF Tick, HeartbeatReturns, HeartbeatLoopEnds, CalmVars
    <2>4. \E l \in {"waiting", "asking", "rejoin", "ended"} : GoTo(n, l)
        BY <1>1, <2>1 DEF Tick, HeartbeatReturns, HeartbeatLoopEnds, Return
    <2>5. \E l \in {"waiting", "asking", "rejoin", "ended"} : Move(n, l)
        BY <2>1, <2>2, <2>3, <2>4, GoToMoves
    <2> QED  BY <2>1, <2>2, <2>3, <2>5, CalmStep
  <1>2. ASSUME pc' = pc, UNCHANGED CalmVars
        PROVE  IInv'
    <2>1. UNCHANGED <<subscribed, assignment, groupSession, heartbeatCancel, autoCommitCancel,
                      join, wanted, revoked, assigned, committer, stopHeartbeat, stopCommit,
                      held, generation, closed, manual, assignUsed, overlapped>>
        BY <1>2 DEF CalmVars
    <2> QED  BY <1>2, <2>1 DEF IInv, OneBusy, FreshInv, LoopInv, ProgressInv, SessionInv,
                   ClosedInv, ManualInv, HeldInv, Heartbeating, Committing, Joining
  <1>3. ASSUME NEW n \in Joins, CommitLoopEnds(n)
        PROVE  IInv'
    <2>1. pc' = pc /\ UNCHANGED <<subscribed, assignment, groupSession, heartbeatCancel,
                      autoCommitCancel, join, wanted, revoked, assigned, stopHeartbeat,
                      held, generation, closed, manual, assignUsed, overlapped>>
        BY <1>3 DEF CommitLoopEnds
    <2>2. Heartbeating' = Heartbeating /\ Joining' = Joining
        BY <2>1 DEF Heartbeating, Joining
    <2>3. Committing' \subseteq Committing
        BY <1>3 DEF CommitLoopEnds, Committing, TypeInv, TypeOK
    <2>4. ~overlapped => LoopInv' /\ ClosedInv' /\ ManualInv'
        BY <2>1, <2>2, <2>3 DEF IInv, LoopInv, ClosedInv, ManualInv
    <2>5. ~overlapped => OneBusy' /\ FreshInv' /\ ProgressInv' /\ SessionInv'
        BY <2>1 DEF IInv, OneBusy, FreshInv, ProgressInv, SessionInv
    <2>6. ~overlapped /\ ~assignUsed => HeldInv'
        BY <2>1 DEF IInv, HeldInv
    <2> QED  BY <2>1, <2>4, <2>5, <2>6 DEF IInv
  <1>4. CASE Elapse
      BY <1>2, <1>4 DEF Elapse, CalmVars
  <1>5. CASE UNCHANGED vars
      BY <1>2, <1>5 DEF vars, CalmVars
  <1> QED
      BY <1>1, <1>3, <1>4, <1>5 DEF Loop

(* A rejoin begins a join only for subscribed topics, which a manual       *)
(* assignment has not, and in a loop nobody has stopped, of which there is *)
(* none after Close.                                                       *)
LEMMA RejoinStep ==
    ASSUME TypeInv, IInv, NEW j \in Joiners, Rejoin(j)
    PROVE  IInv'
  <1> USE DEF clientVars, loopVars, joinerVars, historyVars
  <1>1. \A l \in {"idle", "waiting", "rejoin"} : l \notin Busy /\ l \notin {"none", "ended"}
      BY DEF Busy, JoinBody, Asking, Notifying, Stopping
  <1>2. pc[j] = "rejoin"
      BY DEF Rejoin
  <1>3. CASE ~subscribed
    <2>1. Return(j) /\ UNCHANGED CalmVars
        BY <1>3 DEF Rejoin, CalmVars
    <2>2. PICK l \in {"idle", "waiting"} : Move(j, l)
        BY <1>1, <1>2, <2>1, ReturnMoves
    <2> QED  BY <1>1, <1>2, <2>1, <2>2, CalmStep
  <1>4. CASE subscribed
    <2> SUFFICES ASSUME ~overlapped'
                 PROVE  IInv'
        BY DEF IInv
    <2>1. Move(j, "join")
        BY <1>1, <1>2, <1>4, GoToMoves DEF Rejoin
    <2>2. ~overlapped /\ Joining \cup Leaving = {} /\ j \notin stopHeartbeat
        BY <1>4 DEF Rejoin
    <2>3. manual = {} /\ manual' = manual
        BY <1>4, <2>2 DEF Rejoin, IInv, ManualInv
    <2>4. closed' => closed /\ j \notin Callers
        BY <1>4 DEF Rejoin
    <2>5. ~closed'
      <3> SUFFICES ASSUME closed, j \notin Callers
                   PROVE  FALSE
          BY <2>4
      <3>1. j \in Joins
          BY DEF Joiners
      <3>2. j \in Heartbeating
          BY <1>2, <2>2, <3>1 DEF Heartbeating
      <3> QED  BY <2>2, <3>2 DEF IInv, ClosedInv
    <2>6. UNCHANGED <<subscribed, assignment, groupSession, heartbeatCancel, autoCommitCancel,
                      joinerVars, loopVars, held, generation, assignUsed>>
        BY <1>4 DEF Rejoin
    <2> QED  BY <1>1, <1>2, <2>1, <2>2, <2>3, <2>5, <2>6, BusyStep
  <1> QED
      BY <1>3, <1>4

-----------------------------------------------------------------------------
(* A step of a join before it installs its session.                        *)
LEMMA JoinFrame ==
    ASSUME TypeInv, IInv, ~overlapped, NEW j \in Joiners, NEW l, Move(j, l),
           pc[j] \in JoinBody \ Serving,
           l \in (JoinBody \ Serving) \cup {"idle", "waiting"},
           FreshInv',
           UNCHANGED <<groupSession, heartbeatCancel, autoCommitCancel, loopVars,
                       closed, manual, overlapped>>,
           ~assignUsed' => HeldInv'
    PROVE  IInv'
  <1>1. Alone(j)
      BY BusyAlone DEF IInv, Busy
  <1>2. OneBusy'
      BY <1>1, OneBusyKept
  <1>3. LoopInv' /\ Heartbeating' \subseteq Heartbeating /\ Committing' \subseteq Committing
      BY LoopsKept DEF IInv
  <1>4. \A k \in Joiners :
          /\ pc[k] \notin Serving
          /\ pc'[k] \notin Serving \cup {"assignAC", "closeAC", "assignSet"}
      BY <1>1 DEF Move, Alone, Busy, JoinBody, Asking, Notifying, Stopping, Serving
  <1>5. ProgressInv'
      BY <1>4 DEF ProgressInv, Serving
  <1>6. SessionInv'
      BY <1>4 DEF IInv, SessionInv
  <1>7. ClosedInv'
      BY <1>3, ClosedKept DEF IInv
  <1>8. ManualInv'
      BY ManualKeptByJoin DEF IInv
  <1> QED
      BY <1>2, <1>3, <1>5, <1>6, <1>7, <1>8 DEF IInv

LEMMA AskingStep ==
    ASSUME TypeInv, IInv, NEW j \in Joiners,
           JoinGroup(j) \/ AssignmentFromMetadata(j) \/ JoinFails(j)
    PROVE  IInv'
  <1> USE DEF clientVars, loopVars, historyVars
  <1> SUFFICES ASSUME ~overlapped
               PROVE  IInv'
      BY DEF JoinGroup, AssignmentFromMetadata, JoinFails, IInv
  <1>1. pc[j] \in Asking
      BY DEF JoinGroup, AssignmentFromMetadata, JoinFails, Asking
  <1>2. /\ pc[j] \in Busy /\ pc[j] \in JoinBody \ Serving /\ pc[j] \notin Notifying
        /\ pc[j] \notin {"none", "ended"}
      BY <1>1 DEF Busy, JoinBody, Asking, Notifying, Serving
  <1>3. Alone(j)
      BY <1>2, BusyAlone DEF IInv
  <1>4. UNCHANGED <<subscribed, assignment, groupSession, heartbeatCancel, autoCommitCancel,
                    loopVars, held, closed, manual, assignUsed, overlapped>>
      BY DEF JoinGroup, AssignmentFromMetadata, JoinFails
  <1>5. \A k \in Joiners \ {j} : pc[k] \notin Unstarted
      BY <1>3 DEF Alone, Busy, JoinBody, Asking, Notifying, Unstarted
  <1>6. ASSUME NEW l \in (JoinBody \ (Serving \cup Notifying)) \cup {"idle", "waiting"},
               Move(j, l), FreshInv'
        PROVE  IInv'
    <2>1. l \notin Notifying
        BY DEF Notifying
    <2>2. ~assignUsed' => HeldInv'
        BY <1>2, <1>3, <1>4, <1>6, <2>1, HeldKeptByAsking DEF IInv
    <2> QED  BY <1>2, <1>4, <1>6, <2>2, JoinFrame
  <1>7. CASE JoinGroup(j)
    <2>1. Move(j, "metadata")
        BY <1>2, <1>7, GoToMoves DEF JoinGroup
    <2>2. /\ generation \in 0..MaxJoins /\ generation < MaxJoins
          /\ generation' = generation + 1
          /\ join' = [join EXCEPT ![j] = generation + 1]
          /\ join \in [Joiners -> 0..MaxJoins]
        BY <1>7 DEF JoinGroup, TypeInv, TypeOK
    <2>3. generation + 1 \in Joins
        BY <2>2, BoundsAssumption DEF Joins
    <2>4. \A n \in Joins : n > generation => pc'[n] = "none" /\ pc[n] = "none"
        BY <1>2, <2>1 DEF IInv, FreshInv, Move, Joiners
    <2>5. join'[j] = generation' /\ pc'[generation'] = "none"
        BY <2>2, <2>3, <2>4 DEF Joins
    <2>6. join'[j] \in 1..generation' /\ pc'[join'[j]] = "none"
        BY <2>2, <2>5
    <2>7. \A k \in Joiners : pc'[k] \in Unstarted => k = j
        BY <1>5, <2>1 DEF Move
    <2>8. \A n \in Joins : n > generation' => pc'[n] = "none"
        BY <2>2, <2>4 DEF Joins
    <2>9. FreshInv'
        BY <2>6, <2>7, <2>8 DEF FreshInv
    <2>10. "metadata" \in JoinBody \ (Serving \cup Notifying)
        BY DEF JoinBody, Asking, Notifying, Serving
    <2> QED  BY <1>6, <2>1, <2>9, <2>10
  <1>8. CASE AssignmentFromMetadata(j)
    <2>1. Move(j, "diff")
        BY <1>2, <1>8, GoToMoves DEF AssignmentFromMetadata
    <2>2. pc[j] \in Unstarted /\ join' = join /\ generation' = generation
        BY <1>8 DEF AssignmentFromMetadata, Unstarted
    <2>3. FreshInv'
        BY <2>1, <2>2, FreshKept DEF IInv
    <2>4. "diff" \in JoinBody \ (Serving \cup Notifying)
        BY DEF JoinBody, Asking, Notifying, Serving
    <2> QED  BY <1>6, <2>1, <2>3, <2>4
  <1>9. CASE JoinFails(j)
    <2>1. PICK l \in {"idle", "waiting"} : Move(j, l)
        BY <1>2, <1>9, ReturnMoves DEF JoinFails
    <2>2. generation' = generation
        BY <1>9 DEF JoinFails
    <2>3. \A n \in Joins : n > generation => pc'[n] = "none"
        BY <1>2, <2>1 DEF IInv, FreshInv, Move, Joiners
    <2>4. \A k \in Joiners : pc'[k] \notin Unstarted
        BY <1>5, <2>1 DEF Move, Unstarted
    <2>5. FreshInv'
        BY <2>2, <2>3, <2>4 DEF FreshInv
    <2> QED  BY <1>6, <2>1, <2>5
  <1> QED
      BY <1>7, <1>8, <1>9

LEMMA NotifyingStep ==
    ASSUME TypeInv, IInv, NEW j \in Joiners,
           Diff(j) \/ NotifyRevoked(j) \/ Install(j) \/ NotifyAssigned(j)
    PROVE  IInv'
  <1> USE DEF clientVars, loopVars, historyVars
  <1> SUFFICES ASSUME ~overlapped
               PROVE  IInv'
      BY DEF Diff, NotifyRevoked, Install, NotifyAssigned, IInv
  <1>1. pc[j] \in {"diff", "revoke", "install", "notify"}
      BY DEF Diff, NotifyRevoked, Install, NotifyAssigned
  <1>2. /\ pc[j] \in Busy /\ pc[j] \in JoinBody \ Serving /\ pc[j] \in Unstarted
        /\ pc[j] \notin {"none", "ended"}
      BY <1>1 DEF Busy, JoinBody, Asking, Notifying, Serving, Unstarted
  <1>3. Alone(j)
      BY <1>2, BusyAlone DEF IInv
  <1>4. \A k \in Joiners \ {j} : pc[k] \notin Notifying
      BY <1>3 DEF Alone, Busy, JoinBody
  <1>5. UNCHANGED <<groupSession, heartbeatCancel, autoCommitCancel, loopVars,
                    closed, manual, overlapped>> /\ join' = join /\ generation' = generation
      BY DEF Diff, NotifyRevoked, Install, NotifyAssigned, joinerVars
  <1>6. ASSUME NEW l \in {"revoke", "install", "notify", "session"}, GoTo(j, l),
               Move(j, l) => (~assignUsed' => HeldInv')
        PROVE  IInv'
    <2>1. Move(j, l)
        BY <1>2, <1>6, GoToMoves
    <2>2. FreshInv'
        BY <1>2, <1>5, <2>1, FreshKept DEF IInv
    <2>3. l \in JoinBody \ Serving
        BY DEF JoinBody, Asking, Notifying, Serving
    <2> QED  BY <1>2, <1>5, <1>6, <2>1, <2>2, <2>3, JoinFrame
  <1>7. CASE Diff(j)
    <2>1. ASSUME Move(j, "revoke"), ~assignUsed'
          PROVE  HeldInv'
      <3>1. \A k \in Joiners : pc[k] \notin Notifying
          BY <1>4, <1>7 DEF Diff, Notifying
      <3>2. ~assignUsed /\ held' = held /\ assignment' = assignment /\ wanted' = wanted
          BY <1>7, <2>1 DEF Diff
      <3>3. held = assignment
          BY <3>1, <3>2 DEF IInv, HeldInv
      <3>4. revoked'[j] = assignment \ wanted[j] /\ assigned'[j] = wanted[j] \ assignment
          BY <1>7 DEF Diff, TypeInv, TypeOK
      <3>5. pc'[j] = "revoke" /\ \A k \in Joiners \ {j} : pc'[k] \notin Notifying
          BY <1>4, <2>1 DEF Move
      <3> QED  BY <3>2, <3>3, <3>4, <3>5 DEF HeldInv, Notifying
    <2> QED  BY <1>6, <1>7, <2>1 DEF Diff
  <1>8. CASE NotifyRevoked(j)
    <2>1. ASSUME Move(j, "install"), ~assignUsed'
          PROVE  HeldInv'
      <3>1. ~assignUsed /\ held' = held \ revoked[j] /\ UNCHANGED <<assignment, wanted, revoked, assigned>>
          BY <1>8, <2>1 DEF NotifyRevoked, joinerVars
      <3>2. /\ held = assignment
            /\ revoked[j] = assignment \ wanted[j]
            /\ assigned[j] = wanted[j] \ assignment
          BY <1>8, <3>1 DEF NotifyRevoked, IInv, HeldInv
      <3>3. held' \cup assigned'[j] = wanted'[j]
          BY <3>1, <3>2
      <3>4. pc'[j] = "install" /\ \A k \in Joiners \ {j} : pc'[k] \notin Notifying
          BY <1>4, <2>1 DEF Move
      <3> QED  BY <3>3, <3>4 DEF HeldInv, Notifying
    <2> QED  BY <1>6, <1>8, <2>1 DEF NotifyRevoked
  <1>9. CASE Install(j)
    <2>1. ASSUME Move(j, "notify"), ~assignUsed'
          PROVE  HeldInv'
      <3>1. /\ ~assignUsed /\ assignment' = wanted[j]
            /\ UNCHANGED <<held, wanted, revoked, assigned>>
          BY <1>9, <2>1 DEF Install, joinerVars
      <3>2. held \cup assigned[j] = wanted[j]
          BY <1>9, <3>1 DEF Install, IInv, HeldInv
      <3>3. pc'[j] = "notify" /\ \A k \in Joiners \ {j} : pc'[k] \notin Notifying
          BY <1>4, <2>1 DEF Move
      <3> QED  BY <3>1, <3>2, <3>3 DEF HeldInv, Notifying
    <2> QED  BY <1>6, <1>9, <2>1 DEF Install
  <1>10. CASE NotifyAssigned(j)
    <2>1. ASSUME Move(j, "session"), ~assignUsed'
          PROVE  HeldInv'
      <3>1. ~assignUsed /\ held' = held \cup assigned[j] /\ assignment' = assignment
          BY <1>10, <2>1 DEF NotifyAssigned
      <3>2. held \cup assigned[j] = wanted[j] /\ assignment = wanted[j]
          BY <1>10, <3>1 DEF NotifyAssigned, IInv, HeldInv
      <3>3. \A k \in Joiners : pc'[k] \notin Notifying
          BY <1>4, <2>1 DEF Move, Notifying
      <3> QED  BY <3>1, <3>2, <3>3 DEF HeldInv, Notifying
    <2> QED  BY <1>6, <1>10, <2>1 DEF NotifyAssigned
  <1> QED
      BY <1>7, <1>8, <1>9, <1>10

-----------------------------------------------------------------------------
(* The steps that stop, install and start.                                 *)
LEMMA NoZeroLoop == LoopInv => /\ heartbeatCancel = 0 => Heartbeating = {}
                               /\ autoCommitCancel = 0 => Committing = {}
  BY BoundsAssumption DEF LoopInv, Heartbeating, Committing, Joins

LEMMA InstallSessionStep ==
    ASSUME TypeInv, IInv, ~overlapped, NEW j \in Joiners, InstallSession(j)
    PROVE  IInv'
  <1> USE DEF loopVars, historyVars, joinerVars
  <1>1. /\ pc[j] \in Busy /\ pc[j] \in JoinBody /\ pc[j] \notin Notifying
        /\ pc[j] \in Unstarted /\ "stopHB" \in Unstarted /\ "stopHB" \notin Notifying
        /\ "stopHB" \in Serving /\ pc[j] \notin {"none", "ended"}
      BY DEF InstallSession, Busy, JoinBody, Asking, Notifying, Unstarted, Serving
  <1>2. Alone(j)
      BY <1>1, BusyAlone DEF IInv
  <1>3. Move(j, "stopHB")
      BY <1>1, GoToMoves DEF InstallSession
  <1>4. /\ groupSession' = join[j]
        /\ UNCHANGED <<assignment, heartbeatCancel, autoCommitCancel, join, wanted, revoked,
                       assigned, loopVars, held, generation, closed, manual, assignUsed>>
      BY DEF InstallSession
  <1>5. OneBusy' /\ FreshInv'
      BY <1>1, <1>2, <1>3, <1>4, OneBusyKept, FreshKept DEF IInv
  <1>6. LoopInv' /\ Heartbeating' \subseteq Heartbeating /\ Committing' \subseteq Committing
      BY <1>3, <1>4, LoopsKept DEF IInv
  <1>7. pc'[j] = "stopHB" /\ \A k \in Joiners \ {j} : pc'[k] \notin Busy
      BY <1>2, <1>3 DEF Move, Alone
  <1>8. ProgressInv' /\ SessionInv'
      BY <1>1, <1>4, <1>7 DEF ProgressInv, SessionInv, Busy, JoinBody, Stopping, Serving
  <1>9. ClosedInv' /\ ManualInv'
      BY <1>1, <1>3, <1>4, <1>6, ClosedKept, ManualKeptByJoin DEF IInv
  <1>10. ~assignUsed' => HeldInv'
      BY <1>1, <1>3, <1>4, HeldKept DEF IInv
  <1> QED
      BY <1>5, <1>6, <1>8, <1>9, <1>10 DEF IInv

(* After stopHeartbeatLoop nobody heartbeats, whoever called it.           *)
LEMMA StopHBStep ==
    ASSUME TypeInv, IInv, ~overlapped, NEW j \in Joiners, StopHB(j)
    PROVE  IInv'
  <1> USE DEF historyVars, joinerVars
  <1> DEFINE After == CASE pc[j] = "assignHB" -> "assignAC"
                        [] pc[j] = "closeHB"  -> "closeAC"
                        [] OTHER              -> "startHB"
  <1>1. pc[j] \in {"assignHB", "closeHB", "stopHB"} /\ GoTo(j, After)
      BY DEF StopHB
  <1>2. \/ pc[j] = "assignHB" /\ After = "assignAC"
        \/ pc[j] = "closeHB" /\ After = "closeAC"
        \/ pc[j] = "stopHB" /\ After = "startHB"
      BY <1>1
  <1> HIDE DEF After
  <1>3. /\ pc[j] \in Busy /\ pc[j] \notin Notifying /\ pc[j] \notin {"none", "ended"}
        /\ After \notin Notifying /\ After # "none"
        /\ After \in Unstarted => pc[j] \in Unstarted
        /\ After \in JoinBody => pc[j] \in JoinBody
      BY <1>2 DEF Busy, JoinBody, Asking, Notifying, Unstarted, Serving, Stopping
  <1>4. Alone(j)
      BY <1>3, BusyAlone DEF IInv
  <1>5. Move(j, After)
      BY <1>1, <1>3, GoToMoves
  <1>6. /\ heartbeatCancel' = 0
        /\ stopHeartbeat' = stopHeartbeat \cup ({heartbeatCancel} \ {0})
        /\ UNCHANGED <<subscribed, assignment, groupSession, autoCommitCancel, join, wanted,
                       revoked, assigned, committer, stopCommit, held, generation, closed,
                       manual, assignUsed>>
      BY DEF StopHB, StopHeartbeatLoop
  <1>7. OneBusy' /\ FreshInv'
      BY <1>3, <1>4, <1>5, <1>6, OneBusyKept, FreshKept DEF IInv
  <1>8. Heartbeating' = {}
    <2> SUFFICES ASSUME NEW n \in Heartbeating'
                 PROVE  FALSE
        OBVIOUS
    <2>1. n \in Joins /\ pc'[n] \notin {"none", "ended"} /\ n \notin stopHeartbeat'
        BY DEF Heartbeating
    <2>2. pc[n] \notin {"none", "ended"}
        BY <1>5, <2>1, RunningKept
    <2>3. n \in Heartbeating
        BY <1>6, <2>1, <2>2 DEF Heartbeating
    <2>4. n = heartbeatCancel /\ n # 0
        BY <2>1, <2>3, BoundsAssumption DEF IInv, LoopInv, Joins
    <2> QED  BY <1>6, <2>1, <2>4
  <1>9. Committing' = Committing
      BY <1>6 DEF Committing
  <1>10. LoopInv'
      BY <1>6, <1>8, <1>9 DEF IInv, LoopInv
  <1>11. pc'[j] = After /\ \A k \in Joiners \ {j} : pc'[k] \notin Busy /\ pc[k] \notin Busy
      BY <1>4, <1>5 DEF Move, Alone
  <1>12. ProgressInv'
    <2>1. pc[j] = "stopHB" => groupSession = join[j]
        BY DEF IInv, ProgressInv, Serving
    <2> QED  BY <1>2, <1>6, <1>11, <2>1 DEF ProgressInv, Busy, JoinBody, Stopping, Serving
  <1>13. SessionInv'
    <2>1. CASE pc[j] = "stopHB"
        BY <1>2, <1>11, <2>1 DEF SessionInv, Serving
    <2>2. CASE pc[j] # "stopHB"
      <3>1. \A k \in Joiners : pc[k] \notin Serving
          BY <1>1, <1>11, <2>2 DEF Busy, JoinBody, Serving
      <3> QED  BY <1>6, <3>1 DEF IInv, SessionInv
    <2> QED  BY <2>1, <2>2
  <1>14. ClosedInv' /\ ManualInv'
      BY <1>3, <1>5, <1>6, <1>8, <1>9, ClosedKept, ManualKept DEF IInv
  <1>15. ~assignUsed' => HeldInv'
      BY <1>3, <1>5, <1>6, HeldKept DEF IInv
  <1> QED
      BY <1>7, <1>10, <1>12, <1>13, <1>14, <1>15 DEF IInv

(* Nor does anybody commit after stopAutoCommitLoop.                       *)
LEMMA StopACStep ==
    ASSUME TypeInv, IInv, ~overlapped, NEW j \in Joiners, StopAC(j)
    PROVE  IInv'
  <1> USE DEF joinerVars
  <1>1. pc[j] \in {"assignAC", "closeAC", "stopAC"}
      BY DEF StopAC
  <1>2. /\ pc[j] \in Busy /\ pc[j] \notin Notifying /\ pc[j] \notin {"none", "ended"}
        /\ pc[j] = "stopAC" => pc[j] \in JoinBody
      BY <1>1 DEF Busy, JoinBody, Asking, Notifying, Serving, Stopping
  <1>3. PICK l : /\ Move(j, l)
                 /\ \/ pc[j] = "assignAC" /\ l = "assignSet"
                    \/ pc[j] = "stopAC" /\ l = "startAC"
                    \/ pc[j] \in {"closeAC", "stopAC"} /\ l \in {"idle", "waiting"}
    <2>1. \/ pc[j] = "assignAC" /\ GoTo(j, "assignSet")
          \/ pc[j] = "stopAC" /\ GoTo(j, "startAC")
          \/ pc[j] \in {"closeAC", "stopAC"} /\ Return(j)
        BY <1>1 DEF StopAC
    <2> QED  BY <1>2, <2>1, GoToMoves, ReturnMoves
  <1>4. Alone(j)
      BY <1>2, BusyAlone DEF IInv
  <1>5. l \notin Notifying /\ l \notin Unstarted /\ (l \in JoinBody => pc[j] = "stopAC")
      BY <1>3 DEF JoinBody, Asking, Notifying, Unstarted, Serving
  <1>6. /\ autoCommitCancel' = 0
        /\ stopCommit' = stopCommit \cup ({autoCommitCancel} \ {0})
        /\ UNCHANGED <<subscribed, assignment, groupSession, heartbeatCancel, join, wanted,
                       revoked, assigned, committer, stopHeartbeat, held, generation,
                       manual, assignUsed>>
      BY DEF StopAC, StopAutoCommitLoop
  <1>7. OneBusy' /\ FreshInv'
      BY <1>3, <1>4, <1>5, <1>6, OneBusyKept, FreshKept DEF IInv
  <1>8. Committing' = {}
    <2> SUFFICES ASSUME NEW n \in Committing'
                 PROVE  FALSE
        OBVIOUS
    <2>1. n \in Joins /\ n \in Committing /\ n \notin stopCommit'
        BY <1>6 DEF Committing
    <2>2. n = autoCommitCancel /\ n # 0
        BY <2>1, BoundsAssumption DEF IInv, LoopInv, Joins
    <2> QED  BY <1>6, <2>1, <2>2
  <1>9. Heartbeating' \subseteq Heartbeating
      BY <1>3, <1>6, RunningKept DEF Heartbeating
  <1>10. LoopInv'
      BY <1>6, <1>8, <1>9 DEF IInv, LoopInv
  <1>11. pc'[j] = l /\ \A k \in Joiners \ {j} : pc'[k] \notin Busy /\ pc[k] \notin Busy
      BY <1>3, <1>4 DEF Move, Alone
  <1>12. /\ pc[j] \in {"assignAC", "closeAC"} => heartbeatCancel = 0
         /\ pc[j] = "stopAC" => groupSession = join[j] /\ heartbeatCancel = groupSession
      BY DEF IInv, ProgressInv, Serving
  <1>13. ProgressInv'
      BY <1>3, <1>6, <1>11, <1>12 DEF ProgressInv, Busy, JoinBody, Stopping, Serving
  <1>14. SessionInv'
      BY <1>1, <1>6, <1>12 DEF SessionInv
  <1>15. ClosedInv'
    <2>1. CASE pc[j] = "closeAC"
      <3>1. Heartbeating = {}
          BY <1>12, <2>1, NoZeroLoop DEF IInv
      <3>2. Joining' = {}
          BY <1>5, <1>11, <2>1 DEF Joining, Busy
      <3> QED  BY <1>8, <1>9, <3>1, <3>2 DEF ClosedInv
    <2>2. CASE pc[j] # "closeAC"
      <3>1. closed' => closed
          BY <2>2 DEF StopAC
      <3> QED  BY <1>2, <1>3, <1>5, <1>8, <1>9, <3>1, ClosedKept DEF IInv
    <2> QED  BY <2>1, <2>2
  <1>16. ManualInv'
      BY <1>2, <1>3, <1>5, <1>6, ManualKept DEF IInv
  <1>17. ~assignUsed' => HeldInv'
      BY <1>2, <1>3, <1>5, <1>6, HeldKept DEF IInv
  <1>18. overlapped' = overlapped
      BY DEF StopAC
  <1> QED
      BY <1>7, <1>10, <1>13, <1>14, <1>15, <1>16, <1>17 DEF IInv

(* The new heartbeat loop is the only one, and is that of the session.     *)
LEMMA StartHBStep ==
    ASSUME TypeInv, IInv, ~overlapped, NEW j \in Joiners, StartHB(j)
    PROVE  IInv'
  <1> USE DEF joinerVars, loopVars, historyVars
  <1> DEFINE n == join[j]
  <1>1. /\ pc[j] = "startHB" /\ pc[j] \in Busy /\ pc[j] \in JoinBody
        /\ pc[j] \in Unstarted /\ pc[j] \in Serving
      BY DEF StartHB, Busy, JoinBody, Unstarted, Serving
  <1>2. n \in 1..generation /\ pc[n] = "none"
      BY <1>1 DEF IInv, FreshInv
  <1>3. n \in Joins /\ n \in Joiners /\ n # j
    <2>1. generation \in 0..MaxJoins
        BY DEF TypeInv, TypeOK
    <2> QED  BY <1>1, <1>2, <2>1, BoundsAssumption DEF Joins, Joiners
  <1>4. Alone(j)
      BY <1>1, BusyAlone DEF IInv
  <1>5. /\ pc'[j] = "stopAC" /\ pc'[n] = "waiting"
        /\ \A k \in Joiners \ {j, n} : pc'[k] = pc[k]
      BY <1>3 DEF StartHB, TypeInv
  <1>6. /\ heartbeatCancel' = n
        /\ UNCHANGED <<assignment, groupSession, autoCommitCancel, join, wanted, revoked,
                       assigned, committer, stopHeartbeat, stopCommit, held, generation,
                       closed, manual, assignUsed, overlapped>>
      BY DEF StartHB
  <1>7. \A k \in Joiners \ {j} : pc'[k] \notin Busy /\ pc[k] \notin Busy
      BY <1>4, <1>5 DEF Alone, Busy, JoinBody, Asking, Notifying, Stopping
  <1>8. heartbeatCancel = 0 /\ groupSession = n
      BY <1>1 DEF IInv, ProgressInv
  <1>9. OneBusy'
      BY <1>7 DEF OneBusy
  <1>10. FreshInv'
    <2>1. \A k \in Joiners : pc'[k] \notin Unstarted
        BY <1>5, <1>7 DEF Busy, JoinBody, Asking, Notifying, Unstarted
    <2>2. ASSUME NEW m \in Joins, m > generation
          PROVE  pc'[m] = "none"
      <3>1. pc[m] = "none"
          BY <2>2 DEF IInv, FreshInv
      <3>2. m # n /\ m # j /\ m \in Joiners
        <4>1. generation \in Nat
            BY BoundsAssumption DEF TypeInv, TypeOK
        <4>2. m # n
            BY <1>2, <2>2, <4>1 DEF Joins
        <4> QED  BY <1>1, <3>1, <4>2 DEF Joiners
      <3> QED  BY <1>5, <3>1, <3>2
    <2> QED  BY <1>6, <2>1, <2>2 DEF FreshInv
  <1>11. LoopInv'
    <2>1. Heartbeating = {}
        BY <1>8, NoZeroLoop DEF IInv
    <2>2. Heartbeating' \subseteq {n}
        BY <1>1, <1>5, <1>6, <2>1 DEF Heartbeating, Joiners
    <2>3. Committing' = Committing
        BY <1>6 DEF Committing
    <2> QED  BY <1>6, <2>2, <2>3 DEF IInv, LoopInv
  <1>12. ProgressInv'
      BY <1>5, <1>6, <1>7, <1>8 DEF ProgressInv, Busy, JoinBody, Stopping, Serving
  <1>13. SessionInv'
      BY <1>5 DEF SessionInv, Serving
  <1>14. ~closed /\ ManualInv'
      BY <1>1, <1>6, ManualKeptByJoin DEF IInv, ClosedInv, Joining
  <1>15. ClosedInv'
      BY <1>6, <1>14 DEF ClosedInv
  <1>16. ~assignUsed' => HeldInv'
    <2>1. \A k \in Joiners : pc'[k] \notin Notifying /\ pc[k] \notin Notifying
        BY <1>1, <1>5, <1>7 DEF Busy, JoinBody, Notifying
    <2> QED  BY <1>6, <2>1 DEF IInv, HeldInv, Notifying
  <1> QED
      BY <1>9, <1>10, <1>11, <1>12, <1>13, <1>14, <1>15, <1>16 DEF IInv

LEMMA StartACStep ==
    ASSUME TypeInv, IInv, ~overlapped, NEW j \in Joiners, StartAC(j)
    PROVE  IInv'
  <1> USE DEF joinerVars, historyVars
  <1>1. /\ pc[j] = "startAC" /\ pc[j] \in Busy /\ pc[j] \in JoinBody
        /\ pc[j] \notin Notifying /\ pc[j] \in Serving /\ pc[j] \notin {"none", "ended"}
      BY DEF StartAC, Busy, JoinBody, Asking, Notifying, Serving
  <1>2. PICK l \in {"idle", "waiting"} : Move(j, l)
      BY <1>1, ReturnMoves DEF StartAC
  <1>3. l \notin Notifying /\ l \notin Unstarted /\ l \notin Busy
      BY DEF Busy, JoinBody, Asking, Notifying, Unstarted, Serving, Stopping
  <1>4. Alone(j)
      BY <1>1, BusyAlone DEF IInv
  <1>5. /\ autoCommitCancel' = join[j]
        /\ committer' = [committer EXCEPT ![join[j]] = "running"]
        /\ UNCHANGED <<assignment, groupSession, heartbeatCancel, join, wanted, revoked,
                       assigned, stopHeartbeat, stopCommit, held, generation, closed,
                       manual, assignUsed, overlapped>>
      BY DEF StartAC
  <1>6. /\ groupSession = join[j] /\ heartbeatCancel = groupSession
        /\ autoCommitCancel = 0
      BY <1>1 DEF IInv, ProgressInv
  <1>7. OneBusy' /\ FreshInv'
      BY <1>2, <1>3, <1>4, <1>5, OneBusyKept, FreshKept DEF IInv
  <1>8. LoopInv'
    <2>1. Committing = {}
        BY <1>6, NoZeroLoop DEF IInv
    <2>2. committer \in [Joins -> {"none", "running", "ended"}]
        BY DEF TypeInv, TypeOK
    <2>3. Committing' \subseteq {join[j]}
        BY <1>5, <2>1, <2>2 DEF Committing
    <2>4. Heartbeating' \subseteq Heartbeating
        BY <1>2, <1>5, RunningKept DEF Heartbeating
    <2> QED  BY <1>5, <2>3, <2>4 DEF IInv, LoopInv
  <1>9. \A k \in Joiners : pc'[k] \notin Busy
      BY <1>2, <1>3, <1>4 DEF Move, Alone
  <1>10. ProgressInv'
      BY <1>9 DEF ProgressInv, Busy, JoinBody, Stopping, Serving
  <1>11. SessionInv'
      BY <1>5, <1>6 DEF SessionInv
  <1>12. ~closed /\ ManualInv'
      BY <1>1, <1>5, ManualKeptByJoin DEF IInv, ClosedInv, Joining
  <1>13. ClosedInv'
      BY <1>5, <1>12 DEF ClosedInv
  <1>14. ~assignUsed' => HeldInv'
      BY <1>1, <1>2, <1>3, <1>5, HeldKept DEF IInv
  <1> QED
      BY <1>7, <1>8, <1>10, <1>11, <1>12, <1>13, <1>14 DEF IInv

LEMMA AssignSetStep ==
    ASSUME TypeInv, IInv, ~overlapped, NEW c \in Callers, AssignSet(c)
    PROVE  IInv'
  <1> USE DEF joinerVars
  <1>1. /\ c \in Joiners /\ pc[c] = "assignSet" /\ pc[c] \in Busy
        /\ pc[c] \notin {"none", "ended"}
      BY DEF AssignSet, Busy, Stopping, Joiners
  <1>2. PICK l \in {"idle", "waiting"} : Move(c, l)
      BY <1>1, ReturnMoves DEF AssignSet
  <1>3. l \notin Unstarted /\ l \notin Busy
      BY DEF Busy, JoinBody, Asking, Notifying, Unstarted, Serving, Stopping
  <1>4. Alone(c)
      BY <1>1, BusyAlone DEF IInv
  <1>5. /\ assignment' = manual' /\ groupSession' = 0 /\ ~subscribed' /\ assignUsed'
        /\ UNCHANGED <<heartbeatCancel, autoCommitCancel, join, wanted, revoked, assigned,
                       loopVars, held, generation, closed, overlapped>>
      BY DEF AssignSet
  <1>6. heartbeatCancel = 0 /\ autoCommitCancel = 0
      BY <1>1 DEF IInv, ProgressInv
  <1>7. OneBusy' /\ FreshInv'
      BY <1>1, <1>2, <1>3, <1>4, <1>5, OneBusyKept, FreshKept DEF IInv
  <1>8. LoopInv' /\ Heartbeating' \subseteq Heartbeating /\ Committing' \subseteq Committing
      BY <1>1, <1>2, <1>5, LoopsKept DEF IInv
  <1>9. \A k \in Joiners : pc'[k] \notin Busy
      BY <1>2, <1>3, <1>4 DEF Move, Alone
  <1>10. ProgressInv'
      BY <1>9 DEF ProgressInv, Busy, JoinBody, Stopping, Serving
  <1>11. SessionInv'
      BY <1>5, <1>6 DEF SessionInv
  <1>12. ClosedInv'
      BY <1>1, <1>2, <1>3, <1>5, <1>8, ClosedKept DEF IInv, Busy
  <1>13. ManualInv'
    <2>1. Joining' = {}
        BY <1>9 DEF Joining, Busy
    <2> QED  BY <1>5, <2>1 DEF ManualInv
  <1> QED
      BY <1>5, <1>7, <1>8, <1>10, <1>11, <1>12, <1>13 DEF IInv

-----------------------------------------------------------------------------
LEMMA InvStep == TypeInv /\ IInv /\ [Next]_vars => IInv'
  <1> SUFFICES ASSUME TypeInv, IInv, [Next]_vars
               PROVE  IInv'
      OBVIOUS
  <1>1. ASSUME NEW j \in Joiners, InstallSession(j) \/ StopHB(j) \/ StopAC(j)
                                  \/ StartHB(j) \/ StartAC(j)
        PROVE  IInv'
    <2>1. overlapped' = overlapped
        BY <1>1 DEF InstallSession, StopHB, StopAC, StartHB, StartAC, historyVars
    <2>2. CASE overlapped
        BY <2>1, <2>2 DEF IInv
    <2>3. CASE ~overlapped
        BY <1>1, <2>3, InstallSessionStep, StopHBStep, StopACStep, StartHBStep, StartACStep
    <2> QED  BY <2>2, <2>3
  <1>2. ASSUME NEW c \in Callers, AssignSet(c)
        PROVE  IInv'
    <2>1. overlapped' = overlapped
        BY <1>2 DEF AssignSet
    <2>2. CASE overlapped
        BY <2>1, <2>2 DEF IInv
    <2>3. CASE ~overlapped
        BY <1>2, <2>3, AssignSetStep
    <2> QED  BY <2>2, <2>3
  <1>3. ASSUME NEW c \in Callers, Begin(c) \/ Continue(c)
        PROVE  IInv'
      BY <1>2, <1>3, ApplicationStep DEF Continue
  <1>4. ASSUME NEW j \in Joiners, JoinStep(j)
        PROVE  IInv'
      BY <1>1, <1>4, RejoinStep, AskingStep, NotifyingStep DEF JoinStep
  <1>5. CASE (\E n \in Joins : Loop(n)) \/ Elapse \/ UNCHANGED vars
      BY <1>5, LoopStep
  <1> QED
      BY <1>3, <1>4, <1>5 DEF Next

THEOREM Invariance == Spec => [](TypeInv /\ IInv)
  BY TypeInit, InvInit, TypeStep, InvStep, PTL DEF Spec

(* No heartbeat and no commit loop goes on after Close, whatever was under *)
(* way, unless it overlapped a join (Close, consumer.go:400).              *)
THEOREM CloseIsQuiet == Spec => []CloseStopsWork
  <1>1. TypeInv /\ IInv => CloseStopsWork
      BY DEF IInv, ClosedInv, CloseStopsWork
  <1> QED
      BY Invariance, <1>1, PTL

(* Each generation's loops end the ones before, so that one session alone  *)
(* heartbeats and commits (startHeartbeatLoop and startAutoCommitLoop).    *)
THEOREM OneSession == Spec => []LoopsServeSession
  <1>1. TypeInv /\ IInv => LoopsServeSession
    <2> SUFFICES ASSUME TypeInv, IInv, ~overlapped
                 PROVE  LoopsServeSession
        BY DEF LoopsServeSession
    <2>1. LoopInv /\ SessionInv
        BY DEF IInv
    <2>2. ASSUME Joining \cup Leaving = {}
          PROVE  \A j \in Joiners : pc[j] \notin Serving
        BY <2>2 DEF Joining, JoinBody, Serving
    <2>3. 0 \notin Heartbeating \cup Committing
        BY BoundsAssumption DEF Heartbeating, Committing, Joins
    <2> QED  BY <2>1, <2>2, <2>3 DEF LoopsServeSession, LoopInv, SessionInv
  <1> QED
      BY Invariance, <1>1, PTL

(* An Assign holds until the application joins a group again (Assign).     *)
THEOREM ManualHolds == Spec => []ManualStays
  <1>1. TypeInv /\ IInv => ManualStays
    <2> SUFFICES ASSUME TypeInv, IInv, ~overlapped, manual # {}
                 PROVE  ManualStays
        BY DEF ManualStays
    <2>1. ManualInv /\ LoopInv /\ SessionInv
        BY DEF IInv
    <2>2. \A j \in Joiners : pc[j] \notin Serving
        BY <2>1 DEF ManualInv, Joining, JoinBody, Serving
    <2>3. heartbeatCancel = 0
        BY <2>1, <2>2 DEF ManualInv, SessionInv
    <2>4. Heartbeating = {}
        BY <2>1, <2>3, NoZeroLoop
    <2> QED  BY <2>1, <2>4 DEF ManualInv, ManualStays
  <1> QED
      BY Invariance, <1>1, PTL

(* The listener can add up what it is told (notifyPartitionsRevoked and    *)
(* notifyPartitionsAssigned in assignWithOffsets).                         *)
THEOREM ListenerAddsUp == Spec => []ListenerFollows
  <1>1. TypeInv /\ IInv => ListenerFollows
      BY DEF IInv, HeldInv, ListenerFollows
  <1> QED
      BY Invariance, <1>1, PTL

=============================================================================
