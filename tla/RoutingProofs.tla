--------------------------- MODULE RoutingProofs ---------------------------
(***************************************************************************)
(* Proofs about how a client finds a broker: MetadataManager, which knows  *)
(* the leaders of partitions, and CoordinatorClient, which looks for the   *)
(* coordinator of a group; for any calls, topics, partitions, brokers and  *)
(* epochs.                                                                 *)
(*                                                                         *)
(* RefreshedRoute: a response that is installed between a call's own       *)
(* update and its second look belongs to a refresh that was under way when *)
(* the call's began, or that began later; either way the broker answered   *)
(* it from epochs no older than those in overlap.                          *)
(* CreatesOnlyMissing: a response names every partition that was there     *)
(* when its refresh began and has kept its leader, and so does the cache   *)
(* until another call's response or Invalidate takes the routes away.      *)
(* KeysStayWhileLed: while every leader is kept the cache knows all the    *)
(* partitions of a topic or none.                                          *)
(***************************************************************************)
EXTENDS MetadataManager, CoordinatorClient, FiniteSetTheorems, TLAPS

(* Nothing in the client is ahead of the cluster, and epochs only grow.    *)
PublishedInv ==
    /\ \A tp \in TopicPartition : routes[tp] <= epoch[tp]
    /\ \A c \in Calls, tp \in TopicPartition :
           /\ pc[c] = "answered" => answer[c].routes[tp] <= epoch[tp]
           /\ pc[c] \in {"asking", "answered"} => began[c][tp] <= epoch[tp]
    /\ \A c \in Calls : pc[c] = "using" => route[c] <= epoch[Own(c)]
    /\ \A c \in Calls : \A e \in overlap[c] : e <= epoch[Own(c)]

(* A response is no older than its refresh.                                *)
AnswerInv ==
    \A c \in Calls, tp \in TopicPartition :
        pc[c] = "answered" =>
            answer[c].routes[tp] = 0 \/ began[c][tp] <= answer[c].routes[tp]

(* A refresh under way began no earlier than what overlap says, whichever  *)
(* call looks; this is what makes ReadInv inductive.                       *)
Seeking(c) == pc[c] \in {"asking", "answered", "reading"}

SeekInv ==
    \A c \in Calls :
        Seeking(c) =>
            /\ overlap[c] # {}
            /\ \A d \in Refreshing : \E e \in overlap[c] : e <= began[d][Own(c)]

(* The route a call is about to read after its refresh.                    *)
ReadInv ==
    \A c \in Calls :
        pc[c] = "reading" =>
            routes[Own(c)] = 0 \/ \E e \in overlap[c] : e <= routes[Own(c)]

(* Route looks at the cache in the first attempt only.                     *)
StageInv ==
    \A c \in Calls :
        (pc[c] \in {"idle", "lookup"} /\ req[c].op = "list") => stage[c] = 1

(* A refused call is over, and what it is measured by was recorded.        *)
RefusedInv ==
    \A c \in Calls : result[c] = "notleader" => pc[c] = "done" /\ overlap[c] # {}

FreshInv == PublishedInv /\ AnswerInv /\ SeekInv /\ ReadInv /\ RefreshedRoute
IInv == TypeOK /\ FreshInv /\ StageInv /\ RefusedInv /\ RefusedOnlyOnChange

-----------------------------------------------------------------------------
LEMMA OwnPartition == TypeOK => \A c \in Calls : Own(c) \in TopicPartition
BY DEF TypeOK, Own, Request, TopicPartition

LEMMA EpochsAreNumbers == Epochs \subseteq Nat /\ 0 \in Epochs /\ 1 \in Epochs
BY SizeAssumption DEF Epochs

(* The fields of the variables and the step a call takes.                  *)
LEMMA BeginRefreshEffect ==
    ASSUME TypeOK, NEW c \in Calls, BeginRefresh(c)
    PROVE  /\ pc' = [pc EXCEPT ![c] = "asking"] /\ pc' \in [Calls -> Phases]
           /\ try' \in [Calls -> Nat]
           /\ began' = [began EXCEPT ![c] = epoch]
           /\ began' \in [Calls -> [TopicPartition -> Epochs]]
           /\ overlap' = [overlap EXCEPT ![c] =
                  {epoch[Own(c)]} \cup {began[d][Own(c)] : d \in Refreshing}]
           /\ overlap' \in [Calls -> SUBSET Epochs]
<1>1. {epoch[Own(c)]} \cup {began[d][Own(c)] : d \in Refreshing} \subseteq Epochs
  BY OwnPartition DEF TypeOK, Refreshing
<1>. QED BY <1>1 DEF BeginRefresh, Goto, TypeOK, Phases

LEMMA GotoEffect ==
    ASSUME TypeOK, NEW c \in Calls, NEW phase \in Phases, Goto(c, phase)
    PROVE  pc' \in [Calls -> Phases]
BY DEF Goto, TypeOK

LEMMA ReturnEffect ==
    ASSUME TypeOK, NEW c \in Calls, NEW outcome \in Outcomes, Return(c, outcome)
    PROVE  pc' \in [Calls -> Phases] /\ result' \in [Calls -> Outcomes]
BY DEF Return, Goto, TypeOK, Phases

LEMMA TopicEnsuredEffect ==
    ASSUME TypeOK, NEW c \in Calls, TopicEnsured(c)
    PROVE  /\ pc' \in [Calls -> Phases] /\ result' \in [Calls -> Outcomes]
           /\ chosen' \in [Calls -> Partitions] /\ stage' \in [Calls -> 1 .. 3]
<1>1. CASE req[c].partition # 0
  <2>1. req[c].partition \in Partitions
    BY DEF TypeOK, Request
  <2>. QED BY <1>1, <2>1, ReturnEffect DEF TopicEnsured, TypeOK, Outcomes
<1>2. CASE req[c].partition = 0
  <2>1. pc' \in [Calls -> Phases]
    BY <1>2, GotoEffect DEF TopicEnsured, Phases
  <2>2. stage' \in [Calls -> 1 .. 3]
    <3>1. stage' = [stage EXCEPT ![c] = 3]
      BY <1>2 DEF TopicEnsured
    <3>. QED BY <3>1 DEF TypeOK
  <2>. QED BY <1>2, <2>1, <2>2 DEF TopicEnsured, TypeOK
<1>. QED BY <1>1, <1>2

LEMMA InitType == Init => TypeOK
<1>. SUFFICES ASSUME Init PROVE TypeOK
  OBVIOUS
<1>1. NoRoutes \in [TopicPartition -> Epochs]
  BY EpochsAreNumbers DEF NoRoutes
<1>2. NoAnswer \in [routes: [TopicPartition -> Epochs], topics: SUBSET Topics]
  BY <1>1 DEF NoAnswer
<1>3. epoch \in [TopicPartition -> Epochs]
  BY EpochsAreNumbers DEF Init
<1>4. req \in [Calls -> Request]
  BY ConstantsAssumption DEF Init
<1>. QED BY <1>1, <1>2, <1>3, <1>4, EpochsAreNumbers, SizeAssumption
     DEF Init, TypeOK, Phases, Outcomes

LEMMA NextType == TypeOK /\ [Next]_vars => TypeOK'
<1>. SUFFICES ASSUME TypeOK, [Next]_vars PROVE TypeOK'
  OBVIOUS
<1>1. ASSUME NEW c \in Calls, Start(c) PROVE TypeOK'
  BY <1>1 DEF Start, Goto, TypeOK, cluster, history, Phases
<1>2. ASSUME NEW c \in Calls, TakeRoute(c) PROVE TypeOK'
  <2>1. routes[Own(c)] \in Epochs
    BY OwnPartition DEF TypeOK
  <2>2. pc' \in [Calls -> Phases] /\ route' \in [Calls -> Epochs]
    BY <1>2, <2>1 DEF TakeRoute, Goto, TypeOK, Phases
  <2>. QED BY <1>2, <2>2 DEF TakeRoute, TypeOK, cluster, history
<1>3. ASSUME NEW c \in Calls, EnsureTopic(c) PROVE TypeOK'
  <2>1. TopicEnsured(c)
    BY <1>3 DEF EnsureTopic
  <2>. QED BY <1>3, <2>1, TopicEnsuredEffect DEF EnsureTopic, TypeOK, cluster, history
<1>4. ASSUME NEW c \in Calls, SelectPartition(c) PROVE TypeOK'
  <2>1. chosen' \in [Calls -> Partitions]
    BY <1>4 DEF SelectPartition, TypeOK
  <2>2. pc' \in [Calls -> Phases] /\ result' \in [Calls -> Outcomes]
    BY <1>4, ReturnEffect DEF SelectPartition, Outcomes
  <2>. QED BY <1>4, <2>1, <2>2 DEF SelectPartition, TypeOK, cluster, history
<1>5. ASSUME NEW c \in Calls, Refresh(c) PROVE TypeOK'
  <2>1. BeginRefresh(c)
    BY <1>5 DEF Refresh
  <2>. QED BY <1>5, <2>1, BeginRefreshEffect DEF Refresh, TypeOK, cluster
<1>6. ASSUME NEW c \in Calls, StillMissing(c) PROVE TypeOK'
  <2>1. /\ pc' \in [Calls -> Phases] /\ result' \in [Calls -> Outcomes]
        /\ try' \in [Calls -> Nat]
    <3>1. CASE req[c].op = "send" /\ stage[c] = 1
      <4>1. /\ Goto(c, "creating") /\ try' = [try EXCEPT ![c] = 1]
            /\ UNCHANGED result
        BY <1>6, <3>1 DEF StillMissing
      <4>2. pc' \in [Calls -> Phases]
        BY <4>1, GotoEffect DEF Phases
      <4>. QED BY <4>1, <4>2 DEF TypeOK
    <3>2. CASE ~(req[c].op = "send" /\ stage[c] = 1)
      BY <1>6, <3>2, ReturnEffect DEF StillMissing, TypeOK, Outcomes
    <3>. QED BY <3>1, <3>2
  <2>. QED BY <1>6, <2>1 DEF StillMissing, TypeOK, cluster, history
<1>7. ASSUME NEW c \in Calls, Answer(c) PROVE TypeOK'
  <2>. DEFINE given == [tp \in TopicPartition |->
                           IF tp[1] \in req[c].topics /\ tp \notin leaderless
                           THEN epoch[tp] ELSE 0]
              known == {t \in req[c].topics : epoch[<<t, 0>>] # 0}
  <2>1. given \in [TopicPartition -> Epochs]
    BY EpochsAreNumbers DEF TypeOK
  <2>2. known \in SUBSET Topics
    BY DEF TypeOK, Request
  <2>3. answer' = [answer EXCEPT ![c] = [routes |-> given, topics |-> known]]
    BY <1>7 DEF Answer
  <2>. HIDE DEF given, known
  <2>4. answer' \in [Calls -> [routes: [TopicPartition -> Epochs], topics: SUBSET Topics]]
    BY <2>1, <2>2, <2>3 DEF TypeOK
  <2>5. pc' \in [Calls -> Phases]
    BY <1>7, GotoEffect DEF Answer, Phases
  <2>. QED BY <1>7, <2>4, <2>5 DEF Answer, TypeOK, cluster, history
<1>8. ASSUME NEW c \in Calls, AskFails(c) PROVE TypeOK'
  <2>1. /\ pc' \in [Calls -> Phases] /\ result' \in [Calls -> Outcomes]
        /\ try' \in [Calls -> Nat]
    <3>1. CASE try[c] < Bootstraps
      <4>1. try' = [try EXCEPT ![c] = @ + 1] /\ UNCHANGED <<pc, result>>
        BY <1>8, <3>1 DEF AskFails
      <4>. QED BY <4>1 DEF TypeOK
    <3>2. CASE ~(try[c] < Bootstraps)
      BY <1>8, <3>2, ReturnEffect DEF AskFails, TypeOK, Outcomes
    <3>. QED BY <3>1, <3>2
  <2>. QED BY <1>8, <2>1 DEF AskFails, TypeOK, cluster, history
<1>9. ASSUME NEW c \in Calls, Update(c) PROVE TypeOK'
  <2>1. routes' \in [TopicPartition -> Epochs]
    BY <1>9 DEF Update, Updated, TypeOK
  <2>2. NoAnswer \in [routes: [TopicPartition -> Epochs], topics: SUBSET Topics]
    BY EpochsAreNumbers DEF NoAnswer, NoRoutes
  <2>3. answer' \in [Calls -> [routes: [TopicPartition -> Epochs], topics: SUBSET Topics]]
    BY <1>9, <2>2 DEF Update, TypeOK
  <2>4. /\ pc' \in [Calls -> Phases] /\ result' \in [Calls -> Outcomes]
        /\ chosen' \in [Calls -> Partitions] /\ stage' \in [Calls -> 1 .. 3]
        /\ try' \in [Calls -> Nat]
    <3>1. CASE Goto(c, "reading") /\ UNCHANGED <<stage, try, chosen, result>>
      BY <3>1, GotoEffect DEF TypeOK, Phases
    <3>2. CASE TopicEnsured(c) /\ UNCHANGED try
      BY <3>2, TopicEnsuredEffect DEF TypeOK
    <3>3. CASE Return(c, "ok") /\ UNCHANGED <<stage, try, chosen>>
      BY <3>3, ReturnEffect DEF TypeOK, Outcomes
    <3>4. CASE /\ Goto(c, "creating") /\ try' = [try EXCEPT ![c] = 1]
               /\ UNCHANGED <<stage, chosen, result>>
      BY <3>4, GotoEffect DEF TypeOK, Phases
    <3>. QED BY <1>9, <3>1, <3>2, <3>3, <3>4 DEF Update
  <2>5. replaced' \subseteq Calls
    BY <1>9 DEF Update, TakenFrom, TypeOK
  <2>. QED BY <1>9, <2>1, <2>3, <2>4, <2>5 DEF Update, TypeOK, cluster
<1>10. ASSUME NEW c \in Calls, LeaderAccepts(c) \/ LeaderRefuses(c) \/ RequestFails(c)
       PROVE  TypeOK'
  <2>1. pc' \in [Calls -> Phases] /\ result' \in [Calls -> Outcomes]
    BY <1>10, ReturnEffect DEF LeaderAccepts, LeaderRefuses, RequestFails, Outcomes
  <2>. QED BY <1>10, <2>1
       DEF LeaderAccepts, LeaderRefuses, RequestFails, TypeOK, cluster, history
<1>11. ASSUME NEW c \in Calls, SecondAttempt(c) PROVE TypeOK'
  <2>1. BeginRefresh(c) /\ stage' \in [Calls -> 1 .. 3]
    BY <1>11 DEF SecondAttempt, TypeOK
  <2>. QED BY <1>11, <2>1, BeginRefreshEffect DEF SecondAttempt, TypeOK, cluster
<1>12. ASSUME NEW c \in Calls, CreateTopic(c) PROVE TypeOK'
  <2>1. pc' \in [Calls -> Phases] /\ try' \in [Calls -> Nat]
    BY <1>12, GotoEffect DEF CreateTopic, TypeOK, Phases
  <2>. QED BY <1>12, <2>1 DEF CreateTopic, TypeOK, cluster, history
<1>13. ASSUME NEW c \in Calls, CreateAgain(c)
       PROVE  /\ pc' \in [Calls -> Phases] /\ result' \in [Calls -> Outcomes]
              /\ try' \in [Calls -> Nat]
  <2>1. CASE try' = [try EXCEPT ![c] = @ + 1] /\ UNCHANGED <<pc, result>>
    BY <2>1 DEF TypeOK
  <2>2. CASE Return(c, "error") /\ UNCHANGED try
    BY <2>2, ReturnEffect DEF TypeOK, Outcomes
  <2>. QED BY <1>13, <2>1, <2>2 DEF CreateAgain
<1>14. ASSUME NEW c \in Calls, BrokerCreates(c) PROVE TypeOK'
  <2>1. epoch' \in [TopicPartition -> Epochs]
    BY <1>14, EpochsAreNumbers DEF BrokerCreates, TypeOK
  <2>2. /\ pc' \in [Calls -> Phases] /\ result' \in [Calls -> Outcomes]
        /\ try' \in [Calls -> Nat]
    <3>1. CASE Goto(c, "created") /\ UNCHANGED <<try, result>>
      BY <3>1, GotoEffect DEF TypeOK, Phases
    <3>2. CASE Return(c, "error") /\ UNCHANGED try
      BY <3>2, ReturnEffect DEF TypeOK, Outcomes
    <3>. QED BY <1>13, <1>14, <3>1, <3>2 DEF BrokerCreates
  <2>. QED BY <1>14, <2>1, <2>2 DEF BrokerCreates, TypeOK, history
<1>15. ASSUME NEW c \in Calls, CreateFails(c) PROVE TypeOK'
  BY <1>13, <1>15 DEF CreateFails, TypeOK, cluster, history
<1>16. ASSUME NEW c \in Calls, Invalidate(c) PROVE TypeOK'
  <2>1. routes' \in [TopicPartition -> Epochs]
    BY <1>16, EpochsAreNumbers DEF Invalidate, TypeOK
  <2>2. CASE req[c].op = "send"
    <3>1. BeginRefresh(c) /\ stage' = [stage EXCEPT ![c] = 2] /\ UNCHANGED result
      BY <1>16, <2>2 DEF Invalidate
    <3>2. stage' \in [Calls -> 1 .. 3]
      BY <3>1 DEF TypeOK
    <3>. QED BY <3>2, <1>16, <2>1, <3>1, BeginRefreshEffect DEF Invalidate, TypeOK, cluster
  <2>3. CASE req[c].op # "send"
    <3>1. Return(c, "ok") /\ UNCHANGED <<stage, try, began, overlap>>
      BY <1>16, <2>3 DEF Invalidate
    <3>2. replaced' \subseteq Calls
      BY <1>16 DEF Invalidate, TypeOK
    <3>. QED BY <1>16, <2>1, <3>1, <3>2, ReturnEffect DEF Invalidate, TypeOK, cluster, Outcomes
  <2>. QED BY <2>2, <2>3
<1>17. ASSUME NEW tp \in TopicPartition, LoseLeader(tp) PROVE TypeOK'
  BY <1>17 DEF LoseLeader, TypeOK, history
<1>18. ASSUME NEW tp \in TopicPartition, ElectLeader(tp) PROVE TypeOK'
  <2>1. epoch[tp] + 1 \in Epochs
    BY <1>18, SizeAssumption DEF ElectLeader, TypeOK, Epochs
  <2>. QED BY <1>18, <2>1 DEF ElectLeader, TypeOK, history
<1>19. CASE UNCHANGED vars
  BY <1>19 DEF vars, cluster, history, TypeOK
<1>. QED BY <1>1, <1>2, <1>3, <1>4, <1>5, <1>6, <1>7, <1>8, <1>9, <1>10, <1>11, <1>12,
            <1>14, <1>15, <1>16, <1>17, <1>18, <1>19 DEF Next, Step

-----------------------------------------------------------------------------
(* For FreshInv there are five kinds of steps.  The first: nothing but     *)
(* epochs that grow, routes that are forgotten and calls that go elsewhere. *)
Forgetting == \A tp \in TopicPartition : routes'[tp] = routes[tp] \/ routes'[tp] = 0

Quiet ==
    /\ UNCHANGED <<req, answer, route, began, overlap>>
    /\ \A d \in Calls : \/ pc'[d] = pc[d] /\ (pc[d] = "using" => stage'[d] = stage[d])
                        \/ pc'[d] \notin {"asking", "answered", "reading", "using"}
    /\ \A tp \in TopicPartition : epoch[tp] <= epoch'[tp]
    /\ Forgetting

(* A refresh begins, in Refresh, SecondAttempt and Invalidate.             *)
Begins(c) ==
    /\ BeginRefresh(c)
    /\ UNCHANGED <<epoch, req, answer, route>>
    /\ \A d \in Calls \ {c} : stage'[d] = stage[d]
    /\ Forgetting

LEMMA GotoQuiet ==
    ASSUME TypeOK, NEW c \in Calls, NEW phase, Goto(c, phase),
           phase \notin {"asking", "answered", "reading", "using"}
    PROVE  \A d \in Calls : \/ d # c /\ pc'[d] = pc[d]
                            \/ d = c /\ pc'[d] \notin {"asking", "answered", "reading", "using"}
BY DEF Goto, TypeOK

LEMMA ReturnQuiet ==
    ASSUME TypeOK, NEW c \in Calls, NEW outcome, Return(c, outcome)
    PROVE  \A d \in Calls : \/ d # c /\ pc'[d] = pc[d]
                            \/ d = c /\ pc'[d] \notin {"asking", "answered", "reading", "using"}
BY GotoQuiet DEF Return

LEMMA EpochsSame ==
    TypeOK => \A tp \in TopicPartition : epoch[tp] \in Nat /\ epoch[tp] <= epoch[tp]
<1>1. TypeOK => \A tp \in TopicPartition : epoch[tp] \in Nat
  BY EpochsAreNumbers DEF TypeOK
<1>. QED BY <1>1

LEMMA StepKinds ==
    TypeOK /\ [Next]_vars =>
        \/ Quiet
        \/ \E c \in Calls : Begins(c) \/ Answer(c) \/ Update(c) \/ TakeRoute(c)
<1>. SUFFICES ASSUME TypeOK, [Next]_vars
              PROVE  \/ Quiet
                     \/ \E c \in Calls : Begins(c) \/ Answer(c) \/ Update(c) \/ TakeRoute(c)
  OBVIOUS
<1>. USE EpochsSame
<1>1. ASSUME NEW c \in Calls, Start(c) \/ CreateTopic(c) PROVE Quiet
  <2>1. PICK phase \in {"lookup", "creating"} : Goto(c, phase)
    BY <1>1 DEF Start, CreateTopic
  <2>. QED BY <1>1, <2>1, GotoQuiet
       DEF Start, CreateTopic, Quiet, Forgetting, cluster, history
<1>2. ASSUME NEW c \in Calls, EnsureTopic(c) PROVE Quiet
  <2>1. (\E o : Return(c, o) /\ UNCHANGED stage)
        \/ (Goto(c, "lookup") /\ stage' = [stage EXCEPT ![c] = 3])
    BY <1>2 DEF EnsureTopic, TopicEnsured
  <2>2. \A d \in Calls : \/ pc'[d] = pc[d] /\ (pc[d] = "using" => stage'[d] = stage[d])
                         \/ pc'[d] \notin {"asking", "answered", "reading", "using"}
    BY <2>1, GotoQuiet, ReturnQuiet DEF TypeOK
  <2>. QED BY <1>2, <2>2 DEF EnsureTopic, Quiet, Forgetting, cluster, history
<1>3. ASSUME NEW c \in Calls,
             SelectPartition(c) \/ LeaderAccepts(c) \/ LeaderRefuses(c) \/ RequestFails(c)
      PROVE  Quiet
  <2>1. \E o : Return(c, o)
    BY <1>3 DEF SelectPartition, LeaderAccepts, LeaderRefuses, RequestFails
  <2>. QED BY <1>3, <2>1, ReturnQuiet
       DEF SelectPartition, LeaderAccepts, LeaderRefuses, RequestFails, Quiet, Forgetting,
           cluster, history
<1>4. ASSUME NEW c \in Calls, StillMissing(c) PROVE Quiet
  <2>1. (\E o : Return(c, o)) \/ Goto(c, "creating")
    BY <1>4 DEF StillMissing
  <2>. QED BY <1>4, <2>1, GotoQuiet, ReturnQuiet
       DEF StillMissing, Quiet, Forgetting, cluster, history
<1>5. ASSUME NEW c \in Calls, AskFails(c) \/ CreateFails(c) PROVE Quiet
  <2>1. (\E o : Return(c, o)) \/ UNCHANGED pc
    BY <1>5 DEF AskFails, CreateFails, CreateAgain
  <2>. QED BY <1>5, <2>1, ReturnQuiet
       DEF AskFails, CreateFails, Quiet, Forgetting, cluster, history
<1>6. ASSUME NEW c \in Calls, BrokerCreates(c) PROVE Quiet
  <2>1. (\E o : Return(c, o)) \/ Goto(c, "created") \/ UNCHANGED pc
    BY <1>6 DEF BrokerCreates, CreateAgain
  <2>2. \A tp \in TopicPartition : epoch[tp] <= epoch'[tp]
    BY <1>6, EpochsAreNumbers DEF BrokerCreates, TypeOK
  <2>. QED BY <1>6, <2>1, <2>2, GotoQuiet, ReturnQuiet
       DEF BrokerCreates, Quiet, Forgetting, history
<1>7. ASSUME NEW c \in Calls, Refresh(c) \/ SecondAttempt(c) PROVE Begins(c)
  BY <1>7 DEF Refresh, SecondAttempt, Begins, Forgetting, cluster, TypeOK
<1>8. ASSUME NEW c \in Calls, Invalidate(c) PROVE Quiet \/ Begins(c)
  <2>1. Forgetting
    BY <1>8 DEF Invalidate, Forgetting
  <2>2. CASE req[c].op = "send"
    BY <1>8, <2>1, <2>2 DEF Invalidate, Begins, cluster, TypeOK
  <2>3. CASE req[c].op # "send"
    <3>1. Return(c, "ok") /\ UNCHANGED <<stage, try, began, overlap>>
      BY <1>8, <2>3 DEF Invalidate
    <3>. QED BY <1>8, <2>1, <3>1, ReturnQuiet DEF Invalidate, Quiet, cluster
  <2>. QED BY <2>2, <2>3
<1>9. ASSUME NEW tp \in TopicPartition, LoseLeader(tp) \/ ElectLeader(tp) PROVE Quiet
  <2>1. \A q \in TopicPartition : epoch[q] <= epoch'[q]
    <3>1. CASE LoseLeader(tp)
      BY <3>1 DEF LoseLeader
    <3>2. CASE ElectLeader(tp)
      BY <3>2 DEF ElectLeader, TypeOK
    <3>. QED BY <1>9, <3>1, <3>2
  <2>. QED BY <1>9, <2>1 DEF LoseLeader, ElectLeader, Quiet, Forgetting, history
<1>10. CASE UNCHANGED vars
  BY <1>10 DEF vars, cluster, history, Quiet, Forgetting
<1>. QED BY <1>1, <1>2, <1>3, <1>4, <1>5, <1>6, <1>7, <1>8, <1>9, <1>10 DEF Next, Step

-----------------------------------------------------------------------------
LEMMA Numbers ==
    TypeOK =>
        /\ \A tp \in TopicPartition : epoch[tp] \in Nat /\ routes[tp] \in Nat
        /\ \A c \in Calls, tp \in TopicPartition :
               began[c][tp] \in Nat /\ answer[c].routes[tp] \in Nat
        /\ \A c \in Calls : route[c] \in Nat /\ overlap[c] \subseteq Nat
<1>. SUFFICES ASSUME TypeOK
              PROVE  /\ \A tp \in TopicPartition : epoch[tp] \in Nat /\ routes[tp] \in Nat
                     /\ \A c \in Calls, tp \in TopicPartition :
                            began[c][tp] \in Nat /\ answer[c].routes[tp] \in Nat
                     /\ \A c \in Calls : route[c] \in Nat /\ overlap[c] \subseteq Nat
  OBVIOUS
<1>1. \A tp \in TopicPartition : epoch[tp] \in Epochs /\ routes[tp] \in Epochs
  BY DEF TypeOK
<1>2. \A c \in Calls, tp \in TopicPartition :
          began[c][tp] \in Epochs /\ answer[c].routes[tp] \in Epochs
  BY DEF TypeOK
<1>3. \A c \in Calls : route[c] \in Epochs /\ overlap[c] \subseteq Epochs
  BY DEF TypeOK
<1>. QED BY <1>1, <1>2, <1>3, EpochsAreNumbers

LEMMA QuietFresh == ASSUME TypeOK, TypeOK', FreshInv, Quiet PROVE FreshInv'
<1>. USE Numbers, OwnPartition
<1>1. \A c \in Calls : Own(c)' = Own(c) /\ Own(c) \in TopicPartition
  BY DEF Quiet, Own
<1>2. \A d \in Calls : pc'[d] \in {"asking", "answered", "reading", "using"} =>
                          pc'[d] = pc[d]
  BY DEF Quiet
<1>3. \A tp \in TopicPartition : epoch[tp] \in Nat /\ epoch'[tp] \in Nat /\ epoch[tp] <= epoch'[tp]
  <2>1. \A tp \in TopicPartition : epoch'[tp] \in Epochs
    BY DEF TypeOK
  <2>. QED BY <2>1, EpochsAreNumbers DEF Quiet
<1>4. \A tp \in TopicPartition : routes'[tp] = routes[tp] \/ routes'[tp] = 0
  BY DEF Quiet, Forgetting
<1>5. UNCHANGED <<req, answer, route, began, overlap>>
  BY DEF Quiet
<1>6. PublishedInv'
  <2>1. \A tp \in TopicPartition : routes'[tp] <= epoch'[tp]
    BY <1>3, <1>4 DEF FreshInv, PublishedInv
  <2>2. \A c \in Calls, tp \in TopicPartition :
           /\ pc'[c] = "answered" => answer'[c].routes[tp] <= epoch'[tp]
           /\ pc'[c] \in {"asking", "answered"} => began'[c][tp] <= epoch'[tp]
    BY <1>2, <1>3, <1>5 DEF FreshInv, PublishedInv
  <2>3. \A c \in Calls : /\ pc'[c] = "using" => route'[c] <= epoch'[Own(c)]
                         /\ \A e \in overlap'[c] : e <= epoch'[Own(c)]
    BY <1>1, <1>2, <1>3, <1>5 DEF FreshInv, PublishedInv
  <2>. QED BY <1>1, <2>1, <2>2, <2>3 DEF PublishedInv
<1>7. AnswerInv'
  BY <1>2, <1>5 DEF FreshInv, AnswerInv
<1>8. SeekInv'
  BY <1>1, <1>2, <1>5 DEF FreshInv, SeekInv, Seeking, Refreshing
<1>9. ReadInv'
  BY <1>1, <1>2, <1>4, <1>5 DEF FreshInv, ReadInv
<1>10. RefreshedRoute'
  <2>1. \A d \in Calls : pc'[d] = "using" => pc[d] = "using" /\ stage'[d] = stage[d]
    BY DEF Quiet
  <2>. QED BY <1>5, <2>1 DEF FreshInv, RefreshedRoute
<1>. QED BY <1>6, <1>7, <1>8, <1>9, <1>10 DEF FreshInv

LEMMA BeginsFresh ==
    ASSUME TypeOK, TypeOK', FreshInv, NEW c \in Calls, Begins(c)
    PROVE  FreshInv'
<1>. USE Numbers, OwnPartition
<1>1. \A d \in Calls : Own(d)' = Own(d) /\ Own(d) \in TopicPartition
  BY DEF Begins, Own
<1>2. /\ pc' = [pc EXCEPT ![c] = "asking"]
      /\ began' = [began EXCEPT ![c] = epoch]
      /\ overlap' = [overlap EXCEPT ![c] =
             {epoch[Own(c)]} \cup {began[d][Own(c)] : d \in Refreshing}]
  BY BeginRefreshEffect DEF Begins
<1>3. /\ pc'[c] = "asking" /\ began'[c] = epoch
      /\ overlap'[c] = {epoch[Own(c)]} \cup {began[d][Own(c)] : d \in Refreshing}
  BY <1>2 DEF TypeOK
<1>4. \A d \in Calls \ {c} : /\ pc'[d] = pc[d] /\ began'[d] = began[d]
                             /\ overlap'[d] = overlap[d] /\ stage'[d] = stage[d]
  BY <1>2 DEF TypeOK, Begins
<1>5. \A tp \in TopicPartition : routes'[tp] = routes[tp] \/ routes'[tp] = 0
  BY DEF Begins, Forgetting
<1>6. UNCHANGED <<epoch, req, answer, route>>
  BY DEF Begins
<1>7. \A e \in overlap'[c] : e <= epoch[Own(c)]
  BY <1>1, <1>3 DEF FreshInv, PublishedInv, Refreshing
<1>8. PublishedInv'
  <2>1. \A tp \in TopicPartition : routes'[tp] <= epoch'[tp]
    BY <1>5, <1>6 DEF FreshInv, PublishedInv
  <2>2. \A d \in Calls, tp \in TopicPartition :
           /\ pc'[d] = "answered" => answer'[d].routes[tp] <= epoch'[tp]
           /\ pc'[d] \in {"asking", "answered"} => began'[d][tp] <= epoch'[tp]
    BY <1>3, <1>4, <1>6 DEF FreshInv, PublishedInv
  <2>3. \A d \in Calls : /\ pc'[d] = "using" => route'[d] <= epoch'[Own(d)]
                         /\ \A e \in overlap'[d] : e <= epoch'[Own(d)]
    BY <1>3, <1>4, <1>6, <1>7 DEF FreshInv, PublishedInv
  <2>. QED BY <1>1, <2>1, <2>2, <2>3 DEF PublishedInv
<1>9. AnswerInv'
  BY <1>3, <1>4, <1>6 DEF FreshInv, AnswerInv
<1>10. SeekInv'
  <2>1. ASSUME NEW a \in Calls, Seeking(a)' PROVE overlap'[a] # {}
    BY <1>3, <1>4, <2>1 DEF FreshInv, SeekInv, Seeking
  <2>2. ASSUME NEW a \in Calls, Seeking(a)', NEW d \in Calls, pc'[d] \in {"asking", "answered"}
        PROVE  \E e \in overlap'[a] : e <= began'[d][Own(a)]
    <3>1. CASE a = c /\ d = c
      BY <1>1, <1>3, <3>1
    <3>2. CASE a = c /\ d # c
      <4>1. d \in Refreshing /\ began'[d] = began[d]
        BY <1>4, <2>2, <3>2 DEF Refreshing
      <4>2. began[d][Own(a)] \in overlap'[a] /\ began[d][Own(a)] \in Nat
        BY <1>1, <1>3, <3>2, <4>1
      <4>. QED BY <4>1, <4>2
    <3>3. CASE a # c /\ d = c
      <4>1. overlap[a] # {} /\ overlap'[a] = overlap[a]
        BY <1>4, <2>1, <2>2, <3>3
      <4>2. \A e \in overlap[a] : e <= epoch[Own(a)]
        BY DEF FreshInv, PublishedInv
      <4>. QED BY <1>3, <3>3, <4>1, <4>2
    <3>4. CASE a # c /\ d # c
      <4>1. Seeking(a) /\ d \in Refreshing
        BY <1>4, <2>2, <3>4 DEF Seeking, Refreshing
      <4>. QED BY <1>4, <3>4, <4>1 DEF FreshInv, SeekInv
    <3>. QED BY <3>1, <3>2, <3>3, <3>4
  <2>. QED BY <1>1, <2>1, <2>2 DEF SeekInv, Refreshing
<1>11. ReadInv'
  BY <1>1, <1>3, <1>4, <1>5 DEF FreshInv, ReadInv
<1>12. RefreshedRoute'
  BY <1>3, <1>4, <1>6 DEF FreshInv, RefreshedRoute
<1>. QED BY <1>8, <1>9, <1>10, <1>11, <1>12 DEF FreshInv

LEMMA AnswerFresh ==
    ASSUME TypeOK, TypeOK', FreshInv, NEW c \in Calls, Answer(c)
    PROVE  FreshInv'
<1>. USE Numbers, OwnPartition
<1>1. \A d \in Calls : Own(d)' = Own(d) /\ Own(d) \in TopicPartition
  BY DEF Answer, Own
<1>2. /\ pc[c] = "asking" /\ pc'[c] = "answered"
      /\ \A tp \in TopicPartition :
             answer'[c].routes[tp] = epoch[tp] \/ answer'[c].routes[tp] = 0
  BY DEF Answer, Goto, TypeOK
<1>3. \A d \in Calls \ {c} : pc'[d] = pc[d] /\ answer'[d] = answer[d]
  BY DEF Answer, Goto, TypeOK
<1>4. UNCHANGED <<epoch, routes, req, stage, route, began, overlap>>
  BY DEF Answer, cluster, history
<1>5. PublishedInv'
  <2>1. \A d \in Calls, tp \in TopicPartition :
           /\ pc'[d] = "answered" => answer'[d].routes[tp] <= epoch'[tp]
           /\ pc'[d] \in {"asking", "answered"} => began'[d][tp] <= epoch'[tp]
    BY <1>2, <1>3, <1>4 DEF FreshInv, PublishedInv
  <2>2. \A d \in Calls : pc'[d] = "using" => route'[d] <= epoch'[Own(d)]
    BY <1>2, <1>3, <1>4 DEF FreshInv, PublishedInv
  <2>. QED BY <1>1, <1>4, <2>1, <2>2 DEF FreshInv, PublishedInv
<1>6. AnswerInv'
  BY <1>2, <1>3, <1>4 DEF FreshInv, AnswerInv, PublishedInv
<1>7. SeekInv'
  <2>1. \A d \in Calls : /\ Seeking(d)' => Seeking(d)
                         /\ d \in Refreshing' => d \in Refreshing
    BY <1>2, <1>3 DEF Seeking, Refreshing
  <2>2. Refreshing' \subseteq Calls
    BY DEF Refreshing
  <2>. QED BY <1>1, <1>4, <2>1, <2>2 DEF FreshInv, SeekInv
<1>8. ReadInv'
  BY <1>1, <1>2, <1>3, <1>4 DEF FreshInv, ReadInv
<1>9. RefreshedRoute'
  BY <1>2, <1>3, <1>4 DEF FreshInv, RefreshedRoute
<1>. QED BY <1>5, <1>6, <1>7, <1>8, <1>9 DEF FreshInv

LEMMA UpdateFresh ==
    ASSUME TypeOK, TypeOK', FreshInv, NEW c \in Calls, Update(c)
    PROVE  FreshInv'
<1>. USE Numbers, OwnPartition
<1>1. \A d \in Calls : Own(d)' = Own(d) /\ Own(d) \in TopicPartition
  BY DEF Update, Own
<1>2. /\ pc[c] = "answered" /\ routes' = answer[c].routes
      /\ UNCHANGED <<epoch, req, route, began, overlap>>
  BY DEF Update, Updated, cluster, history
<1>3. \A d \in Calls \ {c} : pc'[d] = pc[d] /\ answer'[d] = answer[d]
  BY DEF Update, TopicEnsured, Return, Goto, TypeOK
<1>4. pc'[c] \notin {"asking", "answered", "using"}
  BY DEF Update, TopicEnsured, Return, Goto, TypeOK
<1>5. \A d \in Calls : pc'[d] = "using" => stage'[d] = stage[d]
  <2>1. \A d \in Calls \ {c} : stage'[d] = stage[d]
    BY DEF Update, TopicEnsured, TypeOK
  <2>. QED BY <1>4, <2>1
<1>6. PublishedInv'
  <2>1. \A tp \in TopicPartition : routes'[tp] <= epoch'[tp]
    BY <1>2 DEF FreshInv, PublishedInv
  <2>2. \A d \in Calls, tp \in TopicPartition :
           /\ pc'[d] = "answered" => answer'[d].routes[tp] <= epoch'[tp]
           /\ pc'[d] \in {"asking", "answered"} => began'[d][tp] <= epoch'[tp]
    BY <1>2, <1>3, <1>4 DEF FreshInv, PublishedInv
  <2>3. \A d \in Calls : /\ pc'[d] = "using" => route'[d] <= epoch'[Own(d)]
                         /\ \A e \in overlap'[d] : e <= epoch'[Own(d)]
    BY <1>2, <1>3, <1>4 DEF FreshInv, PublishedInv
  <2>. QED BY <1>1, <2>1, <2>2, <2>3 DEF PublishedInv
<1>7. AnswerInv'
  BY <1>2, <1>3, <1>4 DEF FreshInv, AnswerInv
<1>8. SeekInv'
  <2>1. \A d \in Calls : /\ Seeking(d)' => Seeking(d)
                         /\ d \in Refreshing' => d \in Refreshing
    BY <1>2, <1>3, <1>4 DEF Seeking, Refreshing
  <2>2. Refreshing' \subseteq Calls
    BY DEF Refreshing
  <2>. QED BY <1>1, <1>2, <2>1, <2>2 DEF FreshInv, SeekInv
<1>9. ReadInv'
  <2>1. SUFFICES ASSUME NEW a \in Calls, pc'[a] = "reading"
                 PROVE  answer[c].routes[Own(a)] = 0
                        \/ \E e \in overlap[a] : e <= answer[c].routes[Own(a)]
    BY <1>1, <1>2 DEF ReadInv
  <2>2. Seeking(a) /\ c \in Refreshing
    BY <1>2, <1>3, <2>1 DEF Seeking, Refreshing
  <2>3. PICK e \in overlap[a] : e <= began[c][Own(a)]
    BY <2>2 DEF FreshInv, SeekInv
  <2>4. answer[c].routes[Own(a)] = 0 \/ began[c][Own(a)] <= answer[c].routes[Own(a)]
    BY <1>1, <1>2 DEF FreshInv, AnswerInv
  <2>5. e \in Nat /\ began[c][Own(a)] \in Nat /\ answer[c].routes[Own(a)] \in Nat
    BY <1>1
  <2>. QED BY <2>3, <2>4, <2>5
<1>10. RefreshedRoute'
  BY <1>2, <1>3, <1>4, <1>5 DEF FreshInv, RefreshedRoute
<1>. QED BY <1>6, <1>7, <1>8, <1>9, <1>10 DEF FreshInv

LEMMA TakeRouteFresh ==
    ASSUME TypeOK, TypeOK', FreshInv, StageInv, NEW c \in Calls, TakeRoute(c)
    PROVE  FreshInv'
<1>. USE Numbers, OwnPartition
<1>1. \A d \in Calls : Own(d)' = Own(d) /\ Own(d) \in TopicPartition
  BY DEF TakeRoute, Own
<1>2. /\ pc[c] \in {"lookup", "reading"} /\ pc'[c] = "using"
      /\ route'[c] = routes[Own(c)] /\ routes[Own(c)] # 0 /\ req[c].op = "list"
  BY DEF TakeRoute, Goto, TypeOK, Cached
<1>3. \A d \in Calls \ {c} : pc'[d] = pc[d] /\ route'[d] = route[d]
  BY DEF TakeRoute, Goto, TypeOK
<1>4. UNCHANGED <<epoch, routes, req, stage, answer, began, overlap>>
  BY DEF TakeRoute, cluster, history
<1>5. PublishedInv'
  <2>1. \A d \in Calls, tp \in TopicPartition :
           /\ pc'[d] = "answered" => answer'[d].routes[tp] <= epoch'[tp]
           /\ pc'[d] \in {"asking", "answered"} => began'[d][tp] <= epoch'[tp]
    BY <1>2, <1>3, <1>4 DEF FreshInv, PublishedInv
  <2>2. \A d \in Calls : pc'[d] = "using" => route'[d] <= epoch'[Own(d)]
    BY <1>1, <1>2, <1>3, <1>4 DEF FreshInv, PublishedInv
  <2>. QED BY <1>1, <1>4, <2>1, <2>2 DEF FreshInv, PublishedInv
<1>6. AnswerInv'
  BY <1>2, <1>3, <1>4 DEF FreshInv, AnswerInv
<1>7. SeekInv'
  <2>1. \A d \in Calls : /\ Seeking(d)' => Seeking(d)
                         /\ d \in Refreshing' => d \in Refreshing
    BY <1>2, <1>3 DEF Seeking, Refreshing
  <2>2. Refreshing' \subseteq Calls
    BY DEF Refreshing
  <2>. QED BY <1>1, <1>4, <2>1, <2>2 DEF FreshInv, SeekInv
<1>8. ReadInv'
  BY <1>1, <1>2, <1>3, <1>4 DEF FreshInv, ReadInv
<1>9. RefreshedRoute'
  <2>1. stage[c] = 2 => \E e \in overlap[c] : e <= routes[Own(c)]
    <3>1. CASE pc[c] = "lookup"
      BY <1>2, <3>1 DEF StageInv
    <3>2. CASE pc[c] = "reading"
      BY <1>2, <3>2 DEF FreshInv, ReadInv
    <3>. QED BY <1>2, <3>1, <3>2
  <2>. QED BY <1>2, <1>3, <1>4, <2>1 DEF FreshInv, RefreshedRoute
<1>. QED BY <1>5, <1>6, <1>7, <1>8, <1>9 DEF FreshInv

-----------------------------------------------------------------------------
LEMMA StageNext == ASSUME TypeOK, StageInv, [Next]_vars PROVE StageInv'
<1>. USE DEF StageInv, TypeOK, Goto, Return, cluster, history
<1>1. ASSUME NEW c \in Calls, Step(c) PROVE StageInv'
  <2>1. CASE Start(c) \/ TakeRoute(c) \/ SelectPartition(c) \/ StillMissing(c)
    BY <2>1 DEF Start, TakeRoute, SelectPartition, StillMissing
  <2>2. CASE EnsureTopic(c)
    BY <2>2 DEF EnsureTopic, TopicEnsured
  <2>3. CASE Refresh(c) \/ SecondAttempt(c) \/ Invalidate(c)
    BY <2>3 DEF Refresh, SecondAttempt, Invalidate, BeginRefresh
  <2>4. CASE Answer(c) \/ AskFails(c)
    BY <2>4 DEF Answer, AskFails
  <2>5. CASE Update(c)
    BY <2>5 DEF Update, TopicEnsured
  <2>6. CASE LeaderAccepts(c) \/ LeaderRefuses(c) \/ RequestFails(c)
    BY <2>6 DEF LeaderAccepts, LeaderRefuses, RequestFails
  <2>7. CASE CreateTopic(c) \/ BrokerCreates(c) \/ CreateFails(c)
    BY <2>7 DEF CreateTopic, BrokerCreates, CreateFails, CreateAgain
  <2>. QED BY <1>1, <2>1, <2>2, <2>3, <2>4, <2>5, <2>6, <2>7 DEF Step
<1>2. ASSUME NEW tp \in TopicPartition, LoseLeader(tp) \/ ElectLeader(tp) PROVE StageInv'
  BY <1>2 DEF LoseLeader, ElectLeader
<1>3. CASE UNCHANGED vars
  BY <1>3 DEF vars
<1>. QED BY <1>1, <1>2, <1>3 DEF Next

(* No step but LeaderRefuses refuses a call, and none touches one that is  *)
(* over; a partition that gets a leader gets a new epoch.                  *)
Settled ==
    \A d \in Calls : /\ result'[d] = "notleader" => result[d] = "notleader"
                     /\ pc[d] = "done" => pc'[d] = "done" /\ overlap'[d] = overlap[d]

Elections ==
    \A tp \in TopicPartition :
        /\ epoch[tp] <= epoch'[tp]
        /\ tp \in leaderless => tp \in leaderless' \/ epoch[tp] < epoch'[tp]

LEMMA StepSettled == ASSUME TypeOK, NEW c \in Calls, Step(c) PROVE Settled \/ LeaderRefuses(c)
<1>. USE DEF Settled, TypeOK, Goto, Return, cluster, history
<1>1. CASE Start(c) \/ TakeRoute(c) \/ SelectPartition(c) \/ StillMissing(c)
  BY <1>1 DEF Start, TakeRoute, SelectPartition, StillMissing
<1>2. CASE EnsureTopic(c)
  BY <1>2 DEF EnsureTopic, TopicEnsured
<1>3. CASE Refresh(c) \/ SecondAttempt(c) \/ Invalidate(c)
  BY <1>3 DEF Refresh, SecondAttempt, Invalidate, BeginRefresh
<1>4. CASE Answer(c) \/ AskFails(c)
  BY <1>4 DEF Answer, AskFails
<1>5. CASE Update(c)
  BY <1>5 DEF Update, TopicEnsured
<1>6. CASE LeaderAccepts(c) \/ RequestFails(c)
  BY <1>6 DEF LeaderAccepts, RequestFails
<1>7. CASE CreateTopic(c) \/ BrokerCreates(c) \/ CreateFails(c)
  BY <1>7 DEF CreateTopic, BrokerCreates, CreateFails, CreateAgain
<1>. QED BY <1>1, <1>2, <1>3, <1>4, <1>5, <1>6, <1>7 DEF Step

LEMMA NextElections == ASSUME TypeOK, [Next]_vars PROVE Elections
<1>1. CASE UNCHANGED cluster
  BY <1>1, EpochsSame DEF cluster, Elections
<1>2. ASSUME NEW c \in Calls, BrokerCreates(c) PROVE Elections
  <2>1. \A tp \in TopicPartition : epoch[tp] <= epoch'[tp]
    BY <1>2, EpochsSame DEF BrokerCreates, TypeOK
  <2>. QED BY <1>2, <2>1 DEF BrokerCreates, Elections
<1>3. ASSUME NEW tp \in TopicPartition, LoseLeader(tp) PROVE Elections
  BY <1>3, EpochsSame DEF LoseLeader, Elections
<1>4. ASSUME NEW tp \in TopicPartition, ElectLeader(tp) PROVE Elections
  BY <1>4, EpochsSame DEF ElectLeader, Elections, TypeOK
<1>5. ASSUME NEW c \in Calls, Step(c), ~BrokerCreates(c) PROVE UNCHANGED cluster
  BY <1>5 DEF Step, Start, TakeRoute, EnsureTopic, SelectPartition, Refresh, StillMissing,
     Answer, AskFails, Update, LeaderAccepts, SecondAttempt, LeaderRefuses, RequestFails,
     CreateTopic, CreateFails, Invalidate
<1>6. CASE UNCHANGED vars
  BY <1>1, <1>6 DEF vars
<1>. QED BY <1>1, <1>2, <1>3, <1>4, <1>5, <1>6 DEF Next

LEMMA RefusedNext ==
    ASSUME IInv, TypeOK', [Next]_vars
    PROVE  RefusedInv' /\ RefusedOnlyOnChange'
<1>. USE Numbers, OwnPartition DEF IInv
<1>1. Elections
  BY NextElections
<1>2. \A d \in Calls : Own(d)' = Own(d) /\ Own(d) \in TopicPartition
  BY DEF Next, Step, Start, TakeRoute, EnsureTopic, SelectPartition, Refresh, StillMissing,
     Answer, AskFails, Update, LeaderAccepts, SecondAttempt, LeaderRefuses, RequestFails,
     CreateTopic, BrokerCreates, CreateFails, Invalidate, LoseLeader, ElectLeader, vars, Own
<1>3. \A tp \in TopicPartition : epoch'[tp] \in Nat
  <2>1. \A tp \in TopicPartition : epoch'[tp] \in Epochs
    BY DEF TypeOK
  <2>. QED BY <2>1, EpochsAreNumbers
<1>4. CASE Settled
  <2>1. ASSUME NEW d \in Calls, result'[d] = "notleader"
        PROVE  /\ pc'[d] = "done" /\ overlap'[d] # {}
               /\ \/ Own(d) \in leaderless'
                  \/ \E e \in overlap'[d] : e < epoch'[Own(d)]
                  \/ req[d].leaderEpoch \notin {0, epoch'[Own(d)]}
    <3>1. /\ overlap'[d] = overlap[d] /\ pc'[d] = "done" /\ overlap[d] # {}
          /\ \/ Own(d) \in leaderless
             \/ \E e \in overlap[d] : e < epoch[Own(d)]
             \/ req[d].leaderEpoch \notin {0, epoch[Own(d)]}
      BY <1>4, <2>1 DEF Settled, RefusedInv, RefusedOnlyOnChange
    <3>2. PICK e \in overlap[d] :
             \/ Own(d) \in leaderless
             \/ e < epoch[Own(d)]
             \/ req[d].leaderEpoch \notin {0, epoch[Own(d)]}
      BY <3>1
    <3>3. e \in Nat /\ e <= epoch[Own(d)]
      BY DEF FreshInv, PublishedInv
    <3>4. /\ epoch[Own(d)] <= epoch'[Own(d)]
          /\ Own(d) \in leaderless =>
                 Own(d) \in leaderless' \/ epoch[Own(d)] < epoch'[Own(d)]
      BY <1>1, <1>2 DEF Elections
    <3>5. epoch[Own(d)] \in Nat /\ epoch'[Own(d)] \in Nat
      BY <1>2, <1>3
    <3>6. \/ Own(d) \in leaderless' \/ e < epoch'[Own(d)]
          \/ req[d].leaderEpoch \notin {0, epoch[Own(d)]} /\ epoch'[Own(d)] = epoch[Own(d)]
      BY <3>2, <3>3, <3>4, <3>5
    <3>. QED BY <3>1, <3>6
  <2>2. req' = req
    BY DEF Next, Step, Start, TakeRoute, EnsureTopic, SelectPartition, Refresh, StillMissing,
       Answer, AskFails, Update, LeaderAccepts, SecondAttempt, LeaderRefuses, RequestFails,
       CreateTopic, BrokerCreates, CreateFails, Invalidate, LoseLeader, ElectLeader, vars
  <2>. QED BY <1>2, <2>1, <2>2 DEF RefusedInv, RefusedOnlyOnChange
<1>5. ASSUME NEW c \in Calls, LeaderRefuses(c) PROVE RefusedInv' /\ RefusedOnlyOnChange'
  <2>1. /\ pc[c] = "using" /\ stage[c] = 2 /\ pc'[c] = "done" /\ ~AtLeader(c)
        /\ UNCHANGED <<epoch, leaderless, overlap, req>>
        /\ \A d \in Calls \ {c} : pc'[d] = pc[d] /\ result'[d] = result[d]
    BY <1>5 DEF LeaderRefuses, Return, Goto, TypeOK, cluster, history
  <2>2. PICK e \in overlap[c] : e <= route[c]
    BY <2>1 DEF FreshInv, RefreshedRoute
  <2>3. route[c] <= epoch[Own(c)]
    BY <2>1 DEF FreshInv, PublishedInv
  <2>4. e \in Nat /\ route[c] \in Nat /\ epoch[Own(c)] \in Nat
    BY <1>2
  <2>5. \/ Own(c) \in leaderless \/ route[c] # epoch[Own(c)]
        \/ req[c].leaderEpoch \notin {0, epoch[Own(c)]}
    BY <2>1 DEF AtLeader, SentEpoch
  <2>6. \/ Own(c) \in leaderless \/ e < epoch[Own(c)]
        \/ req[c].leaderEpoch \notin {0, epoch[Own(c)]}
    BY <2>2, <2>3, <2>4, <2>5
  <2>. QED BY <1>2, <2>1, <2>2, <2>6 DEF RefusedInv, RefusedOnlyOnChange
<1>6. CASE UNCHANGED vars
  <2>1. Settled
    BY <1>6 DEF vars, history, Settled
  <2>. QED BY <1>4, <2>1
<1>7. ASSUME NEW tp \in TopicPartition, LoseLeader(tp) \/ ElectLeader(tp) PROVE Settled
  BY <1>7 DEF LoseLeader, ElectLeader, Settled, history
<1>. QED BY <1>4, <1>5, <1>6, <1>7, StepSettled DEF Next

-----------------------------------------------------------------------------
LEMMA InitIInv == Init => IInv
<1>. SUFFICES ASSUME Init PROVE IInv
  OBVIOUS
<1>1. TypeOK
  BY InitType
<1>2. PublishedInv
  <2>1. \A tp \in TopicPartition : routes[tp] = 0 /\ epoch[tp] \in {0, 1}
    BY DEF Init, NoRoutes
  <2>. QED BY <2>1 DEF Init, PublishedInv
<1>3. AnswerInv /\ SeekInv /\ ReadInv /\ RefreshedRoute
  BY DEF Init, AnswerInv, SeekInv, Seeking, ReadInv, RefreshedRoute
<1>4. StageInv /\ RefusedInv /\ RefusedOnlyOnChange
  BY DEF Init, StageInv, RefusedInv, RefusedOnlyOnChange
<1>. QED BY <1>1, <1>2, <1>3, <1>4 DEF IInv, FreshInv

(* The invariant holds in every behaviour.                                 *)
THEOREM Invariance == Spec => []IInv
<1>1. IInv /\ [Next]_vars => IInv'
  <2>. SUFFICES ASSUME IInv, [Next]_vars PROVE IInv'
    OBVIOUS
  <2>1. TypeOK /\ TypeOK' /\ FreshInv /\ StageInv
    BY NextType DEF IInv
  <2>2. FreshInv'
    BY <2>1, StepKinds, QuietFresh, BeginsFresh, AnswerFresh, UpdateFresh, TakeRouteFresh
  <2>3. StageInv'
    BY <2>1, StageNext
  <2>4. RefusedInv' /\ RefusedOnlyOnChange'
    BY <2>1, RefusedNext
  <2>. QED BY <2>1, <2>2, <2>3, <2>4 DEF IInv
<1>. QED BY InitIInv, <1>1, PTL DEF Spec

(* Every variable keeps its type.                                          *)
THEOREM TypeCorrect == Spec => []TypeOK
<1>1. IInv => TypeOK
  BY DEF IInv
<1>. QED BY Invariance, <1>1, PTL

(* The route of a second attempt (manager.go:195, admin.go:210) is no      *)
(* older than the oldest refresh that overlaps its own.                    *)
THEOREM RefreshedIsFresh == Spec => []RefreshedRoute
<1>1. IInv => RefreshedRoute
  BY DEF IInv, FreshInv
<1>. QED BY Invariance, <1>1, PTL

(* ListOffsets (admin.go:210) is refused for good only after a change of   *)
(* leader that no refresh overlapping its second attempt need have seen.   *)
THEOREM RefusalMeansChange == Spec => []RefusedOnlyOnChange
<1>1. IInv => RefusedOnlyOnChange
  BY DEF IInv
<1>. QED BY Invariance, <1>1, PTL
-----------------------------------------------------------------------------
(* The requests do not change; only calls that read have a route, and a    *)
(* call looks for its own topic only if its refresh asks for it.           *)
CallInv ==
    /\ req \in [Calls -> Requests]
    /\ \A c \in Calls :
           /\ pc[c] = "using" => req[c].op = "list"
           /\ pc[c] = "reading" => req[c].op # "metadata"

(* A partition without a leader had one, so its next has a higher epoch.   *)
ElectedInv ==
    /\ \A tp \in leaderless : epoch[tp] # 0
    /\ \A c \in Calls, tp \in TopicPartition : began[c][tp] <= epoch[tp]

(* A response lacks a partition asked for only if that was missing when    *)
(* the refresh began, or has lost its leader.                              *)
AnsweredInv ==
    \A d \in Calls, tp \in TopicPartition :
        (/\ pc[d] = "answered" /\ tp[1] \in req[d].topics
         /\ answer[d].routes[tp] = 0) => began[d][tp] = 0 \/ Moved(tp)

(* So does the cache a call is about to look at, unless another took the   *)
(* routes away.                                                            *)
ReadingInv ==
    \A c \in Calls, tp \in TopicPartition :
        (/\ pc[c] = "reading" /\ tp[1] = req[c].topic
         /\ routes[tp] = 0 /\ c \notin replaced) => began[c][tp] = 0 \/ Moved(tp)

MissingInv == CallInv /\ ElectedInv /\ AnsweredInv /\ ReadingInv /\ CreatesOnlyMissing

-----------------------------------------------------------------------------
LEMMA LocalStep ==
    ASSUME TypeOK, NEW c \in Calls, Step(c)
    PROVE  /\ UNCHANGED <<req, leaderless>>
           /\ pc'[c] # "idle"
           /\ \A d \in Calls \ {c} :
                  /\ pc'[d] = pc[d] /\ stage'[d] = stage[d] /\ answer'[d] = answer[d]
                  /\ result'[d] = result[d] /\ chosen'[d] = chosen[d] /\ began'[d] = began[d]
<1>. USE DEF TypeOK, Goto, Return, cluster, history
<1>1. CASE Start(c) \/ TakeRoute(c) \/ StillMissing(c)
  BY <1>1 DEF Start, TakeRoute, StillMissing
<1>2. CASE EnsureTopic(c)
  BY <1>2 DEF EnsureTopic, TopicEnsured
<1>3. CASE SelectPartition(c)
  BY <1>3 DEF SelectPartition
<1>4. CASE Refresh(c) \/ SecondAttempt(c) \/ Invalidate(c)
  BY <1>4 DEF Refresh, SecondAttempt, Invalidate, BeginRefresh
<1>5. CASE Answer(c)
  BY <1>5 DEF Answer
<1>6. CASE AskFails(c)
  BY <1>6 DEF AskFails
<1>7. CASE Update(c)
  BY <1>7 DEF Update, TopicEnsured
<1>8. CASE LeaderAccepts(c) \/ LeaderRefuses(c) \/ RequestFails(c)
  BY <1>8 DEF LeaderAccepts, LeaderRefuses, RequestFails
<1>9. CASE CreateTopic(c) \/ BrokerCreates(c) \/ CreateFails(c)
  BY <1>9 DEF CreateTopic, BrokerCreates, CreateFails, CreateAgain
<1>. QED BY <1>1, <1>2, <1>3, <1>4, <1>5, <1>6, <1>7, <1>8, <1>9 DEF Step

(* The cluster's own steps leave the calls alone.                          *)
LEMMA ClusterStep ==
    ASSUME NEW tp \in TopicPartition, LoseLeader(tp) \/ ElectLeader(tp)
    PROVE  UNCHANGED <<routes, pc, req, stage, try, answer, route, chosen, result, history>>
BY DEF LoseLeader, ElectLeader, history

(* Where a call's own step takes it.                                       *)
LEMMA CallMoves ==
    ASSUME TypeOK, CallInv, NEW c \in Calls, Step(c)
    PROVE  /\ pc'[c] = "using" => req[c].op = "list"
           /\ pc'[c] = "reading" => req[c].op # "metadata"
<1>. USE DEF CallInv, TypeOK, Goto, Return, cluster, history
<1>1. CASE Start(c) \/ TakeRoute(c) \/ StillMissing(c)
  BY <1>1 DEF Start, TakeRoute, StillMissing
<1>2. CASE EnsureTopic(c)
  BY <1>2 DEF EnsureTopic, TopicEnsured
<1>3. CASE SelectPartition(c)
  BY <1>3 DEF SelectPartition
<1>4. CASE Refresh(c) \/ SecondAttempt(c) \/ Invalidate(c)
  BY <1>4 DEF Refresh, SecondAttempt, Invalidate, BeginRefresh
<1>6. CASE Answer(c) \/ AskFails(c)
  BY <1>6 DEF Answer, AskFails
<1>7. CASE Update(c)
  BY <1>7 DEF Update, TopicEnsured
<1>8. CASE LeaderAccepts(c) \/ LeaderRefuses(c) \/ RequestFails(c)
  BY <1>8 DEF LeaderAccepts, LeaderRefuses, RequestFails
<1>9. CASE CreateTopic(c)
  BY <1>9 DEF CreateTopic
<1>10. CASE BrokerCreates(c) \/ CreateFails(c)
  BY <1>10 DEF BrokerCreates, CreateFails, CreateAgain
<1>. QED BY <1>1, <1>2, <1>3, <1>4, <1>6, <1>7, <1>8, <1>9, <1>10 DEF Step

(* What a step does to the data the calls share.                           *)
LEMMA SharedStep ==
    ASSUME TypeOK, NEW c \in Calls, Step(c)
    PROVE  /\ BrokerCreates(c) \/ UNCHANGED epoch
           /\ \/ UNCHANGED routes \/ Invalidate(c)
              \/ pc[c] = "answered" /\ routes' = answer[c].routes
           /\ Update(c) \/ Invalidate(c) \/ UNCHANGED <<routes, replaced>>
           /\ pc'[c] = "answered" => Answer(c) \/ UNCHANGED <<pc, answer>>
           /\ pc'[c] = "reading" => Update(c)
           /\ pc'[c] = "creating" => \/ pc[c] = "creating" \/ req[c].op # "send"
                                     \/ StillMissing(c)
           /\ began'[c] = began[c] \/ began'[c] = epoch
           /\ pc[c] \in {"answered", "reading", "creating"} => began'[c] = began[c]
<1>. USE DEF TypeOK, Goto, Return, cluster, history
<1>1. CASE Start(c) \/ TakeRoute(c) \/ StillMissing(c)
  BY <1>1 DEF Start, TakeRoute, StillMissing
<1>2. CASE EnsureTopic(c)
  BY <1>2 DEF EnsureTopic, TopicEnsured
<1>3. CASE SelectPartition(c)
  BY <1>3 DEF SelectPartition
<1>4. CASE Refresh(c) \/ SecondAttempt(c) \/ Invalidate(c)
  BY <1>4 DEF Refresh, SecondAttempt, Invalidate, BeginRefresh
<1>5. CASE Answer(c)
  BY <1>5 DEF Answer
<1>6. CASE AskFails(c)
  BY <1>6 DEF AskFails
<1>7. CASE Update(c)
  BY <1>7 DEF Update, Updated, TopicEnsured
<1>8. CASE LeaderAccepts(c) \/ LeaderRefuses(c) \/ RequestFails(c)
  BY <1>8 DEF LeaderAccepts, LeaderRefuses, RequestFails
<1>9. CASE CreateTopic(c)
  BY <1>9 DEF CreateTopic
<1>10. CASE BrokerCreates(c) \/ CreateFails(c)
  BY <1>10 DEF BrokerCreates, CreateFails, CreateAgain
<1>. QED BY <1>1, <1>2, <1>3, <1>4, <1>5, <1>6, <1>7, <1>8, <1>9, <1>10 DEF Step

LEMMA CallNext == ASSUME TypeOK, CallInv, [Next]_vars PROVE CallInv'
<1>1. ASSUME NEW c \in Calls, Step(c) PROVE CallInv'
  BY <1>1, LocalStep, CallMoves DEF CallInv
<1>2. ASSUME NEW tp \in TopicPartition, LoseLeader(tp) \/ ElectLeader(tp) PROVE CallInv'
  BY <1>2, ClusterStep DEF CallInv
<1>3. CASE UNCHANGED vars
  BY <1>3 DEF vars, CallInv
<1>. QED BY <1>1, <1>2, <1>3 DEF Next

LEMMA ElectedNext == ASSUME TypeOK, TypeOK', ElectedInv, [Next]_vars PROVE ElectedInv'
<1>. USE Numbers
<1>1. \A tp \in TopicPartition : epoch'[tp] \in Nat /\ epoch[tp] <= epoch'[tp]
  <2>1. \A tp \in TopicPartition : epoch'[tp] \in Epochs
    BY DEF TypeOK
  <2>. QED BY <2>1, NextElections, EpochsAreNumbers DEF Elections
<1>2. \A tp \in leaderless' : epoch'[tp] # 0
  <2>1. ASSUME NEW c \in Calls, Step(c) PROVE leaderless' = leaderless
    BY <2>1, LocalStep
  <2>2. ASSUME NEW tp \in TopicPartition, LoseLeader(tp)
        PROVE  \A q \in leaderless' : q \in leaderless \/ epoch'[q] # 0
    BY <2>2 DEF LoseLeader
  <2>3. ASSUME NEW tp \in TopicPartition, ElectLeader(tp)
        PROVE  \A q \in leaderless' : q \in leaderless
    BY <2>3 DEF ElectLeader
  <2>4. \A q \in leaderless' : q \in leaderless \/ epoch'[q] # 0
    BY <2>1, <2>2, <2>3 DEF Next, vars, cluster
  <2>5. \A q \in leaderless : epoch'[q] # 0
    BY <1>1 DEF ElectedInv, TypeOK
  <2>. QED BY <2>4, <2>5
<1>3. \A d \in Calls, tp \in TopicPartition : began'[d][tp] <= epoch'[tp]
  <2>1. \A d \in Calls : began'[d] = began[d] \/ began'[d] = epoch
    <3>1. ASSUME NEW c \in Calls, Step(c), NEW d \in Calls
          PROVE  began'[d] = began[d] \/ began'[d] = epoch
      BY <3>1, LocalStep, SharedStep
    <3>2. ASSUME NEW tp \in TopicPartition, LoseLeader(tp) \/ ElectLeader(tp)
          PROVE  began' = began
      BY <3>2, ClusterStep DEF history
    <3>. QED BY <3>1, <3>2 DEF Next, vars, history
  <2>. QED BY <1>1, <2>1 DEF ElectedInv
<1>. QED BY <1>2, <1>3 DEF ElectedInv

(* A leader that was lost is not brought back.                             *)
LEMMA MovedStays ==
    ASSUME TypeOK, TypeOK', ElectedInv, [Next]_vars, NEW tp \in TopicPartition, Moved(tp)
    PROVE  Moved(tp)'
<1>. USE Numbers
<1>1. epoch[tp] \in Nat /\ epoch'[tp] \in Nat
  <2>1. epoch[tp] \in Epochs /\ epoch'[tp] \in Epochs
    BY DEF TypeOK
  <2>. QED BY <2>1, EpochsAreNumbers
<1>2. epoch[tp] <= epoch'[tp] /\ (tp \in leaderless => tp \in leaderless' \/ epoch[tp] < epoch'[tp])
  BY NextElections DEF Elections
<1>3. tp \in leaderless => epoch[tp] # 0
  BY DEF ElectedInv
<1>. QED BY <1>1, <1>2, <1>3 DEF Moved

LEMMA AnsweredNext ==
    ASSUME TypeOK, TypeOK', ElectedInv, AnsweredInv, NEW c \in Calls, Step(c)
    PROVE  AnsweredInv'
<1>. USE Numbers
<1>1. SUFFICES ASSUME NEW d \in Calls, NEW tp \in TopicPartition,
                      pc'[d] = "answered", tp[1] \in req'[d].topics,
                      answer'[d].routes[tp] = 0
               PROVE  began'[d][tp] = 0 \/ Moved(tp)'
  BY DEF AnsweredInv
<1>2. Moved(tp) => Moved(tp)'
  BY MovedStays DEF Next
<1>3. req' = req
  BY LocalStep
<1>4. CASE d = c /\ Answer(c)
  <2>1. answer'[c].routes[tp] =
            IF tp[1] \in req[c].topics /\ tp \notin leaderless THEN epoch[tp] ELSE 0
    BY <1>4 DEF Answer, TypeOK
  <2>2. tp \in leaderless \/ epoch[tp] = 0
    BY <1>1, <1>3, <1>4, <2>1
  <2>3. began'[c] = began[c]
    BY <1>4 DEF Answer, history
  <2>4. began[c][tp] \in Nat /\ began[c][tp] <= epoch[tp]
    <3>1. began[c][tp] \in Epochs
      BY DEF TypeOK
    <3>. QED BY <3>1, EpochsAreNumbers DEF ElectedInv
  <2>. QED BY <1>2, <1>4, <2>2, <2>3, <2>4 DEF Moved
<1>5. CASE d # c \/ ~Answer(c)
  <2>1. pc[d] = "answered" /\ answer'[d] = answer[d]
    BY <1>1, <1>5, LocalStep, SharedStep
  <2>2. began'[d] = began[d]
    BY <2>1, LocalStep, SharedStep
  <2>. QED BY <1>1, <1>2, <1>3, <2>1, <2>2 DEF AnsweredInv
<1>. QED BY <1>4, <1>5

LEMMA ReadingNext ==
    ASSUME TypeOK, TypeOK', CallInv, ElectedInv, AnsweredInv, ReadingInv,
           NEW c \in Calls, Step(c)
    PROVE  ReadingInv'
<1>1. SUFFICES ASSUME NEW a \in Calls, NEW tp \in TopicPartition,
                      pc'[a] = "reading", tp[1] = req'[a].topic,
                      routes'[tp] = 0, a \notin replaced'
               PROVE  began'[a][tp] = 0 \/ Moved(tp)'
  BY DEF ReadingInv
<1>2. Moved(tp) => Moved(tp)'
  BY MovedStays DEF Next
<1>3. req' = req
  BY LocalStep
<1>4. CASE Update(c)
  <2>1. /\ pc[c] = "answered" /\ routes' = answer[c].routes
        /\ replaced' = (replaced \ {c}) \cup TakenFrom(c)
    BY <1>4 DEF Update, Updated
  <2>2. CASE a = c
    <3>1. req[c] \in Requests /\ req[c].op # "metadata"
      BY <1>1, <2>2, CallMoves DEF CallInv
    <3>2. tp[1] \in req[c].topics
      BY <1>1, <1>3, <2>2, <3>1, ConstantsAssumption
    <3>3. began'[c] = began[c]
      BY <2>1, SharedStep
    <3>. QED BY <1>1, <1>2, <2>1, <2>2, <3>2, <3>3 DEF AnsweredInv
  <2>3. CASE a # c
    <3>1. pc[a] = "reading"
      BY <1>1, <2>3, LocalStep
    <3>2. a \notin TakenFrom(c)
      BY <1>1, <2>1
    <3>3. /\ req[a].topic \in req[c].topics
          /\ \A p \in Partitions : began[c][<<req[a].topic, p>>] # 0
      BY <2>3, <3>1, <3>2 DEF TakenFrom
    <3>4. PICK p \in Partitions : tp = <<req[a].topic, p>>
      BY <1>1, <1>3 DEF TopicPartition
    <3>5. tp[1] \in req[c].topics /\ began[c][tp] # 0
      BY <3>3, <3>4
    <3>. QED BY <1>1, <1>2, <2>1, <3>5 DEF AnsweredInv
  <2>. QED BY <2>2, <2>3
<1>5. CASE Invalidate(c)
  <2>1. pc[c] = "created"
    BY <1>5 DEF Invalidate
  <2>2. a # c
    BY <1>1, <2>1, SharedStep DEF Update
  <2>3. pc[a] = "reading" /\ began'[a] = began[a]
    BY <1>1, <2>2, LocalStep
  <2>4. a \notin replaced /\ req[a].topic # req[c].topic
    BY <1>1, <1>5, <2>3 DEF Invalidate
  <2>5. routes[tp] = 0
    BY <1>1, <1>3, <1>5, <2>4 DEF Invalidate
  <2>. QED BY <1>1, <1>2, <1>3, <2>3, <2>4, <2>5 DEF ReadingInv
<1>6. CASE ~Update(c) /\ ~Invalidate(c)
  <2>1. routes' = routes /\ replaced' = replaced /\ a # c
    BY <1>1, <1>6, SharedStep
  <2>2. pc[a] = "reading" /\ began'[a] = began[a]
    BY <1>1, <2>1, LocalStep
  <2>. QED BY <1>1, <1>2, <1>3, <2>1, <2>2 DEF ReadingInv
<1>. QED BY <1>4, <1>5, <1>6

(* So a creation that begins finds all of the topic missing, or its routes *)
(* were taken away.                                                        *)
LEMMA CreateNext ==
    ASSUME TypeOK, TypeOK', ElectedInv, ReadingInv, CreatesOnlyMissing,
           NEW c \in Calls, Step(c)
    PROVE  CreatesOnlyMissing'
<1>1. SUFFICES ASSUME NEW a \in Calls, pc'[a] = "creating", req'[a].op = "send",
                      a \notin replaced', NEW t \in Topics, t = req'[a].topic,
                      NEW p \in Partitions
               PROVE  began'[a][<<t, p>>] = 0 \/ Moved(<<t, p>>)'
  <2>1. \A a \in Calls : req'[a].topic \in Topics
    BY DEF TypeOK, Request
  <2>. QED BY <2>1 DEF CreatesOnlyMissing, Moved
<1>2. <<t, p>> \in TopicPartition
  BY DEF TopicPartition
<1>3. Moved(<<t, p>>) => Moved(<<t, p>>)'
  <2>. DEFINE tp == <<t, p>>
  <2>1. Moved(tp) => Moved(tp)'
    <3>. HIDE DEF tp
    <3>. QED BY <1>2, MovedStays DEF Next, tp
  <2>. QED BY <2>1
<1>4. req' = req
  BY LocalStep
<1>5. CASE pc[a] = "creating"
  <2>1. began'[a] = began[a]
    BY <1>5, LocalStep, SharedStep
  <2>2. a \notin replaced
    <3>1. Update(c) => a # c
      BY <1>5 DEF Update
    <3>. QED BY <1>1, <3>1, SharedStep DEF Update, Invalidate
  <2>. QED BY <1>1, <1>3, <1>4, <1>5, <2>1, <2>2 DEF CreatesOnlyMissing
<1>6. CASE pc[a] # "creating"
  <2>1. a = c
    BY <1>1, <1>6, LocalStep
  <2>2. StillMissing(c)
    BY <1>1, <1>4, <1>6, <2>1, SharedStep
  <2>3. pc[c] = "reading" /\ ~Cached(c) /\ UNCHANGED <<began, replaced>>
    BY <2>2 DEF StillMissing, history
  <2>4. routes[<<t, p>>] = 0
    BY <1>1, <1>4, <2>1, <2>3 DEF Cached, PartitionIDs
  <2>. QED BY <1>1, <1>2, <1>3, <1>4, <2>1, <2>3, <2>4 DEF ReadingInv
<1>. QED BY <1>5, <1>6

(* The cluster's steps make no partition and move leaders on.              *)
LEMMA ClusterMissing ==
    ASSUME TypeOK, TypeOK', MissingInv,
           NEW q \in TopicPartition, LoseLeader(q) \/ ElectLeader(q)
    PROVE  AnsweredInv' /\ ReadingInv' /\ CreatesOnlyMissing'
<1>. USE DEF MissingInv
<1>1. UNCHANGED <<routes, pc, req, answer, began, replaced>>
  BY ClusterStep DEF history
<1>2. \A tp \in TopicPartition : Moved(tp) => tp \in leaderless' \/ epoch'[tp] > 1
  <2>1. ASSUME NEW tp \in TopicPartition, Moved(tp) PROVE Moved(tp)'
    BY <2>1, MovedStays DEF Next
  <2>. QED BY <2>1 DEF Moved
<1>3. AnsweredInv' /\ ReadingInv'
  BY <1>1, <1>2 DEF AnsweredInv, ReadingInv, Moved
<1>4. CreatesOnlyMissing'
  <2>1. SUFFICES ASSUME NEW a \in Calls, pc[a] = "creating", req[a].op = "send",
                        a \notin replaced, NEW p \in Partitions
                 PROVE  \/ began[a][<<req[a].topic, p>>] = 0
                        \/ <<req[a].topic, p>> \in leaderless'
                        \/ epoch'[<<req[a].topic, p>>] > 1
    BY <1>1 DEF CreatesOnlyMissing, Moved
  <2>2. <<req[a].topic, p>> \in TopicPartition
    BY DEF TypeOK, Request, TopicPartition
  <2>. QED BY <1>2, <2>1, <2>2 DEF CreatesOnlyMissing
<1>. QED BY <1>3, <1>4

LEMMA MissingNext == ASSUME TypeOK, TypeOK', MissingInv, [Next]_vars PROVE MissingInv'
<1>1. CallInv' /\ ElectedInv'
  BY CallNext, ElectedNext DEF MissingInv
<1>2. ASSUME NEW c \in Calls, Step(c)
      PROVE  AnsweredInv' /\ ReadingInv' /\ CreatesOnlyMissing'
  BY <1>2, AnsweredNext, ReadingNext, CreateNext DEF MissingInv
<1>3. ASSUME NEW tp \in TopicPartition, LoseLeader(tp) \/ ElectLeader(tp)
      PROVE  AnsweredInv' /\ ReadingInv' /\ CreatesOnlyMissing'
  BY <1>3, ClusterMissing
<1>4. CASE UNCHANGED vars
  <2>. USE <1>4 DEF vars, cluster, history, MissingInv, Moved
  <2>1. AnsweredInv'
    BY DEF AnsweredInv
  <2>2. ReadingInv'
    BY DEF ReadingInv
  <2>3. CreatesOnlyMissing'
    BY DEF CreatesOnlyMissing
  <2>. QED BY <1>1, <2>1, <2>2, <2>3
<1>. QED BY <1>1, <1>2, <1>3, <1>4 DEF Next, MissingInv

LEMMA InitMissing == Init => MissingInv
<1>. SUFFICES ASSUME Init PROVE MissingInv
  OBVIOUS
<1>1. \A tp \in TopicPartition : epoch[tp] \in {0, 1} /\ \A c \in Calls : began[c][tp] = 0
  BY DEF Init, NoRoutes
<1>2. ElectedInv
  BY <1>1 DEF Init, ElectedInv
<1>. QED BY <1>2 DEF Init, MissingInv, CallInv, AnsweredInv, ReadingInv, CreatesOnlyMissing

(* The invariant behind CreatesOnlyMissing holds in every behaviour.       *)
THEOREM MissingInvariance == Spec => []MissingInv
<1>1. TypeOK /\ MissingInv /\ [Next]_vars => MissingInv'
  BY NextType, MissingNext
<1>. QED BY InitMissing, TypeCorrect, <1>1, PTL DEF Spec

(* ensureTopic (producer.go:258) asks to create a topic only if each of    *)
(* its partitions was missing when its refresh began or has lost its       *)
(* leader since, or if, between the update of that refresh and the second  *)
(* look, another call took the routes away: by a response about other      *)
(* topics or from before the topic, or by Invalidate.                      *)
THEOREM TopicsCreatedWhenMissing == Spec => []CreatesOnlyMissing
<1>1. MissingInv => CreatesOnlyMissing
  BY DEF MissingInv
<1>. QED BY MissingInvariance, <1>1, PTL

-----------------------------------------------------------------------------
(* While every partition keeps its first leader, all the partitions of a   *)
(* topic are known or none is, so a key has the same partition everywhere. *)
Led == leaderless = {} /\ \A tp \in TopicPartition : epoch[tp] <= 1

Uniform(f) ==
    \A t \in Topics, p, q \in Partitions : f[<<t, p>>] = 0 => f[<<t, q>>] = 0

UniformInv ==
    /\ Uniform(epoch)
    /\ Led => /\ Uniform(routes)
              /\ \A c \in Calls : pc[c] = "answered" => Uniform(answer[c].routes)

Keyed(c) == req[c].op = "send" /\ req[c].partition = 0

KeyInv ==
    Led => \A c \in Calls :
               Keyed(c) /\ result[c] = "ok" =>
                   KeyHashPartition(chosen[c], req[c].hash, Partitions)

(* If no leader was lost so far, none had been before.                     *)
LEMMA LedBefore == ASSUME TypeOK, TypeOK', ElectedInv, [Next]_vars, Led' PROVE Led
<1>. USE Numbers
<1>1. \A tp \in TopicPartition : epoch'[tp] \in Nat
  <2>1. \A tp \in TopicPartition : epoch'[tp] \in Epochs
    BY DEF TypeOK
  <2>. QED BY <2>1, EpochsAreNumbers
<1>2. leaderless' = {} /\ \A tp \in TopicPartition : epoch'[tp] <= 1
  BY DEF Led
<1>3. Elections
  BY NextElections
<1>4. \A tp \in TopicPartition : epoch[tp] <= 1
  BY <1>1, <1>2, <1>3 DEF Elections
<1>5. ASSUME NEW tp \in leaderless PROVE FALSE
  <2>1. tp \in TopicPartition /\ epoch[tp] # 0
    BY DEF TypeOK, ElectedInv
  <2>2. epoch[tp] < epoch'[tp] /\ epoch'[tp] <= 1
    BY <1>2, <1>3, <2>1 DEF Elections
  <2>. QED BY <1>1, <2>1, <2>2
<1>. QED BY <1>4, <1>5 DEF Led

(* No response and no election splits a topic, as long as nothing is lost. *)
LEMMA UniformNext ==
    ASSUME TypeOK, TypeOK', ElectedInv, UniformInv, [Next]_vars
    PROVE  UniformInv'
<1>. USE Numbers
<1>. DEFINE Even(f) == \A t \in Topics, p, q \in Partitions : f[<<t, p>>] = 0 => f[<<t, q>>] = 0
<1>1. \A t \in Topics, p \in Partitions : <<t, p>> \in TopicPartition
  BY DEF TopicPartition
<1>2. Even(epoch')
  <2>1. CASE UNCHANGED epoch
    BY <2>1 DEF UniformInv, Uniform
  <2>2. ASSUME NEW c \in Calls, BrokerCreates(c) PROVE Even(epoch')
    <3>1. \A t \in Topics, p \in Partitions :
              epoch'[<<t, p>>] = IF t = req[c].topic /\ epoch[<<t, p>>] = 0
                                 THEN 1 ELSE epoch[<<t, p>>]
      BY <1>1, <2>2 DEF BrokerCreates
    <3>. QED BY <3>1 DEF UniformInv, Uniform
  <2>3. ASSUME NEW tp \in TopicPartition, ElectLeader(tp) PROVE Even(epoch')
    <3>1. \A q \in TopicPartition : epoch'[q] = 0 <=> epoch[q] = 0
      BY <2>3 DEF ElectLeader, ElectedInv, TypeOK
    <3>. QED BY <1>1, <3>1 DEF UniformInv, Uniform
  <2>4. ASSUME NEW c \in Calls, Step(c) PROVE Even(epoch')
    BY <2>1, <2>2, <2>4, SharedStep
  <2>5. ASSUME NEW tp \in TopicPartition, LoseLeader(tp) PROVE UNCHANGED epoch
    BY <2>5 DEF LoseLeader
  <2>. QED BY <2>1, <2>3, <2>4, <2>5 DEF Next, vars, cluster
<1>3. ASSUME Led'
      PROVE  Even(routes') /\ \A d \in Calls : pc'[d] = "answered" => Even(answer'[d].routes)
  <2>1. /\ leaderless = {} /\ Even(epoch) /\ Even(routes)
        /\ \A d \in Calls : pc[d] = "answered" => Even(answer[d].routes)
    BY <1>3, LedBefore DEF Led, UniformInv, Uniform
  <2>2. CASE UNCHANGED <<routes, pc, answer>>
    BY <2>1, <2>2
  <2>3. ASSUME NEW c \in Calls, Step(c) PROVE Even(routes')
    <3>1. CASE Invalidate(c)
      <4>1. \A t \in Topics, p \in Partitions :
                routes'[<<t, p>>] = IF t = req[c].topic THEN 0 ELSE routes[<<t, p>>]
        BY <1>1, <3>1 DEF Invalidate
      <4>. QED BY <2>1, <4>1
    <3>2. CASE routes' = routes \/ (pc[c] = "answered" /\ routes' = answer[c].routes)
      BY <2>1, <3>2
    <3>. QED BY <2>3, <3>1, <3>2, SharedStep
  <2>4. ASSUME NEW c \in Calls, Step(c), NEW d \in Calls, pc'[d] = "answered"
        PROVE  Even(answer'[d].routes)
    <3>1. CASE d = c /\ Answer(c)
      <4>1. \A t \in Topics, p \in Partitions :
                answer'[c].routes[<<t, p>>] =
                    IF t \in req[c].topics THEN epoch[<<t, p>>] ELSE 0
        BY <1>1, <2>1, <3>1 DEF Answer, TypeOK
      <4>. QED BY <2>1, <3>1, <4>1
    <3>2. CASE d # c \/ (d = c /\ ~Answer(c))
      <4>1. pc[d] = "answered" /\ answer'[d] = answer[d]
        BY <2>4, <3>2, LocalStep, SharedStep
      <4>. QED BY <2>1, <4>1
    <3>. QED BY <3>1, <3>2
  <2>5. ASSUME NEW tp \in TopicPartition, LoseLeader(tp) \/ ElectLeader(tp)
        PROVE  UNCHANGED <<routes, pc, answer>>
    BY <2>5, ClusterStep
  <2>. QED BY <2>2, <2>3, <2>4, <2>5 DEF Next, vars
<1>. QED BY <1>2, <1>3 DEF UniformInv, Uniform, Led

(* No two ids have as many ids before them.                                *)
LEMMA RanksDiffer ==
    ASSUME NEW S, IsFiniteSet(S), S \subseteq Nat, NEW p \in S, NEW q \in S,
           Cardinality({x \in S : x < p}) = Cardinality({x \in S : x < q})
    PROVE  p = q
<1>1. ASSUME NEW u \in S, NEW v \in S, u < v,
             Cardinality({x \in S : x < u}) = Cardinality({x \in S : x < v})
      PROVE  FALSE
  <2>1. {x \in S : x < u} \subseteq {x \in S : x < v}
    <3>1. \A x \in S : x < u => x < v
      BY <1>1
    <3>. QED BY <3>1
  <2>2. IsFiniteSet({x \in S : x < v})
    BY FS_Subset
  <2>3. {x \in S : x < u} = {x \in S : x < v}
    BY <1>1, <2>1, <2>2, FS_Subset
  <2>4. u \in {x \in S : x < v} /\ u \notin {x \in S : x < u}
    BY <1>1
  <2>. QED BY <2>3, <2>4
<1>2. p < q \/ q < p \/ p = q
  OBVIOUS
<1>. QED BY <1>1, <1>2

(* A send picks from all the partitions of its topic.                      *)
LEMMA KeyNext ==
    ASSUME TypeOK, TypeOK', CallInv, ElectedInv, UniformInv, KeyInv, [Next]_vars
    PROVE  KeyInv'
<1>. SUFFICES ASSUME Led', NEW a \in Calls, Keyed(a)', result'[a] = "ok"
              PROVE  KeyHashPartition(chosen[a], req[a].hash, Partitions)'
  BY DEF KeyInv
<1>1. Led
  BY LedBefore
<1>2. CASE UNCHANGED <<req, result, chosen>>
  BY <1>1, <1>2 DEF KeyInv, Keyed, KeyHashPartition
<1>3. ASSUME NEW c \in Calls, Step(c)
      PROVE  KeyHashPartition(chosen'[a], req'[a].hash, Partitions)
  <2>1. req' = req /\ Keyed(a)
    BY <1>3, LocalStep DEF Keyed
  <2>2. CASE a # c \/ UNCHANGED <<result, chosen>>
    <3>1. result'[a] = result[a] /\ chosen'[a] = chosen[a]
      BY <1>3, <2>2, LocalStep
    <3>. QED BY <1>1, <2>1, <3>1 DEF KeyInv
  <2>3. CASE a = c /\ ~UNCHANGED <<result, chosen>>
    <3>1. SelectPartition(c)
      <4>. USE <1>3, <2>1, <2>3 DEF Keyed, Goto, Return, TypeOK, cluster, history, CallInv
      <4>1. ~TopicEnsured(c) \/ UNCHANGED <<result, chosen>>
        BY DEF TopicEnsured
      <4>2. ~(\E o \in {"error", "missing", "notleader"} : Return(c, o))
        OBVIOUS
      <4>3. ~(Start(c) \/ TakeRoute(c) \/ EnsureTopic(c) \/ Refresh(c) \/ StillMissing(c))
        BY <4>1, <4>2 DEF Start, TakeRoute, EnsureTopic, Refresh, StillMissing
      <4>4. ~(Answer(c) \/ AskFails(c))
        BY <4>2 DEF Answer, AskFails
      <4>5. ~Update(c)
        BY <4>1 DEF Update
      <4>6. ~(LeaderAccepts(c) \/ SecondAttempt(c) \/ LeaderRefuses(c) \/ RequestFails(c))
        BY DEF LeaderAccepts, SecondAttempt, LeaderRefuses, RequestFails
      <4>7. ~(CreateTopic(c) \/ CreateFails(c) \/ BrokerCreates(c))
        BY DEF CreateTopic, CreateFails, BrokerCreates, CreateAgain
      <4>8. ~Invalidate(c)
        BY DEF Invalidate
      <4>. QED BY <4>3, <4>4, <4>5, <4>6, <4>7, <4>8 DEF Step
    <3>2. PartitionIDs(req[c].topic) # {}
      BY <3>1 DEF SelectPartition, Cached
    <3>3. PartitionIDs(req[c].topic) = Partitions
      <4>1. req[c].topic \in Topics
        BY DEF TypeOK, Request
      <4>2. Uniform(routes)
        BY <1>1 DEF UniformInv
      <4>. QED BY <3>2, <4>1, <4>2 DEF PartitionIDs, Uniform
    <3>4. KeyHashPartition(chosen'[c], req[c].hash, Partitions)
      BY <3>1, <3>3 DEF SelectPartition, TypeOK
    <3>. QED BY <2>1, <2>3, <3>4
  <2>. QED BY <2>2, <2>3
<1>4. ASSUME NEW tp \in TopicPartition, LoseLeader(tp) \/ ElectLeader(tp)
      PROVE  UNCHANGED <<req, result, chosen>>
  BY <1>4, ClusterStep
<1>. QED BY <1>2, <1>3, <1>4 DEF Next, vars, KeyHashPartition

(* The invariants behind KeysStayWhileLed hold in every behaviour.         *)
THEOREM KeyInvariance == Spec => [](UniformInv /\ KeyInv)
<1>1. Init => UniformInv /\ KeyInv
  <2>. SUFFICES ASSUME Init PROVE UniformInv /\ KeyInv
    OBVIOUS
  <2>1. Uniform(epoch)
    BY DEF Init, Uniform
  <2>2. Uniform(routes)
    BY DEF Init, Uniform, NoRoutes, TopicPartition
  <2>. QED BY <2>1, <2>2 DEF Init, UniformInv, KeyInv
<1>2. TypeOK /\ MissingInv /\ UniformInv /\ KeyInv /\ [Next]_vars => (UniformInv /\ KeyInv)'
  <2>. SUFFICES ASSUME TypeOK, MissingInv, UniformInv, KeyInv, [Next]_vars
                PROVE  UniformInv' /\ KeyInv'
    OBVIOUS
  <2>1. TypeOK' /\ CallInv /\ ElectedInv
    BY NextType DEF MissingInv
  <2>. QED BY <2>1, UniformNext, KeyNext
<1>. QED BY <1>1, <1>2, TypeCorrect, MissingInvariance, PTL DEF Spec

(* As long as no partition loses its leader, two records of one key are    *)
(* sent to one partition, whatever refreshes and creations happen between  *)
(* them: the cache knows all the partitions of a topic or none, so each    *)
(* hash is taken modulo the same number.                                   *)
THEOREM KeysStayTogether == Spec => []KeysStayWhileLed
<1>1. KeyInv => KeysStayWhileLed
  <2>1. SUFFICES ASSUME KeyInv, Led,
                        NEW c \in Calls, NEW d \in Calls, Keyed(c), Keyed(d),
                        req[c].hash = req[d].hash, result[c] = "ok", result[d] = "ok"
                 PROVE  chosen[c] = chosen[d]
    BY DEF KeysStayWhileLed, KeysStay, Led, Keyed
  <2>2. /\ KeyHashPartition(chosen[c], req[c].hash, Partitions)
        /\ KeyHashPartition(chosen[d], req[c].hash, Partitions)
    BY <2>1 DEF KeyInv
  <2>3. IsFiniteSet(Partitions) /\ Partitions \subseteq Nat
    BY SizeAssumption
  <2>. DEFINE Before(p) == {x \in Partitions : x < p}
  <2>4. /\ chosen[c] \in Partitions /\ chosen[d] \in Partitions
        /\ Cardinality(Before(chosen[c])) = Cardinality(Before(chosen[d]))
    BY <2>2 DEF KeyHashPartition
  <2>5. \A p, q \in Partitions : Cardinality(Before(p)) = Cardinality(Before(q)) => p = q
    BY <2>3, RanksDiffer
  <2>. HIDE DEF Before
  <2>. QED BY <2>4, <2>5
<1>. QED BY KeyInvariance, <1>1, PTL

-----------------------------------------------------------------------------
(* The coordinator of a group, for any brokers, committers and bounds.     *)

(* A call under way has partitions to ask for, and that of a join belongs  *)
(* to the join that waits for it.                                          *)
PhaseInv == /\ \A k \in Callers : callPc[k] # "idle" => left[k] # 0
            /\ callPc["offset"] # "idle" => joinPc = "offset"

CoordTypeInv == CoordTypeOK /\ PhaseInv

(* The second attempt of a call begins where the coordinator is found.     *)
AttemptInv ==
    \A k \in Callers :
        /\ callPc[k] \in {"idle", "coordinator", "reading", "find"} => attempt[k] = 1
        /\ attempt[k] = 2 => Reached(k) \/ k \in moved

-----------------------------------------------------------------------------
LEMMA WholeType == \A b \in Brokers : Whole(b) \in Endpoints
BY DEF Whole, Endpoints

LEMMA CallNames == /\ "heartbeat" \in Callers /\ "offset" \in Callers
                   /\ Committers \subseteq Callers
                   /\ "offset" \notin Committers
BY NamesAssumption DEF Callers

LEMMA CountType == ASSUME calls \in 0..MaxCalls, Count PROVE calls' \in 0..MaxCalls
BY BoundsAssumption DEF Count

LEMMA CoordInitType == CoordInit => CoordTypeInv
BY BoundsAssumption, WholeType, CallNames DEF CoordInit, CoordTypeInv, CoordTypeOK, PhaseInv

LEMMA BeginType ==
    ASSUME CoordTypeInv,
           \/ \E k \in Committers : Commit(k)
           \/ Heartbeat \/ Join \/ Assign \/ JoinStep \/ MoveCoordinator
    PROVE  CoordTypeInv'
<1>. USE WholeType, CallNames, BoundsAssumption
     DEF CoordTypeInv, CoordTypeOK, PhaseInv, sessionVars, joinVars, callVars, GoTo, Use
<1>1. ASSUME NEW k \in Committers, Commit(k) PROVE CoordTypeInv'
  <2>1. PICK n \in 1..MaxPartitions : left' = [left EXCEPT ![k] = n]
    BY <1>1 DEF Commit
  <2>2. left' \in [Callers -> Nat] /\ left'[k] # 0 /\ \A j \in Callers \ {k} : left'[j] = left[j]
    BY <2>1
  <2>3. PhaseInv'
    BY <1>1, <2>2 DEF Commit
  <2>. QED BY <1>1, <2>2, <2>3, CountType DEF Commit
<1>2. CASE Heartbeat
  BY <1>2, CountType DEF Heartbeat
<1>3. CASE Join
  BY <1>3, CountType DEF Join
<1>4. CASE Assign
  BY <1>4, CountType DEF Assign
<1>5. CASE JoinFails
  BY <1>5 DEF JoinFails
<1>6. CASE FetchCommittedOffset
  BY <1>6 DEF FetchCommittedOffset
<1>7. CASE InstallSession
  BY <1>7 DEF InstallSession
<1>8. CASE MoveCoordinator
  BY <1>8 DEF MoveCoordinator
<1>. QED BY <1>1, <1>2, <1>3, <1>4, <1>5, <1>6, <1>7, <1>8 DEF JoinStep

LEMMA EndType ==
    ASSUME CoordTypeInv, NEW k \in Callers, callPc[k] # "idle",
           NEW joined \in BOOLEAN, End(k, joined)
    PROVE  CoordTypeInv'
<1>1. joinPc' \in {"idle", "joining", "offset", "session"}
      /\ (joinPc' # "idle" => sessions < MaxSessions)
  BY DEF End, CoordTypeInv, CoordTypeOK, PhaseInv
<1>2. PhaseInv'
  BY CallNames DEF End, GoTo, CoordTypeInv, CoordTypeOK, PhaseInv
<1>3. coordinator' \in [Callers -> Endpoints]
  BY WholeType DEF End, Use, CoordTypeInv, CoordTypeOK
<1>4. /\ callPc' \in [Callers -> {"idle", "coordinator", "reading", "send", "find", "store"}]
      /\ attempt' \in [Callers -> 1..2] /\ left' \in [Callers -> Nat]
      /\ reading' \in [Callers -> 0..sessions]
  BY DEF End, GoTo, CoordTypeInv, CoordTypeOK
<1>5. \A j \in Callers : callPc'[j] = "reading" => reading'[j] # 0
  BY DEF End, GoTo, CoordTypeInv, CoordTypeOK
<1>6. UNCHANGED <<coordinatorAt, groupSession, sessions, endpointOf, heartbeatSession,
                  joinCoordinator, calls, moves, moved>>
  BY DEF End, sessionVars
<1>7. CoordTypeOK'
  BY <1>1, <1>3, <1>4, <1>5, <1>6 DEF CoordTypeInv, CoordTypeOK
<1>. QED BY <1>2, <1>7 DEF CoordTypeInv

LEMMA CallType ==
    ASSUME CoordTypeInv, NEW k \in Callers, CallStep(k) PROVE CoordTypeInv'
<1>. USE WholeType, CallNames
     DEF CoordTypeInv, CoordTypeOK, PhaseInv, sessionVars, joinVars, GoTo, Use
<1>1. CASE Coordinator(k)
  <2>1. endpointOf[reading[k]] \in Endpoints \/ reading[k] = 0
    OBVIOUS
  <2>2. coordinator' \in [Callers -> Endpoints]
    BY <1>1, <2>1 DEF Coordinator
  <2>3. /\ callPc' \in [Callers -> {"idle", "coordinator", "reading", "send", "find", "store"}]
        /\ \A j \in Callers : callPc'[j] = "reading" => reading'[j] # 0
    BY <1>1 DEF Coordinator
  <2>4. PhaseInv'
    BY <1>1 DEF Coordinator
  <2>. QED BY <1>1, <2>2, <2>3, <2>4 DEF Coordinator
<1>2. CASE CoordinatorRead(k)
  <2>1. reading[k] \in 1..sessions
    BY <1>2 DEF CoordinatorRead
  <2>2. coordinator[k] \in Endpoints /\ endpointOf[reading[k]] \in Endpoints
    BY <2>1
  <2>3. PICK some, other \in {coordinator[k], endpointOf[reading[k]]} :
          coordinator' = [coordinator EXCEPT ![k] = [host |-> some.host, port |-> other.port]]
    BY <1>2 DEF CoordinatorRead
  <2>4. [host |-> some.host, port |-> other.port] \in Endpoints
    BY <2>2 DEF Endpoints
  <2>5. coordinator' \in [Callers -> Endpoints]
    BY <2>3, <2>4
  <2>. QED BY <1>2, <2>5 DEF CoordinatorRead
<1>3. CASE Answered(k)
  <2>1. CASE left[k] = 1
    BY <1>3, <2>1, EndType DEF Answered
  <2>2. CASE left[k] # 1
    <3>1. left[k] - 1 \in Nat /\ left[k] - 1 # 0
      BY <1>3, <2>2 DEF Answered
    <3>2. left' = [left EXCEPT ![k] = left[k] - 1] /\ attempt' = [attempt EXCEPT ![k] = 1]
          /\ UNCHANGED <<coordinatorAt, sessionVars, joinVars, callPc, reading, coordinator,
                         calls, moves, moved>>
      BY <1>3, <2>2 DEF Answered
    <3>3. left' \in [Callers -> Nat] /\ attempt' \in [Callers -> 1..2]
      BY <3>1, <3>2
    <3>4. PhaseInv'
      BY <3>1, <3>2
    <3>. QED BY <3>2, <3>3, <3>4
  <2>. QED BY <2>1, <2>2
<1>4. CASE AnswerIncomplete(k)
  BY <1>4 DEF AnswerIncomplete
<1>5. CASE AttemptFails(k)
  BY <1>5 DEF AttemptFails
<1>6. CASE FindCoordinator(k)
  BY <1>6 DEF FindCoordinator
<1>7. CASE StoreCoordinator(k)
  <2>1. coordinator[k] \in Endpoints
    OBVIOUS
  <2>2. endpointOf' \in [1..MaxSessions -> Endpoints \cup {NilEndpoint}]
        /\ \A s \in 1..sessions : endpointOf'[s] \in Endpoints
    BY <1>7, <2>1, BoundsAssumption DEF StoreCoordinator
  <2>. QED BY <1>7, <2>2 DEF StoreCoordinator
<1>8. CASE GiveUp(k) \/ Miss(k)
  BY <1>8, EndType DEF GiveUp, Miss
<1>. QED BY <1>1, <1>2, <1>3, <1>4, <1>5, <1>6, <1>7, <1>8 DEF CallStep

LEMMA CoordNextType == CoordTypeInv /\ [CoordNext]_coordVars => CoordTypeInv'
<1>1. CoordTypeInv /\ UNCHANGED coordVars => CoordTypeInv'
  BY DEF CoordTypeInv, CoordTypeOK, PhaseInv, coordVars, sessionVars, joinVars, callVars
<1>. QED BY <1>1, BeginType, CallType DEF CoordNext

LEMMA CoordTypeInvariant == CoordSpec => []CoordTypeInv
BY CoordInitType, CoordNextType, PTL DEF CoordSpec

(* Sessions, endpoints, attempts and partitions left stay what they are,   *)
(* and no Commit reads the endpoint of a session that was never installed  *)
(* (consumer.go:430).                                                      *)
THEOREM CoordTypeCorrect == CoordSpec => []CoordTypeOK
<1>1. CoordTypeInv => CoordTypeOK
  BY DEF CoordTypeInv
<1>. QED BY <1>1, CoordTypeInvariant, PTL

-----------------------------------------------------------------------------
LEMMA AttemptInit == CoordInit => AttemptInv
BY DEF CoordInit, AttemptInv

LEMMA BeginAttempt ==
    ASSUME CoordTypeInv, AttemptInv,
           \/ \E k \in Committers : Commit(k)
           \/ Heartbeat \/ Join \/ Assign \/ JoinStep \/ MoveCoordinator
    PROVE  AttemptInv'
<1>. USE CallNames DEF CoordTypeInv, CoordTypeOK, PhaseInv, AttemptInv, Reached, sessionVars,
                       joinVars, callVars, GoTo, Use
<1>1. ASSUME NEW k \in Committers, Commit(k) PROVE AttemptInv'
  BY <1>1 DEF Commit
<1>2. CASE Heartbeat
  BY <1>2 DEF Heartbeat
<1>3. CASE Join \/ Assign \/ JoinFails \/ InstallSession
  BY <1>3 DEF Join, Assign, JoinFails, InstallSession
<1>4. CASE FetchCommittedOffset
  BY <1>4 DEF FetchCommittedOffset
<1>5. CASE MoveCoordinator
  BY <1>5 DEF MoveCoordinator
<1>. QED BY <1>1, <1>2, <1>3, <1>4, <1>5 DEF JoinStep

LEMMA CallAttempt ==
    ASSUME CoordTypeInv, AttemptInv, NEW k \in Callers, CallStep(k) PROVE AttemptInv'
<1>. USE DEF CoordTypeInv, CoordTypeOK, AttemptInv, Reached, sessionVars, joinVars, GoTo, Use
<1>1. ASSUME NEW joined, End(k, joined) PROVE AttemptInv'
  BY <1>1 DEF End
<1>2. CASE Coordinator(k) \/ AttemptFails(k)
  BY <1>2 DEF Coordinator, AttemptFails
<1>3. CASE CoordinatorRead(k)
  <2>1. attempt[k] = 1
    BY <1>3 DEF CoordinatorRead
  <2>2. \A j \in Callers \ {k} : coordinator'[j] = coordinator[j]
    BY <1>3 DEF CoordinatorRead
  <2>. QED BY <1>3, <2>1, <2>2 DEF CoordinatorRead
<1>4. CASE Answered(k)
  BY <1>1, <1>4 DEF Answered
<1>5. CASE AnswerIncomplete(k)
  BY <1>5 DEF AnswerIncomplete
<1>6. CASE FindCoordinator(k)
  BY <1>6 DEF FindCoordinator
<1>7. CASE StoreCoordinator(k)
  BY <1>7 DEF StoreCoordinator
<1>8. CASE GiveUp(k) \/ Miss(k)
  BY <1>1, <1>8 DEF GiveUp, Miss
<1>. QED BY <1>2, <1>3, <1>4, <1>5, <1>6, <1>7, <1>8 DEF CallStep

LEMMA AttemptNext == CoordTypeInv /\ AttemptInv /\ [CoordNext]_coordVars => AttemptInv'
<1>1. AttemptInv /\ UNCHANGED coordVars => AttemptInv'
  BY DEF AttemptInv, Reached, coordVars, callVars
<1>. QED BY <1>1, BeginAttempt, CallAttempt DEF CoordNext

(* For any number of committers, partitions, sessions and moves: the       *)
(* second attempt of a commit, heartbeat or offset fetch goes to the       *)
(* coordinator, unless it has moved during the call, whatever endpoint the *)
(* first one found in the session (refreshCoordinator, consumer.go:430).   *)
THEOREM SecondAttemptIsEnough == CoordSpec => SecondAttemptReaches
<1>1. AttemptInv => [\A k \in Callers : Miss(k) => k \in moved]_coordVars
  BY DEF AttemptInv, Miss
<1>. QED BY <1>1, CoordTypeInvariant, AttemptInit, AttemptNext, PTL
         DEF CoordSpec, SecondAttemptReaches

=============================================================================
