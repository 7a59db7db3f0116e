-------------------------- MODULE MetadataManager --------------------------
(***************************************************************************)
(* The route cache of internal/metadata/manager.go under concurrent calls, *)
(* over a cluster whose topics are created and whose leaders change.  The  *)
(* calls are the users of the cache: admin ListOffsets (Route, the leader, *)
(* then RefreshRoute and the leader again), the producer's selectPartition *)
(* (ensureTopic, createTopic, PartitionIDs), admin CreateTopic and         *)
(* CreateTopicIfAbsent, and Refresh itself.                                *)
(*                                                                         *)
(* A partition has a new leader in every epoch, so an epoch stands for the *)
(* whole PartitionRoute; 0 stands for "no route" and "no such topic".      *)
(***************************************************************************)
EXTENDS Naturals, FiniteSets

CONSTANTS
    Calls,        \* calls running concurrently, each of which ends
    Topics,
    Partitions,   \* the partitions of every topic, 0 and up
    Hashes,       \* hashes of record keys
    Requests,     \* what calls may ask for
    Bootstraps,   \* number of bootstrap endpoints
    MaxAttempts,  \* RetryOptions.MaxAttempts of the protocol client
    Movable,      \* bound: the partitions whose leader may change
    MaxEpoch      \* bound: leader epochs a partition goes through

TopicPartition == Topics \X Partitions

\* "list": ListOffsets; "send": selectPartition, for an explicit partition
\* unless it is 0; "metadata": Refresh of the topics; "create", "ifAbsent":
\* the two of the admin client.  autoCreate is ~DisableAutoCreateTopics of the
\* producer, leaderEpoch the CurrentLeaderEpoch given to ListOffsets, or 0.
Request == [op: {"list", "send", "metadata", "create", "ifAbsent"},
            topics: SUBSET Topics, topic: Topics,
            partition: Partitions, hash: Hashes,
            autoCreate: BOOLEAN, leaderEpoch: 0 .. MaxEpoch]

ASSUME ConstantsAssumption ==
    /\ Requests \subseteq Request
    /\ Movable \subseteq TopicPartition
    /\ \A r \in Requests : r.op # "metadata" => r.topics = {r.topic}
ASSUME SizeAssumption ==
    /\ Partitions \subseteq Nat /\ Hashes \subseteq Nat
    /\ IsFiniteSet(Partitions) /\ 0 \in Partitions
    /\ Bootstraps \in Nat \ {0} /\ MaxAttempts \in Nat \ {0}
    /\ MaxEpoch \in Nat \ {0}

VARIABLES
    epoch,       \* the cluster: leader epoch of a partition, 0 before creation
    leaderless,  \* the cluster: partitions that wait for a new leader
    routes,      \* Manager.routes
    pc,          \* where each call is
    req,         \* its request
    stage,       \* ListOffsets: attempt; selectPartition: 1 ensure, 2 created, 3 select
    try,         \* bootstrap endpoint asked, or attempt at creating the topic
    answer,      \* response it has yet to take: routes, and topics that exist
    route,       \* the route it uses
    chosen,      \* the partition it selected
    result,      \* how it returned
    began,       \* history: epochs when its last refresh began
    overlap,     \* history: for its own partition, the epochs at which the
                 \* refreshes under way at that moment had begun
    replaced     \* history: calls of which the routes they had brought were
                 \* taken away since, see TakenFrom

cluster == <<epoch, leaderless>>
history == <<began, overlap, replaced>>
vars == <<cluster, routes, pc, req, stage, try, answer, route, chosen, result, history>>

Epochs == 0 .. MaxEpoch
NoRoutes == [tp \in TopicPartition |-> 0]
NoAnswer == [routes |-> NoRoutes, topics |-> {}]
Outcomes == {"none", "ok", "missing", "notleader", "error"}
Phases == {"idle", "lookup", "asking", "answered", "reading", "using",
           "creating", "created", "done"}

TypeOK ==
    /\ epoch \in [TopicPartition -> Epochs]
    /\ leaderless \subseteq TopicPartition
    /\ routes \in [TopicPartition -> Epochs]
    /\ pc \in [Calls -> Phases]
    /\ req \in [Calls -> Request]
    /\ stage \in [Calls -> 1 .. 3]
    /\ try \in [Calls -> Nat]
    /\ answer \in [Calls -> [routes: [TopicPartition -> Epochs], topics: SUBSET Topics]]
    /\ route \in [Calls -> Epochs]
    /\ chosen \in [Calls -> Partitions]
    /\ result \in [Calls -> Outcomes]
    /\ began \in [Calls -> [TopicPartition -> Epochs]]
    /\ overlap \in [Calls -> SUBSET Epochs]
    /\ replaced \subseteq Calls

Init ==
    /\ epoch \in [TopicPartition -> {0, 1}]
    /\ \A t \in Topics, p, q \in Partitions : epoch[<<t, p>>] = epoch[<<t, q>>]
    /\ leaderless = {}
    /\ routes = NoRoutes
    /\ pc = [c \in Calls |-> "idle"]
    /\ req \in [Calls -> Requests]
    /\ stage = [c \in Calls |-> 1]
    /\ try = [c \in Calls |-> 1]
    /\ answer = [c \in Calls |-> NoAnswer]
    /\ route = [c \in Calls |-> 0]
    /\ chosen = [c \in Calls |-> 0]
    /\ result = [c \in Calls |-> "none"]
    /\ began = [c \in Calls |-> NoRoutes]
    /\ overlap = [c \in Calls |-> {}]
    /\ replaced = {}

-----------------------------------------------------------------------------
Own(c) == <<req[c].topic, req[c].partition>>

Goto(c, phase) == pc' = [pc EXCEPT ![c] = phase]

Return(c, outcome) ==
    /\ Goto(c, "done")
    /\ result' = [result EXCEPT ![c] = outcome]

Refreshing == {c \in Calls : pc[c] \in {"asking", "answered"}}

\* Refresh asks the first bootstrap endpoint.
BeginRefresh(c) ==
    /\ Goto(c, "asking")
    /\ try' = [try EXCEPT ![c] = 1]
    /\ began' = [began EXCEPT ![c] = epoch]
    /\ overlap' = [overlap EXCEPT ![c] =
                       {epoch[Own(c)]} \cup {began[d][Own(c)] : d \in Refreshing}]

\* partitionIDsLocked
PartitionIDs(topic) == {p \in Partitions : routes[<<topic, p>>] # 0}

\* KeyHashPartitioner takes the one of the sorted ids that has as many before
\* it as the hash modulo their number.
KeyHashPartition(p, hash, ids) ==
    /\ p \in ids
    /\ Cardinality({q \in ids : q < p}) = hash % Cardinality(ids)

\* The first look of Route or PartitionIDs at the cache, and their second look
\* after a refresh, succeed.
Cached(c) ==
    \/ req[c].op = "list" /\ routes[Own(c)] # 0
    \/ req[c].op = "send" /\ PartitionIDs(req[c].topic) # {}

Start(c) ==
    /\ pc[c] = "idle"
    /\ Goto(c, "lookup")
    /\ UNCHANGED <<cluster, routes, req, stage, try, answer, route, chosen, result, history>>

\* Route and RefreshRoute return the cached route.
TakeRoute(c) ==
    /\ pc[c] \in {"lookup", "reading"}
    /\ req[c].op = "list"
    /\ Cached(c)
    /\ route' = [route EXCEPT ![c] = routes[Own(c)]]
    /\ Goto(c, "using")
    /\ UNCHANGED <<cluster, routes, req, stage, try, answer, chosen, result, history>>

\* selectPartition when ensureTopic has returned: an explicit partition is
\* taken as it is, for another record PartitionIDs looks at the cache again.
TopicEnsured(c) ==
    IF req[c].partition # 0
    THEN /\ chosen' = [chosen EXCEPT ![c] = req[c].partition]
         /\ Return(c, "ok")
         /\ UNCHANGED stage
    ELSE /\ Goto(c, "lookup")
         /\ stage' = [stage EXCEPT ![c] = 3]
         /\ UNCHANGED <<chosen, result>>

\* ensureTopic finds the topic in the cache, or is not to create any.
EnsureTopic(c) ==
    /\ pc[c] \in {"lookup", "reading"}
    /\ req[c].op = "send" /\ stage[c] = 1
    /\ Cached(c) \/ ~req[c].autoCreate
    /\ TopicEnsured(c)
    /\ UNCHANGED <<cluster, routes, req, try, answer, route, history>>

\* Variant with a bug: a record with a key takes its turn like one without.
SelectRoundRobin(c) ==
    /\ pc[c] \in {"lookup", "reading"}
    /\ req[c].op = "send" /\ stage[c] = 3
    /\ Cached(c)
    /\ \E p \in Partitions :
           /\ KeyHashPartition(p, Cardinality({d \in Calls : result[d] = "ok"}),
                               PartitionIDs(req[c].topic))
           /\ chosen' = [chosen EXCEPT ![c] = p]
    /\ Return(c, "ok")
    /\ UNCHANGED <<cluster, routes, req, stage, try, answer, route, history>>

SelectPartition(c) ==
    /\ pc[c] \in {"lookup", "reading"}
    /\ req[c].op = "send" /\ stage[c] = 3
    /\ Cached(c)
    /\ \E p \in Partitions :
           /\ KeyHashPartition(p, req[c].hash, PartitionIDs(req[c].topic))
           /\ chosen' = [chosen EXCEPT ![c] = p]
    /\ Return(c, "ok")
    /\ UNCHANGED <<cluster, routes, req, stage, try, answer, route, history>>

\* Nothing cached, or Refresh called outright.
Refresh(c) ==
    /\ pc[c] = "lookup"
    /\ req[c].op # "create"
    /\ ~Cached(c)
    /\ req[c].op = "send" /\ stage[c] = 1 => req[c].autoCreate
    /\ BeginRefresh(c)
    /\ UNCHANGED <<cluster, routes, req, stage, answer, route, chosen, result, replaced>>

\* The refresh brought no route, or another one has replaced the routes since:
\* ensureTopic creates the topic, the others fail.
StillMissing(c) ==
    /\ pc[c] = "reading"
    /\ ~Cached(c)
    /\ IF req[c].op = "send" /\ stage[c] = 1
       THEN Goto(c, "creating") /\ try' = [try EXCEPT ![c] = 1] /\ UNCHANGED result
       ELSE Return(c, "missing") /\ UNCHANGED try
    /\ UNCHANGED <<cluster, routes, req, stage, answer, route, chosen, history>>

-----------------------------------------------------------------------------
\* The broker answers from what it knows then: routes of the partitions asked
\* for that have a leader, and which of the topics exist.
Answer(c) ==
    /\ pc[c] = "asking"
    /\ answer' = [answer EXCEPT ![c] =
          [routes |-> [tp \in TopicPartition |->
                          IF tp[1] \in req[c].topics /\ tp \notin leaderless
                          THEN epoch[tp] ELSE 0],
           topics |-> {t \in req[c].topics : epoch[<<t, 0>>] # 0}]]
    /\ Goto(c, "answered")
    /\ UNCHANGED <<cluster, routes, req, stage, try, route, chosen, result, history>>

\* A bootstrap endpoint fails: the next one, or the error of the last.
AskFails(c) ==
    /\ pc[c] = "asking"
    /\ IF try[c] < Bootstraps
       THEN try' = [try EXCEPT ![c] = @ + 1] /\ UNCHANGED <<pc, result>>
       ELSE Return(c, "error") /\ UNCHANGED try
    /\ UNCHANGED <<cluster, routes, req, stage, answer, route, chosen, history>>

\* Variant with a bug: the routes already cached stay.
UpdatedMerging(response) ==
    [tp \in TopicPartition |-> IF routes[tp] # 0 THEN routes[tp] ELSE response.routes[tp]]

\* Variant with a bug: the new routes are not assigned to the manager.
UpdatedUnassigned(response) == routes

\* The routes update installs: those of the response and no others.
Updated(response) == response.routes

\* The calls that are about to look for routes of their own refresh when the
\* cache takes a response to d, unless that one names the same topic and d
\* asked when all of the topic was there.
TakenFrom(d) ==
    {c \in Calls \ {d} :
        /\ pc[c] = "reading"
        /\ \/ req[c].topic \notin req[d].topics
           \/ \E p \in Partitions : began[d][<<req[c].topic, p>>] = 0}

\* update replaces the routes of every topic, and Refresh returns: to a second
\* look at the cache, to selectPartition after createTopic, to admin Metadata,
\* or to CreateTopicIfAbsent, which goes by the response.
Update(c) ==
    /\ pc[c] = "answered"
    /\ routes' = Updated(answer[c])
    /\ answer' = [answer EXCEPT ![c] = NoAnswer]
    /\ replaced' = (replaced \ {c}) \cup TakenFrom(c)
    /\ \/ /\ \/ req[c].op = "list"
             \/ req[c].op = "send" /\ stage[c] # 2
          /\ Goto(c, "reading")
          /\ UNCHANGED <<stage, try, chosen, result>>
       \/ /\ req[c].op = "send" /\ stage[c] = 2
          /\ TopicEnsured(c)
          /\ UNCHANGED try
       \/ /\ \/ req[c].op = "metadata"
             \/ req[c].op = "ifAbsent" /\ req[c].topic \in answer[c].topics
          /\ Return(c, "ok")
          /\ UNCHANGED <<stage, try, chosen>>
       \/ /\ req[c].op = "ifAbsent" /\ req[c].topic \notin answer[c].topics
          /\ Goto(c, "creating")
          /\ try' = [try EXCEPT ![c] = 1]
          /\ UNCHANGED <<stage, chosen, result>>
    /\ UNCHANGED <<cluster, req, route, began, overlap>>

-----------------------------------------------------------------------------
\* The epoch ListOffsets names: the caller's, or that of the route.
SentEpoch(c) == IF req[c].leaderEpoch = 0 THEN route[c] ELSE req[c].leaderEpoch

\* The request is at the leader, the route being that of its epoch, and names
\* that epoch.
AtLeader(c) ==
    /\ Own(c) \notin leaderless
    /\ route[c] = epoch[Own(c)] /\ SentEpoch(c) = epoch[Own(c)]

LeaderAccepts(c) ==
    /\ pc[c] = "using"
    /\ AtLeader(c)
    /\ Return(c, "ok")
    /\ UNCHANGED <<cluster, routes, req, stage, try, answer, route, chosen, history>>

\* Variant with a bug: every refused request is tried again, whatever the attempt.
SecondAttemptUnbounded(c) ==
    /\ pc[c] = "using"
    /\ BeginRefresh(c)
    /\ UNCHANGED <<cluster, routes, req, stage, answer, route, chosen, result, replaced>>

\* It refuses, or the request fails: the second attempt uses RefreshRoute.
SecondAttempt(c) ==
    /\ pc[c] = "using" /\ stage[c] = 1
    /\ stage' = [stage EXCEPT ![c] = 2]
    /\ BeginRefresh(c)
    /\ UNCHANGED <<cluster, routes, req, answer, route, chosen, result, replaced>>

LeaderRefuses(c) ==
    /\ pc[c] = "using" /\ stage[c] = 2
    /\ ~AtLeader(c)
    /\ Return(c, "notleader")
    /\ UNCHANGED <<cluster, routes, req, stage, try, answer, route, chosen, history>>

RequestFails(c) ==
    /\ pc[c] = "using"
    /\ Return(c, "error")
    /\ UNCHANGED <<cluster, routes, req, stage, try, answer, route, chosen, history>>

-----------------------------------------------------------------------------
CreateTopic(c) ==
    /\ pc[c] = "lookup" /\ req[c].op = "create"
    /\ Goto(c, "creating")
    /\ try' = [try EXCEPT ![c] = 1]
    /\ UNCHANGED <<cluster, routes, req, stage, answer, route, chosen, result, history>>

\* The protocol client sends a request again after a failure, or gives up.
CreateAgain(c) ==
    \/ /\ try[c] < MaxAttempts
       /\ try' = [try EXCEPT ![c] = @ + 1]
       /\ UNCHANGED <<pc, result>>
    \/ Return(c, "error") /\ UNCHANGED try

\* The broker creates the topic unless it exists, in which case it may refuse;
\* its answer may be lost.
BrokerCreates(c) ==
    /\ pc[c] = "creating"
    /\ epoch' = [tp \in TopicPartition |->
                    IF tp[1] = req[c].topic /\ epoch[tp] = 0 THEN 1 ELSE epoch[tp]]
    /\ \/ Goto(c, "created") /\ UNCHANGED <<try, result>>
       \/ epoch[Own(c)] # 0 /\ Return(c, "error") /\ UNCHANGED try
       \/ CreateAgain(c)
    /\ UNCHANGED <<leaderless, routes, req, stage, answer, route, chosen, history>>

CreateFails(c) ==
    /\ pc[c] = "creating"
    /\ CreateAgain(c)
    /\ UNCHANGED <<cluster, routes, req, stage, answer, route, chosen, history>>

\* Invalidate forgets the topic; ensureTopic then refreshes.
Invalidate(c) ==
    /\ pc[c] = "created"
    /\ routes' = [tp \in TopicPartition |-> IF tp[1] = req[c].topic THEN 0 ELSE routes[tp]]
    /\ IF req[c].op = "send"
       THEN /\ BeginRefresh(c)
            /\ stage' = [stage EXCEPT ![c] = 2]
            /\ UNCHANGED result
       ELSE Return(c, "ok") /\ UNCHANGED <<stage, try, began, overlap>>
    /\ replaced' = replaced \cup {d \in Calls : pc[d] = "reading" /\ req[d].topic = req[c].topic}
    /\ UNCHANGED <<cluster, req, answer, route, chosen>>

-----------------------------------------------------------------------------
LoseLeader(tp) ==
    /\ tp \in Movable \ leaderless
    /\ epoch[tp] \in 1 .. MaxEpoch - 1
    /\ leaderless' = leaderless \cup {tp}
    /\ UNCHANGED <<epoch, routes, pc, req, stage, try, answer, route, chosen, result, history>>

ElectLeader(tp) ==
    /\ tp \in leaderless
    /\ epoch[tp] < MaxEpoch
    /\ leaderless' = leaderless \ {tp}
    /\ epoch' = [epoch EXCEPT ![tp] = @ + 1]
    /\ UNCHANGED <<routes, pc, req, stage, try, answer, route, chosen, result, history>>

Step(c) ==
    \/ Start(c) \/ TakeRoute(c) \/ EnsureTopic(c) \/ SelectPartition(c)
    \/ Refresh(c) \/ StillMissing(c) \/ Answer(c) \/ AskFails(c) \/ Update(c)
    \/ LeaderAccepts(c) \/ SecondAttempt(c) \/ LeaderRefuses(c) \/ RequestFails(c)
    \/ CreateTopic(c) \/ BrokerCreates(c) \/ CreateFails(c) \/ Invalidate(c)

Next ==
    \/ \E c \in Calls : Step(c)
    \/ \E tp \in TopicPartition : LoseLeader(tp) \/ ElectLeader(tp)

\* Every call goes on: its requests have a timeout, and its goroutine is
\* scheduled.  Clusters need not elect a leader.
Spec == Init /\ [][Next]_vars /\ \A c \in Calls : WF_vars(Step(c))

-----------------------------------------------------------------------------
\* RefreshRoute (manager.go:195) does not return an older leader than one of
\* the refreshes under way when its own began could still see: an older
\* response installed over its own came from one of those.
RefreshedRoute ==
    \A c \in Calls :
        (pc[c] = "using" /\ stage[c] = 2) => \E e \in overlap[c] : e <= route[c]

\* ListOffsets (admin.go:210) gives up for a wrong leader only if the leader
\* has changed since one of the refreshes that overlap its second attempt
\* began, or its caller named another epoch than the leader's: a leader that
\* stays put is found by the one refresh it makes.
RefusedOnlyOnChange ==
    \A c \in Calls :
        result[c] = "notleader" =>
            \/ Own(c) \in leaderless
            \/ \E e \in overlap[c] : e < epoch[Own(c)]
            \/ req[c].leaderEpoch \notin {0, epoch[Own(c)]}

\* The partition has lost the leader it was created with.
Moved(tp) == tp \in leaderless \/ epoch[tp] > 1

\* ensureTopic (producer.go:258) asks to create a topic only if each of its
\* partitions was missing when its refresh began or has lost its leader, or if
\* between the update of that refresh and its second look at the cache (the
\* lock is free there, manager.go:170 and :233) another call took the routes
\* away: by a response about other topics or from before the topic, or by
\* Invalidate.  Whatever else calls do meanwhile, it finds the topic.
CreatesOnlyMissing ==
    \A c \in Calls :
        (pc[c] = "creating" /\ req[c].op = "send") =>
            \/ c \in replaced
            \/ \A p \in Partitions : \/ began[c][<<req[c].topic, p>>] = 0
                                     \/ Moved(<<req[c].topic, p>>)

\* KeyHashPartitioner over PartitionIDs (producer.go:237): records of one key
\* go to one partition.
KeysStay ==
    \A c, d \in Calls :
        (/\ req[c].op = "send" /\ req[d].op = "send"
         /\ req[c].topic = req[d].topic
         /\ req[c].partition = 0 /\ req[d].partition = 0
         /\ req[c].hash = req[d].hash
         /\ result[c] = "ok" /\ result[d] = "ok") => chosen[c] = chosen[d]

\* They do so as long as no partition of the topic loses its leader.
KeysStayWhileLed ==
    (leaderless = {} /\ \A tp \in TopicPartition : epoch[tp] <= 1) => KeysStay

\* Every call whose requests end returns, whatever the cluster does.
CallsReturn == \A c \in Calls : <>(pc[c] = "done")
=============================================================================
