--------------------------- MODULE ProduceRecords ---------------------------
(***************************************************************************)
(* The produce path of producer.Client: concurrent calls of                *)
(* produceRecords (producer/producer.go) for batches of several            *)
(* topic-partitions, with the locks they share (orderLocks, inFlight,      *)
(* initMu), the idempotent identity they stamp on their batches            *)
(* (producerID, sequences) and their retry loop.                           *)
(*                                                                         *)
(* protocol.Send is seen from here as a request that is written at most    *)
(* MaxCopies times per attempt (its own transport retries) and returns a   *)
(* reply or an error.  Requests outlive the attempt that wrote them: a     *)
(* connection that is given up may already have carried its bytes to the   *)
(* broker.  The broker is external.                                        *)
(***************************************************************************)
EXTENDS Integers, Sequences, FiniteSets

CONSTANTS
    Calls,          \* calls of produceRecords: one Send, or one batch of the worker
    Keys,           \* batchKey: a topic and a partition
    Endpoints,      \* broker addresses a route can name
    Pids,           \* producer ids (with their epoch) the broker can hand out
    NoPid,          \* the -1 of an identity not yet initialised
    InitialPid,     \* options.ProducerID after normalizeOptions
    KeyOf,          \* the batchKey of a call
    SizeOf,         \* how many records the batch of a call holds
    Idempotent,     \* options.Idempotent
    Ordering,       \* options.Ordering = OrderingPerPartition
    MaxAttempts,    \* options.RetryMaxAttempts
    MaxInFlight,    \* options.MaxInFlight
    MaxCopies,      \* bound: times protocol.Send writes one attempt
    Lossy           \* deadlines pass and connections break (FALSE: never)

ASSUME SetsAssumption == /\ NoPid \notin Pids
                         /\ InitialPid \in Pids \cup {NoPid}
                         /\ Endpoints # {}
ASSUME CallsAssumption == IsFiniteSet(Calls)
ASSUME BatchAssumption == /\ KeyOf \in [Calls -> Keys]
                          /\ SizeOf \in [Calls -> Nat \ {0}]
ASSUME BoundAssumption == /\ MaxAttempts \in Nat \ {0}
                          /\ MaxInFlight \in Nat \ {0}
                          /\ MaxCopies \in Nat \ {0}
(* normalizeOptions turns OrderingNone into OrderingPerPartition for an    *)
(* idempotent producer, and drops a configured id from any other.          *)
ASSUME OptionsAssumption == /\ Idempotent \in BOOLEAN
                            /\ Ordering \in BOOLEAN
                            /\ Lossy \in BOOLEAN
                            /\ Idempotent => Ordering
                            /\ ~Idempotent => InitialPid = NoPid

VARIABLES
    pc,             \* where each call stands in produceRecords
    expired,        \* calls whose context (DeliveryTimeout or the caller's) is done
    attempt,        \* the loop variable of each call
    copy,           \* how often protocol.Send wrote the current attempt
    endpoint,       \* the endpoint of the route of the current attempt
    ident,          \* what batchIdentity returned to each call
    reply,          \* the answer waiting for the current copy
    result,         \* what produceRecords returns
    lock,           \* orderLocks: tokens in the one-place channel of each key
    inFlight,       \* tokens in the limiter channel of each endpoint
    initMu,         \* initMu is held
    producerID,     \* stateMu: producerID and epoch
    sequences,      \* stateMu: next base sequence of each key
    net,            \* requests written and not yet handled
    log,            \* per key, the batches the broker appended
    next,           \* per producer id and key, the sequence the broker expects
    allocated       \* producer ids handed out

loopVars   == <<attempt, copy, endpoint, ident, reply>>
callVars   == <<expired, loopVars, result>>
idVars     == <<producerID, sequences>>
clientVars == <<lock, inFlight, initMu, idVars>>
brokerVars == <<net, log, next, allocated>>
vars       == <<pc, callVars, clientVars, brokerVars>>

Key(c) == KeyOf[c]

None   == [kind |-> "none", offset |-> 0]
Failed == [kind |-> "failed", offset |-> 0]
Errors == {"retriable", "fatal", "missing"}
Replies == [kind : {"none", "ok", "failed"} \cup Errors, offset : Nat]
Requests == [call : Calls, attempt : 1..MaxAttempts, copy : 1..MaxCopies,
             pid : Pids \cup {NoPid}, seq : Int]
Entries == [call : Calls, pid : Pids \cup {NoPid}, seq : Int]

Before  == {"idle", "ordering", "done"}
Opening == {"ensureID", "initMu", "initRequest", "identity"}
Looping == {"route", "inFlight", "send", "backoff"}
Holding == Opening \cup Looping \cup {"commit", "unlock"}

TypeOK ==
    /\ pc \in [Calls -> Before \cup Holding]
    /\ expired \in SUBSET Calls
    /\ attempt \in [Calls -> 1..MaxAttempts]
    /\ copy \in [Calls -> 0..MaxCopies]
    /\ endpoint \in [Calls -> Endpoints]
    /\ ident \in [Calls -> [pid : Pids \cup {NoPid}, seq : Int]]
    /\ reply \in [Calls -> Replies]
    /\ result \in [Calls -> Replies]
    /\ lock \in [Keys -> 0..1]
    /\ inFlight \in [Endpoints -> 0..MaxInFlight]
    /\ initMu \in BOOLEAN
    /\ producerID \in Pids \cup {NoPid}
    /\ sequences \in [Keys -> Nat]
    /\ net \in SUBSET Requests
    /\ log \in [Keys -> Seq(Entries)]
    /\ next \in [Pids -> [Keys -> Nat]]
    /\ allocated \in SUBSET Pids

Init ==
    /\ pc = [c \in Calls |-> "idle"]
    /\ expired = {}
    /\ attempt = [c \in Calls |-> 1]
    /\ copy = [c \in Calls |-> 0]
    /\ endpoint = [c \in Calls |-> CHOOSE e \in Endpoints : TRUE]
    /\ ident = [c \in Calls |-> [pid |-> NoPid, seq |-> -1]]
    /\ reply = [c \in Calls |-> None]
    /\ result = [c \in Calls |-> None]
    /\ lock = [k \in Keys |-> 0]
    /\ inFlight = [e \in Endpoints |-> 0]
    /\ initMu = FALSE
    /\ producerID = InitialPid
    /\ sequences = [k \in Keys |-> 0]
    /\ net = {}
    /\ log = [k \in Keys |-> <<>>]
    /\ next = [p \in Pids |-> [k \in Keys |-> 0]]
    /\ allocated = IF InitialPid = NoPid THEN {} ELSE {InitialPid}

-----------------------------------------------------------------------------
(* Guards and updates shared by the actions.                               *)

GoTo(c, label) == pc' = [pc EXCEPT ![c] = label]
Return(c, r) == result' = [result EXCEPT ![c] = r]

(* Plausible mistakes, each the replacement of the definition its name     *)
(* starts with; no action uses them.  They show that the properties can    *)
(* fail.                                                                   *)
OrderingFreeAlways(c)       == TRUE
TokenReturnedNever(c)       == inFlight
NeedsProducerIDUnchecked(c) == TRUE
CommitSequenceBatches(c)    == [sequences EXCEPT ![Key(c)] = @ + 1]
CommitSequenceNever(c)      == sequences
ProduceRequestRenumbered(c, n) ==
    [call |-> c, attempt |-> attempt[c], copy |-> n, pid |-> ident[c].pid,
     seq |-> ident[c].seq + (attempt[c] - 1) * SizeOf[c]]
TakeIdentityReserving(c) ==
    /\ pc[c] = "identity"
    /\ ident' = [ident EXCEPT ![c] = [pid |-> producerID, seq |-> sequences[Key(c)]]]
    /\ sequences' = [sequences EXCEPT ![Key(c)] = @ + SizeOf[c]]
    /\ GoTo(c, "route")
    /\ UNCHANGED <<expired, attempt, copy, endpoint, reply, result, lock, inFlight, initMu, producerID, brokerVars>>
InitProducerIDFailsLocked(c) ==
    /\ pc[c] = "initRequest"
    /\ Return(c, Failed)
    /\ GoTo(c, "unlock")
    /\ UNCHANGED <<expired, loopVars, clientVars, brokerVars>>

(* The send on the one-place channel of the key goes through.              *)
OrderingFree(c) == Ordering => lock[Key(c)] = 0
Locked(c)       == IF Ordering THEN [lock EXCEPT ![Key(c)] = 1] ELSE lock

(* releaseOrdering takes whatever token the channel of the key holds.      *)
Unlocked(c)     == IF Ordering THEN [lock EXCEPT ![Key(c)] = 0] ELSE lock

InFlightFree(c) == inFlight[endpoint[c]] < MaxInFlight
TokenTaken(c)   == [inFlight EXCEPT ![endpoint[c]] = @ + 1]
TokenReturned(c) ==
    [inFlight EXCEPT ![endpoint[c]] = IF @ > 0 THEN @ - 1 ELSE 0]

(* initProducerID looks at producerID again once it holds initMu.          *)
NeedsProducerID(c) == producerID = NoPid

BatchIdentity(c) == IF Idempotent
                    THEN [pid |-> producerID, seq |-> sequences[Key(c)]]
                    ELSE [pid |-> NoPid, seq |-> -1]

(* The batch is stamped with the identity read before the loop, whatever   *)
(* the attempt.                                                            *)
ProduceRequest(c, n) == [call |-> c, attempt |-> attempt[c], copy |-> n,
                         pid |-> ident[c].pid, seq |-> ident[c].seq]

CommitSequence(c) == IF Idempotent
                     THEN [sequences EXCEPT ![Key(c)] = @ + SizeOf[c]]
                     ELSE sequences

ShouldRetryProduce(c, kind) == /\ attempt[c] < MaxAttempts
                               /\ c \notin expired
                               /\ kind = "retriable"

(* What follows an attempt that did not succeed.  A response without the   *)
(* partition asks neither the context nor the backoff before it loops.     *)
AfterFailure(c, kind) ==
    IF kind = "missing" /\ attempt[c] < MaxAttempts
    THEN /\ GoTo(c, "route")
         /\ attempt' = [attempt EXCEPT ![c] = @ + 1]
         /\ UNCHANGED result
    ELSE IF ShouldRetryProduce(c, kind)
    THEN GoTo(c, "backoff") /\ UNCHANGED <<attempt, result>>
    ELSE GoTo(c, "unlock") /\ Return(c, Failed) /\ UNCHANGED attempt

-----------------------------------------------------------------------------
(* The calls.                                                              *)

Start(c) ==
    /\ pc[c] = "idle"
    /\ GoTo(c, "ordering")
    /\ UNCHANGED <<callVars, clientVars, brokerVars>>

(* DeliveryTimeout passes, or the caller cancels.                          *)
Expire(c) ==
    /\ Lossy
    /\ pc[c] \notin {"idle", "done"}
    /\ c \notin expired
    /\ expired' = expired \cup {c}
    /\ UNCHANGED <<pc, loopVars, result, clientVars, brokerVars>>

AcquireOrdering(c) ==
    /\ pc[c] = "ordering"
    /\ OrderingFree(c)
    /\ lock' = Locked(c)
    /\ GoTo(c, "ensureID")
    /\ UNCHANGED <<callVars, inFlight, initMu, idVars, brokerVars>>

(* The wait for the partition ends with the context; nothing was acquired. *)
AcquireOrderingCanceled(c) ==
    /\ pc[c] = "ordering"
    /\ Ordering
    /\ c \in expired
    /\ Return(c, Failed)
    /\ GoTo(c, "done")
    /\ expired' = expired \ {c}
    /\ UNCHANGED <<loopVars, clientVars, brokerVars>>

EnsureProducerID(c) ==
    /\ pc[c] = "ensureID"
    /\ GoTo(c, IF Idempotent /\ producerID = NoPid THEN "initMu" ELSE "identity")
    /\ UNCHANGED <<callVars, clientVars, brokerVars>>

(* initMu.Lock and the second look at producerID.  Found set, the mutex is *)
(* released at once; found unset, it is held across the request.           *)
LockInit(c) ==
    /\ pc[c] = "initMu"
    /\ ~initMu
    /\ initMu' = NeedsProducerID(c)
    /\ GoTo(c, IF NeedsProducerID(c) THEN "initRequest" ELSE "identity")
    /\ UNCHANGED <<callVars, lock, inFlight, idVars, brokerVars>>

(* The broker hands out a fresh id and its answer arrives.                 *)
InitProducerID(c) ==
    /\ pc[c] = "initRequest"
    /\ \E p \in Pids \ allocated :
         /\ producerID' = p
         /\ allocated' = allocated \cup {p}
    /\ initMu' = FALSE
    /\ GoTo(c, "identity")
    /\ UNCHANGED <<callVars, lock, inFlight, sequences, net, log, next>>

(* No bootstrap, a transport error, a deadline or an error code.           *)
InitProducerIDFails(c) ==
    /\ pc[c] = "initRequest"
    /\ initMu' = FALSE
    /\ Return(c, Failed)
    /\ GoTo(c, "unlock")
    /\ UNCHANGED <<expired, loopVars, lock, inFlight, idVars, brokerVars>>

TakeIdentity(c) ==
    /\ pc[c] = "identity"
    /\ ident' = [ident EXCEPT ![c] = BatchIdentity(c)]
    /\ GoTo(c, "route")
    /\ UNCHANGED <<expired, attempt, copy, endpoint, reply, result, clientVars, brokerVars>>

(* metadata.Route for the first attempt, RefreshRoute for the others: the  *)
(* leader it names may have moved already.                                 *)
Route(c) ==
    /\ pc[c] = "route"
    /\ \E e \in Endpoints : endpoint' = [endpoint EXCEPT ![c] = e]
    /\ GoTo(c, "inFlight")
    /\ UNCHANGED <<expired, attempt, copy, ident, reply, result, clientVars, brokerVars>>

(* The route is not found, or the context ends the wait for a token or the *)
(* backoff.                                                                *)
GiveUp(c) ==
    /\ \/ pc[c] = "route"
       \/ pc[c] \in {"inFlight", "backoff"} /\ c \in expired
    /\ Return(c, Failed)
    /\ GoTo(c, "unlock")
    /\ UNCHANGED <<expired, loopVars, clientVars, brokerVars>>

AcquireInFlight(c) ==
    /\ pc[c] = "inFlight"
    /\ InFlightFree(c)
    /\ inFlight' = TokenTaken(c)
    /\ copy' = [copy EXCEPT ![c] = 0]
    /\ GoTo(c, "send")
    /\ UNCHANGED <<expired, attempt, endpoint, ident, reply, result, lock, initMu, idVars, brokerVars>>

(* protocol.Send writes the request, the first time or again because the   *)
(* connection of the last copy failed: the answer to that one is lost.     *)
WriteRequest(c) ==
    /\ pc[c] = "send"
    /\ copy[c] < MaxCopies
    /\ copy[c] = 0 \/ Lossy
    /\ copy' = [copy EXCEPT ![c] = @ + 1]
    /\ reply' = [reply EXCEPT ![c] = None]
    /\ net' = net \cup {ProduceRequest(c, copy[c] + 1)}
    /\ UNCHANGED <<pc, expired, attempt, endpoint, ident, result, clientVars, log, next, allocated>>

(* protocol.Send gives up: the connection could not be opened or broke,    *)
(* RequestTimeout or the context of the call ended, or version negotiation *)
(* was refused.  What it wrote stays on its way.                           *)
SendFails(c) ==
    /\ pc[c] = "send"
    /\ copy[c] = 0 \/ Lossy
    /\ inFlight' = TokenReturned(c)
    /\ \E kind \in {"retriable", "fatal"} : AfterFailure(c, kind)
    /\ reply' = [reply EXCEPT ![c] = None]
    /\ UNCHANGED <<expired, copy, endpoint, ident, lock, initMu, idVars, brokerVars>>

ReplyError(c) ==
    /\ pc[c] = "send"
    /\ reply[c].kind \in Errors
    /\ inFlight' = TokenReturned(c)
    /\ AfterFailure(c, reply[c].kind)
    /\ reply' = [reply EXCEPT ![c] = None]
    /\ UNCHANGED <<expired, copy, endpoint, ident, lock, initMu, idVars, brokerVars>>

ReplyOk(c) ==
    /\ pc[c] = "send"
    /\ reply[c].kind = "ok"
    /\ inFlight' = TokenReturned(c)
    /\ Return(c, reply[c])
    /\ reply' = [reply EXCEPT ![c] = None]
    /\ GoTo(c, "commit")
    /\ UNCHANGED <<expired, attempt, copy, endpoint, ident, lock, initMu, idVars, brokerVars>>

(* retryBackoff: the timer fires, and the loop comes round.                *)
Backoff(c) ==
    /\ pc[c] = "backoff"
    /\ attempt' = [attempt EXCEPT ![c] = @ + 1]
    /\ GoTo(c, "route")
    /\ UNCHANGED <<expired, copy, endpoint, ident, reply, result, clientVars, brokerVars>>

Commit(c) ==
    /\ pc[c] = "commit"
    /\ sequences' = CommitSequence(c)
    /\ GoTo(c, "unlock")
    /\ UNCHANGED <<callVars, lock, inFlight, initMu, producerID, brokerVars>>

(* The deferred releaseOrdering and cancel, on every way out.              *)
ReleaseOrdering(c) ==
    /\ pc[c] = "unlock"
    /\ lock' = Unlocked(c)
    /\ GoTo(c, "done")
    /\ expired' = expired \ {c}
    /\ UNCHANGED <<loopVars, result, inFlight, initMu, idVars, brokerVars>>

-----------------------------------------------------------------------------
(* The broker.  A batch of an idempotent producer is appended when its     *)
(* base sequence is the one expected, and an exact repeat of an appended   *)
(* batch is acknowledged with that batch's offset.                         *)

Accepts(r) == r.pid # NoPid => r.seq = next[r.pid][Key(r.call)]
Repeats(r, i) == LET e == log[Key(r.call)][i]
                 IN  /\ r.pid # NoPid
                     /\ e.pid = r.pid
                     /\ e.seq = r.seq
                     /\ SizeOf[e.call] = SizeOf[r.call]

(* The answer is seen only by the attempt and the copy it is the answer to. *)
Answer(r, kind, offset) ==
    reply' = IF /\ pc[r.call] = "send"
                /\ r.attempt = attempt[r.call]
                /\ r.copy = copy[r.call]
             THEN [reply EXCEPT ![r.call] = [kind |-> kind, offset |-> offset]]
             ELSE reply

BrokerAppends(r) ==
    /\ Accepts(r)
    /\ net' = net \ {r}
    /\ log' = [log EXCEPT ![Key(r.call)] =
                 Append(@, [call |-> r.call, pid |-> r.pid, seq |-> r.seq])]
    /\ next' = IF r.pid = NoPid THEN next
               ELSE [next EXCEPT ![r.pid][Key(r.call)] = @ + SizeOf[r.call]]
    /\ Answer(r, "ok", Len(log[Key(r.call)]) + 1)
    /\ UNCHANGED <<pc, expired, attempt, copy, endpoint, ident, result, clientVars, allocated>>

BrokerRepeats(r) ==
    /\ \E i \in DOMAIN log[Key(r.call)] : Repeats(r, i) /\ Answer(r, "ok", i)
    /\ net' = net \ {r}
    /\ UNCHANGED <<pc, expired, attempt, copy, endpoint, ident, result, clientVars, log, next, allocated>>

(* Any error code: not the leader, throttled, out of order sequence...     *)
BrokerRejects(r) ==
    /\ \E kind \in Errors : Answer(r, kind, 0)
    /\ net' = net \ {r}
    /\ UNCHANGED <<pc, expired, attempt, copy, endpoint, ident, result, clientVars, log, next, allocated>>

-----------------------------------------------------------------------------
(* What the goroutine of a call does by itself, once it has been called.   *)
Step(c) ==
    \/ AcquireOrdering(c) \/ AcquireOrderingCanceled(c)
    \/ EnsureProducerID(c) \/ LockInit(c)
    \/ InitProducerID(c) \/ InitProducerIDFails(c)
    \/ TakeIdentity(c) \/ Route(c) \/ GiveUp(c)
    \/ AcquireInFlight(c) \/ WriteRequest(c) \/ SendFails(c)
    \/ ReplyError(c) \/ ReplyOk(c)
    \/ Backoff(c) \/ Commit(c) \/ ReleaseOrdering(c)

Broker(r) == BrokerAppends(r) \/ BrokerRepeats(r) \/ BrokerRejects(r)

Next == \/ \E c \in Calls : Start(c) \/ Expire(c) \/ Step(c)
        \/ \E r \in net : Broker(r)

Spec == Init /\ [][Next]_vars

(* Inside protocol.Send: the request for a producer id, the metadata       *)
(* refresh of a route, the produce request.                                *)
Requesting(c) == pc[c] \in {"initRequest", "route", "send"}

(* Go schedules every goroutine, and every deadline passes                 *)
(* (normalizeOptions leaves none at zero).  Nothing makes protocol.Send    *)
(* return: the wait for writeMu and conn.Write do not look at the context. *)
FairSpec == Spec /\ \A c \in Calls : /\ WF_vars(~Requesting(c) /\ Step(c))
                                    /\ WF_vars(Expire(c))

-----------------------------------------------------------------------------
(* Properties.                                                             *)

Acked(c)  == pc[c] \in {"unlock", "done"} /\ result[c].kind = "ok"
Batch(c)  == ident[c].seq .. (ident[c].seq + SizeOf[c] - 1)
Identified(c) == ident[c].seq # -1

(* No token is lost and none is invented: the channel of a partition holds *)
(* one exactly while a single call stands between acquireOrdering and its  *)
(* deferred release, and the limiter of an endpoint holds one per call     *)
(* inside protocol.Send, however the calls are cut short.                  *)
TokensMatchHolders ==
    /\ Ordering => \A k \in Keys :
         lock[k] = Cardinality({c \in Calls : Key(c) = k /\ pc[c] \in Holding})
    /\ \A e \in Endpoints :
         inFlight[e] = Cardinality({c \in Calls : endpoint[c] = e /\ pc[c] = "send"})

(* Calls of one partition never overlap, from acquireOrdering to the end   *)
(* ("OrderingPerPartition serializes batches for the same topic            *)
(* partition").                                                            *)
BatchesSerialized ==
    Ordering => \A c, d \in Calls :
        Key(c) = Key(d) /\ pc[c] \in Holding /\ pc[d] \in Holding => c = d

(* However many calls find the producer id unset at the same moment, one   *)
(* id is taken and every batch carries it (the look at producerID under    *)
(* initMu in initProducerID).                                              *)
OneProducerID ==
    Idempotent => \A c \in Calls : Identified(c) => ident[c].pid = producerID

(* The batches acknowledged to the callers of a partition tile the         *)
(* sequence numbers used so far: none is shared by two of them, none is    *)
(* skipped, none is beyond sequences[key].                                 *)
AckedBatchesTileSequences ==
    Idempotent => \A k \in Keys :
        LET acked == {c \in Calls : Key(c) = k /\ Acked(c)}
        IN  /\ \A c \in acked : Batch(c) \subseteq 0 .. sequences[k] - 1
            /\ \A n \in 0 .. sequences[k] - 1 : \E c \in acked : n \in Batch(c)
            /\ \A c, d \in acked : c # d => Batch(c) \cap Batch(d) = {}

(* No request opens a gap: its base sequence is at most the one the broker *)
(* expects, so that the broker has no cause to answer                      *)
(* OUT_OF_ORDER_SEQUENCE_NUMBER, whatever was lost, delayed or given up.   *)
NoSequenceGap ==
    Idempotent => \A r \in net : r.seq <= next[r.pid][Key(r.call)]

(* Retries of the attempt loop, of protocol.Send and late copies of both   *)
(* put the batch of an idempotent producer in the log once at most.        *)
AppendedAtMostOnce ==
    Idempotent => \A k \in Keys : \A i, j \in DOMAIN log[k] :
        log[k][i].call = log[k][j].call => i = j

(* The offset in the Metadata of an acknowledged record is where the       *)
(* broker put that record's batch ("Metadata describes an acknowledged     *)
(* record").                                                               *)
MetadataNamesOwnBatch ==
    \A c \in Calls : Acked(c) =>
        /\ result[c].offset \in DOMAIN log[Key(c)]
        /\ log[Key(c)][result[c].offset].call = c

(* A call is never stuck anywhere but inside protocol.Send, or behind      *)
(* initMu, whose Lock does not look at the context, while the call that    *)
(* holds it is there.  The attempts being bounded, a call whose requests   *)
(* return, returns; and one that never gets out of protocol.Send keeps     *)
(* nobody waiting for its partition or its endpoint past their deadline.   *)
StuckOnlyInRequests ==
    \A c \in Calls : pc[c] # "idle" ~>
        \/ pc[c] = "done"
        \/ Requesting(c)
        \/ pc[c] = "initMu" /\ \E d \in Calls : pc[d] = "initRequest"

-----------------------------------------------------------------------------
(* The refinement mapping to Delivery.                                     *)

StatusOf(c) == CASE pc[c] = "idle" -> "idle"
                 [] pc[c] # "idle" /\ result[c].kind = "none" -> "pending"
                 [] result[c].kind = "ok" -> "acked"
                 [] OTHER -> "failed"

InLog(c) == \E i \in DOMAIN log[Key(c)] : log[Key(c)][i].call = c

Promise == INSTANCE Delivery WITH
    status   <- [c \in Calls |-> StatusOf(c)],
    appended <- {c \in Calls : InLog(c)}

(* Without lost time or connections, the answer a caller gets is what      *)
(* happened: acknowledged batches, and only those, are in the log, once.   *)
(* It is the hardest to keep when one batch fails and the next one of the  *)
(* partition takes its place in the sequence.                              *)
DeliveryKept == Promise!Spec
=============================================================================
