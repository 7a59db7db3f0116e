------------------------ MODULE ProduceRecordsProofs ------------------------
(***************************************************************************)
(* Proofs about ProduceRecords, for any calls, partitions and limits.      *)
(* First its own invariant, which follows the tokens of locks and limits   *)
(* and the sequence numbers of batches.  Then what holds unless a deadline *)
(* passes or a connection breaks (~Lossy): every answer reaches the        *)
(* attempt that waits for it, so that what is in the log was, or will be,  *)
(* acknowledged with its own offset, and Delivery is implemented.          *)
(***************************************************************************)
EXTENDS ProduceRecords, FiniteSetTheorems, TLAPS

(* An attempt that backs off is not the last one: what keeps the loop      *)
(* variable within RetryMaxAttempts.                                       *)
BackoffHasAttemptLeft == \A c \in Calls : pc[c] = "backoff" => attempt[c] < MaxAttempts

TypeInv == TypeOK /\ BackoffHasAttemptLeft

(* The initial state is well typed.                                        *)
LEMMA TypeInit == Init => TypeInv
  <1> SUFFICES ASSUME Init PROVE TypeInv
      OBVIOUS
  <1>1. (CHOOSE e \in Endpoints : TRUE) \in Endpoints
      BY SetsAssumption
  <1>2. None \in Replies /\ [pid |-> NoPid, seq |-> -1] \in [pid : Pids \cup {NoPid}, seq : Int]
      BY DEF None, Replies
  <1>3. log \in [Keys -> Seq(Entries)]
      BY DEF Init
  <1>4. initMu \in BOOLEAN /\ BackoffHasAttemptLeft
      BY DEF Init, BackoffHasAttemptLeft
  <1>5. /\ pc \in [Calls -> Before \cup Holding]
        /\ expired \in SUBSET Calls
        /\ attempt \in [Calls -> 1..MaxAttempts]
        /\ copy \in [Calls -> 0..MaxCopies]
        /\ endpoint \in [Calls -> Endpoints]
      BY <1>1, BoundAssumption DEF Init, Before
  <1>6. /\ ident \in [Calls -> [pid : Pids \cup {NoPid}, seq : Int]]
        /\ reply \in [Calls -> Replies]
        /\ result \in [Calls -> Replies]
      BY <1>2 DEF Init
  <1>7. /\ lock \in [Keys -> 0..1]
        /\ inFlight \in [Endpoints -> 0..MaxInFlight]
        /\ sequences \in [Keys -> Nat]
        /\ next \in [Pids -> [Keys -> Nat]]
      BY BoundAssumption DEF Init
  <1>8. /\ producerID \in Pids \cup {NoPid}
        /\ net \in SUBSET Requests
        /\ allocated \in SUBSET Pids
      BY SetsAssumption DEF Init
  <1> QED
      BY <1>3, <1>4, <1>5, <1>6, <1>7, <1>8 DEF TypeInv, TypeOK

(* What AfterFailure does to the variables it decides.                     *)
LEMMA AfterFailureType ==
    ASSUME TypeInv, NEW c \in Calls, NEW kind, AfterFailure(c, kind)
    PROVE  /\ pc' \in [Calls -> Before \cup Holding]
           /\ attempt' \in [Calls -> 1..MaxAttempts]
           /\ result' \in [Calls -> Replies]
           /\ \A d \in Calls : pc'[d] = "backoff" => attempt'[d] < MaxAttempts
  <1> USE BoundAssumption DEF GoTo, Return
  <1>1. /\ pc \in [Calls -> Before \cup Holding]
        /\ attempt \in [Calls -> 1..MaxAttempts]
        /\ result \in [Calls -> Replies]
        /\ \A d \in Calls : pc[d] = "backoff" => attempt[d] < MaxAttempts
      BY DEF TypeInv, TypeOK, BackoffHasAttemptLeft
  <1>2. {"route", "backoff", "unlock"} \subseteq Holding
      BY DEF Holding, Looping
  <1>3. CASE kind = "missing" /\ attempt[c] < MaxAttempts
      BY <1>1, <1>2, <1>3 DEF AfterFailure
  <1>4. CASE ~(kind = "missing" /\ attempt[c] < MaxAttempts) /\ ShouldRetryProduce(c, kind)
      BY <1>1, <1>2, <1>4 DEF AfterFailure, ShouldRetryProduce
  <1>5. CASE ~(kind = "missing" /\ attempt[c] < MaxAttempts) /\ ~ShouldRetryProduce(c, kind)
    <2>1. Failed \in Replies
        BY DEF Failed, Replies
    <2>2. pc' = [pc EXCEPT ![c] = "unlock"] /\ result' = [result EXCEPT ![c] = Failed] /\ attempt' = attempt
        BY <1>5 DEF AfterFailure
    <2> QED  BY <1>1, <1>2, <2>1, <2>2
  <1> QED
      BY <1>3, <1>4, <1>5

(* A step of a call keeps the types.                                       *)
LEMMA TypeCall ==
    ASSUME TypeInv, NEW c \in Calls, Start(c) \/ Expire(c) \/ Step(c)
    PROVE  TypeInv'
  <1> USE SetsAssumption, BatchAssumption, BoundAssumption, OptionsAssumption
      DEF TypeInv, TypeOK, BackoffHasAttemptLeft, vars, callVars, loopVars, idVars,
          clientVars, brokerVars, GoTo, Return, Key, Before, Holding, Opening, Looping
  <1>1. CASE Start(c)  BY <1>1 DEF Start
  <1>2. CASE Expire(c)  BY <1>2 DEF Expire
  <1>3. CASE AcquireOrdering(c)
    <2>1. lock' \in [Keys -> 0..1]
        BY <1>3 DEF AcquireOrdering, Locked
    <2> QED  BY <1>3, <2>1 DEF AcquireOrdering
  <1>4. CASE AcquireOrderingCanceled(c)
      BY <1>4 DEF AcquireOrderingCanceled, Failed, Replies
  <1>5. CASE EnsureProducerID(c)  BY <1>5 DEF EnsureProducerID
  <1>6. CASE LockInit(c)  
    <2>1. initMu' \in BOOLEAN
        BY <1>6 DEF LockInit, NeedsProducerID
    <2>2. pc' = [pc EXCEPT ![c] = "initRequest"] \/ pc' = [pc EXCEPT ![c] = "identity"]
        BY <1>6 DEF LockInit
    <2>3. UNCHANGED <<callVars, lock, inFlight, idVars, brokerVars>>
        BY <1>6 DEF LockInit
    <2> QED  BY <2>1, <2>2, <2>3
  <1>7. CASE InitProducerID(c)  BY <1>7 DEF InitProducerID
  <1>8. CASE InitProducerIDFails(c)
      BY <1>8 DEF InitProducerIDFails, Failed, Replies
  <1>9. CASE TakeIdentity(c)
    <2>1. BatchIdentity(c) \in [pid : Pids \cup {NoPid}, seq : Int]
        BY DEF BatchIdentity
    <2> QED  BY <1>9, <2>1 DEF TakeIdentity
  <1>10. CASE Route(c)
    <2>1. endpoint' \in [Calls -> Endpoints]
        BY <1>10 DEF Route
    <2> QED  BY <1>10, <2>1 DEF Route
  <1>11. CASE GiveUp(c)  BY <1>11 DEF GiveUp, Failed, Replies
  <1>12. CASE AcquireInFlight(c)
    <2>1. inFlight' \in [Endpoints -> 0..MaxInFlight]
        BY <1>12 DEF AcquireInFlight, InFlightFree, TokenTaken
    <2>2. copy' \in [Calls -> 0..MaxCopies]
        BY <1>12 DEF AcquireInFlight
    <2> QED  BY <1>12, <2>1, <2>2 DEF AcquireInFlight
  <1>13. CASE WriteRequest(c)
    <2>1. ProduceRequest(c, copy[c] + 1) \in Requests
        BY <1>13 DEF WriteRequest, ProduceRequest, Requests
    <2>2. net' \in SUBSET Requests
        BY <1>13, <2>1 DEF WriteRequest
    <2>3. copy' \in [Calls -> 0..MaxCopies]
        BY <1>13 DEF WriteRequest
    <2>4. reply' \in [Calls -> Replies]
        BY <1>13 DEF WriteRequest, None, Replies
    <2>5. UNCHANGED <<pc, expired, attempt, endpoint, ident, result, clientVars, log, next, allocated>>
        BY <1>13 DEF WriteRequest
    <2> QED  BY <2>2, <2>3, <2>4, <2>5
  <1>14. CASE SendFails(c)
    <2>1. PICK kind : AfterFailure(c, kind)
        BY <1>14 DEF SendFails
    <2>2. inFlight' \in [Endpoints -> 0..MaxInFlight]
        BY <1>14 DEF SendFails, TokenReturned
    <2>3. reply' \in [Calls -> Replies]
        BY <1>14 DEF SendFails, None, Replies
    <2>4. /\ pc' \in [Calls -> Before \cup Holding]
          /\ attempt' \in [Calls -> 1..MaxAttempts]
          /\ result' \in [Calls -> Replies]
          /\ BackoffHasAttemptLeft'
        BY <2>1, AfterFailureType
    <2>5. UNCHANGED <<expired, copy, endpoint, ident, lock, initMu, idVars, brokerVars>>
        BY <1>14 DEF SendFails
    <2> QED  BY <2>2, <2>3, <2>4, <2>5
  <1>15. CASE ReplyError(c)
    <2>2. inFlight' \in [Endpoints -> 0..MaxInFlight]
        BY <1>15 DEF ReplyError, TokenReturned
    <2>3. reply' \in [Calls -> Replies]
        BY <1>15 DEF ReplyError, None, Replies
    <2>4. /\ pc' \in [Calls -> Before \cup Holding]
          /\ attempt' \in [Calls -> 1..MaxAttempts]
          /\ result' \in [Calls -> Replies]
          /\ BackoffHasAttemptLeft'
        BY <1>15, AfterFailureType DEF ReplyError
    <2>5. UNCHANGED <<expired, copy, endpoint, ident, lock, initMu, idVars, brokerVars>>
        BY <1>15 DEF ReplyError
    <2> QED  BY <2>2, <2>3, <2>4, <2>5
  <1>16. CASE ReplyOk(c)
    <2>1. inFlight' \in [Endpoints -> 0..MaxInFlight]
        BY <1>16 DEF ReplyOk, TokenReturned
    <2>2. reply' \in [Calls -> Replies] /\ result' \in [Calls -> Replies]
        BY <1>16 DEF ReplyOk, None, Replies
    <2> QED  BY <1>16, <2>1, <2>2 DEF ReplyOk
  <1>17. CASE Backoff(c)
    <2>1. attempt' \in [Calls -> 1..MaxAttempts]
        BY <1>17 DEF Backoff
    <2>2. BackoffHasAttemptLeft'
        BY <1>17 DEF Backoff
    <2> QED  BY <1>17, <2>1, <2>2 DEF Backoff
  <1>18. CASE Commit(c)
    <2>1. CommitSequence(c) \in [Keys -> Nat]
        BY DEF CommitSequence
    <2> QED  BY <1>18, <2>1 DEF Commit
  <1>19. CASE ReleaseOrdering(c)
    <2>1. lock' \in [Keys -> 0..1]
        BY <1>19 DEF ReleaseOrdering, Unlocked
    <2> QED  BY <1>19, <2>1 DEF ReleaseOrdering
  <1> QED
      BY <1>1, <1>2, <1>3, <1>4, <1>5, <1>6, <1>7, <1>8, <1>9, <1>10, <1>11, <1>12,
         <1>13, <1>14, <1>15, <1>16, <1>17, <1>18, <1>19 DEF Step

(* A step of the broker keeps the types.                                   *)
LEMMA TypeBroker ==
    ASSUME TypeInv, NEW r \in net, Broker(r)
    PROVE  TypeInv'
  <1> USE SetsAssumption, BatchAssumption
      DEF TypeInv, TypeOK, BackoffHasAttemptLeft, callVars, loopVars, idVars,
          clientVars, brokerVars
  <1>1. r \in Requests /\ Key(r.call) \in Keys
      BY DEF Requests, Key
  <1>2. ASSUME NEW kind \in {"ok"} \cup Errors, NEW i \in Nat, Answer(r, kind, i)
        PROVE  reply' \in [Calls -> Replies]
    <2>1. [kind |-> kind, offset |-> i] \in Replies
        BY DEF Replies
    <2> QED  BY <1>1, <1>2, <2>1 DEF Answer, Requests
  <1>3. CASE BrokerAppends(r)
    <2>1. Len(log[Key(r.call)]) + 1 \in Nat
        BY <1>1
    <2>2. reply' \in [Calls -> Replies]
        BY <1>2, <1>3, <2>1 DEF BrokerAppends
    <2>3. [call |-> r.call, pid |-> r.pid, seq |-> r.seq] \in Entries
        BY <1>1 DEF Requests, Entries
    <2>4. log' \in [Keys -> Seq(Entries)]
        BY <1>1, <1>3, <2>3 DEF BrokerAppends
    <2>5. next' \in [Pids -> [Keys -> Nat]]
      <3>1. CASE r.pid = NoPid
          BY <1>3, <3>1 DEF BrokerAppends
      <3>2. CASE r.pid # NoPid
        <4>1. r.pid \in Pids /\ SizeOf[r.call] \in Nat
            BY <1>1, <3>2 DEF Requests
        <4>2. [next[r.pid] EXCEPT ![Key(r.call)] = @ + SizeOf[r.call]] \in [Keys -> Nat]
          <5>1. next[r.pid] \in [Keys -> Nat]
              BY <4>1
          <5>2. \A f \in [Keys -> Nat], n \in Nat, k \in Keys : [f EXCEPT ![k] = @ + n] \in [Keys -> Nat]
              OBVIOUS
          <5> QED  BY <1>1, <4>1, <5>1, <5>2
        <4>3. next' = [next EXCEPT ![r.pid] =
                         [next[r.pid] EXCEPT ![Key(r.call)] = @ + SizeOf[r.call]]]
            BY <1>3, <3>2 DEF BrokerAppends
        <4> QED  BY <4>1, <4>2, <4>3
      <3> QED  BY <3>1, <3>2
    <2>6. net' \in SUBSET Requests
        BY <1>3 DEF BrokerAppends
    <2>7. UNCHANGED <<pc, expired, attempt, copy, endpoint, ident, result, clientVars, allocated>>
        BY <1>3 DEF BrokerAppends
    <2> QED  BY <2>2, <2>4, <2>5, <2>6, <2>7
  <1>4. CASE BrokerRepeats(r)
    <2>1. reply' \in [Calls -> Replies]
        BY <1>1, <1>2, <1>4 DEF BrokerRepeats
    <2> QED  BY <1>4, <2>1 DEF BrokerRepeats
  <1>5. CASE BrokerRejects(r)
    <2>1. reply' \in [Calls -> Replies]
        BY <1>2, <1>5 DEF BrokerRejects
    <2> QED  BY <1>5, <2>1 DEF BrokerRejects
  <1> QED
      BY <1>3, <1>4, <1>5 DEF Broker

(* A stuttering step keeps the types.                                      *)
LEMMA TypeStutter == TypeInv /\ UNCHANGED vars => TypeInv'
  BY DEF TypeInv, TypeOK, BackoffHasAttemptLeft, vars, callVars, loopVars, idVars,
         clientVars, brokerVars

(* Type correctness: every reachable state gives each variable a value of  *)
(* its type, so that attempts, copies and in-flight tokens stay in bounds  *)
(* (produceRecords' loop, RetryMaxAttempts and MaxInFlight).               *)
THEOREM TypeCorrect == Spec => []TypeOK
  <1>1. TypeInv /\ [Next]_vars => TypeInv'
      BY TypeCall, TypeBroker, TypeStutter DEF Next
  <1>2. TypeInv => TypeOK
      BY DEF TypeInv
  <1> QED
      BY TypeInit, <1>1, <1>2, PTL DEF Spec

-----------------------------------------------------------------------------
(* The inductive invariant.  BatchesSerialized and the four properties of  *)
(* the sequences are not inductive alone: they rest on what each lock      *)
(* protects at each point of produceRecords.                               *)

(* A partition whose channel is empty has no call inside.                  *)
LockInv == /\ BatchesSerialized
           /\ Ordering => \A c \in Calls : pc[c] \in Holding => lock[Key(c)] = 1

(* initMu is held by the one call that asks for a producer id, and it asks *)
(* only while there is none.                                               *)
InitInv ==
    /\ \A c \in Calls : pc[c] = "initRequest" => initMu /\ producerID = NoPid
    /\ \A c, d \in Calls : pc[c] = "initRequest" /\ pc[d] = "initRequest" => c = d
    /\ \A c \in Calls : Idempotent /\ pc[c] = "identity" => producerID \in Pids

(* A call that took its identity holds the producer's id for good, and the *)
(* partition's sequence for as long as it can still send.                  *)
IdentInv == Idempotent =>
    /\ \A c \in Calls : pc[c] \in {"idle", "ordering"} \cup Opening => ~Identified(c)
    /\ \A c \in Calls : Identified(c) =>
         ident[c].pid = producerID /\ producerID \in Pids /\ ident[c].seq \in Nat
    /\ \A c \in Calls : pc[c] \in Looping \cup {"commit"} =>
         Identified(c) /\ ident[c].seq = sequences[Key(c)]
    /\ producerID = NoPid => \A k \in Keys : sequences[k] = 0

TileInv == /\ AckedBatchesTileSequences
           /\ \A c \in Calls : pc[c] = "commit" => result[c].kind = "ok"

(* What the broker expects bounds every sequence number the client knows.  *)
Expected(c) == next[ident[c].pid][Key(c)]
Confirmed(c) == reply[c].kind = "ok" \/ pc[c] = "commit"

NetInv == Idempotent =>
    /\ \A r \in net : /\ Identified(r.call)
                      /\ r.pid = ident[r.call].pid
                      /\ r.seq = ident[r.call].seq
                      /\ r.seq <= Expected(r.call)
    /\ producerID \in Pids => \A k \in Keys : sequences[k] <= next[producerID][k]
    /\ \A c \in Calls : reply[c].kind = "ok" => pc[c] = "send"
    /\ \A c \in Calls : Confirmed(c) => ident[c].seq + SizeOf[c] <= Expected(c)

LogInv == Idempotent =>
    /\ AppendedAtMostOnce
    /\ \A k \in Keys : \A i \in DOMAIN log[k] :
         LET e == log[k][i]
         IN  /\ Key(e.call) = k
             /\ Identified(e.call)
             /\ e.pid = ident[e.call].pid
             /\ e.seq = ident[e.call].seq
             /\ e.seq + SizeOf[e.call] <= Expected(e.call)

IInv == TypeInv /\ LockInv /\ InitInv /\ IdentInv /\ TileInv /\ NetInv /\ LogInv

(* The steps that leave identities, sequences and the broker alone.        *)
Quiet(c) ==
    \/ Start(c) \/ Expire(c)
    \/ AcquireOrdering(c) \/ AcquireOrderingCanceled(c)
    \/ EnsureProducerID(c) \/ LockInit(c) \/ InitProducerIDFails(c)
    \/ Route(c) \/ GiveUp(c) \/ AcquireInFlight(c) \/ WriteRequest(c)
    \/ SendFails(c) \/ ReplyError(c) \/ ReplyOk(c)
    \/ Backoff(c) \/ ReleaseOrdering(c)

(* What a call does to itself in such a step, as far as the invariant sees. *)
Move(c) ==
    /\ pc'[c] \in Looping => pc[c] \in Looping
    /\ pc'[c] \in {"idle", "ordering"} \cup Opening => pc[c] \in {"idle", "ordering"} \cup Opening
    /\ pc'[c] = "commit" => \/ pc[c] = "commit" /\ result'[c] = result[c]
                            \/ reply[c].kind = "ok" /\ result'[c].kind = "ok"
    /\ Acked(c)' => Acked(c)
    /\ Acked(c) => Acked(c)'
    /\ reply'[c].kind = "ok" => reply[c].kind = "ok"
    /\ reply'[c].kind = "ok" /\ pc[c] = "send" => pc'[c] = "send"

Others(c) == \A d \in Calls \ {c} :
    pc'[d] = pc[d] /\ result'[d] = result[d] /\ reply'[d] = reply[d]

(* AfterFailure moves its own call only, and a result it sets is a failure. *)
LEMMA AfterFailureMoves ==
    ASSUME TypeInv, NEW c \in Calls, NEW kind, AfterFailure(c, kind)
    PROVE  /\ pc'[c] \in {"route", "backoff", "unlock"}
           /\ pc'[c] = "unlock" => result'[c] = Failed
           /\ \A d \in Calls \ {c} : pc'[d] = pc[d] /\ result'[d] = result[d]
  <1> USE DEF GoTo, Return
  <1>1. pc \in [Calls -> Before \cup Holding] /\ result \in [Calls -> Replies]
      BY DEF TypeInv, TypeOK
  <1>2. CASE kind = "missing" /\ attempt[c] < MaxAttempts
      BY <1>1, <1>2 DEF AfterFailure
  <1>3. CASE ~(kind = "missing" /\ attempt[c] < MaxAttempts) /\ ShouldRetryProduce(c, kind)
      BY <1>1, <1>3 DEF AfterFailure
  <1>4. CASE ~(kind = "missing" /\ attempt[c] < MaxAttempts) /\ ~ShouldRetryProduce(c, kind)
    <2>1. pc' = [pc EXCEPT ![c] = "unlock"] /\ result' = [result EXCEPT ![c] = Failed]
        BY <1>4 DEF AfterFailure
    <2> QED  BY <1>1, <2>1
  <1> QED
      BY <1>2, <1>3, <1>4

(* A quiet step is a Move of its call.                                     *)
LEMMA QuietStep ==
    ASSUME TypeInv, NEW c \in Calls, Quiet(c)
    PROVE  Move(c) /\ Others(c) /\ UNCHANGED <<ident, sequences, producerID, log, next>>
  <1> USE DEF Move, Others, Acked, GoTo, Return, Before, Opening, Looping, Holding,
              callVars, loopVars, idVars, clientVars, brokerVars
  <1>0. /\ pc \in [Calls -> Before \cup Holding]
        /\ result \in [Calls -> Replies]
        /\ reply \in [Calls -> Replies]
      BY DEF TypeInv, TypeOK
  <1>1. CASE Start(c)  BY <1>0, <1>1 DEF Start
  <1>2. CASE Expire(c)  BY <1>0, <1>2 DEF Expire
  <1>3. CASE AcquireOrdering(c)  BY <1>0, <1>3 DEF AcquireOrdering
  <1>4. CASE AcquireOrderingCanceled(c)
      BY <1>0, <1>4 DEF AcquireOrderingCanceled, Failed
  <1>5. CASE EnsureProducerID(c)  BY <1>0, <1>5 DEF EnsureProducerID
  <1>6. CASE LockInit(c)
    <2>1. pc' = [pc EXCEPT ![c] = "initRequest"] \/ pc' = [pc EXCEPT ![c] = "identity"]
        BY <1>6 DEF LockInit
    <2>2. UNCHANGED <<callVars, lock, inFlight, idVars, brokerVars>> /\ pc[c] = "initMu"
        BY <1>6 DEF LockInit
    <2> QED  BY <1>0, <2>1, <2>2
  <1>7. CASE InitProducerIDFails(c)
    <2>1. /\ pc[c] = "initRequest"
          /\ pc' = [pc EXCEPT ![c] = "unlock"]
          /\ result' = [result EXCEPT ![c] = Failed]
          /\ UNCHANGED <<expired, loopVars, lock, inFlight, idVars, brokerVars>>
        BY <1>7 DEF InitProducerIDFails
    <2> QED  BY <1>0, <2>1 DEF Failed
  <1>8. CASE Route(c)  BY <1>0, <1>8 DEF Route
  <1>9. CASE GiveUp(c)  BY <1>0, <1>9 DEF GiveUp, Failed
  <1>10. CASE AcquireInFlight(c)  BY <1>0, <1>10 DEF AcquireInFlight
  <1>11. CASE WriteRequest(c)  BY <1>0, <1>11 DEF WriteRequest, None
  <1>12. CASE SendFails(c)
    <2>1. PICK kind : AfterFailure(c, kind)
        BY <1>12 DEF SendFails
    <2>2. /\ pc[c] = "send"
          /\ reply' = [reply EXCEPT ![c] = None]
          /\ UNCHANGED <<expired, copy, endpoint, ident, lock, initMu, idVars, brokerVars>>
        BY <1>12 DEF SendFails
    <2> QED  BY <1>0, <2>1, <2>2, AfterFailureMoves DEF None, Failed
  <1>13. CASE ReplyError(c)
    <2>1. AfterFailure(c, reply[c].kind)
        BY <1>13 DEF ReplyError
    <2>2. /\ pc[c] = "send"
          /\ reply' = [reply EXCEPT ![c] = None]
          /\ UNCHANGED <<expired, copy, endpoint, ident, lock, initMu, idVars, brokerVars>>
        BY <1>13 DEF ReplyError
    <2> QED  BY <1>0, <2>1, <2>2, AfterFailureMoves DEF None, Failed
  <1>14. CASE ReplyOk(c)  BY <1>0, <1>14 DEF ReplyOk, None
  <1>15. CASE Backoff(c)  BY <1>0, <1>15 DEF Backoff
  <1>16. CASE ReleaseOrdering(c)  BY <1>0, <1>16 DEF ReleaseOrdering
  <1> QED
      BY <1>1, <1>2, <1>3, <1>4, <1>5, <1>6, <1>7, <1>8, <1>9, <1>10, <1>11, <1>12,
         <1>13, <1>14, <1>15, <1>16 DEF Quiet

(* Every step of a call is quiet or one of the three that are not.         *)
LEMMA StepKinds ==
    ASSUME NEW c \in Calls, Start(c) \/ Expire(c) \/ Step(c)
    PROVE  Quiet(c) \/ InitProducerID(c) \/ TakeIdentity(c) \/ Commit(c)
  BY DEF Quiet, Step

(* The invariant holds initially.                                          *)
LEMMA InvInit == Init => IInv
  <1> SUFFICES ASSUME Init PROVE IInv
      OBVIOUS
  <1>1. TypeInv
      BY TypeInit
  <1>2. \A c \in Calls : /\ pc[c] = "idle"
                         /\ ident[c] = [pid |-> NoPid, seq |-> -1]
                         /\ reply[c].kind = "none"
      BY DEF Init, None
  <1>3. \A k \in Keys : sequences[k] = 0 /\ DOMAIN log[k] = {}
      BY DEF Init
  <1>4. \A p \in Pids : \A k \in Keys : next[p][k] = 0
      BY DEF Init
  <1>5. net = {}
      BY DEF Init
  <1>6. LockInv /\ InitInv
      BY <1>2 DEF LockInv, InitInv, BatchesSerialized, Holding, Opening, Looping
  <1>7. IdentInv
      BY <1>2, <1>3 DEF IdentInv, Identified, Looping
  <1>8. TileInv
    <2>1. \A c \in Calls : ~Acked(c)
        BY <1>2 DEF Acked
    <2>2. \A k \in Keys : 0 .. sequences[k] - 1 = {}
        BY <1>3
    <2> QED  BY <1>2, <2>1, <2>2 DEF TileInv, AckedBatchesTileSequences
  <1>9. NetInv
      BY <1>2, <1>3, <1>4, <1>5 DEF NetInv, Confirmed
  <1>10. LogInv
      BY <1>3 DEF LogInv, AppendedAtMostOnce
  <1> QED
      BY <1>1, <1>6, <1>7, <1>8, <1>9, <1>10 DEF IInv

(* A call inside a partition's section was inside before, except the one   *)
(* that a free channel just let in.                                        *)
LEMMA LockCall ==
    ASSUME IInv, NEW c \in Calls, Start(c) \/ Expire(c) \/ Step(c)
    PROVE  LockInv'
  <1> USE BatchAssumption DEF GoTo, Return, Key, callVars, loopVars, idVars,
                              clientVars, brokerVars
  <1>0. /\ pc \in [Calls -> Before \cup Holding]
        /\ lock \in [Keys -> 0..1]
        /\ TypeInv
      BY DEF IInv, TypeInv, TypeOK
  <1>1. LockInv
      BY DEF IInv
  <1> SUFFICES ASSUME Ordering
               PROVE  /\ BatchesSerialized'
                      /\ \A d \in Calls : pc'[d] \in Holding => lock'[Key(d)] = 1
      BY DEF LockInv, BatchesSerialized
  <1>2. CASE AcquireOrdering(c)
    <2>1. /\ lock[Key(c)] = 0
          /\ lock' = [lock EXCEPT ![Key(c)] = 1]
          /\ pc' = [pc EXCEPT ![c] = "ensureID"]
        BY <1>2 DEF AcquireOrdering, OrderingFree, Locked
    <2> QED  BY <1>0, <1>1, <2>1 DEF LockInv, BatchesSerialized
  <1>3. CASE ReleaseOrdering(c)
    <2>1. /\ pc[c] = "unlock"
          /\ lock' = [lock EXCEPT ![Key(c)] = 0]
          /\ pc' = [pc EXCEPT ![c] = "done"]
        BY <1>3 DEF ReleaseOrdering, Unlocked
    <2>2. "unlock" \in Holding /\ "done" \notin Holding
        BY DEF Holding, Opening, Looping
    <2> QED  BY <1>0, <1>1, <2>1, <2>2 DEF LockInv, BatchesSerialized
  <1>4. CASE /\ ~AcquireOrdering(c) /\ ~ReleaseOrdering(c)
    <2>1. lock' = lock /\ \A d \in Calls : pc'[d] \in Holding => pc[d] \in Holding
      <3> USE <1>0, <1>4 DEF Holding, Opening, Looping
      <3>1. CASE Start(c) \/ Expire(c) \/ AcquireOrderingCanceled(c)
          BY <3>1 DEF Start, Expire, AcquireOrderingCanceled
      <3>2. CASE EnsureProducerID(c) \/ InitProducerID(c) \/ InitProducerIDFails(c)
          BY <3>2 DEF EnsureProducerID, InitProducerID, InitProducerIDFails
      <3>3. CASE LockInit(c)
          BY <3>3 DEF LockInit
      <3>4. CASE TakeIdentity(c) \/ Route(c) \/ GiveUp(c)
          BY <3>4 DEF TakeIdentity, Route, GiveUp
      <3>5. CASE AcquireInFlight(c) \/ WriteRequest(c)
          BY <3>5 DEF AcquireInFlight, WriteRequest
      <3>6. CASE SendFails(c)
          BY <3>6, AfterFailureMoves DEF SendFails
      <3>7. CASE ReplyError(c)
          BY <3>7, AfterFailureMoves DEF ReplyError
      <3>8. CASE ReplyOk(c) \/ Backoff(c) \/ Commit(c)
          BY <3>8 DEF ReplyOk, Backoff, Commit
      <3> QED  BY <3>1, <3>2, <3>3, <3>4, <3>5, <3>6, <3>7, <3>8 DEF Step
    <2> QED  BY <1>1, <2>1 DEF LockInv, BatchesSerialized
  <1> QED
      BY <1>2, <1>3, <1>4

(* Only the holder of initMu asks for an id, and it finds none set.        *)
LEMMA InitCall ==
    ASSUME IInv, NEW c \in Calls, Start(c) \/ Expire(c) \/ Step(c)
    PROVE  InitInv'
  <1> USE DEF GoTo, Return, callVars, loopVars, idVars, clientVars, brokerVars
  <1>0. /\ pc \in [Calls -> Before \cup Holding]
        /\ producerID \in Pids \cup {NoPid}
        /\ InitInv /\ TypeInv
      BY DEF IInv, TypeInv, TypeOK
  <1>1. CASE LockInit(c)
    <2>1. CASE producerID = NoPid
      <3>1. ~initMu /\ initMu' /\ producerID' = producerID /\ pc' = [pc EXCEPT ![c] = "initRequest"]
          BY <1>1, <2>1 DEF LockInit, NeedsProducerID
      <3> QED  BY <1>0, <2>1, <3>1 DEF InitInv
    <2>2. CASE producerID # NoPid
      <3>1. producerID' = producerID /\ pc' = [pc EXCEPT ![c] = "identity"]
          BY <1>1, <2>2 DEF LockInit, NeedsProducerID
      <3> QED  BY <1>0, <2>2, <3>1 DEF InitInv
    <2> QED  BY <2>1, <2>2
  <1>2. CASE InitProducerID(c)
    <2>1. pc[c] = "initRequest" /\ producerID' \in Pids /\ pc' = [pc EXCEPT ![c] = "identity"]
        BY <1>2 DEF InitProducerID
    <2> QED  BY <1>0, <2>1 DEF InitInv
  <1>3. CASE InitProducerIDFails(c)
    <2>1. /\ pc[c] = "initRequest"
          /\ producerID' = producerID
          /\ pc' = [pc EXCEPT ![c] = "unlock"]
        BY <1>3 DEF InitProducerIDFails
    <2> QED  BY <1>0, <2>1 DEF InitInv
  <1>4. CASE EnsureProducerID(c)
    <2>1. /\ producerID' = producerID /\ initMu' = initMu
          /\ \A d \in Calls \ {c} : pc'[d] = pc[d]
          /\ pc'[c] = IF Idempotent /\ producerID = NoPid THEN "initMu" ELSE "identity"
        BY <1>0, <1>4 DEF EnsureProducerID
    <2> QED  BY <1>0, <2>1 DEF InitInv
  <1>5. CASE ~LockInit(c) /\ ~InitProducerID(c) /\ ~InitProducerIDFails(c) /\ ~EnsureProducerID(c)
    <2>1. /\ producerID' = producerID /\ initMu' = initMu
          /\ \A d \in Calls : pc'[d] \in {"initRequest", "identity"} => pc'[d] = pc[d]
      <3> USE <1>0, <1>5
      <3>1. CASE Start(c) \/ Expire(c) \/ AcquireOrdering(c) \/ AcquireOrderingCanceled(c)
          BY <3>1 DEF Start, Expire, AcquireOrdering, AcquireOrderingCanceled
      <3>2. CASE TakeIdentity(c) \/ Route(c) \/ GiveUp(c)
          BY <3>2 DEF TakeIdentity, Route, GiveUp
      <3>3. CASE AcquireInFlight(c) \/ WriteRequest(c)
          BY <3>3 DEF AcquireInFlight, WriteRequest
      <3>4. CASE SendFails(c)
          BY <3>4, AfterFailureMoves DEF SendFails
      <3>5. CASE ReplyError(c)
          BY <3>5, AfterFailureMoves DEF ReplyError
      <3>6. CASE ReplyOk(c) \/ Backoff(c) \/ Commit(c) \/ ReleaseOrdering(c)
          BY <3>6 DEF ReplyOk, Backoff, Commit, ReleaseOrdering
      <3> QED  BY <3>1, <3>2, <3>3, <3>4, <3>5, <3>6 DEF Step
    <2> QED  BY <1>0, <2>1 DEF InitInv
  <1> QED
      BY <1>1, <1>2, <1>3, <1>4, <1>5

(* The sequence of a partition moves only when the one call inside it      *)
(* commits, and identities are given once.                                 *)
LEMMA IdentCall ==
    ASSUME IInv, NEW c \in Calls, Start(c) \/ Expire(c) \/ Step(c)
    PROVE  IdentInv'
  <1> USE BatchAssumption, OptionsAssumption, SetsAssumption
      DEF Key, GoTo, callVars, loopVars, idVars, clientVars, brokerVars
  <1>0. /\ pc \in [Calls -> Before \cup Holding]
        /\ ident \in [Calls -> [pid : Pids \cup {NoPid}, seq : Int]]
        /\ producerID \in Pids \cup {NoPid}
        /\ sequences \in [Keys -> Nat]
        /\ TypeInv /\ LockInv /\ InitInv /\ IdentInv
      BY DEF IInv, TypeInv, TypeOK
  <1> SUFFICES ASSUME Idempotent PROVE IdentInv'
      BY DEF IdentInv
  <1>1. CASE Quiet(c)
    <2>1. Move(c) /\ Others(c) /\ UNCHANGED <<ident, sequences, producerID>>
        BY <1>0, <1>1, QuietStep
    <2>2. \A d \in Calls :
             /\ pc'[d] \in {"idle", "ordering"} \cup Opening => pc[d] \in {"idle", "ordering"} \cup Opening
             /\ pc'[d] \in Looping => pc[d] \in Looping
        BY <2>1 DEF Move, Others
    <2>3. \A d \in Calls : pc'[d] = "commit" => pc[d] \in Looping \cup {"commit"}
      <3>1. reply[c].kind = "ok" => pc[c] = "send"
          BY <1>0 DEF IInv, NetInv
      <3> QED  BY <2>1, <3>1 DEF Move, Others, Looping
    <2> QED  BY <1>0, <2>1, <2>2, <2>3 DEF IdentInv, Identified
  <1>2. CASE InitProducerID(c)
    <2>1. /\ pc[c] = "initRequest" /\ producerID = NoPid
          /\ pc' = [pc EXCEPT ![c] = "identity"]
          /\ producerID' \in Pids
          /\ UNCHANGED <<ident, sequences>>
        BY <1>0, <1>2 DEF InitProducerID, InitInv
    <2>2. \A d \in Calls : ~Identified(d)
        BY <1>0, <2>1 DEF IdentInv
    <2>3. \A d \in Calls : pc[d] \notin Looping \cup {"commit"}
        BY <1>0, <2>2 DEF IdentInv
    <2> QED  BY <1>0, <2>1, <2>2, <2>3 DEF IdentInv, Identified, Looping
  <1>3. CASE TakeIdentity(c)
    <2>1. /\ pc[c] = "identity" /\ producerID \in Pids
          /\ pc' = [pc EXCEPT ![c] = "route"]
          /\ ident' = [ident EXCEPT ![c] = [pid |-> producerID, seq |-> sequences[Key(c)]]]
          /\ UNCHANGED <<producerID, sequences>>
        BY <1>0, <1>3 DEF TakeIdentity, BatchIdentity, InitInv
    <2>2. /\ ident'[c].pid = producerID /\ ident'[c].seq = sequences[Key(c)]
          /\ \A d \in Calls \ {c} : ident'[d] = ident[d] /\ pc'[d] = pc[d]
          /\ pc'[c] = "route" /\ sequences[Key(c)] \in Nat
        BY <1>0, <2>1
    <2> QED  BY <1>0, <2>1, <2>2 DEF IdentInv, Identified, Opening
  <1>4. CASE Commit(c)
    <2>1. /\ pc[c] = "commit"
          /\ pc' = [pc EXCEPT ![c] = "unlock"]
          /\ sequences' = [sequences EXCEPT ![Key(c)] = @ + SizeOf[c]]
          /\ UNCHANGED <<producerID, ident>>
        BY <1>4 DEF Commit, CommitSequence
    <2>2. \A d \in Calls : Key(d) = Key(c) /\ pc[d] \in Looping \cup {"commit"} => d = c
        BY <1>0, <2>1 DEF LockInv, BatchesSerialized, Holding
    <2>3. producerID \in Pids
        BY <1>0, <2>1 DEF IdentInv
    <2> QED  BY <1>0, <2>1, <2>2, <2>3 DEF IdentInv, Identified, Opening, Looping
  <1> QED
      BY <1>1, <1>2, <1>3, <1>4, StepKinds

(* A batch becomes acknowledged exactly when the sequence passes over it.  *)
LEMMA TileCall ==
    ASSUME IInv, NEW c \in Calls, Start(c) \/ Expire(c) \/ Step(c)
    PROVE  TileInv'
  <1> USE BatchAssumption, OptionsAssumption, SetsAssumption
      DEF Key, GoTo, callVars, loopVars, idVars, clientVars, brokerVars
  <1>0. /\ pc \in [Calls -> Before \cup Holding]
        /\ ident \in [Calls -> [pid : Pids \cup {NoPid}, seq : Int]]
        /\ sequences \in [Keys -> Nat]
        /\ TypeInv /\ IdentInv /\ TileInv
      BY DEF IInv, TypeInv, TypeOK
  <1>1. CASE Quiet(c)
    <2>1. Move(c) /\ Others(c) /\ UNCHANGED <<ident, sequences>>
        BY <1>0, <1>1, QuietStep
    <2>2. \A d \in Calls : Acked(d)' <=> Acked(d)
        BY <2>1 DEF Move, Others, Acked
    <2>3. \A d \in Calls : Batch(d)' = Batch(d)
        BY <2>1 DEF Batch
    <2>4. AckedBatchesTileSequences'
        BY <1>0, <2>1, <2>2, <2>3 DEF TileInv, AckedBatchesTileSequences
    <2>5. \A d \in Calls : pc'[d] = "commit" => result'[d].kind = "ok"
        BY <1>0, <2>1 DEF Move, Others, TileInv
    <2> QED  BY <2>4, <2>5 DEF TileInv
  <1>2. CASE InitProducerID(c) \/ TakeIdentity(c)
    <2>1. /\ pc[c] \in Opening
          /\ pc' = [pc EXCEPT ![c] = "identity"] \/ pc' = [pc EXCEPT ![c] = "route"]
          /\ UNCHANGED <<result, sequences>>
          /\ \A d \in Calls \ {c} : ident'[d] = ident[d]
        BY <1>0, <1>2 DEF InitProducerID, TakeIdentity, Opening
    <2>2. \A d \in Calls : (Acked(d)' <=> Acked(d)) /\ (Acked(d) => d # c)
        BY <1>0, <2>1 DEF Acked, Opening
    <2>3. \A d \in Calls : Acked(d) => Batch(d)' = Batch(d)
        BY <2>1, <2>2 DEF Batch
    <2>4. \A k \in Keys : {d \in Calls : Key(d) = k /\ Acked(d)'} = {d \in Calls : Key(d) = k /\ Acked(d)}
        BY <2>2
    <2>5. AckedBatchesTileSequences'
        BY <1>0, <2>1, <2>3, <2>4 DEF TileInv, AckedBatchesTileSequences
    <2>6. \A d \in Calls : pc'[d] = "commit" => pc[d] = "commit"
        BY <1>0, <2>1
    <2> QED  BY <1>0, <2>1, <2>5, <2>6 DEF TileInv
  <1>3. CASE Commit(c)
    <2>1. /\ pc[c] = "commit"
          /\ pc' = [pc EXCEPT ![c] = "unlock"]
          /\ UNCHANGED <<result, ident>>
          /\ result[c].kind = "ok"
        BY <1>0, <1>3 DEF Commit, TileInv
    <2>2. \A d \in Calls : (Acked(d)' <=> Acked(d) \/ d = c) /\ Batch(d)' = Batch(d)
        BY <1>0, <2>1 DEF Acked, Batch
    <2>3. ~Acked(c)
        BY <2>1 DEF Acked
    <2>4. \A d \in Calls : pc'[d] = "commit" => result'[d].kind = "ok"
        BY <1>0, <2>1 DEF TileInv
    <2>5. ASSUME Idempotent PROVE AckedBatchesTileSequences'
      <3>1. /\ sequences' = [sequences EXCEPT ![Key(c)] = @ + SizeOf[c]]
            /\ ident[c].seq = sequences[Key(c)]
            /\ SizeOf[c] \in Nat \ {0} /\ Key(c) \in Keys
          BY <1>0, <1>3, <2>1, <2>5 DEF Commit, CommitSequence, IdentInv
      <3>2. Batch(c) = sequences[Key(c)] .. sequences'[Key(c)] - 1
          BY <1>0, <3>1 DEF Batch
      <3> SUFFICES ASSUME NEW k \in Keys
                   PROVE  LET acked == {d \in Calls : Key(d) = k /\ Acked(d)'}
                          IN  /\ \A d \in acked : Batch(d) \subseteq 0 .. sequences'[k] - 1
                              /\ \A n \in 0 .. sequences'[k] - 1 : \E d \in acked : n \in Batch(d)
                              /\ \A d, e \in acked : d # e => Batch(d) \cap Batch(e) = {}
          BY <2>2 DEF AckedBatchesTileSequences
      <3> DEFINE old == {d \in Calls : Key(d) = k /\ Acked(d)}
      <3>3. /\ \A d \in old : Batch(d) \subseteq 0 .. sequences[k] - 1
            /\ \A n \in 0 .. sequences[k] - 1 : \E d \in old : n \in Batch(d)
            /\ \A d, e \in old : d # e => Batch(d) \cap Batch(e) = {}
          BY <1>0, <2>5 DEF TileInv, AckedBatchesTileSequences
      <3>4. CASE k # Key(c)
          BY <1>0, <2>2, <3>1, <3>3, <3>4
      <3>5. CASE k = Key(c)
        <4> DEFINE new == {d \in Calls : Key(d) = k /\ Acked(d)'}
        <4>1. new = old \cup {c} /\ c \notin old
            BY <2>2, <2>3, <3>5
        <4>2. sequences[k] \in Nat /\ sequences'[k] \in Nat /\ sequences[k] <= sequences'[k]
            BY <1>0, <3>1, <3>5
        <4>3. \A d \in new : Batch(d) \subseteq 0 .. sequences'[k] - 1
            BY <3>2, <3>3, <3>5, <4>1, <4>2
        <4>4. \A n \in 0 .. sequences'[k] - 1 : \E d \in new : n \in Batch(d)
            BY <3>2, <3>3, <3>5, <4>1, <4>2
        <4>5. \A d \in old : Batch(d) \cap Batch(c) = {}
            BY <3>2, <3>3, <3>5, <4>2
        <4>6. \A d, e \in new : d # e => Batch(d) \cap Batch(e) = {}
            BY <3>3, <4>1, <4>5
        <4> QED  BY <4>3, <4>4, <4>6
      <3> QED  BY <3>4, <3>5
    <2> QED  BY <2>4, <2>5 DEF TileInv, AckedBatchesTileSequences
  <1> QED
      BY <1>1, <1>2, <1>3, StepKinds

(* What the broker expects stays at or above what the client knows.        *)
LEMMA NetCall ==
    ASSUME IInv, NEW c \in Calls, Start(c) \/ Expire(c) \/ Step(c)
    PROVE  NetInv'
  <1> USE BatchAssumption, OptionsAssumption, SetsAssumption
      DEF Key, GoTo, callVars, loopVars, idVars, clientVars, brokerVars
  <1>0. /\ pc \in [Calls -> Before \cup Holding]
        /\ ident \in [Calls -> [pid : Pids \cup {NoPid}, seq : Int]]
        /\ producerID \in Pids \cup {NoPid}
        /\ sequences \in [Keys -> Nat]
        /\ next \in [Pids -> [Keys -> Nat]]
        /\ net \subseteq Requests
        /\ TypeInv /\ IdentInv /\ NetInv /\ InitInv
      BY DEF IInv, TypeInv, TypeOK
  <1> SUFFICES ASSUME Idempotent PROVE NetInv'
      BY DEF NetInv
  <1>c. \A r \in net : r.call \in Calls
      BY <1>0 DEF Requests
  <1>1. CASE Quiet(c)
    <2>1. Move(c) /\ Others(c) /\ UNCHANGED <<ident, sequences, producerID, next>>
        BY <1>0, <1>1, QuietStep
    <2>2. \A r \in net' : r \in net \/ (pc[c] = "send" /\ r.call = c /\ r.pid = ident[c].pid
                                        /\ r.seq = ident[c].seq)
      <3>1. CASE WriteRequest(c)
          BY <3>1 DEF WriteRequest, ProduceRequest
      <3>2. CASE Start(c) \/ Expire(c) \/ AcquireOrdering(c) \/ AcquireOrderingCanceled(c)
          BY <3>2 DEF Start, Expire, AcquireOrdering, AcquireOrderingCanceled
      <3>3. CASE EnsureProducerID(c) \/ LockInit(c) \/ InitProducerIDFails(c) \/ Route(c) \/ GiveUp(c)
          BY <3>3 DEF EnsureProducerID, LockInit, InitProducerIDFails, Route, GiveUp
      <3>4. CASE AcquireInFlight(c) \/ SendFails(c) \/ ReplyError(c) \/ ReplyOk(c)
          BY <3>4 DEF AcquireInFlight, SendFails, ReplyError, ReplyOk
      <3>5. CASE Backoff(c) \/ ReleaseOrdering(c)
          BY <3>5 DEF Backoff, ReleaseOrdering
      <3> QED  BY <1>1, <3>1, <3>2, <3>3, <3>4, <3>5 DEF Quiet
    <2>3. pc[c] = "send" => /\ Identified(c)
                            /\ ident[c].seq <= Expected(c)
        BY <1>0 DEF IdentInv, NetInv, Looping, Expected
    <2>4. \A d \in Calls : reply'[d].kind = "ok" => pc'[d] = "send" /\ Confirmed(d)
        BY <1>0, <2>1 DEF Move, Others, NetInv, Confirmed
    <2>5. \A d \in Calls : pc'[d] = "commit" => Confirmed(d)
        BY <1>0, <2>1 DEF Move, Others, Confirmed
    <2>6. \A d \in Calls : (Identified(d)' <=> Identified(d)) /\ Expected(d)' = Expected(d)
        BY <2>1 DEF Identified, Expected
    <2>7. \A r \in net' : /\ r.call \in Calls /\ Identified(r.call)
                          /\ r.pid = ident[r.call].pid
                          /\ r.seq = ident[r.call].seq
                          /\ r.seq <= Expected(r.call)
        BY <1>0, <1>c, <2>2, <2>3 DEF NetInv
    <2>8. \A d \in Calls : Confirmed(d)' => ident[d].seq + SizeOf[d] <= Expected(d)
        BY <1>0, <2>4, <2>5 DEF NetInv, Confirmed
    <2>9. \A d \in Calls : reply'[d].kind = "ok" => pc'[d] = "send"
        BY <2>4
    <2>10. producerID' \in Pids => \A k \in Keys : sequences'[k] <= next'[producerID'][k]
        BY <1>0, <2>1 DEF NetInv
    <2> QED  BY <2>1, <2>6, <2>7, <2>8, <2>9, <2>10 DEF NetInv
  <1>2. CASE InitProducerID(c)
    <2>1. /\ pc[c] = "initRequest" /\ producerID = NoPid
          /\ pc' = [pc EXCEPT ![c] = "identity"]
          /\ producerID' \in Pids
          /\ UNCHANGED <<ident, sequences, reply, net, next>>
        BY <1>0, <1>2 DEF InitProducerID, InitInv
    <2>2. \A k \in Keys : sequences[k] = 0
        BY <1>0, <2>1 DEF IdentInv
    <2>3. \A d \in Calls : Confirmed(d)' => Confirmed(d)
        BY <1>0, <2>1 DEF Confirmed
    <2>4. \A k \in Keys : sequences'[k] <= next'[producerID'][k]
        BY <1>0, <2>1, <2>2
    <2> QED  BY <1>0, <2>1, <2>3, <2>4 DEF NetInv, Identified, Expected
  <1>3. CASE TakeIdentity(c)
    <2>1. /\ pc[c] = "identity" /\ ~Identified(c)
          /\ pc' = [pc EXCEPT ![c] = "route"]
          /\ \A d \in Calls \ {c} : ident'[d] = ident[d]
          /\ UNCHANGED <<producerID, sequences, reply, net, next>>
        BY <1>0, <1>3 DEF TakeIdentity, IdentInv, Opening
    <2>2. \A r \in net : r.call # c
        BY <1>0, <2>1 DEF NetInv
    <2>3. ~Confirmed(c) /\ \A d \in Calls : Confirmed(d)' => Confirmed(d)
        BY <1>0, <2>1 DEF NetInv, Confirmed
    <2>4. \A d \in Calls \ {c} : (Identified(d)' <=> Identified(d)) /\ Expected(d)' = Expected(d)
        BY <2>1 DEF Identified, Expected
    <2>5. \A d \in Calls : reply'[d].kind = "ok" => pc'[d] = "send"
        BY <1>0, <2>1 DEF NetInv
    <2>6. \A d \in Calls : Confirmed(d)' => ident'[d].seq + SizeOf[d] <= Expected(d)'
        BY <1>0, <2>1, <2>3, <2>4 DEF NetInv
    <2>7. \A r \in net' : /\ Identified(r.call)'
                          /\ r.pid = ident'[r.call].pid
                          /\ r.seq = ident'[r.call].seq
                          /\ r.seq <= Expected(r.call)'
        BY <1>0, <1>c, <2>1, <2>2, <2>4 DEF NetInv
    <2> QED  BY <1>0, <2>1, <2>5, <2>6, <2>7 DEF NetInv
  <1>4. CASE Commit(c)
    <2>1. /\ pc[c] = "commit"
          /\ pc' = [pc EXCEPT ![c] = "unlock"]
          /\ sequences' = [sequences EXCEPT ![Key(c)] = @ + SizeOf[c]]
          /\ UNCHANGED <<producerID, ident, reply, net, next>>
        BY <1>4 DEF Commit, CommitSequence
    <2>2. /\ ident[c].seq = sequences[Key(c)]
          /\ ident[c].pid = producerID
          /\ ident[c].seq + SizeOf[c] <= next[producerID][Key(c)]
        BY <1>0, <2>1 DEF IdentInv, NetInv, Confirmed, Expected
    <2>3. producerID' \in Pids => \A k \in Keys : sequences'[k] <= next'[producerID'][k]
        BY <1>0, <2>1, <2>2 DEF NetInv
    <2>4. \A d \in Calls : (Confirmed(d)' => Confirmed(d)) /\ (reply'[d].kind = "ok" => pc'[d] = "send")
        BY <1>0, <2>1 DEF Confirmed, NetInv
    <2> QED  BY <1>0, <2>1, <2>3, <2>4 DEF NetInv, Identified, Expected
  <1> QED
      BY <1>1, <1>2, <1>3, <1>4, StepKinds

(* The calls never write to the log; what it says of them stays true.      *)
LEMMA LogCall ==
    ASSUME IInv, NEW c \in Calls, Start(c) \/ Expire(c) \/ Step(c)
    PROVE  LogInv'
  <1> USE OptionsAssumption
      DEF Key, callVars, loopVars, idVars, clientVars, brokerVars
  <1>0. /\ ident \in [Calls -> [pid : Pids \cup {NoPid}, seq : Int]]
        /\ TypeInv /\ IdentInv /\ LogInv
      BY DEF IInv, TypeInv, TypeOK
  <1> SUFFICES ASSUME Idempotent PROVE LogInv'
      BY DEF LogInv
  <1>1. /\ log' = log /\ next' = next
        /\ \A d \in Calls : Identified(d) => ident'[d] = ident[d]
    <2>1. CASE Quiet(c)
        BY <1>0, <2>1, QuietStep
    <2>2. CASE InitProducerID(c) \/ Commit(c)
        BY <2>2 DEF InitProducerID, Commit
    <2>3. CASE TakeIdentity(c)
        BY <1>0, <2>3 DEF TakeIdentity, IdentInv, Opening
    <2> QED  BY <2>1, <2>2, <2>3, StepKinds
  <1>2. \A k \in Keys : \A i \in DOMAIN log[k] : log[k][i].call \in Calls
    <2>1. log \in [Keys -> Seq(Entries)]
        BY <1>0 DEF TypeInv, TypeOK
    <2>2. \A k \in Keys : \A i \in DOMAIN log[k] : log[k][i] \in Entries
        BY <2>1
    <2> QED  BY <2>2 DEF Entries
  <1>3. \A d \in Calls : Identified(d) => Identified(d)' /\ Expected(d)' = Expected(d)
      BY <1>1 DEF Identified, Expected
  <1>4. AppendedAtMostOnce'
      BY <1>0, <1>1 DEF LogInv, AppendedAtMostOnce
  <1> QED
      BY <1>0, <1>1, <1>2, <1>3, <1>4 DEF LogInv

(* The broker changes nothing the client decides by itself.                *)
LEMMA BrokerFrame ==
    ASSUME NEW r \in net, Broker(r)
    PROVE  /\ net' = net \ {r}
           /\ UNCHANGED <<pc, expired, attempt, copy, endpoint, ident, result,
                          lock, inFlight, initMu, producerID, sequences, allocated>>
  BY DEF Broker, BrokerAppends, BrokerRepeats, BrokerRejects, clientVars, idVars

(* So what the invariant says of the client alone survives its steps.      *)
LEMMA ClientInvBroker ==
    ASSUME IInv, NEW r \in net, Broker(r)
    PROVE  LockInv' /\ InitInv' /\ IdentInv' /\ TileInv'
  <1>0. /\ UNCHANGED <<pc, ident, result, lock, initMu, producerID, sequences>>
        /\ LockInv /\ InitInv /\ IdentInv /\ TileInv
      BY BrokerFrame DEF IInv
  <1>1. LockInv' /\ InitInv'
      BY <1>0 DEF LockInv, BatchesSerialized, InitInv, Key
  <1>2. IdentInv'
      BY <1>0 DEF IdentInv, Identified, Key
  <1>3. TileInv'
      BY <1>0 DEF TileInv, AckedBatchesTileSequences, Acked, Batch, Key
  <1> QED
      BY <1>1, <1>2, <1>3

(* The broker appends the batch it expects and confirms what it appended.  *)
LEMMA NetBroker ==
    ASSUME IInv, NEW r \in net, Broker(r)
    PROVE  NetInv' /\ LogInv'
  <1> USE BatchAssumption, OptionsAssumption, SetsAssumption DEF Key
  <1>0. /\ pc \in [Calls -> Before \cup Holding]
        /\ ident \in [Calls -> [pid : Pids \cup {NoPid}, seq : Int]]
        /\ reply \in [Calls -> Replies]
        /\ producerID \in Pids \cup {NoPid}
        /\ sequences \in [Keys -> Nat]
        /\ next \in [Pids -> [Keys -> Nat]]
        /\ log \in [Keys -> Seq(Entries)]
        /\ net \subseteq Requests
        /\ TypeInv /\ IdentInv /\ NetInv /\ LogInv
      BY DEF IInv, TypeInv, TypeOK
  <1> SUFFICES ASSUME Idempotent PROVE NetInv' /\ LogInv'
      BY DEF NetInv, LogInv
  <1> DEFINE k == Key(r.call)
             p == r.pid
             entry == [call |-> r.call, pid |-> r.pid, seq |-> r.seq]
  <1>1. /\ r.call \in Calls /\ k \in Keys /\ p = producerID /\ p \in Pids
        /\ Identified(r.call) /\ p = ident[r.call].pid
        /\ r.seq = ident[r.call].seq /\ r.seq \in Nat /\ r.seq <= next[p][k]
        /\ SizeOf[r.call] \in Nat \ {0}
      BY <1>0 DEF NetInv, IdentInv, Requests, Expected
  <1>2. /\ net' = net \ {r}
        /\ UNCHANGED <<pc, ident, producerID, sequences, attempt, copy>>
      BY BrokerFrame
  <1>c. /\ \A q \in net : q.call \in Calls /\ q.seq \in Int
        /\ \A j \in Keys : \A i \in DOMAIN log[j] : log[j][i].call \in Calls /\ log[j][i].seq \in Int
    <2>1. \A q \in net : q.call \in Calls /\ q.seq \in Int
        BY <1>0 DEF Requests
    <2>2. \A q \in Keys : \A i \in DOMAIN log[q] : log[q][i] \in Entries
        BY <1>0
    <2> QED  BY <2>1, <2>2 DEF Entries
  <1>3. ASSUME NEW kind \in {"ok"} \cup Errors, NEW i, Answer(r, kind, i)
        PROVE  \A d \in Calls : reply'[d].kind = "ok" =>
                  \/ reply[d].kind = "ok"
                  \/ d = r.call /\ kind = "ok" /\ pc[d] = "send"
      BY <1>0, <1>1, <1>3 DEF Answer
  <1>4. CASE BrokerAppends(r)
    <2>1. r.seq = next[p][k]
        BY <1>1, <1>4 DEF BrokerAppends, Accepts
    <2>2. next' = [next EXCEPT ![p] = [next[p] EXCEPT ![k] = @ + SizeOf[r.call]]]
        BY <1>1, <1>4 DEF BrokerAppends
    <2>3. /\ \A q \in Pids, j \in Keys : next'[q][j] \in Nat /\ next[q][j] <= next'[q][j]
          /\ next'[p][k] = r.seq + SizeOf[r.call]
      <3>1. next[p] \in [Keys -> Nat] /\ next[p][k] \in Nat /\ SizeOf[r.call] \in Nat
          BY <1>0, <1>1
      <3>2. /\ next'[p][k] = next[p][k] + SizeOf[r.call]
            /\ \A j \in Keys \ {k} : next'[p][j] = next[p][j]
            /\ \A q \in Pids \ {p} : next'[q] = next[q]
          BY <1>0, <1>1, <2>2, <3>1
      <3>3. \A q \in Pids, j \in Keys : next[q][j] \in Nat
          BY <1>0
      <3>4. \A q \in Pids, j \in Keys : (q = p /\ j = k) \/ next'[q][j] = next[q][j]
          BY <3>2
      <3> QED  BY <2>1, <3>1, <3>2, <3>3, <3>4
    <2>4. \A d \in Calls : Identified(d) => Expected(d) \in Nat /\ Expected(d)' \in Nat
                                            /\ Expected(d) <= Expected(d)' /\ Identified(d)'
      <3> SUFFICES ASSUME NEW d \in Calls, Identified(d)
                   PROVE  Expected(d) \in Nat /\ Expected(d)' \in Nat
                          /\ Expected(d) <= Expected(d)' /\ Identified(d)'
          OBVIOUS
      <3>1. ident[d].pid \in Pids /\ Key(d) \in Keys
          BY <1>0 DEF IdentInv
      <3> QED  BY <1>0, <1>2, <2>3, <3>1 DEF Expected, Identified
    <2>5. Expected(r.call)' = ident[r.call].seq + SizeOf[r.call]
        BY <1>1, <1>2, <2>3 DEF Expected
    <2>6. \A d \in Calls : reply'[d].kind = "ok" => \/ reply[d].kind = "ok"
                                                    \/ d = r.call /\ pc[d] = "send"
        BY <1>3, <1>4 DEF BrokerAppends
    <2>7. \A d \in Calls : Confirmed(d) => Identified(d)
        BY <1>0 DEF Confirmed, NetInv, IdentInv, Looping
    <2>8. \A d \in Calls : Confirmed(d)' => Confirmed(d) \/ d = r.call
        BY <1>2, <2>6 DEF Confirmed
    <2>9. NetInv'
      <3>1. \A q \in net' : /\ Identified(q.call)'
                            /\ q.pid = ident'[q.call].pid
                            /\ q.seq = ident'[q.call].seq
                            /\ q.seq <= Expected(q.call)'
          BY <1>0, <1>2, <1>c, <2>4 DEF NetInv
      <3>2. producerID' \in Pids => \A j \in Keys : sequences'[j] <= next'[producerID'][j]
          BY <1>0, <1>2, <2>3 DEF NetInv
      <3>3. \A d \in Calls : reply'[d].kind = "ok" => pc'[d] = "send"
          BY <1>0, <1>2, <2>6 DEF NetInv
      <3>4. \A d \in Calls : Confirmed(d)' => ident'[d].seq + SizeOf[d] <= Expected(d)'
        <4> SUFFICES ASSUME NEW d \in Calls, Confirmed(d)'
                     PROVE  ident[d].seq + SizeOf[d] <= Expected(d)'
            BY <1>2
        <4>1. ident[d].seq \in Int /\ SizeOf[d] \in Nat
            BY <1>0
        <4>2. CASE d = r.call
            BY <2>4, <1>1, <2>5, <4>1, <4>2
        <4>3. CASE Confirmed(d)
          <5>1. ident[d].seq + SizeOf[d] <= Expected(d)
              BY <1>0, <4>3 DEF NetInv
          <5> QED  BY <2>4, <2>7, <4>1, <4>3, <5>1
        <4> QED  BY <2>8, <4>2, <4>3
      <3> QED  BY <3>1, <3>2, <3>3, <3>4 DEF NetInv
    <2>10. LogInv'
      <3>1. log' = [log EXCEPT ![k] = Append(@, entry)]
          BY <1>4 DEF BrokerAppends
      <3>2. \A j \in Keys : \A i \in DOMAIN log'[j] :
               \/ i \in DOMAIN log[j] /\ log'[j][i] = log[j][i]
               \/ j = k /\ i = Len(log[k]) + 1 /\ log'[j][i] = entry
          BY <1>0, <1>1, <3>1
      <3>3. \A i \in DOMAIN log[k] : log[k][i].call # r.call
        <4> SUFFICES ASSUME NEW i \in DOMAIN log[k], log[k][i].call = r.call PROVE FALSE
            OBVIOUS
        <4>1. ident[r.call].seq + SizeOf[r.call] <= Expected(r.call)
            BY <1>0, <1>1 DEF LogInv
        <4> QED  BY <1>0, <1>1, <2>1, <4>1 DEF Expected
      <3>4. AppendedAtMostOnce'
        <4> SUFFICES ASSUME NEW j \in Keys, NEW m \in DOMAIN log'[j], NEW n \in DOMAIN log'[j],
                            log'[j][m].call = log'[j][n].call
                     PROVE  m = n
            BY DEF AppendedAtMostOnce
        <4>1. CASE m \in DOMAIN log[j] /\ log'[j][m] = log[j][m]
                   /\ n \in DOMAIN log[j] /\ log'[j][n] = log[j][n]
            BY <1>0, <4>1 DEF LogInv, AppendedAtMostOnce
        <4>2. entry.call = r.call
            OBVIOUS
        <4> QED  BY <3>2, <3>3, <4>1, <4>2
      <3>5. ASSUME NEW j \in Keys, NEW i \in DOMAIN log'[j]
            PROVE  \E d \in Calls : /\ d = log'[j][i].call
                                   /\ Key(d) = j
                                   /\ Identified(d)'
                                   /\ log'[j][i].pid = ident'[d].pid
                                   /\ log'[j][i].seq = ident'[d].seq
                                   /\ log'[j][i].seq + SizeOf[d] <= Expected(d)'
        <4>1. CASE i \in DOMAIN log[j] /\ log'[j][i] = log[j][i]
          <5>1. PICK d \in Calls : d = log[j][i].call
              BY <1>c, <4>1
          <5>2. /\ Key(d) = j /\ Identified(d)
                /\ log[j][i].pid = ident[d].pid /\ log[j][i].seq = ident[d].seq
                /\ ident[d].seq + SizeOf[d] <= Expected(d)
              BY <1>0, <4>1, <5>1 DEF LogInv
          <5>3. ident[d].seq \in Int /\ SizeOf[d] \in Nat
              BY <1>0
          <5>4. Identified(d)' /\ ident[d].seq + SizeOf[d] <= Expected(d)'
              BY <2>4, <5>2, <5>3
          <5> QED  BY <1>2, <4>1, <5>1, <5>2, <5>4
        <4>2. CASE j = k /\ log'[j][i] = entry
          <5>1. Identified(r.call)' /\ r.seq + SizeOf[r.call] <= Expected(r.call)'
              BY <1>1, <2>4, <2>5
          <5>2. entry.call = r.call /\ entry.pid = p /\ entry.seq = r.seq
              OBVIOUS
          <5> QED  BY <1>1, <1>2, <4>2, <5>1, <5>2
        <4> QED  BY <3>2, <4>1, <4>2
      <3> QED  BY <3>4, <3>5 DEF LogInv, Identified, Expected
    <2> QED  BY <2>9, <2>10
  <1>5. CASE BrokerRepeats(r) \/ BrokerRejects(r)
    <2>1. UNCHANGED <<log, next>>
        BY <1>5 DEF BrokerRepeats, BrokerRejects
    <2>2. \A d \in Calls : reply'[d].kind = "ok" =>
             \/ reply[d].kind = "ok"
             \/ /\ d = r.call /\ pc[d] = "send"
                /\ ident[d].seq + SizeOf[d] <= Expected(d)
      <3>1. CASE BrokerRejects(r)
          BY <1>3, <3>1 DEF BrokerRejects, Errors
      <3>2. CASE BrokerRepeats(r)
        <4>1. PICK i \in DOMAIN log[k] : Repeats(r, i) /\ Answer(r, "ok", i)
            BY <3>2 DEF BrokerRepeats
        <4>2. log[k][i].seq = r.seq /\ log[k][i].pid = p /\ SizeOf[log[k][i].call] = SizeOf[r.call]
            BY <4>1 DEF Repeats
        <4>3. r.seq + SizeOf[r.call] <= next[p][k]
          <5> DEFINE e == log[k][i]
          <5>1. /\ Key(e.call) = k /\ e.pid = ident[e.call].pid
                /\ e.seq + SizeOf[e.call] <= Expected(e.call)
              BY <1>0, <1>1, <4>1 DEF LogInv
          <5> QED  BY <4>2, <5>1 DEF Expected
        <4> QED  BY <1>1, <1>3, <4>1, <4>3 DEF Expected
      <3> QED  BY <1>5, <3>1, <3>2
    <2>3. \A d \in Calls : (Identified(d)' <=> Identified(d)) /\ Expected(d)' = Expected(d)
        BY <1>2, <2>1 DEF Identified, Expected
    <2>4. \A d \in Calls : Confirmed(d)' => ident[d].seq + SizeOf[d] <= Expected(d)
        BY <1>0, <1>2, <2>2 DEF NetInv, Confirmed
    <2>5. \A d \in Calls : reply'[d].kind = "ok" => pc'[d] = "send"
        BY <1>0, <1>2, <2>2 DEF NetInv
    <2>6. NetInv'
        BY <1>0, <1>2, <1>c, <2>1, <2>3, <2>4, <2>5 DEF NetInv
    <2>7. LogInv'
      <3>1. AppendedAtMostOnce'
          BY <1>0, <2>1 DEF LogInv, AppendedAtMostOnce
      <3>2. ident' = ident /\ log' = log
          BY <1>2, <2>1
      <3> QED  BY <1>0, <1>c, <2>3, <3>1, <3>2 DEF LogInv
    <2> QED  BY <2>6, <2>7
  <1> QED
      BY <1>4, <1>5 DEF Broker

(* Stuttering keeps the invariant.                                         *)
LEMMA InvStutter == IInv /\ UNCHANGED vars => IInv'
  <1> SUFFICES ASSUME IInv, UNCHANGED vars PROVE IInv'
      OBVIOUS
  <1>0. UNCHANGED <<pc, expired, attempt, copy, endpoint, ident, reply, result, lock, inFlight,
                    initMu, producerID, sequences, net, log, next, allocated>>
      BY DEF vars, callVars, loopVars, idVars, clientVars, brokerVars
  <1>1. TypeInv'
      BY TypeStutter DEF IInv
  <1>2. LockInv' /\ InitInv' /\ IdentInv'
      BY <1>0 DEF IInv, LockInv, BatchesSerialized, InitInv, IdentInv, Identified, Key
  <1>3. TileInv'
      BY <1>0 DEF IInv, TileInv, AckedBatchesTileSequences, Acked, Batch, Key
  <1>4. NetInv' /\ LogInv'
    <2>1. NetInv'
        BY <1>0 DEF IInv, NetInv, Identified, Expected, Confirmed, Key
    <2>2. LogInv'
      <3>1. ident' = ident /\ log' = log /\ next' = next
          BY <1>0
      <3>2. AppendedAtMostOnce' <=> AppendedAtMostOnce
          BY <3>1 DEF AppendedAtMostOnce
      <3>3. LogInv
          BY DEF IInv
      <3>4. \A d : (Identified(d)' <=> Identified(d)) /\ Expected(d)' = Expected(d)
          BY <3>1 DEF Identified, Expected, Key
      <3> QED  BY <3>1, <3>2, <3>3, <3>4 DEF LogInv, Key
    <2> QED  BY <2>1, <2>2
  <1> QED
      BY <1>1, <1>2, <1>3, <1>4 DEF IInv

(* IInv is inductive.                                                      *)
THEOREM Invariance == Spec => []IInv
  <1>1. ASSUME IInv, NEW c \in Calls, Start(c) \/ Expire(c) \/ Step(c)
        PROVE  IInv'
    <2>1. TypeInv'
        BY <1>1, TypeCall DEF IInv
    <2> QED  BY <1>1, <2>1, LockCall, InitCall, IdentCall, TileCall, NetCall, LogCall DEF IInv
  <1>2. ASSUME IInv, NEW r \in net, Broker(r)
        PROVE  IInv'
    <2>1. TypeInv'
        BY <1>2, TypeBroker DEF IInv
    <2> QED  BY <1>2, <2>1, ClientInvBroker, NetBroker DEF IInv
  <1>3. IInv /\ [Next]_vars => IInv'
      BY <1>1, <1>2, InvStutter DEF Next
  <1> QED
      BY InvInit, <1>3, PTL DEF Spec

(* Calls of one partition never overlap: the one-place channel of          *)
(* acquireOrdering serializes them, on every way in and out.               *)
THEOREM Serialized == Spec => []BatchesSerialized
  <1>1. IInv => BatchesSerialized
      BY DEF IInv, LockInv
  <1> QED
      BY Invariance, <1>1, PTL

(* One producer id for all the batches of the client, however many calls   *)
(* found it unset (initProducerID).                                        *)
THEOREM SinglePid == Spec => []OneProducerID
  <1>1. IInv => OneProducerID
      BY DEF IInv, IdentInv, OneProducerID
  <1> QED
      BY Invariance, <1>1, PTL

(* Acknowledged batches tile the sequence numbers used (batchIdentity and  *)
(* commitSequence under the partition's channel).                          *)
THEOREM AckedTile == Spec => []AckedBatchesTileSequences
  <1>1. IInv => AckedBatchesTileSequences
      BY DEF IInv, TileInv
  <1> QED
      BY Invariance, <1>1, PTL

(* No request opens a gap in the sequence the broker expects.              *)
THEOREM NoGap == Spec => []NoSequenceGap
  <1>1. IInv => NoSequenceGap
      BY DEF IInv, NetInv, NoSequenceGap, Expected
  <1> QED
      BY Invariance, <1>1, PTL

(* Retries and late copies append a batch once at most.                    *)
THEOREM AtMostOnce == Spec => []AppendedAtMostOnce
  <1>1. IInv => AppendedAtMostOnce
      BY DEF IInv, LogInv, AppendedAtMostOnce
  <1> QED
      BY Invariance, <1>1, PTL
-----------------------------------------------------------------------------
(* The tokens, counted.                                                    *)

Holders(k) == {c \in Calls : Key(c) = k /\ pc[c] \in Holding}
Senders(e) == {c \in Calls : endpoint[c] = e /\ pc[c] = "send"}

LockTokens   == Ordering => \A k \in Keys : lock[k] = Cardinality(Holders(k))
FlightTokens == \A e \in Endpoints : inFlight[e] = Cardinality(Senders(e))

(* A set of calls that gains or loses one call counts one more or less.    *)
LEMMA OneMore ==
    ASSUME NEW S \in SUBSET Calls, NEW c \in Calls \ S
    PROVE  Cardinality(S \cup {c}) = Cardinality(S) + 1
  BY CallsAssumption, FS_Subset, FS_AddElement

LEMMA OneLess ==
    ASSUME NEW S \in SUBSET Calls, NEW c \in S
    PROVE  /\ Cardinality(S \ {c}) = Cardinality(S) - 1
           /\ Cardinality(S) \in Nat \ {0}
  <1>1. IsFiniteSet(S) /\ S # {}
      BY CallsAssumption, FS_Subset
  <1>2. Cardinality(S) \in Nat /\ Cardinality(S) # 0
      BY <1>1, FS_EmptySet, FS_CardinalityType
  <1> QED
      BY <1>1, <1>2, FS_RemoveElement

LEMMA NoToken == \A S \in SUBSET Calls : Cardinality(S) = 0 => S = {}
  BY CallsAssumption, FS_Subset, FS_EmptySet

(* Where the calls stand after a step of one of them.                      *)
Stays(c) == \A d \in Calls \ {c} : pc'[d] = pc[d] /\ endpoint'[d] = endpoint[d]

LEMMA SameHolders ==
    ASSUME NEW c \in Calls, Stays(c), pc'[c] \in Holding <=> pc[c] \in Holding,
           lock' = lock, LockTokens
    PROVE  LockTokens'
  <1>1. \A k \in Keys : Holders(k)' = Holders(k)
      BY DEF Holders, Stays
  <1> QED
      BY <1>1 DEF LockTokens

LEMMA SameSenders ==
    ASSUME NEW c \in Calls, Stays(c), pc[c] # "send", pc'[c] # "send",
           inFlight' = inFlight, FlightTokens
    PROVE  FlightTokens'
  <1>1. \A e \in Endpoints : Senders(e)' = Senders(e)
      BY DEF Senders, Stays
  <1> QED
      BY <1>1 DEF FlightTokens

(* Every way out of protocol.Send returns the token it took.               *)
LEMMA TokenComesBack ==
    ASSUME TypeInv, FlightTokens, NEW c \in Calls, Stays(c), pc[c] = "send",
           pc'[c] # "send", inFlight' = TokenReturned(c)
    PROVE  FlightTokens'
  <1>1. endpoint[c] \in Endpoints /\ inFlight \in [Endpoints -> 0..MaxInFlight]
      BY DEF TypeInv, TypeOK
  <1>2. PICK f \in Endpoints : f = endpoint[c]
      BY <1>1
  <1>3. c \in Senders(f) /\ Senders(f) \in SUBSET Calls /\ Senders(f)' = Senders(f) \ {c}
      BY <1>2 DEF Senders, Stays
  <1>4. \A e \in Endpoints \ {f} : Senders(e)' = Senders(e)
      BY <1>2 DEF Senders, Stays
  <1>5. inFlight[f] > 0
      BY <1>2, <1>3, OneLess DEF FlightTokens
  <1>6. /\ inFlight'[f] = inFlight[f] - 1
        /\ \A e \in Endpoints \ {f} : inFlight'[e] = inFlight[e]
      BY <1>1, <1>2, <1>5 DEF TokenReturned
  <1>7. inFlight'[f] = Cardinality(Senders(f)')
      BY <1>2, <1>3, <1>6, OneLess DEF FlightTokens
  <1>8. \A e \in Endpoints : inFlight'[e] = Cardinality(Senders(e)')
      BY <1>4, <1>6, <1>7 DEF FlightTokens
  <1> QED
      BY <1>8 DEF FlightTokens

(* The other steps of a call stay on one side of both waits.               *)
Bystander(c) ==
    \/ Start(c) \/ Expire(c) \/ AcquireOrderingCanceled(c)
    \/ EnsureProducerID(c) \/ LockInit(c) \/ InitProducerID(c) \/ InitProducerIDFails(c)
    \/ TakeIdentity(c) \/ Route(c) \/ GiveUp(c) \/ Backoff(c) \/ Commit(c)

LEMMA BystanderTokens ==
    ASSUME TypeInv, LockTokens, FlightTokens, NEW c \in Calls, Bystander(c)
    PROVE  LockTokens' /\ FlightTokens'
  <1> USE DEF GoTo, Return, callVars, loopVars, clientVars, idVars, brokerVars
  <1>1. pc \in [Calls -> Before \cup Holding] /\ endpoint \in [Calls -> Endpoints]
      BY DEF TypeInv, TypeOK
  <1>2. lock' = lock /\ inFlight' = inFlight
      BY DEF Bystander, Start, Expire, AcquireOrderingCanceled, EnsureProducerID, LockInit,
             InitProducerID, InitProducerIDFails, TakeIdentity, Route, GiveUp, Backoff, Commit
  <1>3. Stays(c)
    <2>1. CASE Route(c)
        BY <1>1, <2>1 DEF Route, Stays
    <2>2. CASE ~Route(c)
      <3>1. endpoint' = endpoint
          BY <2>2 DEF Bystander, Start, Expire, AcquireOrderingCanceled, EnsureProducerID,
             LockInit, InitProducerID, InitProducerIDFails, TakeIdentity, GiveUp, Backoff, Commit
      <3>2. \A d \in Calls \ {c} : pc'[d] = pc[d]
          BY <1>1, <2>2 DEF Bystander, Start, Expire, AcquireOrderingCanceled,
             EnsureProducerID, LockInit, InitProducerID, InitProducerIDFails, TakeIdentity,
             GiveUp, Backoff, Commit
      <3> QED  BY <3>1, <3>2 DEF Stays
    <2> QED  BY <2>1, <2>2
  <1>4. CASE Expire(c)
    <2>1. pc' = pc /\ endpoint' = endpoint
        BY <1>4 DEF Expire
    <2>2. /\ \A k \in Keys : Holders(k)' = Holders(k)
          /\ \A e \in Endpoints : Senders(e)' = Senders(e)
        BY <2>1 DEF Holders, Senders
    <2> QED  BY <1>2, <2>2 DEF LockTokens, FlightTokens
  <1>5. CASE ~Expire(c)
    <2>1. \/ {pc[c], pc'[c]} \subseteq Holding
          \/ {pc[c], pc'[c]} \cap Holding = {}
      <3>1. CASE Start(c) \/ AcquireOrderingCanceled(c)
          BY <1>1, <3>1 DEF Start, AcquireOrderingCanceled, Holding, Opening, Looping
      <3>2. CASE EnsureProducerID(c) \/ LockInit(c) \/ InitProducerID(c) \/ InitProducerIDFails(c)
          BY <1>1, <3>2 DEF EnsureProducerID, LockInit, InitProducerID, InitProducerIDFails,
                            Holding, Opening, Looping
      <3>3. CASE TakeIdentity(c) \/ Route(c) \/ GiveUp(c) \/ Backoff(c) \/ Commit(c)
          BY <1>1, <3>3 DEF TakeIdentity, Route, GiveUp, Backoff, Commit, Holding, Opening, Looping
      <3> QED  BY <1>5, <3>1, <3>2, <3>3 DEF Bystander
    <2>2. pc[c] # "send" /\ pc'[c] # "send"
      <3>1. CASE Start(c) \/ AcquireOrderingCanceled(c)
          BY <1>1, <3>1 DEF Start, AcquireOrderingCanceled
      <3>2. CASE EnsureProducerID(c) \/ LockInit(c) \/ InitProducerID(c) \/ InitProducerIDFails(c)
          BY <1>1, <3>2 DEF EnsureProducerID, LockInit, InitProducerID, InitProducerIDFails
      <3>3. CASE TakeIdentity(c) \/ Route(c) \/ GiveUp(c) \/ Backoff(c) \/ Commit(c)
          BY <1>1, <3>3 DEF TakeIdentity, Route, GiveUp, Backoff, Commit
      <3> QED  BY <1>5, <3>1, <3>2, <3>3 DEF Bystander
    <2>3. pc'[c] \in Holding <=> pc[c] \in Holding
        BY <2>1
    <2> QED  BY <1>2, <1>3, <2>2, <2>3, SameHolders, SameSenders
  <1> QED
      BY <1>4, <1>5

LEMMA CallTokens ==
    ASSUME TypeInv, LockTokens, FlightTokens, NEW c \in Calls, Start(c) \/ Expire(c) \/ Step(c)
    PROVE  LockTokens' /\ FlightTokens'
  <1> USE DEF GoTo, Return, callVars, loopVars, clientVars, idVars, brokerVars
  <1>1. /\ pc \in [Calls -> Before \cup Holding] /\ endpoint \in [Calls -> Endpoints]
        /\ lock \in [Keys -> 0..1] /\ inFlight \in [Endpoints -> 0..MaxInFlight]
        /\ Key(c) \in Keys
      BY BatchAssumption DEF TypeInv, TypeOK, Key
  <1>2. CASE Bystander(c)
      BY <1>2, BystanderTokens
  <1>3. CASE AcquireOrdering(c)
    <2>1. /\ pc[c] = "ordering" /\ pc'[c] = "ensureID" /\ endpoint' = endpoint
          /\ inFlight' = inFlight /\ lock' = Locked(c) /\ OrderingFree(c)
          /\ \A d \in Calls \ {c} : pc'[d] = pc[d]
        BY <1>1, <1>3 DEF AcquireOrdering
    <2>2. FlightTokens'
        BY <2>1, SameSenders DEF Stays
    <2>3. ASSUME Ordering
          PROVE  \A k \in Keys : lock'[k] = Cardinality(Holders(k)')
      <3>1. lock[Key(c)] = 0 /\ lock' = [lock EXCEPT ![Key(c)] = 1]
          BY <2>1, <2>3 DEF OrderingFree, Locked
      <3>2. Holders(Key(c)) \in SUBSET Calls /\ c \notin Holders(Key(c))
          BY <2>1 DEF Holders, Holding, Opening, Looping
      <3>3. Holders(Key(c))' = Holders(Key(c)) \cup {c}
          BY <2>1 DEF Holders, Holding, Opening
      <3>4. \A k \in Keys \ {Key(c)} : Holders(k)' = Holders(k)
          BY <2>1 DEF Holders
      <3>5. Cardinality(Holders(Key(c))') = 1
          BY <1>1, <2>3, <3>1, <3>2, <3>3, OneMore DEF LockTokens
      <3>6. \A k \in Keys \ {Key(c)} : lock'[k] = Cardinality(Holders(k)')
          BY <1>1, <2>3, <3>1, <3>4 DEF LockTokens
      <3> QED  BY <1>1, <3>1, <3>5, <3>6
    <2> QED  BY <2>2, <2>3 DEF LockTokens
  <1>4. CASE ReleaseOrdering(c)
    <2>1. /\ pc[c] = "unlock" /\ pc'[c] = "done" /\ endpoint' = endpoint
          /\ inFlight' = inFlight /\ lock' = Unlocked(c)
          /\ \A d \in Calls \ {c} : pc'[d] = pc[d]
        BY <1>1, <1>4 DEF ReleaseOrdering
    <2>2. FlightTokens'
        BY <2>1, SameSenders DEF Stays
    <2>3. ASSUME Ordering
          PROVE  \A k \in Keys : lock'[k] = Cardinality(Holders(k)')
      <3>1. lock' = [lock EXCEPT ![Key(c)] = 0]
          BY <2>1, <2>3 DEF Unlocked
      <3>2. Holders(Key(c)) \in SUBSET Calls /\ c \in Holders(Key(c))
          BY <2>1 DEF Holders, Holding
      <3>3. Holders(Key(c))' = Holders(Key(c)) \ {c}
          BY <2>1 DEF Holders, Holding, Opening, Looping
      <3>4. \A k \in Keys \ {Key(c)} : Holders(k)' = Holders(k)
          BY <2>1 DEF Holders
      <3>5. lock[Key(c)] = Cardinality(Holders(Key(c))) /\ lock[Key(c)] \in 0..1
          BY <1>1, <2>3 DEF LockTokens
      <3>6. Cardinality(Holders(Key(c))') = 0
          BY <3>2, <3>3, <3>5, OneLess
      <3>7. \A k \in Keys \ {Key(c)} : lock'[k] = Cardinality(Holders(k)')
          BY <1>1, <2>3, <3>1, <3>4 DEF LockTokens
      <3> QED  BY <1>1, <3>1, <3>6, <3>7
    <2> QED  BY <2>2, <2>3 DEF LockTokens
  <1>5. CASE AcquireInFlight(c)
    <2>1. /\ pc[c] = "inFlight" /\ pc'[c] = "send" /\ endpoint' = endpoint
          /\ inFlight' = TokenTaken(c) /\ lock' = lock
          /\ \A d \in Calls \ {c} : pc'[d] = pc[d]
        BY <1>1, <1>5 DEF AcquireInFlight
    <2>2. LockTokens'
        BY <2>1, SameHolders DEF Stays, Holding, Looping
    <2>3. PICK f \in Endpoints : f = endpoint[c]
        BY <1>1
    <2>4. /\ Senders(f) \in SUBSET Calls /\ c \notin Senders(f)
          /\ Senders(f)' = Senders(f) \cup {c}
        BY <2>1, <2>3 DEF Senders
    <2>5. \A e \in Endpoints \ {f} : Senders(e)' = Senders(e)
        BY <2>1, <2>3 DEF Senders
    <2>6. inFlight' = [inFlight EXCEPT ![f] = inFlight[f] + 1]
        BY <2>1, <2>3 DEF TokenTaken
    <2>7. inFlight'[f] = Cardinality(Senders(f)')
      <3>1. Cardinality(Senders(f)') = inFlight[f] + 1
          BY <2>3, <2>4, OneMore DEF FlightTokens
      <3> QED  BY <1>1, <2>3, <2>6, <3>1
    <2>8. \A e \in Endpoints : inFlight'[e] = Cardinality(Senders(e)')
        BY <1>1, <2>5, <2>6, <2>7 DEF FlightTokens
    <2> QED  BY <2>2, <2>8 DEF FlightTokens
  <1>6. CASE WriteRequest(c)
    <2>1. pc' = pc /\ endpoint' = endpoint /\ lock' = lock /\ inFlight' = inFlight
        BY <1>6 DEF WriteRequest
    <2>2. /\ \A k \in Keys : Holders(k)' = Holders(k)
          /\ \A e \in Endpoints : Senders(e)' = Senders(e)
        BY <2>1 DEF Holders, Senders
    <2> QED  BY <2>1, <2>2 DEF LockTokens, FlightTokens
  <1>7. ASSUME pc[c] = "send", pc'[c] \in {"route", "backoff", "unlock", "commit"},
               \A d \in Calls \ {c} : pc'[d] = pc[d],
               endpoint' = endpoint, lock' = lock, inFlight' = TokenReturned(c)
        PROVE  LockTokens' /\ FlightTokens'
    <2>1. Stays(c)
        BY <1>7 DEF Stays
    <2>2. LockTokens'
        BY <1>7, <2>1, SameHolders DEF Holding, Looping
    <2>3. FlightTokens'
        BY <1>7, <2>1, TokenComesBack
    <2> QED  BY <2>2, <2>3
  <1>8. CASE SendFails(c) \/ ReplyError(c)
    <2>1. PICK kind : AfterFailure(c, kind)
        BY <1>8 DEF SendFails, ReplyError
    <2>2. pc'[c] \in {"route", "backoff", "unlock"} /\ \A d \in Calls \ {c} : pc'[d] = pc[d]
        BY <2>1, AfterFailureMoves
    <2> QED  BY <1>7, <1>8, <2>2 DEF SendFails, ReplyError
  <1>9. CASE ReplyOk(c)
    <2>1. pc'[c] = "commit" /\ \A d \in Calls \ {c} : pc'[d] = pc[d]
        BY <1>1, <1>9 DEF ReplyOk
    <2> QED  BY <1>7, <1>9, <2>1 DEF ReplyOk
  <1> QED
      BY <1>2, <1>3, <1>4, <1>5, <1>6, <1>8, <1>9 DEF Step, Bystander

(* The tokens in the channels are those of the calls that took them,       *)
(* whichever way a call leaves produceRecords (releaseInFlight and the     *)
(* deferred releaseOrdering).                                              *)
THEOREM TokensKept == Spec => []TokensMatchHolders
  <1> DEFINE Tokens == LockTokens /\ FlightTokens
  <1>1. Init => Tokens
    <2> SUFFICES ASSUME Init PROVE Tokens
        OBVIOUS
    <2>1. \A k \in Keys : Holders(k) = {}
        BY DEF Init, Holders, Holding, Opening, Looping
    <2>2. \A e \in Endpoints : Senders(e) = {}
        BY DEF Init, Senders
    <2> QED  BY <2>1, <2>2, FS_EmptySet DEF Init, LockTokens, FlightTokens
  <1>2. TypeInv /\ Tokens /\ [Next]_vars => Tokens'
    <2>1. ASSUME UNCHANGED <<pc, endpoint, lock, inFlight>>, Tokens
          PROVE  Tokens'
      <3>1. /\ \A k \in Keys : Holders(k)' = Holders(k)
            /\ \A e \in Endpoints : Senders(e)' = Senders(e)
          BY <2>1 DEF Holders, Senders
      <3> QED  BY <2>1, <3>1 DEF LockTokens, FlightTokens
    <2>2. ASSUME NEW r \in net, Broker(r)
          PROVE  UNCHANGED <<pc, endpoint, lock, inFlight>>
        BY <2>2 DEF Broker, BrokerAppends, BrokerRepeats, BrokerRejects, clientVars
    <2>3. UNCHANGED vars => UNCHANGED <<pc, endpoint, lock, inFlight>>
        BY DEF vars, callVars, loopVars, clientVars
    <2> QED  BY <2>1, <2>2, <2>3, CallTokens DEF Next
  <1>3. Tokens => TokensMatchHolders
      BY DEF TokensMatchHolders, LockTokens, FlightTokens, Holders, Senders
  <1>4. TypeInv /\ [Next]_vars => TypeInv'
      BY TypeCall, TypeBroker, TypeStutter DEF Next
  <1> QED
      BY TypeInit, <1>1, <1>2, <1>3, <1>4, PTL DEF Spec
-----------------------------------------------------------------------------
(* While no deadline passes and no connection breaks (~Lossy), a caller is *)
(* told what happened.  The invariant behind it: protocol.Send returns     *)
(* only with the answer to the one request it wrote.                       *)

(* A request on its way is the one its call waits for, and has no answer   *)
(* yet; a call that waits for nothing has none.                            *)
AwaitedInv ==
    /\ expired = {}
    /\ \A r \in net : /\ pc[r.call] = "send" /\ copy[r.call] # 0
                      /\ r.attempt = attempt[r.call] /\ r.copy = copy[r.call]
                      /\ reply[r.call].kind = "none"
    /\ \A r, s \in net : r.call = s.call => r = s
    /\ \A c \in Calls : reply[c].kind # "none" => pc[c] = "send" /\ copy[c] # 0

(* A call has a result when it leaves the loop, and no sooner.             *)
ResultInv ==
    \A c \in Calls :
        /\ result[c].kind \in {"none", "ok", "failed"}
        /\ result[c].kind = "ok" => pc[c] \in {"commit", "unlock", "done"}
        /\ result[c].kind = "failed" => pc[c] \in {"unlock", "done"}
        /\ pc[c] \in {"commit", "unlock", "done"} => result[c].kind # "none"

(* What is in the log and what the caller was, or is about to be, told are *)
(* the same.                                                               *)
Told(c, i) == \/ reply[c].kind = "ok" /\ reply[c].offset = i
              \/ result[c].kind = "ok" /\ result[c].offset = i

ToldInv ==
    /\ \A c \in Calls, k \in Keys : \A i \in DOMAIN log[k] :
           log[k][i].call = c => Key(c) = k /\ Told(c, i)
    /\ \A c \in Calls, i \in Nat :
           Told(c, i) => i \in DOMAIN log[Key(c)] /\ log[Key(c)][i].call = c

(* Only an idempotent producer has an id to stamp on its batches.          *)
PlainInv == ~Idempotent => /\ \A c \in Calls : ident[c].pid = NoPid
                           /\ \A r \in net : r.pid = NoPid

ReliableInv == AwaitedInv /\ ResultInv /\ ToldInv /\ PlainInv

Over == {"commit", "unlock", "done"}

(* The ways a step of a call can end, without losses.                      *)
Apart(c) ==
    /\ expired' = {} /\ log' = log
    /\ \A d \in Calls \ {c} : /\ pc'[d] = pc[d] /\ result'[d] = result[d]
                              /\ reply'[d] = reply[d] /\ copy'[d] = copy[d]
                              /\ attempt'[d] = attempt[d]
    /\ \A r \in net : r.call # c
    /\ net' = net \/ WriteRequest(c)
    /\ reply'[c].kind = "none" /\ pc'[c] # "idle"

GoesOn(c) ==
    /\ reply[c].kind # "ok" /\ result'[c] = result[c]
    /\ pc'[c] \in Over <=> pc[c] \in Over
    /\ pc'[c] = "commit" => pc[c] = "commit"

Fails(c) ==
    /\ reply[c].kind # "ok" /\ result[c].kind = "none" /\ pc[c] # "idle"
    /\ result'[c] = Failed /\ pc'[c] \in {"unlock", "done"}

Succeeds(c) ==
    /\ reply[c].kind = "ok" /\ result[c].kind = "none" /\ pc[c] # "idle"
    /\ result'[c] = reply[c] /\ pc'[c] = "commit"

(* A call takes a step with no request of its own on its way; if it has an *)
(* answer, the step takes it.                                              *)
LEMMA Waiting ==
    ASSUME ~Lossy, TypeInv, AwaitedInv, NEW c \in Calls, Start(c) \/ Step(c)
    PROVE  /\ \A r \in net : r.call # c
           /\ reply[c].kind # "none" => ReplyError(c) \/ ReplyOk(c)
  <1>1. ASSUME pc[c] # "send"
        PROVE  /\ \A r \in net : r.call # c
               /\ reply[c].kind = "none"
      BY <1>1 DEF AwaitedInv
  <1>2. CASE pc[c] = "send"
    <2>1. WriteRequest(c) \/ SendFails(c) \/ ReplyError(c) \/ ReplyOk(c)
        BY <1>2 DEF Step, Start, AcquireOrdering, AcquireOrderingCanceled, EnsureProducerID,
           LockInit, InitProducerID, InitProducerIDFails, TakeIdentity, Route, GiveUp,
           AcquireInFlight, Backoff, Commit, ReleaseOrdering
    <2>2. WriteRequest(c) \/ SendFails(c) => copy[c] = 0
        BY DEF WriteRequest, SendFails
    <2>3. ReplyError(c) \/ ReplyOk(c) => reply[c].kind # "none"
        BY DEF ReplyError, ReplyOk, Errors
    <2> QED  BY <2>1, <2>2, <2>3 DEF AwaitedInv
  <1> QED
      BY <1>1, <1>2

(* A step of a call carries it on, or ends it well or not, and leaves the  *)
(* other calls and the log alone.                                          *)
LEMMA CallEffect ==
    ASSUME ~Lossy, TypeInv, AwaitedInv, ResultInv, NEW c \in Calls, Start(c) \/ Step(c)
    PROVE  Apart(c) /\ (GoesOn(c) \/ Fails(c) \/ Succeeds(c))
  <1> USE DEF Apart, GoesOn, Fails, Succeeds, Over, GoTo, Return, callVars, loopVars, idVars,
              clientVars, brokerVars
  <1>0. /\ pc \in [Calls -> Before \cup Holding]
        /\ result \in [Calls -> Replies] /\ reply \in [Calls -> Replies]
        /\ copy \in [Calls -> 0..MaxCopies] /\ attempt \in [Calls -> 1..MaxAttempts]
        /\ expired = {}
        /\ \A r \in net : r.call # c
        /\ reply[c].kind # "none" => ReplyError(c) \/ ReplyOk(c)
        /\ pc[c] \notin Over => result[c].kind = "none"
    <2>1. pc[c] \notin Over => result[c].kind = "none"
        BY DEF ResultInv
    <2> QED  BY <2>1, Waiting DEF TypeInv, TypeOK, AwaitedInv
  <1>r. pc[c] # "send" => reply[c].kind = "none"
      BY DEF AwaitedInv
  <1>1. CASE Start(c)  BY <1>0, <1>r, <1>1 DEF Start
  <1>2. CASE AcquireOrdering(c)  BY <1>0, <1>r, <1>2 DEF AcquireOrdering
  <1>3. CASE AcquireOrderingCanceled(c)  BY <1>0, <1>3 DEF AcquireOrderingCanceled
  <1>4. CASE EnsureProducerID(c)  BY <1>0, <1>r, <1>4 DEF EnsureProducerID
  <1>5. CASE LockInit(c)
    <2>1. pc' = [pc EXCEPT ![c] = "initRequest"] \/ pc' = [pc EXCEPT ![c] = "identity"]
        BY <1>5 DEF LockInit
    <2>2. UNCHANGED <<callVars, lock, inFlight, idVars, brokerVars>> /\ pc[c] = "initMu"
        BY <1>5 DEF LockInit
    <2> QED  BY <1>0, <1>r, <2>1, <2>2
  <1>6. CASE InitProducerID(c)  BY <1>0, <1>r, <1>6 DEF InitProducerID
  <1>7. CASE InitProducerIDFails(c)
    <2>1. /\ pc[c] = "initRequest"
          /\ pc' = [pc EXCEPT ![c] = "unlock"]
          /\ result' = [result EXCEPT ![c] = Failed]
          /\ UNCHANGED <<expired, loopVars, lock, inFlight, idVars, brokerVars>>
        BY <1>7 DEF InitProducerIDFails
    <2> QED  BY <1>0, <1>r, <2>1
  <1>8. CASE TakeIdentity(c)  BY <1>0, <1>r, <1>8 DEF TakeIdentity
  <1>9. CASE Route(c)  BY <1>0, <1>r, <1>9 DEF Route
  <1>10. CASE GiveUp(c)
    <2>1. /\ pc[c] = "route"
          /\ pc' = [pc EXCEPT ![c] = "unlock"]
          /\ result' = [result EXCEPT ![c] = Failed]
          /\ UNCHANGED <<expired, loopVars, clientVars, brokerVars>>
        BY <1>0, <1>10 DEF GiveUp
    <2> QED  BY <1>0, <1>r, <2>1
  <1>11. CASE AcquireInFlight(c)  BY <1>0, <1>r, <1>11 DEF AcquireInFlight
  <1>12. CASE WriteRequest(c)
    <2>1. reply[c].kind = "none"
      <3>1. copy[c] = 0
          BY <1>12 DEF WriteRequest
      <3> QED  BY <3>1 DEF AwaitedInv
    <2>2. /\ pc[c] = "send"
          /\ copy' = [copy EXCEPT ![c] = @ + 1]
          /\ reply' = [reply EXCEPT ![c] = None]
          /\ UNCHANGED <<pc, expired, attempt, endpoint, ident, result, clientVars, log, next, allocated>>
        BY <1>12 DEF WriteRequest
    <2> QED  BY <1>0, <1>12, <2>1, <2>2 DEF None
  <1>13. CASE SendFails(c) \/ ReplyError(c)
    <2>1. PICK kind : AfterFailure(c, kind)
        BY <1>13 DEF SendFails, ReplyError
    <2>2. /\ pc[c] = "send"
          /\ reply' = [reply EXCEPT ![c] = None]
          /\ UNCHANGED <<expired, copy, endpoint, ident, lock, initMu, idVars, brokerVars>>
        BY <1>13 DEF SendFails, ReplyError
    <2>3. reply[c].kind # "ok"
      <3>1. SendFails(c) => reply[c].kind = "none"
          BY DEF SendFails, AwaitedInv
      <3>2. ReplyError(c) => reply[c].kind # "ok"
          BY DEF ReplyError, Errors
      <3> QED  BY <1>13, <3>1, <3>2
    <2>4. \/ pc'[c] \in {"route", "backoff"} /\ result' = result
          \/ pc'[c] = "unlock" /\ result' = [result EXCEPT ![c] = Failed]
        BY <1>0, <2>1 DEF AfterFailure
    <2>5. \A d \in Calls \ {c} : /\ pc'[d] = pc[d] /\ result'[d] = result[d]
                                 /\ attempt'[d] = attempt[d]
        BY <1>0, <2>1 DEF AfterFailure
    <2> QED  BY <1>0, <2>2, <2>3, <2>4, <2>5 DEF None
  <1>14. CASE ReplyOk(c)  BY <1>0, <1>14 DEF ReplyOk, None
  <1>15. CASE Backoff(c)  BY <1>0, <1>r, <1>15 DEF Backoff
  <1>16. CASE Commit(c)  BY <1>0, <1>r, <1>16 DEF Commit
  <1>17. CASE ReleaseOrdering(c)  BY <1>0, <1>r, <1>17 DEF ReleaseOrdering
  <1> QED
      BY <1>1, <1>2, <1>3, <1>4, <1>5, <1>6, <1>7, <1>8, <1>9, <1>10, <1>11, <1>12,
         <1>13, <1>14, <1>15, <1>16, <1>17 DEF Step

(* The steps of calls keep what holds without losses.                      *)
LEMMA ReliableCall ==
    ASSUME ~Lossy, TypeInv, ReliableInv, NEW c \in Calls, Start(c) \/ Step(c)
    PROVE  ReliableInv'
  <1> USE DEF ReliableInv
  <1>0. /\ Apart(c) /\ (GoesOn(c) \/ Fails(c) \/ Succeeds(c))
        /\ AwaitedInv /\ ResultInv /\ ToldInv /\ PlainInv
        /\ net \subseteq Requests
      BY CallEffect DEF TypeInv, TypeOK
  <1>1. AwaitedInv'
    <2>1. \A r \in net : r.call \in Calls \ {c}
        BY <1>0 DEF Apart, Requests
    <2>2. CASE WriteRequest(c)
      <3>1. /\ net' = net \cup {ProduceRequest(c, copy[c] + 1)} /\ pc[c] = "send"
            /\ copy'[c] = copy[c] + 1 /\ copy[c] = 0 /\ pc' = pc /\ attempt' = attempt
          BY <2>2 DEF WriteRequest, TypeInv, TypeOK
      <3>2. /\ ProduceRequest(c, copy[c] + 1).call = c
            /\ ProduceRequest(c, copy[c] + 1).attempt = attempt[c]
            /\ ProduceRequest(c, copy[c] + 1).copy = copy[c] + 1
          BY DEF ProduceRequest
      <3>3. \A r \in net : /\ pc'[r.call] = "send" /\ copy'[r.call] # 0
                           /\ r.attempt = attempt'[r.call] /\ r.copy = copy'[r.call]
                           /\ reply'[r.call].kind = "none"
          BY <1>0, <2>1 DEF Apart, AwaitedInv
      <3>4. \A r, q \in net' : r.call = q.call => r = q
          BY <1>0, <2>1, <3>1, <3>2 DEF AwaitedInv
      <3>5. \A r \in net' : /\ pc'[r.call] = "send" /\ copy'[r.call] # 0
                            /\ r.attempt = attempt'[r.call] /\ r.copy = copy'[r.call]
                            /\ reply'[r.call].kind = "none"
          BY <1>0, <3>1, <3>2, <3>3 DEF Apart
      <3> QED  BY <1>0, <3>4, <3>5 DEF Apart, AwaitedInv
    <2>3. CASE net' = net
      <3>1. \A r \in net : /\ pc'[r.call] = "send" /\ copy'[r.call] # 0
                           /\ r.attempt = attempt'[r.call] /\ r.copy = copy'[r.call]
                           /\ reply'[r.call].kind = "none"
          BY <1>0, <2>1 DEF Apart, AwaitedInv
      <3> QED  BY <1>0, <2>3, <3>1 DEF Apart, AwaitedInv
    <2> QED  BY <1>0, <2>2, <2>3 DEF Apart
  <1>2. ResultInv'
    <2>1. \A d \in Calls \ {c} : pc'[d] = pc[d] /\ result'[d] = result[d]
        BY <1>0 DEF Apart
    <2>2. CASE GoesOn(c)
        BY <1>0, <2>1, <2>2 DEF GoesOn, Over, ResultInv
    <2>3. CASE Fails(c)
        BY <1>0, <2>1, <2>3 DEF Fails, Failed, ResultInv
    <2>4. CASE Succeeds(c)
        BY <1>0, <2>1, <2>4 DEF Succeeds, ResultInv
    <2> QED  BY <1>0, <2>2, <2>3, <2>4
  <1>3. ToldInv'
    <2>1. \A d \in Calls, i \in Nat : Told(d, i)' <=> Told(d, i)
      <3>1. \A i \in Nat : Told(c, i)' <=> Told(c, i)
        <4>1. CASE GoesOn(c)
            BY <1>0, <4>1 DEF GoesOn, Apart, Told
        <4>2. CASE Fails(c)
            BY <1>0, <4>2 DEF Fails, Failed, Apart, Told
        <4>3. CASE Succeeds(c)
            BY <1>0, <4>3 DEF Succeeds, Apart, Told
        <4> QED  BY <1>0, <4>1, <4>2, <4>3
      <3> QED  BY <1>0, <3>1 DEF Apart, Told
    <2>2. log' = log
        BY <1>0 DEF Apart
    <2>3. \A d \in Calls, k \in Keys : \A i \in DOMAIN log'[k] :
              log'[k][i].call = d => Key(d) = k /\ Told(d, i)'
      <3>1. \A k \in Keys : \A i \in DOMAIN log[k] : i \in Nat
          BY DEF TypeInv, TypeOK
      <3> QED  BY <1>0, <2>1, <2>2, <3>1 DEF ToldInv
    <2>4. \A d \in Calls, i \in Nat :
              Told(d, i)' => i \in DOMAIN log'[Key(d)] /\ log'[Key(d)][i].call = d
        BY <1>0, <2>1, <2>2 DEF ToldInv
    <2> QED  BY <2>3, <2>4 DEF ToldInv, Key
  <1>4. PlainInv'
    <2> SUFFICES ASSUME ~Idempotent
                 PROVE  /\ \A d \in Calls : ident'[d].pid = NoPid
                        /\ \A r \in net' : r.pid = NoPid
        BY DEF PlainInv
    <2>1. /\ \A d \in Calls : ident[d].pid = NoPid
          /\ \A r \in net : r.pid = NoPid
        BY <1>0 DEF PlainInv
    <2>2. \A r \in net' : r.pid = NoPid
        BY <1>0, <2>1 DEF Apart, WriteRequest, ProduceRequest
    <2>3. ident' = ident \/ TakeIdentity(c)
        BY StepKinds, QuietStep DEF InitProducerID, Commit, callVars, loopVars
    <2>4. TakeIdentity(c) => \A d \in Calls : ident'[d].pid = NoPid
        BY <2>1 DEF TakeIdentity, BatchIdentity, TypeInv, TypeOK
    <2> QED  BY <2>1, <2>2, <2>3, <2>4
  <1> QED
      BY <1>1, <1>2, <1>3, <1>4

(* An idempotent batch that waits for its answer repeats none in the log:  *)
(* those of other calls have used other sequence numbers.                  *)
LEMMA NothingRepeated ==
    ASSUME ~Lossy, IInv, ReliableInv, NEW r \in net
    PROVE  ~BrokerRepeats(r)
  <1> SUFFICES ASSUME BrokerRepeats(r) PROVE FALSE
      OBVIOUS
  <1> USE OptionsAssumption, BatchAssumption
  <1>0. r \in Requests /\ r.call \in Calls /\ Key(r.call) \in Keys
      BY DEF IInv, TypeInv, TypeOK, Requests, Key
  <1>1. PICK i \in DOMAIN log[Key(r.call)] : Repeats(r, i)
      BY DEF BrokerRepeats
  <1>2. log[Key(r.call)][i] \in Entries
      BY <1>0 DEF IInv, TypeInv, TypeOK
  <1>3. PICK d \in Calls : d = log[Key(r.call)][i].call
      BY <1>2 DEF Entries
  <1>4. r.pid # NoPid /\ log[Key(r.call)][i].seq = r.seq
      BY <1>1 DEF Repeats
  <1>5. Idempotent
      BY <1>4 DEF ReliableInv, PlainInv
  <1>6. /\ Key(d) = Key(r.call) /\ Told(d, i)
        /\ ident[d].seq = r.seq /\ ident[r.call].seq = r.seq
    <2>1. Key(d) = Key(r.call) /\ Told(d, i)
        BY <1>0, <1>1, <1>3 DEF ReliableInv, ToldInv
    <2>2. ident[d].seq = log[Key(r.call)][i].seq
        BY <1>0, <1>3, <1>5 DEF IInv, LogInv
    <2>3. ident[r.call].seq = r.seq
        BY <1>5 DEF IInv, NetInv
    <2> QED  BY <1>4, <2>1, <2>2, <2>3
  <1>7. /\ pc[r.call] = "send" /\ reply[r.call].kind = "none"
        /\ result[r.call].kind = "none"
      BY <1>0 DEF ReliableInv, AwaitedInv, ResultInv
  <1>8. d # r.call
      BY <1>6, <1>7 DEF Told
  <1>9. pc[d] \notin Holding
    <2>1. pc[r.call] \in Holding
        BY <1>7 DEF Holding, Looping
    <2>2. Ordering /\ BatchesSerialized
        BY <1>5 DEF IInv, LockInv
    <2> QED  BY <1>0, <1>6, <1>8, <2>1, <2>2 DEF BatchesSerialized
  <1>10. Acked(d)
    <2>1. pc[d] # "send" /\ pc[d] # "commit"
        BY <1>9 DEF Holding, Looping
    <2>2. result[d].kind = "ok"
        BY <1>6, <2>1 DEF Told, ReliableInv, AwaitedInv
    <2> QED  BY <2>1, <2>2 DEF Acked, ReliableInv, ResultInv
  <1>11. Batch(d) \subseteq 0 .. sequences[Key(r.call)] - 1
      BY <1>0, <1>5, <1>6, <1>10 DEF IInv, TileInv, AckedBatchesTileSequences
  <1>12. r.seq = sequences[Key(r.call)] /\ sequences[Key(r.call)] \in Nat
      BY <1>0, <1>5, <1>6, <1>7 DEF IInv, IdentInv, Looping, TypeInv, TypeOK
  <1>13. r.seq \in Batch(d)
      BY <1>6, <1>12 DEF Batch
  <1> QED
      BY <1>11, <1>12, <1>13

(* So do the steps of the broker.                                          *)
LEMMA ReliableBroker ==
    ASSUME ~Lossy, IInv, ReliableInv, NEW r \in net, Broker(r)
    PROVE  ReliableInv'
  <1> DEFINE c == r.call
  <1>0. /\ r \in Requests /\ c \in Calls /\ Key(c) \in Keys /\ net \subseteq Requests
        /\ TypeInv /\ AwaitedInv /\ ResultInv /\ ToldInv /\ PlainInv
        /\ reply \in [Calls -> Replies] /\ log \in [Keys -> Seq(Entries)]
      BY BatchAssumption DEF IInv, TypeInv, TypeOK, Requests, Key, ReliableInv
  <1>1. /\ net' = net \ {r}
        /\ UNCHANGED <<pc, expired, attempt, copy, ident, result>>
      BY BrokerFrame
  <1>2. /\ pc[c] = "send" /\ copy[c] # 0 /\ reply[c].kind = "none"
        /\ r.attempt = attempt[c] /\ r.copy = copy[c]
        /\ result[c].kind = "none"
      BY <1>0 DEF AwaitedInv, ResultInv
  <1>3. BrokerAppends(r) \/ BrokerRejects(r)
      BY NothingRepeated DEF Broker
  <1>4. ASSUME NEW kind, NEW i, Answer(r, kind, i)
        PROVE  reply' = [reply EXCEPT ![c] = [kind |-> kind, offset |-> i]]
      BY <1>2, <1>4 DEF Answer
  <1>5. \A d \in Calls \ {c} : reply'[d] = reply[d]
      BY <1>0, <1>3, <1>4 DEF BrokerAppends, BrokerRejects
  <1>6. AwaitedInv'
    <2>1. \A q \in net' : q.call \in Calls \ {c} /\ q \in net
        BY <1>0, <1>1 DEF AwaitedInv, Requests
    <2>2. \A q \in net' : /\ pc'[q.call] = "send" /\ copy'[q.call] # 0
                          /\ q.attempt = attempt'[q.call] /\ q.copy = copy'[q.call]
                          /\ reply'[q.call].kind = "none"
        BY <1>0, <1>1, <1>5, <2>1 DEF AwaitedInv
    <2>3. \A d \in Calls : reply'[d].kind # "none" => pc'[d] = "send" /\ copy'[d] # 0
        BY <1>0, <1>1, <1>2, <1>5 DEF AwaitedInv
    <2> QED  BY <1>0, <1>1, <2>1, <2>2, <2>3 DEF AwaitedInv
  <1>7. ResultInv'
      BY <1>0, <1>1 DEF ResultInv
  <1>8. PlainInv'
      BY <1>0, <1>1 DEF PlainInv
  <1>9. \A d \in Calls \ {c}, i \in Nat : Told(d, i)' <=> Told(d, i)
      BY <1>1, <1>5 DEF Told
  <1>l. \A k \in Keys : \A i \in DOMAIN log[k] : i \in Nat
      BY <1>0
  <1>n. \A k \in Keys : \A i \in DOMAIN log[k] : log[k][i].call # c
    <2> SUFFICES ASSUME NEW k \in Keys, NEW i \in DOMAIN log[k], log[k][i].call = c
                 PROVE  FALSE
        OBVIOUS
    <2>1. Told(c, i)
        BY <1>0 DEF ToldInv
    <2> QED  BY <1>2, <2>1 DEF Told
  <1>10. CASE BrokerRejects(r)
    <2>1. log' = log /\ reply'[c].kind # "ok"
      <3>1. PICK kind \in Errors : Answer(r, kind, 0)
          BY <1>10 DEF BrokerRejects
      <3>2. reply'[c] = [kind |-> kind, offset |-> 0]
          BY <1>0, <1>4, <3>1
      <3> QED  BY <1>10, <3>1, <3>2 DEF BrokerRejects, Errors
    <2>2. \A i \in Nat : ~Told(c, i)'
        BY <1>1, <1>2, <2>1 DEF Told
    <2>3. \A d \in Calls, k \in Keys : \A i \in DOMAIN log'[k] :
              log'[k][i].call = d => Key(d) = k /\ Told(d, i)'
        BY <1>0, <1>9, <1>l, <1>n, <2>1 DEF ToldInv
    <2>4. \A d \in Calls, i \in Nat :
              Told(d, i)' => i \in DOMAIN log'[Key(d)] /\ log'[Key(d)][i].call = d
        BY <1>0, <1>9, <2>1, <2>2 DEF ToldInv
    <2>5. ToldInv'
        BY <2>3, <2>4 DEF ToldInv, Key
    <2> QED  BY <1>6, <1>7, <1>8, <2>5 DEF ReliableInv
  <1>11. CASE BrokerAppends(r)
    <2> DEFINE n == Len(log[Key(c)]) + 1
               e == [call |-> c, pid |-> r.pid, seq |-> r.seq]
    <2>1. reply'[c] = [kind |-> "ok", offset |-> n] /\ n \in Nat
        BY <1>0, <1>4, <1>11 DEF BrokerAppends
    <2>2. log' = [log EXCEPT ![Key(c)] = Append(@, e)]
        BY <1>11 DEF BrokerAppends
    <2>3. /\ \A k \in Keys \ {Key(c)} : log'[k] = log[k]
          /\ log'[Key(c)] = Append(log[Key(c)], e)
        BY <1>0, <2>2
    <2>4. /\ DOMAIN log'[Key(c)] = DOMAIN log[Key(c)] \cup {n}
          /\ n \notin DOMAIN log[Key(c)]
          /\ \A i \in DOMAIN log[Key(c)] : log'[Key(c)][i] = log[Key(c)][i]
          /\ log'[Key(c)][n].call = c
      <3>1. log[Key(c)] \in Seq(Entries)
          BY <1>0
      <3>2. e.call = c
          OBVIOUS
      <3> HIDE DEF e
      <3> QED  BY <2>3, <3>1, <3>2
    <2>5. \A i \in Nat : Told(c, i)' <=> i = n
        BY <1>1, <1>2, <2>1 DEF Told
    <2>6. ASSUME NEW d \in Calls, NEW k \in Keys, NEW i \in DOMAIN log'[k],
                 log'[k][i].call = d
          PROVE  Key(d) = k /\ Told(d, i)'
      <3>1. CASE i \in DOMAIN log[k]
        <4>1. log[k][i].call = d /\ d # c /\ i \in Nat
            BY <1>l, <1>n, <2>3, <2>4, <2>6, <3>1
        <4> QED  BY <1>0, <1>9, <3>1, <4>1 DEF ToldInv
      <3>2. CASE i \notin DOMAIN log[k]
        <4>1. k = Key(c) /\ i = n /\ d = c
            BY <2>3, <2>4, <2>6, <3>2
        <4> QED  BY <2>1, <2>5, <4>1
      <3> QED  BY <3>1, <3>2
    <2>7. \A d \in Calls, i \in Nat :
              Told(d, i)' => i \in DOMAIN log'[Key(d)] /\ log'[Key(d)][i].call = d
      <3> SUFFICES ASSUME NEW d \in Calls, NEW i \in Nat, Told(d, i)'
                   PROVE  i \in DOMAIN log'[Key(d)] /\ log'[Key(d)][i].call = d
          OBVIOUS
      <3>1. CASE d = c
          BY <2>4, <2>5, <3>1
      <3>2. CASE d # c
        <4>1. i \in DOMAIN log[Key(d)] /\ log[Key(d)][i].call = d
            BY <1>0, <1>9, <3>2 DEF ToldInv
        <4>2. Key(d) \in Keys
            BY BatchAssumption DEF Key
        <4> QED  BY <2>3, <2>4, <4>1, <4>2
      <3> QED  BY <3>1, <3>2
    <2>8. ToldInv'
        BY <2>6, <2>7 DEF ToldInv, Key
    <2> QED  BY <1>6, <1>7, <1>8, <2>8 DEF ReliableInv
  <1> QED
      BY <1>3, <1>10, <1>11

LEMMA ReliableStutter == ReliableInv /\ UNCHANGED vars => ReliableInv'
  <1> SUFFICES ASSUME ReliableInv, UNCHANGED vars PROVE ReliableInv'
      OBVIOUS
  <1>0. UNCHANGED <<pc, expired, attempt, copy, ident, reply, result, net, log>>
      BY DEF vars, callVars, loopVars, brokerVars
  <1>1. AwaitedInv' /\ ResultInv' /\ PlainInv'
      BY <1>0 DEF ReliableInv, AwaitedInv, ResultInv, PlainInv
  <1>2. ToldInv'
      BY <1>0 DEF ReliableInv, ToldInv, Told, Key
  <1> QED
      BY <1>1, <1>2 DEF ReliableInv

(* The invariant behind DeliveryKept and MetadataNamesOwnBatch, for every  *)
(* behaviour without losses.                                               *)
THEOREM ReliableInvariance ==
    ASSUME ~Lossy
    PROVE  Spec => []ReliableInv
  <1>1. Init => ReliableInv
    <2> SUFFICES ASSUME Init PROVE ReliableInv
        OBVIOUS
    <2>1. AwaitedInv /\ ResultInv /\ PlainInv
        BY DEF Init, AwaitedInv, ResultInv, PlainInv, None
    <2>2. ToldInv
      <3>1. /\ \A k \in Keys : DOMAIN log[k] = {}
            /\ \A c \in Calls : reply[c].kind = "none" /\ result[c].kind = "none"
          BY DEF Init, None
      <3> QED  BY <3>1 DEF ToldInv, Told
    <2> QED  BY <2>1, <2>2 DEF ReliableInv
  <1>2. IInv /\ ReliableInv /\ [Next]_vars => ReliableInv'
    <2> SUFFICES ASSUME IInv, ReliableInv, [Next]_vars PROVE ReliableInv'
        OBVIOUS
    <2>1. ASSUME NEW c \in Calls, Start(c) \/ Step(c) PROVE ReliableInv'
        BY <2>1, ReliableCall DEF IInv
    <2>2. ASSUME NEW c \in Calls PROVE ~Expire(c)
        BY DEF Expire
    <2> QED  BY <2>1, <2>2, ReliableBroker, ReliableStutter DEF Next
  <1> QED
      BY Invariance, <1>1, <1>2, PTL DEF Spec

(* While nothing is lost, the offset in the Metadata of an acknowledged    *)
(* record is that of its own batch, idempotent producer or not, ordered    *)
(* calls or not (Metadata, producer.go).                                   *)
THEOREM OffsetsNameOwnBatch ==
    ASSUME ~Lossy
    PROVE  Spec => []MetadataNamesOwnBatch
  <1>1. TypeInv /\ ReliableInv => MetadataNamesOwnBatch
    <2> SUFFICES ASSUME TypeInv, ReliableInv, NEW c \in Calls, Acked(c)
                 PROVE  /\ result[c].offset \in DOMAIN log[Key(c)]
                        /\ log[Key(c)][result[c].offset].call = c
        BY DEF MetadataNamesOwnBatch
    <2>1. result[c].offset \in Nat
        BY DEF TypeInv, TypeOK, Replies
    <2>2. Told(c, result[c].offset)
        BY DEF Acked, Told
    <2> QED  BY <2>1, <2>2 DEF ReliableInv, ToldInv
  <1>2. IInv => TypeInv
      BY DEF IInv
  <1> QED
      BY Invariance, ReliableInvariance, <1>1, <1>2, PTL

-----------------------------------------------------------------------------
(* The refinement of Delivery, step by step.                               *)

LEMMA StatusKept ==
    ASSUME NEW c \in Calls, (pc'[c] = "idle") <=> (pc[c] = "idle"), result'[c] = result[c]
    PROVE  StatusOf(c)' = StatusOf(c)
  BY DEF StatusOf

(* A call in the log has, or is about to get, its acknowledgement.         *)
LEMMA LoggedMeansTold ==
    ASSUME TypeInv, ReliableInv, NEW c \in Calls
    PROVE  /\ InLog(c) => reply[c].kind = "ok" \/ result[c].kind = "ok"
           /\ reply[c].kind = "ok" => InLog(c)
  <1>1. InLog(c) => reply[c].kind = "ok" \/ result[c].kind = "ok"
      BY BatchAssumption DEF InLog, ReliableInv, ToldInv, Told, Key
  <1>2. reply[c].kind = "ok" => InLog(c)
    <2>1. reply[c].offset \in Nat
        BY DEF TypeInv, TypeOK, Replies
    <2> QED  BY <2>1 DEF InLog, ReliableInv, ToldInv, Told
  <1> QED
      BY <1>1, <1>2

(* A step of a call is a Send, an Ack, a Fail or nothing for Delivery.     *)
LEMMA CallDelivers ==
    ASSUME ~Lossy, TypeInv, ReliableInv, NEW c \in Calls, Start(c) \/ Step(c)
    PROVE  Promise!Next \/ UNCHANGED Promise!vars
  <1>0. /\ Apart(c) /\ (GoesOn(c) \/ Fails(c) \/ Succeeds(c))
        /\ ResultInv
      BY CallEffect DEF ReliableInv
  <1>1. {d \in Calls : InLog(d)}' = {d \in Calls : InLog(d)}
      BY <1>0 DEF Apart, InLog, Key
  <1>2. \A d \in Calls \ {c} : StatusOf(d)' = StatusOf(d)
      BY <1>0 DEF Apart, StatusOf
  <1>3. ASSUME StatusOf(c)' = StatusOf(c)
        PROVE  UNCHANGED Promise!vars
    <2>1. [d \in Calls |-> StatusOf(d)]' = [d \in Calls |-> StatusOf(d)]
        BY <1>2, <1>3
    <2> QED  BY <1>1, <2>1 DEF Promise!vars
  <1>4. ASSUME NEW s, StatusOf(c)' = s
        PROVE  [d \in Calls |-> StatusOf(d)]' = [[d \in Calls |-> StatusOf(d)] EXCEPT ![c] = s]
      BY <1>2, <1>4
  <1>5. CASE Start(c)
    <2>1. pc[c] = "idle" /\ pc'[c] # "idle" /\ result'[c] = result[c]
        BY <1>0, <1>5 DEF Start, Apart, callVars
    <2>2. result[c].kind = "none"
        BY <1>0, <2>1 DEF ResultInv
    <2>3. StatusOf(c) = "idle" /\ StatusOf(c)' = "pending"
        BY <2>1, <2>2 DEF StatusOf
    <2>4. Promise!Send(c)
        BY <1>1, <1>4, <2>3 DEF Promise!Send
    <2> QED  BY <2>4 DEF Promise!Next
  <1>6. CASE ~Start(c) /\ GoesOn(c)
    <2>1. pc[c] # "idle"
        BY <1>6 DEF Step, AcquireOrdering, AcquireOrderingCanceled, EnsureProducerID,
           LockInit, InitProducerID, InitProducerIDFails, TakeIdentity, Route, GiveUp,
           AcquireInFlight, WriteRequest, SendFails, ReplyError, ReplyOk, Backoff, Commit,
           ReleaseOrdering
    <2>2. StatusOf(c)' = StatusOf(c)
        BY <1>0, <1>6, <2>1, StatusKept DEF GoesOn, Apart
    <2> QED  BY <1>3, <2>2
  <1>7. CASE Fails(c)
    <2>1. StatusOf(c) = "pending" /\ StatusOf(c)' = "failed"
        BY <1>7 DEF Fails, Failed, StatusOf
    <2>2. ~InLog(c)
        BY <1>7, LoggedMeansTold DEF Fails
    <2>3. Promise!Fail(c)
        BY <1>1, <1>4, <2>1, <2>2 DEF Promise!Fail
    <2> QED  BY <2>3 DEF Promise!Next
  <1>8. CASE Succeeds(c)
    <2>1. StatusOf(c) = "pending" /\ StatusOf(c)' = "acked"
        BY <1>8 DEF Succeeds, StatusOf
    <2>2. InLog(c)
        BY <1>8, LoggedMeansTold DEF Succeeds
    <2>3. Promise!Ack(c)
        BY <1>1, <1>4, <2>1, <2>2 DEF Promise!Ack
    <2> QED  BY <2>3 DEF Promise!Next
  <1> QED
      BY <1>0, <1>5, <1>6, <1>7, <1>8

(* A step of the broker is an Append or nothing for Delivery.              *)
LEMMA BrokerDelivers ==
    ASSUME ~Lossy, IInv, ReliableInv, NEW r \in net, Broker(r)
    PROVE  Promise!Next \/ UNCHANGED Promise!vars
  <1> DEFINE c == r.call
  <1>0. /\ c \in Calls /\ Key(c) \in Keys /\ log \in [Keys -> Seq(Entries)] /\ TypeInv
        /\ UNCHANGED <<pc, result>>
      BY BrokerFrame, BatchAssumption DEF IInv, TypeInv, TypeOK, Requests, Key
  <1>1. [d \in Calls |-> StatusOf(d)]' = [d \in Calls |-> StatusOf(d)]
      BY <1>0 DEF StatusOf
  <1>2. CASE BrokerRejects(r)
    <2>1. {d \in Calls : InLog(d)}' = {d \in Calls : InLog(d)}
        BY <1>2 DEF BrokerRejects, InLog, Key
    <2> QED  BY <1>1, <2>1 DEF Promise!vars
  <1>3. CASE BrokerAppends(r)
    <2>1. /\ pc[c] = "send" /\ reply[c].kind = "none" /\ result[c].kind = "none"
        BY <1>0 DEF ReliableInv, AwaitedInv, ResultInv
    <2>2. ~InLog(c) /\ StatusOf(c) = "pending"
        BY <1>0, <2>1, LoggedMeansTold DEF StatusOf
    <2>3. \A d \in Calls : InLog(d)' <=> InLog(d) \/ d = c
      <3> DEFINE e == [call |-> c, pid |-> r.pid, seq |-> r.seq]
                 n == Len(log[Key(c)]) + 1
      <3>1. log' = [log EXCEPT ![Key(c)] = Append(@, e)]
          BY <1>3 DEF BrokerAppends
      <3>2. e.call = c
          OBVIOUS
      <3>3. log[Key(c)] \in Seq(Entries)
          BY <1>0
      <3> HIDE DEF e
      <3>4. /\ \A k \in Keys \ {Key(c)} : log'[k] = log[k]
            /\ log'[Key(c)] = Append(log[Key(c)], e)
          BY <1>0, <3>1
      <3>5. /\ DOMAIN log'[Key(c)] = DOMAIN log[Key(c)] \cup {n}
            /\ \A i \in DOMAIN log[Key(c)] : log'[Key(c)][i] = log[Key(c)][i]
            /\ log'[Key(c)][n].call = c /\ n \notin DOMAIN log[Key(c)]
          BY <3>2, <3>3, <3>4
      <3>6. ASSUME NEW d \in Calls
            PROVE  InLog(d)' <=> InLog(d) \/ d = c
        <4>1. Key(d) \in Keys /\ Key(d)' = Key(d)
            BY BatchAssumption DEF Key
        <4>2. InLog(d)' <=> \E i \in DOMAIN log'[Key(d)] : log'[Key(d)][i].call = d
            BY DEF InLog, Key
        <4>3. CASE Key(d) = Key(c)
            BY <3>5, <4>2, <4>3 DEF InLog
        <4>4. CASE Key(d) # Key(c)
            BY <3>4, <4>1, <4>2, <4>4 DEF InLog
        <4> QED  BY <4>3, <4>4
      <3> QED  BY <3>6
    <2>4. {d \in Calls : InLog(d)}' = {d \in Calls : InLog(d)} \cup {c}
        BY <1>0, <2>3
    <2>5. Promise!Append(c)
        BY <1>0, <1>1, <2>2, <2>4 DEF Promise!Append
    <2> QED  BY <1>0, <2>5 DEF Promise!Next
  <1> QED
      BY <1>2, <1>3, NothingRepeated DEF Broker

(* While nothing is lost, produceRecords keeps the promise of Delivery:    *)
(* every step is one of its steps or changes nothing a caller could see.   *)
(* An acknowledged batch is in the log, a failed one never was, once each. *)
THEOREM DeliveryRefined ==
    ASSUME ~Lossy
    PROVE  Spec => DeliveryKept
  <1>1. Init => Promise!Init
    <2> SUFFICES ASSUME Init PROVE Promise!Init
        OBVIOUS
    <2>1. \A c \in Calls : StatusOf(c) = "idle"
      <3>1. \A c \in Calls : pc[c] = "idle" /\ result[c].kind = "none"
          BY DEF Init, None
      <3> QED  BY <3>1 DEF StatusOf
    <2>2. \A c \in Calls : ~InLog(c)
      <3>1. \A k \in Keys : DOMAIN log[k] = {}
          BY DEF Init
      <3> QED  BY <3>1, BatchAssumption DEF InLog, Key
    <2> QED  BY <2>1, <2>2 DEF Promise!Init
  <1>2. IInv /\ ReliableInv /\ [Next]_vars => [Promise!Next]_Promise!vars
    <2> SUFFICES ASSUME IInv, ReliableInv, [Next]_vars
                 PROVE  Promise!Next \/ UNCHANGED Promise!vars
        OBVIOUS
    <2>1. ASSUME NEW c \in Calls, Start(c) \/ Step(c)
          PROVE  Promise!Next \/ UNCHANGED Promise!vars
        BY <2>1, CallDelivers DEF IInv
    <2>2. ASSUME NEW c \in Calls PROVE ~Expire(c)
        BY DEF Expire
    <2>3. CASE UNCHANGED vars
      <3>1. UNCHANGED <<pc, result, log>>
          BY <2>3 DEF vars, callVars, brokerVars
      <3> QED  BY <3>1 DEF Promise!vars, StatusOf, InLog, Key
    <2> QED  BY <2>1, <2>2, <2>3, BrokerDelivers DEF Next
  <1> QED
      BY Invariance, ReliableInvariance, <1>1, <1>2, PTL DEF Spec, DeliveryKept, Promise!Spec
=============================================================================
