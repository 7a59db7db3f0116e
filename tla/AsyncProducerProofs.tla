------------------------ MODULE AsyncProducerProofs ------------------------
(***************************************************************************)
(* Proofs about AsyncProducer, for any records, partitions, limits and     *)
(* callers.  Everything follows from where the records stand in enqueued,  *)
(* the order in which they entered the queue: the last of them are still   *)
(* in the queue, each of the others is in its partition's batch, in that   *)
(* order, or has its outcome.                                              *)
(***************************************************************************)
EXTENDS AsyncProducer, FiniteSetTheorems, TLAPS

Batch(k) == batches[k].records

(* How many records the worker has taken from the queue.                   *)
Taken == Len(enqueued) - Len(asyncCh)

Before(r, s) == \E p, q \in DOMAIN enqueued : p < q /\ enqueued[p] = r /\ enqueued[q] = s

(* A record enters the queue once, and leaves it in turn.                  *)
QueueInv ==
    /\ \A p, q \in DOMAIN enqueued : enqueued[p] = enqueued[q] => p = q
    /\ \A r \in Records : r \in Sent <=> \E p \in DOMAIN enqueued : enqueued[p] = r
    /\ Len(asyncCh) <= Len(enqueued)
    /\ \A i \in DOMAIN asyncCh : asyncCh[i] = enqueued[Taken + i]

(* A batch holds records of its own partition, in order.                   *)
BatchInv ==
    \A k \in Keys :
        /\ \A i \in DOMAIN Batch(k) : KeyOf[Batch(k)[i]] = k
        /\ \A i \in DOMAIN Batch(k) : \E p \in 1..Taken : enqueued[p] = Batch(k)[i]
        /\ \A i, j \in DOMAIN Batch(k) : i < j => Before(Batch(k)[i], Batch(k)[j])

(* What a partition has came in order and before what its batch holds.     *)
LogInv ==
    \A k \in Keys :
        /\ \A i \in DOMAIN log[k] : \E p \in 1..Taken : enqueued[p] = log[k][i]
        /\ \A i, j \in DOMAIN log[k] : i < j => Before(log[k][i], log[k][j])
        /\ \A i \in DOMAIN log[k], j \in DOMAIN Batch(k) : Before(log[k][i], Batch(k)[j])

(* The records without an outcome are those in the queue and the batches.  *)
FutureInv ==
    /\ \A r \in Records : future[r] # NoResult => r \in Sent
    /\ \A i \in DOMAIN asyncCh : future[asyncCh[i]] = NoResult
    /\ \A k \in Keys : \A i \in DOMAIN Batch(k) : future[Batch(k)[i]] = NoResult
    /\ \A p \in 1..Taken : future[enqueued[p]] = NoResult =>
           \E k \in Keys : \E i \in DOMAIN Batch(k) : Batch(k)[i] = enqueued[p]

DataInv == QueueInv /\ BatchInv /\ LogInv /\ FutureInv

(* A full batch is sent before anything is added to it.                    *)
SizeInv == \A k \in Keys : Len(Batch(k)) < BatchSize \/ (worker = "produce" /\ producing = k)

TypeInv == TypeOK /\ SizeInv

(* What the worker is at, produceRecords being a part of it.               *)
Phase == IF worker = "produce" THEN back ELSE worker

PhaseInv ==
    /\ Phase \in {"none", "select", "stopped"} => task = "tick"
    /\ Phase = "drain" => task # "tick"
    /\ task = "flush" <=> request # NoOne

(* Once the queue was drained for a Flush, nothing it covers is there.     *)
BarrierInv ==
    /\ \A f \in AllFlushers : covers[f] \subseteq Sent
    /\ \A f \in AllFlushers :
           flusher[f] \in {"idle", "offer"} => reply[f] = NoResult /\ request # f
    /\ Phase = "flush" /\ task = "flush" =>
           \A i \in DOMAIN asyncCh : asyncCh[i] \notin covers[request]

(* What Close covers is out of the queue once the worker has drained it    *)
(* for the last time; whatever enters it afterwards is not covered.        *)
CoveredOut == \A i \in DOMAIN asyncCh : asyncCh[i] \notin covers[Closer]
CloseInv ==
    /\ stopCh => flusher[Closer] # "idle"
    /\ task = "stop" \/ worker = "stopped" => stopCh
    /\ Phase = "flush" /\ task = "stop" => CoveredOut
    /\ worker = "stopped" => CoveredOut /\ \A k \in Keys : Batch(k) = <<>>
    /\ flusher[Closer] = "done" => worker = "stopped"

-----------------------------------------------------------------------------
(* The initial state is well typed, and nothing is anywhere.               *)
LEMMA InitType == Init => TypeInv
<1>. SUFFICES ASSUME Init PROVE TypeInv
  OBVIOUS
<1>1. /\ Len(EmptyBatch.records) = 0
      /\ EmptyBatch \in [records : Seq(Records), bytes : Nat]
  BY DEF EmptyBatch
<1>2. /\ batches \in [Keys -> [records : Seq(Records), bytes : Nat]]
      /\ \A k \in Keys : batches[k].records = <<>> /\ Len(Batch(k)) = 0
  BY <1>1 DEF Init, EmptyBatch, Batch
<1>3. 0 < BatchSize /\ BatchSize \in Nat /\ QueueSize \in Nat
  BY LimitsAssumption
<1>4. SizeInv
  BY <1>2, <1>3 DEF SizeInv
<1>5. \A k \in Keys : Len(batches[k].records) <= BatchSize
  BY <1>2, <1>3 DEF Batch
<1>6. asyncCh \in Seq(Records) /\ Len(asyncCh) <= QueueSize /\ enqueued \in Seq(Records)
      /\ log \in [Keys -> Seq(Records)]
  BY <1>3 DEF Init
<1>7. TypeOK
  BY <1>2, <1>5, <1>6 DEF Init, TypeOK, NoResult
<1>. QED BY <1>4, <1>7 DEF TypeInv

LEMMA InitData == Init => DataInv
<1>. SUFFICES ASSUME Init PROVE DataInv
  OBVIOUS
<1>1. /\ \A k \in Keys : Batch(k) = <<>> /\ log[k] = <<>>
      /\ asyncCh = <<>> /\ enqueued = <<>> /\ Taken = 0
  BY DEF Init, EmptyBatch, Batch, Taken
<1>2. \A r \in Records : r \notin Sent
  BY DEF Init, Sent
<1>3. QueueInv
  BY <1>1, <1>2 DEF QueueInv
<1>4. BatchInv /\ LogInv
  BY <1>1 DEF BatchInv, LogInv
<1>5. FutureInv
  BY <1>1 DEF FutureInv, Init
<1>. QED BY <1>3, <1>4, <1>5 DEF DataInv

-----------------------------------------------------------------------------
LEMMA Callers == /\ Closer \in AllFlushers /\ Flushers \subseteq AllFlushers
                 /\ NoOne \notin AllFlushers /\ NoKey \notin Keys
BY CallersAssumption DEF AllFlushers

(* What calls and their callers do: nothing to the records.                *)
LEMMA CallerType ==
    ASSUME TypeInv,
           \/ \E r \in Records : SendAsync(r) \/ SendCanceled(r)
           \/ \E f \in AllFlushers : Flush(f) \/ FlushReturns(f) \/ FlushCanceled(f)
           \/ Close \/ CloseStop \/ CloseReturns
    PROVE  TypeInv'
<1>. USE Callers DEF TypeInv, TypeOK, SizeInv, Batch, workerVars, callerVars
<1>1. ASSUME NEW r \in Records, SendAsync(r) PROVE TypeInv'
  <2>1. sender' \in [Records -> {"idle", "enqueue", "sent", "failed"}]
    BY <1>1 DEF SendAsync
  <2>2. worker' \in {"none", "select", "drain", "flush", "produce", "stopped"}
        /\ (worker' = "produce" <=> worker = "produce")
    BY <1>1 DEF SendAsync, EnsureWorker
  <2>. QED BY <1>1, <2>1, <2>2 DEF SendAsync
<1>2. ASSUME NEW r \in Records, SendCanceled(r) PROVE TypeInv'
  BY <1>2 DEF SendCanceled
<1>3. ASSUME NEW f \in AllFlushers, Flush(f) PROVE TypeInv'
  <2>1. flusher' = [flusher EXCEPT ![f] = "done"] \/ flusher' = [flusher EXCEPT ![f] = "offer"]
    BY <1>3 DEF Flush, Offer
  <2>2. worker' \in {"none", "select", "drain", "flush", "produce", "stopped"}
        /\ (worker' = "produce" <=> worker = "produce")
    BY <1>3 DEF Flush, Offer, EnsureWorker
  <2>3. covers' \in [AllFlushers -> SUBSET Records]
    <3>1. Sent \in SUBSET Records
      BY DEF Sent
    <3>2. covers' = covers \/ covers' = [covers EXCEPT ![f] = Sent]
      BY <1>3 DEF Flush, Offer, EnsureWorker
    <3>. QED BY <3>1, <3>2
  <2>4. flusher' \in [AllFlushers -> {"idle", "offer", "await", "done", "stop", "join"}]
    BY <2>1
  <2>. QED BY <1>3, <2>2, <2>3, <2>4 DEF Flush
<1>4. ASSUME NEW f \in AllFlushers, FlushReturns(f) \/ FlushCanceled(f) PROVE TypeInv'
  <2>1. PICK label \in {"done", "stop"} : flusher' = [flusher EXCEPT ![f] = label]
    BY <1>4 DEF FlushReturns, FlushCanceled, EndFlush
  <2>2. flusher' \in [AllFlushers -> {"idle", "offer", "await", "done", "stop", "join"}]
    BY <2>1
  <2>3. covers' \in [AllFlushers -> SUBSET Records]
    <3>1. covers' = covers \/ covers' = [covers EXCEPT ![f] = {}]
      BY <1>4 DEF FlushReturns, FlushCanceled, EndFlush
    <3>. QED BY <3>1
  <2>4. reply' \in [AllFlushers -> {NoResult, "ok", "error"}]
    <3>1. reply' = reply \/ reply' = [reply EXCEPT ![f] = NoResult]
      BY <1>4 DEF FlushReturns, FlushCanceled
    <3>. QED BY <3>1
  <2>. QED BY <1>4, <2>2, <2>3, <2>4 DEF FlushReturns, FlushCanceled
<1>5. CASE Close
  BY <1>5 DEF Close, Offer, EnsureWorker, Sent
<1>6. CASE CloseStop \/ CloseReturns
  BY <1>6 DEF CloseStop, CloseReturns
<1>. QED BY <1>1, <1>2, <1>3, <1>4, <1>5, <1>6

(* What the worker does but for the records.                               *)
LEMMA WorkerType ==
    ASSUME TypeInv,
           \/ \E f \in AllFlushers : TakeFlush(f)
           \/ \E k \in Keys : FlushBatch(k)
           \/ Tick \/ TakeStop \/ Drained \/ FlushEnd
    PROVE  TypeInv'
<1>. USE Callers DEF TypeInv, TypeOK, SizeInv, Batch, callerVars
<1>1. ASSUME NEW f \in AllFlushers, TakeFlush(f) PROVE TypeInv'
  BY <1>1 DEF TakeFlush
<1>2. ASSUME NEW k \in Keys, FlushBatch(k) PROVE TypeInv'
  BY <1>2 DEF FlushBatch
<1>3. CASE Tick \/ TakeStop \/ Drained
  BY <1>3 DEF Tick, TakeStop, Drained
<1>4. CASE FlushEnd
  BY <1>4 DEF FlushEnd, NoResult
<1>. QED BY <1>1, <1>2, <1>3, <1>4

(* What moves records.                                                     *)
LEMMA RecordType ==
    ASSUME TypeInv,
           \/ \E r \in Records : Enqueue(r)
           \/ Add \/ Reject \/ Outcome
    PROVE  TypeInv'
<1>. USE Callers, LimitsAssumption
     DEF TypeInv, TypeOK, SizeInv, Batch, callerVars, workerVars
<1>1. ASSUME NEW r \in Records, Enqueue(r) PROVE TypeInv'
  <2>1. asyncCh' \in Seq(Records) /\ Len(asyncCh') <= QueueSize /\ enqueued' \in Seq(Records)
    BY <1>1 DEF Enqueue, QueueFree
  <2>. QED BY <1>1, <2>1 DEF Enqueue
<1>2. CASE Add
  <2>. DEFINE r == Head(asyncCh)
              k == KeyOf[r]
              b == Batched(batches[k], r)
  <2>1. asyncCh' \in Seq(Records) /\ Len(asyncCh') <= QueueSize /\ r \in Records
    BY <1>2 DEF Add
  <2>2. k \in Keys /\ BytesOf[r] \in Nat
    BY <2>1, RecordsAssumption
  <2>3. worker # "produce" /\ Len(batches[k].records) < BatchSize
    BY <1>2, <2>2 DEF Add
  <2>4. b \in [records : Seq(Records), bytes : Nat]
        /\ Len(b.records) = Len(batches[k].records) + 1
    <3>1. batches[k].records \in Seq(Records) /\ batches[k].bytes \in Nat
      BY <2>2
    <3>2. Append(batches[k].records, r) \in Seq(Records)
          /\ Len(Append(batches[k].records, r)) = Len(batches[k].records) + 1
      BY <2>1, <3>1
    <3>3. batches[k].bytes + BytesOf[r] \in Nat
      BY <2>2, <3>1
    <3>. QED BY <3>2, <3>3 DEF Batched
  <2>5. batches' = [batches EXCEPT ![k] = b]
    BY <1>2 DEF Add
  <2>6. /\ batches' \in [Keys -> [records : Seq(Records), bytes : Nat]]
        /\ batches'[k] = b /\ \A j \in Keys \ {k} : batches'[j] = batches[j]
    BY <2>2, <2>4, <2>5
  <2>7. Len(b.records) <= BatchSize
    BY <2>2, <2>3, <2>4
  <2>8. \A j \in Keys : Len(batches'[j].records) <= BatchSize
    BY <2>6, <2>7
  <2>9. CASE Full(b)
    <3>1. worker' = "produce" /\ back' = worker /\ producing' = k
      BY <1>2, <2>9 DEF Add
    <3>2. SizeInv'
      BY <2>3, <2>6, <3>1
    <3>. QED BY <1>2, <2>1, <2>2, <2>6, <2>8, <3>1, <3>2 DEF Add
  <2>10. CASE ~Full(b)
    <3>1. UNCHANGED <<worker, back, producing>>
      BY <1>2, <2>10 DEF Add
    <3>2. Len(b.records) < BatchSize
      BY <2>4, <2>10, <2>2 DEF Full
    <3>3. SizeInv'
      BY <2>3, <2>6, <3>1, <3>2
    <3>. QED BY <1>2, <2>1, <2>2, <2>6, <2>8, <3>1, <3>3 DEF Add
  <2>. QED BY <2>9, <2>10
<1>3. CASE Reject
  <2>1. asyncCh' \in Seq(Records) /\ Len(asyncCh') <= QueueSize
    BY <1>3 DEF Reject
  <2>2. future' \in [Records -> {NoResult, "ok", "error"}]
    BY <1>3 DEF Reject
  <2>. QED BY <1>3, <2>1, <2>2 DEF Reject
<1>4. ASSUME NEW result \in {"ok", "error"}, NEW appended \in BOOLEAN, Produced(result, appended)
      PROVE  TypeInv'
  <2>1. producing \in Keys /\ batches[producing].records \in Seq(Records)
    BY <1>4 DEF Produced
  <2>2. EmptyBatch \in [records : Seq(Records), bytes : Nat] /\ Len(EmptyBatch.records) = 0
    BY DEF EmptyBatch
  <2>3. batches' = [batches EXCEPT ![producing] = EmptyBatch]
    BY <1>4 DEF Produced, Collected
  <2>4. /\ batches' \in [Keys -> [records : Seq(Records), bytes : Nat]]
        /\ \A j \in Keys : Len(batches'[j].records) < BatchSize
    BY <2>1, <2>2, <2>3
  <2>5. log' \in [Keys -> Seq(Records)]
    <3>1. log[producing] \o batches[producing].records \in Seq(Records)
      BY <2>1
    <3>. QED BY <1>4, <2>1, <3>1 DEF Produced
  <2>6. future' \in [Records -> {NoResult, "ok", "error"}]
    BY <1>4 DEF Produced
  <2>7. \A j \in Keys : Len(batches'[j].records) <= BatchSize
    BY <2>4
  <2>8. worker' \in {"select", "drain", "flush"} /\ back' = "select" /\ producing' = NoKey
        /\ flushFailed' \in BOOLEAN
    BY <1>4 DEF Produced
  <2>. QED BY <1>4, <2>4, <2>5, <2>6, <2>7, <2>8 DEF Produced
<1>. QED BY <1>1, <1>2, <1>3, <1>4 DEF Outcome

LEMMA TypeNext == TypeInv /\ [Next]_vars => TypeInv'
<1>1. TypeInv /\ UNCHANGED vars => TypeInv'
  BY DEF TypeInv, TypeOK, SizeInv, Batch, vars, callerVars, workerVars
<1>. QED BY <1>1, CallerType, WorkerType, RecordType DEF Next

LEMMA TypeInvariant == Spec => []TypeInv
BY InitType, TypeNext, PTL DEF Spec

(* Every variable keeps its type: neither the queue nor a batch grows past *)
(* its limit, and produceRecords always has a batch (async.go:85).         *)
THEOREM TypeCorrect == Spec => []TypeOK
<1>1. TypeInv => TypeOK
  BY DEF TypeInv
<1>. QED BY <1>1, TypeInvariant, PTL

-----------------------------------------------------------------------------
(* Where the records are depends on nothing else.                          *)
LEMMA DataStays ==
    ASSUME DataInv, UNCHANGED <<asyncCh, enqueued, batches, log, future>>, Sent' = Sent
    PROVE  DataInv'
<1>1. Taken' = Taken /\ \A k : Batch(k)' = Batch(k)
  BY DEF Taken, Batch
<1>2. QueueInv'
  BY <1>1 DEF DataInv, QueueInv
<1>3. BatchInv' /\ LogInv'
  BY <1>1 DEF DataInv, BatchInv, LogInv, Before
<1>4. FutureInv'
  BY <1>1 DEF DataInv, FutureInv
<1>. QED BY <1>2, <1>3, <1>4 DEF DataInv

(* Sent changes where a record enters the queue only.                      *)
LEMMA SentStays ==
    ASSUME TypeInv, UNCHANGED sender \/ \E r \in Records : SendAsync(r) \/ SendCanceled(r)
    PROVE  Sent' = Sent
<1>1. CASE \E r \in Records : SendAsync(r) \/ SendCanceled(r)
  <2>1. PICK r \in Records : /\ sender[r] \in {"idle", "enqueue"}
                             /\ \/ sender' = [sender EXCEPT ![r] = "enqueue"]
                                \/ sender' = [sender EXCEPT ![r] = "failed"]
    BY <1>1 DEF SendAsync, SendCanceled, EnsureWorker
  <2>2. \A q \in Records : sender'[q] = "sent" <=> sender[q] = "sent"
    BY <2>1 DEF TypeInv, TypeOK
  <2>. QED BY <2>2 DEF Sent
<1>2. CASE UNCHANGED sender
  BY <1>2 DEF Sent
<1>. QED BY <1>1, <1>2

(* The steps that leave the records where they are.                        *)
LEMMA ElsewhereData ==
    ASSUME TypeInv, DataInv,
           \/ \E r \in Records : SendAsync(r) \/ SendCanceled(r)
           \/ \E f \in AllFlushers : Flush(f) \/ FlushReturns(f) \/ FlushCanceled(f)
                                     \/ TakeFlush(f)
           \/ \E k \in Keys : FlushBatch(k)
           \/ Close \/ CloseStop \/ CloseReturns
           \/ Tick \/ TakeStop \/ Drained \/ FlushEnd
    PROVE  DataInv'
<1>1. UNCHANGED <<asyncCh, enqueued, batches, log, future>>
  BY DEF SendAsync, SendCanceled, Flush, FlushReturns, FlushCanceled, TakeFlush, FlushBatch,
         Close, CloseStop, CloseReturns, Tick, TakeStop, Drained, FlushEnd, workerVars
<1>2. Sent' = Sent
  <2>1. UNCHANGED sender \/ \E r \in Records : SendAsync(r) \/ SendCanceled(r)
    BY DEF Flush, FlushReturns, FlushCanceled, TakeFlush, FlushBatch, Close, CloseStop,
           CloseReturns, Tick, TakeStop, Drained, FlushEnd, callerVars
  <2>. QED BY <2>1, SentStays
<1>. QED BY <1>1, <1>2, DataStays

(* What the queue and the order of entry hold.                             *)
LEMMA QueueFacts ==
    ASSUME TypeInv, DataInv
    PROVE  /\ Taken \in Nat /\ Taken + Len(asyncCh) = Len(enqueued)
           /\ DOMAIN asyncCh = 1..Len(asyncCh) /\ DOMAIN enqueued = 1..Len(enqueued)
           /\ Len(asyncCh) \in Nat /\ Len(enqueued) \in Nat
           /\ \A k \in Keys : /\ Batch(k) \in Seq(Records) /\ Len(Batch(k)) \in Nat
                              /\ DOMAIN Batch(k) = 1..Len(Batch(k))
           /\ \A k \in Keys : /\ log[k] \in Seq(Records) /\ Len(log[k]) \in Nat
                              /\ DOMAIN log[k] = 1..Len(log[k])
<1>1. asyncCh \in Seq(Records) /\ enqueued \in Seq(Records)
  BY DEF TypeInv, TypeOK
<1>2. Len(asyncCh) <= Len(enqueued)
  BY DEF DataInv, QueueInv
<1>3. /\ DOMAIN asyncCh = 1..Len(asyncCh) /\ DOMAIN enqueued = 1..Len(enqueued)
      /\ Len(asyncCh) \in Nat /\ Len(enqueued) \in Nat
  BY <1>1
<1>4. Taken \in Nat /\ Taken + Len(asyncCh) = Len(enqueued)
  BY <1>2, <1>3 DEF Taken
<1>5. \A k \in Keys : Batch(k) \in Seq(Records) /\ log[k] \in Seq(Records)
  BY DEF TypeInv, TypeOK, Batch
<1>6. \A s \in Seq(Records) : Len(s) \in Nat /\ DOMAIN s = 1..Len(s)
  OBVIOUS
<1>. QED BY <1>3, <1>4, <1>5, <1>6

(* A record enters at the end of the queue and of the order.               *)
LEMMA EnqueueData ==
    ASSUME TypeInv, DataInv, NEW r \in Records, Enqueue(r) PROVE DataInv'
<1>. DEFINE N == Len(enqueued)
<1>1. /\ sender[r] = "enqueue" /\ sender' = [sender EXCEPT ![r] = "sent"]
      /\ asyncCh' = Append(asyncCh, r) /\ enqueued' = Append(enqueued, r)
      /\ UNCHANGED <<batches, log, future>>
  BY DEF Enqueue, workerVars
<1>2. /\ enqueued' \in Seq(Records) /\ Len(enqueued') = N + 1 /\ enqueued'[N + 1] = r
      /\ \A p \in 1..N : enqueued'[p] = enqueued[p]
      /\ DOMAIN enqueued' = 1..(N + 1)
  BY <1>1 DEF TypeInv, TypeOK
<1>3. /\ asyncCh' \in Seq(Records) /\ Len(asyncCh') = Len(asyncCh) + 1
      /\ asyncCh'[Len(asyncCh) + 1] = r
      /\ \A i \in 1..Len(asyncCh) : asyncCh'[i] = asyncCh[i]
      /\ DOMAIN asyncCh' = 1..(Len(asyncCh) + 1)
  BY <1>1 DEF TypeInv, TypeOK
<1>4. Taken' = Taken /\ \A k : Batch(k)' = Batch(k)
  BY <1>1, <1>2, <1>3, QueueFacts DEF Taken, Batch
<1>5. r \notin Sent /\ \A q \in Records : q \in Sent' <=> q \in Sent \/ q = r
  BY <1>1 DEF Sent, TypeInv, TypeOK
<1>6. \A p \in DOMAIN enqueued : enqueued[p] # r
  BY <1>5 DEF DataInv, QueueInv
<1>7. QueueInv'
  <2>1. \A p, q \in DOMAIN enqueued' : enqueued'[p] = enqueued'[q] => p = q
    <3>1. \A p, q \in DOMAIN enqueued : enqueued[p] = enqueued[q] => p = q
      BY DEF DataInv, QueueInv
    <3>. QED BY <1>2, <1>6, <3>1, QueueFacts
  <2>2. \A q \in Records : q \in Sent' <=> \E p \in DOMAIN enqueued' : enqueued'[p] = q
    <3>1. \A q \in Records : q \in Sent <=> \E p \in DOMAIN enqueued : enqueued[p] = q
      BY DEF DataInv, QueueInv
    <3>. QED BY <1>2, <1>5, <3>1, QueueFacts
  <2>3. Len(asyncCh') <= Len(enqueued')
    BY <1>2, <1>3, QueueFacts
  <2>4. \A i \in DOMAIN asyncCh' : asyncCh'[i] = enqueued'[Taken + i]
    <3>1. \A i \in DOMAIN asyncCh : asyncCh[i] = enqueued[Taken + i]
      BY DEF DataInv, QueueInv
    <3>2. \A i \in 1..Len(asyncCh) : Taken + i \in 1..N
      BY QueueFacts
    <3>. QED BY <1>2, <1>3, <3>1, <3>2, QueueFacts
  <2>. QED BY <2>1, <2>2, <2>3, <2>4, <1>4 DEF QueueInv
<1>8. \A a, b : Before(a, b) => Before(a, b)'
  BY <1>2, QueueFacts DEF Before
<1>9. \A p \in 1..Taken : p \in 1..N /\ enqueued'[p] = enqueued[p]
  BY <1>2, QueueFacts
<1>10. BatchInv'
  <2>1. \A k \in Keys : \A i, j \in DOMAIN Batch(k) :
            i < j => Before(Batch(k)[i], Batch(k)[j])'
    BY <1>1, <1>8 DEF DataInv, BatchInv, Batch
  <2>. QED BY <1>4, <1>9, <2>1 DEF DataInv, BatchInv
<1>11. LogInv'
  <2>1. \A k \in Keys : \A i, j \in DOMAIN log[k] : i < j => Before(log[k][i], log[k][j])'
    BY <1>1, <1>8 DEF DataInv, LogInv
  <2>2. \A k \in Keys : \A i \in DOMAIN log[k], j \in DOMAIN Batch(k) :
            Before(log[k][i], Batch(k)[j])'
    BY <1>1, <1>8 DEF DataInv, LogInv, Batch
  <2>. QED BY <1>1, <1>4, <1>9, <2>1, <2>2 DEF DataInv, LogInv
<1>12. FutureInv'
  <2>1. \A q \in Records : future'[q] # NoResult => q \in Sent'
    BY <1>1, <1>5 DEF DataInv, FutureInv
  <2>2. future[r] = NoResult
    BY <1>5 DEF DataInv, FutureInv
  <2>3. \A i \in DOMAIN asyncCh' : future'[asyncCh'[i]] = NoResult
    BY <1>1, <1>3, <2>2, QueueFacts DEF DataInv, FutureInv
  <2>4. \A p \in 1..Taken' : future'[enqueued'[p]] = NoResult =>
           \E k \in Keys : \E i \in DOMAIN Batch(k)' : Batch(k)'[i] = enqueued'[p]
    BY <1>1, <1>4, <1>9 DEF DataInv, FutureInv
  <2>. QED BY <1>1, <1>4, <2>1, <2>3, <2>4 DEF DataInv, FutureInv
<1>. QED BY <1>7, <1>10, <1>11, <1>12 DEF DataInv

(* The first record of the queue is the next one to be taken.              *)
LEMMA TakeFacts ==
    ASSUME TypeInv, DataInv, asyncCh # <<>>, asyncCh' = Tail(asyncCh), UNCHANGED enqueued
    PROVE  /\ Head(asyncCh) \in Records /\ Head(asyncCh) = enqueued[Taken + 1]
           /\ Taken + 1 \in 1..Len(enqueued) /\ Taken' = Taken + 1
           /\ Len(asyncCh') = Len(asyncCh) - 1 /\ DOMAIN asyncCh' = 1..(Len(asyncCh) - 1)
           /\ \A i \in 1..(Len(asyncCh) - 1) : asyncCh'[i] = asyncCh[i + 1]
           /\ Head(asyncCh) = asyncCh[1] /\ 1 \in DOMAIN asyncCh
           /\ future[Head(asyncCh)] = NoResult
           /\ (Sent' = Sent => QueueInv')
<1>1. asyncCh \in Seq(Records)
  BY DEF TypeInv, TypeOK
<1>2. /\ Head(asyncCh) = asyncCh[1] /\ 1 \in DOMAIN asyncCh /\ Head(asyncCh) \in Records
      /\ Len(asyncCh) # 0
  BY <1>1
<1>3. /\ Len(asyncCh') = Len(asyncCh) - 1 /\ DOMAIN asyncCh' = 1..(Len(asyncCh) - 1)
      /\ \A i \in 1..(Len(asyncCh) - 1) : asyncCh'[i] = asyncCh[i + 1]
  BY <1>1, <1>2
<1>4. asyncCh[1] = enqueued[Taken + 1]
  BY <1>2 DEF DataInv, QueueInv
<1>5. Taken + 1 \in 1..Len(enqueued)
  BY <1>2, QueueFacts
<1>6. Taken' = Taken + 1
  BY <1>3, QueueFacts DEF Taken
<1>7. future[asyncCh[1]] = NoResult
  BY <1>2 DEF DataInv, FutureInv
<1>8. ASSUME Sent' = Sent PROVE QueueInv'
  <2>1. Len(asyncCh') <= Len(enqueued')
    BY <1>3, QueueFacts
  <2>2. \A i \in 1..(Len(asyncCh) - 1) :
            i + 1 \in DOMAIN asyncCh /\ Taken + (i + 1) = (Taken + 1) + i
    BY QueueFacts
  <2>3. \A i \in DOMAIN asyncCh' : asyncCh'[i] = enqueued'[Taken' + i]
    BY <1>3, <1>6, <2>2 DEF DataInv, QueueInv
  <2>. QED BY <1>8, <2>1, <2>3 DEF DataInv, QueueInv
<1>. QED BY <1>2, <1>3, <1>4, <1>5, <1>6, <1>7, <1>8

(* The next record joins the batch of its partition, behind the others.    *)
LEMMA AddData == ASSUME TypeInv, DataInv, Add PROVE DataInv'
<1>1. asyncCh # <<>> /\ asyncCh' = Tail(asyncCh) /\ UNCHANGED <<sender, enqueued, future, log>>
  BY DEF Add, callerVars
<1>2. Sent' = Sent
  BY <1>1 DEF Sent
<1>3. PICK r \in Records : r = Head(asyncCh)
  BY <1>1, TakeFacts
<1>4. PICK k \in Keys : k = KeyOf[r]
  BY RecordsAssumption
<1>. DEFINE n == Len(Batch(k))
<1>14. batches' = [batches EXCEPT ![k] = Batched(batches[k], r)]
  BY <1>3, <1>4 DEF Add
<1>15. /\ Batch(k)' = Append(Batch(k), r)
       /\ \A j \in Keys \ {k} : Batch(j)' = Batch(j)
  BY <1>14 DEF Batch, Batched, TypeInv, TypeOK
<1>5. /\ DOMAIN Batch(k)' = 1..(n + 1) /\ Batch(k)'[n + 1] = r
      /\ \A i \in 1..n : Batch(k)'[i] = Batch(k)[i]
      /\ n \in Nat /\ DOMAIN Batch(k) = 1..n
  BY <1>15, QueueFacts
<1>6. /\ r = enqueued[Taken + 1] /\ Taken + 1 \in DOMAIN enqueued /\ Taken' = Taken + 1
      /\ Taken \in Nat /\ k = KeyOf[r] /\ future[r] = NoResult
  BY <1>1, <1>3, <1>4, TakeFacts, QueueFacts
<1>7. \A p \in 1..Taken : p \in DOMAIN enqueued /\ p < Taken + 1 /\ p \in 1..Taken'
  BY <1>6, QueueFacts
<1>8. \A p \in 1..Taken : Before(enqueued[p], r)
  BY <1>6, <1>7 DEF Before
<1>9. \A a, b : Before(a, b) => Before(a, b)'
  BY <1>1 DEF Before
<1>10. QueueInv'
  BY <1>1, <1>2, TakeFacts
<1>11. BatchInv'
  <2>1. ASSUME NEW j \in Keys \ {k} PROVE
          /\ \A i \in DOMAIN Batch(j)' : KeyOf[Batch(j)'[i]] = j
          /\ \A i \in DOMAIN Batch(j)' : \E p \in 1..Taken' : enqueued'[p] = Batch(j)'[i]
          /\ \A i, l \in DOMAIN Batch(j)' : i < l => Before(Batch(j)[i], Batch(j)[l])'
    BY <1>1, <1>15, <1>7, <1>9 DEF DataInv, BatchInv
  <2>2. \A i \in DOMAIN Batch(k)' : KeyOf[Batch(k)'[i]] = k
    BY <1>5, <1>6 DEF DataInv, BatchInv
  <2>3. \A i \in DOMAIN Batch(k) : \E p \in 1..Taken : enqueued[p] = Batch(k)[i]
    BY DEF DataInv, BatchInv
  <2>4. \A i \in DOMAIN Batch(k)' : \E p \in 1..Taken' : enqueued'[p] = Batch(k)'[i]
    BY <1>1, <1>5, <1>6, <1>7, <2>3
  <2>5. \A i \in 1..n : Before(Batch(k)[i], r)
    BY <1>5, <1>8, <2>3
  <2>6. \A i, l \in 1..n : i < l => Before(Batch(k)[i], Batch(k)[l])
    BY <1>5 DEF DataInv, BatchInv
  <2>7. \A i, l \in DOMAIN Batch(k)' : i < l => Before(Batch(k)'[i], Batch(k)'[l])
    BY <1>5, <2>5, <2>6
  <2>8. \A i, l \in DOMAIN Batch(k)' : i < l => Before(Batch(k)[i], Batch(k)[l])'
    BY <1>1, <2>7 DEF Before
  <2>9. \A j \in Keys : \A i \in DOMAIN Batch(j)' : KeyOf[Batch(j)'[i]] = j
    BY <2>1, <2>2
  <2>10. \A j \in Keys : \A i \in DOMAIN Batch(j)' :
             \E p \in 1..Taken' : enqueued'[p] = Batch(j)'[i]
    BY <2>1, <2>4
  <2>11. \A j \in Keys : \A i, l \in DOMAIN Batch(j)' :
             i < l => Before(Batch(j)[i], Batch(j)[l])'
    BY <2>1, <2>8
  <2>. QED BY <2>9, <2>10, <2>11 DEF BatchInv
<1>12. LogInv'
  <2>1. \A j \in Keys : \A i \in DOMAIN log[j] : \E p \in 1..Taken : enqueued[p] = log[j][i]
    BY DEF DataInv, LogInv
  <2>2. \A j \in Keys : \A i \in DOMAIN log'[j] : \E p \in 1..Taken' : enqueued'[p] = log'[j][i]
    BY <1>1, <1>7, <2>1
  <2>3. \A j \in Keys : \A i, l \in DOMAIN log'[j] : i < l => Before(log[j][i], log[j][l])'
    BY <1>1, <1>9 DEF DataInv, LogInv
  <2>4. \A i \in DOMAIN log[k] : Before(log[k][i], r)
    BY <1>8, <2>1
  <2>5. \A i \in DOMAIN log[k], l \in 1..n : Before(log[k][i], Batch(k)[l])
    BY <1>5 DEF DataInv, LogInv
  <2>6. \A i \in DOMAIN log[k], l \in DOMAIN Batch(k)' : Before(log[k][i], Batch(k)'[l])
    BY <1>5, <2>4, <2>5
  <2>7. \A i \in DOMAIN log'[k], l \in DOMAIN Batch(k)' : Before(log[k][i], Batch(k)[l])'
    BY <1>1, <2>6 DEF Before
  <2>8. \A j \in Keys \ {k} : \A i \in DOMAIN log'[j], l \in DOMAIN Batch(j)' :
            Before(log[j][i], Batch(j)[l])'
    <3>1. \A j \in Keys \ {k} : \A i \in DOMAIN log[j], l \in DOMAIN Batch(j) :
              Before(log[j][i], Batch(j)[l])
      BY DEF DataInv, LogInv
    <3>. QED BY <1>1, <1>15, <3>1 DEF Before
  <2>9. \A j \in Keys : \A i \in DOMAIN log'[j], l \in DOMAIN Batch(j)' :
            Before(log[j][i], Batch(j)[l])'
    BY <2>7, <2>8
  <2>. QED BY <2>2, <2>3, <2>9 DEF LogInv
<1>13. FutureInv'
  <2>1. \A i \in DOMAIN asyncCh' : future'[asyncCh'[i]] = NoResult
    <3>1. \A i \in DOMAIN asyncCh : future[asyncCh[i]] = NoResult
      BY DEF DataInv, FutureInv
    <3>2. /\ DOMAIN asyncCh' = 1..(Len(asyncCh) - 1)
          /\ \A i \in 1..(Len(asyncCh) - 1) :
                 asyncCh'[i] = asyncCh[i + 1] /\ i + 1 \in DOMAIN asyncCh
      BY <1>1, TakeFacts, QueueFacts
    <3>. QED BY <1>1, <3>1, <3>2
  <2>2. \A j \in Keys : \A i \in DOMAIN Batch(j)' : future'[Batch(j)'[i]] = NoResult
    <3>1. \A j \in Keys : \A i \in DOMAIN Batch(j) : future[Batch(j)[i]] = NoResult
      BY DEF DataInv, FutureInv
    <3>2. \A i \in DOMAIN Batch(k)' : future[Batch(k)'[i]] = NoResult
      BY <1>5, <1>6, <3>1
    <3>. QED BY <1>1, <1>15, <3>1, <3>2
  <2>3. ASSUME NEW p \in 1..Taken', future'[enqueued'[p]] = NoResult
        PROVE  \E j \in Keys : \E i \in DOMAIN Batch(j)' : Batch(j)'[i] = enqueued'[p]
    <3>1. CASE p = Taken + 1
      BY <1>1, <1>5, <1>6, <3>1
    <3>2. CASE p # Taken + 1
      <4>1. p \in 1..Taken /\ future[enqueued[p]] = NoResult
        BY <1>1, <1>6, <2>3, <3>2
      <4>2. PICK j \in Keys : \E i \in DOMAIN Batch(j) : Batch(j)[i] = enqueued[p]
        BY <4>1 DEF DataInv, FutureInv
      <4>3. \E i \in DOMAIN Batch(j)' : Batch(j)'[i] = enqueued[p]
        BY <1>5, <1>15, <4>2
      <4>. QED BY <1>1, <4>3
    <3>. QED BY <3>1, <3>2
  <2>. QED BY <1>1, <1>2, <2>1, <2>2, <2>3 DEF DataInv, FutureInv
<1>. QED BY <1>10, <1>11, <1>12, <1>13 DEF DataInv

(* The next record gets its outcome; it is in no batch yet.                *)
LEMMA RejectData == ASSUME TypeInv, DataInv, Reject PROVE DataInv'
<1>1. asyncCh # <<>> /\ asyncCh' = Tail(asyncCh) /\ UNCHANGED <<sender, enqueued, batches, log>>
  BY DEF Reject, callerVars, workerVars
<1>2. Sent' = Sent /\ \A k : Batch(k)' = Batch(k)
  BY <1>1 DEF Sent, Batch
<1>3. PICK r \in Records : r = Head(asyncCh)
  BY <1>1, TakeFacts
<1>4. future' = [future EXCEPT ![r] = "error"]
  BY <1>3 DEF Reject
<1>5. future'[r] # NoResult /\ \A q \in Records \ {r} : future'[q] = future[q]
  BY <1>4 DEF TypeInv, TypeOK, NoResult
<1>6. /\ r = enqueued[Taken + 1] /\ Taken + 1 \in DOMAIN enqueued /\ Taken' = Taken + 1
      /\ Taken \in Nat
  BY <1>1, <1>3, TakeFacts, QueueFacts
<1>7. \A p \in 1..Taken : p \in DOMAIN enqueued /\ p # Taken + 1 /\ p \in 1..Taken'
  BY <1>6, QueueFacts
<1>8. \A p \in DOMAIN enqueued : p # Taken + 1 => enqueued[p] \in Records \ {r}
  BY <1>6 DEF DataInv, QueueInv, TypeInv, TypeOK
<1>9. \A k \in Keys : \A i \in DOMAIN Batch(k) : \E p \in 1..Taken : enqueued[p] = Batch(k)[i]
  BY DEF DataInv, BatchInv
<1>10. QueueInv'
  BY <1>1, <1>2, TakeFacts
<1>11. BatchInv' /\ LogInv'
  BY <1>1, <1>2, <1>7 DEF DataInv, BatchInv, LogInv, Before
<1>12. FutureInv'
  <2>1. \A q \in Records : future'[q] # NoResult => q \in Sent'
    <3>1. r \in Sent
      BY <1>6 DEF DataInv, QueueInv
    <3>. QED BY <1>2, <1>5, <3>1 DEF DataInv, FutureInv
  <2>2. \A i \in DOMAIN asyncCh' : future'[asyncCh'[i]] = NoResult
    <3>1. /\ DOMAIN asyncCh' = 1..(Len(asyncCh) - 1)
          /\ \A i \in 1..(Len(asyncCh) - 1) :
                 asyncCh'[i] = asyncCh[i + 1] /\ i + 1 \in DOMAIN asyncCh
      BY <1>1, TakeFacts, QueueFacts
    <3>2. \A i \in 1..(Len(asyncCh) - 1) :
              Taken + (i + 1) \in DOMAIN enqueued /\ Taken + (i + 1) # Taken + 1
      BY QueueFacts
    <3>3. \A i \in DOMAIN asyncCh :
              asyncCh[i] = enqueued[Taken + i] /\ future[asyncCh[i]] = NoResult
      BY DEF DataInv, QueueInv, FutureInv
    <3>4. \A i \in 1..(Len(asyncCh) - 1) :
              asyncCh[i + 1] \in Records \ {r} /\ future[asyncCh[i + 1]] = NoResult
      BY <1>8, <3>1, <3>2, <3>3
    <3>. QED BY <1>5, <3>1, <3>4
  <2>3. \A k \in Keys : \A i \in DOMAIN Batch(k) : Batch(k)[i] \in Records \ {r}
    BY <1>7, <1>8, <1>9
  <2>4. \A k \in Keys : \A i \in DOMAIN Batch(k)' : future'[Batch(k)'[i]] = NoResult
    BY <1>2, <1>5, <2>3 DEF DataInv, FutureInv
  <2>5. ASSUME NEW p \in 1..Taken', future'[enqueued'[p]] = NoResult
        PROVE  \E k \in Keys : \E i \in DOMAIN Batch(k)' : Batch(k)'[i] = enqueued'[p]
    <3>1. p # Taken + 1
      BY <1>1, <1>5, <1>6, <2>5
    <3>2. p \in 1..Taken
      BY <1>6, <3>1
    <3>3. future[enqueued[p]] = NoResult
      BY <1>1, <1>5, <1>7, <1>8, <2>5, <3>2
    <3>. QED BY <1>1, <1>2, <3>2, <3>3 DEF DataInv, FutureInv
  <2>. QED BY <2>1, <2>2, <2>4, <2>5 DEF FutureInv
<1>. QED BY <1>10, <1>11, <1>12 DEF DataInv

(* What is in the batch of one partition is nowhere else.                  *)
LEMMA ProducedData ==
    ASSUME TypeInv, DataInv, NEW result \in {"ok", "error"}, NEW appended \in BOOLEAN,
           Produced(result, appended)
    PROVE  DataInv'
<1>1. PICK k \in Keys : k = producing
  BY DEF Produced, TypeInv, TypeOK
<1>. DEFINE n == Len(Batch(k))
            InIt(r) == \E i \in DOMAIN Batch(k) : Batch(k)[i] = r
<1>2. \A r : r \in ToSet(Batch(k)) <=> InIt(r)
  BY DEF ToSet
<1>3. /\ future' = [r \in Records |-> IF r \in ToSet(Batch(k)) THEN result ELSE future[r]]
      /\ log' = log \/ log' = [log EXCEPT ![k] = log[k] \o Batch(k)]
      /\ batches' = [batches EXCEPT ![k] = EmptyBatch]
      /\ UNCHANGED <<asyncCh, enqueued, sender>>
  BY <1>1 DEF Produced, Collected, Batch, callerVars
<1>4. Sent' = Sent /\ Taken' = Taken
  BY <1>3 DEF Sent, Taken
<1>5. Batch(k)' = <<>> /\ \A j \in Keys \ {k} : Batch(j)' = Batch(j)
  BY <1>3 DEF Batch, EmptyBatch, TypeInv, TypeOK
<1>6. \A r \in Records : /\ InIt(r) => future'[r] # NoResult
                         /\ ~InIt(r) => future'[r] = future[r]
  BY <1>2, <1>3 DEF NoResult
<1>7. \A r : InIt(r) => /\ r \in Records /\ KeyOf[r] = k /\ future[r] = NoResult
                        /\ \E p \in 1..Taken : enqueued[p] = r
  BY QueueFacts DEF DataInv, BatchInv, FutureInv
<1>8. QueueInv'
  BY <1>3, <1>4 DEF DataInv, QueueInv
<1>9. \A a, b : Before(a, b) => Before(a, b)'
  BY <1>3 DEF Before
<1>10. BatchInv'
  <2>1. \A j \in Keys : \A i \in DOMAIN Batch(j)' : KeyOf[Batch(j)'[i]] = j
    BY <1>5 DEF DataInv, BatchInv
  <2>2. \A j \in Keys : \A i \in DOMAIN Batch(j)' :
            \E p \in 1..Taken' : enqueued'[p] = Batch(j)'[i]
    BY <1>3, <1>4, <1>5 DEF DataInv, BatchInv
  <2>3. \A j \in Keys \ {k} : \A i, l \in DOMAIN Batch(j) :
            i < l => Before(Batch(j)[i], Batch(j)[l])
    BY DEF DataInv, BatchInv
  <2>4. \A j \in Keys : \A i, l \in DOMAIN Batch(j)' :
            i < l => Before(Batch(j)[i], Batch(j)[l])'
    BY <1>3, <1>5, <2>3 DEF Before
  <2>. QED BY <2>1, <2>2, <2>4 DEF BatchInv
<1>11. LogInv'
  <2>1. ASSUME NEW j \in Keys, log'[j] = log[j]
        PROVE  /\ \A i \in DOMAIN log'[j] : \E p \in 1..Taken' : enqueued'[p] = log'[j][i]
               /\ \A i, l \in DOMAIN log'[j] : i < l => Before(log[j][i], log[j][l])'
    <3>1. /\ \A i \in DOMAIN log[j] : \E p \in 1..Taken : enqueued[p] = log[j][i]
          /\ \A i, l \in DOMAIN log[j] : i < l => Before(log[j][i], log[j][l])
      BY DEF DataInv, LogInv
    <3>. QED BY <1>3, <1>4, <2>1, <3>1 DEF Before
  <2>2. \A j \in Keys \ {k} : log'[j] = log[j]
    BY <1>3 DEF TypeInv, TypeOK
  <2>3. ASSUME log' = [log EXCEPT ![k] = log[k] \o Batch(k)]
        PROVE  /\ \A i \in DOMAIN log'[k] : \E p \in 1..Taken' : enqueued'[p] = log'[k][i]
               /\ \A i, l \in DOMAIN log'[k] : i < l => Before(log[k][i], log[k][l])'
    <3>. DEFINE m == Len(log[k])
    <3>1. /\ log[k] \in Seq(Records) /\ Batch(k) \in Seq(Records) /\ m \in Nat /\ n \in Nat
          /\ DOMAIN log[k] = 1..m /\ DOMAIN Batch(k) = 1..n
      BY QueueFacts
    <3>2. log'[k] = log[k] \o Batch(k)
      BY <2>3 DEF TypeInv, TypeOK
    <3>3. /\ DOMAIN log'[k] = 1..(m + n)
          /\ \A i \in 1..(m + n) : \/ i \in 1..m /\ log'[k][i] = log[k][i]
                                   \/ i - m \in 1..n /\ log'[k][i] = Batch(k)[i - m]
      BY <3>1, <3>2
    <3>4. /\ \A i \in 1..m : \E p \in 1..Taken : enqueued[p] = log[k][i]
          /\ \A i \in 1..n : \E p \in 1..Taken : enqueued[p] = Batch(k)[i]
      BY <3>1 DEF DataInv, LogInv, BatchInv
    <3>5. \A i, l \in 1..m : i < l => Before(log[k][i], log[k][l])
      BY <3>1 DEF DataInv, LogInv
    <3>6. \A i, l \in 1..n : i < l => Before(Batch(k)[i], Batch(k)[l])
      BY <3>1 DEF DataInv, BatchInv
    <3>7. \A i \in 1..m, l \in 1..n : Before(log[k][i], Batch(k)[l])
      BY <3>1 DEF DataInv, LogInv
    <3>8. \A i \in DOMAIN log'[k] : \E p \in 1..Taken' : enqueued'[p] = log'[k][i]
      BY <1>3, <1>4, <3>3, <3>4
    <3>9. ASSUME NEW i \in 1..(m + n), NEW l \in 1..(m + n), i < l
          PROVE  Before(log'[k][i], log'[k][l])
      <4>1. CASE i \in 1..m /\ l \in 1..m
        <5>1. log'[k][i] = log[k][i] /\ log'[k][l] = log[k][l]
          BY <3>1, <3>2, <4>1
        <5>. QED BY <3>5, <3>9, <4>1, <5>1
      <4>2. CASE i \in 1..m /\ l \notin 1..m
        <5>1. log'[k][i] = log[k][i] /\ log'[k][l] = Batch(k)[l - m] /\ l - m \in 1..n
          BY <3>1, <3>2, <4>2
        <5>. QED BY <3>7, <4>2, <5>1
      <4>3. CASE i \notin 1..m
        <5>1. /\ log'[k][i] = Batch(k)[i - m] /\ log'[k][l] = Batch(k)[l - m]
              /\ i - m \in 1..n /\ l - m \in 1..n /\ i - m < l - m
          BY <3>1, <3>2, <3>9, <4>3
        <5>. QED BY <3>6, <5>1
      <4>. QED BY <4>1, <4>2, <4>3
    <3>10. \A i, l \in DOMAIN log'[k] : i < l => Before(log[k][i], log[k][l])'
      BY <1>3, <3>3, <3>9 DEF Before
    <3>. QED BY <3>8, <3>10
  <2>4. \A j \in Keys : /\ \A i \in DOMAIN log'[j] : \E p \in 1..Taken' : enqueued'[p] = log'[j][i]
                        /\ \A i, l \in DOMAIN log'[j] : i < l => Before(log[j][i], log[j][l])'
    <3>1. log' = log \/ log' = [log EXCEPT ![k] = log[k] \o Batch(k)]
      BY <1>3
    <3>2. CASE log' = log
      BY <2>1, <3>2
    <3>3. CASE log' = [log EXCEPT ![k] = log[k] \o Batch(k)]
      <4>1. ASSUME NEW j \in Keys
            PROVE  /\ \A i \in DOMAIN log'[j] : \E p \in 1..Taken' : enqueued'[p] = log'[j][i]
                   /\ \A i, l \in DOMAIN log'[j] : i < l => Before(log[j][i], log[j][l])'
        <5>1. CASE j = k
          BY <2>3, <3>3, <5>1
        <5>2. CASE j # k
          BY <2>1, <2>2, <5>2
        <5>. QED BY <5>1, <5>2
      <4>. QED BY <4>1
    <3>. QED BY <3>1, <3>2, <3>3
  <2>5. \A j \in Keys \ {k} : \A i \in DOMAIN log[j], l \in DOMAIN Batch(j) :
            Before(log[j][i], Batch(j)[l])
    BY DEF DataInv, LogInv
  <2>6. \A j \in Keys : \A i \in DOMAIN log'[j], l \in DOMAIN Batch(j)' :
            Before(log[j][i], Batch(j)[l])'
    BY <1>3, <1>5, <2>2, <2>5 DEF Before
  <2>. QED BY <2>4, <2>6 DEF LogInv
<1>12. FutureInv'
  <2>1. \A q \in Records : future'[q] # NoResult => q \in Sent'
    <3>1. \A q \in Records : InIt(q) => q \in Sent
      BY <1>7, QueueFacts DEF DataInv, QueueInv
    <3>. QED BY <1>4, <1>6, <3>1 DEF DataInv, FutureInv
  <2>2. \A i \in DOMAIN asyncCh : asyncCh[i] \in Records /\ ~InIt(asyncCh[i])
    <3>1. \A i \in DOMAIN asyncCh : Taken + i \in DOMAIN enqueued /\ Taken + i \notin 1..Taken
      BY QueueFacts
    <3>2. \A p \in 1..Taken : p \in DOMAIN enqueued
      BY QueueFacts
    <3>3. \A i \in DOMAIN asyncCh : asyncCh[i] \in Records /\ asyncCh[i] = enqueued[Taken + i]
      BY DEF DataInv, QueueInv, TypeInv, TypeOK
    <3>4. \A i \in DOMAIN asyncCh, p \in 1..Taken : enqueued[p] # asyncCh[i]
      BY <3>1, <3>2, <3>3 DEF DataInv, QueueInv
    <3>. QED BY <1>7, <3>3, <3>4
  <2>3. \A i \in DOMAIN asyncCh' : future'[asyncCh'[i]] = NoResult
    BY <1>3, <1>6, <2>2 DEF DataInv, FutureInv
  <2>4. \A j \in Keys \ {k} : \A i \in DOMAIN Batch(j) :
            Batch(j)[i] \in Records /\ ~InIt(Batch(j)[i]) /\ future[Batch(j)[i]] = NoResult
    <3>1. \A j \in Keys : \A i \in DOMAIN Batch(j) :
              KeyOf[Batch(j)[i]] = j /\ future[Batch(j)[i]] = NoResult
      BY DEF DataInv, BatchInv, FutureInv
    <3>2. \A j \in Keys : \A i \in DOMAIN Batch(j) : Batch(j)[i] \in Records
      BY QueueFacts
    <3>. QED BY <1>7, <3>1, <3>2
  <2>5. \A j \in Keys : \A i \in DOMAIN Batch(j)' : future'[Batch(j)'[i]] = NoResult
    BY <1>5, <1>6, <2>4
  <2>6. ASSUME NEW p \in 1..Taken, future'[enqueued[p]] = NoResult
        PROVE  \E j \in Keys : \E i \in DOMAIN Batch(j)' : Batch(j)'[i] = enqueued[p]
    <3>1. enqueued[p] \in Records
      BY QueueFacts DEF TypeInv, TypeOK
    <3>2. ~InIt(enqueued[p]) /\ future[enqueued[p]] = NoResult
      BY <1>6, <2>6, <3>1
    <3>3. PICK j \in Keys : \E i \in DOMAIN Batch(j) : Batch(j)[i] = enqueued[p]
      BY <3>2 DEF DataInv, FutureInv
    <3>. QED BY <1>5, <3>2, <3>3
  <2>. QED BY <1>3, <1>4, <2>1, <2>3, <2>5, <2>6 DEF FutureInv
<1>. QED BY <1>8, <1>10, <1>11, <1>12 DEF DataInv

LEMMA DataNext == TypeInv /\ DataInv /\ [Next]_vars => DataInv'
<1>1. TypeInv /\ DataInv /\ UNCHANGED vars => DataInv'
  <2>1. UNCHANGED vars => Sent' = Sent
    BY DEF vars, callerVars, Sent
  <2>2. UNCHANGED vars => UNCHANGED <<asyncCh, enqueued, batches, log, future>>
    BY DEF vars, workerVars
  <2>. QED BY <2>1, <2>2, DataStays
<1>2. ASSUME TypeInv, DataInv, Outcome PROVE DataInv'
  BY <1>2, ProducedData DEF Outcome
<1>. QED BY <1>1, <1>2, ElsewhereData, EnqueueData, AddData, RejectData DEF Next

LEMMA DataInvariant == Spec => [](TypeInv /\ DataInv)
BY InitType, TypeNext, InitData, DataNext, PTL DEF Spec

-----------------------------------------------------------------------------
(* A record has one place in the order of entry.                           *)
LEMMA PositionFacts ==
    ASSUME DataInv, NEW p \in DOMAIN enqueued PROVE Position(enqueued[p]) = p
<1>1. Position(enqueued[p]) \in DOMAIN enqueued
      /\ enqueued[Position(enqueued[p])] = enqueued[p]
  BY DEF Position
<1>. QED BY <1>1 DEF DataInv, QueueInv

(* For any records and limits: the log of a partition is in the order in   *)
(* which its records entered the queue, through batches sent when full, on *)
(* the ticker or for a Flush, failures and records that were rejected      *)
(* (async.go:58-125).                                                      *)
THEOREM OrderKept == Spec => []KeyOrder
<1>1. ASSUME DataInv PROVE KeyOrder
  <2>. SUFFICES ASSUME NEW k \in Keys, NEW i \in DOMAIN log[k], NEW j \in DOMAIN log[k], i < j
                PROVE  Position(log[k][i]) < Position(log[k][j])
    BY DEF KeyOrder
  <2>1. Before(log[k][i], log[k][j])
    BY <1>1 DEF DataInv, LogInv
  <2>2. PICK p, q \in DOMAIN enqueued :
            p < q /\ enqueued[p] = log[k][i] /\ enqueued[q] = log[k][j]
    BY <2>1 DEF Before
  <2>. QED BY <1>1, <2>2, PositionFacts
<1>. QED BY <1>1, DataInvariant, PTL

-----------------------------------------------------------------------------
InQueue(r) == {i \in DOMAIN asyncCh : asyncCh[i] = r}
InBatch(r) == {at \in Keys \X (1..BatchSize) :
                   LET b == batches[at[1]].records IN at[2] <= Len(b) /\ b[at[2]] = r}

(* A record is at most once in the queue, and not if it has been taken.    *)
LEMMA QueuePlaces ==
    ASSUME TypeInv, DataInv, NEW r \in Records
    PROVE  /\ (\E p \in 1..Taken : enqueued[p] = r) \/ r \notin Sent => InQueue(r) = {}
           /\ r \in Sent /\ ~ (\E p \in 1..Taken : enqueued[p] = r) =>
                  \E i : InQueue(r) = {i}
<1>1. \A i \in DOMAIN asyncCh :
          asyncCh[i] = enqueued[Taken + i] /\ Taken + i \in DOMAIN enqueued
  BY QueueFacts DEF DataInv, QueueInv
<1>2. \A p \in 1..Taken : p \in DOMAIN enqueued /\ \A i \in DOMAIN asyncCh : p # Taken + i
  BY QueueFacts
<1>3. \A p, q \in DOMAIN enqueued : enqueued[p] = enqueued[q] => p = q
  BY DEF DataInv, QueueInv
<1>4. ASSUME NEW p \in 1..Taken, enqueued[p] = r PROVE InQueue(r) = {}
  BY <1>1, <1>2, <1>3, <1>4 DEF InQueue
<1>5. ASSUME r \notin Sent PROVE InQueue(r) = {}
  BY <1>1, <1>5 DEF InQueue, DataInv, QueueInv
<1>6. ASSUME r \in Sent, ~ \E p \in 1..Taken : enqueued[p] = r PROVE \E i : InQueue(r) = {i}
  <2>1. PICK p \in DOMAIN enqueued : enqueued[p] = r
    BY <1>6 DEF DataInv, QueueInv
  <2>2. p \notin 1..Taken
    BY <1>6, <2>1
  <2>3. p - Taken \in DOMAIN asyncCh /\ Taken + (p - Taken) = p
    BY <2>1, <2>2, QueueFacts
  <2>4. asyncCh[p - Taken] = r
    BY <1>1, <2>1, <2>3
  <2>5. \A i \in DOMAIN asyncCh : asyncCh[i] = r => Taken + i = p
    BY <1>1, <1>3, <2>1
  <2>6. \A i \in DOMAIN asyncCh : asyncCh[i] = r => i = p - Taken
    BY <2>5, QueueFacts
  <2>7. InQueue(r) = {p - Taken}
    BY <2>3, <2>4, <2>6 DEF InQueue
  <2>. QED BY <2>7
<1>. QED BY <1>4, <1>5, <1>6

(* A record is at most once in a batch, and not if it has an outcome.      *)
LEMMA BatchPlaces ==
    ASSUME TypeInv, DataInv, NEW r \in Records
    PROVE  /\ ~ (\E p \in 1..Taken : enqueued[p] = r) => InBatch(r) = {}
           /\ future[r] # NoResult => InBatch(r) = {}
           /\ (\E p \in 1..Taken : enqueued[p] = r) /\ future[r] = NoResult =>
                  \E at : InBatch(r) = {at}
<1>1. \A at \in InBatch(r) : /\ at[1] \in Keys /\ at[2] \in DOMAIN Batch(at[1])
                             /\ Batch(at[1])[at[2]] = r /\ at = <<at[1], at[2]>>
  <2>1. \A at \in InBatch(r) :
            /\ at[1] \in Keys /\ at[2] \in 1..BatchSize /\ at = <<at[1], at[2]>>
            /\ at[2] <= Len(Batch(at[1])) /\ Batch(at[1])[at[2]] = r
    BY DEF InBatch, Batch
  <2>. QED BY <2>1, QueueFacts, LimitsAssumption
<1>2. ASSUME ~ \E p \in 1..Taken : enqueued[p] = r PROVE InBatch(r) = {}
  BY <1>1, <1>2 DEF DataInv, BatchInv
<1>3. ASSUME future[r] # NoResult PROVE InBatch(r) = {}
  BY <1>1, <1>3 DEF DataInv, FutureInv
<1>4. ASSUME NEW p \in 1..Taken, enqueued[p] = r, future[r] = NoResult
      PROVE  \E at : InBatch(r) = {at}
  <2>1. PICK k \in Keys : \E i \in DOMAIN Batch(k) : Batch(k)[i] = r
    BY <1>4 DEF DataInv, FutureInv
  <2>2. PICK i \in DOMAIN Batch(k) : Batch(k)[i] = r
    BY <2>1
  <2>3. i \in 1..BatchSize /\ i <= Len(Batch(k))
    <3>1. Len(Batch(k)) <= BatchSize /\ i \in 1..Len(Batch(k))
      BY <2>2, QueueFacts DEF TypeInv, TypeOK, Batch
    <3>. QED BY <3>1, LimitsAssumption, QueueFacts
  <2>4. <<k, i>> \in InBatch(r)
    BY <2>2, <2>3 DEF InBatch, Batch
  <2>5. ASSUME NEW at \in InBatch(r) PROVE at = <<k, i>>
    <3>1. at[1] = k
      BY <1>1, <2>2 DEF DataInv, BatchInv
    <3>2. at[2] \in DOMAIN Batch(k) /\ Batch(k)[at[2]] = r
      BY <1>1, <3>1
    <3>3. ~ Before(r, r)
      BY QueueFacts DEF DataInv, QueueInv, Before
    <3>4. ~ (i < at[2]) /\ ~ (at[2] < i)
      BY <2>2, <3>2, <3>3 DEF DataInv, BatchInv
    <3>5. at[2] = i
      BY <2>2, <3>2, <3>4, QueueFacts
    <3>. QED BY <1>1, <3>1, <3>5
  <2>. QED BY <2>4, <2>5
<1>. QED BY <1>2, <1>3, <1>4

(* For any records, partitions and limits: a record whose SendAsync has    *)
(* returned is in one place of the queue and the batches until its future  *)
(* is complete and in none afterwards, so none is lost or sent twice       *)
(* (async.go:58-125).                                                      *)
THEOREM Accounted == Spec => []RecordsAccounted
<1>1. ASSUME TypeInv, DataInv PROVE RecordsAccounted
  <2>. SUFFICES ASSUME NEW r \in Records
                PROVE  Places(r) = IF r \in Sent /\ future[r] = NoResult THEN 1 ELSE 0
    BY DEF RecordsAccounted
  <2>1. Places(r) = Cardinality(InQueue(r)) + Cardinality(InBatch(r))
    BY DEF Places, InQueue, InBatch
  <2>2. Cardinality({}) = 0 /\ \A x : Cardinality({x}) = 1
    BY FS_EmptySet, FS_Singleton
  <2>3. \A p \in 1..Taken : p \in DOMAIN enqueued
    BY <1>1, QueueFacts
  <2>4. CASE r \notin Sent
    <3>1. ~ \E p \in 1..Taken : enqueued[p] = r
      BY <1>1, <2>3, <2>4 DEF DataInv, QueueInv
    <3>2. InQueue(r) = {} /\ InBatch(r) = {}
      BY <1>1, <2>4, <3>1, QueuePlaces, BatchPlaces
    <3>. QED BY <2>1, <2>2, <2>4, <3>2
  <2>5. CASE r \in Sent /\ future[r] # NoResult
    <3>1. \A i \in DOMAIN asyncCh : asyncCh[i] # r
      BY <1>1, <2>5 DEF DataInv, FutureInv
    <3>2. InQueue(r) = {}
      BY <3>1 DEF InQueue
    <3>3. InBatch(r) = {}
      BY <1>1, <2>5, BatchPlaces
    <3>. QED BY <2>1, <2>2, <2>5, <3>2, <3>3
  <2>6. CASE r \in Sent /\ future[r] = NoResult /\ \E p \in 1..Taken : enqueued[p] = r
    <3>1. InQueue(r) = {} /\ \E at : InBatch(r) = {at}
      BY <1>1, <2>6, QueuePlaces, BatchPlaces
    <3>2. Cardinality(InQueue(r)) = 0 /\ Cardinality(InBatch(r)) = 1
      BY <2>2, <3>1
    <3>. QED BY <2>1, <2>6, <3>2
  <2>7. CASE r \in Sent /\ future[r] = NoResult /\ ~ \E p \in 1..Taken : enqueued[p] = r
    <3>1. InBatch(r) = {} /\ \E i : InQueue(r) = {i}
      BY <1>1, <2>7, QueuePlaces, BatchPlaces
    <3>2. Cardinality(InBatch(r)) = 0 /\ Cardinality(InQueue(r)) = 1
      BY <2>2, <3>1
    <3>. QED BY <2>1, <2>7, <3>2
  <2>. QED BY <2>4, <2>5, <2>6, <2>7
<1>. QED BY <1>1, DataInvariant, PTL

-----------------------------------------------------------------------------
(* What each step does to the worker's phase and the flush it serves.      *)
LEMMA PhaseInit == Init => PhaseInv
BY DEF Init, PhaseInv, Phase

(* The steps of callers leave the phase alone, but for the first of them,  *)
(* which starts the worker.                                                *)
LEMMA CallerPhase ==
    ASSUME TypeInv, PhaseInv,
           \/ \E r \in Records : SendAsync(r) \/ SendCanceled(r) \/ Enqueue(r)
           \/ \E f \in AllFlushers : Flush(f) \/ FlushReturns(f) \/ FlushCanceled(f)
           \/ Close \/ CloseStop \/ CloseReturns
    PROVE  /\ UNCHANGED <<task, back, request, batches, producing, flushFailed, log>>
           /\ Phase' = Phase \/ (Phase = "none" /\ Phase' = "select")
           /\ PhaseInv'
<1>1. UNCHANGED <<task, back, request, batches, producing, flushFailed, log>>
  BY DEF SendAsync, SendCanceled, Enqueue, Flush, FlushReturns, FlushCanceled, Close,
         CloseStop, CloseReturns, workerVars
<1>2. worker' = worker \/ (worker = "none" /\ worker' = "select")
  BY DEF SendAsync, SendCanceled, Enqueue, Flush, FlushReturns, FlushCanceled, Close,
         CloseStop, CloseReturns, workerVars, EnsureWorker, Offer
<1>3. Phase' = Phase \/ (Phase = "none" /\ Phase' = "select")
  BY <1>1, <1>2 DEF Phase
<1>4. PhaseInv'
  BY <1>1, <1>3 DEF PhaseInv
<1>. QED BY <1>1, <1>3, <1>4

LEMMA WorkerPhase ==
    ASSUME TypeInv, PhaseInv,
           \/ \E f \in AllFlushers : TakeFlush(f)
           \/ \E k \in Keys : FlushBatch(k)
           \/ Tick \/ TakeStop \/ Add \/ Reject \/ Drained \/ Outcome \/ FlushEnd
    PROVE  PhaseInv'
<1>. USE Callers DEF PhaseInv, Phase
<1>1. ASSUME NEW f \in AllFlushers, TakeFlush(f) PROVE PhaseInv'
  BY <1>1 DEF TakeFlush
<1>2. ASSUME NEW k \in Keys, FlushBatch(k) PROVE PhaseInv'
  BY <1>2 DEF FlushBatch
<1>3. CASE Tick \/ TakeStop \/ Drained
  BY <1>3 DEF Tick, TakeStop, Drained
<1>4. CASE Reject
  BY <1>4 DEF Reject, workerVars
<1>5. CASE Add
  <2>1. worker \in {"select", "drain"} /\ UNCHANGED <<task, request>>
        /\ (worker' = worker \/ (worker' = "produce" /\ back' = worker))
    BY <1>5 DEF Add
  <2>. QED BY <2>1
<1>6. CASE Outcome
  <2>1. worker = "produce" /\ worker' = back /\ UNCHANGED <<task, request>>
        /\ back \in {"select", "drain", "flush"}
    BY <1>6 DEF Outcome, Produced, TypeInv, TypeOK
  <2>. QED BY <2>1
<1>7. CASE FlushEnd
  <2>1. worker' \in {"select", "stopped"} /\ task' = "tick"
    BY <1>7 DEF FlushEnd
  <2>2. request' = NoOne
    BY <1>7 DEF FlushEnd
  <2>. QED BY <2>1, <2>2
<1>. QED BY <1>1, <1>2, <1>3, <1>4, <1>5, <1>6, <1>7

LEMMA PhaseNext == TypeInv /\ PhaseInv /\ [Next]_vars => PhaseInv'
<1>1. PhaseInv /\ UNCHANGED vars => PhaseInv'
  BY DEF PhaseInv, Phase, vars, workerVars
<1>. QED BY <1>1, CallerPhase, WorkerPhase DEF Next

-----------------------------------------------------------------------------
LEMMA BarrierInit == Init => BarrierInv
BY Callers DEF Init, BarrierInv, Phase

(* Records come into what a Flush covers when it begins, and only then.    *)
LEMMA CallerCovers ==
    ASSUME TypeInv,
           \/ \E r \in Records : SendAsync(r) \/ SendCanceled(r)
           \/ \E f \in AllFlushers : Flush(f) \/ FlushReturns(f) \/ FlushCanceled(f)
           \/ Close \/ CloseStop \/ CloseReturns
    PROVE  \A f \in AllFlushers :
               \/ covers'[f] \subseteq covers[f] /\ (f = Closer => covers'[f] = covers[f])
               \/ flusher[f] = "idle" /\ covers'[f] = Sent
<1>1. \/ UNCHANGED covers
      \/ \E g \in AllFlushers : flusher[g] = "idle" /\ covers' = [covers EXCEPT ![g] = Sent]
      \/ \E g \in AllFlushers : g # Closer /\ covers' = [covers EXCEPT ![g] = {}]
  BY Callers DEF SendAsync, SendCanceled, Flush, FlushReturns, FlushCanceled, Close,
                 CloseStop, CloseReturns, Offer, EnsureWorker, EndFlush
<1>. QED BY <1>1 DEF TypeInv, TypeOK

(* A Flush that begins covers what was sent, and is not served yet.        *)
LEMMA CallerBarrier ==
    ASSUME TypeInv, DataInv, PhaseInv, BarrierInv,
           \/ \E r \in Records : SendAsync(r) \/ SendCanceled(r)
           \/ \E f \in AllFlushers : Flush(f) \/ FlushReturns(f) \/ FlushCanceled(f)
           \/ Close \/ CloseStop \/ CloseReturns
    PROVE  BarrierInv'
<1>1. /\ UNCHANGED <<task, request>> /\ UNCHANGED asyncCh
      /\ Phase' = Phase \/ (Phase = "none" /\ Phase' = "select")
  <2>1. UNCHANGED asyncCh
    BY DEF SendAsync, SendCanceled, Flush, FlushReturns, FlushCanceled, Close,
           CloseStop, CloseReturns
  <2>. QED BY <2>1, CallerPhase
<1>2. Sent' = Sent
  <2>1. UNCHANGED sender \/ \E r \in Records : SendAsync(r) \/ SendCanceled(r)
    BY DEF Flush, FlushReturns, FlushCanceled, Close, CloseStop,
           CloseReturns, callerVars
  <2>. QED BY <2>1, SentStays
<1>3. \A f \in AllFlushers :
          covers'[f] \subseteq covers[f] \/ (flusher[f] = "idle" /\ covers'[f] = Sent)
  BY CallerCovers
<1>4. \A f \in AllFlushers : flusher'[f] \in {"idle", "offer"} => flusher[f] \in {"idle", "offer"}
  BY Callers DEF SendAsync, SendCanceled, Flush, FlushReturns, FlushCanceled, Close,
                 CloseStop, CloseReturns, Offer, EnsureWorker, EndFlush, TypeInv, TypeOK
<1>5. \A f \in AllFlushers : covers'[f] \subseteq Sent'
  BY <1>2, <1>3 DEF BarrierInv
<1>6. \A f \in AllFlushers :
          flusher'[f] \in {"idle", "offer"} => reply'[f] = NoResult /\ request' # f
  <2>1. \A f \in AllFlushers : reply'[f] = reply[f] \/ reply'[f] = NoResult
    BY DEF SendAsync, SendCanceled, Flush, FlushReturns, FlushCanceled, Close,
           CloseStop, CloseReturns, TypeInv, TypeOK
  <2>. QED BY <1>1, <1>4, <2>1 DEF BarrierInv
<1>7. ASSUME Phase' = "flush", task' = "flush"
      PROVE  \A i \in DOMAIN asyncCh' : asyncCh'[i] \notin covers'[request']
  <2>1. Phase = "flush" /\ task = "flush"
    BY <1>1, <1>7
  <2>2. request \in AllFlushers
    BY <2>1 DEF PhaseInv, TypeInv, TypeOK
  <2>3. flusher[request] # "idle"
    BY <2>2 DEF BarrierInv
  <2>4. covers'[request] \subseteq covers[request]
    BY <1>3, <2>2, <2>3
  <2>. QED BY <1>1, <2>1, <2>4 DEF BarrierInv
<1>. QED BY <1>5, <1>6, <1>7 DEF BarrierInv

(* What enters the queue during a Flush is not covered by it.              *)
LEMMA EnqueueBarrier ==
    ASSUME TypeInv, DataInv, PhaseInv, BarrierInv, NEW r \in Records, Enqueue(r)
    PROVE  BarrierInv'
<1>1. /\ sender[r] = "enqueue" /\ sender' = [sender EXCEPT ![r] = "sent"]
      /\ asyncCh' = Append(asyncCh, r)
      /\ UNCHANGED <<flusher, reply, worker, task, back, request, covers>>
  BY DEF Enqueue, workerVars
<1>2. r \notin Sent /\ Sent \subseteq Sent'
  BY <1>1 DEF Sent, TypeInv, TypeOK
<1>3. \A i \in DOMAIN asyncCh' :
          asyncCh'[i] = r \/ \E j \in DOMAIN asyncCh : asyncCh'[i] = asyncCh[j]
  BY <1>1 DEF TypeInv, TypeOK
<1>4. Phase' = Phase
  BY <1>1 DEF Phase
<1>5. ASSUME Phase' = "flush", task' = "flush"
      PROVE  \A i \in DOMAIN asyncCh' : asyncCh'[i] \notin covers'[request']
  <2>1. request \in AllFlushers
    BY <1>1, <1>5 DEF PhaseInv, TypeInv, TypeOK
  <2>2. r \notin covers[request]
    BY <1>2, <2>1 DEF BarrierInv
  <2>. QED BY <1>1, <1>3, <1>4, <1>5, <2>2 DEF BarrierInv
<1>. QED BY <1>1, <1>2, <1>5 DEF BarrierInv

LEMMA WorkerBarrier ==
    ASSUME TypeInv, DataInv, PhaseInv, BarrierInv,
           \/ \E f \in AllFlushers : TakeFlush(f)
           \/ \E k \in Keys : FlushBatch(k)
           \/ Tick \/ TakeStop \/ Add \/ Reject \/ Drained \/ Outcome \/ FlushEnd
    PROVE  BarrierInv'
<1>1. UNCHANGED <<covers, sender>> /\ Sent' = Sent
  BY DEF TakeFlush, FlushBatch, Tick, TakeStop, Add, Reject, Drained, Outcome, Produced,
         FlushEnd, callerVars, Sent
<1>2. \A f \in AllFlushers : covers'[f] \subseteq Sent'
  BY <1>1 DEF BarrierInv
<1>3. ASSUME UNCHANGED <<flusher, reply, request>>
      PROVE  \A f \in AllFlushers :
                 flusher'[f] \in {"idle", "offer"} => reply'[f] = NoResult /\ request' # f
  BY <1>3 DEF BarrierInv
<1>4. ASSUME UNCHANGED <<flusher, reply, request>>, Phase' = "flush" => task' # "flush"
      PROVE  BarrierInv'
  BY <1>2, <1>3, <1>4 DEF BarrierInv
<1>5. ASSUME NEW f \in AllFlushers, TakeFlush(f) PROVE BarrierInv'
  <2>1. /\ flusher' = [flusher EXCEPT ![f] = "await"] /\ request' = f /\ UNCHANGED reply
        /\ Phase' = "drain"
    BY <1>5 DEF TakeFlush, Phase
  <2>2. \A g \in AllFlushers :
            flusher'[g] \in {"idle", "offer"} => reply'[g] = NoResult /\ request' # g
    BY <2>1 DEF BarrierInv, TypeInv, TypeOK
  <2>. QED BY <1>2, <2>1, <2>2 DEF BarrierInv
<1>6. CASE Tick
  BY <1>4, <1>6 DEF Tick, callerVars
<1>7. CASE TakeStop
  BY <1>4, <1>7 DEF TakeStop, callerVars
<1>8. CASE Add
  <2>1. /\ worker \in {"select", "drain"} /\ UNCHANGED <<flusher, reply, request, task>>
        /\ (worker' = worker \/ (worker' = "produce" /\ back' = worker))
    BY <1>8 DEF Add, callerVars
  <2>2. Phase' # "flush"
    BY <2>1 DEF Phase
  <2>. QED BY <1>4, <2>1, <2>2
<1>9. CASE Reject
  <2>1. worker \in {"select", "drain"} /\ UNCHANGED <<flusher, reply, request, worker>>
    BY <1>9 DEF Reject, callerVars, workerVars
  <2>2. Phase' # "flush"
    BY <2>1 DEF Phase
  <2>. QED BY <1>4, <2>1, <2>2
<1>10. CASE Drained
  <2>1. asyncCh' = <<>> /\ UNCHANGED <<flusher, reply, request>>
    BY <1>10 DEF Drained, callerVars
  <2>2. DOMAIN asyncCh' = {}
    BY <2>1
  <2>. QED BY <1>2, <1>3, <2>1, <2>2 DEF BarrierInv
<1>11. CASE (\E k \in Keys : FlushBatch(k)) \/ Outcome
  <2>1. /\ UNCHANGED <<flusher, reply, request, task, asyncCh>>
        /\ Phase' = Phase
    BY <1>11 DEF FlushBatch, Outcome, Produced, callerVars, Phase, TypeInv, TypeOK
  <2>. QED BY <1>1, <1>2, <1>3, <2>1 DEF BarrierInv
<1>12. CASE FlushEnd
  <2>1. UNCHANGED flusher /\ task' = "tick"
    BY <1>12 DEF FlushEnd, callerVars
  <2>2. CASE task = "flush"
    <3>1. request \in AllFlushers /\ flusher[request] \notin {"idle", "offer"}
      BY <2>2 DEF PhaseInv, TypeInv, TypeOK, BarrierInv
    <3>2. request' = NoOne /\ \A f \in AllFlushers \ {request} : reply'[f] = reply[f]
      BY <1>12, <2>2, <3>1 DEF FlushEnd, TypeInv, TypeOK
    <3>3. \A f \in AllFlushers :
              flusher'[f] \in {"idle", "offer"} => reply'[f] = NoResult /\ request' # f
      BY <2>1, <3>1, <3>2, Callers DEF BarrierInv
    <3>. QED BY <1>2, <2>1, <3>3 DEF BarrierInv
  <2>3. CASE task # "flush"
    BY <1>4, <1>12, <2>1, <2>3 DEF FlushEnd
  <2>. QED BY <2>2, <2>3
<1>. QED BY <1>5, <1>6, <1>7, <1>8, <1>9, <1>10, <1>11, <1>12

LEMMA BarrierNext ==
    TypeInv /\ DataInv /\ PhaseInv /\ BarrierInv /\ [Next]_vars => BarrierInv'
<1>1. BarrierInv /\ UNCHANGED vars => BarrierInv'
  <2>1. UNCHANGED vars => UNCHANGED <<covers, flusher, reply, request, task, asyncCh>>
                          /\ Sent' = Sent /\ Phase' = Phase
    BY DEF vars, workerVars, callerVars, Sent, Phase
  <2>. QED BY <2>1 DEF BarrierInv
<1>. QED BY <1>1, CallerBarrier, EnqueueBarrier, WorkerBarrier DEF Next

(* An outcome is final.                                                    *)
LEMMA FutureStays ==
    ASSUME TypeInv, DataInv, [Next]_vars, NEW r \in Records, future[r] # NoResult
    PROVE  future'[r] # NoResult
<1>1. CASE UNCHANGED future
  BY <1>1
<1>2. CASE Reject
  <2>1. asyncCh # <<>> /\ future' = [future EXCEPT ![Head(asyncCh)] = "error"]
    BY <1>2 DEF Reject
  <2>. QED BY <2>1 DEF TypeInv, TypeOK, NoResult
<1>3. ASSUME NEW result \in {"ok", "error"}, NEW appended \in BOOLEAN, Produced(result, appended)
      PROVE  future'[r] # NoResult
  BY <1>3 DEF Produced, NoResult
<1>4. CASE Outcome
  BY <1>3, <1>4 DEF Outcome
<1>5. ASSUME ~Reject, ~Outcome PROVE UNCHANGED future
  BY <1>5 DEF Next, vars, SendAsync, SendCanceled, Enqueue, Flush, FlushReturns, FlushCanceled,
              TakeFlush, FlushBatch, Close, CloseStop, CloseReturns, Tick, TakeStop, Add,
              Drained, FlushEnd
<1>. QED BY <1>1, <1>2, <1>4, <1>5

(* Where a record without an outcome is.                                   *)
LEMMA Unresolved ==
    ASSUME TypeInv, DataInv, NEW r \in Sent, future[r] = NoResult
    PROVE  \/ \E i \in DOMAIN asyncCh : asyncCh[i] = r
           \/ \E k \in Keys : Batch(k) # <<>>
<1>1. PICK p \in DOMAIN enqueued : enqueued[p] = r
  BY DEF DataInv, QueueInv, Sent
<1>2. CASE p \in 1..Taken
  <2>1. PICK k \in Keys : \E i \in DOMAIN Batch(k) : Batch(k)[i] = r
    BY <1>1, <1>2 DEF DataInv, FutureInv
  <2>. QED BY <2>1
<1>3. CASE p \notin 1..Taken
  <2>1. p - Taken \in DOMAIN asyncCh /\ Taken + (p - Taken) = p
    BY <1>1, <1>3, QueueFacts
  <2>2. asyncCh[p - Taken] = r
    BY <1>1, <2>1 DEF DataInv, QueueInv
  <2>. QED BY <2>1, <2>2
<1>. QED BY <1>2, <1>3

AsyncInv == TypeInv /\ DataInv /\ PhaseInv /\ BarrierInv

LEMMA Invariance == Spec => []AsyncInv
<1>1. Init => AsyncInv
  BY InitType, InitData, PhaseInit, BarrierInit DEF AsyncInv
<1>2. AsyncInv /\ [Next]_vars => AsyncInv'
  BY TypeNext, DataNext, PhaseNext, BarrierNext DEF AsyncInv
<1>. QED BY <1>1, <1>2, PTL DEF Spec

(* A Flush is answered when the batches are empty, and what it covers is   *)
(* not in the queue, so it has its outcome.                                *)
LEMMA AnswerNext == AsyncInv /\ FlushBarrier /\ [Next]_vars => FlushBarrier'
<1>. SUFFICES ASSUME AsyncInv, FlushBarrier, [Next]_vars, NEW f \in AllFlushers,
                     reply'[f] # NoResult, NEW r \in covers'[f]
              PROVE  future'[r] # NoResult
  BY DEF FlushBarrier
<1>. USE DEF AsyncInv
<1>1. r \in Records
  <2>1. TypeInv'
    BY TypeNext
  <2>. QED BY <2>1 DEF TypeInv, TypeOK
<1>2. CASE reply[f] # NoResult
  <2>1. flusher[f] \notin {"idle", "offer"}
    BY <1>2 DEF BarrierInv
  <2>2. \/ UNCHANGED covers
        \/ \E q \in Records : SendAsync(q) \/ SendCanceled(q)
        \/ \E g \in AllFlushers : Flush(g) \/ FlushReturns(g) \/ FlushCanceled(g)
        \/ Close \/ CloseStop \/ CloseReturns
    BY DEF Next, vars, Enqueue, TakeFlush, FlushBatch, Tick, TakeStop,
           Add, Reject, Drained, Outcome, Produced, FlushEnd
  <2>3. covers'[f] \subseteq covers[f]
    BY <2>1, <2>2, CallerCovers
  <2>4. future[r] # NoResult
    BY <1>2, <2>3 DEF FlushBarrier
  <2>. QED BY <1>1, <2>4, FutureStays
<1>3. CASE reply[f] = NoResult
  <2>1. reply' # reply /\ ~\E g \in AllFlushers : FlushReturns(g)
    BY <1>3 DEF FlushReturns, TypeInv, TypeOK
  <2>2. FlushEnd
    BY <2>1 DEF Next, vars, SendAsync, SendCanceled, Enqueue, Flush,
           FlushCanceled, TakeFlush, FlushBatch, Close, CloseStop, CloseReturns, Tick, TakeStop,
           Add, Reject, Drained, Outcome, Produced
  <2>3. task = "flush" /\ worker = "flush" /\ UNCHANGED <<covers, future>>
    BY <2>1, <2>2 DEF FlushEnd
  <2>4. request = f
    BY <1>3, <2>2, <2>3 DEF FlushEnd, TypeInv, TypeOK
  <2>5. \A k \in Keys : Batch(k) = <<>>
    BY <2>2 DEF FlushEnd, Batch
  <2>6. r \in Sent
    BY <2>3 DEF BarrierInv
  <2>7. \A i \in DOMAIN asyncCh : asyncCh[i] # r
    BY <2>3, <2>4 DEF BarrierInv, Phase
  <2>8. future[r] # NoResult
    BY <2>5, <2>6, <2>7, Unresolved
  <2>. QED BY <2>3, <2>8
<1>. QED BY <1>2, <1>3

(* For any callers, records and limits: when a Flush is answered, every    *)
(* record whose SendAsync had returned before it began has its outcome,    *)
(* whatever was sent, canceled or flushed meanwhile (async.go:36-125).     *)
THEOREM FlushIsBarrier == Spec => []FlushBarrier
<1>1. Init => FlushBarrier
  BY DEF Init, FlushBarrier
<1>. QED BY <1>1, Invariance, AnswerNext, PTL DEF Spec

-----------------------------------------------------------------------------
LEMMA CloseInit == Init => CloseInv
BY Callers DEF Init, CloseInv, Phase

(* The callers leave alone what Close covers once it has begun.            *)
LEMMA CallerClose ==
    ASSUME TypeInv, PhaseInv, CloseInv,
           \/ \E r \in Records : SendAsync(r) \/ SendCanceled(r)
           \/ \E f \in AllFlushers : Flush(f) \/ FlushReturns(f) \/ FlushCanceled(f)
           \/ Close \/ CloseStop \/ CloseReturns
    PROVE  CloseInv'
<1>1. /\ UNCHANGED <<task, batches>>
      /\ Phase' = Phase \/ (Phase = "none" /\ Phase' = "select")
      /\ worker' = worker \/ (worker = "none" /\ worker' = "select")
  <2>1. worker' = worker \/ (worker = "none" /\ worker' = "select")
    BY DEF SendAsync, SendCanceled, Flush, FlushReturns, FlushCanceled, Close,
           CloseStop, CloseReturns, workerVars, EnsureWorker, Offer
  <2>. QED BY <2>1, CallerPhase
<1>2. \A k : Batch(k)' = Batch(k)
  BY <1>1 DEF Batch
<1>3. UNCHANGED asyncCh
  BY DEF SendAsync, SendCanceled, Flush, FlushReturns, FlushCanceled, Close, CloseStop,
         CloseReturns
<1>4. flusher[Closer] # "idle" => covers'[Closer] = covers[Closer]
  BY CallerCovers, Callers
<1>5. flusher[Closer] # "idle" => flusher'[Closer] # "idle"
  BY Callers DEF SendAsync, SendCanceled, Flush, FlushReturns, FlushCanceled, Close, CloseStop,
                 CloseReturns, Offer, EnsureWorker, EndFlush, TypeInv, TypeOK
<1>6. stopCh' => flusher'[Closer] # "idle"
  <2>1. CASE CloseStop
    BY <2>1, Callers DEF CloseStop, TypeInv, TypeOK
  <2>2. CASE ~CloseStop
    <3>1. UNCHANGED stopCh
      BY <2>2 DEF SendAsync, SendCanceled, Flush, FlushReturns, FlushCanceled, Close,
                  CloseReturns, callerVars
    <3>. QED BY <1>5, <3>1 DEF CloseInv
  <2>. QED BY <2>1, <2>2
<1>7. stopCh => stopCh'
  BY DEF SendAsync, SendCanceled, Flush, FlushReturns, FlushCanceled, Close, CloseStop,
         CloseReturns
<1>8. task' = "stop" \/ worker' = "stopped" => stopCh /\ covers'[Closer] = covers[Closer]
  BY <1>1, <1>4 DEF CloseInv
<1>9. Phase' = "flush" /\ task' = "stop" => CoveredOut'
  BY <1>1, <1>3, <1>8 DEF CloseInv, CoveredOut
<1>10. worker' = "stopped" => CoveredOut' /\ \A k \in Keys : Batch(k)' = <<>>
  BY <1>1, <1>2, <1>3, <1>8 DEF CloseInv, CoveredOut
<1>11. flusher'[Closer] = "done" => flusher[Closer] = "done" \/ worker = "stopped"
  <2>1. CASE \E f \in AllFlushers : Flush(f)
    <3>1. PICK f \in AllFlushers \ {Closer} :
              \E label \in {"done", "offer"} : flusher' = [flusher EXCEPT ![f] = label]
      BY <2>1, CallersAssumption DEF Flush, Offer, EnsureWorker
    <3>. QED BY <3>1, Callers DEF TypeInv, TypeOK
  <2>2. CASE ~\E f \in AllFlushers : Flush(f)
    BY <2>2, Callers DEF SendAsync, SendCanceled, FlushReturns, FlushCanceled, Close, CloseStop,
                         CloseReturns, Offer, EnsureWorker, EndFlush, TypeInv, TypeOK
  <2>. QED BY <2>1, <2>2
<1>12. flusher'[Closer] = "done" => worker' = "stopped"
  BY <1>1, <1>11 DEF CloseInv
<1>. QED BY <1>6, <1>7, <1>8, <1>9, <1>10, <1>12 DEF CloseInv

(* A record that enters the queue after Close began is not covered by it.  *)
LEMMA EnqueueClose ==
    ASSUME TypeInv, BarrierInv, CloseInv, NEW r \in Records, Enqueue(r)
    PROVE  CloseInv'
<1>1. /\ sender[r] = "enqueue" /\ asyncCh' = Append(asyncCh, r)
      /\ UNCHANGED <<flusher, stopCh, worker, task, back, batches, covers>>
  BY DEF Enqueue, workerVars
<1>2. r \notin covers[Closer]
  BY <1>1, Callers DEF BarrierInv, Sent
<1>3. \A i \in DOMAIN asyncCh' :
          asyncCh'[i] = r \/ \E j \in DOMAIN asyncCh : asyncCh'[i] = asyncCh[j]
  BY <1>1 DEF TypeInv, TypeOK
<1>4. CoveredOut => CoveredOut'
  BY <1>1, <1>2, <1>3 DEF CoveredOut
<1>5. Phase' = Phase /\ \A k : Batch(k)' = Batch(k)
  BY <1>1 DEF Phase, Batch
<1>. QED BY <1>1, <1>4, <1>5 DEF CloseInv

(* The worker stops with the batches empty and nothing that Close covers   *)
(* in the queue.                                                           *)
LEMMA WorkerClose ==
    ASSUME TypeInv, PhaseInv, CloseInv,
           \/ \E f \in AllFlushers : TakeFlush(f)
           \/ \E k \in Keys : FlushBatch(k)
           \/ Tick \/ TakeStop \/ Add \/ Reject \/ Drained \/ Outcome \/ FlushEnd
    PROVE  CloseInv'
<1>1. UNCHANGED <<sender, closed, stopCh, covers>> /\ worker # "stopped"
  BY DEF TakeFlush, FlushBatch, Tick, TakeStop, Add, Reject, Drained, Outcome, Produced,
         FlushEnd, callerVars
<1>2. flusher'[Closer] = flusher[Closer]
      \/ (flusher'[Closer] = "await" /\ flusher[Closer] = "offer")
  <2>1. \/ UNCHANGED flusher
        \/ \E f \in AllFlushers :
               flusher[f] = "offer" /\ flusher' = [flusher EXCEPT ![f] = "await"]
    BY DEF TakeFlush, FlushBatch, Tick, TakeStop, Add, Reject, Drained, Outcome, Produced,
           FlushEnd, callerVars
  <2>. QED BY <2>1, Callers DEF TypeInv, TypeOK
<1>3. ASSUME task' = "stop" => stopCh,
             Phase' = "flush" /\ task' = "stop" => CoveredOut',
             worker' # "stopped"
      PROVE  CloseInv'
  BY <1>1, <1>2, <1>3 DEF CloseInv
<1>4. ASSUME NEW f \in AllFlushers, TakeFlush(f) PROVE CloseInv'
  BY <1>3, <1>4 DEF TakeFlush
<1>5. ASSUME NEW k \in Keys, FlushBatch(k) PROVE CloseInv'
  BY <1>3, <1>5 DEF FlushBatch, Phase, CloseInv, CoveredOut
<1>6. CASE Tick
  BY <1>3, <1>6 DEF Tick
<1>7. CASE TakeStop
  BY <1>3, <1>7 DEF TakeStop, Phase
<1>8. CASE Add
  <2>1. /\ worker \in {"select", "drain"} /\ UNCHANGED task
        /\ (worker' = worker \/ (worker' = "produce" /\ back' = worker))
    BY <1>8 DEF Add
  <2>. QED BY <1>3, <2>1 DEF Phase, CloseInv
<1>9. CASE Reject
  BY <1>3, <1>9 DEF Reject, workerVars, Phase, CloseInv
<1>10. CASE Drained
  <2>1. asyncCh' = <<>> /\ UNCHANGED task /\ worker' = "flush"
    BY <1>10 DEF Drained
  <2>2. CoveredOut'
    <3>1. DOMAIN asyncCh' = {}
      BY <2>1
    <3>. QED BY <3>1 DEF CoveredOut
  <2>. QED BY <1>3, <2>1, <2>2 DEF CloseInv
<1>11. CASE Outcome
  <2>1. worker = "produce" /\ worker' = back /\ UNCHANGED <<task, asyncCh>>
        /\ back \in {"select", "drain", "flush"}
    BY <1>11 DEF Outcome, Produced, TypeInv, TypeOK
  <2>. QED BY <1>1, <1>3, <2>1 DEF Phase, CloseInv, CoveredOut
<1>12. CASE FlushEnd
  <2>1. /\ task' = "tick" /\ UNCHANGED <<asyncCh, batches, flusher>> /\ Phase = "flush"
        /\ worker' = (IF task = "stop" THEN "stopped" ELSE "select")
        /\ \A k \in Keys : Batch(k) = <<>>
    BY <1>12 DEF FlushEnd, Phase, Batch, callerVars
  <2>2. \A k \in Keys : Batch(k)' = <<>>
    BY <2>1 DEF Batch
  <2>3. CoveredOut => CoveredOut'
    BY <1>1, <2>1 DEF CoveredOut
  <2>. QED BY <1>1, <2>1, <2>2, <2>3 DEF CloseInv
<1>. QED BY <1>4, <1>5, <1>6, <1>7, <1>8, <1>9, <1>10, <1>11, <1>12

LEMMA CloseNext == AsyncInv /\ CloseInv /\ [Next]_vars => CloseInv'
<1>1. CloseInv /\ UNCHANGED vars => CloseInv'
  <2>1. UNCHANGED vars =>
            /\ UNCHANGED <<flusher, stopCh, worker, task, asyncCh, batches, covers>>
            /\ Phase' = Phase
    BY DEF vars, workerVars, callerVars, Phase
  <2>. QED BY <2>1 DEF CloseInv, CoveredOut, Batch
<1>. QED BY <1>1, CallerClose, EnqueueClose, WorkerClose DEF Next, AsyncInv

(* For any callers, records and limits, and whatever else is sent or       *)
(* flushed meanwhile: once Close has returned, every record whose          *)
(* SendAsync had returned before it began has its outcome, even if Close's *)
(* own flush was canceled (producer.go:205-214).                           *)
THEOREM CoveredByClose == Spec => []CloseFlushes
<1>1. ASSUME AsyncInv, CloseInv PROVE CloseFlushes
  <2>. SUFFICES ASSUME flusher[Closer] = "done", NEW r \in covers[Closer]
                PROVE  future[r] # NoResult
    BY DEF CloseFlushes
  <2>1. CoveredOut /\ \A k \in Keys : Batch(k) = <<>>
    BY <1>1 DEF CloseInv
  <2>2. r \in Sent
    BY <1>1, Callers DEF AsyncInv, BarrierInv
  <2>3. \A i \in DOMAIN asyncCh : asyncCh[i] # r
    BY <2>1 DEF CoveredOut
  <2>. QED BY <1>1, <2>1, <2>2, <2>3, Unresolved DEF AsyncInv
<1>. QED BY <1>1, CloseNext, CloseInit, Invariance, PTL DEF Spec

=============================================================================
