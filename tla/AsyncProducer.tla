--------------------------- MODULE AsyncProducer ---------------------------
(***************************************************************************)
(* The asynchronous producer (producer/async.go, future.go and SendAsync,  *)
(* Flush and Close of producer.go): callers put records on a bounded       *)
(* channel, one worker collects them in a batch per partition and hands a  *)
(* batch to produceRecords when it is full, when the linger ticker fires,  *)
(* for a Flush or when it stops; futures carry the outcome back.           *)
(* produceRecords, which ProduceRecords models, is one step that ends well *)
(* or not.  Records stand for the callers of SendAsync that send them.     *)
(***************************************************************************)
EXTENDS Naturals, FiniteSets, SequencesExt

CONSTANTS
    Records,    \* one for each call of SendAsync
    Keys,       \* partitions
    KeyOf,      \* what selectPartition answers for each record
    BytesOf,    \* estimateRecordBytes
    BatchSize, BatchBytes, QueueSize,
    Flushers,   \* calls of Flush
    Closer,     \* the call of Close
    NoOne,      \* no flush request
    NoKey       \* no batch in produceRecords

ASSUME RecordsAssumption == /\ KeyOf \in [Records -> Keys]
                            /\ BytesOf \in [Records -> Nat]
ASSUME LimitsAssumption == {BatchSize, BatchBytes, QueueSize} \subseteq Nat \ {0}
ASSUME CallersAssumption == /\ Closer \notin Flushers
                            /\ NoKey \notin Keys
                            /\ NoOne \notin Flushers \cup {Closer}

VARIABLES
    sender,     \* where each SendAsync stands
    future,     \* what each record's future holds
    flusher,    \* where each Flush, and Close, stands
    reply,      \* the done channel of each flush request
    closed,     \* mu: markClosed
    stopCh,     \* closed by Close
    asyncCh,    \* the queue
    worker,     \* where the worker stands
    task,       \* what made it drain or flush
    back,       \* where it goes on after produceRecords
    request,    \* the flush request it serves
    batches,    \* the batch of each partition
    producing,  \* the partition whose batch is in produceRecords
    flushFailed,\* firstErr of flushBatches
    log,        \* what the broker appended, for each partition
    enqueued,   \* history: records in the order they entered the queue
    covers      \* history: records queued before each Flush began

callerVars == <<sender, flusher, closed, stopCh>>
workerVars == <<worker, task, back, request, batches, producing, flushFailed>>
vars == <<callerVars, future, reply, asyncCh, workerVars, log, enqueued, covers>>

AllFlushers == Flushers \cup {Closer}
NoResult    == "none"

TypeOK ==
    /\ sender \in [Records -> {"idle", "enqueue", "sent", "failed"}]
    /\ future \in [Records -> {NoResult, "ok", "error"}]
    /\ flusher \in [AllFlushers -> {"idle", "offer", "await", "done", "stop", "join"}]
    /\ reply \in [AllFlushers -> {NoResult, "ok", "error"}]
    /\ closed \in BOOLEAN /\ stopCh \in BOOLEAN
    /\ asyncCh \in Seq(Records) /\ Len(asyncCh) <= QueueSize
    /\ worker \in {"none", "select", "drain", "flush", "produce", "stopped"}
    /\ task \in {"tick", "flush", "stop"}
    /\ back \in {"select", "drain", "flush"}
    /\ request \in AllFlushers \cup {NoOne}
    /\ batches \in [Keys -> [records : Seq(Records), bytes : Nat]]
    /\ \A k \in Keys : Len(batches[k].records) <= BatchSize
    /\ producing \in Keys \cup {NoKey} /\ (worker = "produce" => producing # NoKey)
    /\ flushFailed \in BOOLEAN
    /\ log \in [Keys -> Seq(Records)]
    /\ enqueued \in Seq(Records)
    /\ covers \in [AllFlushers -> SUBSET Records]

EmptyBatch == [records |-> <<>>, bytes |-> 0]

Init ==
    /\ sender = [r \in Records |-> "idle"]
    /\ future = [r \in Records |-> NoResult]
    /\ flusher = [f \in AllFlushers |-> "idle"]
    /\ reply = [f \in AllFlushers |-> NoResult]
    /\ closed = FALSE
    /\ stopCh = FALSE
    /\ asyncCh = <<>>
    /\ worker = "none"
    /\ task = "tick"
    /\ back = "select"
    /\ request = NoOne
    /\ batches = [k \in Keys |-> EmptyBatch]
    /\ producing = NoKey
    /\ flushFailed = FALSE
    /\ log = [k \in Keys |-> <<>>]
    /\ enqueued = <<>>
    /\ covers = [f \in AllFlushers |-> {}]

-----------------------------------------------------------------------------
(* Variants a bug could leave in the code.                                 *)
QueueFreeOffByOne   == Len(asyncCh) <= QueueSize
BatchedInFront(b, r) == [records |-> <<r>> \o b.records, bytes |-> b.bytes + BytesOf[r]]
CollectedKept(k)    == batches

TakeFlushUndrained(f) ==
    /\ worker = "select"
    /\ flusher[f] = "offer"
    /\ flusher' = [flusher EXCEPT ![f] = "await"]
    /\ worker' = "flush" /\ task' = "flush" /\ request' = f
    /\ UNCHANGED <<sender, closed, stopCh, future, reply, asyncCh, back, batches, producing,
                   flushFailed, log, enqueued, covers>>

TakeStopUndrained ==
    /\ worker = "select"
    /\ stopCh
    /\ worker' = "flush" /\ task' = "stop"
    /\ UNCHANGED <<callerVars, future, reply, asyncCh, back, request, batches, producing,
                   flushFailed, log, enqueued, covers>>

RejectSilently ==
    /\ worker \in {"select", "drain"}
    /\ asyncCh # <<>>
    /\ asyncCh' = Tail(asyncCh)
    /\ UNCHANGED <<callerVars, future, reply, workerVars, log, enqueued, covers>>

-----------------------------------------------------------------------------
QueueFree      == Len(asyncCh) < QueueSize
Batched(b, r)  == [records |-> Append(b.records, r), bytes |-> b.bytes + BytesOf[r]]
Full(b)        == Len(b.records) >= BatchSize \/ b.bytes >= BatchBytes
Collected(k)   == [batches EXCEPT ![k] = EmptyBatch]
EnsureWorker   == worker' = IF worker = "none" THEN "select" ELSE worker

(* SendAsync.                                                              *)

SendAsync(r) ==
    /\ sender[r] = "idle"
    /\ IF closed
       THEN sender' = [sender EXCEPT ![r] = "failed"] /\ UNCHANGED worker
       ELSE sender' = [sender EXCEPT ![r] = "enqueue"] /\ EnsureWorker
    /\ UNCHANGED <<future, flusher, reply, closed, stopCh, asyncCh, task, back, request, batches,
                   producing, flushFailed, log, enqueued, covers>>

(* The check of closed is not repeated here.                               *)
Enqueue(r) ==
    /\ sender[r] = "enqueue"
    /\ QueueFree
    /\ asyncCh' = Append(asyncCh, r)
    /\ enqueued' = Append(enqueued, r)
    /\ sender' = [sender EXCEPT ![r] = "sent"]
    /\ UNCHANGED <<future, flusher, reply, closed, stopCh, workerVars, log, covers>>

SendCanceled(r) ==
    /\ sender[r] = "enqueue"
    /\ sender' = [sender EXCEPT ![r] = "failed"]
    /\ UNCHANGED <<future, flusher, reply, closed, stopCh, asyncCh, workerVars, log, enqueued, covers>>

-----------------------------------------------------------------------------
(* Flush and Close.                                                        *)

Sent == {r \in Records : sender[r] = "sent"}

Offer(f) == /\ EnsureWorker
            /\ flusher' = [flusher EXCEPT ![f] = "offer"]
            /\ covers' = [covers EXCEPT ![f] = Sent]

Flush(f) ==
    /\ f \in Flushers
    /\ flusher[f] = "idle"
    /\ IF closed
       THEN flusher' = [flusher EXCEPT ![f] = "done"] /\ UNCHANGED <<worker, covers>>
       ELSE Offer(f)
    /\ UNCHANGED <<sender, future, reply, closed, stopCh, asyncCh, task, back, request, batches,
                   producing, flushFailed, log, enqueued>>

Close ==
    /\ flusher[Closer] = "idle"
    /\ closed' = TRUE
    /\ Offer(Closer)
    /\ UNCHANGED <<sender, future, reply, stopCh, asyncCh, task, back, request, batches,
                   producing, flushFailed, log, enqueued>>

(* Close goes on to stop the worker whatever its own flush returned.       *)
EndFlush(f) == /\ flusher' = [flusher EXCEPT ![f] = IF f = Closer THEN "stop" ELSE "done"]
               /\ covers' = IF f = Closer THEN covers ELSE [covers EXCEPT ![f] = {}]

FlushReturns(f) ==
    /\ flusher[f] = "await"
    /\ reply[f] # NoResult
    /\ EndFlush(f)
    /\ reply' = [reply EXCEPT ![f] = NoResult]
    /\ UNCHANGED <<sender, closed, stopCh, future, asyncCh, workerVars, log, enqueued>>

FlushCanceled(f) ==
    /\ flusher[f] \in {"offer", "await"}
    /\ EndFlush(f)
    /\ UNCHANGED <<sender, closed, stopCh, future, reply, asyncCh, workerVars, log, enqueued>>

CloseStop ==
    /\ flusher[Closer] = "stop"
    /\ stopCh' = TRUE
    /\ flusher' = [flusher EXCEPT ![Closer] = "join"]
    /\ UNCHANGED <<sender, closed, future, reply, asyncCh, workerVars, log, enqueued, covers>>

CloseReturns ==
    /\ flusher[Closer] = "join"
    /\ worker = "stopped"
    /\ flusher' = [flusher EXCEPT ![Closer] = "done"]
    /\ UNCHANGED <<sender, closed, stopCh, future, reply, asyncCh, workerVars, log, enqueued, covers>>

-----------------------------------------------------------------------------
(* The worker: the branches of its select first.                           *)

TakeFlush(f) ==
    /\ worker = "select"
    /\ flusher[f] = "offer"
    /\ flusher' = [flusher EXCEPT ![f] = "await"]
    /\ worker' = "drain" /\ task' = "flush" /\ request' = f
    /\ UNCHANGED <<sender, closed, stopCh, future, reply, asyncCh, back, batches, producing,
                   flushFailed, log, enqueued, covers>>

Tick ==
    /\ worker = "select"
    /\ worker' = "flush" /\ task' = "tick"
    /\ UNCHANGED <<callerVars, future, reply, asyncCh, back, request, batches, producing,
                   flushFailed, log, enqueued, covers>>

TakeStop ==
    /\ worker = "select"
    /\ stopCh
    /\ worker' = "drain" /\ task' = "stop"
    /\ UNCHANGED <<callerVars, future, reply, asyncCh, back, request, batches, producing,
                   flushFailed, log, enqueued, covers>>

(* addAsyncRecord, from the select or while draining: into the batch of    *)
(* its partition, which is sent at once when it is full.                   *)
Add ==
    /\ worker \in {"select", "drain"}
    /\ asyncCh # <<>>
    /\ asyncCh' = Tail(asyncCh)
    /\ LET r == Head(asyncCh)
           k == KeyOf[r]
           b == Batched(batches[k], r)
       IN  /\ batches' = [batches EXCEPT ![k] = b]
           /\ IF Full(b)
              THEN worker' = "produce" /\ back' = worker /\ producing' = k
              ELSE UNCHANGED <<worker, back, producing>>
    /\ UNCHANGED <<callerVars, future, reply, task, request, flushFailed, log, enqueued, covers>>

(* The record's context is over, or no partition is found for it.          *)
Reject ==
    /\ worker \in {"select", "drain"}
    /\ asyncCh # <<>>
    /\ future[Head(asyncCh)] = NoResult
    /\ future' = [future EXCEPT ![Head(asyncCh)] = "error"]
    /\ asyncCh' = Tail(asyncCh)
    /\ UNCHANGED <<callerVars, reply, workerVars, log, enqueued, covers>>

Drained ==
    /\ worker = "drain"
    /\ asyncCh = <<>>
    /\ worker' = "flush"
    /\ UNCHANGED <<callerVars, future, reply, asyncCh, task, back, request, batches, producing,
                   flushFailed, log, enqueued, covers>>

(* flushBatches takes the batches in no particular order.                  *)
FlushBatch(k) ==
    /\ worker = "flush"
    /\ batches[k].records # <<>>
    /\ worker' = "produce" /\ back' = "flush" /\ producing' = k
    /\ UNCHANGED <<callerVars, future, reply, asyncCh, task, request, batches, flushFailed, log,
                   enqueued, covers>>

(* produceRecords returns: acknowledged, or failed with the batch in the   *)
(* log or not.  A future holds one result: a second one would block.       *)
Produced(result, appended) ==
    /\ worker = "produce"
    /\ LET rs == batches[producing].records
       IN  /\ \A r \in ToSet(rs) : future[r] = NoResult
           /\ future' = [r \in Records |-> IF r \in ToSet(rs) THEN result ELSE future[r]]
           /\ log' = IF appended THEN [log EXCEPT ![producing] = @ \o rs] ELSE log
    /\ batches' = Collected(producing)
    /\ worker' = back
    /\ flushFailed' = (flushFailed \/ (back = "flush" /\ result = "error"))
    /\ back' = "select" /\ producing' = NoKey
    /\ UNCHANGED <<callerVars, reply, asyncCh, task, request, enqueued, covers>>

FlushEnd ==
    /\ worker = "flush"
    /\ \A k \in Keys : batches[k].records = <<>>
    /\ flushFailed' = FALSE
    /\ worker' = IF task = "stop" THEN "stopped" ELSE "select"
    /\ IF task = "flush"
       THEN /\ reply' = [reply EXCEPT ![request] = IF flushFailed THEN "error" ELSE "ok"]
            /\ request' = NoOne
       ELSE UNCHANGED <<reply, request>>
    /\ task' = "tick"
    /\ UNCHANGED <<callerVars, future, asyncCh, back, batches, producing, log, enqueued, covers>>

-----------------------------------------------------------------------------
Outcome == Produced("ok", TRUE) \/ \E appended \in BOOLEAN : Produced("error", appended)

Next == \/ \E r \in Records : SendAsync(r) \/ Enqueue(r) \/ SendCanceled(r)
        \/ \E f \in AllFlushers : Flush(f) \/ FlushReturns(f) \/ FlushCanceled(f) \/ TakeFlush(f)
        \/ Close \/ CloseStop \/ CloseReturns
        \/ Tick \/ TakeStop \/ Add \/ Reject \/ Drained
        \/ (\E k \in Keys : FlushBatch(k)) \/ Outcome \/ FlushEnd

Spec == Init /\ [][Next]_vars

(* What goes on once it can: callers that wait, and the worker, as long as *)
(* the requests of produceRecords return (StuckOnlyInRequests of           *)
(* ProduceRecords).  The select picks among its ready channels at random, so the ticker, which   *)
(* is ready again and again, does not keep the others out for ever: strong *)
(* fairness.  Nobody has to call anything and no context has to end.       *)
Waiting  == (\E r \in Records : Enqueue(r)) \/ (\E f \in AllFlushers : FlushReturns(f))
            \/ CloseStop \/ CloseReturns
Working  == Tick \/ Drained \/ (\E k \in Keys : FlushBatch(k)) \/ Outcome \/ FlushEnd
Selected == Add \/ Reject \/ TakeStop \/ (\E f \in AllFlushers : TakeFlush(f))

FairSpec == Spec /\ WF_vars(Waiting) /\ WF_vars(Working) /\ SF_vars(Selected)

-----------------------------------------------------------------------------
(* A record that SendAsync took is in one place until its future is        *)
(* complete, and in none after: it is not lost between the queue, the      *)
(* batches and produceRecords, not sent again by a later flush, and no     *)
(* future is completed twice, which would block the worker for good.       *)
Places(r) == Cardinality({i \in DOMAIN asyncCh : asyncCh[i] = r})
             + Cardinality({at \in Keys \X (1..BatchSize) :
                               LET b == batches[at[1]].records
                               IN  at[2] <= Len(b) /\ b[at[2]] = r})
RecordsAccounted ==
    \A r \in Records : Places(r) = IF r \in Sent /\ future[r] = NoResult THEN 1 ELSE 0

(* The records of a partition are appended in the order in which they      *)
(* entered the queue, through batches, flushes and failures.               *)
Position(r) == CHOOSE i \in DOMAIN enqueued : enqueued[i] = r
KeyOrder == \A k \in Keys : \A i, j \in DOMAIN log[k] :
               i < j => Position(log[k][i]) < Position(log[k][j])

(* Flush is a barrier: when it is answered, the future of every record     *)
(* whose SendAsync had returned before it began is complete.               *)
FlushBarrier == \A f \in AllFlushers : reply[f] # NoResult =>
                   \A r \in covers[f] : future[r] # NoResult

(* Once Close has returned, every record whose SendAsync had returned      *)
(* before it began has its outcome, whether Close's own flush was canceled *)
(* or not, and whatever other callers send or flush meanwhile.             *)
CloseFlushes == flusher[Closer] = "done" =>
                   \A r \in covers[Closer] : future[r] # NoResult

(* Every record that was taken gets an outcome, every SendAsync and Flush  *)
(* gets an answer and Close returns: each is called once, so that in the   *)
(* end nothing is left under way.  The exceptions are the calls that read  *)
(* closed before Close set it and came to the worker after its last look   *)
(* at its channels: the record stays in the queue and its future open for  *)
(* ever, the Flush, or the SendAsync before a full queue, waits until its  *)
(* context ends.                                                           *)
TooLate(r) == worker = "stopped" /\ r \notin covers[Closer]
Settled ==
    /\ \A r \in Records :
         /\ sender[r] = "sent" => \/ future[r] # NoResult
                                  \/ TooLate(r) /\ r \in ToSet(asyncCh)
         /\ sender[r] = "enqueue" => TooLate(r) /\ ~QueueFree
    /\ \A f \in Flushers : /\ flusher[f] # "await"
                            /\ flusher[f] = "offer" => worker = "stopped"
    /\ flusher[Closer] \in {"idle", "done"}
EverythingEnds == <>[]Settled
=============================================================================
