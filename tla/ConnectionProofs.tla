-------------------------- MODULE ConnectionProofs --------------------------
(***************************************************************************)
(* Proofs about Connection, for any number of calls.  The safety           *)
(* properties are not inductive; IInv adds to them what each step leaves   *)
(* for the next: where an id may be registered, whose answer the reader    *)
(* holds, and what a call that has not been sent yet cannot have.          *)
(***************************************************************************)
EXTENDS Connection, TLAPS

(* An entry of the pending map sits under the id of its call.              *)
OwnIds == \A i \in Ids : pending[i] # None => IdOf[pending[i]] = i

(* What a channel or a call holds is an error or the call's own answer.    *)
OwnAnswers == /\ \A c \in Calls : ch[c] \in {None, Error, c}
              /\ \A c \in Calls : result[c] \in {None, Error, c}
              /\ reader = "deliver" => taken = frame

(* A call that has not begun has left no trace.                            *)
IdleInv == \A c \in Calls : pc[c] = "idle" => /\ ch[c] = None
                                              /\ pending[IdOf[c]] # c

ReturnInv == \A c \in Calls : result[c] = None <=> pc[c] # "done"

(* What the reader and the channels hold comes from the peer, which gets a *)
(* request only when its call has written it.                              *)
PeerInv == /\ \A c \in Calls : pc[c] \in {"idle", "write", "writing"} => c \notin received
           /\ reader \in {"take", "deliver"} => frame \in answered
           /\ \A i \in 1..Len(inbound) : inbound[i] \in answered
           /\ \A c \in Calls : ch[c] = c => c \in answered

EmptyInv == /\ \A c \in Calls : pending[IdOf[c]] = c => ch[c] = None
            /\ reader = "deliver" => ch[taken] = None /\ pending[IdOf[taken]] # taken

ClosedInv == /\ closing = "done" => \A i \in Ids : pending[i] = None
             /\ ~IsClosed => \A c \in Calls : pending[IdOf[c]] = c => pc[c] \in InSend

IInv == /\ TypeOK /\ OwnIds /\ OwnAnswers /\ IdleInv /\ ReturnInv /\ PeerInv
        /\ EmptyInv /\ ClosedInv

-----------------------------------------------------------------------------
(* Under its own id is the only place a call can be registered.            *)
LEMMA RegisteredUnderOwnId ==
    ASSUME TypeOK, OwnIds
    PROVE  \A c \in Calls : c \in Registered <=> pending[IdOf[c]] = c
BY ValuesAssumption, IdsAssumption DEF TypeOK, OwnIds, Registered

(* failPending leaves an empty map and touches the registered channels.    *)
LEMMA FailPendingEffect ==
    ASSUME IInv, FailPending
    PROVE  /\ pending' = [i \in Ids |-> None]
           /\ ch' \in [Calls -> Results]
           /\ \A c \in Calls : ch'[c] = ch[c] \/ (ch'[c] = Error /\ pending[IdOf[c]] = c)
<1>1. \A c \in Calls : c \in Registered <=> pending[IdOf[c]] = c
  BY RegisteredUnderOwnId DEF IInv
<1>2. ch' = [c \in Calls |-> IF c \in Registered THEN Error ELSE ch[c]]
  BY DEF FailPending
<1>3. ch \in [Calls -> Results] /\ Error \in Results
  BY DEF IInv, TypeOK, Results
<1>. QED BY <1>1, <1>2, <1>3 DEF FailPending

LEMMA InitIInv == Init => IInv
<1>. SUFFICES ASSUME Init PROVE IInv
  OBVIOUS
<1>1. TypeOK
  BY DEF Init, TypeOK, Results, InSend
<1>2. OwnIds /\ OwnAnswers /\ IdleInv /\ ReturnInv
  BY ValuesAssumption, IdsAssumption DEF Init, OwnIds, OwnAnswers, IdleInv, ReturnInv
<1>3. PeerInv /\ EmptyInv /\ ClosedInv
  BY ValuesAssumption, IdsAssumption DEF Init, PeerInv, EmptyInv, ClosedInv, IsClosed
<1>. QED BY <1>1, <1>2, <1>3 DEF IInv

(* Every action keeps the types; what the reader holds is a call's answer. *)
LEMMA TypeOKStep == IInv /\ [Next]_vars => TypeOK'
<1>. SUFFICES ASSUME IInv, [Next]_vars PROVE TypeOK'
  OBVIOUS
<1>. USE ValuesAssumption, IdsAssumption DEF IInv, TypeOK, PeerInv, Results, InSend, vars, callVars, readerVars, peerVars, GoTo, Return, Refused, Removed, Waiter
<1>1. ASSUME NEW c \in Calls, Send(c) \/ Answer(c) PROVE TypeOK'
  <2>1. CASE Register(c)
    BY <2>1 DEF Register
  <2>2. CASE EncodeFails(c)
    BY <2>2 DEF EncodeFails
  <2>3. CASE LockWrite(c)
    BY <2>3 DEF LockWrite
  <2>4. CASE Write(c)
    BY <2>4 DEF Write
  <2>5. CASE WriteFails(c)
    BY <2>5 DEF WriteFails
  <2>6. CASE Receive(c)
    BY <2>6 DEF Receive
  <2>7. CASE Cancel(c)
    BY <2>7 DEF Cancel
  <2>8. CASE SeeClosed(c)
    BY <2>8 DEF SeeClosed
  <2>9. CASE Unregister(c)
    BY <2>9 DEF Unregister
  <2>10. CASE Answer(c)
    BY <2>10 DEF Answer
  <2>. QED BY <1>1, <2>1, <2>2, <2>3, <2>4, <2>5, <2>6, <2>7, <2>8, <2>9, <2>10 DEF Send
<1>2. CASE CloseCalled
  BY <1>2 DEF CloseCalled
<1>3. CASE CloseConn
  BY <1>3 DEF CloseConn
<1>4. CASE CloseFailPending
  BY <1>4, FailPendingEffect DEF CloseFailPending
<1>5. CASE ReadFrame
  BY <1>5 DEF ReadFrame
<1>6. CASE ReadFails
  BY <1>6 DEF ReadFails
<1>7. CASE Take
  BY <1>7 DEF Take
<1>8. CASE Deliver
  BY <1>8 DEF Deliver
<1>9. CASE ReaderCloses
  BY <1>9 DEF ReaderCloses
<1>10. CASE ReaderClosed
  BY <1>10 DEF ReaderClosed
<1>11. CASE ReaderFailsPending
  BY <1>11, FailPendingEffect DEF ReaderFailsPending
<1>12. CASE UNCHANGED vars
  BY <1>12
<1>. QED BY <1>1, <1>2, <1>3, <1>4, <1>5, <1>6, <1>7, <1>8, <1>9, <1>10, <1>11, <1>12 DEF Next, Close, ReadLoop

(* Entries are made under the id of their call and only ever removed.      *)
LEMMA OwnIdsStep == IInv /\ [Next]_vars => OwnIds'
<1>. SUFFICES ASSUME IInv, [Next]_vars PROVE OwnIds'
  OBVIOUS
<1>. USE ValuesAssumption, IdsAssumption DEF IInv, TypeOK, OwnIds, vars, callVars, readerVars, peerVars, GoTo, Return, Refused, Removed, Waiter
<1>1. ASSUME NEW c \in Calls, Send(c) \/ Answer(c) PROVE OwnIds'
  <2>1. CASE Register(c)
    BY <2>1 DEF Register
  <2>2. CASE EncodeFails(c)
    BY <2>2 DEF EncodeFails
  <2>3. CASE LockWrite(c)
    BY <2>3 DEF LockWrite
  <2>4. CASE Write(c)
    BY <2>4 DEF Write
  <2>5. CASE WriteFails(c)
    BY <2>5 DEF WriteFails
  <2>6. CASE Receive(c)
    BY <2>6 DEF Receive
  <2>7. CASE Cancel(c)
    BY <2>7 DEF Cancel
  <2>8. CASE SeeClosed(c)
    BY <2>8 DEF SeeClosed
  <2>9. CASE Unregister(c)
    BY <2>9 DEF Unregister
  <2>10. CASE Answer(c)
    BY <2>10 DEF Answer
  <2>. QED BY <1>1, <2>1, <2>2, <2>3, <2>4, <2>5, <2>6, <2>7, <2>8, <2>9, <2>10 DEF Send
<1>2. CASE CloseCalled
  BY <1>2 DEF CloseCalled
<1>3. CASE CloseConn
  BY <1>3 DEF CloseConn
<1>4. CASE CloseFailPending
  BY <1>4, FailPendingEffect DEF CloseFailPending
<1>5. CASE ReadFrame
  BY <1>5 DEF ReadFrame
<1>6. CASE ReadFails
  BY <1>6 DEF ReadFails
<1>7. CASE Take
  BY <1>7 DEF Take
<1>8. CASE Deliver
  BY <1>8 DEF Deliver
<1>9. CASE ReaderCloses
  BY <1>9 DEF ReaderCloses
<1>10. CASE ReaderClosed
  BY <1>10 DEF ReaderClosed
<1>11. CASE ReaderFailsPending
  BY <1>11, FailPendingEffect DEF ReaderFailsPending
<1>12. CASE UNCHANGED vars
  BY <1>12
<1>. QED BY <1>1, <1>2, <1>3, <1>4, <1>5, <1>6, <1>7, <1>8, <1>9, <1>10, <1>11, <1>12 DEF Next, Close, ReadLoop

(* The reader takes the entry of the frame it holds, so delivers to its call.*)
LEMMA OwnAnswersStep == IInv /\ [Next]_vars => OwnAnswers'
<1>. SUFFICES ASSUME IInv, [Next]_vars PROVE OwnAnswers'
  OBVIOUS
<1>. USE ValuesAssumption, IdsAssumption DEF IInv, TypeOK, OwnIds, OwnAnswers, PeerInv, vars, callVars, readerVars, peerVars, GoTo, Return, Refused, Removed, Waiter
<1>1. ASSUME NEW c \in Calls, Send(c) \/ Answer(c) PROVE OwnAnswers'
  <2>1. CASE Register(c)
    BY <2>1 DEF Register
  <2>2. CASE EncodeFails(c)
    BY <2>2 DEF EncodeFails
  <2>3. CASE LockWrite(c)
    BY <2>3 DEF LockWrite
  <2>4. CASE Write(c)
    BY <2>4 DEF Write
  <2>5. CASE WriteFails(c)
    BY <2>5 DEF WriteFails
  <2>6. CASE Receive(c)
    BY <2>6 DEF Receive
  <2>7. CASE Cancel(c)
    BY <2>7 DEF Cancel
  <2>8. CASE SeeClosed(c)
    BY <2>8 DEF SeeClosed
  <2>9. CASE Unregister(c)
    BY <2>9 DEF Unregister
  <2>10. CASE Answer(c)
    BY <2>10 DEF Answer
  <2>. QED BY <1>1, <2>1, <2>2, <2>3, <2>4, <2>5, <2>6, <2>7, <2>8, <2>9, <2>10 DEF Send
<1>2. CASE CloseCalled
  BY <1>2 DEF CloseCalled
<1>3. CASE CloseConn
  BY <1>3 DEF CloseConn
<1>4. CASE CloseFailPending
  BY <1>4, FailPendingEffect DEF CloseFailPending
<1>5. CASE ReadFrame
  BY <1>5 DEF ReadFrame
<1>6. CASE ReadFails
  BY <1>6 DEF ReadFails
<1>7. CASE Take
  BY <1>7 DEF Take
<1>8. CASE Deliver
  BY <1>8 DEF Deliver
<1>9. CASE ReaderCloses
  BY <1>9 DEF ReaderCloses
<1>10. CASE ReaderClosed
  BY <1>10 DEF ReaderClosed
<1>11. CASE ReaderFailsPending
  BY <1>11, FailPendingEffect DEF ReaderFailsPending
<1>12. CASE UNCHANGED vars
  BY <1>12
<1>. QED BY <1>1, <1>2, <1>3, <1>4, <1>5, <1>6, <1>7, <1>8, <1>9, <1>10, <1>11, <1>12 DEF Next, Close, ReadLoop

(* Only Register makes entries, and only entries are sent answers.         *)
LEMMA IdleInvStep == IInv /\ [Next]_vars => IdleInv'
<1>. SUFFICES ASSUME IInv, [Next]_vars PROVE IdleInv'
  OBVIOUS
<1>. USE ValuesAssumption, IdsAssumption DEF IInv, TypeOK, OwnIds, IdleInv, PeerInv, OwnAnswers, vars, callVars, readerVars, peerVars, GoTo, Return, Refused, Removed, Waiter
<1>1. ASSUME NEW c \in Calls, Send(c) \/ Answer(c) PROVE IdleInv'
  <2>1. CASE Register(c)
    BY <2>1 DEF Register
  <2>2. CASE EncodeFails(c)
    BY <2>2 DEF EncodeFails
  <2>3. CASE LockWrite(c)
    BY <2>3 DEF LockWrite
  <2>4. CASE Write(c)
    BY <2>4 DEF Write
  <2>5. CASE WriteFails(c)
    BY <2>5 DEF WriteFails
  <2>6. CASE Receive(c)
    BY <2>6 DEF Receive
  <2>7. CASE Cancel(c)
    BY <2>7 DEF Cancel
  <2>8. CASE SeeClosed(c)
    BY <2>8 DEF SeeClosed
  <2>9. CASE Unregister(c)
    BY <2>9 DEF Unregister
  <2>10. CASE Answer(c)
    BY <2>10 DEF Answer
  <2>. QED BY <1>1, <2>1, <2>2, <2>3, <2>4, <2>5, <2>6, <2>7, <2>8, <2>9, <2>10 DEF Send
<1>2. CASE CloseCalled
  BY <1>2 DEF CloseCalled
<1>3. CASE CloseConn
  BY <1>3 DEF CloseConn
<1>4. CASE CloseFailPending
  BY <1>4, FailPendingEffect DEF CloseFailPending
<1>5. CASE ReadFrame
  BY <1>5 DEF ReadFrame
<1>6. CASE ReadFails
  BY <1>6 DEF ReadFails
<1>7. CASE Take
  BY <1>7 DEF Take
<1>8. CASE Deliver
  BY <1>8 DEF Deliver
<1>9. CASE ReaderCloses
  BY <1>9 DEF ReaderCloses
<1>10. CASE ReaderClosed
  BY <1>10 DEF ReaderClosed
<1>11. CASE ReaderFailsPending
  BY <1>11, FailPendingEffect DEF ReaderFailsPending
<1>12. CASE UNCHANGED vars
  BY <1>12
<1>. QED BY <1>1, <1>2, <1>3, <1>4, <1>5, <1>6, <1>7, <1>8, <1>9, <1>10, <1>11, <1>12 DEF Next, Close, ReadLoop

(* A call has a result once it has returned, and not before.               *)
LEMMA ReturnInvStep == IInv /\ [Next]_vars => ReturnInv'
<1>. SUFFICES ASSUME IInv, [Next]_vars PROVE ReturnInv'
  OBVIOUS
<1>. USE ValuesAssumption, IdsAssumption DEF IInv, TypeOK, OwnAnswers, ReturnInv, InSend, vars, callVars, readerVars, peerVars, GoTo, Return, Refused, Removed, Waiter
<1>1. ASSUME NEW c \in Calls, Send(c) \/ Answer(c) PROVE ReturnInv'
  <2>1. CASE Register(c)
    BY <2>1 DEF Register
  <2>2. CASE EncodeFails(c)
    BY <2>2 DEF EncodeFails
  <2>3. CASE LockWrite(c)
    BY <2>3 DEF LockWrite
  <2>4. CASE Write(c)
    BY <2>4 DEF Write
  <2>5. CASE WriteFails(c)
    BY <2>5 DEF WriteFails
  <2>6. CASE Receive(c)
    BY <2>6 DEF Receive
  <2>7. CASE Cancel(c)
    BY <2>7 DEF Cancel
  <2>8. CASE SeeClosed(c)
    BY <2>8 DEF SeeClosed
  <2>9. CASE Unregister(c)
    BY <2>9 DEF Unregister
  <2>10. CASE Answer(c)
    BY <2>10 DEF Answer
  <2>. QED BY <1>1, <2>1, <2>2, <2>3, <2>4, <2>5, <2>6, <2>7, <2>8, <2>9, <2>10 DEF Send
<1>2. CASE CloseCalled
  BY <1>2 DEF CloseCalled
<1>3. CASE CloseConn
  BY <1>3 DEF CloseConn
<1>4. CASE CloseFailPending
  BY <1>4, FailPendingEffect DEF CloseFailPending
<1>5. CASE ReadFrame
  BY <1>5 DEF ReadFrame
<1>6. CASE ReadFails
  BY <1>6 DEF ReadFails
<1>7. CASE Take
  BY <1>7 DEF Take
<1>8. CASE Deliver
  BY <1>8 DEF Deliver
<1>9. CASE ReaderCloses
  BY <1>9 DEF ReaderCloses
<1>10. CASE ReaderClosed
  BY <1>10 DEF ReaderClosed
<1>11. CASE ReaderFailsPending
  BY <1>11, FailPendingEffect DEF ReaderFailsPending
<1>12. CASE UNCHANGED vars
  BY <1>12
<1>. QED BY <1>1, <1>2, <1>3, <1>4, <1>5, <1>6, <1>7, <1>8, <1>9, <1>10, <1>11, <1>12 DEF Next, Close, ReadLoop

(* Answers travel from the peer to the caller without coming into being.   *)
LEMMA PeerInvStep == IInv /\ [Next]_vars => PeerInv'
<1>. SUFFICES ASSUME IInv, [Next]_vars PROVE PeerInv'
  OBVIOUS
<1>. USE ValuesAssumption, IdsAssumption DEF IInv, TypeOK, PeerInv, OwnAnswers, vars, callVars, readerVars, peerVars, GoTo, Return, Refused, Removed, Waiter
<1>1. ASSUME NEW c \in Calls, Send(c) \/ Answer(c) PROVE PeerInv'
  <2>1. CASE Register(c)
    BY <2>1 DEF Register
  <2>2. CASE EncodeFails(c)
    BY <2>2 DEF EncodeFails
  <2>3. CASE LockWrite(c)
    BY <2>3 DEF LockWrite
  <2>4. CASE Write(c)
    BY <2>4 DEF Write
  <2>5. CASE WriteFails(c)
    BY <2>5 DEF WriteFails
  <2>6. CASE Receive(c)
    BY <2>6 DEF Receive
  <2>7. CASE Cancel(c)
    BY <2>7 DEF Cancel
  <2>8. CASE SeeClosed(c)
    BY <2>8 DEF SeeClosed
  <2>9. CASE Unregister(c)
    BY <2>9 DEF Unregister
  <2>10. CASE Answer(c)
    BY <2>10 DEF Answer
  <2>. QED BY <1>1, <2>1, <2>2, <2>3, <2>4, <2>5, <2>6, <2>7, <2>8, <2>9, <2>10 DEF Send
<1>2. CASE CloseCalled
  BY <1>2 DEF CloseCalled
<1>3. CASE CloseConn
  BY <1>3 DEF CloseConn
<1>4. CASE CloseFailPending
  BY <1>4, FailPendingEffect DEF CloseFailPending
<1>5. CASE ReadFrame
  BY <1>5 DEF ReadFrame
<1>6. CASE ReadFails
  BY <1>6 DEF ReadFails
<1>7. CASE Take
  BY <1>7 DEF Take
<1>8. CASE Deliver
  BY <1>8 DEF Deliver
<1>9. CASE ReaderCloses
  BY <1>9 DEF ReaderCloses
<1>10. CASE ReaderClosed
  BY <1>10 DEF ReaderClosed
<1>11. CASE ReaderFailsPending
  BY <1>11, FailPendingEffect DEF ReaderFailsPending
<1>12. CASE UNCHANGED vars
  BY <1>12
<1>. QED BY <1>1, <1>2, <1>3, <1>4, <1>5, <1>6, <1>7, <1>8, <1>9, <1>10, <1>11, <1>12 DEF Next, Close, ReadLoop

(* An entry is removed before anything is sent on its channel.             *)
LEMMA EmptyInvStep == IInv /\ [Next]_vars => EmptyInv'
<1>. SUFFICES ASSUME IInv, [Next]_vars PROVE EmptyInv'
  OBVIOUS
<1>. USE ValuesAssumption, IdsAssumption DEF IInv, TypeOK, OwnIds, EmptyInv, IdleInv, PeerInv, OwnAnswers, vars, callVars, readerVars, peerVars, GoTo, Return, Refused, Removed, Waiter
<1>1. ASSUME NEW c \in Calls, Send(c) \/ Answer(c) PROVE EmptyInv'
  <2>1. CASE Register(c)
    BY <2>1 DEF Register
  <2>2. CASE EncodeFails(c)
    BY <2>2 DEF EncodeFails
  <2>3. CASE LockWrite(c)
    BY <2>3 DEF LockWrite
  <2>4. CASE Write(c)
    BY <2>4 DEF Write
  <2>5. CASE WriteFails(c)
    BY <2>5 DEF WriteFails
  <2>6. CASE Receive(c)
    BY <2>6 DEF Receive
  <2>7. CASE Cancel(c)
    BY <2>7 DEF Cancel
  <2>8. CASE SeeClosed(c)
    BY <2>8 DEF SeeClosed
  <2>9. CASE Unregister(c)
    BY <2>9 DEF Unregister
  <2>10. CASE Answer(c)
    BY <2>10 DEF Answer
  <2>. QED BY <1>1, <2>1, <2>2, <2>3, <2>4, <2>5, <2>6, <2>7, <2>8, <2>9, <2>10 DEF Send
<1>2. CASE CloseCalled
  BY <1>2 DEF CloseCalled
<1>3. CASE CloseConn
  BY <1>3 DEF CloseConn
<1>4. CASE CloseFailPending
  BY <1>4, FailPendingEffect DEF CloseFailPending
<1>5. CASE ReadFrame
  BY <1>5 DEF ReadFrame
<1>6. CASE ReadFails
  BY <1>6 DEF ReadFails
<1>7. CASE Take
  BY <1>7 DEF Take
<1>8. CASE Deliver
  BY <1>8 DEF Deliver
<1>9. CASE ReaderCloses
  BY <1>9 DEF ReaderCloses
<1>10. CASE ReaderClosed
  BY <1>10 DEF ReaderClosed
<1>11. CASE ReaderFailsPending
  BY <1>11, FailPendingEffect DEF ReaderFailsPending
<1>12. CASE UNCHANGED vars
  BY <1>12
<1>. QED BY <1>1, <1>2, <1>3, <1>4, <1>5, <1>6, <1>7, <1>8, <1>9, <1>10, <1>11, <1>12 DEF Next, Close, ReadLoop

(* Register refuses once closed; nothing leaves Send with its entry before.*)
LEMMA ClosedInvStep == IInv /\ [Next]_vars => ClosedInv'
<1>. SUFFICES ASSUME IInv, [Next]_vars PROVE ClosedInv'
  OBVIOUS
<1>. USE ValuesAssumption, IdsAssumption DEF IInv, TypeOK, OwnIds, ClosedInv, IsClosed, EmptyInv, InSend, vars, callVars, readerVars, peerVars, GoTo, Return, Refused, Removed, Waiter
<1>1. ASSUME NEW c \in Calls, Send(c) \/ Answer(c) PROVE ClosedInv'
  <2>1. CASE Register(c)
    BY <2>1 DEF Register
  <2>2. CASE EncodeFails(c)
    BY <2>2 DEF EncodeFails
  <2>3. CASE LockWrite(c)
    BY <2>3 DEF LockWrite
  <2>4. CASE Write(c)
    BY <2>4 DEF Write
  <2>5. CASE WriteFails(c)
    BY <2>5 DEF WriteFails
  <2>6. CASE Receive(c)
    BY <2>6 DEF Receive
  <2>7. CASE Cancel(c)
    BY <2>7 DEF Cancel
  <2>8. CASE SeeClosed(c)
    BY <2>8 DEF SeeClosed
  <2>9. CASE Unregister(c)
    BY <2>9 DEF Unregister
  <2>10. CASE Answer(c)
    BY <2>10 DEF Answer
  <2>. QED BY <1>1, <2>1, <2>2, <2>3, <2>4, <2>5, <2>6, <2>7, <2>8, <2>9, <2>10 DEF Send
<1>2. CASE CloseCalled
  BY <1>2 DEF CloseCalled
<1>3. CASE CloseConn
  BY <1>3 DEF CloseConn
<1>4. CASE CloseFailPending
  BY <1>4, FailPendingEffect DEF CloseFailPending
<1>5. CASE ReadFrame
  BY <1>5 DEF ReadFrame
<1>6. CASE ReadFails
  BY <1>6 DEF ReadFails
<1>7. CASE Take
  BY <1>7 DEF Take
<1>8. CASE Deliver
  BY <1>8 DEF Deliver
<1>9. CASE ReaderCloses
  BY <1>9 DEF ReaderCloses
<1>10. CASE ReaderClosed
  BY <1>10 DEF ReaderClosed
<1>11. CASE ReaderFailsPending
  BY <1>11, FailPendingEffect DEF ReaderFailsPending
<1>12. CASE UNCHANGED vars
  BY <1>12
<1>. QED BY <1>1, <1>2, <1>3, <1>4, <1>5, <1>6, <1>7, <1>8, <1>9, <1>10, <1>11, <1>12 DEF Next, Close, ReadLoop
-----------------------------------------------------------------------------
(* The strengthened invariant holds in every behaviour.                    *)
THEOREM Invariance == Spec => []IInv
<1>1. IInv /\ [Next]_vars => IInv'
  BY TypeOKStep, OwnIdsStep, OwnAnswersStep, IdleInvStep, ReturnInvStep, PeerInvStep,
     EmptyInvStep, ClosedInvStep DEF IInv
<1>. QED BY InitIInv, <1>1, PTL DEF Spec

(* Every variable of the connection keeps its type.                        *)
THEOREM TypeCorrect == Spec => []TypeOK
<1>1. IInv => TypeOK
  BY DEF IInv
<1>. QED BY Invariance, <1>1, PTL

(* No send on a result channel blocks, in failPending or in readLoop:      *)
(* pendingMu is always given back and the reader always comes back to the  *)
(* socket.                                                                 *)
THEOREM NoSendBlocks == Spec => []ChannelsEmpty
<1>1. IInv => ChannelsEmpty
  <2>. SUFFICES ASSUME IInv PROVE ChannelsEmpty
    OBVIOUS
  <2>1. \A c \in Calls : c \in Registered <=> pending[IdOf[c]] = c
    BY RegisteredUnderOwnId DEF IInv
  <2>2. \A c \in Registered : c \in Calls /\ ch[c] = None
    BY <2>1 DEF IInv, EmptyInv, Registered
  <2>3. reader = "deliver" => taken \in Calls /\ ch[taken] = None /\ taken \notin Registered
    BY <2>1 DEF IInv, TypeOK, EmptyInv
  <2>. QED BY <2>2, <2>3 DEF ChannelsEmpty, HandedOver
<1>. QED BY Invariance, <1>1, PTL

(* A closed connection keeps no pending call, however a registration races *)
(* Close.                                                                  *)
THEOREM CloseLeavesNothing == Spec => []NothingPendingAfterClose
<1>1. IInv => NothingPendingAfterClose
  BY ValuesAssumption DEF IInv, ClosedInv, NothingPendingAfterClose, Registered
<1>. QED BY Invariance, <1>1, PTL

(* An open connection keeps no entry of a call that has left Send.         *)
THEOREM NoEntryLeaks == Spec => []PendingCallsInSend
<1>1. IInv => PendingCallsInSend
  <2>. SUFFICES ASSUME IInv PROVE PendingCallsInSend
    OBVIOUS
  <2>1. \A c \in Calls : c \in Registered <=> pending[IdOf[c]] = c
    BY RegisteredUnderOwnId DEF IInv
  <2>. QED BY <2>1 DEF IInv, ClosedInv, PendingCallsInSend, Registered
<1>. QED BY Invariance, <1>1, PTL

-----------------------------------------------------------------------------
(* A connection implements the abstract remote call: every step of Send,   *)
(* of the peer, of Close and of the reader is one of Rpc or leaves it      *)
(* alone.                                                                  *)
THEOREM ImplementsRpc == Spec => RemoteCall
<1>1. Init => Rpc!Init
  BY DEF Init, Rpc!Init
<1>2. IInv /\ [Next]_vars => [Rpc!Next]_(Rpc!vars)
  <2>. SUFFICES ASSUME IInv, [Next]_vars PROVE [Rpc!Next]_(Rpc!vars)
    OBVIOUS
  <2>. USE DEF Rpc!vars, Rpc!Next, vars, callVars, peerVars, Return, GoTo
  <2>1. ASSUME NEW c \in Calls, result[c] = None,
               UNCHANGED <<received, answered>>,
               \/ result' = [result EXCEPT ![c] = Error]
               \/ c \in answered /\ result' = [result EXCEPT ![c] = c]
        PROVE  Rpc!Next
    BY <2>1 DEF Rpc!Return, Rpc!Fail
  <2>2. \A c \in Calls : pc[c] # "done" => result[c] = None
    BY DEF IInv, ReturnInv
  <2>3. ASSUME NEW c \in Calls, Send(c) \/ Answer(c) PROVE [Rpc!Next]_(Rpc!vars)
    <3>1. CASE Register(c)
      BY <2>1, <2>2, <3>1 DEF Register
    <3>2. CASE EncodeFails(c) \/ LockWrite(c) \/ WriteFails(c) \/ Cancel(c)
      BY <3>2 DEF EncodeFails, LockWrite, WriteFails, Cancel
    <3>3. CASE Write(c)
      <4>1. c \notin received /\ result[c] = None
        BY <2>2, <3>3 DEF Write, IInv, PeerInv
      <4>. QED BY <3>3, <4>1 DEF Write, Rpc!Send
    <3>4. CASE Receive(c)
      <4>1. ch[c] = Error \/ (ch[c] = c /\ c \in answered)
        BY <3>4 DEF Receive, IInv, OwnAnswers, PeerInv
      <4>. QED BY <2>1, <2>2, <3>4, <4>1 DEF Receive
    <3>5. CASE SeeClosed(c) \/ Unregister(c)
      BY <2>1, <2>2, <3>5 DEF SeeClosed, Unregister
    <3>6. CASE Answer(c)
      BY <3>6 DEF Answer, Rpc!Answer
    <3>. QED BY <2>3, <3>1, <3>2, <3>3, <3>4, <3>5, <3>6 DEF Send
  <2>4. CASE CloseCalled \/ Close
    BY <2>4 DEF CloseCalled, Close, CloseConn, CloseFailPending
  <2>5. CASE ReadLoop
    BY <2>5 DEF ReadLoop, ReadFrame, ReadFails, Take, Deliver, ReaderCloses, ReaderClosed,
                ReaderFailsPending
  <2>6. CASE UNCHANGED vars
    BY <2>6
  <2>. QED BY <2>3, <2>4, <2>5, <2>6 DEF Next
<1>. QED BY Invariance, <1>1, <1>2, PTL DEF Spec, RemoteCall, Rpc!Spec
=============================================================================
