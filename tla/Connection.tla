----------------------------- MODULE Connection -----------------------------
(***************************************************************************)
(* One transport.Connection (internal/transport/connection.go): callers of *)
(* Send register a correlation id, write a frame under writeMu and wait;   *)
(* readLoop hands each answer to the call that registered its id; Close,   *)
(* called by the reader or from outside, runs once and fails what is       *)
(* pending.  The peer is external: it answers what it read in any order,   *)
(* or not at all.  The steps are cut at every lock, channel operation and  *)
(* system call.                                                            *)
(***************************************************************************)
EXTENDS Naturals, Sequences

CONSTANTS
    Calls,      \* calls of Send
    Ids,        \* correlation ids
    IdOf,       \* the id in the header of each call's request
    None,       \* no call, no result
    Error       \* any error

ASSUME ValuesAssumption == None \notin Calls /\ Error \notin Calls /\ None # Error
(* nextCorrelationID counts up: ids repeat only after 2^31 - 1 requests.   *)
ASSUME IdsAssumption == /\ IdOf \in [Calls -> Ids]
                        /\ \A c, d \in Calls : IdOf[c] = IdOf[d] => c = d

VARIABLES
    pc,         \* where each call stands in Send
    result,     \* what Send returned
    pending,    \* pendingMu: the call registered under each id
    ch,         \* the one-place result channel of each call
    writeMu,    \* the call inside conn.Write
    closing,    \* how far the body of closeOnce is
    reader,     \* where readLoop stands
    frame,      \* the call whose answer readLoop holds
    taken,      \* the call readLoop removed from pending
    received,   \* requests the peer got
    answered,   \* requests the peer answered
    inbound     \* answers on their way, in order

callVars   == <<pc, result>>
readerVars == <<reader, frame, taken>>
peerVars   == <<received, answered, inbound>>
vars == <<callVars, pending, ch, writeMu, closing, readerVars, peerVars>>

Results == Calls \cup {None, Error}
InSend  == {"write", "writing", "wait", "unregister"}

(* The channel named closed is closed first, then the socket.              *)
IsClosed   == closing # "open"
ConnClosed == closing \in {"conn", "done"}

TypeOK ==
    /\ pc \in [Calls -> {"idle", "done"} \cup InSend]
    /\ result \in [Calls -> Results]
    /\ pending \in [Ids -> Calls \cup {None}]
    /\ ch \in [Calls -> Results]
    /\ writeMu \in Calls \cup {None}
    /\ closing \in {"open", "chan", "conn", "done"}
    /\ reader \in {"read", "take", "deliver", "close", "fail", "stopped"}
    /\ frame \in Calls \cup {None}
    /\ taken \in Calls \cup {None} /\ (reader = "deliver" => taken # None)
    /\ received \in SUBSET Calls
    /\ answered \in SUBSET received
    /\ inbound \in Seq(Calls)

(* Dial: connected, with its readLoop running.                             *)
Init ==
    /\ pc = [c \in Calls |-> "idle"]
    /\ result = [c \in Calls |-> None]
    /\ pending = [i \in Ids |-> None]
    /\ ch = [c \in Calls |-> None]
    /\ writeMu = None
    /\ closing = "open"
    /\ reader = "read"
    /\ frame = None
    /\ taken = None
    /\ received = {}
    /\ answered = {}
    /\ inbound = <<>>

GoTo(c, label) == pc' = [pc EXCEPT ![c] = label]
Return(c, r)   == GoTo(c, "done") /\ result' = [result EXCEPT ![c] = r]

-----------------------------------------------------------------------------
(* Variants a bug could leave in the code; the properties below tell them  *)
(* from the definitions they stand for.                                    *)
RefusedUnlessDuplicate(c) == pending[IdOf[c]] # None
RemovedKept(id)           == pending
WaiterFirst(id)           == IF \A i \in Ids : pending[i] = None THEN None
                             ELSE CHOOSE c \in Calls : \E i \in Ids : pending[i] = c

WriteFailsLocked(c) ==
    /\ pc[c] = "writing"
    /\ GoTo(c, "unregister")
    /\ UNCHANGED <<result, pending, ch, writeMu, closing, readerVars, peerVars>>

CancelRegistered(c) ==
    /\ pc[c] = "wait"
    /\ Return(c, Error)
    /\ UNCHANGED <<pending, ch, writeMu, closing, readerVars, peerVars>>

-----------------------------------------------------------------------------
Refused(c)  == IsClosed \/ pending[IdOf[c]] # None
Removed(id) == [pending EXCEPT ![id] = None]
Waiter(id)  == pending[id]

(* failPending empties the map and sends an error on every channel in it;  *)
(* it would block, holding pendingMu, on a channel that is full.           *)
Registered  == {c \in Calls : \E i \in Ids : pending[i] = c}
FailPending == /\ \A c \in Registered : ch[c] = None
               /\ pending' = [i \in Ids |-> None]
               /\ ch' = [c \in Calls |-> IF c \in Registered THEN Error ELSE ch[c]]

-----------------------------------------------------------------------------
(* Send.                                                                   *)

(* Under pendingMu: refused when closed or when the id is taken.           *)
Register(c) ==
    /\ pc[c] = "idle"
    /\ IF Refused(c)
       THEN Return(c, Error) /\ UNCHANGED pending
       ELSE /\ pending' = [pending EXCEPT ![IdOf[c]] = c]
            /\ GoTo(c, "write")
            /\ UNCHANGED result
    /\ UNCHANGED <<ch, writeMu, closing, readerVars, peerVars>>

EncodeFails(c) ==
    /\ pc[c] = "write"
    /\ GoTo(c, "unregister")
    /\ UNCHANGED <<result, pending, ch, writeMu, closing, readerVars, peerVars>>

LockWrite(c) ==
    /\ pc[c] = "write"
    /\ writeMu = None
    /\ writeMu' = c
    /\ GoTo(c, "writing")
    /\ UNCHANGED <<result, pending, ch, closing, readerVars, peerVars>>

(* The frame is on its way: from here the peer may answer it.              *)
Write(c) ==
    /\ pc[c] = "writing"
    /\ ~ConnClosed
    /\ writeMu' = None
    /\ received' = received \cup {c}
    /\ GoTo(c, "wait")
    /\ UNCHANGED <<result, pending, ch, closing, readerVars, answered, inbound>>

(* The socket is closed on this side, or the peer reset it.                *)
WriteFails(c) ==
    /\ pc[c] = "writing"
    /\ writeMu' = None
    /\ GoTo(c, "unregister")
    /\ UNCHANGED <<result, pending, ch, closing, readerVars, peerVars>>

(* The branches of the last select: any that is ready may be taken.  The   *)
(* context of a call may end at any time.                                  *)
Receive(c) ==
    /\ pc[c] = "wait"
    /\ ch[c] # None
    /\ Return(c, ch[c])
    /\ ch' = [ch EXCEPT ![c] = None]
    /\ UNCHANGED <<pending, writeMu, closing, readerVars, peerVars>>

Cancel(c) ==
    /\ pc[c] = "wait"
    /\ GoTo(c, "unregister")
    /\ UNCHANGED <<result, pending, ch, writeMu, closing, readerVars, peerVars>>

SeeClosed(c) ==
    /\ pc[c] = "wait"
    /\ IsClosed
    /\ Return(c, Error)
    /\ UNCHANGED <<pending, ch, writeMu, closing, readerVars, peerVars>>

(* removePending by id, whoever holds it by now.                           *)
Unregister(c) ==
    /\ pc[c] = "unregister"
    /\ pending' = Removed(IdOf[c])
    /\ Return(c, Error)
    /\ UNCHANGED <<ch, writeMu, closing, readerVars, peerVars>>

-----------------------------------------------------------------------------
(* The peer.                                                               *)

Answer(c) ==
    /\ c \in received \ answered
    /\ answered' = answered \cup {c}
    /\ inbound' = Append(inbound, c)
    /\ UNCHANGED <<callVars, pending, ch, writeMu, closing, readerVars, received>>

-----------------------------------------------------------------------------
(* Close, and readLoop.                                                    *)

(* Close from outside: Pool.Invalidate, Pool.Close, a lost dial race.      *)
CloseCalled ==
    /\ closing = "open"
    /\ closing' = "chan"
    /\ UNCHANGED <<callVars, pending, ch, writeMu, readerVars, peerVars>>

CloseConn ==
    /\ closing = "chan"
    /\ closing' = "conn"
    /\ UNCHANGED <<callVars, pending, ch, writeMu, readerVars, peerVars>>

CloseFailPending ==
    /\ closing = "conn"
    /\ FailPending
    /\ closing' = "done"
    /\ UNCHANGED <<callVars, writeMu, readerVars, peerVars>>

ReadFrame ==
    /\ reader = "read"
    /\ ~ConnClosed
    /\ inbound # <<>>
    /\ frame' = Head(inbound)
    /\ inbound' = Tail(inbound)
    /\ reader' = "take"
    /\ UNCHANGED <<callVars, pending, ch, writeMu, closing, taken, received, answered>>

(* The end of the stream, or a frame that is too long or cannot be decoded. *)
ReadFails ==
    /\ reader = "read"
    /\ reader' = "close"
    /\ UNCHANGED <<callVars, pending, ch, writeMu, closing, frame, taken, peerVars>>

(* removePending: an answer nobody waits for is dropped.                   *)
Take ==
    /\ reader = "take"
    /\ taken' = Waiter(IdOf[frame])
    /\ pending' = Removed(IdOf[frame])
    /\ reader' = IF taken' = None THEN "read" ELSE "deliver"
    /\ UNCHANGED <<callVars, ch, writeMu, closing, frame, peerVars>>

(* The send on the channel of the call blocks while the channel is full.   *)
Deliver ==
    /\ reader = "deliver"
    /\ ch[taken] = None
    /\ ch' = [ch EXCEPT ![taken] = frame]
    /\ reader' = "read"
    /\ UNCHANGED <<callVars, pending, writeMu, closing, frame, taken, peerVars>>

(* closeOnce.Do: the reader runs the body, or waits for who does.          *)
ReaderCloses ==
    /\ reader = "close"
    /\ closing = "open"
    /\ closing' = "chan"
    /\ UNCHANGED <<callVars, pending, ch, writeMu, readerVars, peerVars>>

ReaderClosed ==
    /\ reader = "close"
    /\ closing = "done"
    /\ reader' = "fail"
    /\ UNCHANGED <<callVars, pending, ch, writeMu, closing, frame, taken, peerVars>>

ReaderFailsPending ==
    /\ reader = "fail"
    /\ FailPending
    /\ reader' = "stopped"
    /\ UNCHANGED <<callVars, writeMu, closing, frame, taken, peerVars>>

-----------------------------------------------------------------------------
Send(c) ==
    \/ Register(c) \/ EncodeFails(c) \/ LockWrite(c) \/ Write(c) \/ WriteFails(c)
    \/ Receive(c) \/ Cancel(c) \/ SeeClosed(c) \/ Unregister(c)

Close == CloseConn \/ CloseFailPending

ReadLoop == \/ ReadFrame \/ ReadFails \/ Take \/ Deliver
            \/ ReaderCloses \/ ReaderClosed \/ ReaderFailsPending

Next == \/ \E c \in Calls : Send(c) \/ Answer(c)
        \/ CloseCalled \/ Close \/ ReadLoop

Spec == Init /\ [][Next]_vars

(* Go runs every goroutine that can run.  Nobody has to call Close, no     *)
(* context has to end, and the peer owes neither reads nor answers; but a  *)
(* system call on a socket this side closed returns.                       *)
FairSpec ==
    /\ Spec
    /\ \A c \in Calls : /\ WF_vars(LockWrite(c))
                        /\ WF_vars(ConnClosed /\ WriteFails(c))
                        /\ WF_vars(Receive(c) \/ SeeClosed(c))
                        /\ WF_vars(Unregister(c))
    /\ WF_vars(Close)
    /\ WF_vars(Take \/ Deliver \/ ReaderCloses \/ ReaderClosed \/ ReaderFailsPending)
    /\ WF_vars(ConnClosed /\ ReadFails)
-----------------------------------------------------------------------------
(* Nobody ever blocks on a result channel: those failPending and readLoop  *)
(* are about to send on are empty.  A send that blocked in failPending     *)
(* would hold pendingMu, and with it every caller and Close.               *)
HandedOver    == Registered \cup (IF reader = "deliver" THEN {taken} ELSE {})
ChannelsEmpty == /\ \A c \in HandedOver : ch[c] = None
                 /\ reader = "deliver" => taken \notin Registered

(* Once Close has returned nothing is pending, and nothing will be: a      *)
(* registration that raced Close was refused or failed with the others.    *)
NothingPendingAfterClose == closing = "done" => Registered = {}

(* While the connection is open the pending map holds no call that has     *)
(* left Send, whichever way it left: it does not grow with calls that were *)
(* given up.                                                               *)
PendingCallsInSend == ~IsClosed => \A c \in Registered : pc[c] \in InSend

(* Send is a remote call: a response is that of the caller's own request,  *)
(* one the peer got and answered, however answers are reordered, late or   *)
(* overtaken by Close; a request is written once.                          *)
Rpc == INSTANCE Rpc WITH sent <- received
RemoteCall == Rpc!Spec

(* When the connection is closed, by whichever side, every call in Send    *)
(* returns, those blocked in Write or on writeMu included, and the reader  *)
(* goroutine stops.                                                        *)
ClosedEndsAll == /\ \A c \in Calls : IsClosed /\ pc[c] \in InSend ~> pc[c] = "done"
                 /\ IsClosed ~> reader = "stopped"
=============================================================================
