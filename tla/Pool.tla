-------------------------------- MODULE Pool --------------------------------
(***************************************************************************)
(* transport.Pool (internal/transport/pool.go) and its only caller, the    *)
(* attempt loop of protocolclient.Client.sendWithVersion: one cached       *)
(* connection per endpoint, one dial at a time for an endpoint with the    *)
(* other calls waiting for it, Invalidate by calls whose request failed,   *)
(* Close at any time.  A step is what the code does under one hold of mu,  *)
(* or outside it.  The connection a call dials, and the channel others     *)
(* wait on meanwhile, are named by the call and its attempt.               *)
(***************************************************************************)
EXTENDS Naturals

CONSTANTS
    Calls,          \* calls of sendWithVersion
    Endpoints,
    EndpointOf,     \* the endpoint of each call
    MaxAttempts,    \* Retry.MaxAttempts
    None

Conns == Calls \X (1..MaxAttempts)

ASSUME CallsAssumption == EndpointOf \in [Calls -> Endpoints]
ASSUME AttemptsAssumption == MaxAttempts \in Nat \ {0}
ASSUME NoneAssumption == None \notin Conns

VARIABLES
    pc,             \* where each call stands
    attempt,        \* loop variable of sendWithVersion
    waitOn,         \* the dial each call waits for in Get
    conn,           \* the connection each call was given or has dialed
    connections,    \* mu: the cached connection of each endpoint
    dialing,        \* mu: the dial in progress for each endpoint
    woken,          \* dials whose wait channel is closed
    open,           \* connections that are not closed
    poolClosed      \* Close has been called

callVars == <<pc, attempt, waitOn, conn>>
poolVars == <<connections, dialing, woken>>
vars == <<callVars, poolVars, open, poolClosed>>

InGet == {"get", "wait", "dial", "dialed", "failed"}

TypeOK ==
    /\ pc \in [Calls -> {"idle", "use", "invalidate", "close", "done"} \cup InGet]
    /\ attempt \in [Calls -> 1..MaxAttempts]
    /\ waitOn \in [Calls -> Conns \cup {None}]
    /\ conn \in [Calls -> Conns \cup {None}]
    /\ connections \in [Endpoints -> Conns \cup {None}]
    /\ dialing \in [Endpoints -> Conns \cup {None}]
    /\ woken \in SUBSET Conns
    /\ open \in SUBSET Conns
    /\ poolClosed \in BOOLEAN

Init ==
    /\ pc = [c \in Calls |-> "idle"]
    /\ attempt = [c \in Calls |-> 1]
    /\ waitOn = [c \in Calls |-> None]
    /\ conn = [c \in Calls |-> None]
    /\ connections = [e \in Endpoints |-> None]
    /\ dialing = [e \in Endpoints |-> None]
    /\ woken = {}
    /\ open = {}
    /\ poolClosed = FALSE

GoTo(c, label) == pc' = [pc EXCEPT ![c] = label]
Own(c)         == <<c, attempt[c]>>
Cached(c)      == connections[EndpointOf[c]]
Usable(c)      == Cached(c) \in open

(* The next attempt, or the end of the call: by success, by an error that  *)
(* is not retried, by the context.  The connection was the attempt's.      *)
NextAttempt(c) == /\ conn' = [conn EXCEPT ![c] = None]
                  /\ \/ /\ attempt[c] < MaxAttempts
                        /\ attempt' = [attempt EXCEPT ![c] = @ + 1]
                        /\ GoTo(c, "get")
                     \/ /\ GoTo(c, "done")
                        /\ UNCHANGED attempt

-----------------------------------------------------------------------------
(* Variants a bug could leave in the code.                                 *)
InFlightNever(c)  == FALSE
InvalidatesAny(c) == Cached(c) # None

GetFailsSilently(c) ==
    /\ pc[c] = "failed"
    /\ dialing' = [dialing EXCEPT ![EndpointOf[c]] = None]
    /\ NextAttempt(c)
    /\ UNCHANGED <<waitOn, connections, woken, open, poolClosed>>

InvalidateForgetting(c) ==
    /\ pc[c] = "invalidate"
    /\ connections' = [connections EXCEPT ![EndpointOf[c]] =
                          IF @ = conn[c] THEN None ELSE @]
    /\ NextAttempt(c)
    /\ UNCHANGED <<waitOn, dialing, woken, open, poolClosed>>

-----------------------------------------------------------------------------
InFlight(c)    == dialing[EndpointOf[c]] # None
Invalidates(c) == Cached(c) # None /\ Cached(c) = conn[c]

Begin(c) ==
    /\ pc[c] = "idle"
    /\ GoTo(c, "get")
    /\ UNCHANGED <<attempt, waitOn, conn, poolVars, open, poolClosed>>

(* The three ways through the first critical section of Get.  A cached     *)
(* connection that is closed is dropped on the way.                        *)
GetCached(c) ==
    /\ pc[c] = "get"
    /\ Usable(c)
    /\ conn' = [conn EXCEPT ![c] = Cached(c)]
    /\ GoTo(c, "use")
    /\ UNCHANGED <<attempt, waitOn, poolVars, open, poolClosed>>

GetWait(c) ==
    /\ pc[c] = "get"
    /\ ~Usable(c)
    /\ InFlight(c)
    /\ connections' = [connections EXCEPT ![EndpointOf[c]] = None]
    /\ waitOn' = [waitOn EXCEPT ![c] = dialing[EndpointOf[c]]]
    /\ GoTo(c, "wait")
    /\ UNCHANGED <<attempt, conn, dialing, woken, open, poolClosed>>

GetDial(c) ==
    /\ pc[c] = "get"
    /\ ~Usable(c)
    /\ ~InFlight(c)
    /\ connections' = [connections EXCEPT ![EndpointOf[c]] = None]
    /\ dialing' = [dialing EXCEPT ![EndpointOf[c]] = Own(c)]
    /\ GoTo(c, "dial")
    /\ UNCHANGED <<attempt, waitOn, conn, woken, open, poolClosed>>

Woken(c) ==
    /\ pc[c] = "wait"
    /\ waitOn[c] \in woken
    /\ waitOn' = [waitOn EXCEPT ![c] = None]
    /\ GoTo(c, "get")
    /\ UNCHANGED <<attempt, conn, poolVars, open, poolClosed>>

(* The context ends: an error that is not retried.                         *)
WaitCanceled(c) ==
    /\ pc[c] = "wait"
    /\ waitOn' = [waitOn EXCEPT ![c] = None]
    /\ GoTo(c, "done")
    /\ UNCHANGED <<attempt, conn, poolVars, open, poolClosed>>

DialSucceeds(c) ==
    /\ pc[c] = "dial"
    /\ open' = open \cup {Own(c)}
    /\ conn' = [conn EXCEPT ![c] = Own(c)]
    /\ GoTo(c, "dialed")
    /\ UNCHANGED <<attempt, waitOn, poolVars, poolClosed>>

DialFails(c) ==
    /\ pc[c] = "dial"
    /\ GoTo(c, "failed")
    /\ UNCHANGED <<attempt, waitOn, conn, poolVars, open, poolClosed>>

(* The second critical section: the dial is over and who waits is woken;   *)
(* the new connection is cached unless another one is there by now.        *)
EndDial(c) == /\ dialing' = [dialing EXCEPT ![EndpointOf[c]] = None]
              /\ woken' = woken \cup {dialing[EndpointOf[c]]}

Install(c) ==
    /\ pc[c] = "dialed"
    /\ EndDial(c)
    /\ IF Cached(c) # None
       THEN /\ conn' = [conn EXCEPT ![c] = Cached(c)]
            /\ open' = open \ {conn[c]}
            /\ UNCHANGED connections
       ELSE /\ connections' = [connections EXCEPT ![EndpointOf[c]] = conn[c]]
            /\ UNCHANGED <<conn, open>>
    /\ GoTo(c, "use")
    /\ UNCHANGED <<attempt, waitOn, poolClosed>>

GetFails(c) ==
    /\ pc[c] = "failed"
    /\ EndDial(c)
    /\ NextAttempt(c)
    /\ UNCHANGED <<waitOn, connections, open, poolClosed>>

-----------------------------------------------------------------------------
(* The request on the connection: answered, with an error to retry or      *)
(* not, or given up, all of which leave the connection alone; or failed,   *)
(* which invalidates it.                                                   *)
Served(c) ==
    /\ pc[c] = "use"
    /\ NextAttempt(c)
    /\ UNCHANGED <<waitOn, poolVars, open, poolClosed>>

SendFails(c) ==
    /\ pc[c] = "use"
    /\ GoTo(c, "invalidate")
    /\ UNCHANGED <<attempt, waitOn, conn, poolVars, open, poolClosed>>

(* Invalidate takes the connection out under mu, if it is still the cached *)
(* one, and closes it afterwards.                                          *)
Invalidate(c) ==
    /\ pc[c] = "invalidate"
    /\ IF Invalidates(c)
       THEN /\ connections' = [connections EXCEPT ![EndpointOf[c]] = None]
            /\ GoTo(c, "close")
            /\ UNCHANGED <<attempt, conn>>
       ELSE NextAttempt(c) /\ UNCHANGED connections
    /\ UNCHANGED <<waitOn, dialing, woken, open, poolClosed>>

CloseInvalidated(c) ==
    /\ pc[c] = "close"
    /\ open' = open \ {conn[c]}
    /\ NextAttempt(c)
    /\ UNCHANGED <<waitOn, poolVars, poolClosed>>

(* The connection closes itself: its reader failed.                        *)
Break(k) ==
    /\ k \in open
    /\ open' = open \ {k}
    /\ UNCHANGED <<callVars, poolVars, poolClosed>>

Close ==
    /\ ~poolClosed
    /\ open' = open \ {connections[e] : e \in Endpoints}
    /\ connections' = [e \in Endpoints |-> None]
    /\ poolClosed' = TRUE
    /\ UNCHANGED <<callVars, dialing, woken>>

Get(c) == \/ GetCached(c) \/ GetWait(c) \/ GetDial(c) \/ Woken(c)
          \/ DialSucceeds(c) \/ DialFails(c) \/ Install(c) \/ GetFails(c)

Next == \/ \E c \in Calls : \/ Begin(c) \/ Get(c) \/ WaitCanceled(c)
                            \/ Served(c) \/ SendFails(c)
                            \/ Invalidate(c) \/ CloseInvalidated(c)
        \/ \E k \in Conns : Break(k)
        \/ Close

Spec == Init /\ [][Next]_vars

(* Goroutines run, and a dial ends: by its context or by the system's      *)
(* limit.  No request has to end, no context has to expire.                *)
FairSpec == Spec /\ \A c \in Calls : WF_vars(Get(c))

(* The program calls Close when it begins no further request.              *)
CloseLast   == poolClosed => \A c \in Calls : pc[c] = "idle" => pc'[c] = "idle"
ClosingSpec == Init /\ [][Next /\ CloseLast]_vars

-----------------------------------------------------------------------------
Dialing(c) == pc[c] \in {"dial", "dialed", "failed"}

(* One dial at a time for an endpoint, known to the pool while it lasts,   *)
(* with nothing cached meanwhile: Get closes the wait channel of its own   *)
(* dial, once, and the connection it dialed never meets another.           *)
SingleFlight ==
    /\ \A c \in Calls : Dialing(c) => /\ dialing[EndpointOf[c]] = Own(c)
                                      /\ Cached(c) = None
                                      /\ Own(c) \notin woken
    /\ \A e \in Endpoints : dialing[e] # None =>
           \E c \in Calls : EndpointOf[c] = e /\ Dialing(c)

(* No open connection is forgotten: it is cached, or a call is about to    *)
(* cache or to close it.                                                   *)
OpenConnectionsOwned ==
    \A k \in open : \/ \E e \in Endpoints : connections[e] = k
                    \/ \E c \in Calls : conn[c] = k /\ pc[c] \in {"dialed", "close"}

(* A working connection leaves the cache only by Close, or by a call that  *)
(* saw a request fail on that very connection: a late failure on an old    *)
(* connection does not tear down its successor.                            *)
EvictedByUser ==
    [][\A e \in Endpoints :
          connections[e] \in open /\ connections'[e] # connections[e] =>
              \/ poolClosed # poolClosed'
              \/ \E c \in Calls : pc[c] = "invalidate" /\ conn[c] = connections[e]]_vars

(* Every Get returns, with a connection or an error: whoever waits for a   *)
(* dial is woken, also when the dial failed, and nobody dials for ever.    *)
EveryGetReturns == \A c \in Calls : pc[c] \in InGet ~> pc[c] \in {"use", "done"}

=============================================================================
