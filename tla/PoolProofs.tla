----------------------------- MODULE PoolProofs -----------------------------
(***************************************************************************)
(* Proofs about Pool, for any calls, endpoints and number of attempts.     *)
(* What the safety properties need besides themselves is that the name of  *)
(* a dial is fresh until its call makes it, and that the connection a call *)
(* has dialed is the one it holds.                                         *)
(***************************************************************************)
EXTENDS Pool, TLAPS

(* The wait channel of a dial is closed at its end, and not before.        *)
FreshDials == \A c \in Calls, n \in 1..MaxAttempts :
                 <<c, n>> \in woken =>
                     \/ n < attempt[c]
                     \/ n = attempt[c] /\ pc[c] \notin {"idle"} \cup InGet

HoldsDialed == \A c \in Calls : pc[c] = "dialed" => conn[c] = Own(c)

IInv == TypeOK /\ SingleFlight /\ FreshDials /\ HoldsDialed /\ OpenConnectionsOwned

-----------------------------------------------------------------------------
LEMMA OwnIsConn == TypeOK => \A c \in Calls : Own(c) \in Conns /\ Own(c) # None
BY NoneAssumption DEF TypeOK, Own, Conns

(* What the next attempt, or the end of a call, changes.                   *)
LEMMA NextAttemptEffect ==
    ASSUME TypeOK, NEW c \in Calls, NextAttempt(c)
    PROVE  /\ pc' \in [Calls -> {"idle", "use", "invalidate", "close", "done"} \cup InGet]
           /\ attempt' \in [Calls -> 1..MaxAttempts]
           /\ conn' \in [Calls -> Conns \cup {None}]
           /\ conn' = [conn EXCEPT ![c] = None]
           /\ pc'[c] \in {"get", "done"}
           /\ pc'[c] = "get" => attempt'[c] = attempt[c] + 1
           /\ attempt'[c] >= attempt[c]
           /\ \A d \in Calls \ {c} : pc'[d] = pc[d] /\ attempt'[d] = attempt[d]
BY AttemptsAssumption DEF NextAttempt, GoTo, TypeOK, InGet

(* A dial ends with its own entry and channel, and nobody else is dialing  *)
(* for the endpoint.                                                       *)
LEMMA EndDialEffect ==
    ASSUME TypeOK, SingleFlight, NEW c \in Calls, Dialing(c), EndDial(c)
    PROVE  /\ dialing' = [dialing EXCEPT ![EndpointOf[c]] = None]
           /\ woken' = woken \cup {Own(c)}
           /\ Own(c) \in Conns
           /\ \A d \in Calls : Dialing(d) /\ EndpointOf[d] = EndpointOf[c] => d = c
<1>1. dialing[EndpointOf[c]] = Own(c)
  BY DEF SingleFlight
<1>2. ASSUME NEW d \in Calls, Dialing(d), EndpointOf[d] = EndpointOf[c] PROVE d = c
  <2>1. Own(d) = Own(c)
    BY <1>1, <1>2 DEF SingleFlight
  <2>. QED BY <2>1 DEF Own
<1>. QED BY <1>1, <1>2, OwnIsConn DEF EndDial

(* The connection a call has dialed becomes the cached one.                *)
LEMMA InstallEffect ==
    ASSUME TypeOK, SingleFlight, HoldsDialed, NEW c \in Calls, Install(c)
    PROVE  /\ connections' = [connections EXCEPT ![EndpointOf[c]] = Own(c)]
           /\ conn[c] = Own(c)
           /\ UNCHANGED <<conn, open, attempt, waitOn, poolClosed>>
           /\ pc' = [pc EXCEPT ![c] = "use"]
           /\ Dialing(c) /\ EndDial(c)
<1>1. pc[c] = "dialed" /\ Dialing(c) /\ Cached(c) = None /\ conn[c] = Own(c)
  BY DEF Install, Dialing, SingleFlight, HoldsDialed
<1>. QED BY <1>1 DEF Install, GoTo

(* The end of a dial leaves the dials for other endpoints as they were.    *)
LEMMA SingleFlightAfter ==
    ASSUME TypeOK, SingleFlight, NEW c \in Calls, Dialing(c), EndDial(c),
           pc'[c] \notin {"dial", "dialed", "failed"},
           \A d \in Calls \ {c} : pc'[d] = pc[d] /\ attempt'[d] = attempt[d],
           \A e \in Endpoints \ {EndpointOf[c]} : connections'[e] = connections[e]
    PROVE  SingleFlight'
<1>. USE CallsAssumption
<1>1. dialing' = [dialing EXCEPT ![EndpointOf[c]] = None] /\ woken' = woken \cup {Own(c)}
  BY EndDialEffect
<1>2. ASSUME NEW d \in Calls, Dialing(d)'
      PROVE  d # c /\ Dialing(d) /\ EndpointOf[d] # EndpointOf[c] /\ Own(d)' = Own(d)
  BY <1>2, EndDialEffect DEF Dialing, Own
<1>3. ASSUME NEW d \in Calls, Dialing(d)'
      PROVE  dialing'[EndpointOf[d]] = Own(d)' /\ Cached(d)' = None /\ Own(d)' \notin woken'
  <2>1. dialing'[EndpointOf[d]] = dialing[EndpointOf[d]] /\ Cached(d)' = Cached(d)
    BY <1>1, <1>2, <1>3 DEF TypeOK, Cached
  <2>2. Own(d) # Own(c)
    BY <1>2, <1>3 DEF Own
  <2>. QED BY <1>1, <1>2, <1>3, <2>1, <2>2 DEF SingleFlight
<1>4. ASSUME NEW e \in Endpoints, dialing'[e] # None
      PROVE  \E d \in Calls : EndpointOf[d] = e /\ Dialing(d)'
  <2>1. e # EndpointOf[c] /\ dialing[e] # None
    BY <1>1, <1>4 DEF TypeOK
  <2>2. PICK d \in Calls : EndpointOf[d] = e /\ Dialing(d)
    BY <2>1 DEF SingleFlight
  <2>. QED BY <2>1, <2>2 DEF Dialing
<1>. QED BY <1>3, <1>4 DEF SingleFlight

(* A call that is not dialing goes on, and leaves the pool alone.          *)
LEMMA SingleFlightKept ==
    ASSUME SingleFlight, NEW c \in Calls, UNCHANGED poolVars, ~Dialing(c),
           pc'[c] \notin {"dial", "dialed", "failed"},
           \A d \in Calls \ {c} : pc'[d] = pc[d] /\ attempt'[d] = attempt[d]
    PROVE  SingleFlight'
<1>1. \A d \in Calls : /\ Dialing(d)' <=> Dialing(d)
                       /\ Dialing(d) => Own(d)' = Own(d)
                       /\ Cached(d)' = Cached(d)
  BY DEF Dialing, Own, Cached, poolVars
<1>2. dialing' = dialing /\ woken' = woken
  BY DEF poolVars
<1>. QED BY <1>1, <1>2 DEF SingleFlight

(* The names of the next attempt are fresh, and a call that ended has none. *)
LEMMA FreshDialsKept ==
    ASSUME TypeOK, FreshDials, NEW c \in Calls, NextAttempt(c), woken' = woken,
           pc[c] # "idle"
    PROVE  FreshDials'
<1>1. ASSUME NEW d \in Calls, NEW n \in 1..MaxAttempts, <<d, n>> \in woken
      PROVE  n < attempt'[d] \/ (n = attempt'[d] /\ pc'[d] \notin {"idle"} \cup InGet)
  <2>0. n < attempt[d] \/ (n = attempt[d] /\ pc[d] \notin {"idle"} \cup InGet)
    BY <1>1 DEF FreshDials
  <2>1. attempt[d] \in Nat /\ attempt'[d] \in Nat /\ n \in Nat
    BY NextAttemptEffect, AttemptsAssumption DEF TypeOK
  <2>2. CASE d = c /\ pc'[c] = "get"
    BY <2>0, <2>1, <2>2, NextAttemptEffect
  <2>3. CASE d = c /\ pc'[c] = "done"
    BY <2>0, <2>1, <2>3, NextAttemptEffect DEF InGet
  <2>4. CASE d # c
    BY <2>0, <2>4, NextAttemptEffect
  <2>. QED BY <2>2, <2>3, <2>4, NextAttemptEffect
<1>. QED BY <1>1 DEF FreshDials

LEMMA InitIInv == Init => IInv
<1>. SUFFICES ASSUME Init PROVE IInv
  OBVIOUS
<1>1. TypeOK
  <2>1. 1 \in 1..MaxAttempts
    BY AttemptsAssumption
  <2>. QED BY <2>1 DEF Init, TypeOK, InGet
<1>2. SingleFlight
  BY DEF Init, SingleFlight, Dialing
<1>3. FreshDials /\ HoldsDialed /\ OpenConnectionsOwned
  BY DEF Init, FreshDials, HoldsDialed, OpenConnectionsOwned
<1>. QED BY <1>1, <1>2, <1>3 DEF IInv

(* Every step keeps the types; the channel a dial closes exists.           *)
LEMMA TypeOKStep == IInv /\ [Next]_vars => TypeOK'
<1>. SUFFICES ASSUME IInv, [Next]_vars PROVE TypeOK'
  OBVIOUS
<1>. USE CallsAssumption, AttemptsAssumption, NoneAssumption, OwnIsConn
     DEF IInv, TypeOK, InGet, Conns, Usable, Cached, vars, callVars, poolVars, GoTo
<1>1. ASSUME NEW c \in Calls, Get(c) \/ WaitCanceled(c) \/ Begin(c) \/ Served(c) \/ SendFails(c)
                              \/ Invalidate(c) \/ CloseInvalidated(c)
      PROVE  TypeOK'
  <2>1. CASE Begin(c)
    BY <2>1 DEF Begin
  <2>2. CASE GetCached(c)
    BY <2>2 DEF GetCached
  <2>3. CASE GetWait(c)
    BY <2>3 DEF GetWait
  <2>4. CASE GetDial(c)
    BY <2>4 DEF GetDial
  <2>5. CASE Woken(c)
    BY <2>5 DEF Woken
  <2>6. CASE DialSucceeds(c)
    BY <2>6 DEF DialSucceeds
  <2>7. CASE DialFails(c)
    BY <2>7 DEF DialFails
  <2>8. CASE Install(c)
    <3>1. /\ connections' = [connections EXCEPT ![EndpointOf[c]] = Own(c)]
          /\ conn[c] = Own(c) /\ UNCHANGED <<conn, open, attempt, waitOn, poolClosed>>
          /\ pc' = [pc EXCEPT ![c] = "use"] /\ Dialing(c) /\ EndDial(c)
      BY <2>8, InstallEffect
    <3>2. /\ dialing' = [dialing EXCEPT ![EndpointOf[c]] = None]
          /\ woken' = woken \cup {Own(c)} /\ Own(c) \in Conns
      BY <3>1, EndDialEffect
    <3>. QED BY <3>1, <3>2
  <2>9. CASE GetFails(c)
    BY <2>9, NextAttemptEffect, EndDialEffect DEF GetFails, Dialing
  <2>10. CASE WaitCanceled(c)
    BY <2>10 DEF WaitCanceled
  <2>11. CASE Served(c)
    BY <2>11, NextAttemptEffect DEF Served
  <2>12. CASE SendFails(c)
    BY <2>12 DEF SendFails
  <2>13. CASE Invalidate(c)
    <3>1. CASE Invalidates(c)
      BY <2>13, <3>1 DEF Invalidate
    <3>2. CASE ~Invalidates(c)
      BY <2>13, <3>2, NextAttemptEffect DEF Invalidate
    <3>. QED BY <3>1, <3>2
  <2>14. CASE CloseInvalidated(c)
    BY <2>14, NextAttemptEffect DEF CloseInvalidated
  <2>. QED BY <1>1, <2>1, <2>2, <2>3, <2>4, <2>5, <2>6, <2>7, <2>8, <2>9, <2>10, <2>11, <2>12, <2>13, <2>14 DEF Get
<1>2. ASSUME NEW k \in Conns, Break(k) PROVE TypeOK'
  BY <1>2 DEF Break
<1>3. CASE Close
  BY <1>3 DEF Close
<1>4. CASE UNCHANGED vars
  BY <1>4
<1>. QED BY <1>1, <1>2, <1>3, <1>4 DEF Next

(* A dial begins only where none is in progress, and ends with its entry.  *)
LEMMA SingleFlightStep == IInv /\ [Next]_vars => SingleFlight'
<1>. SUFFICES ASSUME IInv, [Next]_vars PROVE SingleFlight'
  OBVIOUS
<1>. USE CallsAssumption, AttemptsAssumption, NoneAssumption, OwnIsConn
     DEF IInv, TypeOK, SingleFlight, FreshDials, InGet, Dialing, Own, Cached, InFlight, Usable, Conns, vars, callVars, poolVars, GoTo
<1>1. ASSUME NEW c \in Calls, Get(c) \/ WaitCanceled(c) \/ Begin(c) \/ Served(c) \/ SendFails(c)
                              \/ Invalidate(c) \/ CloseInvalidated(c)
      PROVE  SingleFlight'
  <2>1. CASE Begin(c)
    BY <2>1 DEF Begin
  <2>2. CASE GetCached(c)
    BY <2>2 DEF GetCached
  <2>3. CASE GetWait(c)
    BY <2>3 DEF GetWait
  <2>4. CASE GetDial(c)
    BY <2>4 DEF GetDial
  <2>5. CASE Woken(c)
    BY <2>5 DEF Woken
  <2>6. CASE DialSucceeds(c)
    BY <2>6 DEF DialSucceeds
  <2>7. CASE DialFails(c)
    BY <2>7 DEF DialFails
  <2>8. CASE Install(c)
    <3>1. /\ connections' = [connections EXCEPT ![EndpointOf[c]] = Own(c)]
          /\ conn[c] = Own(c) /\ UNCHANGED <<conn, open, attempt, waitOn, poolClosed>>
          /\ pc' = [pc EXCEPT ![c] = "use"] /\ Dialing(c) /\ EndDial(c)
      BY <2>8, InstallEffect
    <3>. QED BY <3>1, SingleFlightAfter
  <2>9. CASE GetFails(c)
    BY <2>9, NextAttemptEffect, SingleFlightAfter DEF GetFails, Dialing
  <2>10. CASE WaitCanceled(c)
    BY <2>10 DEF WaitCanceled
  <2>11. CASE Served(c)
    <3>1. ~Dialing(c) /\ UNCHANGED poolVars
      BY <2>11 DEF Served
    <3>. QED BY <2>11, <3>1, NextAttemptEffect, SingleFlightKept DEF Served
  <2>12. CASE SendFails(c)
    BY <2>12 DEF SendFails
  <2>13. CASE Invalidate(c)
    <3>1. CASE Invalidates(c)
      BY <2>13, <3>1 DEF Invalidate
    <3>2. CASE ~Invalidates(c)
      <4>1. ~Dialing(c) /\ UNCHANGED poolVars /\ NextAttempt(c)
        BY <2>13, <3>2 DEF Invalidate
      <4>. QED BY <4>1, NextAttemptEffect, SingleFlightKept
    <3>. QED BY <3>1, <3>2
  <2>14. CASE CloseInvalidated(c)
    <3>1. ~Dialing(c) /\ UNCHANGED poolVars
      BY <2>14 DEF CloseInvalidated
    <3>. QED BY <2>14, <3>1, NextAttemptEffect, SingleFlightKept DEF CloseInvalidated
  <2>. QED BY <1>1, <2>1, <2>2, <2>3, <2>4, <2>5, <2>6, <2>7, <2>8, <2>9, <2>10, <2>11, <2>12, <2>13, <2>14 DEF Get
<1>2. ASSUME NEW k \in Conns, Break(k) PROVE SingleFlight'
  BY <1>2 DEF Break
<1>3. CASE Close
  BY <1>3 DEF Close
<1>4. CASE UNCHANGED vars
  BY <1>4
<1>. QED BY <1>1, <1>2, <1>3, <1>4 DEF Next

(* A step closes only the channel of the dial it ends.                     *)
LEMMA FreshDialsStep == IInv /\ [Next]_vars => FreshDials'
<1>. SUFFICES ASSUME IInv, [Next]_vars PROVE FreshDials'
  OBVIOUS
<1>. USE CallsAssumption, AttemptsAssumption, NoneAssumption, OwnIsConn
     DEF IInv, TypeOK, SingleFlight, FreshDials, InGet, Dialing, Own, Conns, vars, callVars, poolVars, GoTo
<1>1. ASSUME NEW c \in Calls, Get(c) \/ WaitCanceled(c) \/ Begin(c) \/ Served(c) \/ SendFails(c)
                              \/ Invalidate(c) \/ CloseInvalidated(c)
      PROVE  FreshDials'
  <2>1. CASE Begin(c)
    BY <2>1 DEF Begin
  <2>2. CASE GetCached(c)
    BY <2>2 DEF GetCached
  <2>3. CASE GetWait(c)
    BY <2>3 DEF GetWait
  <2>4. CASE GetDial(c)
    BY <2>4 DEF GetDial
  <2>5. CASE Woken(c)
    BY <2>5 DEF Woken
  <2>6. CASE DialSucceeds(c)
    BY <2>6 DEF DialSucceeds
  <2>7. CASE DialFails(c)
    BY <2>7 DEF DialFails
  <2>8. CASE Install(c)
    <3>1. /\ connections' = [connections EXCEPT ![EndpointOf[c]] = Own(c)]
          /\ conn[c] = Own(c) /\ UNCHANGED <<conn, open, attempt, waitOn, poolClosed>>
          /\ pc' = [pc EXCEPT ![c] = "use"] /\ Dialing(c) /\ EndDial(c)
      BY <2>8, InstallEffect
    <3>2. /\ dialing' = [dialing EXCEPT ![EndpointOf[c]] = None]
          /\ woken' = woken \cup {Own(c)} /\ Own(c) \in Conns
      BY <3>1, EndDialEffect
    <3>. QED BY <3>1, <3>2
  <2>9. CASE GetFails(c)
    <3>1. woken' = woken \cup {<<c, attempt[c]>>}
      BY <2>9, EndDialEffect DEF GetFails, Dialing
    <3>2. ASSUME NEW d \in Calls, NEW n \in 1..MaxAttempts, <<d, n>> \in woken'
          PROVE  \/ n < attempt'[d]
                 \/ n = attempt'[d] /\ pc'[d] \notin {"idle"} \cup InGet
      <4>1. CASE d = c /\ n = attempt[c]
        BY <2>9, <4>1, NextAttemptEffect DEF GetFails
      <4>2. CASE <<d, n>> \in woken
        BY <2>9, <4>2, NextAttemptEffect DEF GetFails
      <4>. QED BY <3>1, <3>2, <4>1, <4>2
    <3>. QED BY <3>2
  <2>10. CASE WaitCanceled(c)
    BY <2>10 DEF WaitCanceled
  <2>11. CASE Served(c)
    BY <2>11, FreshDialsKept DEF Served
  <2>12. CASE SendFails(c)
    BY <2>12 DEF SendFails
  <2>13. CASE Invalidate(c)
    <3>1. CASE Invalidates(c)
      BY <2>13, <3>1 DEF Invalidate
    <3>2. CASE ~Invalidates(c)
      BY <2>13, <3>2, FreshDialsKept DEF Invalidate
    <3>. QED BY <3>1, <3>2
  <2>14. CASE CloseInvalidated(c)
    BY <2>14, FreshDialsKept DEF CloseInvalidated
  <2>. QED BY <1>1, <2>1, <2>2, <2>3, <2>4, <2>5, <2>6, <2>7, <2>8, <2>9, <2>10, <2>11, <2>12, <2>13, <2>14 DEF Get
<1>2. ASSUME NEW k \in Conns, Break(k) PROVE FreshDials'
  BY <1>2 DEF Break
<1>3. CASE Close
  BY <1>3 DEF Close
<1>4. CASE UNCHANGED vars
  BY <1>4
<1>. QED BY <1>1, <1>2, <1>3, <1>4 DEF Next

(* A dialed connection is named by the attempt that dialed it.             *)
LEMMA HoldsDialedStep == IInv /\ [Next]_vars => HoldsDialed'
<1>. SUFFICES ASSUME IInv, [Next]_vars PROVE HoldsDialed'
  OBVIOUS
<1>. USE CallsAssumption, AttemptsAssumption, NoneAssumption, OwnIsConn
     DEF IInv, TypeOK, HoldsDialed, Own, vars, callVars, poolVars, GoTo
<1>1. ASSUME NEW c \in Calls, Get(c) \/ WaitCanceled(c) \/ Begin(c) \/ Served(c) \/ SendFails(c)
                              \/ Invalidate(c) \/ CloseInvalidated(c)
      PROVE  HoldsDialed'
  <2>1. CASE Begin(c)
    BY <2>1 DEF Begin
  <2>2. CASE GetCached(c)
    BY <2>2 DEF GetCached
  <2>3. CASE GetWait(c)
    BY <2>3 DEF GetWait
  <2>4. CASE GetDial(c)
    BY <2>4 DEF GetDial
  <2>5. CASE Woken(c)
    BY <2>5 DEF Woken
  <2>6. CASE DialSucceeds(c)
    BY <2>6 DEF DialSucceeds
  <2>7. CASE DialFails(c)
    BY <2>7 DEF DialFails
  <2>8. CASE Install(c)
    <3>1. /\ connections' = [connections EXCEPT ![EndpointOf[c]] = Own(c)]
          /\ conn[c] = Own(c) /\ UNCHANGED <<conn, open, attempt, waitOn, poolClosed>>
          /\ pc' = [pc EXCEPT ![c] = "use"] /\ Dialing(c) /\ EndDial(c)
      BY <2>8, InstallEffect
    <3>2. /\ dialing' = [dialing EXCEPT ![EndpointOf[c]] = None]
          /\ woken' = woken \cup {Own(c)} /\ Own(c) \in Conns
      BY <3>1, EndDialEffect
    <3>. QED BY <3>1, <3>2
  <2>9. CASE GetFails(c)
    BY <2>9, NextAttemptEffect, EndDialEffect DEF GetFails, Dialing
  <2>10. CASE WaitCanceled(c)
    BY <2>10 DEF WaitCanceled
  <2>11. CASE Served(c)
    BY <2>11, NextAttemptEffect DEF Served
  <2>12. CASE SendFails(c)
    BY <2>12 DEF SendFails
  <2>13. CASE Invalidate(c)
    <3>1. CASE Invalidates(c)
      BY <2>13, <3>1 DEF Invalidate
    <3>2. CASE ~Invalidates(c)
      BY <2>13, <3>2, NextAttemptEffect DEF Invalidate
    <3>. QED BY <3>1, <3>2
  <2>14. CASE CloseInvalidated(c)
    BY <2>14, NextAttemptEffect DEF CloseInvalidated
  <2>. QED BY <1>1, <2>1, <2>2, <2>3, <2>4, <2>5, <2>6, <2>7, <2>8, <2>9, <2>10, <2>11, <2>12, <2>13, <2>14 DEF Get
<1>2. ASSUME NEW k \in Conns, Break(k) PROVE HoldsDialed'
  BY <1>2 DEF Break
<1>3. CASE Close
  BY <1>3 DEF Close
<1>4. CASE UNCHANGED vars
  BY <1>4
<1>. QED BY <1>1, <1>2, <1>3, <1>4 DEF Next

(* Whatever stops holding an open connection hands it on or closes it.     *)
LEMMA OpenConnectionsOwnedStep == IInv /\ [Next]_vars => OpenConnectionsOwned'
<1>. SUFFICES ASSUME IInv, [Next]_vars PROVE OpenConnectionsOwned'
  OBVIOUS
<1>. USE CallsAssumption, AttemptsAssumption, NoneAssumption, OwnIsConn
     DEF IInv, TypeOK, SingleFlight, HoldsDialed, OpenConnectionsOwned, Dialing, Own, Cached, Usable, Invalidates, vars, callVars, poolVars, GoTo
<1>1. ASSUME NEW c \in Calls, Get(c) \/ WaitCanceled(c) \/ Begin(c) \/ Served(c) \/ SendFails(c)
                              \/ Invalidate(c) \/ CloseInvalidated(c)
      PROVE  OpenConnectionsOwned'
  <2>1. CASE Begin(c)
    BY <2>1 DEF Begin
  <2>2. CASE GetCached(c)
    BY <2>2 DEF GetCached
  <2>3. CASE GetWait(c)
    BY <2>3 DEF GetWait
  <2>4. CASE GetDial(c)
    BY <2>4 DEF GetDial
  <2>5. CASE Woken(c)
    BY <2>5 DEF Woken
  <2>6. CASE DialSucceeds(c)
    BY <2>6 DEF DialSucceeds
  <2>7. CASE DialFails(c)
    BY <2>7 DEF DialFails
  <2>8. CASE Install(c)
    <3>1. /\ connections' = [connections EXCEPT ![EndpointOf[c]] = Own(c)]
          /\ conn[c] = Own(c) /\ Cached(c) = None
          /\ UNCHANGED <<conn, open>> /\ pc' = [pc EXCEPT ![c] = "use"]
      BY <2>8, InstallEffect
    <3>2. ASSUME NEW k \in open, k # Own(c)
          PROVE  \/ \E e \in Endpoints : connections'[e] = k
                 \/ \E d \in Calls : conn[d] = k /\ pc'[d] \in {"dialed", "close"}
      <4>1. CASE \E e \in Endpoints : connections[e] = k
        BY <3>1, <4>1
      <4>2. CASE \E d \in Calls : conn[d] = k /\ pc[d] \in {"dialed", "close"}
        <5>1. PICK d \in Calls : conn[d] = k /\ pc[d] \in {"dialed", "close"}
          BY <4>2
        <5>2. d # c
          BY <3>1, <3>2, <5>1
        <5>3. pc'[d] = pc[d]
          BY <3>1, <5>2
        <5>. QED BY <5>1, <5>3
      <4>. QED BY <4>1, <4>2
    <3>. QED BY <3>1, <3>2
  <2>9. CASE GetFails(c)
    BY <2>9, NextAttemptEffect, EndDialEffect DEF GetFails, Dialing
  <2>10. CASE WaitCanceled(c)
    BY <2>10 DEF WaitCanceled
  <2>11. CASE Served(c)
    BY <2>11, NextAttemptEffect DEF Served
  <2>12. CASE SendFails(c)
    BY <2>12 DEF SendFails
  <2>13. CASE Invalidate(c)
    <3>1. CASE Invalidates(c)
      BY <2>13, <3>1 DEF Invalidate
    <3>2. CASE ~Invalidates(c)
      BY <2>13, <3>2, NextAttemptEffect DEF Invalidate
    <3>. QED BY <3>1, <3>2
  <2>14. CASE CloseInvalidated(c)
    BY <2>14, NextAttemptEffect DEF CloseInvalidated
  <2>. QED BY <1>1, <2>1, <2>2, <2>3, <2>4, <2>5, <2>6, <2>7, <2>8, <2>9, <2>10, <2>11, <2>12, <2>13, <2>14 DEF Get
<1>2. ASSUME NEW k \in Conns, Break(k) PROVE OpenConnectionsOwned'
  BY <1>2 DEF Break
<1>3. CASE Close
  BY <1>3 DEF Close
<1>4. CASE UNCHANGED vars
  BY <1>4
<1>. QED BY <1>1, <1>2, <1>3, <1>4 DEF Next

-----------------------------------------------------------------------------
(* The strengthened invariant holds in every behaviour.                    *)
THEOREM Invariance == Spec => []IInv
<1>1. IInv /\ [Next]_vars => IInv'
  BY TypeOKStep, SingleFlightStep, FreshDialsStep, HoldsDialedStep, OpenConnectionsOwnedStep DEF IInv
<1>. QED BY InitIInv, <1>1, PTL DEF Spec

(* Every variable of the pool keeps its type.                              *)
THEOREM TypeCorrect == Spec => []TypeOK
<1>1. IInv => TypeOK
  BY DEF IInv
<1>. QED BY Invariance, <1>1, PTL

(* One dial at a time for an endpoint, registered while it lasts.          *)
THEOREM OneDial == Spec => []SingleFlight
<1>1. IInv => SingleFlight
  BY DEF IInv
<1>. QED BY Invariance, <1>1, PTL

(* The other outcome of Get's second critical section, a connection cached *)
(* by somebody else while this call dialed, cannot happen.                 *)
THEOREM NeverSpare == Spec => [](\A c \in Calls : pc[c] = "dialed" => Cached(c) = None)
<1>1. IInv => \A c \in Calls : pc[c] = "dialed" => Cached(c) = None
  BY DEF IInv, SingleFlight, Dialing
<1>. QED BY Invariance, <1>1, PTL

(* No open connection is forgotten.                                        *)
THEOREM NoneForgotten == Spec => []OpenConnectionsOwned
<1>1. IInv => OpenConnectionsOwned
  BY DEF IInv
<1>. QED BY Invariance, <1>1, PTL

(* A working connection is evicted by Close or by a call that saw it fail. *)
THEOREM EvictedOnlyByUser == Spec => EvictedByUser
<1>. DEFINE Evicted == \A e \in Endpoints :
          connections[e] \in open /\ connections'[e] # connections[e] =>
              \/ poolClosed # poolClosed'
              \/ \E c \in Calls : pc[c] = "invalidate" /\ conn[c] = connections[e]
<1>1. IInv /\ [Next]_vars => [Evicted]_vars
  <2>. SUFFICES ASSUME IInv, Next PROVE Evicted
    BY DEF vars, callVars, poolVars
  <2>. USE DEF poolVars
  <2>1. CASE UNCHANGED connections
    BY <2>1
  <2>2. ASSUME NEW c \in Calls, ~Usable(c),
               connections' = [connections EXCEPT ![EndpointOf[c]] = None]
        PROVE  Evicted
    BY <2>2, CallsAssumption DEF IInv, TypeOK, Usable, Cached
  <2>3. ASSUME NEW c \in Calls, Install(c) PROVE Evicted
    BY <2>3, CallsAssumption, NoneAssumption DEF Install, IInv, TypeOK, SingleFlight, Dialing, Cached
  <2>4. ASSUME NEW c \in Calls, Invalidate(c) PROVE Evicted
    BY <2>4, CallsAssumption DEF Invalidate, Invalidates, IInv, TypeOK, Cached
  <2>5. CASE Close
    BY <2>5 DEF Close
  <2>. QED BY <2>1, <2>2, <2>3, <2>4, <2>5
       DEF Next, Get, Begin, GetCached, GetWait, GetDial, Woken, DialSucceeds, DialFails, GetFails,
           WaitCanceled, Served, SendFails, CloseInvalidated, Break
<1>. QED BY Invariance, <1>1, PTL DEF Spec, EvictedByUser
=============================================================================
