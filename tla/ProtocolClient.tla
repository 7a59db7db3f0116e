--------------------------- MODULE ProtocolClient ---------------------------
(* The protocol client (protocolclient.Client) and one broker: calls of    *)
(* Send that negotiate the version of an API, draw correlation ids, share  *)
(* a connection, repeat failed attempts and fall back to the default       *)
(* version. The broker changes its versions, breaks connections, answers   *)
(* late or never. Pool has the dials, Connection the life of a request.    *)
(* Assumed: a request can be encoded (a client id of a sane length).       *)
EXTENDS Integers

CONSTANTS Calls,            \* calls of Send, one each
          Supported,        \* versions of the API in the registry
          DefaultVersion,
          Ranges,           \* sets of versions that a broker may support
          MaxAttempts,      \* RetryOptions.MaxAttempts
          MaxID,            \* the largest int32
          MaxChanges,       \* bound: changes of the broker's versions
          MaxBreaks         \* bound: connections that break

ASSUME AttemptsAssumption == MaxAttempts \in Nat \ {0}
ASSUME IDAssumption == MaxID \in Nat \ {0}
ASSUME BoundsAssumption == MaxChanges \in Nat /\ MaxBreaks \in Nat
ASSUME VersionsAssumption == Supported \subseteq Nat /\ DefaultVersion \in Nat

VARIABLES
    versions,       \* cached range of the endpoint, {} if there is none
    nextID,
    connection,     \* number of the connection in the pool
    broken,         \* it has broken
    \* the calls
    pc, phase, version, attempt, id,
    using,          \* connection of the request
    got,            \* range in the answer to ApiVersions
    result,
    \* the broker
    brokerVersions,
    orphans,        \* requests it has, but nobody waits for
    changes, breaks,   \* what the bounds count
    \* history
    draws,          \* ids drawn
    drawn,          \* number of the draw of each call's id
    raced           \* somebody drew an id while the counter was being wrapped

counterVars == <<nextID, draws, drawn, raced>>
callVars    == <<pc, phase, version, attempt, id, using, got, result>>
connVars    == <<connection, broken, orphans>>
brokerVars  == <<brokerVersions, changes, breaks>>
vars == <<versions, counterVars, connVars, callVars, brokerVars>>

Init ==
    /\ versions = {}
    /\ nextID = 0
    /\ connection = 1
    /\ broken = FALSE
    /\ pc = [k \in Calls |-> "new"]
    /\ phase = [k \in Calls |-> "versions"]
    /\ version = [k \in Calls |-> DefaultVersion]
    /\ attempt = [k \in Calls |-> 1]
    /\ id = [k \in Calls |-> 0]
    /\ using = [k \in Calls |-> 0]
    /\ got = [k \in Calls |-> {}]
    /\ result = [k \in Calls |-> "none"]
    /\ brokerVersions \in Ranges
    /\ orphans = {}
    /\ changes = 0
    /\ breaks = 0
    /\ draws = 0
    /\ drawn = [k \in Calls |-> 0]
    /\ raced = FALSE

-----------------------------------------------------------------------------
GoTo(k, label) == pc' = [pc EXCEPT ![k] = label]

(* sendWithVersion begins.                                                 *)
Begin(k, thePhase, theVersion) ==
    /\ GoTo(k, "draw")
    /\ phase' = [phase EXCEPT ![k] = thePhase]
    /\ version' = [version EXCEPT ![k] = theVersion]
    /\ attempt' = [attempt EXCEPT ![k] = 1]

(* selectAPIVersion: the last registered version in the cached range.      *)
Selected(v) == /\ v \in Supported \cap versions
               /\ \A w \in Supported \cap versions : w <= v

Uncached == Supported \cap versions = {}

(* Send: take the version from the cache, or ask the broker first.         *)
Send(k) ==
    /\ pc[k] = "new"
    /\ \/ \E v \in Supported : Selected(v) /\ Begin(k, "request", v)
       \/ Uncached /\ Begin(k, "versions", DefaultVersion)
    /\ UNCHANGED <<versions, counterVars, connVars, id, using, got, result, brokerVars>>

(* After the answer look again: another call may have changed the cache.   *)
Select(k) ==
    /\ pc[k] = "select"
    /\ \/ \E v \in Supported : Selected(v) /\ Begin(k, "request", v)
       \/ Uncached /\ Begin(k, "request", DefaultVersion)
    /\ UNCHANGED <<versions, counterVars, connVars, id, using, got, result, brokerVars>>

CacheAPIVersions(k) ==
    /\ pc[k] = "cache"
    /\ versions' = got[k]
    /\ got' = [got EXCEPT ![k] = {}]
    /\ GoTo(k, "select")
    /\ UNCHANGED <<counterVars, connVars, phase, version, attempt, id, using, result, brokerVars>>

-----------------------------------------------------------------------------
Wrapped(n) == IF n > MaxID THEN -(MaxID + 1) ELSE n

(* nextCorrelationID adds in one atomic step, and repairs a value that has *)
(* wrapped in another.                                                     *)
DrawID(k) ==
    /\ pc[k] = "draw"
    /\ nextID' = Wrapped(nextID + 1)
    /\ draws' = draws + 1
    /\ drawn' = [drawn EXCEPT ![k] = draws + 1]
    /\ raced' = (raced \/ \E j \in Calls : pc[j] = "wrap")
    /\ IF nextID' <= 0
       THEN GoTo(k, "wrap") /\ UNCHANGED id
       ELSE GoTo(k, "get") /\ id' = [id EXCEPT ![k] = nextID']
    /\ UNCHANGED <<versions, connVars, phase, version, attempt, using, got, result, brokerVars>>

(* Variant a bug could leave in the code: the counter starts over at 0.    *)
StoreIDZero(k) ==
    /\ pc[k] = "wrap"
    /\ nextID' = 0
    /\ id' = [id EXCEPT ![k] = 1]
    /\ GoTo(k, "get")
    /\ UNCHANGED <<versions, draws, drawn, raced, connVars, phase, version, attempt, using, got,
                   result, brokerVars>>

StoreID(k) ==
    /\ pc[k] = "wrap"
    /\ nextID' = 1
    /\ id' = [id EXCEPT ![k] = 1]
    /\ GoTo(k, "get")
    /\ UNCHANGED <<versions, draws, drawn, raced, connVars, phase, version, attempt, using, got,
                   result, brokerVars>>

-----------------------------------------------------------------------------
(* Invalidate closes a connection, if the pool has it still. What the      *)
(* broker was doing for it is lost.                                        *)
Invalidate(c) ==
    IF c = connection
    THEN /\ connection' = connection + 1
         /\ broken' = FALSE
         /\ orphans' = {}
    ELSE UNCHANGED connVars

(* Variant: no return to the default version.                              *)
FinishPlain(k, outcome) ==
    /\ id' = [id EXCEPT ![k] = 0]
    /\ using' = [using EXCEPT ![k] = 0]
    /\ IF phase[k] = "versions"
       THEN Begin(k, "request", DefaultVersion) /\ UNCHANGED <<versions, result>>
       ELSE /\ GoTo(k, "done")
            /\ result' = [result EXCEPT ![k] = outcome]
            /\ UNCHANGED <<versions, phase, version, attempt>>

(* sendWithVersion ends without success. The request goes on with the      *)
(* default version if negotiation failed, or if the broker refuses the     *)
(* negotiated one; then the cached range is dropped.                       *)
Finish(k, outcome) ==
    /\ id' = [id EXCEPT ![k] = 0]
    /\ using' = [using EXCEPT ![k] = 0]
    /\ IF phase[k] = "versions"
       THEN Begin(k, "request", DefaultVersion) /\ UNCHANGED <<versions, result>>
       ELSE IF /\ phase[k] = "request"
               /\ outcome = "unsupported"
               /\ version[k] # DefaultVersion
       THEN /\ versions' = {}
            /\ Begin(k, "fallback", DefaultVersion)
            /\ UNCHANGED result
       ELSE /\ GoTo(k, "done")
            /\ result' = [result EXCEPT ![k] = outcome]
            /\ UNCHANGED <<versions, phase, version, attempt>>

(* canRetry: the next attempt draws an id of its own.                      *)
Retry(k) ==
    IF attempt[k] < MaxAttempts
    THEN /\ attempt' = [attempt EXCEPT ![k] = @ + 1]
         /\ GoTo(k, "draw")
         /\ id' = [id EXCEPT ![k] = 0]
         /\ using' = [using EXCEPT ![k] = 0]
         /\ UNCHANGED <<versions, phase, version, result>>
    ELSE Finish(k, "error")

Waiting(k) == pc[k] = "waiting"
Pending(k) == Waiting(k) /\ using[k] = connection    \* in its map

(* A connection that has broken is replaced by a dial, or the dial fails.  *)
Get(k) ==
    /\ pc[k] = "get"
    /\ connection' = IF broken THEN connection + 1 ELSE connection
    /\ orphans' = IF broken THEN {} ELSE orphans
    /\ broken' = FALSE
    /\ using' = [using EXCEPT ![k] = connection']
    /\ GoTo(k, "register")
    /\ UNCHANGED <<versions, counterVars, phase, version, attempt, id, got, result, brokerVars>>

GetFails(k) ==
    /\ pc[k] = "get"
    /\ broken
    /\ Retry(k)
    /\ UNCHANGED <<counterVars, connVars, got, brokerVars>>

(* Connection.Send: an id in use is an error, which tears the connection   *)
(* down like any other one of the transport.                               *)
Register(k) ==
    /\ pc[k] = "register"
    /\ using[k] = connection
    /\ ~broken
    /\ \A j \in Calls : Pending(j) => id[j] # id[k]
    /\ GoTo(k, "waiting")
    /\ UNCHANGED <<versions, counterVars, connVars, phase, version, attempt, id, using, got,
                   result, brokerVars>>

DuplicateID(k) ==
    /\ pc[k] = "register"
    /\ using[k] = connection
    /\ ~broken
    /\ \E j \in Calls : Pending(j) /\ id[j] = id[k]
    /\ Invalidate(using[k])
    /\ Retry(k)
    /\ UNCHANGED <<counterVars, got, brokerVars>>

(* The connection is closed, by a call or because it broke.                *)
ConnectionLost(k) ==
    /\ pc[k] \in {"register", "waiting"}
    /\ using[k] # connection \/ broken
    /\ Invalidate(using[k])
    /\ Retry(k)
    /\ UNCHANGED <<counterVars, got, brokerVars>>

(* Variant: a call that gives up tears the connection down.                *)
TimesOutInvalidating(k) ==
    /\ pc[k] \in {"draw", "get", "register", "waiting"}
    /\ Invalidate(using[k])
    /\ Finish(k, "error")
    /\ UNCHANGED <<counterVars, got, brokerVars>>

(* What the broker has of a call that waits.                               *)
Request(k) == [id |-> id[k], drawn |-> drawn[k], phase |-> phase[k], version |-> version[k]]

(* Its context ends, by RequestTimeout or from outside, also while it      *)
(* backs off. The request is still with the broker.                        *)
TimesOut(k) ==
    /\ pc[k] \in {"draw", "get", "register", "waiting"}
    /\ orphans' = IF Pending(k) /\ ~broken THEN orphans \cup {Request(k)} ELSE orphans
    /\ Finish(k, "error")
    /\ UNCHANGED <<counterVars, connection, broken, got, brokerVars>>

-----------------------------------------------------------------------------
Answerable(k) == Pending(k) /\ ~broken

(* ApiVersions is answered with the range of the moment.                   *)
AnswerVersions(k) ==
    /\ Answerable(k)
    /\ phase[k] = "versions"
    /\ got' = [got EXCEPT ![k] = brokerVersions]
    /\ GoTo(k, "cache")
    /\ id' = [id EXCEPT ![k] = 0]
    /\ using' = [using EXCEPT ![k] = 0]
    /\ UNCHANGED <<versions, counterVars, connVars, phase, version, attempt, result, brokerVars>>

Answer(k) ==
    /\ Answerable(k)
    /\ phase[k] # "versions"
    /\ version[k] \in brokerVersions
    /\ GoTo(k, "done")
    /\ result' = [result EXCEPT ![k] = "ok"]
    /\ id' = [id EXCEPT ![k] = 0]
    /\ using' = [using EXCEPT ![k] = 0]
    /\ UNCHANGED <<versions, counterVars, connVars, phase, version, attempt, got, brokerVars>>

AnswerUnsupported(k) ==
    /\ Answerable(k)
    /\ phase[k] # "versions"
    /\ version[k] \notin brokerVersions
    /\ Finish(k, "unsupported")
    /\ UNCHANGED <<counterVars, connVars, got, brokerVars>>

(* A code in the header of the response, one that is retried or another.   *)
AnswerCode(k) ==
    /\ Answerable(k)
    /\ Retry(k) \/ Finish(k, "error")
    /\ UNCHANGED <<counterVars, connVars, got, brokerVars>>

(* readLoop looks only at the id: the answer to a request that was given   *)
(* up goes to a call that waits under the same id now, whose own request   *)
(* is left behind in turn. It brings its code, or a body that the call     *)
(* decodes as the one it asked for: in vain, or to whatever comes out.     *)
CrossedAnswer(k) ==
    /\ Answerable(k)
    /\ \E r \in orphans :
         /\ r.id = id[k]
         /\ orphans' = (orphans \ {r}) \cup {Request(k)}
         /\ \/ /\ r.phase # "versions" /\ r.version \notin brokerVersions
               /\ Finish(k, "unsupported")
               /\ UNCHANGED got
            \/ /\ Retry(k) \/ Finish(k, "error")
               /\ UNCHANGED got
            \/ /\ r.phase = "versions" \/ r.version \in brokerVersions
               /\ IF phase[k] = "versions"
                  THEN /\ got' \in {[got EXCEPT ![k] = range] :
                                      range \in IF r.phase = "versions"
                                                THEN {brokerVersions} ELSE Ranges}
                       /\ GoTo(k, "cache")
                       /\ UNCHANGED result
                  ELSE /\ result' = [result EXCEPT ![k] = "ok"]
                       /\ GoTo(k, "done")
                       /\ UNCHANGED got
               /\ id' = [id EXCEPT ![k] = 0]
               /\ using' = [using EXCEPT ![k] = 0]
               /\ UNCHANGED <<versions, phase, version, attempt>>
    /\ UNCHANGED <<counterVars, connection, broken, brokerVars>>

(* Nobody waits under its id: readLoop drops the answer.                   *)
LateAnswer ==
    /\ \E r \in orphans : /\ \A k \in Calls : Pending(k) => id[k] # r.id
                          /\ orphans' = orphans \ {r}
    /\ UNCHANGED <<versions, counterVars, connection, broken, callVars, brokerVars>>

Break ==
    /\ breaks < MaxBreaks
    /\ ~broken
    /\ broken' = TRUE
    /\ orphans' = {}
    /\ breaks' = breaks + 1
    /\ UNCHANGED <<versions, counterVars, connection, callVars, brokerVersions, changes>>

Upgrade ==
    /\ changes < MaxChanges
    /\ changes' = changes + 1
    /\ brokerVersions' \in Ranges \ {brokerVersions}
    /\ UNCHANGED <<versions, counterVars, connVars, callVars, breaks>>

-----------------------------------------------------------------------------
Step(k) == \/ Send(k) \/ CacheAPIVersions(k) \/ Select(k)
           \/ DrawID(k) \/ StoreID(k) \/ Get(k) \/ GetFails(k) \/ Register(k)
           \/ DuplicateID(k) \/ ConnectionLost(k) \/ TimesOut(k)
           \/ AnswerVersions(k) \/ Answer(k) \/ AnswerUnsupported(k) \/ AnswerCode(k)
           \/ CrossedAnswer(k)

Next == (\E k \in Calls : Step(k)) \/ LateAnswer \/ Break \/ Upgrade

Spec == Init /\ [][Next]_vars

-----------------------------------------------------------------------------
Requests == [id : 1..MaxID, drawn : Nat, phase : {"versions", "request", "fallback"},
             version : Supported \cup {DefaultVersion}]

TypeOK ==
    /\ versions \in Ranges \cup {{}}
    /\ nextID \in (-(MaxID + 1))..MaxID
    /\ connection \in Nat \ {0}
    /\ broken \in BOOLEAN
    /\ pc \in [Calls -> {"new", "draw", "wrap", "get", "register", "waiting", "cache",
                         "select", "done"}]
    /\ phase \in [Calls -> {"versions", "request", "fallback"}]
    /\ version \in [Calls -> Supported \cup {DefaultVersion}]
    /\ attempt \in [Calls -> 1..MaxAttempts]
    /\ id \in [Calls -> 0..MaxID]
    /\ using \in [Calls -> Nat]
    /\ got \in [Calls -> Ranges \cup {{}}]
    /\ result \in [Calls -> {"none", "ok", "unsupported", "error"}]
    /\ brokerVersions \in Ranges
    /\ orphans \subseteq Requests
    /\ changes \in 0..MaxChanges /\ breaks \in 0..MaxBreaks
    /\ draws \in Nat /\ drawn \in [Calls -> Nat] /\ raced \in BOOLEAN

(* Requests of the connection that may still be answered.                  *)
Live == {Request(k) : k \in {j \in Calls : Pending(j)}} \cup orphans

Far(a, b) == a - b >= MaxID \/ b - a >= MaxID

(* The answer to one request never matches another one, as long as no      *)
(* request is outlived by MaxID others, also when the counter wraps. Only  *)
(* calls that draw while another one is between the two steps of a wrap    *)
(* break it.                                                               *)
LiveIdsApart ==
    ~raced => \A r, s \in Live : r.id = s.id => r = s \/ Far(r.drawn, s.drawn)

(* A connection that is not broken is taken down only by an id in use, and *)
(* that only after a race at the wrap or MaxID later ones: not by a call   *)
(* that times out, nor by one whose request failed on its predecessor.     *)
HealthyStays ==
    [][connection' # connection /\ ~broken =>
         \/ raced
         \/ \E k, j \in Calls : Pending(j) /\ id[k] = id[j] /\ Far(drawn[k], drawn[j])]_vars

(* No call fails for the version of its request while the broker supports  *)
(* the default one, however old the cached range is, and whoever drops or  *)
(* renews it in the meantime. What it takes is the refusal of an older     *)
(* request with its id, which needs a race at the wrap or MaxID draws.     *)
FallsBack ==
    [][\A k \in Calls : result[k] = "none" /\ result'[k] = "unsupported" =>
          \/ DefaultVersion \notin brokerVersions
          \/ \E r \in orphans : /\ r.id = id[k] /\ r.version \notin brokerVersions
                                /\ raced \/ Far(r.drawn, drawn[k])]_vars

=============================================================================
