----------------------- MODULE ProtocolClientProofs -----------------------
(* Proofs about ProtocolClient, for any calls, versions, attempts, size of *)
(* the correlation ids and bounds.                                         *)
EXTENDS ProtocolClient, TLAPS

(* A call that has an id, in one of the steps of an attempt.               *)
Holds(k) == pc[k] \in {"get", "register", "waiting"}

HeldIds == \A k \in Calls : Holds(k) => id[k] # 0

TypeInv == TypeOK /\ HeldIds

-----------------------------------------------------------------------------
LEMMA InitType == Init => TypeInv
<1>. SUFFICES ASSUME Init PROVE TypeInv
  OBVIOUS
<1>1. nextID \in (-(MaxID + 1))..MaxID /\ 0 \in 0..MaxID /\ 1 \in 1..MaxAttempts
  BY AttemptsAssumption, IDAssumption DEF Init
<1>2. changes \in 0..MaxChanges /\ breaks \in 0..MaxBreaks
  BY BoundsAssumption DEF Init
<1>3. /\ versions \in Ranges \cup {{}} /\ got \in [Calls -> Ranges \cup {{}}]
      /\ broken \in BOOLEAN /\ raced \in BOOLEAN /\ orphans \subseteq Requests
  BY DEF Init
<1>. QED BY <1>1, <1>2, <1>3 DEF Init, TypeInv, TypeOK, HeldIds, Holds

LEMMA BeginType ==
    ASSUME TypeInv, NEW k \in Calls, NEW p \in {"versions", "request", "fallback"},
           NEW v \in Supported \cup {DefaultVersion}, Begin(k, p, v)
    PROVE  /\ pc' = [pc EXCEPT ![k] = "draw"]
           /\ phase' \in [Calls -> {"versions", "request", "fallback"}]
           /\ version' \in [Calls -> Supported \cup {DefaultVersion}]
           /\ attempt' \in [Calls -> 1..MaxAttempts]
BY AttemptsAssumption DEF Begin, GoTo, TypeInv, TypeOK

Phases == {"new", "draw", "wrap", "get", "register", "waiting", "cache", "select", "done"}

(* What a call that leaves the connection changes.                         *)
Left(k) == /\ pc' \in [Calls -> Phases]
           /\ phase' \in [Calls -> {"versions", "request", "fallback"}]
           /\ version' \in [Calls -> Supported \cup {DefaultVersion}]
           /\ attempt' \in [Calls -> 1..MaxAttempts]
           /\ id' = [id EXCEPT ![k] = 0] /\ using' = [using EXCEPT ![k] = 0]
           /\ result' \in [Calls -> {"none", "ok", "unsupported", "error"}]
           /\ versions' \in Ranges \cup {{}}
           /\ pc'[k] \in {"draw", "done"}
           /\ \A j \in Calls \ {k} : pc'[j] = pc[j]

LEMMA FinishLeaves ==
    ASSUME TypeInv, NEW k \in Calls, NEW outcome \in {"unsupported", "error"}, Finish(k, outcome)
    PROVE  Left(k)
<1>. USE DEF TypeInv, TypeOK, Phases
<1>1. ASSUME NEW p \in {"versions", "request", "fallback"}, Begin(k, p, DefaultVersion),
             versions' \in Ranges \cup {{}}, result' = result
      PROVE  Left(k)
  <2>1. id' = [id EXCEPT ![k] = 0] /\ using' = [using EXCEPT ![k] = 0]
    BY DEF Finish
  <2>. QED BY <1>1, <2>1, BeginType DEF Left
<1>2. CASE phase[k] = "versions"
  BY <1>1, <1>2 DEF Finish
<1>3. CASE phase[k] = "request" /\ outcome = "unsupported" /\ version[k] # DefaultVersion
  BY <1>1, <1>3 DEF Finish
<1>4. CASE ~(phase[k] = "versions") /\
           ~(phase[k] = "request" /\ outcome = "unsupported" /\ version[k] # DefaultVersion)
  BY <1>4 DEF Finish, GoTo, Left
<1>. QED BY <1>2, <1>3, <1>4

LEMMA RetryLeaves == ASSUME TypeInv, NEW k \in Calls, Retry(k) PROVE Left(k)
<1>1. CASE attempt[k] < MaxAttempts
  BY <1>1, AttemptsAssumption DEF Retry, GoTo, Left, TypeInv, TypeOK, Phases
<1>2. CASE ~(attempt[k] < MaxAttempts)
  BY <1>2, FinishLeaves DEF Retry
<1>. QED BY <1>1, <1>2

LEMMA InvalidateType ==
    ASSUME TypeInv, NEW c, Invalidate(c)
    PROVE  /\ connection' \in Nat \ {0} /\ broken' \in BOOLEAN
           /\ orphans' = orphans \/ orphans' = {}
<1>1. CASE c = connection
  <2>1. connection' = connection + 1 /\ broken' = FALSE /\ orphans' = {}
    BY <1>1 DEF Invalidate
  <2>2. connection \in Nat \ {0}
    BY DEF TypeInv, TypeOK
  <2>3. connection + 1 \in Nat \ {0}
    BY <2>2
  <2>. QED BY <2>1, <2>3
<1>2. CASE c # connection
  <2>1. connection' = connection /\ broken' = broken /\ orphans' = orphans
    BY <1>2 DEF Invalidate, connVars
  <2>2. connection \in Nat \ {0} /\ broken \in BOOLEAN
    BY DEF TypeInv, TypeOK
  <2>. QED BY <2>1, <2>2
<1>. QED BY <1>1, <1>2

LEMMA LeftType ==
    ASSUME TypeInv, NEW k \in Calls, Left(k), UNCHANGED <<counterVars, got, brokerVars>>,
           connection' \in Nat \ {0}, broken' \in BOOLEAN,
           orphans' \subseteq Requests
    PROVE  TypeInv'
<1>1. id' \in [Calls -> 0..MaxID] /\ using' \in [Calls -> Nat]
  BY IDAssumption DEF Left, TypeInv, TypeOK
<1>2. HeldIds'
  BY DEF Left, TypeInv, TypeOK, HeldIds, Holds
<1>3. TypeOK'
  BY <1>1 DEF Left, Phases, TypeInv, TypeOK, counterVars, brokerVars
<1>. QED BY <1>2, <1>3 DEF TypeInv

(* A call that waits has a request with the broker.                        *)
LEMMA RequestType ==
    ASSUME TypeInv, NEW k \in Calls, Holds(k) PROVE Request(k) \in Requests
<1>1. id[k] \in 1..MaxID
  BY IDAssumption DEF TypeInv, TypeOK, HeldIds
<1>. QED BY <1>1 DEF Request, Requests, TypeInv, TypeOK

(* What a call that decodes an answer changes.                             *)
Granted(k) == /\ \E label \in {"cache", "done"} : pc' = [pc EXCEPT ![k] = label]
              /\ got' \in [Calls -> Ranges \cup {{}}]
              /\ result' = result \/ result' = [result EXCEPT ![k] = "ok"]
              /\ id' = [id EXCEPT ![k] = 0] /\ using' = [using EXCEPT ![k] = 0]
              /\ UNCHANGED <<versions, phase, version, attempt>>

LEMMA Crossing ==
    ASSUME TypeInv, NEW k \in Calls, CrossedAnswer(k)
    PROVE  /\ Holds(k) /\ UNCHANGED <<counterVars, connection, broken, brokerVars>>
           /\ orphans' \subseteq orphans \cup {Request(k)}
           /\ (Left(k) /\ UNCHANGED got) \/ Granted(k)
<1>1. Holds(k) /\ UNCHANGED <<counterVars, connection, broken, brokerVars>>
  BY DEF CrossedAnswer, Answerable, Pending, Waiting, Holds
<1>2. PICK r \in orphans :
         /\ r.id = id[k]
         /\ orphans' = (orphans \ {r}) \cup {Request(k)}
         /\ \/ /\ r.phase # "versions" /\ r.version \notin brokerVersions
               /\ Finish(k, "unsupported")
               /\ UNCHANGED got
            \/ /\ Retry(k) \/ Finish(k, "error")
               /\ UNCHANGED got
            \/ /\ r.phase = "versions" \/ r.version \in brokerVersions
               /\ IF phase[k] = "versions"
                  THEN /\ got' \in {[got EXCEPT ![k] = range] :
                                      range \in IF r.phase = "versions"
                                                THEN {brokerVersions} ELSE Ranges}
                       /\ GoTo(k, "cache")
                       /\ UNCHANGED result
                  ELSE /\ result' = [result EXCEPT ![k] = "ok"]
                       /\ GoTo(k, "done")
                       /\ UNCHANGED got
               /\ id' = [id EXCEPT ![k] = 0]
               /\ using' = [using EXCEPT ![k] = 0]
               /\ UNCHANGED <<versions, phase, version, attempt>>
  BY DEF CrossedAnswer
<1>3. CASE Finish(k, "unsupported") /\ UNCHANGED got
  BY <1>1, <1>2, <1>3, FinishLeaves
<1>4. CASE (Retry(k) \/ Finish(k, "error")) /\ UNCHANGED got
  BY <1>1, <1>2, <1>4, FinishLeaves, RetryLeaves
<1>5. CASE /\ IF phase[k] = "versions"
              THEN /\ got' \in {[got EXCEPT ![k] = range] :
                                  range \in IF r.phase = "versions"
                                            THEN {brokerVersions} ELSE Ranges}
                   /\ GoTo(k, "cache")
                   /\ UNCHANGED result
              ELSE /\ result' = [result EXCEPT ![k] = "ok"]
                   /\ GoTo(k, "done")
                   /\ UNCHANGED got
           /\ id' = [id EXCEPT ![k] = 0]
           /\ using' = [using EXCEPT ![k] = 0]
           /\ UNCHANGED <<versions, phase, version, attempt>>
  <2>1. CASE phase[k] = "versions"
    <3>1. PICK range \in Ranges : got' = [got EXCEPT ![k] = range]
      BY <1>5, <2>1 DEF TypeInv, TypeOK
    <3>2. got' \in [Calls -> Ranges \cup {{}}]
      BY <3>1 DEF TypeInv, TypeOK
    <3>. QED BY <1>1, <1>2, <1>5, <2>1, <3>2 DEF Granted, GoTo
  <2>2. CASE phase[k] # "versions"
    <3>1. got' \in [Calls -> Ranges \cup {{}}]
      BY <1>5, <2>2 DEF TypeInv, TypeOK
    <3>. QED BY <1>1, <1>2, <1>5, <2>2, <3>1 DEF Granted, GoTo
  <2>. QED BY <2>1, <2>2
<1>. QED BY <1>2, <1>3, <1>4, <1>5

LEMMA StepType == ASSUME TypeInv, NEW k \in Calls, Step(k) PROVE TypeInv'
<1>. USE DEF TypeInv, connVars, counterVars, brokerVars
<1>1. CASE Send(k) \/ Select(k)
  <2>1. PICK p \in {"versions", "request", "fallback"}, v \in Supported \cup {DefaultVersion} :
          Begin(k, p, v)
    BY <1>1 DEF Send, Select
  <2>2. UNCHANGED <<versions, counterVars, connVars, id, using, got, result, brokerVars>>
    BY <1>1 DEF Send, Select
  <2>3. HeldIds'
    BY <2>1, <2>2, BeginType DEF HeldIds, Holds, TypeOK
  <2>4. pc' \in [Calls -> Phases]
    BY <2>1, BeginType DEF TypeOK, Phases
  <2>. QED BY <2>1, <2>2, <2>3, <2>4, BeginType DEF TypeOK, Phases
<1>2. CASE CacheAPIVersions(k)
  BY <1>2 DEF CacheAPIVersions, GoTo, TypeOK, HeldIds, Holds
<1>3. CASE DrawID(k)
  <2>1. nextID' \in (-(MaxID + 1))..MaxID
    BY <1>3, IDAssumption DEF DrawID, Wrapped, TypeOK
  <2>2. CASE nextID' <= 0
    BY <1>3, <2>1, <2>2 DEF DrawID, GoTo, TypeOK, HeldIds, Holds
  <2>3. CASE ~(nextID' <= 0)
    <3>1. nextID' \in 1..MaxID
      BY <2>1, <2>3, IDAssumption
    <3>. QED BY <1>3, <2>1, <2>3, <3>1 DEF DrawID, GoTo, TypeOK, HeldIds, Holds
  <2>. QED BY <2>2, <2>3
<1>4. CASE StoreID(k)
  BY <1>4, IDAssumption DEF StoreID, GoTo, TypeOK, HeldIds, Holds
<1>5. CASE Get(k)
  <2>1. connection' \in Nat \ {0} /\ orphans' \subseteq Requests
    BY <1>5 DEF Get, TypeOK
  <2>. QED BY <1>5, <2>1 DEF Get, GoTo, TypeOK, HeldIds, Holds
<1>6. CASE Register(k)
  BY <1>6 DEF Register, GoTo, TypeOK, HeldIds, Holds
<1>7. CASE GetFails(k) \/ AnswerCode(k) \/ AnswerUnsupported(k)
  BY <1>7, RetryLeaves, FinishLeaves, LeftType DEF GetFails, AnswerCode, AnswerUnsupported, TypeOK
<1>8. CASE DuplicateID(k) \/ ConnectionLost(k)
  <2>1. Invalidate(using[k]) /\ Retry(k) /\ UNCHANGED <<counterVars, got, brokerVars>>
    BY <1>8 DEF DuplicateID, ConnectionLost
  <2>2. orphans' \subseteq Requests
    BY <2>1, InvalidateType DEF TypeOK
  <2>. QED BY <2>1, <2>2, RetryLeaves, InvalidateType, LeftType
<1>9. CASE TimesOut(k)
  <2>1. Pending(k) => id[k] \in 1..MaxID /\ drawn[k] \in Nat
    BY IDAssumption DEF Pending, Waiting, TypeOK, HeldIds, Holds
  <2>2. orphans' \subseteq Requests
    BY <1>9, <2>1 DEF TimesOut, TypeOK, Requests, Request
  <2>3. Left(k)
    BY <1>9, FinishLeaves DEF TimesOut
  <2>. QED BY <1>9, <2>2, <2>3, LeftType DEF TimesOut, TypeOK
<1>10. CASE AnswerVersions(k)
  BY <1>10, IDAssumption DEF AnswerVersions, GoTo, TypeOK, HeldIds, Holds
<1>11. CASE Answer(k)
  BY <1>11, IDAssumption DEF Answer, GoTo, TypeOK, HeldIds, Holds
<1>12. CASE CrossedAnswer(k)
  <2>1. orphans' \subseteq Requests
    BY <1>12, Crossing, RequestType DEF TypeOK
  <2>2. connection' \in Nat \ {0} /\ broken' \in BOOLEAN
    BY <1>12, Crossing DEF TypeOK
  <2>3. CASE Left(k) /\ UNCHANGED got
    BY <1>12, <2>1, <2>2, <2>3, Crossing, LeftType
  <2>4. CASE Granted(k)
    <3>1. id' \in [Calls -> 0..MaxID] /\ using' \in [Calls -> Nat]
      BY <2>4, IDAssumption DEF Granted, TypeOK
    <3>2. HeldIds'
      BY <2>4 DEF Granted, TypeOK, HeldIds, Holds
    <3>3. result' \in [Calls -> {"none", "ok", "unsupported", "error"}]
      BY <2>4 DEF Granted, TypeOK
    <3>4. pc' \in [Calls -> Phases]
      BY <2>4 DEF Granted, TypeOK, Phases
    <3>. QED BY <1>12, <2>1, <2>2, <2>4, <3>1, <3>2, <3>3, <3>4, Crossing
         DEF Granted, TypeOK, Phases
  <2>. QED BY <1>12, <2>3, <2>4, Crossing
<1>. QED BY <1>1, <1>2, <1>3, <1>4, <1>5, <1>6, <1>7, <1>8, <1>9, <1>10, <1>11, <1>12 DEF Step

LEMMA NextType == TypeInv /\ [Next]_vars => TypeInv'
<1>. SUFFICES ASSUME TypeInv, [Next]_vars PROVE TypeInv'
  OBVIOUS
<1>. USE DEF callVars, connVars, counterVars, brokerVars, TypeInv, TypeOK, HeldIds, Holds
<1>1. CASE LateAnswer
  BY <1>1 DEF LateAnswer
<1>2. CASE Break
  <2>1. breaks' \in 0..MaxBreaks /\ broken' \in BOOLEAN /\ orphans' = {}
    BY <1>2, BoundsAssumption DEF Break
  <2>. QED BY <1>2, <2>1 DEF Break
<1>3. CASE Upgrade
  BY <1>3, BoundsAssumption DEF Upgrade
<1>4. CASE UNCHANGED vars
  BY <1>4 DEF vars
<1>. QED BY <1>1, <1>2, <1>3, <1>4, StepType DEF Next

LEMMA TypeInvariant == Spec => []TypeInv
BY InitType, NextType, PTL DEF Spec

(* Ids, attempts, versions and ranges stay what they are: in particular no *)
(* request goes out under an id that is not positive, also when the        *)
(* counter wraps (nextCorrelationID, client.go:253).                       *)
THEOREM TypeCorrect == Spec => []TypeOK
<1>1. TypeInv => TypeOK
  BY DEF TypeInv
<1>. QED BY <1>1, TypeInvariant, PTL


-----------------------------------------------------------------------------
(* A request that has fallen back goes out in the default version.         *)
FallbackInv == \A k \in Calls : phase[k] = "fallback" => version[k] = DefaultVersion

LEMMA FallbackInit == Init => FallbackInv
BY DEF Init, FallbackInv

LEMMA FinishFallback ==
    ASSUME TypeInv, FallbackInv, NEW k \in Calls, NEW outcome, Finish(k, outcome)
    PROVE  FallbackInv'
BY DEF Finish, Begin, TypeInv, TypeOK, FallbackInv

LEMMA FallbackNext == TypeInv /\ FallbackInv /\ [Next]_vars => FallbackInv'
<1>. SUFFICES ASSUME TypeInv, FallbackInv, [Next]_vars PROVE FallbackInv'
  OBVIOUS
<1>1. UNCHANGED <<phase, version>> => FallbackInv'
  BY DEF FallbackInv
<1>2. ASSUME NEW k \in Calls, Retry(k) PROVE FallbackInv'
  BY <1>1, <1>2, FinishFallback DEF Retry
<1>3. ASSUME NEW k \in Calls, Step(k) PROVE FallbackInv'
  <2>1. CASE Send(k) \/ Select(k)
    BY <2>1 DEF Send, Select, Begin, FallbackInv, TypeInv, TypeOK
  <2>2. CASE GetFails(k) \/ DuplicateID(k) \/ ConnectionLost(k) \/ AnswerCode(k)
    BY <1>2, <2>2, FinishFallback DEF GetFails, DuplicateID, ConnectionLost, AnswerCode
  <2>3. CASE TimesOut(k) \/ AnswerUnsupported(k)
    BY <2>3, FinishFallback DEF TimesOut, AnswerUnsupported
  <2>5. CASE CrossedAnswer(k)
    BY <1>1, <1>2, <2>5, FinishFallback DEF CrossedAnswer
  <2>4. CASE CacheAPIVersions(k) \/ DrawID(k) \/ StoreID(k) \/ Get(k) \/ Register(k)
             \/ AnswerVersions(k) \/ Answer(k)
    BY <1>1, <2>4 DEF CacheAPIVersions, DrawID, StoreID, Get, Register, AnswerVersions, Answer
  <2>. QED BY <1>3, <2>1, <2>2, <2>3, <2>4, <2>5 DEF Step
<1>4. CASE LateAnswer \/ Break \/ Upgrade \/ UNCHANGED vars
  BY <1>1, <1>4 DEF LateAnswer, Break, Upgrade, vars, callVars
<1>. QED BY <1>3, <1>4 DEF Next

(* The answer to a request given up refuses its version to another call.   *)
RefusedForAnother(k) ==
    Holds(k) /\ \E r \in orphans : r.id = id[k] /\ r.version \notin brokerVersions

(* The result of a call is its own, and "unsupported" only the broker's.   *)
LEMMA ResultStep ==
    ASSUME TypeInv, NEW k \in Calls, Step(k), NEW j \in Calls,
           result[j] = "none", result'[j] = "unsupported"
    PROVE  j = k /\ (AnswerUnsupported(k) \/ RefusedForAnother(k))
<1>. USE DEF TypeInv, TypeOK
<1>1. ASSUME Finish(k, "error") PROVE FALSE
  BY <1>1 DEF Finish
<1>2. ASSUME Retry(k) PROVE FALSE
  BY <1>1, <1>2 DEF Retry
<1>3. ~UNCHANGED result
  OBVIOUS
<1>4. CASE AnswerUnsupported(k)
  BY <1>4 DEF AnswerUnsupported, Finish
<1>6. CASE CrossedAnswer(k)
  <2>1. PICK r \in orphans :
         /\ r.id = id[k]
         /\ \/ r.version \notin brokerVersions /\ Finish(k, "unsupported")
            \/ Retry(k) \/ Finish(k, "error")
            \/ UNCHANGED result \/ result' = [result EXCEPT ![k] = "ok"]
    BY <1>6 DEF CrossedAnswer
  <2>2. ~(UNCHANGED result \/ result' = [result EXCEPT ![k] = "ok"])
    BY <1>3
  <2>3. r.version \notin brokerVersions /\ Finish(k, "unsupported")
    BY <1>1, <1>2, <2>1, <2>2
  <2>4. j = k
    BY <2>3 DEF Finish
  <2>5. Holds(k)
    BY <1>6, Crossing
  <2>. QED BY <2>1, <2>3, <2>4, <2>5 DEF RefusedForAnother
<1>5. CASE ~AnswerUnsupported(k) /\ ~CrossedAnswer(k)
  <2>1. ~(GetFails(k) \/ DuplicateID(k) \/ ConnectionLost(k) \/ AnswerCode(k) \/ TimesOut(k))
    BY <1>1, <1>2 DEF GetFails, DuplicateID, ConnectionLost, AnswerCode, TimesOut
  <2>2. ~(\/ Send(k) \/ Select(k) \/ CacheAPIVersions(k) \/ DrawID(k) \/ StoreID(k)
          \/ Get(k) \/ Register(k) \/ AnswerVersions(k))
    BY <1>3 DEF Send, Select, CacheAPIVersions, DrawID, StoreID, Get, Register, AnswerVersions
  <2>3. ~Answer(k)
    BY DEF Answer
  <2>. QED BY <1>5, <2>1, <2>2, <2>3 DEF Step
<1>. QED BY <1>4, <1>5, <1>6

-----------------------------------------------------------------------------
(* Requests that have an id are told apart by the number of their draw.    *)
(* Without a race at the wrap the ids go round: a request that is less     *)
(* than MaxID draws old has the id the counter had then.                   *)
Drew(k) == Holds(k) \/ pc[k] = "wrap"

\* What the counter has been set to, or is about to be.
Counter == IF nextID < 0 THEN 1 ELSE nextID

Near(i, d) == draws - d < MaxID => \/ i = Counter - (draws - d)
                                   \/ i = Counter + MaxID - (draws - d)

Apart(i, d, j, e) == d # e /\ (i = j => Far(d, e))

DrawInv == /\ \A k \in Calls : drawn[k] <= draws
           /\ \A r \in orphans : r.drawn <= draws

WrapInv == /\ nextID < 0 => \E k \in Calls : pc[k] = "wrap"
           /\ \A k \in Calls : pc[k] = "wrap" => nextID < 0 /\ drawn[k] = draws
           /\ nextID = 0 => draws = 0

NearInv == /\ \A k \in Calls : Holds(k) => Near(id[k], drawn[k])
           /\ \A r \in orphans : Near(r.id, r.drawn)

ApartInv ==
    /\ \A j, k \in Calls : j # k /\ Drew(j) /\ Drew(k) => drawn[j] # drawn[k]
    /\ \A j, k \in Calls : j # k /\ Holds(j) /\ Holds(k) =>
                            Apart(id[j], drawn[j], id[k], drawn[k])
    /\ \A k \in Calls, r \in orphans : Drew(k) => drawn[k] # r.drawn
    /\ \A k \in Calls, r \in orphans : Holds(k) => Apart(id[k], drawn[k], r.id, r.drawn)
    /\ \A r, s \in orphans : r = s \/ Apart(r.id, r.drawn, s.id, s.drawn)

IdInv == DrawInv /\ (~raced => WrapInv /\ NearInv /\ ApartInv)

LEMMA IdInit == Init => IdInv
BY DEF Init, IdInv, DrawInv, WrapInv, NearInv, ApartInv, Drew, Holds

-----------------------------------------------------------------------------
(* Steps that draw no id: requests end, or lose their caller.              *)
Quiet ==
    /\ UNCHANGED <<nextID, draws, drawn, raced>>
    /\ \A k \in Calls : Holds(k)' => Holds(k) /\ id'[k] = id[k]
    /\ \A k \in Calls : (pc[k] = "wrap")' <=> pc[k] = "wrap"
    /\ \A r \in orphans' :
         \/ r \in orphans
         \/ \E k \in Calls : Holds(k) /\ ~Holds(k)' /\ ~Drew(k)' /\ r = Request(k)

LEMMA LeftQuiet ==
    ASSUME TypeInv, NEW k \in Calls, Left(k), UNCHANGED counterVars, pc[k] # "wrap",
           \A r \in orphans' : \/ r \in orphans
                               \/ Holds(k) /\ r = Request(k)
    PROVE  Quiet
<1>1. \A j \in Calls : Holds(j)' => Holds(j) /\ id'[j] = id[j]
  BY DEF Left, Holds, TypeInv, TypeOK
<1>2. \A j \in Calls : (pc[j] = "wrap")' <=> pc[j] = "wrap"
  BY DEF Left
<1>3. ~Holds(k)' /\ ~Drew(k)'
  BY DEF Left, Holds, Drew
<1>. QED BY <1>1, <1>2, <1>3 DEF Quiet, counterVars

LEMMA StepQuiet ==
    ASSUME TypeInv, NEW k \in Calls, Step(k) PROVE Quiet \/ DrawID(k) \/ StoreID(k)
<1>. USE DEF connVars, counterVars, brokerVars
<1>1. ASSUME UNCHANGED <<counterVars, id>>, orphans' \subseteq orphans,
             NEW label \in Phases \ {"wrap"}, pc' = [pc EXCEPT ![k] = label], pc[k] # "wrap",
             label \in {"get", "register", "waiting"} => Holds(k)
      PROVE  Quiet
  BY <1>1 DEF Quiet, Holds, Drew, TypeInv, TypeOK
<1>2. CASE Send(k) \/ Select(k) \/ CacheAPIVersions(k)
  <2>1. UNCHANGED <<counterVars, id, orphans>>
    BY <1>2 DEF Send, Select, CacheAPIVersions
  <2>2. PICK label \in {"draw", "select"} : pc' = [pc EXCEPT ![k] = label]
    BY <1>2 DEF Send, Select, CacheAPIVersions, Begin, GoTo
  <2>3. pc[k] # "wrap"
    BY <1>2 DEF Send, Select, CacheAPIVersions
  <2>. QED BY <1>1, <2>1, <2>2, <2>3 DEF Phases
<1>3. CASE Get(k) \/ Register(k)
  <2>1. UNCHANGED <<counterVars, id>> /\ orphans' \subseteq orphans
    BY <1>3 DEF Get, Register
  <2>2. PICK label \in {"register", "waiting"} : pc' = [pc EXCEPT ![k] = label]
    BY <1>3 DEF Get, Register, GoTo
  <2>3. Holds(k) /\ pc[k] # "wrap"
    BY <1>3 DEF Get, Register, Holds
  <2>. QED BY <1>1, <2>1, <2>2, <2>3 DEF Phases
<1>4. CASE GetFails(k) \/ AnswerCode(k) \/ AnswerUnsupported(k)
  <2>1. Left(k) /\ UNCHANGED <<counterVars, orphans>>
    BY <1>4, RetryLeaves, FinishLeaves DEF GetFails, AnswerCode, AnswerUnsupported
  <2>2. pc[k] # "wrap"
    BY <1>4 DEF GetFails, AnswerCode, AnswerUnsupported, Answerable, Pending, Waiting
  <2>. QED BY <2>1, <2>2, LeftQuiet
<1>5. CASE DuplicateID(k) \/ ConnectionLost(k)
  <2>1. Left(k) /\ UNCHANGED counterVars /\ Invalidate(using[k])
    BY <1>5, RetryLeaves DEF DuplicateID, ConnectionLost
  <2>2. pc[k] # "wrap"
    BY <1>5 DEF DuplicateID, ConnectionLost
  <2>3. \A r \in orphans' : r \in orphans
    BY <2>1, InvalidateType
  <2>. QED BY <2>1, <2>2, <2>3, LeftQuiet
<1>6. CASE TimesOut(k)
  <2>1. Left(k) /\ UNCHANGED counterVars /\ pc[k] # "wrap"
    BY <1>6, FinishLeaves DEF TimesOut
  <2>2. \A r \in orphans' : \/ r \in orphans
                            \/ Holds(k) /\ r = Request(k)
    BY <1>6 DEF TimesOut, Pending, Waiting, Holds
  <2>. QED BY <2>1, <2>2, LeftQuiet
<1>7. CASE AnswerVersions(k) \/ Answer(k)
  <2>1. PICK label \in {"cache", "done"} : pc' = [pc EXCEPT ![k] = label]
    BY <1>7 DEF AnswerVersions, Answer, GoTo
  <2>2. UNCHANGED <<counterVars, orphans>> /\ id' = [id EXCEPT ![k] = 0] /\ pc[k] # "wrap"
    BY <1>7 DEF AnswerVersions, Answer, Answerable, Pending, Waiting
  <2>. QED BY <2>1, <2>2 DEF Quiet, Holds, Drew, TypeInv, TypeOK
<1>8. CASE CrossedAnswer(k)
  <2>1. pc[k] # "wrap"
    BY <1>8 DEF CrossedAnswer, Answerable, Pending, Waiting
  <2>2. \A r \in orphans' : r \in orphans \/ (Holds(k) /\ r = Request(k))
    BY <1>8, Crossing
  <2>3. CASE Left(k)
    BY <1>8, <2>1, <2>2, <2>3, Crossing, LeftQuiet
  <2>4. CASE Granted(k)
    <3>1. PICK label \in {"cache", "done"} : pc' = [pc EXCEPT ![k] = label]
      BY <2>4 DEF Granted
    <3>2. id' = [id EXCEPT ![k] = 0] /\ UNCHANGED counterVars
      BY <1>8, <2>4, Crossing DEF Granted
    <3>3. ~Holds(k)' /\ ~Drew(k)'
      BY <3>1 DEF Holds, Drew, TypeInv, TypeOK
    <3>4. \A j \in Calls : Holds(j)' => Holds(j) /\ id'[j] = id[j]
      BY <3>1, <3>2 DEF Holds, TypeInv, TypeOK
    <3>5. \A j \in Calls : (pc[j] = "wrap")' <=> pc[j] = "wrap"
      BY <2>1, <3>1 DEF TypeInv, TypeOK
    <3>. QED BY <2>2, <3>2, <3>3, <3>4, <3>5 DEF Quiet
  <2>. QED BY <1>8, <2>3, <2>4, Crossing
<1>. QED BY <1>2, <1>3, <1>4, <1>5, <1>6, <1>7, <1>8 DEF Step

LEMMA QuietId == ASSUME TypeInv, TypeInv', IdInv, Quiet PROVE IdInv'
<1>1. \A k \in Calls : Drew(k)' => Drew(k)
  BY DEF Quiet, Drew
<1>2. DrawInv'
  BY DEF Quiet, IdInv, DrawInv, Request
<1>. SUFFICES ASSUME ~raced, DrawInv, WrapInv, NearInv, ApartInv
              PROVE  WrapInv' /\ NearInv' /\ ApartInv'
  BY <1>2 DEF IdInv, Quiet
<1>3. WrapInv'
  BY DEF Quiet, WrapInv
<1>4. NearInv'
  <2>1. ASSUME NEW k \in Calls, Holds(k)' PROVE Near(id[k], drawn[k])'
    BY <2>1 DEF Quiet, NearInv, Near, Counter
  <2>2. ASSUME NEW r \in orphans' PROVE Near(r.id, r.drawn)'
    <3>1. CASE r \in orphans
      BY <3>1 DEF Quiet, NearInv, Near, Counter
    <3>2. ASSUME NEW k \in Calls, Holds(k), r = Request(k)
          PROVE  Near(r.id, r.drawn)'
      <4>1. r.id = id[k] /\ r.drawn = drawn[k]
        BY <3>2 DEF Request
      <4>2. Near(r.id, r.drawn)
        BY <3>2, <4>1 DEF NearInv
      <4>. QED BY <4>2 DEF Quiet, Near, Counter
    <3>. QED BY <3>1, <3>2 DEF Quiet
  <2>. QED BY <2>1, <2>2 DEF NearInv
<1>5. ApartInv'
  <2>1. ASSUME NEW j \in Calls, NEW k \in Calls, j # k, Drew(j)', Drew(k)'
        PROVE  drawn'[j] # drawn'[k]
    BY <1>1, <2>1 DEF Quiet, ApartInv
  <2>2. ASSUME NEW j \in Calls, NEW k \in Calls, j # k, Holds(j)', Holds(k)'
        PROVE  Apart(id[j], drawn[j], id[k], drawn[k])'
    BY <2>2 DEF Quiet, ApartInv, Apart, Far
  <2>3. ASSUME NEW k \in Calls, NEW r \in orphans'
        PROVE  /\ Drew(k)' => drawn'[k] # r.drawn
               /\ Holds(k)' => Apart(id'[k], drawn'[k], r.id, r.drawn)
    <3>1. CASE r \in orphans
      BY <1>1, <3>1 DEF Quiet, ApartInv
    <3>2. ASSUME NEW j \in Calls, Holds(j), ~Drew(j)', r = Request(j)
          PROVE  /\ Drew(k)' => drawn'[k] # r.drawn
                 /\ Holds(k)' => Apart(id'[k], drawn'[k], r.id, r.drawn)
      <4>1. r.id = id[j] /\ r.drawn = drawn[j] /\ Drew(j)
        BY <3>2 DEF Drew, Request
      <4>2. Holds(k)' => Drew(k)'
        BY DEF Drew
      <4>. QED BY <1>1, <3>2, <4>1, <4>2 DEF Quiet, ApartInv
    <3>. QED BY <3>1, <3>2 DEF Quiet
  <2>4. ASSUME NEW r \in orphans', NEW t \in orphans', r # t
        PROVE  Apart(r.id, r.drawn, t.id, t.drawn)
    <3>. DEFINE Lost(o) == \E k \in Calls : Holds(k) /\ o = Request(k)
    <3>1. (r \in orphans \/ Lost(r)) /\ (t \in orphans \/ Lost(t))
      BY DEF Quiet
    <3>2. CASE r \in orphans /\ t \in orphans
      BY <2>4, <3>2 DEF ApartInv
    <3>3. ASSUME NEW j \in Calls, Holds(j), r = Request(j), t \in orphans
          PROVE  Apart(r.id, r.drawn, t.id, t.drawn)
      <4>1. r.id = id[j] /\ r.drawn = drawn[j]
        BY <3>3 DEF Request
      <4>. QED BY <3>3, <4>1 DEF ApartInv
    <3>4. ASSUME NEW k \in Calls, Holds(k), t = Request(k), r \in orphans
          PROVE  Apart(r.id, r.drawn, t.id, t.drawn)
      <4>1. t.id = id[k] /\ t.drawn = drawn[k]
        BY <3>4 DEF Request
      <4>2. Apart(id[k], drawn[k], r.id, r.drawn)
        BY <3>4 DEF ApartInv
      <4>3. id[k] \in Int /\ drawn[k] \in Int /\ r.id \in Int /\ r.drawn \in Int
        BY <3>4 DEF TypeInv, TypeOK, Requests
      <4>. QED BY <4>1, <4>2, <4>3 DEF Apart, Far
    <3>5. ASSUME NEW j \in Calls, Holds(j), r = Request(j),
                 NEW k \in Calls, Holds(k), t = Request(k)
          PROVE  Apart(r.id, r.drawn, t.id, t.drawn)
      <4>1. r.id = id[j] /\ r.drawn = drawn[j] /\ t.id = id[k] /\ t.drawn = drawn[k]
        BY <3>5 DEF Request
      <4>2. j # k
        BY <2>4, <3>5
      <4>. QED BY <3>5, <4>1, <4>2 DEF ApartInv
    <3>. QED BY <3>1, <3>2, <3>3, <3>4, <3>5
  <2>. QED BY <2>1, <2>2, <2>3, <2>4 DEF ApartInv, Apart, Far
<1>. QED BY <1>3, <1>4, <1>5



(* A draw moves the counter on by one, past the wrap also in effect.       *)
LEMMA CounterMoves ==
    ASSUME TypeInv, WrapInv, NEW k \in Calls, DrawID(k), \A j \in Calls : pc[j] # "wrap"
    PROVE  /\ nextID \in 0..MaxID /\ draws \in Nat /\ draws' = draws + 1 /\ orphans' = orphans
           /\ drawn' = [drawn EXCEPT ![k] = draws + 1]
           /\ \/ /\ nextID < MaxID /\ nextID' = nextID + 1
                 /\ pc' = [pc EXCEPT ![k] = "get"] /\ id' = [id EXCEPT ![k] = nextID + 1]
              \/ /\ nextID = MaxID /\ nextID' = -(MaxID + 1)
                 /\ pc' = [pc EXCEPT ![k] = "wrap"] /\ id' = id
<1>1. nextID \in 0..MaxID /\ draws \in Nat
  BY DEF WrapInv, TypeInv, TypeOK
<1>2. CASE nextID < MaxID
  <2>1. nextID' = nextID + 1 /\ ~(nextID' <= 0)
    BY <1>1, <1>2, IDAssumption DEF DrawID, Wrapped
  <2>. QED BY <1>1, <1>2, <2>1 DEF DrawID, GoTo, connVars
<1>3. CASE nextID = MaxID
  <2>1. nextID' = -(MaxID + 1) /\ nextID' <= 0
    BY <1>1, <1>3, IDAssumption DEF DrawID, Wrapped
  <2>. QED BY <1>1, <1>3, <2>1 DEF DrawID, GoTo, connVars
<1>4. /\ draws' = draws + 1 /\ orphans' = orphans
      /\ drawn' = [drawn EXCEPT ![k] = draws + 1]
  BY DEF DrawID, connVars
<1>5. nextID < MaxID \/ nextID = MaxID
  BY <1>1, IDAssumption
<1>. QED BY <1>1, <1>2, <1>3, <1>4, <1>5

LEMMA DrawIdNext ==
    ASSUME TypeInv, IdInv, NEW k \in Calls, DrawID(k) PROVE IdInv'
<1>0. draws \in Nat /\ drawn \in [Calls -> Nat]
      /\ \A r \in orphans : r.id \in 1..MaxID /\ r.drawn \in Nat
  BY DEF TypeInv, TypeOK, Requests
<1>1. DrawInv'
  <2>1. draws' = draws + 1 /\ drawn' = [drawn EXCEPT ![k] = draws + 1] /\ orphans' = orphans
    BY DEF DrawID, connVars
  <2>. QED BY <1>0, <2>1 DEF IdInv, DrawInv
<1>. SUFFICES ASSUME ~raced' PROVE WrapInv' /\ NearInv' /\ ApartInv'
  BY <1>1 DEF IdInv
<1>2. ~raced /\ \A j \in Calls : pc[j] # "wrap"
  BY DEF DrawID
<1>3. DrawInv /\ WrapInv /\ NearInv /\ ApartInv
  BY <1>2 DEF IdInv
<1>4. /\ nextID \in 0..MaxID /\ draws' = draws + 1 /\ orphans' = orphans
      /\ drawn' = [drawn EXCEPT ![k] = draws + 1]
  BY <1>2, <1>3, CounterMoves
<1>5. \/ /\ nextID < MaxID /\ nextID' = nextID + 1
         /\ pc' = [pc EXCEPT ![k] = "get"] /\ id' = [id EXCEPT ![k] = nextID + 1]
      \/ /\ nextID = MaxID /\ nextID' = -(MaxID + 1)
         /\ pc' = [pc EXCEPT ![k] = "wrap"] /\ id' = id
  BY <1>2, <1>3, CounterMoves
<1>6. Counter = nextID /\ Counter' = IF nextID < MaxID THEN nextID + 1 ELSE 1
  <2>1. nextID' = IF nextID < MaxID THEN nextID + 1 ELSE -(MaxID + 1)
    BY <1>4, <1>5
  <2>. QED BY <1>4, <2>1, IDAssumption DEF Counter
<1>7. ASSUME NEW i \in 1..MaxID, NEW d \in Nat, d <= draws, Near(i, d)
      PROVE  /\ \/ draws' - d >= MaxID
                \/ i = Counter' - (draws' - d)
                \/ i = Counter' + MaxID - (draws' - d)
             /\ nextID < MaxID /\ i = nextID + 1 => Far(draws + 1, d)
  BY <1>0, <1>4, <1>6, <1>7, IDAssumption DEF Near, Far
<1>8. \A j \in Calls : Holds(j) => id[j] \in 1..MaxID /\ drawn[j] \in Nat /\ drawn[j] <= draws
  BY <1>3, IDAssumption DEF TypeInv, TypeOK, HeldIds, DrawInv
<1>9. \A j \in Calls \ {k} : pc'[j] = pc[j] /\ id'[j] = id[j] /\ drawn'[j] = drawn[j]
  BY <1>4, <1>5 DEF TypeInv, TypeOK
<1>a. drawn'[k] = draws + 1 /\ pc'[k] \in {"get", "wrap"}
      /\ (pc'[k] = "get" => nextID < MaxID /\ id'[k] = nextID + 1)
      /\ (pc'[k] = "wrap" => nextID' < 0)
  <2>1. -(MaxID + 1) < 0
    BY IDAssumption
  <2>. QED BY <1>4, <1>5, <2>1 DEF TypeInv, TypeOK
<1>b. \A j \in Calls \ {k} : (Holds(j)' => Holds(j)) /\ (Drew(j)' => Drew(j))
  BY <1>9 DEF Holds, Drew
<1>c. Holds(k)' => nextID < MaxID /\ id'[k] = nextID + 1
  BY <1>a DEF Holds
<1>d. \A j \in Calls : drawn[j] \in Nat /\ drawn[j] <= draws
  BY <1>0, <1>3 DEF DrawInv
<1>10. WrapInv'
  <2>1. \A j \in Calls : pc'[j] = "wrap" => j = k
    BY <1>2, <1>9
  <2>2. nextID' # 0
    BY <1>4, <1>5, IDAssumption
  <2>3. nextID' < 0 => pc'[k] = "wrap"
    BY <1>4, <1>5, IDAssumption DEF TypeInv, TypeOK
  <2>. QED BY <1>4, <1>a, <2>1, <2>2, <2>3 DEF WrapInv
<1>11. NearInv'
  <2>1. ASSUME NEW j \in Calls, Holds(j)' PROVE Near(id[j], drawn[j])'
    <3>1. CASE j = k
      BY <1>0, <1>4, <1>6, <1>a, <1>c, <2>1, <3>1, IDAssumption DEF Near
    <3>2. CASE j # k
      <4>1. Holds(j) /\ id'[j] = id[j] /\ drawn'[j] = drawn[j]
        BY <1>9, <1>b, <2>1, <3>2
      <4>2. Near(id[j], drawn[j])
        BY <1>3, <4>1 DEF NearInv
      <4>3. \/ draws' - drawn[j] >= MaxID
            \/ id[j] = Counter' - (draws' - drawn[j])
            \/ id[j] = Counter' + MaxID - (draws' - drawn[j])
        BY <1>7, <1>8, <4>1, <4>2
      <4>4. draws' \in Int /\ drawn[j] \in Int /\ MaxID \in Int
        BY <1>0, <1>4, <1>d, IDAssumption
      <4>. QED BY <4>1, <4>3, <4>4 DEF Near
    <3>. QED BY <3>1, <3>2
  <2>2. ASSUME NEW r \in orphans PROVE Near(r.id, r.drawn)'
    <3>1. Near(r.id, r.drawn) /\ r.drawn <= draws
      BY <1>3 DEF NearInv, DrawInv
    <3>2. \/ draws' - r.drawn >= MaxID
          \/ r.id = Counter' - (draws' - r.drawn)
          \/ r.id = Counter' + MaxID - (draws' - r.drawn)
      BY <1>0, <1>7, <3>1
    <3>3. draws' \in Int /\ r.drawn \in Int /\ MaxID \in Int
      BY <1>0, <1>4, IDAssumption
    <3>. QED BY <3>2, <3>3 DEF Near
  <2>. QED BY <1>4, <2>1, <2>2 DEF NearInv
<1>12. ApartInv'
  <2>1. ASSUME NEW j \in Calls \ {k} PROVE drawn'[j] # drawn'[k]
    BY <1>0, <1>9, <1>a, <1>d
  <2>2. ASSUME NEW j \in Calls \ {k}, Holds(j), Holds(k)'
        PROVE  /\ Apart(id'[j], drawn'[j], id'[k], drawn'[k])
               /\ Apart(id'[k], drawn'[k], id'[j], drawn'[j])
    <3>1. id'[j] = id[j] /\ drawn'[j] = drawn[j] /\ id'[k] = nextID + 1 /\ nextID < MaxID
      BY <1>9, <1>c, <2>2
    <3>2. Near(id[j], drawn[j])
      BY <1>3, <2>2 DEF NearInv
    <3>3. id[j] = nextID + 1 => Far(draws + 1, drawn[j])
      BY <1>7, <1>8, <2>2, <3>1, <3>2
    <3>. QED BY <1>0, <1>a, <1>d, <2>1, <3>1, <3>3 DEF Apart, Far
  <2>3. ASSUME NEW j \in Calls \ {k}, NEW l \in Calls \ {k}, j # l, Holds(j), Holds(l)
        PROVE  Apart(id'[j], drawn'[j], id'[l], drawn'[l])
    BY <1>3, <1>9, <2>3 DEF ApartInv
  <2>4. ASSUME NEW r \in orphans, Holds(k)' PROVE Apart(id'[k], drawn'[k], r.id, r.drawn)
    <3>1. Near(r.id, r.drawn) /\ r.drawn <= draws
      BY <1>3 DEF NearInv, DrawInv
    <3>2. r.id = nextID + 1 => Far(draws + 1, r.drawn)
      BY <1>0, <1>7, <1>c, <2>4, <3>1
    <3>. QED BY <1>0, <1>a, <1>c, <2>4, <3>1, <3>2 DEF Apart
  <2>5. ASSUME NEW r \in orphans, NEW j \in Calls \ {k}, Holds(j)
        PROVE  Apart(id'[j], drawn'[j], r.id, r.drawn)
    BY <1>3, <1>9, <2>5 DEF ApartInv
  <2>6. ASSUME NEW j \in Calls, NEW l \in Calls, j # l, Drew(j)', Drew(l)'
        PROVE  drawn'[j] # drawn'[l]
    <3>1. CASE j = k \/ l = k
      BY <2>1, <2>6, <3>1
    <3>2. CASE j # k /\ l # k
      BY <1>3, <1>9, <1>b, <2>6, <3>2 DEF ApartInv
    <3>. QED BY <3>1, <3>2
  <2>7. ASSUME NEW j \in Calls, NEW r \in orphans, Drew(j)' PROVE drawn'[j] # r.drawn
    <3>1. CASE j = k
      <4>1. r.drawn <= draws
        BY <1>3 DEF DrawInv
      <4>. QED BY <1>0, <1>a, <3>1, <4>1
    <3>2. CASE j # k
      BY <1>3, <1>9, <1>b, <2>7, <3>2 DEF ApartInv
    <3>. QED BY <3>1, <3>2
  <2>8. ASSUME NEW j \in Calls, NEW l \in Calls, j # l, Holds(j)', Holds(l)'
        PROVE  Apart(id'[j], drawn'[j], id'[l], drawn'[l])
    <3>1. CASE j = k
      BY <1>b, <2>2, <2>8, <3>1
    <3>2. CASE l = k
      BY <1>b, <2>2, <2>8, <3>2
    <3>3. CASE j # k /\ l # k
      BY <1>b, <2>3, <2>8, <3>3
    <3>. QED BY <3>1, <3>2, <3>3
  <2>9. ASSUME NEW j \in Calls, NEW r \in orphans, Holds(j)'
        PROVE  Apart(id'[j], drawn'[j], r.id, r.drawn)
    <3>1. CASE j = k
      BY <2>4, <2>9, <3>1
    <3>2. CASE j # k
      BY <1>b, <2>5, <2>9, <3>2
    <3>. QED BY <3>1, <3>2
  <2>10. \A r, t \in orphans : r = t \/ Apart(r.id, r.drawn, t.id, t.drawn)
    BY <1>3 DEF ApartInv
  <2>. QED BY <1>4, <2>6, <2>7, <2>8, <2>9, <2>10 DEF ApartInv, Apart, Far
<1>. QED BY <1>10, <1>11, <1>12


LEMMA StoreIdNext ==
    ASSUME TypeInv, IdInv, NEW k \in Calls, StoreID(k) PROVE IdInv'
<1>0. draws \in Nat /\ drawn \in [Calls -> Nat]
      /\ \A r \in orphans : r.id \in 1..MaxID /\ r.drawn \in Nat
  BY DEF TypeInv, TypeOK, Requests
<1>1. /\ pc[k] = "wrap" /\ nextID' = 1 /\ UNCHANGED <<draws, drawn, raced, orphans>>
      /\ id' = [id EXCEPT ![k] = 1] /\ pc' = [pc EXCEPT ![k] = "get"]
  BY DEF StoreID, GoTo, connVars
<1>2. DrawInv'
  BY <1>1 DEF IdInv, DrawInv
<1>. SUFFICES ASSUME ~raced, WrapInv, NearInv, ApartInv PROVE WrapInv' /\ NearInv' /\ ApartInv'
  BY <1>1, <1>2 DEF IdInv
<1>3. nextID < 0 /\ drawn[k] = draws
  BY <1>1 DEF WrapInv
<1>4. Counter = 1 /\ Counter' = 1
  BY <1>1, <1>3 DEF Counter
<1>5. /\ \A j \in Calls \ {k} : pc'[j] = pc[j] /\ id'[j] = id[j]
      /\ id'[k] = 1 /\ pc'[k] = "get"
  BY <1>1 DEF TypeInv, TypeOK
<1>6. \A j \in Calls \ {k} : Holds(j)' => Holds(j)
  BY <1>5 DEF Holds
<1>7. \A j \in Calls : Drew(j)' => Drew(j)
  BY <1>1, <1>5 DEF Drew, Holds
<1>8. \A j \in Calls \ {k} : Drew(j) => drawn[j] # draws
  <2>1. Drew(k)
    BY <1>1 DEF Drew
  <2>. QED BY <1>3, <2>1 DEF ApartInv
<1>9. \A r \in orphans : r.drawn # draws
  BY <1>1, <1>3 DEF ApartInv, Drew
<1>10. ASSUME NEW i \in 1..MaxID, NEW d \in Nat, Near(i, d), d <= draws, d # draws
       PROVE  Apart(1, draws, i, d) /\ Apart(i, d, 1, draws)
  BY <1>0, <1>4, <1>10, IDAssumption DEF Near, Apart, Far
<1>11. \A j \in Calls : Holds(j) => id[j] \in 1..MaxID
  BY IDAssumption DEF TypeInv, TypeOK, HeldIds
<1>12. DrawInv
  BY DEF IdInv
<1>13. WrapInv'
  <2>1. ASSUME NEW j \in Calls PROVE pc'[j] # "wrap"
    <3>1. CASE j = k
      BY <1>5, <3>1
    <3>2. CASE j # k
      BY <1>5, <1>8, <3>2 DEF WrapInv, Drew
    <3>. QED BY <3>1, <3>2
  <2>. QED BY <1>1, <2>1 DEF WrapInv
<1>14. NearInv'
  <2>1. ASSUME NEW j \in Calls, Holds(j)' PROVE Near(id[j], drawn[j])'
    <3>1. CASE j = k
      BY <1>0, <1>1, <1>3, <1>4, <1>5, <3>1 DEF Near
    <3>2. CASE j # k
      BY <1>1, <1>4, <1>5, <1>6, <2>1, <3>2 DEF NearInv, Near
    <3>. QED BY <3>1, <3>2
  <2>2. ASSUME NEW r \in orphans PROVE Near(r.id, r.drawn)'
    BY <1>1, <1>4 DEF NearInv, Near
  <2>. QED BY <1>1, <2>1, <2>2 DEF NearInv
<1>15. ApartInv'
  <2>1. ASSUME NEW j \in Calls \ {k}, Holds(j)
        PROVE  /\ Apart(id'[k], drawn'[k], id'[j], drawn'[j])
               /\ Apart(id'[j], drawn'[j], id'[k], drawn'[k])
    <3>1. Near(id[j], drawn[j]) /\ drawn[j] <= draws /\ drawn[j] # draws /\ drawn[j] \in Nat
      BY <1>0, <1>8, <1>12, <2>1 DEF NearInv, DrawInv, Drew
    <3>2. Apart(1, draws, id[j], drawn[j]) /\ Apart(id[j], drawn[j], 1, draws)
      BY <1>10, <1>11, <2>1, <3>1
    <3>. QED BY <1>1, <1>3, <1>5, <3>2
  <2>2. ASSUME NEW r \in orphans PROVE Apart(id'[k], drawn'[k], r.id, r.drawn)
    <3>1. Near(r.id, r.drawn) /\ r.drawn <= draws /\ r.drawn # draws
      BY <1>9, <1>12 DEF NearInv, DrawInv
    <3>2. Apart(1, draws, r.id, r.drawn)
      BY <1>0, <1>10, <3>1
    <3>. QED BY <1>1, <1>3, <1>5, <3>2
  <2>3. ASSUME NEW j \in Calls, NEW l \in Calls, j # l, Holds(j)', Holds(l)'
        PROVE  Apart(id'[j], drawn'[j], id'[l], drawn'[l])
    <3>1. CASE j = k
      BY <1>6, <2>1, <2>3, <3>1
    <3>2. CASE l = k
      BY <1>6, <2>1, <2>3, <3>2
    <3>3. CASE j # k /\ l # k
      BY <1>1, <1>5, <1>6, <2>3, <3>3 DEF ApartInv
    <3>. QED BY <3>1, <3>2, <3>3
  <2>4. ASSUME NEW j \in Calls, NEW r \in orphans, Holds(j)'
        PROVE  Apart(id'[j], drawn'[j], r.id, r.drawn)
    <3>1. CASE j = k
      BY <2>2, <3>1
    <3>2. CASE j # k
      BY <1>1, <1>5, <1>6, <2>4, <3>2 DEF ApartInv
    <3>. QED BY <3>1, <3>2
  <2>5. /\ \A j, l \in Calls : j # l /\ Drew(j)' /\ Drew(l)' => drawn[j] # drawn[l]
        /\ \A j \in Calls, r \in orphans : Drew(j)' => drawn[j] # r.drawn
        /\ \A r, t \in orphans : r = t \/ Apart(r.id, r.drawn, t.id, t.drawn)
    BY <1>7 DEF ApartInv
  <2>. QED BY <1>1, <2>3, <2>4, <2>5 DEF ApartInv, Apart, Far
<1>. QED BY <1>13, <1>14, <1>15

LEMMA IdNext == TypeInv /\ IdInv /\ [Next]_vars => IdInv'
<1>. SUFFICES ASSUME TypeInv, TypeInv', IdInv, [Next]_vars PROVE IdInv'
  BY NextType
<1>1. CASE LateAnswer \/ Break \/ Upgrade \/ UNCHANGED vars
  <2>1. UNCHANGED <<counterVars, callVars>> /\ orphans' \subseteq orphans
    BY <1>1 DEF LateAnswer, Break, Upgrade, vars, connVars
  <2>2. Quiet
    BY <2>1 DEF Quiet, counterVars, callVars, Holds
  <2>. QED BY <2>2, QuietId
<1>2. ASSUME NEW k \in Calls, Step(k) PROVE IdInv'
  BY <1>2, StepQuiet, QuietId, DrawIdNext, StoreIdNext
<1>. QED BY <1>1, <1>2 DEF Next

LEMMA IdInvariant == Spec => []IdInv
BY TypeInvariant, IdInit, IdNext, PTL DEF Spec

(* For any versions of client and broker and any changes of them: no call  *)
(* returns UNSUPPORTED_VERSION while the broker has the default version    *)
(* (Client.Send, client.go:91), except for the answer to an older request  *)
(* with its id (Connection.readLoop, connection.go:147), and then its      *)
(* draw raced the wrap or is MaxID away.                                   *)
THEOREM DefaultIsTried == Spec => FallsBack
<1>1. TypeInv /\ FallbackInv /\ IdInv /\ [Next]_vars =>
        [\A k \in Calls : result[k] = "none" /\ result'[k] = "unsupported" =>
            \/ DefaultVersion \notin brokerVersions
            \/ \E r \in orphans : /\ r.id = id[k] /\ r.version \notin brokerVersions
                                  /\ raced \/ Far(r.drawn, drawn[k])]_vars
  <2>. SUFFICES ASSUME TypeInv, FallbackInv, IdInv, Next, NEW j \in Calls,
                       result[j] = "none", result'[j] = "unsupported",
                       DefaultVersion \in brokerVersions
                PROVE  \E r \in orphans : /\ r.id = id[j] /\ r.version \notin brokerVersions
                                          /\ raced \/ Far(r.drawn, drawn[j])
    OBVIOUS
  <2>1. ~(LateAnswer \/ Break \/ Upgrade)
    BY DEF LateAnswer, Break, Upgrade, callVars
  <2>2. AnswerUnsupported(j) \/ RefusedForAnother(j)
    BY <2>1, ResultStep DEF Next
  <2>3. ~AnswerUnsupported(j)
    <3>. SUFFICES ASSUME AnswerUnsupported(j) PROVE FALSE
      OBVIOUS
    <3>1. /\ phase[j] # "versions" /\ version[j] \notin brokerVersions
          /\ Finish(j, "unsupported")
      BY DEF AnswerUnsupported
    <3>2. version[j] = DefaultVersion \/ phase[j] # "request"
      BY <3>1 DEF Finish, TypeInv, TypeOK
    <3>. QED BY <3>1, <3>2 DEF FallbackInv, TypeInv, TypeOK
  <2>4. Holds(j)
    BY <2>2, <2>3 DEF RefusedForAnother
  <2>5. PICK r \in orphans : r.id = id[j] /\ r.version \notin brokerVersions
    BY <2>2, <2>3 DEF RefusedForAnother
  <2>6. raced \/ Far(drawn[j], r.drawn)
    BY <2>4, <2>5 DEF IdInv, ApartInv, Apart
  <2>. QED BY <2>5, <2>6 DEF Far
<1>. QED BY <1>1, TypeInvariant, FallbackInit, FallbackNext, IdInvariant, PTL DEF Spec, FallsBack

(* For any number of calls and any size of the ids: requests that may      *)
(* still be answered have different ids, unless one is outlived by MaxID   *)
(* others, or a draw raced the two steps of a wrap (client.go:253).        *)
THEOREM IdsApart == Spec => []LiveIdsApart
<1>1. IdInv => LiveIdsApart
  <2>. SUFFICES ASSUME ApartInv, NEW r \in Live, NEW s \in Live, r.id = s.id, r # s
                PROVE  Far(r.drawn, s.drawn)
    BY DEF IdInv, LiveIdsApart
  <2>. DEFINE Of(o, k) == Holds(k) /\ o.id = id[k] /\ o.drawn = drawn[k]
                          /\ o = Request(k)
  <2>1. \A o \in Live : o \in orphans \/ \E k \in Calls : Of(o, k)
    BY DEF Live, Pending, Waiting, Holds, Request
  <2>2. CASE r \in orphans /\ s \in orphans
    BY <2>2 DEF ApartInv, Apart
  <2>3. ASSUME NEW k \in Calls, Of(r, k), s \in orphans PROVE Far(r.drawn, s.drawn)
    BY <2>3 DEF ApartInv, Apart
  <2>4. ASSUME NEW k \in Calls, Of(s, k), r \in orphans PROVE Far(r.drawn, s.drawn)
    <3>1. Far(s.drawn, r.drawn)
      BY <2>4 DEF ApartInv, Apart
    <3>. QED BY <3>1 DEF Far
  <2>5. ASSUME NEW j \in Calls, Of(r, j), NEW k \in Calls, Of(s, k) PROVE Far(r.drawn, s.drawn)
    <3>1. j # k
      BY <2>5
    <3>. QED BY <2>5, <3>1 DEF ApartInv, Apart
  <2>. QED BY <2>1, <2>2, <2>3, <2>4, <2>5
<1>. QED BY <1>1, IdInvariant, PTL

(* A connection that is not broken is replaced only because of an id in    *)
(* use, and that takes a race at the wrap or MaxID draws in between: not   *)
(* for a call that times out, and not for a failure on its predecessor     *)
(* (Client.sendWithVersion, client.go:162).                                *)
THEOREM HealthyStaysUp == Spec => HealthyStays
<1>1. ASSUME TypeInv, IdInv, Next, connection' # connection, ~broken, ~raced
      PROVE  \E k, j \in Calls : Pending(j) /\ id[k] = id[j] /\ Far(drawn[k], drawn[j])
  <2>1. PICK k \in Calls : Step(k)
    BY <1>1 DEF Next, LateAnswer, Break, Upgrade, connVars
  <2>2. DuplicateID(k)
    <3>1. ~ConnectionLost(k)
      BY <1>1 DEF ConnectionLost, Invalidate, connVars
    <3>. QED BY <1>1, <2>1, <3>1
         DEF Step, Send, CacheAPIVersions, Select, DrawID, StoreID, Get, GetFails, Register, TimesOut,
             AnswerVersions, Answer, AnswerUnsupported, AnswerCode, CrossedAnswer, connVars
  <2>3. PICK j \in Calls : Pending(j) /\ id[j] = id[k]
    BY <2>2 DEF DuplicateID
  <2>4. Holds(j) /\ Holds(k) /\ j # k
    BY <2>2, <2>3 DEF DuplicateID, Pending, Waiting, Holds
  <2>5. Far(drawn[k], drawn[j])
    BY <1>1, <2>3, <2>4 DEF IdInv, ApartInv, Apart
  <2>. QED BY <2>3, <2>5
<1>2. TypeInv /\ IdInv /\ [Next]_vars =>
        [connection' # connection /\ ~broken =>
           \/ raced
           \/ \E k, j \in Calls : Pending(j) /\ id[k] = id[j] /\ Far(drawn[k], drawn[j])]_vars
  BY <1>1
<1>. QED BY <1>2, TypeInvariant, IdInvariant, PTL DEF Spec, HealthyStays

=============================================================================
