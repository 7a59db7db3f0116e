------------------------- MODULE ConsumerPositions -------------------------
(* The positions of a consumer (consumer.Client): Poll, Seek, Pause,       *)
(* Resume and Commit, also the Commit of the auto-commit loop, while a     *)
(* rejoin of the heartbeat loop or an Assign replaces the assignment.      *)
(* ConsumerGroup has the joins and the loops themselves, CoordinatorClient *)
(* the search for the coordinator, MetadataManager that for the leaders.   *)
(* Of two attempts of a request only the outcome is modelled here.         *)
EXTENDS Integers

CONSTANTS Partitions,
          Committers,      \* goroutines that commit: one of the application, the loop
          OffsetReset,     \* option: "earliest", "latest" or "none"
          MaxOffset,       \* bound: end of the logs, that are all written
          MaxCalls,        \* bound: calls of the application and the auto-commit loop
          MaxEvents        \* bound: rejoins, commits of other members and
                           \* OffsetCommits that time out

ASSUME BoundsAssumption == MaxOffset \in Nat /\ MaxCalls \in Nat /\ MaxEvents \in Nat
ASSUME ResetAssumption == OffsetReset \in {"earliest", "latest", "none"}

Offsets   == 0..MaxOffset
NoOffset  == -1                  \* no key in a map; also a broker's answer

VARIABLES
    assignment, nextOffsets, consumedOffsets, paused,
    \* the Poll under way
    pollPc, todo, fetching,
    fetchOffset,          \* next record of the fetch to hand over
    fetchEnd,             \* where its answer ends
    polled,               \* records of this Poll
    \* the rejoin under way
    joinPc, joining, loaded,
    snapshot,             \* what each Commit under way has still to commit
    superseded,           \* those among them that began before the newest
    late,                 \* OffsetCommits nobody waits for, not carried out yet
    committed,            \* the group's offsets
    calls, events,        \* what the bounds count
    \* history
    accounted,            \* offsets returned, dropped by a failed Poll or skipped on purpose
    ours,                 \* the last offset carried out for this client
    movedBack             \* partitions whose commits may go back

positionVars == <<assignment, nextOffsets, consumedOffsets, paused>>
pollVars     == <<pollPc, todo, fetching, fetchOffset, fetchEnd, polled>>
joinVars     == <<joinPc, joining, loaded>>
commitVars   == <<snapshot, superseded, late>>
groupVars    == <<committed, ours>>
historyVars  == <<accounted, movedBack>>
counts       == <<calls, events>>
vars == <<positionVars, pollVars, joinVars, commitVars, groupVars, counts, historyVars>>

Nowhere == [p \in Partitions |-> NoOffset]
Active  == {k \in Committers : snapshot[k] # Nowhere}

(* New, then Subscribe to all partitions of a group that has no offsets.   *)
Init ==
    /\ assignment = Partitions
    /\ nextOffsets = [p \in Partitions |-> 0]
    /\ consumedOffsets = Nowhere
    /\ paused = {}
    /\ pollPc = "idle" /\ todo = {} /\ fetching = {}
    /\ fetchOffset = 0 /\ fetchEnd = 0 /\ polled = {}
    /\ joinPc = "idle" /\ joining = {} /\ loaded = Nowhere
    /\ snapshot = [k \in Committers |-> Nowhere]
    /\ superseded = {} /\ late = {}
    /\ committed = Nowhere /\ ours = Nowhere
    /\ calls = 0 /\ events = 0
    /\ accounted = [p \in Partitions |-> {}]
    /\ movedBack = {}

-----------------------------------------------------------------------------
Call  == calls < MaxCalls /\ calls' = calls + 1 /\ UNCHANGED events
Event == events < MaxEvents /\ events' = events + 1 /\ UNCHANGED calls

(* Poll takes what is assigned and what is paused in one hold of mu.       *)
Poll ==
    /\ pollPc = "idle"
    /\ Call
    /\ assignment \ paused # {}
    /\ todo' = assignment \ paused
    /\ pollPc' = "next"
    /\ UNCHANGED <<positionVars, fetching, fetchOffset, fetchEnd, polled, joinVars,
                   commitVars, groupVars, historyVars>>

(* fetchPartition reads the position in another one. A partition that a    *)
(* rejoin has taken away meanwhile has none: the map gives 0.              *)
FetchPartition(p) ==
    /\ pollPc = "next"
    /\ p \in todo
    /\ todo' = todo \ {p}
    /\ fetching' = {p}
    /\ fetchOffset' = IF nextOffsets[p] = NoOffset THEN 0 ELSE nextOffsets[p]
    /\ movedBack' = IF nextOffsets[p] = NoOffset THEN movedBack \cup {p} ELSE movedBack
    /\ pollPc' = "fetch"
    /\ UNCHANGED <<positionVars, fetchEnd, polled, joinVars, commitVars, groupVars, counts,
                   accounted>>

NoFetch == fetching' = {} /\ fetchOffset' = 0 /\ fetchEnd' = 0

(* One of its two attempts, both from the same offset, is answered.        *)
FetchAnswered ==
    /\ pollPc = "fetch"
    /\ \/ /\ fetchEnd' \in (fetchOffset + 1)..MaxOffset
          /\ pollPc' = "records"
          /\ UNCHANGED <<fetching, fetchOffset>>
       \/ /\ pollPc' = "next"
          /\ NoFetch
    /\ UNCHANGED <<positionVars, todo, polled, joinVars, commitVars, groupVars, counts,
                   historyVars>>

(* Variant a bug could leave in the code: what is consumed is the answer,  *)
(* not the record handed over.                                             *)
ToRecordAhead ==
    /\ pollPc = "records"
    /\ \E p \in fetching :
         /\ nextOffsets' = [nextOffsets EXCEPT ![p] = fetchOffset + 1]
         /\ consumedOffsets' = [consumedOffsets EXCEPT ![p] = fetchEnd]
         /\ polled' = polled \cup {<<p, fetchOffset>>}
    /\ IF fetchOffset + 1 < fetchEnd
       THEN /\ fetchOffset' = fetchOffset + 1
            /\ UNCHANGED <<pollPc, fetching, fetchEnd>>
       ELSE /\ pollPc' = "next"
            /\ NoFetch
    /\ UNCHANGED <<assignment, paused, todo, joinVars, commitVars, groupVars, counts,
                   historyVars>>

(* Variant: the next fetch starts where this one did.                      *)
ToRecordStaying ==
    /\ pollPc = "records"
    /\ \E p \in fetching :
         /\ consumedOffsets' = [consumedOffsets EXCEPT ![p] = fetchOffset + 1]
         /\ polled' = polled \cup {<<p, fetchOffset>>}
    /\ IF fetchOffset + 1 < fetchEnd
       THEN /\ fetchOffset' = fetchOffset + 1
            /\ UNCHANGED <<pollPc, fetching, fetchEnd>>
       ELSE /\ pollPc' = "next"
            /\ NoFetch
    /\ UNCHANGED <<assignment, nextOffsets, paused, todo, joinVars, commitVars, groupVars,
                   counts, historyVars>>

(* toRecords advances both positions record by record, under mu each time. *)
ToRecord ==
    /\ pollPc = "records"
    /\ \E p \in fetching :
         /\ nextOffsets' = [nextOffsets EXCEPT ![p] = fetchOffset + 1]
         /\ consumedOffsets' = [consumedOffsets EXCEPT ![p] = fetchOffset + 1]
         /\ polled' = polled \cup {<<p, fetchOffset>>}
    /\ IF fetchOffset + 1 < fetchEnd
       THEN /\ fetchOffset' = fetchOffset + 1
            /\ UNCHANGED <<pollPc, fetching, fetchEnd>>
       ELSE /\ pollPc' = "next"
            /\ NoFetch
    /\ UNCHANGED <<assignment, paused, todo, joinVars, commitVars, groupVars, counts,
                   historyVars>>

(* The records of this Poll leave its hands.                               *)
EndPoll ==
    /\ pollPc' = "idle"
    /\ todo' = {}
    /\ NoFetch
    /\ polled' = {}
    /\ accounted' = [p \in Partitions |->
                        accounted[p] \cup {o \in Offsets : <<p, o>> \in polled}]
    /\ UNCHANGED <<positionVars, joinVars, commitVars, groupVars, counts, movedBack>>

PollReturns == pollPc = "next" /\ todo = {} /\ EndPoll

(* A fetch fails: the records of the partitions before it are dropped.     *)
PollFails == pollPc = "fetch" /\ EndPoll

-----------------------------------------------------------------------------
(* More than this offset has been committed for this client, or may be by  *)
(* a Commit under way or by a request left behind.                         *)
Overtaken(p, offset) ==
    \/ offset < ours[p]
    \/ \E k \in Active : offset < snapshot[k][p]
    \/ \E r \in late : r.partition = p /\ offset < r.offset

Skip(p, offset) == accounted[p] \cup 0..(offset - 1)

Seek(p, offset) ==
    /\ Call
    /\ p \in assignment
    /\ nextOffsets' = [nextOffsets EXCEPT ![p] = offset]
    /\ consumedOffsets' = [consumedOffsets EXCEPT ![p] = NoOffset]
    /\ accounted' = [accounted EXCEPT ![p] = Skip(p, offset)]
    /\ movedBack' = IF Overtaken(p, offset) THEN movedBack \cup {p} ELSE movedBack
    /\ UNCHANGED <<assignment, paused, pollVars, joinVars, commitVars, groupVars>>

Pause(p) ==
    /\ Call
    /\ p \notin paused
    /\ paused' = paused \cup {p}
    /\ UNCHANGED <<assignment, nextOffsets, consumedOffsets, pollVars, joinVars,
                   commitVars, groupVars, historyVars>>

Resume(p) ==
    /\ Call
    /\ p \in paused
    /\ paused' = paused \ {p}
    /\ UNCHANGED <<assignment, nextOffsets, consumedOffsets, pollVars, joinVars,
                   commitVars, groupVars, historyVars>>

-----------------------------------------------------------------------------
(* A rejoin finds the coordinator and asks it for the offset of every      *)
(* partition. Between its requests nobody sees anything of it.             *)
Rejoin ==
    /\ joinPc = "idle"
    /\ Event
    /\ \E partitions \in (SUBSET Partitions) \ {{}} : joining' = partitions
    /\ joinPc' = "offsets"
    /\ UNCHANGED <<positionVars, pollVars, loaded, commitVars, groupVars, historyVars>>

(* resetOffset and listOffset: where to begin without a committed offset.  *)
ResetOffsets == CASE OffsetReset = "earliest" -> {0}
                  [] OffsetReset = "latest"   -> {MaxOffset}
                  [] OTHER                    -> {}

(* fetchCommittedOffset is answered in one of its two attempts.            *)
FetchCommittedOffset(p) ==
    /\ joinPc = "offsets"
    /\ p \in joining
    /\ loaded[p] = NoOffset
    /\ \E offset \in IF committed[p] = NoOffset THEN ResetOffsets ELSE {committed[p]} :
         /\ loaded' = [loaded EXCEPT ![p] = offset]
         /\ accounted' = IF committed[p] = NoOffset
                         THEN [accounted EXCEPT ![p] = Skip(p, offset)] ELSE accounted
    /\ UNCHANGED <<positionVars, pollVars, joinPc, joining, commitVars, groupVars, counts,
                   movedBack>>

RejoinFails ==
    /\ joinPc = "offsets"
    /\ joinPc' = "idle"
    /\ joining' = {}
    /\ loaded' = Nowhere
    /\ UNCHANGED <<positionVars, pollVars, commitVars, groupVars, counts, historyVars>>

(* Install a set of positions. A fetch under way writes into the new       *)
(* positions, and a commit may have overtaken them.                        *)
Install(partitions, offsets) ==
    /\ assignment' = partitions
    /\ nextOffsets' = offsets
    /\ consumedOffsets' = Nowhere
    /\ movedBack' = movedBack \cup fetching
                     \cup {p \in partitions : Overtaken(p, offsets[p])}

InstallJoined ==
    /\ joinPc = "offsets"
    /\ \A p \in joining : loaded[p] # NoOffset
    /\ Install(joining, loaded)
    /\ paused' = paused \cap joining    \* keepPaused
    /\ joinPc' = "idle"
    /\ joining' = {}
    /\ loaded' = Nowhere
    /\ UNCHANGED <<pollVars, commitVars, groupVars, counts, accounted>>

(* Assign puts every position where it is told to.                         *)
Assign(p, offset) ==
    /\ Call
    /\ Install({p}, [Nowhere EXCEPT ![p] = offset])
    /\ paused' = {}
    /\ accounted' = [accounted EXCEPT ![p] = Skip(p, offset)]
    /\ UNCHANGED <<pollVars, joinVars, commitVars, groupVars>>

-----------------------------------------------------------------------------
(* Commit, of the application or of the auto-commit loop, takes the        *)
(* consumed positions in one hold of mu, and then asks without it. What    *)
(* earlier ones still ask, or have left behind, is old from then on.       *)
Commit(k) ==
    /\ snapshot[k] = Nowhere
    /\ Call
    /\ consumedOffsets # Nowhere
    /\ snapshot' = [snapshot EXCEPT ![k] = consumedOffsets]
    /\ superseded' = Active
    /\ late' = {[r EXCEPT !.old = TRUE] : r \in late}
    /\ UNCHANGED <<positionVars, pollVars, joinVars, groupVars, historyVars>>

(* The coordinator carries out a request: the offset is the group's,       *)
(* whatever it was, for a request names no member and no generation.       *)
CarriedOut(p, offset) ==
    /\ committed' = [committed EXCEPT ![p] = offset]
    /\ ours' = [ours EXCEPT ![p] = offset]

(* An answer ends the turn of the partition; a lost one leads to a second  *)
(* attempt with the same offset.                                           *)
OffsetCommit(k, p) ==
    /\ snapshot[k][p] # NoOffset
    /\ CarriedOut(p, snapshot[k][p])
    /\ snapshot' \in {snapshot, [snapshot EXCEPT ![k][p] = NoOffset]}
    /\ UNCHANGED <<positionVars, pollVars, joinVars, superseded, late, counts, historyVars>>

(* An attempt times out, or its connection breaks, while the request is on *)
(* the wire: the next attempt or the end of the Commit does not recall it. *)
AttemptTimesOut(k, p) ==
    /\ snapshot[k][p] # NoOffset
    /\ Event
    /\ late' = late \cup
           {[partition |-> p, offset |-> snapshot[k][p], old |-> k \in superseded]}
    /\ UNCHANGED <<positionVars, pollVars, joinVars, snapshot, superseded, groupVars,
                   historyVars>>

LateCommit(r) ==
    /\ r \in late
    /\ CarriedOut(r.partition, r.offset)
    /\ late' = late \ {r}
    /\ UNCHANGED <<positionVars, pollVars, joinVars, snapshot, superseded, counts, historyVars>>

(* A request fails for good: the partitions left are not committed.        *)
CommitFails(k) ==
    /\ snapshot[k] # Nowhere
    /\ snapshot' = [snapshot EXCEPT ![k] = Nowhere]
    /\ UNCHANGED <<positionVars, pollVars, joinVars, superseded, late, groupVars, counts,
                   historyVars>>

(* Another member of the group commits what it has polled. Every member is *)
(* assigned every partition (assignmentFromMetadata), so it may do that at *)
(* any time, for any partition and from any position of its own.           *)
OtherMemberCommits(p, offset) ==
    /\ Event
    /\ offset # committed[p]
    /\ committed' = [committed EXCEPT ![p] = offset]
    /\ accounted' = [accounted EXCEPT ![p] = Skip(p, offset)]
    /\ UNCHANGED <<positionVars, pollVars, joinVars, commitVars, ours, movedBack>>

-----------------------------------------------------------------------------
Polling == \/ Poll \/ FetchAnswered \/ ToRecord \/ PollReturns \/ PollFails
           \/ \E p \in Partitions : FetchPartition(p)

Placing == \/ \E p \in Partitions, offset \in Offsets :
                Seek(p, offset) \/ Assign(p, offset) \/ OtherMemberCommits(p, offset)
           \/ \E p \in Partitions : Pause(p) \/ Resume(p)

Rejoining == \/ Rejoin \/ RejoinFails \/ InstallJoined
             \/ \E p \in Partitions : FetchCommittedOffset(p)

Committing(k) == \/ Commit(k) \/ CommitFails(k)
                 \/ \E p \in Partitions : OffsetCommit(k, p) \/ AttemptTimesOut(k, p)

Next == \/ Polling \/ Placing \/ Rejoining
        \/ \E k \in Committers : Committing(k)
        \/ \E r \in late : LateCommit(r)

Spec == Init /\ [][Next]_vars

-----------------------------------------------------------------------------
Places == Offsets \cup {NoOffset}

Request == [partition: Partitions, offset: Offsets, old: BOOLEAN]

TypeOK ==
    /\ assignment \subseteq Partitions /\ paused \subseteq Partitions
    /\ nextOffsets \in [Partitions -> Places] /\ consumedOffsets \in [Partitions -> Places]
    /\ pollPc \in {"idle", "next", "fetch", "records"}
    /\ todo \subseteq Partitions /\ fetching \subseteq Partitions
    /\ fetchOffset \in Offsets /\ fetchEnd \in Offsets
    /\ polled \subseteq Partitions \X Offsets
    /\ joinPc \in {"idle", "offsets"}
    /\ joining \subseteq Partitions /\ loaded \in [Partitions -> Places]
    /\ snapshot \in [Committers -> [Partitions -> Places]]
    /\ superseded \subseteq Committers /\ late \subseteq Request
    /\ committed \in [Partitions -> Places] /\ ours \in [Partitions -> Places]
    /\ calls \in 0..MaxCalls /\ events \in 0..MaxEvents
    /\ accounted \in [Partitions -> SUBSET Offsets]
    /\ movedBack \subseteq Partitions

(* At least once, as far as the code keeps it: every record below the      *)
(* committed offset was returned by a Poll, is in the hands of the one     *)
(* under way, was dropped by one that failed later, skipped by Seek,       *)
(* Assign or a reset, or passed by a commit of another member, whatever    *)
(* rejoins, late requests and commits came between.                        *)
CommittedWasTaken ==
    \A p \in Partitions : \A o \in 0..(committed[p] - 1) :
        o \in accounted[p] \/ <<p, o>> \in polled

(* The request was sent by a Commit that a newer one has followed.         *)
Old(p, offset) ==
    \/ \E k \in superseded : snapshot[k][p] = offset
    \/ \E r \in late : r.old /\ r.partition = p /\ r.offset = offset

(* Of the offsets this client has the coordinator store for a partition,   *)
(* none is less than the one before, unless the request belongs to a       *)
(* Commit (consumer.go:306) that a newer one has overlapped or followed    *)
(* while it was on the wire, or a position was installed that a commit had *)
(* overtaken, or a fetch outlived the position it was begun for.           *)
CommitsForward ==
    [][\A p \in Partitions :
           ours'[p] < ours[p] => p \in movedBack \/ Old(p, ours'[p])]_vars

=============================================================================
