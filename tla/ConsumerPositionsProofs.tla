---------------------- MODULE ConsumerPositionsProofs ----------------------
(* Proofs about ConsumerPositions, for any partitions, committers, options *)
(* and bounds.                                                             *)
EXTENDS ConsumerPositions, TLAPS

(* The fetch that toRecords works on has a record left.                    *)
RecordLeft == pollPc = "records" => fetchOffset < fetchEnd

TypeInv == TypeOK /\ RecordLeft

-----------------------------------------------------------------------------
LEMMA NumbersFacts ==
    /\ Offsets \subseteq Places /\ NoOffset \in Places /\ 0 \in Offsets /\ MaxOffset \in Offsets
    /\ Offsets \subseteq Int /\ NoOffset \notin Offsets
    /\ Nowhere \in [Partitions -> Places]
BY BoundsAssumption DEF Offsets, Places, NoOffset, Nowhere

LEMMA CallType ==
    ASSUME calls \in 0..MaxCalls, events \in 0..MaxEvents, Call \/ Event
    PROVE  calls' \in 0..MaxCalls /\ events' \in 0..MaxEvents
BY BoundsAssumption DEF Call, Event

LEMMA SkipType ==
    ASSUME TypeOK, NEW p \in Partitions, NEW offset \in Offsets
    PROVE  Skip(p, offset) \in SUBSET Offsets
BY BoundsAssumption DEF TypeOK, Skip, Offsets

LEMMA ResetType == ResetOffsets \subseteq Offsets
<1>1. CASE OffsetReset = "earliest"
  BY <1>1, NumbersFacts DEF ResetOffsets
<1>2. CASE OffsetReset = "latest"
  BY <1>2, NumbersFacts DEF ResetOffsets
<1>3. CASE OffsetReset = "none"
  BY <1>3 DEF ResetOffsets
<1>. QED BY <1>1, <1>2, <1>3, ResetAssumption

LEMMA InitType == Init => TypeInv
BY NumbersFacts, BoundsAssumption DEF Init, TypeInv, TypeOK, RecordLeft, Places

LEMMA PollType == ASSUME TypeInv, Polling PROVE TypeInv'
<1>. USE NumbersFacts DEF TypeInv, TypeOK, RecordLeft, positionVars, joinVars, historyVars, commitVars,
        groupVars, counts
<1>1. CASE Poll
  BY <1>1, CallType DEF Poll
<1>2. ASSUME NEW p \in Partitions, FetchPartition(p) PROVE TypeInv'
  BY <1>2 DEF FetchPartition, Places
<1>3. CASE FetchAnswered
  BY <1>3, BoundsAssumption DEF FetchAnswered, NoFetch, Offsets
<1>4. CASE ToRecord
  <2>1. fetchOffset + 1 \in Offsets
    BY <1>4, BoundsAssumption DEF ToRecord, Offsets
  <2>2. fetchOffset + 1 < fetchEnd => fetchOffset' = fetchOffset + 1 /\ fetchEnd' = fetchEnd
    BY <1>4 DEF ToRecord
  <2>3. pollPc' = "records" => fetchOffset + 1 < fetchEnd
    BY <1>4 DEF ToRecord
  <2>4. RecordLeft'
    BY <2>2, <2>3
  <2>5. fetchOffset' \in Offsets /\ fetchEnd' \in Offsets /\ fetching' \subseteq Partitions
        /\ pollPc' \in {"idle", "next", "fetch", "records"}
    BY <1>4, <2>1 DEF ToRecord, NoFetch
  <2>6. /\ nextOffsets' \in [Partitions -> Places]
        /\ consumedOffsets' \in [Partitions -> Places]
        /\ polled' \subseteq Partitions \X Offsets
    BY <1>4, <2>1 DEF ToRecord
  <2>. QED BY <1>4, <2>4, <2>5, <2>6 DEF ToRecord
<1>5. ASSUME EndPoll PROVE TypeInv'
  BY <1>5 DEF EndPoll, NoFetch
<1>. QED BY <1>1, <1>2, <1>3, <1>4, <1>5 DEF Polling, PollReturns, PollFails

LEMMA InstallType ==
    ASSUME TypeInv, NEW partitions \in SUBSET Partitions,
           NEW offsets \in [Partitions -> Places], Install(partitions, offsets)
    PROVE  /\ assignment' \subseteq Partitions
           /\ nextOffsets' \in [Partitions -> Places]
           /\ consumedOffsets' \in [Partitions -> Places]
           /\ movedBack' \subseteq Partitions
BY NumbersFacts DEF Install, TypeInv, TypeOK

LEMMA PlaceType == ASSUME TypeInv, Placing PROVE TypeInv'
<1>. USE NumbersFacts DEF TypeInv, RecordLeft, positionVars, joinVars, pollVars, historyVars,
        commitVars, groupVars, counts
<1>1. ASSUME NEW p \in Partitions, NEW offset \in Offsets, Seek(p, offset) PROVE TypeInv'
  <2>1. calls' \in 0..MaxCalls /\ events' \in 0..MaxEvents
    BY <1>1, CallType DEF Seek, TypeOK
  <2>2. accounted' \in [Partitions -> SUBSET Offsets]
    BY <1>1, SkipType DEF Seek, TypeOK
  <2>3. movedBack' \subseteq Partitions 
    BY <1>1 DEF Seek, TypeOK
  <2>. QED BY <1>1, <2>1, <2>2, <2>3 DEF Seek, TypeOK
<1>2. ASSUME NEW p \in Partitions, NEW offset \in Offsets, Assign(p, offset) PROVE TypeInv'
  <2>1. calls' \in 0..MaxCalls /\ events' \in 0..MaxEvents
    BY <1>2, CallType DEF Assign, TypeOK
  <2>2. accounted' \in [Partitions -> SUBSET Offsets]
    BY <1>2, SkipType DEF Assign, TypeOK
  <2>3. [Nowhere EXCEPT ![p] = offset] \in [Partitions -> Places]
    OBVIOUS
  <2>4. Install({p}, [Nowhere EXCEPT ![p] = offset])
    BY <1>2 DEF Assign
  <2>. QED BY <1>2, <2>1, <2>2, <2>3, <2>4, InstallType DEF Assign, TypeOK
<1>3. ASSUME NEW p \in Partitions, NEW offset \in Offsets, OtherMemberCommits(p, offset)
      PROVE  TypeInv'
  <2>1. calls' \in 0..MaxCalls /\ events' \in 0..MaxEvents
    BY <1>3, CallType DEF OtherMemberCommits, TypeOK
  <2>2. accounted' \in [Partitions -> SUBSET Offsets]
    BY <1>3, SkipType DEF OtherMemberCommits, TypeOK
  <2>. QED BY <1>3, <2>1, <2>2 DEF OtherMemberCommits, TypeOK
<1>4. ASSUME NEW p \in Partitions, Pause(p) \/ Resume(p) PROVE TypeInv'
  BY <1>4, CallType DEF Pause, Resume, TypeOK
<1>. QED BY <1>1, <1>2, <1>3, <1>4 DEF Placing

LEMMA RejoinType == ASSUME TypeInv, Rejoining PROVE TypeInv'
<1>. USE NumbersFacts DEF TypeInv, RecordLeft, positionVars, pollVars, historyVars, commitVars,
        groupVars, counts
<1>1. CASE Rejoin
  BY <1>1, CallType DEF Rejoin, TypeOK
<1>2. CASE RejoinFails
  BY <1>2 DEF RejoinFails, TypeOK
<1>3. CASE InstallJoined
  BY <1>3, InstallType DEF InstallJoined, TypeOK
<1>4. ASSUME NEW p \in Partitions, FetchCommittedOffset(p) PROVE TypeInv'
  <2>1. PICK offset \in IF committed[p] = NoOffset THEN ResetOffsets ELSE {committed[p]} :
          /\ loaded' = [loaded EXCEPT ![p] = offset]
          /\ accounted' = IF committed[p] = NoOffset
                          THEN [accounted EXCEPT ![p] = Skip(p, offset)] ELSE accounted
    BY <1>4 DEF FetchCommittedOffset
  <2>2. committed[p] \in Places
    BY DEF TypeOK
  <2>3. offset \in Offsets
    BY <2>1, <2>2, ResetType DEF Places
  <2>4. accounted' \in [Partitions -> SUBSET Offsets]
    BY <2>1, <2>3, SkipType DEF TypeOK
  <2>5. loaded' \in [Partitions -> Places]
    BY <2>1, <2>3 DEF TypeOK
  <2>. QED BY <1>4, <2>4, <2>5 DEF FetchCommittedOffset, TypeOK
<1>. QED BY <1>1, <1>2, <1>3, <1>4 DEF Rejoining

LEMMA CommitType == ASSUME TypeInv, NEW k \in Committers, Committing(k) PROVE TypeInv'
<1>. USE NumbersFacts DEF TypeInv, RecordLeft, positionVars, joinVars, pollVars, historyVars,
        commitVars, groupVars, counts
<1>1. CASE Commit(k)
  <2>1. late' \subseteq Request
    <3>1. ASSUME NEW r \in Request PROVE [r EXCEPT !.old = TRUE] \in Request
      BY DEF Request
    <3>2. late' = {[r EXCEPT !.old = TRUE] : r \in late} /\ late \subseteq Request
      BY <1>1 DEF Commit, TypeOK
    <3>. QED BY <3>1, <3>2
  <2>2. superseded' \subseteq Committers
    BY <1>1 DEF Commit, Active
  <2>. QED BY <1>1, <2>1, <2>2, CallType DEF Commit, TypeOK
<1>2. CASE CommitFails(k)
  BY <1>2 DEF CommitFails, TypeOK
<1>3. ASSUME NEW p \in Partitions, OffsetCommit(k, p) PROVE TypeInv'
  <2>1. [snapshot EXCEPT ![k][p] = NoOffset] \in [Committers -> [Partitions -> Places]]
    BY DEF TypeOK
  <2>2. snapshot[k][p] \in Places
    BY DEF TypeOK
  <2>. QED BY <1>3, <2>1, <2>2 DEF OffsetCommit, CarriedOut, TypeOK
<1>4. ASSUME NEW p \in Partitions, AttemptTimesOut(k, p) PROVE TypeInv'
  <2>1. [partition |-> p, offset |-> snapshot[k][p], old |-> k \in superseded] \in Request
    BY <1>4 DEF AttemptTimesOut, TypeOK, Places, Request
  <2>. QED BY <1>4, <2>1, CallType DEF AttemptTimesOut, TypeOK
<1>. QED BY <1>1, <1>2, <1>3, <1>4 DEF Committing

LEMMA LateType == ASSUME TypeInv, NEW r \in late, LateCommit(r) PROVE TypeInv'
<1>. USE NumbersFacts DEF TypeInv, RecordLeft, positionVars, joinVars, pollVars, historyVars,
        commitVars, groupVars, counts
<1>1. r.partition \in Partitions /\ r.offset \in Places
  BY DEF TypeOK, Request
<1>. QED BY <1>1 DEF LateCommit, CarriedOut, TypeOK

LEMMA NextType == TypeInv /\ [Next]_vars => TypeInv'
<1>1. TypeInv /\ UNCHANGED vars => TypeInv'
  BY DEF TypeInv, TypeOK, RecordLeft, vars, positionVars, pollVars, joinVars, commitVars,
         groupVars, counts, historyVars
<1>. QED BY <1>1, PollType, PlaceType, RejoinType, CommitType, LateType DEF Next

LEMMA TypeInvariant == Spec => []TypeInv
BY InitType, NextType, PTL DEF Spec

(* Positions, fetches, commits and the offsets of a join stay within the   *)
(* logs, and toRecords (consumer.go:968) never works on an empty answer.   *)
THEOREM TypeCorrect == Spec => []TypeOK
<1>1. TypeInv => TypeOK
  BY DEF TypeInv
<1>. QED BY <1>1, TypeInvariant, PTL

-----------------------------------------------------------------------------
(* All records before an offset of the partition have been taken.          *)
Taken(p, n) == \A o \in 0..(n - 1) : o \in accounted[p] \/ <<p, o>> \in polled

OneFetch == \A p, q \in fetching : p = q

(* Every offset that can become the committed one has this property.       *)
TakenInv ==
    /\ \A p \in Partitions :
         /\ Taken(p, committed[p]) /\ Taken(p, loaded[p])
         /\ Taken(p, nextOffsets[p]) /\ Taken(p, consumedOffsets[p])
         /\ \A k \in Committers : Taken(p, snapshot[k][p])
    /\ \A r \in late : Taken(r.partition, r.offset)
    /\ \A p \in fetching : Taken(p, fetchOffset)
    /\ OneFetch

(* The same in the next state, for an offset of this one.                  *)
StillTaken(p, n) == \A o \in 0..(n - 1) : o \in accounted'[p] \/ <<p, o>> \in polled'

Grows == \A p \in Partitions : \A o \in Int :
            o \in accounted[p] \/ <<p, o>> \in polled => o \in accounted'[p] \/ <<p, o>> \in polled'

LEMMA GrowsTaken ==
    ASSUME Grows, NEW p \in Partitions, NEW n \in Int, Taken(p, n)
    PROVE  StillTaken(p, n)
BY DEF Grows, Taken, StillTaken

LEMMA NothingTaken == \A p \in Partitions : StillTaken(p, NoOffset) /\ StillTaken(p, 0)
BY DEF StillTaken, NoOffset

LEMMA SkipTaken ==
    ASSUME TypeOK, NEW p \in Partitions, NEW offset \in Offsets, polled' = polled,
           accounted' = [accounted EXCEPT ![p] = Skip(p, offset)]
    PROVE  Grows /\ StillTaken(p, offset)
BY DEF TypeOK, Grows, StillTaken, Skip, Offsets

LEMMA TakenInit == Init => TakenInv
BY NumbersFacts DEF Init, TakenInv, OneFetch, Taken, Nowhere, NoOffset

(* The offsets of the next state have been taken: one lemma for each kind  *)
(* of offset, for steps under which the records taken grow.                *)
Covered(offsets) == \A p \in Partitions : StillTaken(p, offsets[p])

LEMMA TakenSteps ==
    ASSUME Covered(committed'), Covered(loaded'), Covered(nextOffsets'),
           Covered(consumedOffsets'), \A k \in Committers : Covered(snapshot'[k]),
           \A r \in late' : StillTaken(r.partition, r.offset),
           \A p \in fetching' : StillTaken(p, fetchOffset'), OneFetch'
    PROVE  TakenInv'
BY DEF TakenInv, Covered, StillTaken, Taken

LEMMA TakenBefore ==
    ASSUME TypeOK, TakenInv, Grows
    PROVE  /\ Covered(committed) /\ Covered(loaded) /\ Covered(nextOffsets)
           /\ Covered(consumedOffsets) /\ \A k \in Committers : Covered(snapshot[k])
           /\ \A r \in late : StillTaken(r.partition, r.offset)
           /\ \A p \in fetching : StillTaken(p, fetchOffset)
<1>1. ASSUME NEW f \in [Partitions -> Places], \A p \in Partitions : Taken(p, f[p])
      PROVE  Covered(f)
  <2>. SUFFICES ASSUME NEW p \in Partitions PROVE StillTaken(p, f[p])
    BY DEF Covered
  <2>1. f[p] \in Int
    BY DEF Places, Offsets, NoOffset
  <2>2. Taken(p, f[p])
    BY <1>1
  <2>. QED BY <2>1, <2>2, GrowsTaken
<1>2. Covered(committed) /\ Covered(loaded) /\ Covered(nextOffsets) /\ Covered(consumedOffsets)
  BY <1>1 DEF TypeOK, TakenInv
<1>3. ASSUME NEW k \in Committers PROVE Covered(snapshot[k])
  BY <1>1 DEF TypeOK, TakenInv
<1>4. ASSUME NEW p \in fetching PROVE StillTaken(p, fetchOffset)
  <2>1. p \in Partitions /\ fetchOffset \in Int /\ Taken(p, fetchOffset)
    BY DEF TypeOK, TakenInv, Offsets
  <2>. QED BY <2>1, GrowsTaken
<1>5. ASSUME NEW r \in late PROVE StillTaken(r.partition, r.offset)
  <2>1. r.partition \in Partitions /\ r.offset \in Int /\ Taken(r.partition, r.offset)
    BY DEF TypeOK, Request, TakenInv, Offsets
  <2>. QED BY <2>1, GrowsTaken
<1>. QED BY <1>2, <1>3, <1>4, <1>5

LEMMA CoveredUpdate ==
    ASSUME NEW f \in [Partitions -> Places], Covered(f),
           NEW p \in Partitions, NEW n \in Places, StillTaken(p, n)
    PROVE  Covered([f EXCEPT ![p] = n])
BY DEF Covered

LEMMA NowhereCovered == Covered(Nowhere)
BY NothingTaken DEF Covered, Nowhere

LEMMA PollTaken == ASSUME TypeInv, TypeInv', TakenInv, Polling PROVE TakenInv'
<1>. USE DEF positionVars, joinVars, historyVars, commitVars, groupVars
<1>1. ASSUME UNCHANGED <<committed, loaded, nextOffsets, consumedOffsets, snapshot, late>>, Grows,
             \A p \in fetching' : StillTaken(p, fetchOffset'), OneFetch'
      PROVE  TakenInv'
  BY <1>1, TakenBefore, TakenSteps DEF TypeInv
<1>2. ASSUME UNCHANGED <<accounted, polled>> PROVE Grows
  BY <1>2 DEF Grows
<1>3. CASE Poll
  <2>1. Grows
    BY <1>2, <1>3 DEF Poll
  <2>. QED BY <1>1, <1>3, <2>1, TakenBefore DEF Poll, TypeInv, TakenInv, OneFetch
<1>4. ASSUME NEW p \in Partitions, FetchPartition(p) PROVE TakenInv'
  <2>1. Grows
    BY <1>2, <1>4 DEF FetchPartition
  <2>2. StillTaken(p, nextOffsets[p]) /\ StillTaken(p, 0)
    BY <2>1, TakenBefore, NothingTaken DEF Covered, TypeInv
  <2>. QED BY <1>1, <1>4, <2>1, <2>2 DEF FetchPartition, OneFetch
<1>5. CASE FetchAnswered
  <2>1. Grows
    BY <1>2, <1>5 DEF FetchAnswered
  <2>. QED BY <1>1, <1>5, <2>1, TakenBefore DEF FetchAnswered, NoFetch, TypeInv, TakenInv, OneFetch
<1>6. CASE ToRecord
  <2>1. PICK p \in fetching :
          /\ nextOffsets' = [nextOffsets EXCEPT ![p] = fetchOffset + 1]
          /\ consumedOffsets' = [consumedOffsets EXCEPT ![p] = fetchOffset + 1]
          /\ polled' = polled \cup {<<p, fetchOffset>>}
    BY <1>6 DEF ToRecord
  <2>2. Grows
    BY <1>6, <2>1 DEF ToRecord, Grows
  <2>3. p \in Partitions /\ fetchOffset \in Offsets /\ fetchOffset + 1 \in Places
    BY <1>6, BoundsAssumption DEF ToRecord, TypeInv, TypeOK, RecordLeft, Offsets, Places
  <2>4. StillTaken(p, fetchOffset)
    BY <2>2, TakenBefore DEF TypeInv
  <2>5. StillTaken(p, fetchOffset + 1)
    BY <2>1, <2>3, <2>4 DEF StillTaken, Offsets
  <2>6. Covered(nextOffsets') /\ Covered(consumedOffsets')
    BY <2>1, <2>2, <2>3, <2>5, TakenBefore, CoveredUpdate DEF TypeInv, TypeOK
  <2>7. /\ \A q \in fetching' : q = p
        /\ \A q \in fetching' : fetchOffset' = fetchOffset + 1
    BY <1>6 DEF ToRecord, NoFetch, TakenInv, OneFetch
  <2>8. UNCHANGED <<committed, loaded, snapshot, late>>
    BY <1>6 DEF ToRecord
  <2>. QED BY <2>2, <2>5, <2>6, <2>7, <2>8, TakenBefore, TakenSteps DEF TypeInv, OneFetch
<1>7. ASSUME EndPoll PROVE TakenInv'
  <2>1. Grows
    BY <1>7 DEF EndPoll, Grows, TypeInv, TypeOK
  <2>. QED BY <1>1, <1>7, <2>1 DEF EndPoll, NoFetch, OneFetch
<1>. QED BY <1>3, <1>4, <1>5, <1>6, <1>7 DEF Polling, PollReturns, PollFails

(* A step outside Poll leaves the fetch under way alone.                   *)
LEMMA TakenAround ==
    ASSUME TypeOK, TakenInv, Grows, UNCHANGED pollVars,
           Covered(committed'), Covered(loaded'), Covered(nextOffsets'),
           Covered(consumedOffsets'), \A k \in Committers : Covered(snapshot'[k]),
           \A r \in late' : StillTaken(r.partition, r.offset)
    PROVE  TakenInv'
BY TakenBefore, TakenSteps DEF pollVars, TakenInv, OneFetch

LEMMA PlaceTaken == ASSUME TypeInv, TakenInv, Placing PROVE TakenInv'
<1>. USE NumbersFacts DEF TypeInv, positionVars, joinVars, historyVars, commitVars, groupVars
<1>1. ASSUME NEW p \in Partitions, NEW offset \in Offsets, Seek(p, offset) PROVE TakenInv'
  <2>1. Grows /\ StillTaken(p, offset)
    BY <1>1, SkipTaken DEF Seek, pollVars
  <2>2. StillTaken(p, NoOffset)
    BY NothingTaken
  <2>3. Covered(nextOffsets') /\ Covered(consumedOffsets')
    BY <1>1, <2>1, <2>2, TakenBefore, CoveredUpdate DEF Seek, TypeOK
  <2>. QED BY <1>1, <2>1, <2>3, TakenBefore, TakenAround DEF Seek
<1>2. ASSUME NEW p \in Partitions, NEW offset \in Offsets, Assign(p, offset) PROVE TakenInv'
  <2>1. Grows /\ StillTaken(p, offset)
    BY <1>2, SkipTaken DEF Assign, pollVars
  <2>2. Covered([Nowhere EXCEPT ![p] = offset])
    BY <2>1, NowhereCovered, CoveredUpdate
  <2>. QED BY <1>2, <2>1, <2>2, NowhereCovered, TakenBefore, TakenAround DEF Assign, Install
<1>3. ASSUME NEW p \in Partitions, NEW offset \in Offsets, OtherMemberCommits(p, offset)
      PROVE  TakenInv'
  <2>1. Grows /\ StillTaken(p, offset)
    BY <1>3, SkipTaken DEF OtherMemberCommits, pollVars
  <2>2. Covered(committed')
    BY <1>3, <2>1, TakenBefore, CoveredUpdate DEF OtherMemberCommits, TypeOK
  <2>. QED BY <1>3, <2>1, <2>2, TakenBefore, TakenAround DEF OtherMemberCommits
<1>4. ASSUME NEW p \in Partitions, Pause(p) \/ Resume(p) PROVE TakenInv'
  <2>1. Grows
    BY <1>4 DEF Pause, Resume, Grows, pollVars
  <2>. QED BY <1>4, <2>1, TakenBefore, TakenAround DEF Pause, Resume
<1>. QED BY <1>1, <1>2, <1>3, <1>4 DEF Placing

LEMMA RejoinTaken == ASSUME TypeInv, TakenInv, Rejoining PROVE TakenInv'
<1>. USE NumbersFacts DEF TypeInv, positionVars, historyVars, commitVars, groupVars
<1>1. CASE Rejoin \/ RejoinFails \/ InstallJoined
  <2>1. Grows
    BY <1>1 DEF Rejoin, RejoinFails, InstallJoined, Grows, pollVars
  <2>. QED BY <1>1, <2>1, NowhereCovered, TakenBefore, TakenAround
           DEF Rejoin, RejoinFails, InstallJoined, Install
<1>2. ASSUME NEW p \in Partitions, FetchCommittedOffset(p) PROVE TakenInv'
  <2>1. PICK offset \in IF committed[p] = NoOffset THEN ResetOffsets ELSE {committed[p]} :
          /\ loaded' = [loaded EXCEPT ![p] = offset]
          /\ accounted' = IF committed[p] = NoOffset
                          THEN [accounted EXCEPT ![p] = Skip(p, offset)] ELSE accounted
    BY <1>2 DEF FetchCommittedOffset
  <2>2. committed[p] \in Places
    BY DEF TypeOK
  <2>3. offset \in Offsets
    BY <2>1, <2>2, ResetType DEF Places
  <2>4. UNCHANGED <<polled, committed, nextOffsets, consumedOffsets, snapshot, late>>
    BY <1>2 DEF FetchCommittedOffset, pollVars
  <2>5. Grows /\ StillTaken(p, offset)
    <3>1. CASE committed[p] = NoOffset
      BY <2>1, <2>3, <2>4, <3>1, SkipTaken
    <3>2. CASE committed[p] # NoOffset
      <4>1. Grows
        BY <2>1, <2>4, <3>2 DEF Grows
      <4>. QED BY <2>1, <3>2, <4>1, TakenBefore DEF Covered
    <3>. QED BY <3>1, <3>2
  <2>6. Covered(loaded')
    BY <2>1, <2>3, <2>5, TakenBefore, CoveredUpdate DEF TypeOK
  <2>7. UNCHANGED pollVars
    BY <1>2 DEF FetchCommittedOffset
  <2>. QED BY <2>4, <2>5, <2>6, <2>7, TakenBefore, TakenAround
<1>. QED BY <1>1, <1>2 DEF Rejoining

LEMMA CommitTaken == ASSUME TypeInv, TakenInv, NEW k \in Committers, Committing(k) PROVE TakenInv'
<1>. USE NumbersFacts DEF TypeInv, positionVars, joinVars, historyVars, commitVars, groupVars
<1>1. Grows
  BY DEF Committing, Commit, CommitFails, OffsetCommit, AttemptTimesOut, Grows, pollVars
<1>2. CASE Commit(k)
  <2>1. \A r \in late' : \E q \in late : r.partition = q.partition /\ r.offset = q.offset
    BY <1>2 DEF Commit, TypeOK, Request
  <2>2. \A r \in late' : StillTaken(r.partition, r.offset)
    BY <1>1, <2>1, TakenBefore
  <2>3. \A j \in Committers : snapshot'[j] \in {snapshot[j], consumedOffsets}
    BY <1>2 DEF Commit, TypeOK
  <2>4. \A j \in Committers : Covered(snapshot'[j])
    BY <1>1, <2>3, TakenBefore
  <2>. QED BY <1>1, <1>2, <2>2, <2>4, TakenBefore, TakenAround DEF Commit
<1>3. CASE CommitFails(k)
  BY <1>1, <1>3, TakenBefore, TakenAround, NowhereCovered DEF CommitFails, TypeOK
<1>4. ASSUME NEW p \in Partitions, OffsetCommit(k, p) PROVE TakenInv'
  <2>1. snapshot[k] \in [Partitions -> Places] /\ snapshot[k][p] \in Places
    BY DEF TypeOK
  <2>2. Covered(snapshot[k]) /\ StillTaken(p, NoOffset)
    BY <1>1, TakenBefore, NothingTaken
  <2>3. Covered(committed')
    <3>1. StillTaken(p, snapshot[k][p])
      BY <2>2 DEF Covered
    <3>. QED BY <1>1, <1>4, <2>1, <3>1, TakenBefore, CoveredUpdate
             DEF OffsetCommit, CarriedOut, TypeOK
  <2>4. Covered([snapshot[k] EXCEPT ![p] = NoOffset])
    BY <2>1, <2>2, CoveredUpdate
  <2>5. \A j \in Committers : \/ snapshot'[j] = snapshot[j]
                               \/ snapshot'[j] = [snapshot[k] EXCEPT ![p] = NoOffset]
    BY <1>4 DEF OffsetCommit, TypeOK
  <2>6. \A j \in Committers : Covered(snapshot'[j])
    BY <1>1, <2>4, <2>5, TakenBefore
  <2>. QED BY <1>1, <1>4, <2>3, <2>6, TakenBefore, TakenAround DEF OffsetCommit
<1>5. ASSUME NEW p \in Partitions, AttemptTimesOut(k, p) PROVE TakenInv'
  <2>1. StillTaken(p, snapshot[k][p])
    BY <1>1, TakenBefore DEF Covered
  <2>2. \A r \in late' : r \in late \/ (r.partition = p /\ r.offset = snapshot[k][p])
    BY <1>5 DEF AttemptTimesOut
  <2>3. \A r \in late' : StillTaken(r.partition, r.offset)
    BY <1>1, <2>1, <2>2, TakenBefore
  <2>. QED BY <1>1, <1>5, <2>3, TakenBefore, TakenAround DEF AttemptTimesOut
<1>. QED BY <1>2, <1>3, <1>4, <1>5 DEF Committing

LEMMA LateTaken == ASSUME TypeInv, TakenInv, NEW q \in late, LateCommit(q) PROVE TakenInv'
<1>. USE NumbersFacts DEF TypeInv, positionVars, joinVars, historyVars, groupVars
<1>1. Grows
  BY DEF LateCommit, Grows, pollVars
<1>2. q.partition \in Partitions /\ q.offset \in Places
  BY DEF TypeOK, Request
<1>3. Covered(committed')
  <2>1. StillTaken(q.partition, q.offset)
    BY <1>1, TakenBefore
  <2>. QED BY <1>1, <1>2, <2>1, TakenBefore, CoveredUpdate DEF LateCommit, CarriedOut, TypeOK
<1>4. \A r \in late' : StillTaken(r.partition, r.offset)
  BY <1>1, TakenBefore DEF LateCommit
<1>. QED BY <1>1, <1>3, <1>4, TakenBefore, TakenAround DEF LateCommit

LEMMA TakenNext == TypeInv /\ TakenInv /\ [Next]_vars => TakenInv'
<1>1. TakenInv /\ UNCHANGED vars => TakenInv'
  BY DEF TakenInv, Taken, OneFetch, vars, positionVars, pollVars, joinVars, commitVars,
         groupVars, historyVars
<1>. QED BY <1>1, NextType, PollTaken, PlaceTaken, RejoinTaken, CommitTaken, LateTaken DEF Next

(* No offset is committed before all records below it were taken, dropped  *)
(* or skipped: Commit (consumer.go:306) cannot run ahead of Poll, however  *)
(* fetches, seeks, rejoins and commits of both goroutines interleave.      *)
THEOREM CommitsFollowPolls == Spec => []CommittedWasTaken
<1>1. TakenInv => CommittedWasTaken
  BY DEF TakenInv, Taken, CommittedWasTaken
<1>. QED BY <1>1, TypeInvariant, TakenInit, TakenNext, PTL DEF Spec

-----------------------------------------------------------------------------
(* Why commits go forward: as long as nothing of what movedBack counts has *)
(* happened to a partition, every offset that the newest Commit asks for,  *)
(* or a later one will, is at least what was carried out for this client,  *)
(* and what any of its requests still asks.                                *)
Ahead(p, n) ==
    /\ ours[p] <= n
    /\ \A k \in Committers : snapshot[k][p] <= n
    /\ \A r \in late : r.partition = p => r.offset <= n

Forward(p) ==
    /\ nextOffsets[p] # NoOffset => Ahead(p, nextOffsets[p])
    /\ consumedOffsets[p] # NoOffset => Ahead(p, consumedOffsets[p])
    /\ p \in fetching => Ahead(p, fetchOffset)
    /\ consumedOffsets[p] # NoOffset => consumedOffsets[p] = nextOffsets[p]
    /\ consumedOffsets[p] # NoOffset /\ p \in fetching => consumedOffsets[p] <= fetchOffset
    /\ \A k \in Committers \ superseded : snapshot[k][p] # NoOffset => Ahead(p, snapshot[k][p])
    /\ \A r \in late : r.partition = p /\ ~r.old => Ahead(p, r.offset)

ForwardInv == /\ \A p \in Partitions \ movedBack : Forward(p)
              /\ \A p \in Partitions \ joining : loaded[p] = NoOffset
              /\ joinPc = "idle" => joining = {}

LEMMA ForwardInit == Init => ForwardInv
BY NumbersFacts DEF Init, ForwardInv, Forward, Ahead, Nowhere, NoOffset

LEMMA PlacesAreNumbers ==
    ASSUME TypeOK, NEW p \in Partitions
    PROVE  /\ ours[p] \in Int /\ ours[p] >= NoOffset
           /\ nextOffsets[p] \in Int /\ consumedOffsets[p] \in Int /\ fetchOffset \in Int
           /\ nextOffsets[p] >= NoOffset /\ consumedOffsets[p] >= NoOffset
           /\ \A k \in Committers : snapshot[k][p] \in Int /\ snapshot[k][p] >= NoOffset
           /\ \A r \in late : r.offset \in Int /\ r.offset >= NoOffset
<1>1. \A r \in late : r.offset \in Offsets
  BY DEF TypeOK, Request
<1>. QED BY <1>1 DEF TypeOK, Places, Offsets, NoOffset

(* Steps that leave a partition alone.                                     *)
LEMMA ForwardKept ==
    ASSUME NEW p \in Partitions, Forward(p),
           nextOffsets'[p] = nextOffsets[p], consumedOffsets'[p] = consumedOffsets[p],
           ours'[p] = ours[p], UNCHANGED commitVars,
           p \in fetching' => p \in fetching /\ fetchOffset' = fetchOffset
    PROVE  Forward(p)'
BY DEF Forward, Ahead, commitVars

LEMMA PollForward ==
    ASSUME TypeInv, TypeInv', TakenInv, ForwardInv, Polling PROVE ForwardInv'
<1>. USE DEF positionVars, joinVars, historyVars, groupVars
<1>1. movedBack \subseteq movedBack' /\ UNCHANGED joinVars
  BY DEF Polling, Poll, FetchPartition, FetchAnswered, ToRecord, PollReturns, PollFails, EndPoll
<1>. SUFFICES ASSUME NEW p \in Partitions \ movedBack' PROVE Forward(p)'
  BY <1>1 DEF ForwardInv, joinVars
<1>2. p \in Partitions /\ Forward(p)
  BY <1>1 DEF ForwardInv
<1>3. CASE Poll \/ FetchAnswered \/ PollReturns \/ PollFails
  BY <1>2, <1>3, ForwardKept DEF Poll, FetchAnswered, PollReturns, PollFails, EndPoll, NoFetch
<1>4. ASSUME NEW q \in Partitions, FetchPartition(q) PROVE Forward(p)'
  <2>1. CASE p = q
    <3>1. nextOffsets[p] # NoOffset /\ fetchOffset' = nextOffsets[p]
      BY <1>4, <2>1 DEF FetchPartition
    <3>2. UNCHANGED <<nextOffsets, consumedOffsets, ours, snapshot, superseded, late>>
      BY <1>4 DEF FetchPartition, commitVars
    <3>. QED BY <1>2, <3>1, <3>2, PlacesAreNumbers DEF Forward, Ahead, TypeInv
  <2>2. CASE p # q
    BY <1>2, <1>4, <2>2, ForwardKept DEF FetchPartition
  <2>. QED BY <2>1, <2>2
<1>5. CASE ToRecord
  <2>1. CASE p \notin fetching
    <3>1. p \notin fetching' /\ UNCHANGED <<ours, commitVars>>
          /\ nextOffsets'[p] = nextOffsets[p] /\ consumedOffsets'[p] = consumedOffsets[p]
      BY <1>5, <2>1 DEF ToRecord, NoFetch, TypeInv, TypeOK
    <3>. QED BY <1>2, <3>1, ForwardKept
  <2>2. CASE p \in fetching
    <3>1. nextOffsets'[p] = fetchOffset + 1 /\ consumedOffsets'[p] = fetchOffset + 1
      BY <1>5, <2>2 DEF ToRecord, TakenInv, OneFetch, TypeInv, TypeOK
    <3>2. UNCHANGED <<ours, snapshot, superseded, late>>
          /\ (p \in fetching' => fetchOffset' = fetchOffset + 1)
      BY <1>5 DEF ToRecord, NoFetch, commitVars
    <3>3. Ahead(p, fetchOffset + 1)
      BY <1>2, <2>2, PlacesAreNumbers DEF Forward, Ahead, TypeInv
    <3>. QED BY <1>2, <3>1, <3>2, <3>3, PlacesAreNumbers DEF Forward, Ahead, TypeInv
  <2>. QED BY <2>1, <2>2
<1>. QED BY <1>3, <1>4, <1>5 DEF Polling

LEMMA NotOvertaken ==
    ASSUME TypeOK, NEW p \in Partitions, NEW offset \in Int, ~Overtaken(p, offset), offset >= NoOffset
    PROVE  Ahead(p, offset)
<1>1. ours[p] <= offset
  BY PlacesAreNumbers DEF Overtaken
<1>2. ASSUME NEW k \in Committers PROVE snapshot[k][p] <= offset
  <2>1. CASE k \in Active
    BY <2>1, PlacesAreNumbers DEF Overtaken
  <2>2. CASE k \notin Active
    BY <2>2 DEF Active, Nowhere
  <2>. QED BY <2>1, <2>2
<1>3. ASSUME NEW r \in late, r.partition = p PROVE r.offset <= offset
  BY <1>3, PlacesAreNumbers DEF Overtaken
<1>. QED BY <1>1, <1>2, <1>3 DEF Ahead

LEMMA InstallForward ==
    ASSUME TypeOK, ForwardInv, NEW partitions \in SUBSET Partitions,
           NEW offsets \in [Partitions -> Places], Install(partitions, offsets),
           \A q \in Partitions \ partitions : offsets[q] = NoOffset,
           UNCHANGED <<pollVars, commitVars, groupVars>>,
           NEW p \in Partitions \ movedBack'
    PROVE  Forward(p)'
<1>1. p \in Partitions /\ p \notin movedBack /\ p \notin fetching
  BY DEF Install
<1>2. Forward(p)
  BY <1>1 DEF ForwardInv
<1>3. p \in partitions => ~Overtaken(p, offsets[p])
  BY DEF Install
<1>4. offsets[p] \in Int /\ offsets[p] >= NoOffset
  BY <1>1 DEF Places, Offsets, NoOffset
<1>5. offsets[p] # NoOffset => Ahead(p, offsets[p])
  BY <1>1, <1>3, <1>4, NotOvertaken
<1>6. consumedOffsets'[p] = NoOffset /\ nextOffsets'[p] = offsets[p]
  BY <1>1 DEF Install, Nowhere
<1>7. UNCHANGED <<fetching, ours, snapshot, superseded, late>>
  BY DEF pollVars, commitVars, groupVars
<1>. QED BY <1>1, <1>2, <1>5, <1>6, <1>7 DEF Forward, Ahead

LEMMA PlaceForward == ASSUME TypeInv, ForwardInv, Placing PROVE ForwardInv'
<1>. USE DEF TypeInv, positionVars, joinVars, historyVars, groupVars
<1>1. movedBack \subseteq movedBack' /\ UNCHANGED joinVars
  BY DEF Placing, Seek, Assign, Install, OtherMemberCommits, Pause, Resume
<1>. SUFFICES ASSUME NEW p \in Partitions \ movedBack' PROVE Forward(p)'
  BY <1>1 DEF ForwardInv, joinVars
<1>2. p \in Partitions /\ Forward(p)
  BY <1>1 DEF ForwardInv
<1>3. ASSUME NEW q \in Partitions, NEW offset \in Offsets, Seek(q, offset) PROVE Forward(p)'
  <2>1. CASE p = q
    <3>1. Ahead(p, offset)
      BY <1>2, <1>3, <2>1, NotOvertaken DEF Seek, Offsets, NoOffset
    <3>2. nextOffsets'[p] = offset /\ consumedOffsets'[p] = NoOffset
      BY <1>2, <1>3, <2>1 DEF Seek, TypeOK
    <3>3. UNCHANGED <<fetching, fetchOffset, ours, snapshot, superseded, late>>
      BY <1>3 DEF Seek, pollVars, commitVars
    <3>. QED BY <1>2, <3>1, <3>2, <3>3 DEF Forward, Ahead
  <2>2. CASE p # q
    <3>1. nextOffsets'[p] = nextOffsets[p] /\ consumedOffsets'[p] = consumedOffsets[p]
      BY <1>2, <1>3, <2>2 DEF Seek, TypeOK
    <3>. QED BY <1>2, <1>3, <3>1, ForwardKept DEF Seek, pollVars
  <2>. QED BY <2>1, <2>2
<1>4. ASSUME NEW q \in Partitions, NEW offset \in Offsets, Assign(q, offset) PROVE Forward(p)'
  <2>1. [Nowhere EXCEPT ![q] = offset] \in [Partitions -> Places]
    BY NumbersFacts
  <2>2. \A r \in Partitions \ {q} : [Nowhere EXCEPT ![q] = offset][r] = NoOffset
    BY DEF Nowhere
  <2>. QED BY <1>4, <2>1, <2>2, InstallForward DEF Assign
<1>5. ASSUME NEW q \in Partitions, NEW offset \in Offsets, OtherMemberCommits(q, offset)
      PROVE  Forward(p)'
  BY <1>2, <1>5, ForwardKept DEF OtherMemberCommits, pollVars
<1>6. ASSUME NEW q \in Partitions, Pause(q) \/ Resume(q) PROVE Forward(p)'
  BY <1>2, <1>6, ForwardKept DEF Pause, Resume, pollVars
<1>. QED BY <1>3, <1>4, <1>5, <1>6 DEF Placing

LEMMA RejoinForward == ASSUME TypeInv, ForwardInv, Rejoining PROVE ForwardInv'
<1>. USE DEF TypeInv, positionVars, historyVars, groupVars
<1>1. ASSUME UNCHANGED <<nextOffsets, consumedOffsets, pollVars, commitVars, groupVars, movedBack>>,
             NEW p \in Partitions \ movedBack'
      PROVE  Forward(p)'
  BY <1>1, ForwardKept DEF ForwardInv, pollVars
<1>2. CASE Rejoin \/ RejoinFails \/ \E q \in Partitions : FetchCommittedOffset(q)
  <2>1. UNCHANGED <<nextOffsets, consumedOffsets, pollVars, commitVars, groupVars, movedBack>>
    BY <1>2 DEF Rejoin, RejoinFails, FetchCommittedOffset
  <2>2. \A p \in Partitions \ joining' : loaded'[p] = NoOffset
    <3>1. CASE Rejoin
      BY <3>1 DEF Rejoin, ForwardInv
    <3>2. CASE RejoinFails
      BY <3>2 DEF RejoinFails, Nowhere
    <3>3. ASSUME NEW q \in Partitions, FetchCommittedOffset(q)
          PROVE  \A p \in Partitions \ joining' : loaded'[p] = NoOffset
      BY <3>3 DEF FetchCommittedOffset, ForwardInv, TypeOK
    <3>. QED BY <1>2, <3>1, <3>2, <3>3
  <2>3. joinPc' = "idle" => joining' = {}
    BY <1>2 DEF Rejoin, RejoinFails, FetchCommittedOffset
  <2>. QED BY <1>1, <2>1, <2>2, <2>3 DEF ForwardInv
<1>3. CASE InstallJoined
  <2>1. \A p \in Partitions \ joining : loaded[p] = NoOffset
    BY DEF ForwardInv
  <2>2. ASSUME NEW p \in Partitions \ movedBack' PROVE Forward(p)'
    BY <1>3, <2>1, InstallForward DEF InstallJoined, TypeOK
  <2>. QED BY <1>3, <2>2 DEF InstallJoined, ForwardInv, Nowhere
<1>. QED BY <1>2, <1>3 DEF Rejoining

(* A step on the wire adds no request above those that are there: what was *)
(* ahead of all stays so, and the requests that are not old are.           *)
LEMMA WireForward ==
    ASSUME TypeInv, NEW p \in Partitions, Forward(p),
           UNCHANGED <<nextOffsets, consumedOffsets, pollVars, superseded>>,
           \A n \in Int : Ahead(p, n) /\ n >= NoOffset => Ahead(p, n)',
           \A k \in Committers : snapshot'[k][p] \in {snapshot[k][p], NoOffset},
           \A r \in late' : \/ r \in late
                            \/ \E k \in Committers :
                                   /\ snapshot[k][p] # NoOffset \/ r.partition # p
                                   /\ r.partition = p => r.offset = snapshot[k][p]
                                   /\ r.old = (k \in superseded)
    PROVE  Forward(p)'
<1>. USE DEF TypeInv
<1>1. /\ nextOffsets[p] # NoOffset => Ahead(p, nextOffsets[p])'
      /\ consumedOffsets[p] # NoOffset => Ahead(p, consumedOffsets[p])'
      /\ p \in fetching => Ahead(p, fetchOffset)'
  <2>1. nextOffsets[p] \in Int /\ consumedOffsets[p] \in Int /\ fetchOffset \in Int
    BY PlacesAreNumbers
  <2>2. nextOffsets[p] >= NoOffset /\ consumedOffsets[p] >= NoOffset /\ fetchOffset >= NoOffset
    BY PlacesAreNumbers DEF TypeOK, Offsets, NoOffset
  <2>3. UNCHANGED <<nextOffsets, consumedOffsets, fetching, fetchOffset>>
    BY DEF pollVars
  <2>4. PICK next \in Int : next = nextOffsets[p]
    BY <2>1
  <2>5. PICK consumed \in Int : consumed = consumedOffsets[p]
    BY <2>1
  <2>6. PICK fetched \in Int : fetched = fetchOffset
    BY <2>1
  <2>7. nextOffsets[p] # NoOffset => Ahead(p, next)'
    BY <2>2, <2>4 DEF Forward
  <2>8. consumedOffsets[p] # NoOffset => Ahead(p, consumed)'
    BY <2>2, <2>5 DEF Forward
  <2>9. p \in fetching => Ahead(p, fetched)'
    BY <2>2, <2>6 DEF Forward
  <2>. QED BY <2>3, <2>4, <2>5, <2>6, <2>7, <2>8, <2>9 DEF Ahead
<1>2. ASSUME NEW k \in Committers \ superseded', snapshot'[k][p] # NoOffset
      PROVE  Ahead(p, snapshot[k][p])'
  <2>1. PICK n \in Int : n = snapshot[k][p] /\ n = snapshot'[k][p] /\ n >= NoOffset
    BY <1>2, PlacesAreNumbers
  <2>2. Ahead(p, n)
    BY <1>2, <2>1 DEF Forward
  <2>3. Ahead(p, n)'
    BY <2>1, <2>2
  <2>. QED BY <2>1, <2>3 DEF Ahead
<1>3. ASSUME NEW r \in late', r.partition = p, ~r.old PROVE Ahead(p, r.offset)'
  <2>1. CASE r \in late
    <3>1. r.offset \in Int /\ r.offset >= NoOffset /\ Ahead(p, r.offset)
      BY <1>3, <2>1, PlacesAreNumbers DEF Forward
    <3>. QED BY <3>1
  <2>2. CASE r \notin late
    <3>1. PICK k \in Committers : /\ snapshot[k][p] # NoOffset
                                  /\ r.offset = snapshot[k][p] /\ k \notin superseded
      BY <1>3, <2>2
    <3>2. r.offset \in Int /\ r.offset >= NoOffset /\ Ahead(p, r.offset)
      BY <3>1, PlacesAreNumbers DEF Forward
    <3>. QED BY <3>2
  <2>. QED BY <2>1, <2>2
<1>. QED BY <1>1, <1>2, <1>3 DEF Forward, pollVars

LEMMA CommitForward ==
    ASSUME TypeInv, ForwardInv, NEW k \in Committers, Committing(k) PROVE ForwardInv'
<1>. USE DEF TypeInv, positionVars, joinVars, historyVars, groupVars
<1>1. UNCHANGED <<movedBack, joinVars, nextOffsets, consumedOffsets, pollVars>>
  BY DEF Committing, Commit, CommitFails, OffsetCommit, AttemptTimesOut
<1>. SUFFICES ASSUME NEW p \in Partitions \ movedBack PROVE Forward(p)'
  BY <1>1 DEF ForwardInv
<1>2. p \in Partitions /\ Forward(p)
  BY DEF ForwardInv
<1>3. CASE Commit(k)
  <2>1. \A j \in Committers \ superseded' : snapshot'[j][p] # NoOffset =>
            j = k /\ snapshot'[j][p] = consumedOffsets[p]
    BY <1>2, <1>3 DEF Commit, Active, Nowhere, TypeOK
  <2>2. \A j \in Committers : snapshot'[j][p] \in {snapshot[j][p], consumedOffsets[p]}
    BY <1>2, <1>3 DEF Commit, TypeOK
  <2>3. \A r \in late' : r.old /\ \E q \in late : q.partition = r.partition /\ q.offset = r.offset
    BY <1>3 DEF Commit, TypeOK, Request
  <2>4. ours' = ours
    BY <1>3 DEF Commit
  <2>5. ASSUME NEW n \in Int, Ahead(p, n), consumedOffsets[p] <= n PROVE Ahead(p, n)'
    BY <2>2, <2>3, <2>4, <2>5 DEF Ahead
  <2>6. nextOffsets[p] # NoOffset => Ahead(p, nextOffsets[p])'
    <3>1. consumedOffsets[p] <= nextOffsets[p]
      BY <1>2, PlacesAreNumbers DEF Forward, NoOffset
    <3>2. PICK n \in Int : n = nextOffsets[p]
      BY PlacesAreNumbers
    <3>3. nextOffsets[p] # NoOffset => Ahead(p, n)'
      BY <1>2, <2>5, <3>1, <3>2 DEF Forward
    <3>. QED BY <1>1, <3>2, <3>3
  <2>7. consumedOffsets[p] # NoOffset => Ahead(p, consumedOffsets[p])'
    <3>1. PICK n \in Int : n = consumedOffsets[p]
      BY PlacesAreNumbers
    <3>2. consumedOffsets[p] # NoOffset => Ahead(p, n)'
      BY <1>2, <2>5, <3>1 DEF Forward
    <3>. QED BY <1>1, <3>1, <3>2
  <2>8. p \in fetching => Ahead(p, fetchOffset)'
    <3>1. p \in fetching => consumedOffsets[p] <= fetchOffset
      BY <1>2, PlacesAreNumbers DEF Forward, NoOffset, TypeOK, Offsets
    <3>2. PICK n \in Int : n = fetchOffset
      BY PlacesAreNumbers
    <3>3. p \in fetching => Ahead(p, n)'
      BY <1>2, <2>5, <3>1, <3>2 DEF Forward
    <3>. QED BY <1>1, <3>2, <3>3 DEF pollVars
  <2>9. \A j \in Committers \ superseded' : snapshot'[j][p] # NoOffset => Ahead(p, snapshot[j][p])'
    BY <1>1, <2>1, <2>7
  <2>. QED BY <1>1, <1>2, <2>3, <2>6, <2>7, <2>8, <2>9 DEF Forward, pollVars
<1>4. CASE CommitFails(k)
  <2>1. \A j \in Committers : snapshot'[j][p] = IF j = k THEN NoOffset ELSE snapshot[j][p]
    BY <1>2, <1>4 DEF CommitFails, TypeOK, Nowhere
  <2>2. UNCHANGED <<ours, superseded, late>>
    BY <1>4 DEF CommitFails
  <2>3. \A n \in Int : Ahead(p, n) /\ n >= NoOffset => Ahead(p, n)'
    BY <2>1, <2>2 DEF Ahead
  <2>. QED BY <1>1, <1>2, <2>1, <2>2, <2>3, WireForward
<1>5. ASSUME NEW q \in Partitions, OffsetCommit(k, q) PROVE Forward(p)'
  <2>1. ours'[p] = IF p = q THEN snapshot[k][p] ELSE ours[p]
    BY <1>2, <1>5 DEF OffsetCommit, CarriedOut, TypeOK
  <2>2. \A j \in Committers : snapshot'[j][p] \in {snapshot[j][p], NoOffset}
    BY <1>2, <1>5 DEF OffsetCommit, TypeOK
  <2>3. UNCHANGED <<superseded, late>>
    BY <1>5 DEF OffsetCommit
  <2>4. \A n \in Int : Ahead(p, n) /\ n >= NoOffset => Ahead(p, n)'
    BY <2>1, <2>2, <2>3 DEF Ahead
  <2>. QED BY <1>1, <1>2, <2>2, <2>3, <2>4, WireForward
<1>6. ASSUME NEW q \in Partitions, AttemptTimesOut(k, q) PROVE Forward(p)'
  <2>1. /\ UNCHANGED <<ours, snapshot, superseded>> /\ snapshot[k][q] # NoOffset
        /\ \A r \in late' : \/ r \in late
                            \/ /\ r.partition = q /\ r.offset = snapshot[k][q]
                               /\ r.old = (k \in superseded)
    BY <1>6 DEF AttemptTimesOut
  <2>2. \A n \in Int : Ahead(p, n) /\ n >= NoOffset => Ahead(p, n)'
    BY <2>1 DEF Ahead
  <2>. QED BY <1>1, <1>2, <2>1, <2>2, WireForward
<1>. QED BY <1>3, <1>4, <1>5, <1>6 DEF Committing

LEMMA LateForward ==
    ASSUME TypeInv, ForwardInv, NEW q \in late, LateCommit(q) PROVE ForwardInv'
<1>. USE DEF TypeInv, positionVars, joinVars, historyVars, groupVars
<1>1. UNCHANGED <<movedBack, joinVars, nextOffsets, consumedOffsets, pollVars, snapshot, superseded>>
  BY DEF LateCommit
<1>. SUFFICES ASSUME NEW p \in Partitions \ movedBack PROVE Forward(p)'
  BY <1>1 DEF ForwardInv
<1>2. p \in Partitions /\ Forward(p)
  BY DEF ForwardInv
<1>3. ours'[p] = IF p = q.partition THEN q.offset ELSE ours[p]
  BY <1>2 DEF LateCommit, CarriedOut, TypeOK
<1>4. late' \subseteq late
  BY DEF LateCommit
<1>5. \A n \in Int : Ahead(p, n) /\ n >= NoOffset => Ahead(p, n)'
  BY <1>1, <1>3, <1>4 DEF Ahead
<1>. QED BY <1>1, <1>2, <1>4, <1>5, WireForward

LEMMA ForwardNext == TypeInv /\ TakenInv /\ ForwardInv /\ [Next]_vars => ForwardInv'
<1>1. ForwardInv /\ UNCHANGED vars => ForwardInv'
  BY DEF ForwardInv, Forward, Ahead, vars, positionVars, pollVars, joinVars, commitVars,
         groupVars, historyVars
<1>. QED BY <1>1, NextType, PollForward, PlaceForward, RejoinForward, CommitForward, LateForward
     DEF Next

(* Of the offsets this client has the coordinator store for a partition    *)
(* (Commit, consumer.go:306) none is less than the one before, unless the  *)
(* request belongs to a Commit that a newer one has followed while it was  *)
(* on the wire, or movedBack names the partition: a position was installed *)
(* that a commit had overtaken, or a fetch outlived its position.          *)
THEOREM ForwardOnly == Spec => CommitsForward
<1>1. TypeInv /\ ForwardInv /\ [Next]_vars =>
        [\A p \in Partitions : ours'[p] < ours[p] => p \in movedBack \/ Old(p, ours'[p])]_vars
  <2>. SUFFICES ASSUME TypeInv, ForwardInv, Next, NEW p \in Partitions \ movedBack,
                       ours'[p] < ours[p]
                PROVE  Old(p, ours'[p])
    OBVIOUS
  <2>. USE DEF TypeInv
  <2>1. Forward(p) /\ ours[p] \in Int
    BY PlacesAreNumbers DEF ForwardInv
  <2>2. ASSUME NEW k \in Committers, NEW q \in Partitions, OffsetCommit(k, q)
        PROVE  Old(p, ours'[p])
    <3>1. p = q /\ ours'[p] = snapshot[k][p] /\ snapshot[k][p] # NoOffset
      <4>1. ours'[p] = IF p = q THEN snapshot[k][q] ELSE ours[p]
        BY <2>2 DEF OffsetCommit, CarriedOut, TypeOK
      <4>. QED BY <2>1, <2>2, <4>1 DEF OffsetCommit
    <3>2. snapshot[k][p] \in Int
      BY PlacesAreNumbers
    <3>3. k \in superseded
      BY <2>1, <3>1, <3>2 DEF Forward, Ahead
    <3>. QED BY <3>1, <3>3 DEF Old
  <2>3. ASSUME NEW r \in late, LateCommit(r) PROVE Old(p, ours'[p])
    <3>1. p = r.partition /\ ours'[p] = r.offset
      <4>1. ours'[p] = IF p = r.partition THEN r.offset ELSE ours[p]
        BY <2>3 DEF LateCommit, CarriedOut, TypeOK
      <4>. QED BY <2>1, <4>1
    <3>2. r.offset \in Int
      BY PlacesAreNumbers
    <3>3. r.old
      BY <2>1, <3>1, <3>2 DEF Forward, Ahead
    <3>. QED BY <3>1, <3>3 DEF Old
  <2>4. ours' # ours
    BY <2>1
  <2>5. \/ ours' = ours
        \/ \E k \in Committers, q \in Partitions : OffsetCommit(k, q)
        \/ \E r \in late : LateCommit(r)
    BY DEF Next, Polling, Poll, FetchPartition, FetchAnswered, ToRecord, PollReturns, PollFails,
           EndPoll, Placing, Seek, Assign, Pause, Resume, Rejoining, Rejoin, RejoinFails,
           InstallJoined, FetchCommittedOffset, Committing, Commit, CommitFails, AttemptTimesOut,
           OtherMemberCommits, groupVars
  <2>. QED BY <2>2, <2>3, <2>4, <2>5
<1>. QED BY <1>1, TypeInvariant, TakenInit, TakenNext, ForwardInit, ForwardNext, PTL
     DEF Spec, CommitsForward

=============================================================================
