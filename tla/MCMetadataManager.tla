------------------------- MODULE MCMetadataManager -------------------------
(* A small instance of MetadataManager: two topics of two partitions. *)
EXTENDS MetadataManager

CONSTANTS t1, t2

\* The topic the calls look at has a partition whose leader changes.
MCMovable == {<<t1, 1>>}

Ask(op, topics, topic, partition, hash) ==
    [op |-> op, topics |-> topics, topic |-> topic, partition |-> partition, hash |-> hash,
     autoCreate |-> TRUE, leaderEpoch |-> 0]

\* Each user of the cache for one topic, and refreshes of the other and of all;
\* ListOffsets also with an epoch of the caller's, a producer that creates none.
MCRequests ==
    {Ask("list", {t1}, t1, 1, 0), Ask("send", {t1}, t1, 0, 1),
     Ask("send", {t1}, t1, 1, 0), Ask("metadata", {t2}, t2, 0, 0),
     Ask("metadata", {t1, t2}, t2, 0, 0),
     Ask("create", {t1}, t1, 0, 0), Ask("ifAbsent", {t1}, t1, 0, 0),
     [Ask("list", {t1}, t1, 1, 0) EXCEPT !.leaderEpoch = 1],
     [Ask("send", {t1}, t1, 0, 1) EXCEPT !.autoCreate = FALSE]}
=============================================================================
