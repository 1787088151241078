------------------------------- MODULE SpineRead -------------------------------
(***************************************************************************)
(* readAll() and readAllPartitioned(): a read takes no lock.  It chooses     *)
(* the flat or the partitioned view from the two config files, lists the    *)
(* segments and reads them one by one while they are written and renamed.   *)
(* What the merge does to the order of the events is not modelled here: a   *)
(* result is the set of events it holds.                                    *)
(***************************************************************************)
EXTENDS SpineStore

VARIABLES
    todo,   \* listed segments a reader has not read yet
    got,    \* events it collected
    must,   \* history: events acknowledged when the read began
    blind   \* history: readers whose recheck met the empty marker of a half-done migration

reads == <<todo, got, must, blind>>

ReadSteps == {"readIdle", "readReplica", "readMarker", "list", "recheckReplica",
              "recheckMarker", "flatRead", "partList", "residualRead",
              "replicaList", "replicaRead", "readDone"}

\* Events whose append() has returned, and those stored before the run.
Acked == {e \in Old : \E k \in DOMAIN lines : lines[k].id = e}
            \cup {w \in Writer : pc[w] = "acked"}

Unaffected == UNCHANGED <<store, locks, dead, straddled>>

ReadStart(r) ==
    /\ At(r, "readIdle")
    /\ must' = [must EXCEPT ![r] = Acked]
    /\ Goto(r, "readReplica")
    /\ UNCHANGED <<todo, got, blind>> /\ Unaffected

\* Mutant of ReadActive: the listing is not rechecked.
ReadActiveOnce(r) ==
    /\ \/ At(r, "readReplica") /\ Goto(r, IF committed THEN "partList" ELSE "readMarker")
       \/ At(r, "readMarker") /\ Goto(r, IF Named THEN "partList" ELSE "list")
       \/ At(r, "recheckReplica") /\ Goto(r, "flatRead")
    /\ UNCHANGED reads /\ Unaffected

\* readActiveReplicaId, before and after the listing: replica.json, the marker.
ReadActive(r) ==
    /\ \/ At(r, "readReplica") /\ Goto(r, IF committed THEN "partList" ELSE "readMarker")
       \/ At(r, "readMarker") /\ Goto(r, IF Named THEN "partList" ELSE "list")
       \/ At(r, "recheckReplica") /\ Goto(r, IF committed THEN "partList" ELSE "recheckMarker")
       \/ At(r, "recheckMarker") /\ Goto(r, IF Named THEN "partList" ELSE "flatRead")
    /\ blind' = IF pc[r] = "recheckMarker" /\ marker /\ blank /\ InDir("part") # {}
                THEN blind \cup {r} ELSE blind
    /\ UNCHANGED <<todo, got, must>> /\ Unaffected

ListSegments(r, d, from, to) ==
    /\ At(r, from)
    /\ todo' = [todo EXCEPT ![r] = Segs(d)]
    /\ Goto(r, to)
    /\ UNCHANGED <<got, must, blind>> /\ Unaffected

ListFlat(r)     == ListSegments(r, "flat", "list", "recheckReplica")
ListResidual(r) == ListSegments(r, "flat", "partList", "residualRead")
ListReplica(r)  == ListSegments(r, "part", "replicaList", "replicaRead")

NextSegment(r, s) == s \in todo[r] /\ \A t \in todo[r] : s <= t

\* The next listed segment is read where it was listed.
ReadSegment(r, step, d) ==
    /\ At(r, step)
    /\ \E s \in Segs(d) :
        /\ NextSegment(r, s)
        /\ got' = [got EXCEPT ![r] = @ \cup WholeIds(d, s)]
        /\ todo' = [todo EXCEPT ![r] = @ \ {s}]
    /\ UNCHANGED <<must, blind, pc>> /\ Unaffected

ReadFlat(r)     == ReadSegment(r, "flatRead", "flat")
ReadResidual(r) == ReadSegment(r, "residualRead", "flat")
ReadReplica(r)  == ReadSegment(r, "replicaRead", "part")

\* readAll: ENOENT restarts the read in the partitioned view.
FlatVanished(r) ==
    /\ At(r, "flatRead")
    /\ \E s \in todo[r] : NextSegment(r, s) /\ s \notin Segs("flat")
    /\ got' = [got EXCEPT ![r] = {}]
    /\ Goto(r, "partList")
    /\ UNCHANGED <<todo, must, blind>> /\ Unaffected

\* The next listed segment holds no line in the directories dirs, and adds none.
SkipSegment(r, step, dirs) ==
    /\ At(r, step)
    /\ \E s \in todo[r] :
        /\ NextSegment(r, s)
        /\ \A d \in dirs : s \notin Segs(d)
        /\ todo' = [todo EXCEPT ![r] = @ \ {s}]
    /\ UNCHANGED <<got, must, blind, pc>> /\ Unaffected

\* parseStreamDir skips a segment that vanished; one whose only line was trimmed
\* since the listing is read, and is empty.
ResidualVanished(r) == SkipSegment(r, "residualRead", {"flat"})
SegmentEmptied(r)   == SkipSegment(r, "flatRead", Dir) \/ SkipSegment(r, "replicaRead", Dir)

NothingLeft(r) ==
    /\ todo[r] = {}
    /\ \/ At(r, "flatRead") /\ Goto(r, "readDone")
       \/ At(r, "residualRead") /\ Goto(r, "replicaList")
       \/ At(r, "replicaRead") /\ Goto(r, "readDone")
    /\ UNCHANGED reads /\ Unaffected

ReadNext(r) ==
    \/ ReadStart(r) \/ ReadActive(r)
    \/ ListFlat(r) \/ ListResidual(r) \/ ListReplica(r)
    \/ ReadFlat(r) \/ ReadResidual(r) \/ ReadReplica(r)
    \/ FlatVanished(r) \/ ResidualVanished(r) \/ SegmentEmptied(r)
    \/ NothingLeft(r)
=============================================================================
