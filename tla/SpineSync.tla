------------------------------- MODULE SpineSync -------------------------------
(***************************************************************************)
(* `spine sync init` (syncInit, spine-sync.mjs) and `spine anchor`           *)
(* (stampAnchor, spine-anchor.mjs), which exclude each other: the init moves *)
(* the segments that the stamped payload points into.                       *)
(*                                                                         *)
(* The init runs under its own lock, and from the marker to the end under   *)
(* the flat lock.  Every return and every throw releases both.  A run that  *)
(* reads an id in the marker resumes into that partition; one that reads    *)
(* none, because there is no marker or it is empty, mints another id, and   *)
(* leaves behind the partition that was stored in so far.                   *)
(***************************************************************************)
EXTENDS SpineStore

InitSteps    == {"initIdle", "initCheck", "initFlatWait", "mark", "fill", "recheck", "migrate",
                 "seed", "anchor", "publish", "unmark"}
InitResults  == {"initOk", "already", "anchorsPresent", "anchorsFound", "initFailed"}
StampSteps   == {"stampIdle", "stampMarker", "stampDir", "stamping", "restampMarker"}
StampResults == {"standing", "syncMode", "stampFailed"}

-----------------------------------------------------------------------------
(* syncInit *)

TakeInitLock(i) ==
    /\ At(i, "initIdle")
    /\ Free(initLock)
    /\ initLock' = i
    /\ Goto(i, "initCheck")
    /\ UNCHANGED <<store, flatLock, partLock, dead, straddled>>

\* The run ends: with a result, or with an error after the marker was written.
Finish(i, result) ==
    /\ initLock' = Released(initLock, i)
    /\ flatLock' = Released(flatLock, i)
    /\ Goto(i, result)
    /\ UNCHANGED partLock

EarlyRefusal(i) ==
    /\ At(i, "initCheck")
    /\ anchorDirs # {}
    /\ Finish(i, "anchorsPresent")
    /\ UNCHANGED <<store, dead, straddled>>

AlreadySynced(i) ==
    /\ At(i, "initCheck")
    /\ anchorDirs = {}
    /\ committed
    /\ Finish(i, "already")
    /\ UNCHANGED <<store, dead, straddled>>

\* Mutant of EarlyChecksPass: a marker left by another run is a reason to refuse.
EarlyChecksUnmarked(i) ==
    /\ At(i, "initCheck")
    /\ anchorDirs = {}
    /\ ~committed
    /\ ~marker
    /\ Goto(i, "initFlatWait")
    /\ UNCHANGED <<store, locks, dead, straddled>>

EarlyChecksPass(i) ==
    /\ At(i, "initCheck")
    /\ anchorDirs = {}
    /\ ~committed
    /\ Goto(i, "initFlatWait")
    /\ UNCHANGED <<store, locks, dead, straddled>>

\* Mutant of TakeFlatLock: the marker is written outside of the flat funnel.
SkipFlatLock(i) ==
    /\ At(i, "initFlatWait")
    /\ Goto(i, "mark")
    /\ UNCHANGED <<store, locks, dead, straddled>>

TakeFlatLock(i) ==
    /\ At(i, "initFlatWait")
    /\ Free(flatLock)
    /\ flatLock' = i
    /\ Goto(i, "mark")
    /\ UNCHANGED <<store, partLock, initLock, dead, straddled>>

\* The last lines of partitions that no flat line follows at once.
Border(log) ==
    {n \in DOMAIN log : log[n].dir = "part" /\ (n = Len(log) \/ log[n + 1].dir = "flat")}

\* What the lost id named is left behind.  A torn line at its end is no event, and no longer in
\* anybody's way: it is dropped here, and its repair not modelled.
LeavesBehind ==
    /\ lines' = IF TornTail("part") THEN SubSeq(lines, 1, Len(lines) - 1) ELSE lines
    /\ left' = left \cup Border(lines')

\* writeFile of the marker truncates the file and then writes the id, which was read or minted
\* under the lock of the init.
TruncateMarker(i) ==
    /\ At(i, "mark")
    /\ marker' = TRUE
    /\ blank' = TRUE
    /\ IF Named THEN UNCHANGED <<lines, left>> ELSE LeavesBehind
    /\ Goto(i, "fill")
    /\ UNCHANGED <<last, committed, peer, anchorDirs, locks, dead, straddled>>

WriteMarker(i) ==
    /\ At(i, "fill")
    /\ \/ blank' = FALSE /\ Goto(i, "recheck") /\ UNCHANGED locks
       \/ i \in MayTear /\ Finish(i, "initFailed") /\ UNCHANGED blank
    /\ UNCHANGED <<segments, marker, committed, peer, anchorDirs, dead, straddled>>

RecheckRefuses(i) ==
    /\ At(i, "recheck")
    /\ anchorDirs # {}
    /\ marker' = FALSE
    /\ Finish(i, "anchorsFound")
    /\ UNCHANGED <<segments, blank, committed, peer, anchorDirs, dead, straddled>>

RecheckPasses(i) ==
    /\ At(i, "recheck")
    /\ anchorDirs = {}
    /\ Goto(i, "migrate")
    /\ UNCHANGED <<store, locks, dead, straddled>>

\* migrateFlatInto: the segments are renamed one by one, lowest first.  Its
\* refusal to overwrite is left out: MigrationNeverClashes shows it unused.
MigrateSegment(i) ==
    /\ At(i, "migrate")
    /\ \E s \in Segs("flat") :
        /\ \A t \in Segs("flat") : s <= t
        /\ lines' = [k \in DOMAIN lines |->
                        IF lines[k].seg = s THEN [lines[k] EXCEPT !.dir = "part"] ELSE lines[k]]
    /\ UNCHANGED <<last, left, config, peer, anchorDirs, locks, pc, dead, straddled>>

MigrateDone(i) ==
    /\ At(i, "migrate")
    /\ Segs("flat") = {}
    /\ Goto(i, IF Stream("part") = {} THEN "seed" ELSE "anchor")
    /\ UNCHANGED <<store, locks, dead, straddled>>

\* An event stored by the init itself, under the partition's lock.  When the
\* write tears, the error ends the run and the marker stays.
InitStores(i, e, next) ==
    /\ Free(partLock)
    /\ ~TornTail("part")
    /\ \/ Store(e, "part", TailOf("part"), "whole") /\ Goto(i, next) /\ UNCHANGED locks
       \/ Store(e, "part", TailOf("part"), "torn") /\ Finish(i, "initFailed")
    /\ UNCHANGED <<config, peer, anchorDirs, dead, straddled>>

SeedCutover(i) == At(i, "seed") /\ InitStores(i, i, "anchor")

Anchored == \E k \in InDir("part") : lines[k].id = Anchor /\ lines[k].end = "whole"

\* An anchor is there, of an earlier run or of a peer: it is adopted.
AdoptAnchor(i) ==
    /\ At(i, "anchor")
    /\ Anchored \/ peer
    /\ Goto(i, "publish")
    /\ UNCHANGED <<store, locks, dead, straddled>>

PublishAnchor(i) ==
    /\ At(i, "anchor")
    /\ ~Anchored
    /\ Stream("part") # {}
    /\ InitStores(i, Anchor, "publish")

\* wsFail: a torn tail, no line to nominate, or authority bytes that do not read or verify.
BootstrapFails(i) ==
    /\ At(i, "anchor")
    /\ \/ TornTail("part") \/ Stream("part") = {}
       \/ Anchor \in MayTear
    /\ Finish(i, "initFailed")
    /\ UNCHANGED <<store, dead, straddled>>

PublishReplica(i) ==
    /\ At(i, "publish")
    /\ committed' = TRUE
    /\ Goto(i, "unmark")
    /\ UNCHANGED <<segments, marker, blank, peer, anchorDirs, locks, dead, straddled>>

UnlinkMarker(i) ==
    /\ At(i, "unmark")
    /\ marker' = FALSE
    /\ straddled' = straddled \cup {p \in Process : pc[p] \in Between}
    /\ Finish(i, "initOk")
    /\ UNCHANGED <<segments, blank, committed, peer, anchorDirs, dead>>

SyncNext(i) ==
    \/ TakeInitLock(i)
    \/ EarlyRefusal(i) \/ AlreadySynced(i) \/ EarlyChecksPass(i)
    \/ TakeFlatLock(i) \/ TruncateMarker(i) \/ WriteMarker(i)
    \/ RecheckRefuses(i) \/ RecheckPasses(i)
    \/ MigrateSegment(i) \/ MigrateDone(i) \/ SeedCutover(i)
    \/ AdoptAnchor(i) \/ PublishAnchor(i) \/ BootstrapFails(i)
    \/ PublishReplica(i) \/ UnlinkMarker(i)

-----------------------------------------------------------------------------
(* stampAnchor, from its check under the anchors lock on *)

StampReadsReplica(s) ==
    /\ At(s, "stampIdle")
    /\ Goto(s, IF committed THEN "syncMode" ELSE "stampMarker")
    /\ UNCHANGED <<store, locks, dead, straddled>>

StampReadsMarker(s) ==
    /\ At(s, "stampMarker")
    /\ Goto(s, IF Named THEN "syncMode" ELSE "stampDir")
    /\ UNCHANGED <<store, locks, dead, straddled>>

MakeAnchorDir(s) ==
    /\ At(s, "stampDir")
    /\ anchorDirs' = anchorDirs \cup {s}
    /\ Goto(s, "stamping")
    /\ UNCHANGED <<segments, config, peer, locks, dead, straddled>>

RollBack(s, result) ==
    /\ anchorDirs' = anchorDirs \ {s}
    /\ Goto(s, result)
    /\ UNCHANGED <<segments, config, peer, locks, dead, straddled>>

\* ots answered, or did not; then replica.json is read again, and the marker.
StampEnds(s) ==
    /\ At(s, "stamping")
    /\ \/ RollBack(s, "stampFailed")
       \/ committed /\ RollBack(s, "syncMode")
       \/ ~committed /\ Goto(s, "restampMarker") /\ UNCHANGED <<store, locks, dead, straddled>>

\* Mutant of StampRechecks: no second look at the marker.
StampUnchecked(s) ==
    /\ At(s, "restampMarker")
    /\ Goto(s, "standing")
    /\ UNCHANGED <<store, locks, dead, straddled>>

StampRechecks(s) ==
    /\ At(s, "restampMarker")
    /\ \/ Named /\ RollBack(s, "syncMode")
       \/ ~Named /\ Goto(s, "standing") /\ UNCHANGED <<store, locks, dead, straddled>>

StampNext(s) ==
    \/ StampReadsReplica(s) \/ StampReadsMarker(s) \/ MakeAnchorDir(s)
    \/ StampEnds(s) \/ StampRechecks(s)
=============================================================================
