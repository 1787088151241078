------------------------------ MODULE SpineAppend ------------------------------
(***************************************************************************)
(* append(): resolveWriteReplica chooses the stream, then appendPartitioned *)
(* or appendFlatChained links and stores the line under that stream's lock. *)
(* The flat write resolves again under the lock and hands the call back     *)
(* when a migration came in between.  append() resolves twice before it     *)
(* writes, once around the identity gate: both calls refuse in the same     *)
(* way, and the one before the write is the one modelled.                   *)
(***************************************************************************)
EXTENDS SpineStore

VARIABLE link   \* the line a writer is about to link to

AppendSteps == {"idle", "resolve", "probe", "mode", "poll", "pollMarker", "recommit",
                "flatWait", "flat", "flatLinked", "partWait", "part", "partLinked",
                "written", "broken"}

Refusals == {"stalled", "unattached", "tornTail", "busy", "writeError"}

AppendStart(w) ==
    /\ At(w, "idle")
    /\ Goto(w, "resolve")
    /\ UNCHANGED <<store, locks, dead, straddled>>

-----------------------------------------------------------------------------
(* resolveWriteReplica *)

ReadCommitted(w) ==
    /\ At(w, "resolve")
    /\ Goto(w, IF committed THEN "partWait" ELSE "probe")
    /\ UNCHANGED <<store, locks, dead, straddled>>

ProbeMarker(w) ==
    /\ At(w, "probe")
    /\ Goto(w, IF marker THEN "poll" ELSE "mode")
    /\ UNCHANGED <<store, locks, dead, straddled>>

ProbeMode(w) ==
    /\ At(w, "mode")
    /\ Goto(w, IF ModePartitioned THEN "unattached" ELSE "flatWait")
    /\ UNCHANGED <<store, locks, dead, straddled>>

\* The wait for the migration: replica.json, then the marker, then a sleep.
PollCommitted(w) ==
    /\ At(w, "poll")
    /\ Goto(w, IF committed THEN "partWait" ELSE "pollMarker")
    /\ UNCHANGED <<store, locks, dead, straddled>>

PollMarker(w) ==
    /\ At(w, "pollMarker")
    /\ Goto(w, IF marker THEN "poll" ELSE "recommit")
    /\ UNCHANGED <<store, locks, dead, straddled>>

PollTimesOut(w) ==
    /\ At(w, "pollMarker")
    /\ marker
    /\ Goto(w, "stalled")
    /\ UNCHANGED <<store, locks, dead, straddled>>

\* The marker is gone: replica.json is read once more.
Recommit(w) ==
    /\ At(w, "recommit")
    /\ Goto(w, IF committed THEN "partWait" ELSE "flatWait")
    /\ UNCHANGED <<store, locks, dead, straddled>>

-----------------------------------------------------------------------------
(* appendFlatChained and appendPartitioned *)

\* Mutant of LockFlat: the lock does not exclude.
LockFlatAnyway(w) ==
    /\ At(w, "flatWait")
    /\ flatLock' = w
    /\ Goto(w, "flat")
    /\ UNCHANGED <<store, partLock, initLock, dead, straddled>>

LockFlat(w) ==
    /\ At(w, "flatWait")
    /\ Free(flatLock)
    /\ flatLock' = w
    /\ Goto(w, "flat")
    /\ UNCHANGED <<store, partLock, initLock, dead, straddled>>

LockPart(w) ==
    /\ At(w, "partWait")
    /\ Free(partLock)
    /\ partLock' = w
    /\ Goto(w, "part")
    /\ UNCHANGED <<store, flatLock, initLock, dead, straddled>>

\* maxWaitMs ran out while another process held the lock.
GiveUp(w) ==
    /\ w \in Bounded
    /\ \/ At(w, "flatWait") /\ ~Free(flatLock)
       \/ At(w, "partWait") /\ ~Free(partLock)
    /\ Goto(w, "busy")
    /\ UNCHANGED <<store, locks, dead, straddled>>

\* The call leaves its critical section for a step outside of it.
Leave(w, step) ==
    /\ flatLock' = Released(flatLock, w)
    /\ partLock' = Released(partLock, w)
    /\ Goto(w, step)
    /\ UNCHANGED initLock

\* Mutant of FlatHandsBack: the partitions are probed before the config is read.
FlatProbesFirst(w) ==
    /\ At(w, "flat")
    /\ \/ ModePartitioned /\ Leave(w, "unattached")
       \/ ~ModePartitioned /\ marker /\ Leave(w, "resolve")
       \/ ~ModePartitioned /\ ~marker /\ TornTail("flat") /\ Leave(w, "tornTail")
    /\ UNCHANGED <<store, dead, straddled>>

\* The resolve under the flat lock found a migration, a partition or a torn tail.
\* It is one step: replica.json and the marker of a migration only appear under
\* this lock, and a marker that is there sends the call back, whatever follows.
FlatHandsBack(w) ==
    /\ At(w, "flat")
    /\ \/ committed /\ Leave(w, "partWait")
       \/ ~committed /\ marker /\ Leave(w, "resolve")
       \/ ~committed /\ ~marker /\ ModePartitioned /\ Leave(w, "unattached")
       \/ ~committed /\ ~marker /\ ~ModePartitioned /\ TornTail("flat") /\ Leave(w, "tornTail")
    /\ UNCHANGED <<store, dead, straddled>>

FlatMayWrite == ~committed /\ ~marker /\ ~ModePartitioned

\* lastEventLineInDir and prev_hash; the write is a step of its own.
Links(w, d) ==
    /\ ~TornTail(d)
    /\ link' = [link EXCEPT ![w] = TailOf(d)]
    /\ UNCHANGED <<store, locks, dead, straddled>>

FlatLinks(w) ==
    /\ At(w, "flat")
    /\ FlatMayWrite
    /\ Links(w, "flat")
    /\ Goto(w, "flatLinked")

PartLinks(w) ==
    /\ At(w, "part")
    /\ Links(w, "part")
    /\ Goto(w, "partLinked")

PartRefuses(w) ==
    /\ At(w, "part")
    /\ TornTail("part")
    /\ Leave(w, "tornTail")
    /\ UNCHANGED <<store, dead, straddled>>

\* appendFile to the current segment.
Writes(w, d) ==
    /\ \/ Store(w, d, link[w], "whole") /\ Goto(w, "written")
       \/ Store(w, d, link[w], "torn") /\ Goto(w, "broken")
    /\ link' = [link EXCEPT ![w] = NoLine]
    /\ UNCHANGED <<config, peer, anchorDirs, locks, dead, straddled>>

FlatWrites(w) == At(w, "flatLinked") /\ Writes(w, "flat")
PartWrites(w) == At(w, "partLinked") /\ Writes(w, "part")

\* Mutant of AppendReturns: the error of the write is swallowed.
AppendSwallows(w) ==
    /\ At(w, "written") \/ At(w, "broken")
    /\ Leave(w, "acked")
    /\ UNCHANGED <<store, dead, straddled>>

\* The lock is released; append() returns the event or throws the write's error.
AppendReturns(w) ==
    /\ \/ At(w, "written") /\ Leave(w, "acked")
       \/ At(w, "broken") /\ Leave(w, "writeError")
    /\ UNCHANGED <<store, dead, straddled>>

AppendNext(w) ==
    \/ /\ \/ AppendStart(w)
          \/ ReadCommitted(w) \/ ProbeMarker(w) \/ ProbeMode(w)
          \/ PollCommitted(w) \/ PollMarker(w) \/ PollTimesOut(w) \/ Recommit(w)
          \/ LockFlat(w) \/ LockPart(w) \/ GiveUp(w)
          \/ FlatHandsBack(w) \/ PartRefuses(w) \/ AppendReturns(w)
       /\ UNCHANGED link
    \/ FlatLinks(w) \/ PartLinks(w) \/ FlatWrites(w) \/ PartWrites(w)
==============================================================================
