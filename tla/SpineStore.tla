------------------------------ MODULE SpineStore ------------------------------
(***************************************************************************)
(* The files the spine's processes share: the event segments under          *)
(* .maddu/events (the flat stream) and under events/by-replica/<id> (the    *)
(* partitions of this checkout: the one it stores in, and those of an id    *)
(* that was lost), the migration marker config/replica.pending.json,        *)
(* the identity config/replica.json, the anchor directories, and the three  *)
(* append locks.                                                            *)
(*                                                                         *)
(* lines holds every stored event line in the order the lines were written. *)
(* A line knows its segment and the directory that segment is in: renaming  *)
(* a segment changes the directory of its lines.  The line itself stands    *)
(* for its hash, so prev_hash is the event the line links to.               *)
(*                                                                         *)
(* A process that is dead does nothing more.  A lock it held is free: the   *)
(* locks are those of AppendLock, and what is used of them here is what     *)
(* AppendLockProofs shows of a lock outside the windows named there.         *)
(***************************************************************************)
EXTENDS Integers, Sequences, FiniteSets

CONSTANTS
    Writer,    \* append() calls; each stores one event, named after the call
    Bounded,   \* the calls among them that pass a maxWaitMs
    Initer,    \* runs of `spine sync init`
    Stamper,   \* runs of `spine anchor`
    Reader,    \* readAll() calls
    Old,       \* events stored before the run
    OldLogs,   \* the logs the run may start from
    Anchor,    \* the WS_IDENTITY_ANCHORED event of the sync init
    NoLine,    \* prev_hash: null
    Nobody,    \* holder of a free lock
    MaxSeg,    \* bound on the segments of the run
    MayDie,    \* processes that may crash
    MayTear    \* events whose write may fail half-way, with the marker's write of a run of init,
               \* and the bootstrap of Anchor as a whole

Process == Writer \cup Initer \cup Stamper \cup Reader

\* The SPINE_CUTOVER event that a run of init opens an empty partition with is named after the run.
Event   == Old \cup Writer \cup Initer \cup {Anchor}
Dir     == {"flat", "part"}
Line    == [id : Event, prev : Event \cup {NoLine}, seg : 1..MaxSeg,
            dir : Dir, end : {"whole", "torn"}]

VARIABLES
    lines,
    last,        \* number of the last segment file; one whose only line was trimmed stays
    left,        \* numbers of lines after which a partition was left behind for one of another id
    marker,      \* replica.pending.json exists
    blank,       \* and is empty: its id cannot be read
    committed,   \* replica.json exists
    peer,        \* git brought the partition of another replica
    anchorDirs,  \* stamp runs whose anchor directory exists
    flatLock, partLock, initLock,
    pc,
    dead,
    straddled    \* history: processes between whose reads of the two config
                 \* files an init published the one and removed the other

segments == <<lines, last, left>>
config   == <<marker, blank, committed>>

store == <<segments, config, peer, anchorDirs>>
locks == <<flatLock, partLock, initLock>>

-----------------------------------------------------------------------------
(* Segments *)

InDir(d) == {i \in DOMAIN lines : lines[i].dir = d}
Segs(d)  == {lines[i].seg : i \in InDir(d)}

\* Segments are read in the order of their numbers, lines in the order stored.
Precedes(i, j) == \/ lines[i].seg < lines[j].seg
                  \/ lines[i].seg = lines[j].seg /\ i < j

IsLast(i, S) == i \in S /\ \A j \in S \ {i} : Precedes(j, i)
LastOf(S)    == CHOOSE i \in S : IsLast(i, S)

\* The lines of the partitions left behind, and the lines of the stream that is stored in.
Left      == {i \in DOMAIN lines : \E n \in left : i <= n}
Stream(d) == InDir(d) \ Left

\* lastEventLineInDir: the line a new line links to, and the torn tail it refuses.
TailOf(d)   == IF Stream(d) = {} THEN NoLine ELSE lines[LastOf(Stream(d))].id
TornTail(d) == \E i \in Stream(d) : IsLast(i, Stream(d)) /\ lines[i].end = "torn"

\* currentSegmentInDir: the last segment, or the next one when it is full.  Whoever stores a
\* line has all other segments in its own directory or left behind.
CurrentSegs == ({last, last + 1} \cap (1..MaxSeg)) \ {lines[i].seg : i \in Left}

NewLine(e, d, s, prev, how) ==
    [id |-> e, prev |-> prev, seg |-> s, dir |-> d, end |-> how]

\* Event e is stored in d, whole, or torn by a write that fails half-way.
Store(e, d, prev, how) ==
    /\ how = "torn" => e \in MayTear
    /\ \E s \in CurrentSegs :
        /\ lines' = Append(lines, NewLine(e, d, s, prev, how))
        /\ last' = s
    /\ UNCHANGED left

WholeIds(d, s) ==
    {lines[i].id : i \in {k \in InDir(d) : lines[k].seg = s /\ lines[k].end = "whole"}}

\* The marker names an id: readPendingReplicaId, and readActiveReplicaId without replica.json.
Named == marker /\ ~blank

\* wsModeIsPartitioned: some partition holds a segment.
ModePartitioned == peer \/ InDir("part") # {}

-----------------------------------------------------------------------------
(* Processes and locks *)

At(p, step)   == p \notin dead /\ pc[p] = step
Goto(p, step) == pc' = [pc EXCEPT ![p] = step]

\* Mutant of Free: a lock whose holder died is never reclaimed.
FreeUnlessHeld(lock) == lock = Nobody

Free(lock)       == lock = Nobody \/ lock \in dead
Released(lock, p) == IF lock = p THEN Nobody ELSE lock

\* Steps between a read of replica.json that found nothing and the read of the
\* marker, in the rechecks after which nothing reads replica.json again.
Between == {"recheckMarker", "restampMarker"}

-----------------------------------------------------------------------------
(* What happens around the processes *)

Die(p) ==
    /\ p \in MayDie \ dead
    /\ dead' = dead \cup {p}
    /\ UNCHANGED <<store, locks, pc, straddled>>

\* A git pull brings a peer's partition into the working tree.
PullPeer ==
    /\ ~peer
    /\ peer' = TRUE
    /\ UNCHANGED <<segments, config, anchorDirs, locks, pc, dead, straddled>>

\* The repair TORN_TAIL asks for: trim the partial line, or end a complete one.
OperatorTrims ==
    /\ lines # <<>>
    /\ lines[Len(lines)].end = "torn"
    /\ lines' = SubSeq(lines, 1, Len(lines) - 1)
    /\ UNCHANGED <<last, left, config, peer, anchorDirs, locks, pc, dead, straddled>>

OperatorEnds ==
    /\ lines # <<>>
    /\ lines[Len(lines)].end = "torn"
    /\ lines' = [lines EXCEPT ![Len(lines)].end = "whole"]
    /\ UNCHANGED <<last, left, config, peer, anchorDirs, locks, pc, dead, straddled>>
=============================================================================
