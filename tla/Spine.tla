--------------------------------- MODULE Spine ---------------------------------
(***************************************************************************)
(* The event spine of one checkout: append() calls, `spine sync init` runs, *)
(* `spine anchor` runs and readAll() calls, each in a process of its own,   *)
(* over the files of SpineStore.                                            *)
(***************************************************************************)
EXTENDS SpineAppend, SpineSync, SpineRead

CONSTANT Absents    \* which processes may be gone before the run begins: sets of them

vars == <<store, locks, pc, dead, straddled, link, reads>>

\* A log a spine may hold when the run begins: flat, whole, linked, each event once.
WellFormed(log) ==
    /\ log \in Seq(Line)
    /\ \A k \in DOMAIN log :
        /\ log[k].id \in Old
        /\ log[k].dir = "flat"
        /\ log[k].end = "whole"
        /\ log[k].prev = IF k = 1 THEN NoLine ELSE log[k - 1].id
    /\ \A j, k \in DOMAIN log : j < k => log[j].seg <= log[k].seg /\ log[j].id # log[k].id

ASSUME SpineAssumption ==
    /\ \A log \in OldLogs : WellFormed(log)
    /\ MaxSeg \in Nat \ {0}
    /\ Nobody \notin Process
    /\ NoLine \notin Event
    /\ Anchor \notin Old \cup Writer \cup Initer
    /\ Old \cap (Writer \cup Initer) = {}
    /\ Writer \cap (Initer \cup Stamper \cup Reader) = {}
    /\ Initer \cap (Stamper \cup Reader) = {}
    /\ Stamper \cap Reader = {}
    /\ Bounded \subseteq Writer
    /\ MayDie \subseteq Process
    /\ Absents \subseteq SUBSET Process
    /\ MayTear \subseteq Event

Init ==
    /\ lines \in OldLogs
    /\ last = IF lines = <<>> THEN 0 ELSE lines[Len(lines)].seg
    /\ left = {}
    /\ marker = FALSE /\ blank = FALSE /\ committed = FALSE /\ peer = FALSE /\ anchorDirs = {}
    /\ flatLock = Nobody /\ partLock = Nobody /\ initLock = Nobody
    /\ pc = [p \in Process |->
                CASE p \in Writer  -> "idle"
                  [] p \in Initer  -> "initIdle"
                  [] p \in Stamper -> "stampIdle"
                  [] OTHER         -> "readIdle"]
    /\ dead \in Absents /\ straddled = {}
    /\ link = [w \in Writer |-> NoLine]
    /\ todo = [r \in Reader |-> {}]
    /\ got = [r \in Reader |-> {}]
    /\ must = [r \in Reader |-> {}]
    /\ blind = {}

Around == (\E p \in Process : Die(p)) \/ PullPeer \/ OperatorTrims \/ OperatorEnds

Next ==
    \/ \E w \in Writer : AppendNext(w) /\ UNCHANGED reads
    \/ \E i \in Initer : SyncNext(i) /\ UNCHANGED <<link, reads>>
    \/ \E s \in Stamper : StampNext(s) /\ UNCHANGED <<link, reads>>
    \/ \E r \in Reader : ReadNext(r) /\ UNCHANGED link
    \/ Around /\ UNCHANGED <<link, reads>>

Spec == Init /\ [][Next]_vars

\* A process that lives takes its next step, and the poll of a stuck migration,
\* which counts the time it waited, times out.
Fairness ==
    /\ \A w \in Writer : WF_vars(AppendNext(w) /\ UNCHANGED reads)
                         /\ SF_vars(PollTimesOut(w) /\ UNCHANGED <<link, reads>>)
    /\ \A i \in Initer : WF_vars(SyncNext(i) /\ UNCHANGED <<link, reads>>)

FairSpec == Spec /\ Fairness

-----------------------------------------------------------------------------
(* Properties *)

AppendPcs == AppendSteps \cup Refusals \cup {"acked"}
InitPcs   == InitSteps \cup InitResults
StampPcs  == StampSteps \cup StampResults

\* Types of the variables.
TypeOK ==
    /\ lines \in Seq(Line)
    /\ last \in 0..MaxSeg
    /\ left \subseteq 1..Len(lines)
    /\ marker \in BOOLEAN /\ blank \in BOOLEAN /\ committed \in BOOLEAN /\ peer \in BOOLEAN
    /\ anchorDirs \subseteq Stamper
    /\ flatLock \in Writer \cup Initer \cup {Nobody}
    /\ partLock \in Writer \cup {Nobody}
    /\ initLock \in Initer \cup {Nobody}
    /\ pc \in [Process -> AppendPcs \cup InitPcs \cup StampPcs \cup ReadSteps]
    /\ \A w \in Writer : pc[w] \in AppendPcs
    /\ \A i \in Initer : pc[i] \in InitPcs
    /\ \A s \in Stamper : pc[s] \in StampPcs
    /\ \A r \in Reader : pc[r] \in ReadSteps
    /\ dead \subseteq Process /\ straddled \subseteq Process
    /\ link \in [Writer -> Event \cup {NoLine}]
    /\ todo \in [Reader -> SUBSET (1..MaxSeg)]
    /\ got \in [Reader -> SUBSET Event]
    /\ must \in [Reader -> SUBSET Event]
    /\ blind \subseteq Reader

\* Every line links to the line before it, in the order in which segments and
\* lines are read, across both directories: two appends, or an append and a
\* migration, never link to the same line, and no crash leaves a torn line with
\* a line after it (prev_hash, lastEventLineInDir, TORN_TAIL).  The one exception
\* is the first event of a partition that was empty when an init opened it in
\* place of one whose id was lost: it begins a chain of its own.
ChainUnbroken ==
    \A k \in DOMAIN lines :
        LET before == {j \in DOMAIN lines : Precedes(j, k)}
        IN  /\ \/ lines[k].prev = IF before = {} THEN NoLine ELSE lines[LastOf(before)].id
               \/ lines[k].prev = NoLine /\ k - 1 \in left
            /\ \A j \in before : lines[j].end = "whole"

\* Once replica.json is published no line is in the flat stream, where no writer
\* and no sync would ever look at it again.  The comment on the "barrier residual"
\* of syncInitBody expects such a line of an append that looked before the marker
\* was written, and the code reports it as strandedFlat; but append() looks again
\* under the flat lock, which the init holds from before the marker to the end, so
\* that among the callers of append() there is none.
NoStrandedFlat == committed => InDir("flat") = {}

\* migrateFlatInto never meets a segment of the same name in the partition, so
\* that its refusal to overwrite is never what ends a run.
MigrationNeverClashes ==
    \A i \in Initer : At(i, "migrate") => Segs("flat") \cap Segs("part") = {}

\* An init found a stamp's directory under the flat lock and removed the marker, which
\* may have been that of a migration an earlier run left half-done (HalfMigrationMarked).
MarkerDropped == \E i \in Initer : pc[i] = "anchorsFound"

\* append() refuses with REPLICA_UNATTACHED only in a checkout that does hold a
\* peer's partition, unless the unlocked resolve took its last look while an init
\* was under way or had just published, or an init dropped the marker.  Under the
\* flat lock, and where no marker was dropped, it is never wrong.
RefusalJustified ==
    [][\A w \in Writer :
          pc'[w] = "unattached" /\ pc[w] # "unattached" =>
              \/ peer
              \/ pc[w] = "mode" /\ (marker \/ committed)
              \/ MarkerDropped]_vars

\* Though segments are renamed, torn and repaired under it, a finished read holds every event
\* whose append() had returned before it began, unless the init published between the two reads
\* of its recheck.  And it has no gap: with an event it holds those before it, so that a cursor
\* (readSince) set to its last event skips nothing.  Neither holds where a marker was dropped,
\* or for a reader that rechecked while the marker of a half-done migration was empty, which an
\* init leaves it if it dies inside its writeFile: the read takes the flat rest for the whole.
ReadSound ==
    \A r \in Reader : pc[r] = "readDone" /\ ~MarkerDropped /\ r \notin blind =>
        /\ must[r] \subseteq got[r] \/ r \in straddled
        /\ \A j, k \in DOMAIN lines :
              Precedes(j, k) /\ lines[k].id \in got[r] => lines[j].id \in got[r]

\* The stored lines are one log that only grows, and what append() returned is in
\* it for good: migration, crashes and repairs are invisible in it.
CommittedLen ==
    IF lines # <<>> /\ lines[Len(lines)].end = "torn" THEN Len(lines) - 1 ELSE Len(lines)

Log == INSTANCE EventLog WITH
    log   <- [k \in 1..CommittedLen |-> lines[k].id],
    acked <- {w \in Writer : pc[w] = "acked"}

ImplementsLog == Log!Spec

\* A stamp that was let stand and a published sync never coexist (one of the two
\* rechecks fires), unless the init published between the two reads of the stamp's.
AnchorsOrSync ==
    committed => \A s \in Stamper : pc[s] = "standing" => s \in straddled

Decided(w) == pc[w] \in Refusals \cup {"acked"} \/ w \in dead

\* Every append() that was called returns or throws, whatever holds the locks and
\* wherever an init died: nothing waits for good.
AppendDecides == \A w \in Writer : pc[w] = "resolve" ~> Decided(w)

\* An init stores in the partition that an earlier run left half-done, and leaves it behind for
\* one of another id only after a run died, or failed, inside its writeFile of the marker, or
\* dropped the marker.
PartitionKept ==
    left # {} => \/ MarkerDropped
                 \/ \E i \in Initer : \/ pc[i] = "fill" /\ i \in dead
                                      \/ pc[i] = "initFailed" /\ i \in MayTear

\* When some init survives, the migration completes, whichever step others died
\* at: in the partition that they began, but where they left the marker empty.
MigrationResumes ==
    /\ (\E i \in Initer : pc[i] = "initCheck") ~> committed
    /\ []PartitionKept

-----------------------------------------------------------------------------
(* What a comment of the code says of the program, and a run refutes *)

\* "readAll still sees the in-progress partition + residual flat
\* (readActiveReplicaId), so reads stay consistent" (syncInitBody,
\* spine-sync.mjs): a half-done migration is marked.
HalfMigrationMarked ==
    InDir("part") # {} /\ InDir("flat") # {} => marker \/ committed
=============================================================================
