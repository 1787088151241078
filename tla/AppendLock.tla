------------------------------ MODULE AppendLock ------------------------------
(***************************************************************************)
(* The advisory file lock under every writer of the spine                  *)
(* (template/maddu/runtime/lib/append-lock.mjs): a lock file created with   *)
(* O_EXCL, whose owner record is written by a second call, which waiters    *)
(* poll and reclaim when its owner is provably dead or never wrote itself.  *)
(*                                                                         *)
(* A Call is one acquireAppendLock ... release: its ownerId is a nonce, so  *)
(* the call itself stands for it.  Calls run in processes; a process that   *)
(* ends, by exit or by crash, takes its unfinished calls with it and leaves *)
(* the lock file as it is.  One await of the code is one step here.  A read *)
(* or an unlink whose error the code swallows may fail too, MaxFaults times *)
(* in a run: the file is there, and the call takes it for missing or gone.  *)
(***************************************************************************)
EXTENDS Integers, FiniteSets

CONSTANTS
    Call,         \* acquire calls, each with an ownerId of its own
    Process,      \* operating-system processes
    proc,         \* proc[c]: the process that runs call c
    host,         \* host[p]: the machine of process p
    MayDie,       \* processes that may end during the run
    Strict,       \* calls whose maxWaitMs is Infinity
    WaitPolls,    \* maxWaitMs / POLL_MS of the other calls
    GracePolls,   \* bodylessGracePolls()
    IoErrors,     \* may open or the body write fail?
    MaxFaults,    \* bound: reads and unlinks of a file that is there which fail
    Nobody        \* owner of the absent file

NoFile == [by |-> Nobody, body |-> FALSE]

ASSUME CallAssumption ==
    /\ proc \in [Call -> Process]
    /\ host \in [Process -> Nat]
    /\ MayDie \subseteq Process
    /\ Strict \subseteq Call
    /\ WaitPolls \in Nat
    /\ GracePolls \in Nat \ {0}
    /\ IoErrors \in BOOLEAN
    /\ MaxFaults \in Nat
    /\ Nobody \notin Call

VARIABLES
    file,     \* the lock file: NoFile, or whose it is and whether it has its record
    pc,       \* where each call is
    rec,      \* the owner record a waiter read last
    nullReads,
    waited,
    dead,     \* processes that ended
    faults,   \* reads and unlinks that failed so far
    raced     \* history: a call was once about to unlink what it had not judged right

vars == <<file, pc, rec, nullReads, waited, dead, faults, raced>>

\* The steps of acquireAppendLock, of the critical section and of the release.
Waiting    == {"open", "read", "probe", "unlinkDead", "unlinkBodyless"}
Reclaiming == {"unlinkDead", "unlinkBodyless"}
Steps      == {"idle", "body", "held", "unlinkOwn", "released", "threw"} \cup Waiting

FileOf(c, written) == [by |-> c, body |-> written]

Live(c) == proc[c] \notin dead

\* c runs the caller's critical section.
Holding(c) == pc[c] = "held" /\ Live(c)

Init ==
    /\ file = NoFile
    /\ pc = [c \in Call |-> "idle"]
    /\ rec = [c \in Call |-> NoFile]
    /\ nullReads = [c \in Call |-> 0]
    /\ waited = [c \in Call |-> 0]
    /\ dead = {}
    /\ faults = 0
    /\ raced = FALSE

At(c, step) == Live(c) /\ pc[c] = step
Goto(c, step) == pc' = [pc EXCEPT ![c] = step]

\* A read or an unlink of a file that is there fails, and the code swallows it.
Fault ==
    /\ file # NoFile
    /\ faults < MaxFaults
    /\ faults' = faults + 1

\* What a read gives the call: null (no file, no whole record, or an error) or a
\* record.
ReadsNull ==
    \/ ~file.body /\ UNCHANGED faults
    \/ file.body /\ Fault
ReadsRecord == file.body /\ UNCHANGED faults

\* The four windows.  Another live call is about to unlink as well ...
Overlap(c) == \E d \in Call \ {c} : Live(d) /\ pc[d] \in Reclaiming

\* ... or a grace that ends now has misjudged the path: its file's creator is still to
\* write the record, there is no file (the unlink hits whoever creates the next one),
\* or it has the record of a live owner, which could not be read.
Unwritten == \E d \in Call : file = FileOf(d, FALSE) /\ At(d, "body")
Absent    == file = NoFile
Unread    == \E d \in Call :
    file = FileOf(d, TRUE) /\ Live(d) /\ pc[d] \in {"held", "unlinkOwn"}

-----------------------------------------------------------------------------

Start(c) ==
    /\ At(c, "idle")
    /\ Goto(c, "open")
    /\ UNCHANGED <<file, rec, nullReads, waited, dead, faults, raced>>

\* open(lockPath, 'wx') wins: the file exists, its record does not.
OpenCreates(c) ==
    /\ At(c, "open")
    /\ file = NoFile
    /\ file' = FileOf(c, FALSE)
    /\ Goto(c, "body")
    /\ UNCHANGED <<rec, nullReads, waited, dead, faults, raced>>

OpenExists(c) ==
    /\ At(c, "open")
    /\ file # NoFile
    /\ Goto(c, "read")
    /\ UNCHANGED <<file, rec, nullReads, waited, dead, faults, raced>>

\* A denial that outlasts its bounded retries, or any errno but EEXIST.
OpenFails(c) ==
    /\ IoErrors
    /\ At(c, "open")
    /\ Goto(c, "threw")
    /\ UNCHANGED <<file, rec, nullReads, waited, dead, faults, raced>>

\* Mutant of Wait: the time slept is not counted.
WaitUncounted(c) == Goto(c, "open") /\ UNCHANGED waited

\* The tail of the loop when nothing was reclaimed: time out, or sleep a poll.
Wait(c) ==
    \/ /\ c \in Strict
       /\ Goto(c, "open")
       /\ UNCHANGED waited
    \/ /\ c \notin Strict
       /\ waited[c] >= WaitPolls
       /\ Goto(c, "threw")
       /\ UNCHANGED waited
    \/ /\ c \notin Strict
       /\ waited[c] < WaitPolls
       /\ Goto(c, "open")
       /\ waited' = [waited EXCEPT ![c] = @ + 1]

\* readLock gave null: no file, no whole record, or a read that failed.
ReadNull(c) ==
    /\ At(c, "read")
    /\ ReadsNull
    /\ nullReads[c] + 1 < GracePolls
    /\ nullReads' = [nullReads EXCEPT ![c] = @ + 1]
    /\ Wait(c)
    /\ UNCHANGED <<file, rec, dead, raced>>

\* Mutant of GraceOver: a bodyless file is waited for, never reclaimed.
GraceOnlyWaits(c) ==
    /\ At(c, "read")
    /\ ReadsNull
    /\ nullReads[c] + 1 >= GracePolls
    /\ nullReads' = [nullReads EXCEPT ![c] = 0]
    /\ Wait(c)
    /\ UNCHANGED <<file, rec, dead, raced>>

\* The grace is over: whatever is at the path will be unlinked.
GraceOver(c) ==
    /\ At(c, "read")
    /\ ReadsNull
    /\ nullReads[c] + 1 >= GracePolls
    /\ nullReads' = [nullReads EXCEPT ![c] = 0]
    /\ Goto(c, "unlinkBodyless")
    /\ raced' = (raced \/ Overlap(c) \/ Unwritten \/ Absent \/ Unread)
    /\ UNCHANGED <<file, rec, waited, dead>>

ReadRecord(c) ==
    /\ At(c, "read")
    /\ ReadsRecord
    /\ nullReads' = [nullReads EXCEPT ![c] = 0]
    /\ rec' = [rec EXCEPT ![c] = file]
    /\ Goto(c, "probe")
    /\ UNCHANGED <<file, waited, dead, raced>>

\* The record names a process of this host that is proven dead.
OwnerProvenDead(c) ==
    \E d \in Call : rec[c] = FileOf(d, TRUE) /\ host[proc[d]] = host[proc[c]] /\ ~Live(d)

\* Mutant of Stealable: without the second read.
StealableUnread(c) == OwnerProvenDead(c)

\* tryStealDead: the owner is proven dead, and the second read of the file finds
\* the same owner.
Stealable(c) == OwnerProvenDead(c) /\ file = rec[c]

ProbeSteals(c) ==
    /\ At(c, "probe")
    /\ Stealable(c)
    /\ Goto(c, "unlinkDead")
    /\ raced' = (raced \/ Overlap(c))
    /\ UNCHANGED <<file, rec, nullReads, waited, dead, faults>>

\* The owner may live, the file changed, or the second read failed.
ProbeWaits(c) ==
    /\ At(c, "probe")
    /\ \/ ~Stealable(c) /\ UNCHANGED faults
       \/ Stealable(c) /\ Fault
    /\ Wait(c)
    /\ UNCHANGED <<file, rec, nullReads, dead, raced>>

\* The unlink names the path, not the record: it removes what is there now.  One
\* that fails, on a missing file or by itself, means another poll.
UnlinkDead(c) ==
    /\ At(c, "unlinkDead")
    /\ \/ file # NoFile /\ file' = NoFile /\ Goto(c, "open") /\ UNCHANGED <<waited, faults>>
       \/ file = NoFile /\ Wait(c) /\ UNCHANGED <<file, faults>>
       \/ Fault /\ Wait(c) /\ UNCHANGED file
    /\ UNCHANGED <<rec, nullReads, dead, raced>>

\* A failed unlink counts as a reclaim here ("someone else reclaimed it").
UnlinkBodyless(c) ==
    /\ At(c, "unlinkBodyless")
    /\ \/ file' = NoFile /\ UNCHANGED faults
       \/ Fault /\ UNCHANGED file
    /\ Goto(c, "open")
    /\ UNCHANGED <<rec, nullReads, waited, dead, raced>>

\* fh.writeFile(body): goes to the file this call created, linked or not.
WriteBody(c) ==
    /\ At(c, "body")
    /\ file' = IF file = FileOf(c, FALSE) THEN FileOf(c, TRUE) ELSE file
    /\ Goto(c, "held")
    /\ UNCHANGED <<rec, nullReads, waited, dead, faults, raced>>

\* The write or the close throws: the file stays behind, without its record or with
\* it.
BodyFails(c) ==
    /\ IoErrors
    /\ At(c, "body")
    /\ \/ UNCHANGED file
       \/ file = FileOf(c, FALSE) /\ file' = FileOf(c, TRUE)
    /\ Goto(c, "threw")
    /\ UNCHANGED <<rec, nullReads, waited, dead, faults, raced>>

\* releaseAppendLock reads the record: it unlinks only if the owner matches.  A read
\* that fails looks like a lock that was stolen: the file stays.
ReleaseReads(c) ==
    /\ At(c, "held")
    /\ \/ file = FileOf(c, TRUE) /\ Goto(c, "unlinkOwn") /\ UNCHANGED faults
       \/ file # FileOf(c, TRUE) /\ Goto(c, "released") /\ UNCHANGED faults
       \/ file = FileOf(c, TRUE) /\ Fault /\ Goto(c, "released")
    /\ UNCHANGED <<file, rec, nullReads, waited, dead, raced>>

UnlinkOwn(c) ==
    /\ At(c, "unlinkOwn")
    /\ \/ file' = NoFile /\ UNCHANGED faults
       \/ Fault /\ UNCHANGED file
    /\ Goto(c, "released")
    /\ UNCHANGED <<rec, nullReads, waited, dead, raced>>

\* The process ends, at a return of main or in the middle of anything.
Die(p) ==
    /\ p \in MayDie \ dead
    /\ dead' = dead \cup {p}
    /\ UNCHANGED <<file, pc, rec, nullReads, waited, faults, raced>>

Acquire(c) ==
    \/ Start(c) \/ OpenCreates(c) \/ OpenExists(c) \/ OpenFails(c)
    \/ ReadNull(c) \/ GraceOver(c) \/ ReadRecord(c)
    \/ ProbeSteals(c) \/ ProbeWaits(c) \/ UnlinkDead(c) \/ UnlinkBodyless(c)
    \/ WriteBody(c) \/ BodyFails(c)

Release(c) == ReleaseReads(c) \/ UnlinkOwn(c)

Next ==
    \/ \E c \in Call : Acquire(c) \/ Release(c)
    \/ \E p \in Process : Die(p)

Spec == Init /\ [][Next]_vars

\* The event loop of a live process resumes each of its calls, and the critical
\* sections the callers run end.
Fairness == \A c \in Call : WF_vars(Acquire(c)) /\ WF_vars(Release(c))

FairSpec == Spec /\ Fairness

-----------------------------------------------------------------------------

FileState == {NoFile} \cup [by : Call, body : BOOLEAN]

TypeOK ==
    /\ file \in FileState
    /\ pc \in [Call -> Steps]
    /\ rec \in [Call -> FileState]
    /\ nullReads \in [Call -> 0..GracePolls]
    /\ waited \in [Call -> 0..WaitPolls]
    /\ dead \subseteq Process
    /\ faults \in 0..MaxFaults
    /\ raced \in BOOLEAN

\* "Exactly one writer can create the lock": no two live calls run their critical
\* sections at once.
MutualExclusion == \A c, d \in Call : Holding(c) /\ Holding(d) => c = d

\* The four windows the file leaves open are the only ones: two writers get in
\* together only after two live waiters were about to unlink at the same time, or
\* after a waiter's run of null reads ended on a creator still to write its record,
\* on a path with no file (its unlink then hits the next creator), or on a live
\* owner's record that could not be read.
ForkNeedsRace == ~raced => MutualExclusion

\* While a live call is in its critical section, no step of anyone removes or
\* replaces its lock file, short of those four windows.
HeldFileStays ==
    [][\A c \in Call : (Holding(c) /\ Holding(c)' /\ ~raced') => file' = file]_vars

\* A caller with a finite budget (token accounting, a pointer write) is never
\* blocked for good: it gets the lock, throws, or its process is gone.
BestEffortDecides ==
    \A c \in Call \ Strict : pc[c] = "open" ~> (pc[c] \in {"held", "threw"} \/ ~Live(c))

\* A lock left behind by the dead never blocks the only caller left: with no
\* record of another host in the file, a strict call that waits alone gets in, or
\* meets an I/O error.
SurvivorAcquires ==
    \A c \in Strict :
        (/\ pc[c] \in Waiting
         /\ \A d \in Call \ {c} : ~Live(d)
         /\ file.body => host[proc[file.by]] = host[proc[c]])
        ~> (pc[c] \in {"held", "threw"} \/ ~Live(c))
=============================================================================
