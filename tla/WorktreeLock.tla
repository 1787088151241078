----------------------------- MODULE WorktreeLock -----------------------------
(***************************************************************************)
(* The lock of the worktree operations                                     *)
(* (template/maddu/runtime/lib/worktree-lock.mjs).  The lock is a directory *)
(* that is published whole, by renaming a private directory that already    *)
(* holds the owner record; a dead owner's directory is moved to a tombstone *)
(* named after that owner, and the tombstone stays.                         *)
(*                                                                         *)
(* As in AppendLock, a Call is one acquire ... release and stands for its   *)
(* ownerId; one file-system call of the code is one step.                   *)
(***************************************************************************)
EXTENDS Integers

CONSTANTS
    Call,         \* acquire calls, each with an ownerId of its own
    Process,      \* operating-system processes
    proc,         \* proc[c]: the process that runs call c
    host,         \* host[p]: the machine of process p
    MayDie,       \* processes that may end during the run
    WaitPolls,    \* maxWaitMs / POLL_MS
    IoErrors,     \* may the private directory, a read or a rename fail by itself?
    NoDir         \* nothing is published

ASSUME WorktreeCallAssumption ==
    /\ proc \in [Call -> Process]
    /\ host \in [Process -> Nat]
    /\ MayDie \subseteq Process
    /\ WaitPolls \in Nat
    /\ IoErrors \in BOOLEAN
    /\ NoDir \notin Call

VARIABLES
    lock,     \* the published directory: NoDir, or the owner its record names
    tmp,      \* calls whose private directory exists
    tomb,     \* owners that have a tombstone
    pc,       \* where each call is
    rec,      \* the owner a contender read last
    waited,
    dead      \* processes that ended

vars == <<lock, tmp, tomb, pc, rec, waited, dead>>

Contending == {"publish", "look", "readOwner", "probe", "quarantine"}
Owning     == {"held", "renameAside"}
Steps      == {"idle", "released", "busy", "threw"} \cup Contending \cup Owning

Live(c) == proc[c] \notin dead
Holding(c) == pc[c] = "held" /\ Live(c)

Init ==
    /\ lock = NoDir
    /\ tmp = {}
    /\ tomb = {}
    /\ pc = [c \in Call |-> "idle"]
    /\ rec = [c \in Call |-> NoDir]
    /\ waited = [c \in Call |-> 0]
    /\ dead = {}

At(c, step) == Live(c) /\ pc[c] = step
Goto(c, step) == pc' = [pc EXCEPT ![c] = step]

-----------------------------------------------------------------------------

\* mkdir of the private directory and the write of the owner record into it.
Prepare(c) ==
    /\ At(c, "idle")
    /\ \/ Goto(c, "publish") /\ tmp' = tmp \cup {c}
       \/ IoErrors /\ Goto(c, "threw") /\ UNCHANGED tmp
    /\ UNCHANGED <<lock, tomb, rec, waited, dead>>

\* rename(tmpPath, lockPath): the arbiter.
Publish(c) ==
    /\ At(c, "publish")
    /\ lock = NoDir
    /\ lock' = c
    /\ tmp' = tmp \ {c}
    /\ Goto(c, "held")
    /\ UNCHANGED <<tomb, rec, waited, dead>>

PublishFails(c) ==
    /\ At(c, "publish")
    /\ lock # NoDir \/ IoErrors
    /\ Goto(c, "look")
    /\ UNCHANGED <<lock, tmp, tomb, rec, waited, dead>>

\* Mutant of LookMissing: the lock is gone, so try again at once.
LookMissingRetries(c) ==
    /\ At(c, "look")
    /\ lock = NoDir
    /\ Goto(c, "publish")
    /\ UNCHANGED <<lock, tmp, tomb, rec, waited, dead>>

\* readOwner finds no directory: the rename error is thrown.
LookMissing(c) ==
    /\ At(c, "look")
    /\ lock = NoDir
    /\ tmp' = tmp \ {c}
    /\ Goto(c, "threw")
    /\ UNCHANGED <<lock, tomb, rec, waited, dead>>

LookFinds(c) ==
    /\ At(c, "look")
    /\ lock # NoDir
    /\ Goto(c, "readOwner")
    /\ UNCHANGED <<lock, tmp, tomb, rec, waited, dead>>

\* The directory may have changed hands, or gone, since the lstat.  A record that
\* cannot be read is none.
ReadOwner(c) ==
    /\ At(c, "readOwner")
    /\ \/ rec' = [rec EXCEPT ![c] = lock]
       \/ IoErrors /\ rec' = [rec EXCEPT ![c] = NoDir]
    /\ Goto(c, "probe")
    /\ UNCHANGED <<lock, tmp, tomb, waited, dead>>

\* Mutant of OrphanTmps: every private directory of this host.
AllTmps(c) == {d \in tmp \ {c} : host[proc[d]] = host[proc[c]]}

\* gcOrphanTmps: private directories of this host's dead.
OrphanTmps(c) == {d \in tmp : ~Live(d) /\ host[proc[d]] = host[proc[c]]}

\* Nothing was quarantined: give up, or sleep a poll and try to publish again.
Wait(c) ==
    \/ /\ waited[c] >= WaitPolls
       /\ Goto(c, "busy")
       /\ tmp' = tmp \ (OrphanTmps(c) \cup {c})
       /\ UNCHANGED waited
    \/ /\ waited[c] < WaitPolls
       /\ Goto(c, "publish")
       /\ tmp' = tmp \ OrphanTmps(c)
       /\ waited' = [waited EXCEPT ![c] = @ + 1]

ProvenDead(c) == \E d \in Call : rec[c] = d /\ ~Live(d) /\ host[proc[d]] = host[proc[c]]

ProbeDead(c) ==
    /\ At(c, "probe")
    /\ ProvenDead(c)
    /\ Goto(c, "quarantine")
    /\ UNCHANGED <<lock, tmp, tomb, rec, waited, dead>>

ProbeWaits(c) ==
    /\ At(c, "probe")
    /\ ~ProvenDead(c)
    /\ Wait(c)
    /\ UNCHANGED <<lock, tomb, rec, dead>>

\* Mutant of Quarantine: the tombstone's name is fresh, not the dead owner's.
QuarantineAnew(c) ==
    /\ At(c, "quarantine")
    /\ lock # NoDir
    /\ lock' = NoDir
    /\ tomb' = tomb \cup {rec[c]}
    /\ tmp' = tmp \ OrphanTmps(c)
    /\ Goto(c, "publish")
    /\ UNCHANGED <<rec, waited, dead>>

\* rename(lockPath, lockPath.dead.<owner read>): it moves whatever is published
\* now, and fails on a missing source, on an existing tombstone or by itself.
Quarantine(c) ==
    /\ At(c, "quarantine")
    /\ lock # NoDir
    /\ rec[c] \notin tomb
    /\ lock' = NoDir
    /\ tomb' = tomb \cup {rec[c]}
    /\ tmp' = tmp \ OrphanTmps(c)
    /\ Goto(c, "publish")
    /\ UNCHANGED <<rec, waited, dead>>

QuarantineFails(c) ==
    /\ At(c, "quarantine")
    /\ lock = NoDir \/ rec[c] \in tomb \/ IoErrors
    /\ Wait(c)
    /\ UNCHANGED <<lock, tomb, rec, dead>>

\* releaseWorktreeLock reads the owner, then renames the directory aside.  A read or a
\* rename that fails leaves the directory published.
ReleaseReads(c) ==
    /\ At(c, "held")
    /\ \/ lock = c /\ Goto(c, "renameAside")
       \/ (lock # c \/ IoErrors) /\ Goto(c, "released")
    /\ UNCHANGED <<lock, tmp, tomb, rec, waited, dead>>

RenameAside(c) ==
    /\ At(c, "renameAside")
    /\ \/ lock' = NoDir
       \/ IoErrors /\ UNCHANGED lock
    /\ Goto(c, "released")
    /\ UNCHANGED <<tmp, tomb, rec, waited, dead>>

Die(p) ==
    /\ p \in MayDie \ dead
    /\ dead' = dead \cup {p}
    /\ UNCHANGED <<lock, tmp, tomb, pc, rec, waited>>

Acquire(c) ==
    \/ Prepare(c) \/ Publish(c) \/ PublishFails(c) \/ LookMissing(c) \/ LookFinds(c)
    \/ ReadOwner(c) \/ ProbeDead(c) \/ ProbeWaits(c) \/ Quarantine(c) \/ QuarantineFails(c)

Release(c) == ReleaseReads(c) \/ RenameAside(c)

Next ==
    \/ \E c \in Call : Acquire(c) \/ Release(c)
    \/ \E p \in Process : Die(p)

Spec == Init /\ [][Next]_vars

\* The event loop of a live process resumes each of its calls.
FairSpec == Spec /\ \A c \in Call : WF_vars(Acquire(c)) /\ WF_vars(Release(c))

-----------------------------------------------------------------------------

TypeOK ==
    /\ lock \in Call \cup {NoDir}
    /\ tmp \subseteq Call
    /\ tomb \subseteq Call
    /\ pc \in [Call -> Steps]
    /\ rec \in [Call -> Call \cup {NoDir}]
    /\ \A c \in Call : pc[c] = "quarantine" => rec[c] \in Call
    /\ waited \in [Call -> 0..WaitPolls]
    /\ dead \subseteq Process

MutualExclusion == \A c, d \in Call : Holding(c) /\ Holding(d) => c = d

\* A process ended after one of its calls had given its lock back: a contender
\* may still hold the record of that call, and will find its process dead.
Departed == \E c \in Call : pc[c] = "released" /\ ~Live(c)

\* Crashes in the middle of an operation, however many and with however many
\* contenders racing to quarantine the same dead owner, never let two in.
ForkNeedsDeparture == ~Departed => MutualExclusion

\* gcOrphanTmps never destroys an in-flight publish: a live contender still has the private
\* directory its next rename needs.  "Never leave our own tmp behind": a call that is over has none.
TmpAccounted ==
    \A c \in Call : Live(c) =>
        /\ pc[c] \in Contending => c \in tmp
        /\ pc[c] \in {"busy", "threw", "released"} => c \notin tmp

\* Finite by construction: every acquire of a live process ends.
AcquireDecides ==
    \A c \in Call : pc[c] = "publish" ~> (pc[c] \in {"held", "busy", "threw"} \/ ~Live(c))
=============================================================================
