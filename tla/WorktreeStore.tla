----------------------------- MODULE WorktreeStore -----------------------------
(***************************************************************************)
(* The worktree of one lane: what the spine says of its attachments         *)
(* (worktree-recovery.mjs), what is on the disk, and the calls that change   *)
(* either, with the locks they share.  A checkout is known by the token in   *)
(* its git directory; the token of an attachment is written here as the      *)
(* attachment's own id.  The lane branch and git's checks of it are left     *)
(* out: an authorization may be refused, a git command may fail.            *)
(***************************************************************************)
EXTENDS Projection

CONSTANTS Main,     \* the lane whose worktree is looked at
          Aid,      \* attachment ids, in the order in which the merged spine lists them
          Foreign,  \* the attachments that another replica made
          Proc,     \* the processes
          Scenes,   \* what the processes are called for, and the spine and disk they find
          MayDie    \* processes that may exit while they hold a lock

ASSUME WorktreeAssumption ==
    /\ Main \in Lane
    /\ Aid \subseteq Nat \ {0}
    /\ Foreign \subseteq Aid
    /\ Nobody \notin Proc
    /\ MayDie \subseteq Proc

Disposals == {"merged", "abandoned", "kept"}
Kinds == {"none", "claim", "force", "forceClaim", "release", "recover", "sweep"} \cup Disposals

Op == [kind : Kinds, sid : Sid \cup {Nobody}]

NoTree == 0     \* no checkout at the path of the lane
Alien  == -1    \* a checkout there without a token, or with one that no attachment has

Locks == {"claims", "lane", "recovery"}

VARIABLES wt,       \* attachment -> its state, session, origin, and whether it has a token
          intent,   \* attachment -> the open WORKTREE_DETACHING, "invalid" for one not to act on
          disk,     \* the checkout at the path: NoTree, Alien, or the attachment its token names
          hidden,   \* the storage of the path is away
          allowed,  \* the triggers.json of the operator lists janitor:worktrees
          cool,     \* janitor:worktrees has fired within its cooldown
          op,       \* proc -> its call
          pc,       \* proc -> its next step
          at,       \* proc -> the attachment it is working on
          how,      \* proc -> the disposition it has verified
          saw,      \* proc -> the owners and active sessions of its snapshot
          lock,     \* lock -> its holder
          dead,     \* processes that exited
          may,      \* what may still happen outside of the calls
          adopted,  \* history: attachments handed out again after their intent
          meddled   \* history: processes whose path changed hands, or went out of sight, between
                    \* their check of the token and their removal

trees == <<wt, intent>>
local == <<op, at, how, saw>>
fixed == <<mode, corrupt, allowed, dead, may>>
history == <<adopted, meddled>>
vars  == <<view, trees, disk, hidden, cool, local, pc, lock, fixed, history>>

Kind(p) == op[p].kind
Actor(p) == op[p].sid

At(p, step) == p \notin dead /\ pc[p] = step
Goto(p, step) == pc' = [pc EXCEPT ![p] = step]

Free(k) == lock[k] = Nobody \/ lock[k] \in dead

Dropped(p, ks) == [k \in Locks |-> IF k \in ks /\ lock[k] = p THEN Nobody ELSE lock[k]]

\* The call returns or throws: its locks are released.
Finish(p) ==
    /\ Goto(p, "done")
    /\ lock' = Dropped(p, Locks)

\* The steps at which a process waits for each lock; a sweep waits for none.
LockOf == [claims   |-> {"forceLock", "releaseLock"},
           lane     |-> {"attachLock", "decideLock", "recoverLock"},
           recovery |-> {}]

After == [forceLock |-> "preflight", releaseLock |-> "looking", attachLock |-> "reusing",
          decideLock |-> "deciding", recoverLock |-> "recovering"]

\* Mutant of TakeLock: an attach does not wait for the lane lock.
TakeLockUnlessAttach(p) ==
    \E k \in Locks :
        /\ p \notin dead
        /\ pc[p] \in LockOf[k]
        /\ IF pc[p] = "attachLock" THEN UNCHANGED lock
           ELSE Free(k) /\ lock' = [lock EXCEPT ![k] = p]
        /\ Goto(p, After[pc[p]])
        /\ UNCHANGED <<view, trees, disk, hidden, cool, local, fixed, history>>

TakeLock(p) ==
    \E k \in Locks :
        /\ p \notin dead
        /\ pc[p] \in LockOf[k]
        /\ Free(k)
        /\ lock' = [lock EXCEPT ![k] = p]
        /\ Goto(p, After[pc[p]])
        /\ UNCHANGED <<view, trees, disk, hidden, cool, local, fixed, history>>

\* Every wait is finite, and ends the call.
LockBusy(p) ==
    /\ p \notin dead
    /\ \E k \in Locks : pc[p] \in LockOf[k] /\ ~Free(k)
    /\ Finish(p)
    /\ UNCHANGED <<view, trees, disk, hidden, cool, local, fixed, history>>

-----------------------------------------------------------------------------
(* The spine *)

Live == {a \in Aid : wt[a].state = "live"}

FirstLive == IF Live = {} THEN NoTree ELSE CHOOSE a \in Live : \A b \in Live : a <= b

\* The lane is held by the last claimant, in a synced spine by the first one.
Holder ==
    IF OwnersOf(Main) = {} THEN Nobody
    ELSE CHOOSE s \in OwnersOf(Main) :
            mode = "sync" => \A r \in OwnersOf(Main) : rank[Main][s] <= rank[Main][r]

StillOwner(s) == Holder = s /\ s \in Active

\* An intent that may be acted on without an operator.
Candidate(a) ==
    /\ Live = {a}
    /\ intent[a] \in {"merged", "abandoned"}
    /\ wt[a].origin = "local"
    /\ wt[a].token
    /\ ~corrupt

Surfaced(a) == intent[a] # "none" /\ ~Candidate(a)

WorktreeAttached(a, s) ==
    /\ wt' = [wt EXCEPT ![a] = [state |-> "live", session |-> s, origin |-> "local", token |-> TRUE]]
    /\ UNCHANGED intent

WorktreeDetaching(a, d) ==
    /\ intent' = [intent EXCEPT ![a] = d]
    /\ UNCHANGED wt

WorktreeDetached(a, d) ==
    /\ wt' = [wt EXCEPT ![a].state = d]
    /\ intent' = [intent EXCEPT ![a] = "none"]

\* The claim of one who has seen every other owner released.
ClaimedAlone(s) ==
    /\ claim' = [claim EXCEPT ![Main] = s]
    /\ rank' = [rank EXCEPT ![Main] =
                    [r \in Sid |-> IF r # s THEN 0 ELSE IF @[s] > 0 THEN @[s] ELSE claimSeq + 1]]
    /\ claimSeq' = claimSeq + 1
    /\ UNCHANGED sessions

-----------------------------------------------------------------------------
(* The disk *)

OnDisk == IF hidden THEN NoTree ELSE disk

\* removeWorktreeGit, by the path, whatever is there by now: nothing, which git takes for done; a
\* checkout, which goes; or it fails and leaves the checkout intact, gone all the same, or in part.
EraseCheckout(p) ==
    /\ At(p, "erasing")
    /\ \/ OnDisk = NoTree /\ UNCHANGED disk /\ Goto(p, "probing") /\ UNCHANGED lock
       \/ OnDisk # NoTree /\ disk' = NoTree /\ Goto(p, "probing") /\ UNCHANGED lock
       \/ disk' \in (IF OnDisk = NoTree THEN {disk} ELSE {disk, NoTree, Alien}) /\ Finish(p)
    /\ UNCHANGED <<view, trees, hidden, cool, local, fixed, history>>

\* probeGone: something at the path, or a fault, withholds the terminal.
ProbeGone(p) ==
    /\ At(p, "probing")
    /\ \/ OnDisk = NoTree /\ Goto(p, "ending") /\ UNCHANGED lock
       \/ Finish(p)
    /\ UNCHANGED <<view, trees, disk, hidden, cool, local, fixed, history>>
=============================================================================
