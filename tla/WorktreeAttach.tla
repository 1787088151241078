----------------------------- MODULE WorktreeAttach -----------------------------
(***************************************************************************)
(* `lane claim [--force] [--worktree]' (commands/lane.mjs) and              *)
(* attachLaneWorktree.  A claim is one step here, module LaneOwnership looks *)
(* inside it; a forced claim is two, for the look at the worktree that       *)
(* precedes it is made under the claims lock but not under the lane lock.    *)
(***************************************************************************)
EXTENDS WorktreeStore

CONSTANT LocalAids   \* the ids that attachments made here get

ASSUME LocalAssumption == LocalAids \subseteq Aid \ Foreign

Quiet == UNCHANGED <<view, trees, disk, hidden, cool, local, fixed, history>>

ClaimRefused(p) ==
    /\ At(p, "claiming")
    /\ \/ ~Free("claims") \/ Refused \/ Actor(p) \notin Active
       \/ OwnersOf(Main) \cap Active \notin {{}, {Actor(p)}}
    /\ Finish(p)
    /\ Quiet

ClaimLane(p) ==
    /\ At(p, "claiming")
    /\ Free("claims")
    /\ ~Refused
    /\ Actor(p) \in Active
    /\ OwnersOf(Main) \cap Active \in {{}, {Actor(p)}}
    /\ ClaimedAlone(Actor(p))
    /\ Goto(p, "owning")
    /\ UNCHANGED <<trees, disk, hidden, cool, local, lock, fixed, history>>

ForceRefused(p) ==
    /\ At(p, "preflight")
    /\ Refused \/ Actor(p) \notin Active \/ (Kind(p) = "forceClaim" /\ FirstLive # NoTree)
    /\ Finish(p)
    /\ Quiet

PassPreflight(p) ==
    /\ At(p, "preflight")
    /\ ~Refused
    /\ Actor(p) \in Active
    /\ Kind(p) = "forceClaim" => FirstLive = NoTree
    /\ Goto(p, "forcing")
    /\ Quiet /\ UNCHANGED lock

ForceClaim(p) ==
    /\ At(p, "forcing")
    /\ ClaimedAlone(Actor(p))
    /\ lock' = Dropped(p, Locks)
    /\ Goto(p, IF Kind(p) = "force" THEN "done" ELSE "owning")
    /\ UNCHANGED <<trees, disk, hidden, cool, local, fixed, history>>

\* attachAndReport: the claim may be lost already.
CheckOwner(p) ==
    /\ At(p, "owning")
    /\ IF StillOwner(Actor(p)) THEN Goto(p, "attachLock") /\ UNCHANGED lock ELSE Finish(p)
    /\ Quiet

\* The live worktree of the lane is handed out again to its session, and refused to any other.
Reuse(p) ==
    /\ At(p, "reusing")
    /\ FirstLive # NoTree
    /\ adopted' = IF wt[FirstLive].session = Actor(p) /\ intent[FirstLive] # "none"
                  THEN adopted \cup {FirstLive} ELSE adopted
    /\ Finish(p)
    /\ UNCHANGED <<view, trees, disk, hidden, cool, local, fixed, meddled>>

\* Mutant of AddWorktree: no look at the attachments of the lane.
AddWorktreeAnyway(p) ==
    /\ At(p, "reusing")
    /\ disk = NoTree
    /\ disk' = Alien
    /\ Goto(p, "minting")
    /\ UNCHANGED <<view, trees, hidden, cool, local, lock, fixed, history>>

AddWorktree(p) ==
    /\ At(p, "reusing")
    /\ FirstLive = NoTree
    /\ disk = NoTree
    /\ disk' = Alien
    /\ Goto(p, "minting")
    /\ UNCHANGED <<view, trees, hidden, cool, local, lock, fixed, history>>

\* `git worktree add' fails, for one when something is at the path.
AddFails(p) ==
    /\ At(p, "reusing")
    /\ FirstLive = NoTree
    /\ Finish(p)
    /\ Quiet

MintInstance(p) ==
    /\ At(p, "minting")
    /\ OnDisk = Alien
    /\ \E a \in LocalAids :
         /\ \A b \in LocalAids : wt[b].state = "none" => a <= b
         /\ wt[a].state = "none"
         /\ disk' = a
         /\ at' = [at EXCEPT ![p] = a]
    /\ Goto(p, "checking")
    /\ UNCHANGED <<view, trees, hidden, cool, op, how, saw, lock, fixed, history>>

\* A token that cannot be kept rolls the checkout back; a pointer that cannot be written leaves it.
MintFails(p) ==
    /\ At(p, "minting")
    /\ Finish(p) \/ (Goto(p, "unwinding") /\ UNCHANGED lock)
    /\ Quiet

\* ownerCheck, before the attachment is recorded and after.
CheckOwnerAgain(p) ==
    /\ \/ /\ At(p, "checking")
          /\ Goto(p, IF StillOwner(Actor(p)) THEN "attaching" ELSE "unwinding")
          /\ UNCHANGED lock
       \/ /\ At(p, "confirming")
          /\ IF StillOwner(Actor(p)) THEN Finish(p) ELSE Goto(p, "orphaning") /\ UNCHANGED lock
    /\ Quiet

AppendAttached(p) ==
    /\ At(p, "attaching")
    /\ WorktreeAttached(at[p], Actor(p))
    /\ Goto(p, "confirming")
    /\ UNCHANGED <<view, disk, hidden, cool, local, lock, fixed, history>>

AppendOrphaned(p) ==
    /\ At(p, "orphaning")
    /\ WorktreeDetached(at[p], "orphaned")
    /\ Goto(p, "unwinding")
    /\ UNCHANGED <<view, disk, hidden, cool, local, lock, fixed, history>>

\* rollbackGit, which throws either way.
Unwind(p) ==
    /\ At(p, "unwinding")
    /\ disk' \in IF hidden THEN {disk} ELSE {disk, NoTree}
    /\ Finish(p)
    /\ UNCHANGED <<view, trees, hidden, cool, local, fixed, history>>

AttachStep(p) ==
    \/ ClaimRefused(p) \/ ClaimLane(p) \/ ForceRefused(p) \/ PassPreflight(p) \/ ForceClaim(p)
    \/ CheckOwner(p) \/ Reuse(p) \/ AddWorktree(p) \/ AddFails(p) \/ MintInstance(p)
    \/ MintFails(p) \/ CheckOwnerAgain(p) \/ AppendAttached(p) \/ AppendOrphaned(p) \/ Unwind(p)
=============================================================================
