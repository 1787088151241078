----------------------------- MODULE WorktreeDetach -----------------------------
(***************************************************************************)
(* `lane release [--worktree merged|abandoned|keep | --recover]' and the    *)
(* recovery pass of the janitor (worktrees.mjs, releaseLaneIn): a removal is *)
(* an intent, the git commands and a terminal event, of which each may fail  *)
(* or never come; what is left over is finished by a later release, by the   *)
(* janitor when the very checkout of the intent is still there, and by an    *)
(* operator otherwise.                                                      *)
(***************************************************************************)
EXTENDS WorktreeAttach

\* readLiveAttach, the decision and the release are under the claims and the lane lock.
TakeSnapshot(p) ==
    /\ At(p, "looking")
    /\ IF Refused THEN Finish(p) ELSE Goto(p, "decideLock") /\ UNCHANGED lock
    /\ saw' = [saw EXCEPT ![p] = [owners |-> OwnersOf(Main), active |-> Active]]
    /\ UNCHANGED <<view, trees, disk, hidden, cool, op, at, how, fixed, history>>

Owns(p) == Actor(p) \in saw[p].owners

Deciding(p, kinds) == At(p, "deciding") /\ Kind(p) \in kinds

Own(p) == FirstLive # NoTree /\ wt[FirstLive].session = Actor(p)

ReleaseRefused(p) ==
    /\ Deciding(p, {"release"})
    /\ ~Owns(p)
    /\ Finish(p)
    /\ Quiet

\* A worktree of someone else is not in the way of a plain release.
ReleaseFree(p) ==
    /\ Deciding(p, {"release"})
    /\ Owns(p)
    /\ ~Own(p)
    /\ Goto(p, "releasing")
    /\ Quiet /\ UNCHANGED lock

ReleaseReconciles(p) ==
    /\ Deciding(p, {"release"})
    /\ Owns(p)
    /\ Own(p)
    /\ at' = [at EXCEPT ![p] = FirstLive]
    /\ Goto(p, "finalizing")
    /\ UNCHANGED <<view, trees, disk, hidden, cool, op, how, saw, lock, fixed, history>>

\* Mutant of OwnedByOther: the holder of the lane is asked about, not the owner of the attachment.
HeldByOther(p) ==
    /\ Holder # Nobody
    /\ Holder # Actor(p)
    /\ Holder \in saw[p].active

OwnedByOther(p) ==
    /\ FirstLive # NoTree
    /\ wt[FirstLive].session # Actor(p)
    /\ wt[FirstLive].session \in saw[p].active

\* What neither the release nor the detach takes on: nothing live, a session at work on it, epochs
\* that compete, another replica's, an intent for an operator, nothing there to authorize for.
Undisposable(p) ==
    LET a == FirstLive
    IN  Live = {a} =>
        \/ OwnedByOther(p)
        \/ wt[a].origin # "local"
        \/ Kind(p) # "kept" /\ Surfaced(a)
        \/ Kind(p) # "kept" /\ intent[a] = "none" /\ OnDisk = NoTree

\* A fresh removal is refused, too, when git's checks do not allow it.
DisposeRefused(p) ==
    /\ Deciding(p, Disposals)
    /\ \/ Undisposable(p)
       \/ Kind(p) # "kept" /\ FirstLive # NoTree /\ intent[FirstLive] = "none"
    /\ Finish(p)
    /\ Quiet

Disposing(p, d, next) ==
    /\ Deciding(p, Disposals)
    /\ ~Undisposable(p)
    /\ at' = [at EXCEPT ![p] = FirstLive]
    /\ how' = [how EXCEPT ![p] = d]
    /\ Goto(p, next)
    /\ UNCHANGED <<view, trees, disk, hidden, cool, op, saw, lock, fixed, history>>

DisposeKept(p) == Kind(p) = "kept" /\ Disposing(p, "kept", "ending")

DisposeResumed(p) ==
    /\ Kind(p) # "kept"
    /\ Candidate(FirstLive)
    /\ Disposing(p, intent[FirstLive], "removing")

\* Mutant of DisposeFresh: the checkout is removed without an intent.
DisposeAtOnce(p) ==
    /\ Kind(p) # "kept"
    /\ FirstLive # NoTree
    /\ intent[FirstLive] = "none"
    /\ Disposing(p, Kind(p), "removing")

\* An attachment without a token is detached without an intent.
DisposeFresh(p) ==
    /\ Kind(p) # "kept"
    /\ FirstLive # NoTree
    /\ intent[FirstLive] = "none"
    /\ Disposing(p, Kind(p), IF wt[FirstLive].token THEN "intending" ELSE "removing")

AppendDetaching(p) ==
    /\ At(p, "intending")
    /\ WorktreeDetaching(at[p], how[p])
    /\ Goto(p, "removing")
    /\ UNCHANGED <<view, disk, hidden, cool, local, lock, fixed, history>>

\* Gone already, to be removed, or another checkout than the attachment's: then it is left alone.
DetachRemoves(p) ==
    /\ At(p, "removing")
    /\ \/ OnDisk = NoTree /\ Goto(p, "probing") /\ UNCHANGED lock
       \/ OnDisk # NoTree /\ (wt[at[p]].token => OnDisk = at[p]) /\ Goto(p, "erasing") /\ UNCHANGED lock
       \/ OnDisk # NoTree /\ wt[at[p]].token /\ OnDisk # at[p] /\ Finish(p)
    /\ Quiet

\* finalizeInLock: only the checkout of the intent, and only when it is there.
Finalize(p) ==
    /\ At(p, "finalizing")
    /\ \/ /\ Candidate(at[p])
          /\ OnDisk = at[p]
          /\ how' = [how EXCEPT ![p] = intent[at[p]]]
          /\ Goto(p, "erasing")
          /\ UNCHANGED lock
       \/ /\ ~Candidate(at[p]) \/ OnDisk # at[p]
          /\ Finish(p)
          /\ UNCHANGED how
    /\ UNCHANGED <<view, trees, disk, hidden, cool, op, at, saw, fixed, history>>

\* Mutant of AppendDetached: the claim is released under the lane lock of the recovery.
AppendDetachedInLock(p) ==
    /\ At(p, "ending")
    /\ WorktreeDetached(at[p], how[p])
    /\ op' = IF Kind(p) = "recover" THEN [op EXCEPT ![p].kind = "release"] ELSE op
    /\ CASE Kind(p) = "sweep" -> Finish(p)
         [] Kind(p) = "recover" -> Goto(p, "releaseLock") /\ UNCHANGED lock
         [] OTHER -> IF Owns(p) THEN Goto(p, "releasing") /\ UNCHANGED lock ELSE Finish(p)
    /\ UNCHANGED <<view, disk, hidden, cool, at, how, saw, fixed, history>>

\* The terminal.  An operator's recovery goes on as a plain release of the lane.
AppendDetached(p) ==
    /\ At(p, "ending")
    /\ WorktreeDetached(at[p], how[p])
    /\ op' = IF Kind(p) = "recover" THEN [op EXCEPT ![p].kind = "release"] ELSE op
    /\ CASE Kind(p) = "sweep" -> Finish(p)
         [] Kind(p) = "recover" -> Goto(p, "releaseLock") /\ lock' = Dropped(p, {"lane"})
         [] OTHER -> IF Owns(p) THEN Goto(p, "releasing") /\ UNCHANGED lock ELSE Finish(p)
    /\ UNCHANGED <<view, disk, hidden, cool, at, how, saw, fixed, history>>

ReleaseLane(p) ==
    /\ At(p, "releasing")
    /\ LaneReleased(Actor(p), Main)
    /\ Finish(p)
    /\ UNCHANGED <<trees, disk, hidden, cool, local, fixed, history>>

-----------------------------------------------------------------------------
(* recoverPendingDetaches *)

TakeRecovery(p) ==
    /\ At(p, "sweeping")
    /\ IF Free("recovery")
       THEN Goto(p, "gauntlet") /\ lock' = [lock EXCEPT !["recovery"] = p] ELSE Finish(p)
    /\ Quiet

PassGauntlet(p) ==
    /\ At(p, "gauntlet")
    /\ \/ /\ allowed
          /\ ~cool
          /\ \E a \in Aid : Candidate(a) /\ at' = [at EXCEPT ![p] = a]
          /\ Goto(p, "scanning")
          /\ UNCHANGED lock
       \/ (~allowed \/ cool \/ \A a \in Aid : ~Candidate(a)) /\ Finish(p) /\ UNCHANGED at
    /\ UNCHANGED <<view, trees, disk, hidden, cool, op, how, saw, fixed, history>>

\* Mutant of Scan: the sweep goes on without the lane lock.
ScanUnlocked(p) ==
    /\ At(p, "scanning")
    /\ IF OnDisk = at[p] THEN Goto(p, "firing") /\ UNCHANGED lock ELSE Finish(p)
    /\ Quiet

\* The lane lock is kept when the checkout of the intent is there.
Scan(p) ==
    /\ At(p, "scanning")
    /\ IF Free("lane") /\ OnDisk = at[p]
       THEN Goto(p, "firing") /\ lock' = [lock EXCEPT !["lane"] = p] ELSE Finish(p)
    /\ Quiet

FireTrigger(p) ==
    /\ At(p, "firing")
    /\ cool' = TRUE
    /\ Goto(p, "finalizing")
    /\ UNCHANGED <<view, trees, disk, hidden, local, lock, fixed, history>>

-----------------------------------------------------------------------------
(* recoverInLock *)

Unrecoverable(p) ==
    LET a == FirstLive
    IN  Live = {a} =>
        \/ Actor(p) \notin Active
        \/ wt[a].session \in Active \ {Actor(p)}
        \/ wt[a].origin # "local"
        \/ OnDisk # NoTree /\ intent[a] = "none"

RecoverRefused(p) ==
    /\ At(p, "recovering")
    /\ Unrecoverable(p)
    /\ Finish(p)
    /\ Quiet

\* The checkout of an intent is removed; any other is left, and nothing is claimed for it.
Recover(p) ==
    LET a == FirstLive
    IN  /\ At(p, "recovering")
        /\ ~Unrecoverable(p)
        /\ at' = [at EXCEPT ![p] = a]
        /\ \/ /\ Candidate(a) /\ OnDisk = a
              /\ how' = [how EXCEPT ![p] = intent[a]]
              /\ Goto(p, "erasing")
           \/ /\ ~(Candidate(a) /\ OnDisk = a)
              /\ how' = [how EXCEPT ![p] =
                            IF Candidate(a) /\ OnDisk = NoTree THEN intent[a] ELSE "orphaned"]
              /\ Goto(p, "ending")
        /\ UNCHANGED <<view, trees, disk, hidden, cool, op, saw, lock, fixed, history>>

DetachStep(p) ==
    \/ TakeSnapshot(p) \/ ReleaseRefused(p) \/ ReleaseFree(p) \/ ReleaseReconciles(p)
    \/ DisposeRefused(p) \/ DisposeKept(p) \/ DisposeResumed(p) \/ DisposeFresh(p)
    \/ AppendDetaching(p) \/ DetachRemoves(p) \/ Finalize(p) \/ EraseCheckout(p) \/ ProbeGone(p)
    \/ AppendDetached(p) \/ ReleaseLane(p)
    \/ TakeRecovery(p) \/ PassGauntlet(p) \/ Scan(p) \/ FireTrigger(p)
    \/ RecoverRefused(p) \/ Recover(p)
=============================================================================
