----------------------------- MODULE LaneOwnership -----------------------------
(***************************************************************************)
(* The lane writers of lane-ownership.mjs.  Claim, force and the automatic  *)
(* claim of the edit hook depend on the session being active and hold the   *)
(* close lock and then the claims lock; release and the orphan pass of a     *)
(* sweep hold the claims lock alone.  Each decides on one snapshot taken     *)
(* under its locks and then makes its appends one by one; the first that     *)
(* fails ends it, with what has landed left in place.  The owners it         *)
(* releases are a set: nothing here tells their order.  The worktree hooks   *)
(* of release and force belong to module Worktrees.                          *)
(***************************************************************************)
EXTENDS SessionStore

CONSTANT Fallback   \* sid -> the lane auto/<sid>

ASSUME FallbackAssumption == Fallback \in [Sid -> Lane]

Owning   == {"claim", "force", "edit"}
Sweepers == {"sweep", "start"}

Passes(p, step, next) ==
    /\ At(p, step)
    /\ Goto(p, next)
    /\ UNCHANGED <<view, local, files, lock, fixed, unlocked>>

\* Mutant of TakeClaimLocks: a writer does not wait for the session lock.
TakeClaimsOnly(p) == Passes(p, "close", "claims") \/ Take(p, "claims", "look")

\* Mutant of TakeClaimLocks: a sweep looks for orphans without the lock.
TakeUnlessSweep(p) ==
    \/ Take(p, "close", "claims")
    \/ Kind(p) \notin Sweepers /\ Take(p, "claims", "look")
    \/ Kind(p) \in Sweepers /\ Passes(p, "claims", "look")

\* The locks of the writers, in order.
TakeClaimLocks(p) ==
    \/ Take(p, "close", "claims")
    \/ Take(p, "claims", "look")

\* withOwnershipLock gives up on either lock; the automatic claim does not wait at all.
ClaimLocksBusy(p) ==
    /\ Busy(p, "close") \/ Busy(p, "claims")
    /\ Finish(p)
    /\ UNCHANGED <<view, local, files, fixed, unlocked>>

Looks(p, kinds) == At(p, "look") /\ Kind(p) \in kinds

ActiveRival(p, l) == \E s \in OwnersOf(l) \ {at[p]} : s \in Active

InactiveOthers(p, l) == {<<l, s>> : s \in OwnersOf(l) \ (Active \cup {at[p]})}

Decided(p, next, owners) ==
    /\ Goto(p, next)
    /\ todo' = [todo EXCEPT ![p] = owners]
    /\ UNCHANGED <<view, op, at, picked, seen, unbound, files, lock, fixed, unlocked>>

\* The call ends without an append: corrupt spine, inactive claimant, live rival, not an owner.
Refuse(p) ==
    /\ \/ Looks(p, Owning) /\ (Refused \/ at[p] \notin Active)
       \/ Looks(p, {"claim"}) /\ ActiveRival(p, op[p].lane)
       \/ Looks(p, {"edit"}) /\ \/ \E l \in Lane : at[p] \in OwnersOf(l)
                                \/ /\ ActiveRival(p, op[p].lane)
                                   /\ ActiveRival(p, Fallback[at[p]])
       \/ Looks(p, {"release"}) /\ (Refused \/ at[p] \notin OwnersOf(op[p].lane))
       \/ Looks(p, Sweepers) /\ Refused
    /\ Finish(p)
    /\ UNCHANGED <<view, local, files, fixed, unlocked>>

\* Mutant of DecideClaim: only the owner that holds the lane is looked at and cleaned up.
DecideClaimOfHolder(p) ==
    /\ Looks(p, {"claim"})
    /\ ~Refused
    /\ at[p] \in Active
    /\ ~ \E s \in DefaultOwners(op[p].lane) \ {at[p]} : s \in Active
    /\ aim' = [aim EXCEPT ![p] = op[p].lane]
    /\ Decided(p, "cleaning", {<<op[p].lane, s>> : s \in DefaultOwners(op[p].lane) \ {at[p]}})

DecideClaim(p) ==
    /\ Looks(p, {"claim"})
    /\ ~Refused
    /\ at[p] \in Active
    /\ ~ActiveRival(p, op[p].lane)
    /\ aim' = [aim EXCEPT ![p] = op[p].lane]
    /\ Decided(p, "cleaning", InactiveOthers(p, op[p].lane))

\* A lane without another owner is claimed without a marker.
DecideForce(p) ==
    LET l == op[p].lane
        rivals == OwnersOf(l) \ {at[p]}
    IN  /\ Looks(p, {"force"})
        /\ ~Refused
        /\ at[p] \in Active
        /\ aim' = [aim EXCEPT ![p] = l]
        /\ Decided(p, IF rivals = {} THEN "claiming" ELSE "cleaning", {<<l, s>> : s \in rivals})

\* The inferred lane, or the session's own when a live rival owns the inferred one.
Target(p) == IF ActiveRival(p, op[p].lane) THEN Fallback[at[p]] ELSE op[p].lane

DecideAutoClaim(p) ==
    /\ Looks(p, {"edit"})
    /\ ~Refused
    /\ at[p] \in Active
    /\ \A l \in Lane : at[p] \notin OwnersOf(l)
    /\ ~ActiveRival(p, Target(p))
    /\ aim' = [aim EXCEPT ![p] = Target(p)]
    /\ Decided(p, "firing", InactiveOthers(p, Target(p)))

DecideRelease(p) ==
    /\ Looks(p, {"release"})
    /\ ~Refused
    /\ at[p] \in OwnersOf(op[p].lane)
    /\ aim' = [aim EXCEPT ![p] = op[p].lane]
    /\ Decided(p, "releasing", {})

\* reapOrphanClaims: every owner, of whatever rank, that is not an active session.
DecideReap(p) ==
    /\ Looks(p, Sweepers)
    /\ ~Refused
    /\ UNCHANGED aim
    /\ Decided(p, "cleaning", {t \in Lane \X Sid : t[2] \in OwnersOf(t[1]) \ Active})

\* TRIGGER_FIRED is no event of the folds.
FireTrigger(p) == Passes(p, "firing", "cleaning")

ReleaseOther(p) ==
    /\ At(p, "cleaning")
    /\ \E t \in todo[p] :
         /\ LaneReleased(t[2], t[1])
         /\ todo' = [todo EXCEPT ![p] = @ \ {t}]
    /\ UNCHANGED <<op, pc, at, aim, picked, seen, unbound, files, lock, fixed, unlocked>>

OthersReleased(p) ==
    /\ At(p, "cleaning")
    /\ todo[p] = {}
    /\ IF Kind(p) \in Sweepers THEN Finish(p)
       ELSE Goto(p, IF Kind(p) = "force" THEN "marking" ELSE "claiming") /\ UNCHANGED lock
    /\ UNCHANGED <<view, local, files, fixed, unlocked>>

\* LANE_CLAIM_FORCED is no event of the folds.
MarkForced(p) == Passes(p, "marking", "claiming")

AppendClaim(p) ==
    /\ At(p, "claiming")
    /\ LaneClaimed(at[p], aim[p])
    /\ Finish(p)
    /\ UNCHANGED <<local, files, fixed, unlocked>>

AppendRelease(p) ==
    /\ At(p, "releasing")
    /\ LaneReleased(at[p], aim[p])
    /\ Finish(p)
    /\ UNCHANGED <<local, files, fixed, unlocked>>

LaneStep(p) ==
    \/ TakeClaimLocks(p) \/ ClaimLocksBusy(p) \/ Refuse(p)
    \/ DecideClaim(p) \/ DecideForce(p) \/ DecideAutoClaim(p) \/ DecideRelease(p) \/ DecideReap(p)
    \/ FireTrigger(p) \/ ReleaseOther(p) \/ OthersReleased(p) \/ MarkForced(p)
    \/ AppendClaim(p) \/ AppendRelease(p)
=============================================================================
