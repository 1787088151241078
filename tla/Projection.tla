------------------------------ MODULE Projection ------------------------------
(***************************************************************************)
(* What reduceSessions and foldOwnership (projections.mjs) make of the       *)
(* spine: the sessions, and the owners of every lane, kept up to date event  *)
(* by event instead of being folded from the first event each time.  Both    *)
(* ownership folds are kept: the default one, where the last claim wins and  *)
(* any release frees the lane, and the one of a synced spine, where every    *)
(* claimant stays an owner, in the order of the claims, until it releases    *)
(* or closes.  `mode' is the fold that the writers and readers of the spine  *)
(* use, the mode of readActiveReplicaId.                                    *)
(***************************************************************************)
EXTENDS Integers

CONSTANTS Sid,      \* session ids
          Lane,     \* lane ids
          Nobody    \* no session, no process

ASSUME ProjectionAssumption == Nobody \notin Sid

VARIABLES status,   \* sid -> absent | active | closed
          stale,    \* the sessions marked stale
          beat,     \* sid -> age of its last heartbeat: fresh | old | expired
          claim,    \* default fold: lane -> its claimant
          rank,     \* sync fold: lane -> sid -> order of its claim, 0 without one
          claimSeq, \* sync fold: the claims counted so far
          mode,     \* default | sync
          corrupt   \* the spine has a line that does not parse

sessions == <<status, stale, beat>>
lanes    == <<claim, rank, claimSeq>>
view     == <<sessions, lanes>>

ProjectionTypeOK ==
    /\ status \in [Sid -> {"absent", "active", "closed"}]
    /\ stale \subseteq Sid
    /\ beat \in [Sid -> {"fresh", "old", "expired"}]
    /\ claim \in [Lane -> Sid \cup {Nobody}]
    /\ rank \in [Lane -> [Sid -> Nat]]
    /\ claimSeq \in Nat
    /\ mode \in {"default", "sync"}
    /\ corrupt \in BOOLEAN

Active == {s \in Sid : status[s] = "active"}

DefaultOwners(l) == {s \in Sid : claim[l] = s}
SyncOwners(l)    == {s \in Sid : rank[l][s] > 0}
OwnersOf(l)      == IF mode = "sync" THEN SyncOwners(l) ELSE DefaultOwners(l)

\* A strict snapshot is refused for its malformed lines, which are not counted in a synced spine.
Refused == corrupt /\ mode = "default"

-----------------------------------------------------------------------------
(* The events, by what they do to the folds. *)

SessionRegistered(s) ==
    /\ status' = [status EXCEPT ![s] = "active"]
    /\ beat' = [beat EXCEPT ![s] = "fresh"]
    /\ UNCHANGED <<stale, lanes>>

SessionHeartbeat(s) ==
    /\ beat' = IF status[s] = "absent" THEN beat ELSE [beat EXCEPT ![s] = "fresh"]
    /\ stale' = IF status[s] = "active" THEN stale \ {s} ELSE stale
    /\ UNCHANGED <<status, lanes>>

SessionStaleDetected(s) ==
    /\ stale' = stale \cup {s}
    /\ UNCHANGED <<status, beat, lanes>>

\* Mutant of SessionClosed: in the sync fold a closed session keeps its lanes.
SessionClosedKeepsRank(s) ==
    /\ status' = IF status[s] = "absent" THEN status ELSE [status EXCEPT ![s] = "closed"]
    /\ stale' = stale \ {s}
    /\ claim' = [l \in Lane |-> IF claim[l] = s THEN Nobody ELSE claim[l]]
    /\ UNCHANGED <<beat, rank, claimSeq>>

SessionClosed(s) ==
    /\ status' = IF status[s] = "absent" THEN status ELSE [status EXCEPT ![s] = "closed"]
    /\ stale' = stale \ {s}
    /\ claim' = [l \in Lane |-> IF claim[l] = s THEN Nobody ELSE claim[l]]
    /\ rank' = [l \in Lane |-> [rank[l] EXCEPT ![s] = 0]]
    /\ UNCHANGED <<beat, claimSeq>>

LaneClaimed(s, l) ==
    /\ claim' = [claim EXCEPT ![l] = s]
    /\ rank' = IF rank[l][s] > 0 THEN rank ELSE [rank EXCEPT ![l][s] = claimSeq + 1]
    /\ claimSeq' = claimSeq + 1
    /\ UNCHANGED sessions

LaneReleased(s, l) ==
    /\ claim' = [claim EXCEPT ![l] = Nobody]
    /\ rank' = [rank EXCEPT ![l][s] = 0]
    /\ UNCHANGED <<sessions, claimSeq>>
=============================================================================
