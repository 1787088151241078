---------------------------- MODULE WorktreesProofs ----------------------------
(***************************************************************************)
(* Proofs about Worktrees, for any number of processes, attachments and      *)
(* sessions, any calls, and any spine and disk to begin with that has at     *)
(* most one live worktree made here.  All rest on who holds the lock of the  *)
(* lane at which step (Held), and on what a process may go by at each of     *)
(* its steps because nobody else can have changed it meanwhile (Says).       *)
(***************************************************************************)
EXTENDS Worktrees, TLAPS, WellFoundedInduction

\* The steps at which a process holds the lane lock, may hold the claims lock, and is in front of
\* the trigger with the recovery lock.
LaneSteps == {"reusing", "minting", "checking", "attaching", "confirming", "orphaning", "unwinding",
              "deciding", "intending", "removing", "finalizing", "erasing", "probing", "ending",
              "releasing", "firing", "recovering"}
ClaimsSteps == {"preflight", "forcing", "looking", "decideLock", "deciding", "intending", "removing",
                "finalizing", "erasing", "probing", "ending", "releasing"}
TriggerSteps == {"gauntlet", "scanning", "firing"}

\* The steps at which a process goes by nothing, and all steps.
Plain == {"forceLock", "preflight", "forcing", "owning", "attachLock", "reusing", "unwinding",
          "releaseLock", "looking", "decideLock", "deciding", "recoverLock", "recovering", "claiming",
          "sweeping", "gauntlet", "done"}
Steps == LaneSteps \cup ClaimsSteps \cup TriggerSteps \cup Plain

Holds(p) ==
    /\ lock["lane"] = p <=> pc[p] \in LaneSteps
    /\ lock["claims"] = p => pc[p] \in ClaimsSteps /\ Kind(p) # "recover"
    /\ pc[p] \in {"forceLock", "releaseLock"} => Kind(p) # "recover"
    /\ pc[p] \in {"recoverLock", "recovering"} => Kind(p) = "recover"
    /\ pc[p] \in TriggerSteps => lock["recovery"] = p

Held == \A p \in Proc \ dead : Holds(p)

SaysOfLane(p) ==
    /\ pc[p] \in {"minting", "checking", "attaching"} => Live \subseteq Foreign
    /\ pc[p] \in {"checking", "attaching"} => at[p] \in LocalAids
    /\ pc[p] \in {"scanning", "firing", "finalizing"} => at[p] \in Aid
    /\ pc[p] \in {"confirming", "orphaning", "intending", "removing", "erasing", "probing", "ending"} =>
          at[p] \in Live /\ wt[at[p]].origin = "local"
    /\ pc[p] = "releasing" =>
          \A a \in Live \ Foreign : wt[a].session = Actor(p) => \E f \in Live \cap Foreign : f < a

SaysOfIntent(p) ==
    /\ pc[p] \in {"intending", "removing"} => Kind(p) \in Disposals
    /\ pc[p] = "intending" => how[p] \in {"merged", "abandoned"}
    /\ pc[p] \in {"removing", "erasing"} /\ wt[at[p]].token => intent[at[p]] # "none"
    /\ pc[p] \in {"removing", "erasing", "probing", "ending"}
       /\ intent[at[p]] \in {"merged", "abandoned"} => how[p] \in {intent[at[p]], "kept", "orphaned"}

\* The path between the check of the token and the end, when nobody has meddled with it.
SaysOfDisk(p) ==
    /\ pc[p] = "erasing" /\ hidden => p \in meddled
    /\ pc[p] = "erasing" /\ wt[at[p]].token =>
          disk = at[p] \/ (disk \in {NoTree, Alien} /\ p \in meddled)
    /\ pc[p] \in {"probing", "ending"} /\ Kind(p) \in {"sweep", "release"} =>
          disk # at[p] \/ p \in meddled

SaysOfTrigger(p) == pc[p] \in {"scanning", "firing"} => ~cool

Says(p) == SaysOfLane(p) /\ SaysOfIntent(p) /\ SaysOfDisk(p) /\ SaysOfTrigger(p)

Core ==
    /\ pc \in [Proc -> Steps]
    /\ Held
    /\ \A p \in Proc \ dead : Says(p)
    /\ OneLocal(wt)
    /\ ForeignMarked(wt)

IInv == TypeOK /\ Core

-----------------------------------------------------------------------------
(* The attachments of the lane *)

\* A non-empty set of naturals has a least element.
LEMMA LeastOf ==
    ASSUME NEW S, S \subseteq Nat, S # {}
    PROVE  \E a \in S : \A b \in S : a <= b
  <1>1. PICK a \in S : \A b \in S : ~ (<<b, a>> \in OpToRel(<, Nat))
    BY WFMin, NatLessThanWellFounded, Zenon
  <1>2. \A a1, b1 \in Nat : <<b1, a1>> \in OpToRel(<, Nat) <=> b1 < a1
    BY SMT DEF OpToRel
  <1>3. \A b \in S : ~ (b < a)
    BY <1>1, <1>2, Zenon
  <1> QED
    BY <1>3

\* The first live attachment is the least of the live ones; NoTree stands for none.
LEMMA FirstLiveIs ==
    /\ Live = {} => FirstLive = NoTree
    /\ Live # {} => FirstLive \in Live /\ \A b \in Live : FirstLive <= b
    /\ FirstLive = NoTree <=> Live = {}
  <1>1. Live \subseteq Nat \ {0}
    BY WorktreeAssumption DEF Live
  <1>2. Live # {} => \E a \in Live : \A b \in Live : a <= b
    BY <1>1, LeastOf
  <1>3. Live # {} => FirstLive \in Live /\ \A b \in Live : FirstLive <= b
    BY <1>2 DEF FirstLive
  <1> QED
    BY <1>1, <1>3 DEF FirstLive, NoTree

\* A live worktree made here is the first one, or an imported one is in front of it.
LEMMA FirstLiveAlone ==
    ASSUME OneLocal(wt), NEW a \in Live \ Foreign, a # FirstLive
    PROVE  \E f \in Live \cap Foreign : f < a
  <1>1. /\ FirstLive \in Live /\ FirstLive <= a /\ FirstLive \in Foreign
        /\ a \in Nat /\ FirstLive \in Nat
    BY FirstLiveIs, WorktreeAssumption DEF OneLocal, Live
  <1>2. FirstLive < a
    BY <1>1
  <1> QED
    BY <1>1, <1>2

\* What may be disposed of or recovered is the one live attachment, and was made here.
LEMMA DisposableIs ==
    ASSUME NEW p, ~Undisposable(p)
    PROVE  Live = {FirstLive} /\ wt[FirstLive].origin = "local"
  BY DEF Undisposable

\* What an operator's recovery goes on with is the one live attachment, made here.
LEMMA RecoverableIs ==
    ASSUME NEW p, ~Unrecoverable(p)
    PROVE  Live = {FirstLive} /\ wt[FirstLive].origin = "local"
  BY DEF Unrecoverable

-----------------------------------------------------------------------------
(* What the steps have in common *)

\* A step of p leaves the calls of the others alone, the worktree unless p holds the lane, and the
\* cooldown unless p is at the trigger.
Minds(p) ==
    /\ dead' = dead /\ hidden' = hidden /\ meddled' = meddled
    /\ \A q \in (Proc \ dead) \ {p} : at'[q] = at[q] /\ how'[q] = how[q] /\ op'[q] = op[q]
    /\ UNCHANGED <<wt, intent, disk>> \/ pc[p] \in LaneSteps
    /\ cool' = cool \/ pc[p] = "firing"
    /\ OneLocal(wt') /\ ForeignMarked(wt')

\* The locks that others hold, they keep.
Spares(p) ==
    /\ pc' \in [Proc -> Steps]
    /\ \A q \in (Proc \ dead) \ {p} : pc'[q] = pc[q] /\ \A k \in Locks : lock'[k] = q <=> lock[k] = q

\* Such a step disturbs nothing that another process goes by.
LEMMA OthersGoOn ==
    ASSUME Core, NEW p \in Proc \ dead, Minds(p), Spares(p), Holds(p)', Says(p)'
    PROVE  Core'
  <1>1. ASSUME NEW q \in Proc \ dead, q # p
        PROVE  Holds(q)'
    BY <1>1 DEF Core, Held, Holds, Minds, Spares, Locks, Kind
  <1>2. ASSUME NEW q \in Proc \ dead, q # p
        PROVE  Says(q)'
    <2>1. Says(q) /\ Holds(q) /\ Holds(p) /\ pc'[q] = pc[q]
          /\ at'[q] = at[q] /\ how'[q] = how[q] /\ op'[q] = op[q]
      BY <1>2 DEF Core, Held, Minds, Spares
    <2>2. SaysOfTrigger(q)'
      BY <1>2, <2>1 DEF Says, SaysOfTrigger, Holds, Minds, TriggerSteps
    <2>3. CASE UNCHANGED <<wt, intent, disk>>
      <3>1. Live' = Live
        BY <2>3 DEF Live
      <3>2. SaysOfLane(q)'
        BY <2>1, <2>3, <3>1 DEF Says, SaysOfLane, Actor
      <3>3. SaysOfIntent(q)'
        BY <2>1, <2>3 DEF Says, SaysOfIntent, Kind
      <3>4. SaysOfDisk(q)'
        BY <2>1, <2>3 DEF Says, SaysOfDisk, Kind, Minds
      <3> QED
        BY <2>2, <3>2, <3>3, <3>4 DEF Says
    <2>4. CASE pc[p] \in LaneSteps
      <3>1. pc'[q] \notin LaneSteps
        BY <1>2, <2>1, <2>4 DEF Holds
      <3>2. SaysOfLane(q)'
        BY <2>1, <3>1 DEF Says, SaysOfLane, LaneSteps
      <3>3. SaysOfIntent(q)'
        BY <2>1, <3>1 DEF SaysOfIntent, LaneSteps
      <3>4. SaysOfDisk(q)'
        BY <2>1, <3>1 DEF SaysOfDisk, LaneSteps
      <3> QED
        BY <2>2, <3>2, <3>3, <3>4 DEF Says
    <2> QED
      BY <2>3, <2>4 DEF Minds
  <1>3. Held' /\ \A q \in Proc \ dead' : Says(q)'
    BY <1>1, <1>2 DEF Held, Minds
  <1> QED
    BY <1>3 DEF Core, Minds, Spares

\* A call that ends holds nothing and goes by nothing.
LEMMA Ends ==
    ASSUME Core, lock \in [Locks -> Proc \cup {Nobody}], NEW p \in Proc \ dead, Finish(p), Minds(p)
    PROVE  Core' /\ lock' \in [Locks -> Proc \cup {Nobody}]
  <1>1. pc' = [pc EXCEPT ![p] = "done"]
        /\ lock' = [k \in Locks |-> IF lock[k] = p THEN Nobody ELSE lock[k]]
    BY DEF Finish, Goto, Dropped
  <1>2. pc'[p] = "done" /\ \A k \in Locks : lock'[k] # p
    BY <1>1, WorktreeAssumption DEF Core
  <1>3. Spares(p)
    <2>1. pc' \in [Proc -> Steps] /\ \A q \in Proc : q # p => pc'[q] = pc[q]
      BY <1>1 DEF Core, Steps, Plain
    <2>2. ASSUME NEW q \in Proc, q # p, NEW k \in Locks
          PROVE  lock'[k] = q <=> lock[k] = q
      BY <1>1, <2>2, WorktreeAssumption
    <2> QED
      BY <2>1, <2>2 DEF Spares
  <1>4. Holds(p)'
    BY <1>2 DEF Holds, Locks, LaneSteps, TriggerSteps
  <1>5. Says(p)'
    BY <1>2 DEF Says, SaysOfLane, SaysOfIntent, SaysOfDisk, SaysOfTrigger
  <1> QED
    BY <1>1, <1>3, <1>4, <1>5, OthersGoOn

\* From its step p may go on to another without a lock more or less.
Leads(p, step) ==
    /\ step \in Steps \ {"forceLock", "releaseLock", "recoverLock", "recovering"}
    /\ pc[p] \in LaneSteps <=> step \in LaneSteps
    /\ pc[p] \in ClaimsSteps => step \in ClaimsSteps
    /\ step \in TriggerSteps => pc[p] \in TriggerSteps

\* Such a step keeps the invariant when p may go by what its new step says.
LEMMA GoesOn ==
    ASSUME Core, NEW p \in Proc \ dead, NEW step, Leads(p, step), Goto(p, step),
           lock' = lock, op' = op, Minds(p), Says(p)'
    PROVE  Core'
  <1>1. pc'[p] = step /\ Spares(p)
    BY DEF Core, Spares, Goto, Leads
  <1>2. Holds(p)'
    BY <1>1 DEF Core, Held, Holds, Kind, Leads
  <1> QED
    BY <1>1, <1>2, OthersGoOn

\* At those a process goes by nothing.
LEMMA PlainSays ==
    ASSUME NEW p, pc[p] \in Plain
    PROVE  Says(p)
  BY DEF Plain, Says, SaysOfLane, SaysOfIntent, SaysOfDisk, SaysOfTrigger

\* A step that leaves the worktree, the cooldown and the calls alone.
LEMMA CalmMinds ==
    ASSUME Core, NEW p, UNCHANGED <<wt, intent, disk, cool, at, how, op, dead, hidden, meddled>>
    PROVE  Minds(p)
  BY DEF Core, Minds, OneLocal, ForeignMarked

-----------------------------------------------------------------------------
(* Types *)

TreesOK ==
    /\ wt \in [Aid -> Attachment]
    /\ intent \in [Aid -> {"none", "invalid", "merged", "abandoned"}]

LocalOK ==
    /\ op \in [Proc -> Op]
    /\ at \in [Proc -> Aid \cup {NoTree}]
    /\ how \in [Proc -> {"none", "orphaned"} \cup Disposals]
    /\ saw \in [Proc -> [owners : SUBSET Sid, active : SUBSET Sid]]

DiskOK == disk \in Aid \cup {NoTree, Alien}
LocksOK == lock \in [Locks -> Proc \cup {Nobody}] /\ dead \subseteq Proc
HistoryOK == adopted \subseteq Aid /\ meddled \subseteq Proc

\* TypeOK, taken apart so that a step need only treat the parts it disturbs.
LEMMA TypeParts ==
    TypeOK <=> ProjectionTypeOK /\ TreesOK /\ LocalOK /\ DiskOK /\ LocksOK /\ HistoryOK
  BY Zenon DEF TypeOK, TreesOK, LocalOK, DiskOK, LocksOK, HistoryOK

\* The parts, in the next state, make up TypeOK again.
LEMMA TypeAssembles ==
    ASSUME ProjectionTypeOK', TreesOK', LocalOK', DiskOK', LocksOK', HistoryOK'
    PROVE  TypeOK'
  BY Zenon DEF TypeOK, TreesOK, LocalOK, DiskOK, LocksOK, HistoryOK

\* What a step leaves alone keeps its type.
LEMMA SameTypes ==
    /\ ProjectionTypeOK /\ view' = view /\ mode' = mode /\ corrupt' = corrupt => ProjectionTypeOK'
    /\ TreesOK /\ trees' = trees => TreesOK'
    /\ LocalOK /\ local' = local => LocalOK'
    /\ DiskOK /\ disk' = disk => DiskOK'
    /\ LocksOK /\ lock' = lock /\ dead' = dead => LocksOK'
    /\ HistoryOK /\ adopted' = adopted /\ meddled' = meddled => HistoryOK'
  BY DEF ProjectionTypeOK, view, sessions, lanes, TreesOK, trees, LocalOK, local, DiskOK, LocksOK,
         HistoryOK

\* A call that ends, or leaves the locks alone, keeps their type.
LEMMA EndTypes ==
    ASSUME LocksOK, NEW p \in Proc, Finish(p) \/ UNCHANGED lock, dead' = dead
    PROVE  LocksOK'
  BY DEF LocksOK, Finish, Dropped

\* The end of an attachment, and its intent, are of their types.
LEMMA DetachTypes ==
    ASSUME TreesOK, NEW a, NEW d \in {"none", "orphaned"} \cup Disposals,
           WorktreeDetached(a, d) \/ (d \in {"merged", "abandoned"} /\ WorktreeDetaching(a, d))
    PROVE  TreesOK'
  <1>1. wt' \in [Aid -> Attachment]
    <2>1. ASSUME NEW b \in Aid
          PROVE  wt[b] \in Attachment /\ [wt[b] EXCEPT !.state = d] \in Attachment
      BY DEF TreesOK, Attachment, States, Disposals
    <2>2. wt' = wt \/ wt' = [wt EXCEPT ![a] = [wt[a] EXCEPT !.state = d]]
      BY DEF WorktreeDetached, WorktreeDetaching
    <2> QED
      BY <2>1, <2>2 DEF TreesOK
  <1>2. intent' \in [Aid -> {"none", "invalid", "merged", "abandoned"}]
    BY DEF TreesOK, WorktreeDetached, WorktreeDetaching
  <1> QED
    BY <1>1, <1>2 DEF TreesOK

\* A new attachment is of its type.
LEMMA AttachTypes ==
    ASSUME TreesOK, NEW a, NEW s \in Sid \cup {Nobody}, WorktreeAttached(a, s)
    PROVE  TreesOK'
  BY DEF TreesOK, WorktreeAttached, Attachment, States, Disposals

\* The events on the sessions and the lane are of their types.
LEMMA EventTypes ==
    ASSUME ProjectionTypeOK, NEW s \in Sid \cup {Nobody}, UNCHANGED <<mode, corrupt>>,
           SessionClosed(s) \/ LaneReleased(s, Main) \/ ClaimedAlone(s)
    PROVE  ProjectionTypeOK'
  <1>1. CASE SessionClosed(s)
    BY <1>1 DEF ProjectionTypeOK, SessionClosed
  <1>2. CASE LaneReleased(s, Main)
    BY <1>2 DEF ProjectionTypeOK, LaneReleased, sessions
  <1>3. CASE ClaimedAlone(s)
    <2>1. \A n \in Nat : n + 1 \in Nat
      OBVIOUS
    <2>2. ASSUME NEW l \in Lane
          PROVE  [r \in Sid |-> IF r # s THEN 0 ELSE IF rank[l][s] > 0 THEN rank[l][s]
                                ELSE claimSeq + 1] \in [Sid -> Nat]
      BY <2>1 DEF ProjectionTypeOK
    <2>3. rank' \in [Lane -> [Sid -> Nat]]
      BY <1>3, <2>2, WorktreeAssumption DEF ProjectionTypeOK, ClaimedAlone
    <2> QED
      BY <1>3, <2>1, <2>3, WorktreeAssumption DEF ProjectionTypeOK, ClaimedAlone, sessions
  <1> QED
    BY <1>1, <1>2, <1>3

\* A step that changes its position alone.
LEMMA QuietTypes ==
    ASSUME TypeOK, Quiet, LocksOK'
    PROVE  TypeOK'
  <1>1. /\ view' = view /\ mode' = mode /\ corrupt' = corrupt /\ trees' = trees
        /\ local' = local /\ disk' = disk /\ adopted' = adopted /\ meddled' = meddled
    BY DEF Quiet, fixed, history
  <1> QED
    BY <1>1, TypeParts, TypeAssembles, SameTypes

\* A call that ends there and then.
LEMMA QuietEnds ==
    ASSUME IInv, NEW p \in Proc \ dead, Finish(p), Quiet
    PROVE  IInv'
  <1>1. UNCHANGED <<wt, intent, disk, cool, at, how, op, dead, hidden, meddled>>
    BY DEF Quiet, trees, local, fixed, history
  <1>2. Core' /\ LocksOK'
    BY <1>1, TypeParts, CalmMinds, Ends, EndTypes DEF IInv, LocksOK
  <1> QED
    BY <1>2, QuietTypes DEF IInv

\* A call that only goes on, with the lock it has.
LEMMA QuietGoes ==
    ASSUME IInv, NEW p \in Proc \ dead, NEW step, Leads(p, step), Goto(p, step), lock' = lock, Quiet,
           Says(p)'
    PROVE  IInv'
  <1>1. UNCHANGED <<wt, intent, disk, cool, at, how, op, dead, hidden, meddled>>
    BY DEF Quiet, trees, local, fixed, history
  <1>2. Core'
    BY <1>1, CalmMinds, GoesOn DEF IInv
  <1>3. LocksOK'
    BY <1>1, TypeParts DEF IInv, LocksOK
  <1> QED
    BY <1>2, <1>3, QuietTypes DEF IInv

\* The same of the next state.
LEMMA PlainSaysNext ==
    ASSUME NEW p, pc'[p] \in Plain
    PROVE  Says(p)'
  BY DEF Plain, Says, SaysOfLane, SaysOfIntent, SaysOfDisk, SaysOfTrigger

-----------------------------------------------------------------------------
(* Claims and attaches *)

\* A claim, and a forced one with its preflight.
LEMMA ClaimSteps ==
    ASSUME IInv, NEW p \in Proc \ dead, ClaimLane(p) \/ ForceClaim(p) \/ PassPreflight(p)
    PROVE  IInv'
  <1>1. Actor(p) \in Sid \cup {Nobody}
    BY TypeParts DEF IInv, LocalOK, Op, Actor
  <1>2. CASE ClaimLane(p)
    <2>1. /\ pc[p] = "claiming" /\ Goto(p, "owning") /\ lock' = lock /\ op' = op
          /\ UNCHANGED <<wt, intent, disk, cool, at, how, dead, hidden, meddled>>
      BY <1>2 DEF ClaimLane, At, trees, local, fixed, history
    <2>2. Leads(p, "owning")
      BY <2>1 DEF Leads, Steps, Plain, LaneSteps, ClaimsSteps, TriggerSteps
    <2>3. Core'
      <3>1. pc'[p] = "owning"
        BY <2>1 DEF IInv, Core, Goto
      <3>2. Minds(p) /\ Says(p)'
        BY <2>1, <3>1, CalmMinds, PlainSaysNext DEF IInv, Plain
      <3> QED
        BY <2>1, <2>2, <3>2, GoesOn DEF IInv
    <2>4. ProjectionTypeOK'
      BY <1>1, <1>2, EventTypes, TypeParts DEF ClaimLane, IInv, fixed, history
    <2>5. TypeOK'
      BY <1>2, <2>1, <2>4, TypeParts, TypeAssembles, SameTypes DEF ClaimLane, IInv, history
    <2> QED
      BY <2>3, <2>5 DEF IInv
  <1>3. CASE ForceClaim(p)
    <2>1. /\ pc[p] = "forcing" /\ op' = op /\ lock' = Dropped(p, Locks)
          /\ pc' = [pc EXCEPT ![p] = "done"] \/ pc' = [pc EXCEPT ![p] = "owning"]
          /\ UNCHANGED <<wt, intent, disk, cool, at, how, dead, hidden, meddled>>
      BY <1>3 DEF ForceClaim, At, Goto, trees, local, fixed, history
    <2>2. lock' = [k \in Locks |-> IF lock[k] = p THEN Nobody ELSE lock[k]]
          /\ \A k \in Locks : lock'[k] # p
      BY <2>1, WorktreeAssumption DEF Dropped
    <2>3. pc'[p] \in {"done", "owning"} /\ pc' \in [Proc -> Steps] /\ \A q \in Proc : q # p => pc'[q] = pc[q]
      BY <2>1 DEF IInv, Core, Steps, Plain
    <2>4. Spares(p)
      <3>1. ASSUME NEW q \in Proc, q # p, NEW k \in Locks
            PROVE  lock'[k] = q <=> lock[k] = q
        BY <2>2, <3>1, WorktreeAssumption
      <3> QED
        BY <2>3, <3>1 DEF Spares
    <2>5. Holds(p)'
      BY <2>2, <2>3 DEF Holds, Locks, LaneSteps, TriggerSteps
    <2>6. Core'
      BY <2>1, <2>3, <2>4, <2>5, CalmMinds, PlainSaysNext, OthersGoOn DEF IInv, Plain
    <2>7. ProjectionTypeOK'
      BY <1>1, <1>3, EventTypes, TypeParts DEF ForceClaim, IInv, fixed, history
    <2>8. LocksOK'
      BY <2>1, <2>2, TypeParts DEF IInv, LocksOK
    <2>9. TypeOK'
      BY <1>3, <2>7, <2>8, TypeParts, TypeAssembles, SameTypes DEF ForceClaim, IInv, history
    <2> QED
      BY <2>6, <2>9 DEF IInv
  <1>4. CASE PassPreflight(p)
    <2>1. pc[p] = "preflight" /\ Goto(p, "forcing") /\ lock' = lock /\ Quiet
      BY <1>4 DEF PassPreflight, At
    <2>2. pc'[p] = "forcing" /\ Leads(p, "forcing")
      BY <2>1 DEF IInv, Core, Goto, Leads, Steps, Plain, LaneSteps, ClaimsSteps, TriggerSteps
    <2> QED
      BY <2>1, <2>2, QuietGoes, PlainSaysNext DEF Plain
  <1> QED
    BY <1>2, <1>3, <1>4

\* A claim that was lost meanwhile, and a live worktree handed out again.
LEMMA ReuseSteps ==
    ASSUME IInv, NEW p \in Proc \ dead, CheckOwner(p) \/ Reuse(p)
    PROVE  IInv'
  <1>1. CASE CheckOwner(p)
    <2>1. pc[p] = "owning" /\ Quiet /\ (Finish(p) \/ (Goto(p, "attachLock") /\ lock' = lock))
      BY <1>1 DEF CheckOwner, At
    <2>2. CASE Finish(p)
      BY <2>1, <2>2, QuietEnds
    <2>3. CASE Goto(p, "attachLock") /\ lock' = lock
      <3>1. pc'[p] = "attachLock" /\ Leads(p, "attachLock")
        BY <2>1, <2>3 DEF IInv, Core, Goto, Leads, Steps, Plain, LaneSteps, ClaimsSteps, TriggerSteps
      <3> QED
        BY <2>1, <2>3, <3>1, QuietGoes, PlainSaysNext DEF Plain
    <2> QED
      BY <2>1, <2>2, <2>3
  <1>2. CASE Reuse(p)
    <2>1. /\ Finish(p) /\ adopted' \in {adopted, adopted \cup {FirstLive}} /\ FirstLive # NoTree
          /\ UNCHANGED <<wt, intent, disk, cool, at, how, op, dead, hidden, meddled>>
      BY <1>2 DEF Reuse, trees, local, fixed, history
    <2>2. Core' /\ LocksOK'
      BY <2>1, TypeParts, CalmMinds, Ends, EndTypes DEF IInv, LocksOK
    <2>3. HistoryOK'
      BY <2>1, FirstLiveIs, TypeParts DEF IInv, HistoryOK, Live
    <2>4. /\ view' = view /\ mode' = mode /\ corrupt' = corrupt /\ trees' = trees
          /\ local' = local /\ disk' = disk
      BY <1>2 DEF Reuse, fixed, history
    <2> QED
      BY <2>2, <2>3, <2>4, TypeParts, TypeAssembles, SameTypes DEF IInv
  <1> QED
    BY <1>1, <1>2

\* What a step with the lane lock changes is the worktree, not the sessions or the locks.
LEMMA LaneStepTypes ==
    ASSUME TypeOK, view' = view, mode' = mode, corrupt' = corrupt, adopted' = adopted,
           meddled' = meddled, TreesOK', LocalOK', DiskOK', LocksOK'
    PROVE  TypeOK'
  BY TypeParts, TypeAssembles, SameTypes

\* The checkout of a new worktree and its token.
LEMMA AddSteps ==
    ASSUME IInv, NEW p \in Proc \ dead, AddWorktree(p) \/ MintInstance(p)
    PROVE  IInv'
  <1>1. /\ UNCHANGED <<wt, intent, cool, op, how, dead, hidden, meddled>> /\ lock' = lock
        /\ pc[p] \in LaneSteps
        /\ UNCHANGED <<view, mode, corrupt, adopted, trees, saw>>
    BY DEF AddWorktree, MintInstance, trees, local, fixed, history, At, LaneSteps
  <1>2. OneLocal(wt') /\ ForeignMarked(wt')
    BY <1>1 DEF IInv, Core
  <1>3. CASE AddWorktree(p)
    <2>1. pc[p] = "reusing" /\ Goto(p, "minting") /\ at' = at /\ Live = {} /\ disk' = Alien
      BY <1>3, FirstLiveIs DEF AddWorktree, At, local
    <2>2. pc'[p] = "minting" /\ Leads(p, "minting")
      BY <2>1 DEF IInv, Core, Goto, Leads, Steps, Plain, LaneSteps, ClaimsSteps, TriggerSteps
    <2>3. Minds(p)
      BY <1>1, <1>2, <2>1 DEF Minds
    <2>4. Says(p)'
      <3>1. Live' = {}
        BY <1>1, <2>1 DEF Live
      <3> QED
        BY <2>2, <3>1 DEF Says, SaysOfLane, SaysOfIntent, SaysOfDisk, SaysOfTrigger
    <2>5. Core'
      BY <1>1, <2>1, <2>2, <2>3, <2>4, GoesOn DEF IInv
    <2>6. DiskOK' /\ TreesOK' /\ LocalOK' /\ LocksOK'
      BY <1>1, <2>1, TypeParts DEF IInv, DiskOK, TreesOK, LocalOK, LocksOK
    <2> QED
      BY <1>1, <2>5, <2>6, LaneStepTypes DEF IInv
  <1>4. CASE MintInstance(p)
    <2>1. PICK a \in LocalAids : disk' = a /\ at' = [at EXCEPT ![p] = a]
      BY <1>4 DEF MintInstance
    <2>2. pc[p] = "minting" /\ Goto(p, "checking")
      BY <1>4 DEF MintInstance, At
    <2>3. pc'[p] = "checking" /\ Leads(p, "checking")
      BY <2>2 DEF IInv, Core, Goto, Leads, Steps, Plain, LaneSteps, ClaimsSteps, TriggerSteps
    <2>4. /\ LocalOK /\ a \in Aid /\ LocalOK' /\ at'[p] = a
          /\ \A q \in Proc : q # p => at'[q] = at[q]
      BY <1>1, <2>1, TypeParts, LocalAssumption DEF IInv, LocalOK
    <2>5. Minds(p)
      BY <1>1, <1>2, <2>4 DEF Minds
    <2>6. Says(p)'
      <3>1. Live' = Live /\ Live \subseteq Foreign
        BY <1>1, <2>2 DEF Live, IInv, Core, Says, SaysOfLane
      <3> QED
        BY <2>3, <2>4, <3>1 DEF Says, SaysOfLane, SaysOfIntent, SaysOfDisk, SaysOfTrigger
    <2>7. Core'
      BY <1>1, <2>2, <2>3, <2>5, <2>6, GoesOn DEF IInv
    <2>8. DiskOK' /\ TreesOK' /\ LocksOK'
      BY <1>1, <2>1, <2>4, TypeParts DEF IInv, DiskOK, TreesOK, LocksOK
    <2> QED
      BY <1>1, <2>4, <2>7, <2>8, LaneStepTypes DEF IInv
  <1> QED
    BY <1>3, <1>4

\* An attach that is given up, and its looks at the owner.
LEMMA OwnerSteps ==
    ASSUME IInv, NEW p \in Proc \ dead, MintFails(p) \/ CheckOwnerAgain(p)
    PROVE  IInv'
  <1>1. /\ Quiet
        /\ \/ Finish(p)
           \/ /\ lock' = lock
              /\ \/ pc[p] \in {"minting", "checking"} /\ Goto(p, "unwinding")
                 \/ pc[p] = "checking" /\ Goto(p, "attaching")
                 \/ pc[p] = "confirming" /\ Goto(p, "orphaning")
    BY DEF MintFails, CheckOwnerAgain, At
  <1>2. Says(p)
    BY DEF IInv, Core
  <1>3. UNCHANGED <<wt, at>> /\ Live' = Live
    BY <1>1 DEF Quiet, trees, local, Live
  <1>4. CASE Finish(p)
    BY <1>1, <1>4, QuietEnds
  <1>5. CASE lock' = lock /\ pc[p] \in {"minting", "checking"} /\ Goto(p, "unwinding")
    <2>1. pc'[p] = "unwinding" /\ Leads(p, "unwinding")
      BY <1>5 DEF IInv, Core, Goto, Leads, Steps, Plain, LaneSteps, ClaimsSteps, TriggerSteps
    <2> QED
      BY <1>1, <1>5, <2>1, QuietGoes, PlainSaysNext DEF Plain
  <1>6. CASE lock' = lock /\ pc[p] = "checking" /\ Goto(p, "attaching")
    <2>1. pc'[p] = "attaching" /\ Leads(p, "attaching")
      BY <1>6 DEF IInv, Core, Goto, Leads, Steps, Plain, LaneSteps, ClaimsSteps, TriggerSteps
    <2>2. Says(p)'
      BY <1>2, <1>3, <1>6, <2>1 DEF Says, SaysOfLane, SaysOfIntent, SaysOfDisk, SaysOfTrigger
    <2> QED
      BY <1>1, <1>6, <2>1, <2>2, QuietGoes
  <1>7. CASE lock' = lock /\ pc[p] = "confirming" /\ Goto(p, "orphaning")
    <2>1. pc'[p] = "orphaning" /\ Leads(p, "orphaning")
      BY <1>7 DEF IInv, Core, Goto, Leads, Steps, Plain, LaneSteps, ClaimsSteps, TriggerSteps
    <2>2. Says(p)'
      BY <1>2, <1>3, <1>7, <2>1 DEF Says, SaysOfLane, SaysOfIntent, SaysOfDisk, SaysOfTrigger
    <2> QED
      BY <1>1, <1>7, <2>1, <2>2, QuietGoes
  <1> QED
    BY <1>1, <1>4, <1>5, <1>6, <1>7

\* The attachment is recorded: there was no other that was made here.
LEMMA AttachedStep ==
    ASSUME IInv, NEW p \in Proc \ dead, AppendAttached(p)
    PROVE  IInv'
  <1>1. /\ pc[p] = "attaching" /\ Goto(p, "confirming") /\ lock' = lock
        /\ WorktreeAttached(at[p], Actor(p)) /\ UNCHANGED <<disk, cool, op, at, how, saw, dead, hidden, meddled>>
        /\ view' = view /\ mode' = mode /\ corrupt' = corrupt /\ adopted' = adopted
    BY DEF AppendAttached, At, local, fixed, history
  <1>2. Live \subseteq Foreign /\ at[p] \in LocalAids /\ at[p] \in Aid \ Foreign
    BY <1>1, LocalAssumption DEF IInv, Core, Says, SaysOfLane
  <1>3. TreesOK /\ LocalOK /\ LocksOK /\ DiskOK /\ Actor(p) \in Sid \cup {Nobody}
    BY TypeParts DEF IInv, LocalOK, Op, Actor
  <1>4. /\ TreesOK'
        /\ \A a \in Aid : a # at[p] => wt'[a] = wt[a]
        /\ wt'[at[p]].state = "live" /\ wt'[at[p]].origin = "local" /\ intent' = intent
    BY <1>1, <1>2, <1>3, AttachTypes DEF WorktreeAttached, TreesOK
  <1>5. OneLocal(wt')
    BY <1>2, <1>4 DEF OneLocal, Live
  <1>6. ForeignMarked(wt')
    BY <1>2, <1>4, WorktreeAssumption DEF ForeignMarked, IInv, Core
  <1>7. pc'[p] = "confirming" /\ Leads(p, "confirming") /\ pc[p] \in LaneSteps
    BY <1>1 DEF IInv, Core, Goto, Leads, Steps, LaneSteps, ClaimsSteps, TriggerSteps
  <1>8. Says(p)'
    <2>1. at'[p] \in Live'
      BY <1>1, <1>2, <1>4 DEF Live
    <2> QED
      BY <1>1, <1>4, <1>7, <2>1 DEF Says, SaysOfLane, SaysOfIntent, SaysOfDisk, SaysOfTrigger
  <1>9. Core'
    BY <1>1, <1>5, <1>6, <1>7, <1>8, GoesOn DEF IInv, Minds
  <1>10. LocalOK' /\ DiskOK' /\ LocksOK'
    BY <1>1, <1>3 DEF LocalOK, DiskOK, LocksOK
  <1> QED
    BY <1>1, <1>4, <1>9, <1>10, LaneStepTypes DEF IInv

\* An attachment that ends takes no other with it, and leaves none in its place.
LEMMA EndedIs ==
    ASSUME TreesOK, OneLocal(wt), ForeignMarked(wt), NEW a \in Live,
           NEW d \in {"none", "orphaned"} \cup Disposals, WorktreeDetached(a, d)
    PROVE  /\ TreesOK' /\ OneLocal(wt') /\ ForeignMarked(wt')
           /\ Live' = Live \ {a}
           /\ \A b \in Aid : b # a => wt'[b] = wt[b]
  <1>1. TreesOK'
    BY DetachTypes
  <1>2. /\ \A b \in Aid : b # a => wt'[b] = wt[b]
        /\ wt'[a].state = d /\ d # "live" /\ a \in Aid
    BY DEF WorktreeDetached, TreesOK, Attachment, Live, Disposals
  <1>3. Live' = Live \ {a}
    BY <1>2 DEF Live
  <1>4. OneLocal(wt') /\ ForeignMarked(wt')
    BY <1>2, WorktreeAssumption DEF OneLocal, ForeignMarked
  <1> QED
    BY <1>1, <1>2, <1>3, <1>4

\* An attach that has lost the lane ends its attachment, then takes its checkout away.
LEMMA UnwindSteps ==
    ASSUME IInv, NEW p \in Proc \ dead, AppendOrphaned(p) \/ Unwind(p)
    PROVE  IInv'
  <1>1. CASE AppendOrphaned(p)
    <2>1. /\ pc[p] = "orphaning" /\ Goto(p, "unwinding") /\ lock' = lock
          /\ WorktreeDetached(at[p], "orphaned") /\ UNCHANGED <<disk, cool, op, at, how, saw, dead, hidden, meddled>>
          /\ view' = view /\ mode' = mode /\ corrupt' = corrupt /\ adopted' = adopted
      BY <1>1 DEF AppendOrphaned, At, local, fixed, history
    <2>2. at[p] \in Live
      BY <2>1 DEF IInv, Core, Says, SaysOfLane
    <2>3. TreesOK' /\ OneLocal(wt') /\ ForeignMarked(wt')
      BY <2>1, <2>2, TypeParts, EndedIs DEF IInv, Core
    <2>4. pc'[p] = "unwinding" /\ Leads(p, "unwinding") /\ pc[p] \in LaneSteps
      BY <2>1 DEF IInv, Core, Goto, Leads, Steps, LaneSteps, ClaimsSteps, TriggerSteps
    <2>5. Minds(p) /\ Says(p)'
      BY <2>1, <2>3, <2>4, PlainSaysNext DEF Minds, Plain
    <2>6. Core'
      BY <2>1, <2>4, <2>5, GoesOn DEF IInv
    <2>7. LocalOK' /\ DiskOK' /\ LocksOK'
      BY <2>1, TypeParts DEF IInv, LocalOK, DiskOK, LocksOK
    <2> QED
      BY <2>1, <2>3, <2>6, <2>7, LaneStepTypes DEF IInv
  <1>2. CASE Unwind(p)
    <2>1. /\ pc[p] \in LaneSteps /\ Finish(p) /\ disk' \in {disk, NoTree}
          /\ UNCHANGED <<wt, intent, cool, op, at, how, saw, dead, hidden, meddled>>
          /\ view' = view /\ mode' = mode /\ corrupt' = corrupt /\ adopted' = adopted
      BY <1>2 DEF Unwind, At, trees, local, fixed, history, LaneSteps
    <2>2. Minds(p)
      BY <2>1 DEF Minds, IInv, Core
    <2>3. Core' /\ LocksOK'
      BY <2>1, <2>2, TypeParts, Ends, EndTypes DEF IInv, LocksOK
    <2>4. TreesOK' /\ LocalOK' /\ DiskOK'
      BY <2>1, TypeParts DEF IInv, TreesOK, LocalOK, DiskOK
    <2> QED
      BY <2>1, <2>3, <2>4, LaneStepTypes DEF IInv
  <1> QED
    BY <1>1, <1>2

\* Every step of a claim and an attach.
LEMMA AttachSteps ==
    ASSUME IInv, NEW p \in Proc \ dead, AttachStep(p)
    PROVE  IInv'
  <1>1. CASE ClaimRefused(p) \/ ForceRefused(p) \/ AddFails(p)
    BY <1>1, QuietEnds DEF ClaimRefused, ForceRefused, AddFails
  <1> QED
    BY <1>1, ClaimSteps, ReuseSteps, AddSteps, OwnerSteps, AttachedStep, UnwindSteps DEF AttachStep

-----------------------------------------------------------------------------
(* The locks *)

\* A lock is taken only when no living process has it.
LEMMA Takes ==
    ASSUME Core, LocksOK, NEW p \in Proc \ dead, NEW k \in Locks, Free(k),
           lock' = [lock EXCEPT ![k] = p], NEW step \in Steps, Goto(p, step), Minds(p),
           Holds(p)', Says(p)'
    PROVE  Core' /\ LocksOK'
  <1>1. pc' \in [Proc -> Steps] /\ \A q \in Proc : q # p => pc'[q] = pc[q]
    BY DEF Core, Goto
  <1>2. ASSUME NEW q \in (Proc \ dead) \ {p}, NEW j \in Locks
        PROVE  lock'[j] = q <=> lock[j] = q
    BY <1>2, WorktreeAssumption DEF Free, LocksOK
  <1>3. Spares(p)
    BY <1>1, <1>2 DEF Spares
  <1> QED
    BY <1>3, OthersGoOn DEF LocksOK, Minds

\* The waits for the claims and the lane lock, by name.
LEMMA WaitsAre ==
    ASSUME NEW p, NEW k \in Locks, pc[p] \in LockOf[k]
    PROVE  \/ k = "claims" /\ pc[p] = "forceLock"   /\ After[pc[p]] = "preflight"
           \/ k = "claims" /\ pc[p] = "releaseLock" /\ After[pc[p]] = "looking"
           \/ k = "lane"   /\ pc[p] = "attachLock"  /\ After[pc[p]] = "reusing"
           \/ k = "lane"   /\ pc[p] = "decideLock"  /\ After[pc[p]] = "deciding"
           \/ k = "lane"   /\ pc[p] = "recoverLock" /\ After[pc[p]] = "recovering"
  <1>1. /\ LockOf["claims"] = {"forceLock", "releaseLock"}
        /\ LockOf["lane"] = {"attachLock", "decideLock", "recoverLock"}
        /\ LockOf["recovery"] = {}
        /\ After["forceLock"] = "preflight" /\ After["releaseLock"] = "looking"
        /\ After["attachLock"] = "reusing" /\ After["decideLock"] = "deciding"
        /\ After["recoverLock"] = "recovering"
    BY DEF LockOf, After
  <1> QED
    BY <1>1 DEF Locks

\* The claims or the lane lock is taken.
LEMMA TakeLockStep ==
    ASSUME IInv, NEW p \in Proc \ dead, TakeLock(p)
    PROVE  IInv'
  <1>1. PICK k \in Locks : /\ pc[p] \in LockOf[k] /\ Free(k) /\ lock' = [lock EXCEPT ![k] = p]
                           /\ Goto(p, After[pc[p]])
    BY DEF TakeLock
  <1>2. Quiet /\ UNCHANGED <<wt, intent, disk, cool, at, how, op, dead, hidden, meddled>>
    BY DEF TakeLock, Quiet, trees, local, fixed, history
  <1>3. LocksOK /\ Minds(p) /\ Holds(p) /\ Core
    BY <1>2, CalmMinds, TypeParts DEF IInv, Core, Held
  <1>4. After[pc[p]] \in Steps /\ pc'[p] = After[pc[p]] /\ pc'[p] \in Plain
    BY <1>1, <1>3, WaitsAre DEF Core, Goto, Plain, Steps
  <1>5. Says(p)'
    BY <1>4, PlainSaysNext
  <1>6. /\ lock'["lane"] = IF k = "lane" THEN p ELSE lock["lane"]
        /\ lock'["claims"] = IF k = "claims" THEN p ELSE lock["claims"]
        /\ lock'["recovery"] = lock["recovery"]
    BY <1>1, <1>3, WaitsAre DEF LocksOK, Locks
  <1>7. Holds(p)'
    <2>1. CASE pc[p] = "forceLock" /\ k = "claims"
      BY <1>1, <1>2, <1>3, <1>4, <1>6, <2>1, WaitsAre
         DEF Holds, Kind, LaneSteps, ClaimsSteps, TriggerSteps
    <2>2. CASE pc[p] = "releaseLock" /\ k = "claims"
      BY <1>1, <1>2, <1>3, <1>4, <1>6, <2>2, WaitsAre
         DEF Holds, Kind, LaneSteps, ClaimsSteps, TriggerSteps
    <2>3. CASE pc[p] = "attachLock" /\ k = "lane"
      BY <1>1, <1>2, <1>3, <1>4, <1>6, <2>3, WaitsAre
         DEF Holds, Kind, LaneSteps, ClaimsSteps, TriggerSteps
    <2>4. CASE pc[p] = "decideLock" /\ k = "lane"
      BY <1>1, <1>2, <1>3, <1>4, <1>6, <2>4, WaitsAre
         DEF Holds, Kind, LaneSteps, ClaimsSteps, TriggerSteps
    <2>5. CASE pc[p] = "recoverLock" /\ k = "lane"
      BY <1>1, <1>2, <1>3, <1>4, <1>6, <2>5, WaitsAre
         DEF Holds, Kind, LaneSteps, ClaimsSteps, TriggerSteps
    <2> QED
      BY <1>1, <2>1, <2>2, <2>3, <2>4, <2>5, WaitsAre
  <1>8. Core' /\ LocksOK'
    BY <1>1, <1>3, <1>4, <1>5, <1>7, Takes
  <1> QED
    BY <1>2, <1>8, QuietTypes DEF IInv

\* A wait for a lock is given up.
LEMMA LockBusyStep ==
    ASSUME IInv, NEW p \in Proc \ dead, LockBusy(p)
    PROVE  IInv'
  BY QuietEnds DEF LockBusy, Quiet

\* A process that dies no longer counts as the holder of its locks.
LEMMA DieStep ==
    ASSUME IInv, NEW p \in Proc, Die(p)
    PROVE  IInv'
  <1>1. dead' = dead \cup {p}
        /\ UNCHANGED <<wt, intent, disk, cool, at, how, op, saw, pc, lock, view, mode, corrupt>>
        /\ UNCHANGED <<hidden, adopted, meddled>>
        /\ UNCHANGED trees /\ UNCHANGED local
    BY DEF Die, trees, local, history
  <1>2. Held'
    BY <1>1 DEF IInv, Core, Held, Holds, Kind
  <1>3. \A q \in Proc \ dead' : Says(q)'
    <2>1. TAKE q \in Proc \ dead'
    <2>2. Says(q) /\ Live' = Live
      BY <1>1 DEF IInv, Core, Live
    <2> QED
      BY <1>1, <2>2 DEF Says, SaysOfLane, SaysOfIntent, SaysOfDisk, SaysOfTrigger, Actor, Kind
  <1>4. Core'
    BY <1>1, <1>2, <1>3 DEF IInv, Core
  <1>5. LocksOK'
    BY <1>1, TypeParts DEF IInv, LocksOK
  <1>6. TypeOK'
    BY <1>1, <1>5, TypeParts, TypeAssembles, SameTypes DEF IInv
  <1> QED
    BY <1>4, <1>6 DEF IInv

-----------------------------------------------------------------------------
(* Releases, detaches and recoveries *)

\* The snapshot of a release, and a release that no worktree of its own is in the way of.
LEMMA LookSteps ==
    ASSUME IInv, NEW p \in Proc \ dead, TakeSnapshot(p) \/ ReleaseFree(p)
    PROVE  IInv'
  <1>1. CASE TakeSnapshot(p)
    <2>1. /\ pc[p] = "looking" /\ saw' = [saw EXCEPT ![p] = [owners |-> OwnersOf(Main), active |-> Active]]
          /\ Finish(p) \/ (Goto(p, "decideLock") /\ lock' = lock)
          /\ UNCHANGED <<wt, intent, disk, cool, at, how, op, dead, hidden, meddled>>
          /\ view' = view /\ mode' = mode /\ corrupt' = corrupt /\ adopted' = adopted
      BY <1>1 DEF TakeSnapshot, At, trees, fixed, history
    <2>2. Minds(p) /\ Core /\ LocksOK /\ LocalOK
      BY <2>1, CalmMinds, TypeParts DEF IInv
    <2>3. ASSUME Finish(p)
          PROVE  Core'
      BY <2>2, <2>3, Ends DEF LocksOK
    <2>4. ASSUME Goto(p, "decideLock"), lock' = lock
          PROVE  Core'
      <3>1. pc'[p] = "decideLock" /\ Leads(p, "decideLock")
        BY <2>1, <2>2, <2>4 DEF Core, Goto, Leads, Steps, Plain, LaneSteps, ClaimsSteps, TriggerSteps
      <3>2. Says(p)'
        BY <3>1, PlainSaysNext DEF Plain
      <3> QED
        BY <2>1, <2>2, <2>4, <3>1, <3>2, GoesOn
    <2>5. LocalOK'
      <3>1. OwnersOf(Main) \subseteq Sid /\ Active \subseteq Sid
        BY DEF OwnersOf, SyncOwners, DefaultOwners, Active
      <3> QED
        BY <2>1, <2>2, <3>1 DEF LocalOK
    <2>6. TreesOK' /\ DiskOK' /\ LocksOK' /\ Core'
      <3>1. LocksOK'
        BY <2>1, <2>2, EndTypes
      <3> QED
        BY <2>1, <2>3, <2>4, <3>1, TypeParts DEF IInv, TreesOK, DiskOK
    <2> QED
      BY <2>1, <2>5, <2>6, LaneStepTypes DEF IInv
  <1>2. CASE ReleaseFree(p)
    <2>1. pc[p] = "deciding" /\ ~Own(p) /\ Goto(p, "releasing") /\ Quiet /\ lock' = lock
      BY <1>2 DEF ReleaseFree, Deciding, At
    <2>2. pc'[p] = "releasing" /\ Leads(p, "releasing")
      BY <2>1 DEF IInv, Core, Goto, Leads, Steps, LaneSteps, ClaimsSteps, TriggerSteps
    <2>3. \A a \in Live \ Foreign : wt[a].session = Actor(p) => \E f \in Live \cap Foreign : f < a
      <3>1. ASSUME NEW a \in Live \ Foreign, wt[a].session = Actor(p)
            PROVE  a # FirstLive
        BY <2>1, <3>1, FirstLiveIs DEF Own
      <3> QED
        BY <3>1, FirstLiveAlone DEF IInv, Core
    <2>4. Live' = Live /\ wt' = wt /\ Actor(p)' = Actor(p)
      BY <2>1 DEF Quiet, trees, local, Live, Actor
    <2>5. Says(p)'
      BY <2>2, <2>3, <2>4 DEF Says, SaysOfLane, SaysOfIntent, SaysOfDisk, SaysOfTrigger
    <2> QED
      BY <2>1, <2>2, <2>5, QuietGoes
  <1> QED
    BY <1>1, <1>2

\* A plain release takes on the worktree of its own session.
LEMMA ReconcileStep ==
    ASSUME IInv, NEW p \in Proc \ dead, ReleaseReconciles(p)
    PROVE  IInv'
  <1>1. /\ pc[p] = "deciding" /\ Goto(p, "finalizing") /\ lock' = lock
        /\ at' = [at EXCEPT ![p] = FirstLive] /\ FirstLive # NoTree
        /\ UNCHANGED <<wt, intent, disk, cool, how, op, saw, dead, hidden, meddled>>
        /\ view' = view /\ mode' = mode /\ corrupt' = corrupt /\ adopted' = adopted
    BY DEF ReleaseReconciles, Deciding, At, Own, trees, fixed, history
  <1>2. FirstLive \in Aid
    BY <1>1, FirstLiveIs DEF Live
  <1>3. LocalOK' /\ at'[p] \in Aid /\ \A q \in Proc : q # p => at'[q] = at[q]
    BY <1>1, <1>2, TypeParts DEF IInv, LocalOK
  <1>4. pc'[p] = "finalizing" /\ Leads(p, "finalizing")
    BY <1>1 DEF IInv, Core, Goto, Leads, Steps, LaneSteps, ClaimsSteps, TriggerSteps
  <1>5. Minds(p) /\ Says(p)'
    BY <1>1, <1>3, <1>4
       DEF Minds, IInv, Core, Says, SaysOfLane, SaysOfIntent, SaysOfDisk, SaysOfTrigger
  <1>6. Core'
    BY <1>1, <1>4, <1>5, GoesOn DEF IInv
  <1>7. TreesOK' /\ DiskOK' /\ LocksOK'
    BY <1>1, TypeParts DEF IInv, TreesOK, DiskOK, LocksOK
  <1> QED
    BY <1>1, <1>3, <1>6, <1>7, LaneStepTypes DEF IInv

\* A detach takes on the one live worktree, with the disposition it goes by.
LEMMA DisposeSteps ==
    ASSUME IInv, NEW p \in Proc \ dead, DisposeKept(p) \/ DisposeResumed(p) \/ DisposeFresh(p)
    PROVE  IInv'
  <1> DEFINE a == FirstLive
  <1>1. PICK d, next :
           /\ Disposing(p, d, next)
           /\ \/ d = "kept" /\ next = "ending"
              \/ next = "removing" /\ Candidate(a) /\ d = intent[a]
              \/ /\ Kind(p) # "kept" /\ d = Kind(p) /\ intent[a] = "none"
                 /\ next = IF wt[a].token THEN "intending" ELSE "removing"
    BY DEF DisposeKept, DisposeResumed, DisposeFresh
  <1>2. /\ pc[p] = "deciding" /\ Goto(p, next) /\ lock' = lock /\ Kind(p) \in Disposals
        /\ at' = [at EXCEPT ![p] = a] /\ how' = [how EXCEPT ![p] = d]
        /\ UNCHANGED <<wt, intent, disk, cool, op, saw, dead, hidden, meddled>>
        /\ view' = view /\ mode' = mode /\ corrupt' = corrupt /\ adopted' = adopted
    BY <1>1 DEF Disposing, Deciding, At, trees, fixed, history
  <1>3. Live = {a} /\ wt[a].origin = "local" /\ a \in Aid
    BY <1>1, DisposableIs DEF Disposing, Live
  <1>4. /\ d \in Disposals /\ next \in {"ending", "removing", "intending"}
        /\ next = "intending" => d \in {"merged", "abandoned"}
        /\ next = "removing" /\ wt[a].token => intent[a] # "none"
        /\ next \in {"removing", "ending"} /\ intent[a] \in {"merged", "abandoned"} =>
              d \in {intent[a], "kept"}
    BY <1>1, <1>2 DEF Candidate, Disposals
  <1>5. /\ LocalOK' /\ at'[p] = a /\ how'[p] = d
        /\ \A q \in Proc : q # p => at'[q] = at[q] /\ how'[q] = how[q]
    BY <1>2, <1>3, <1>4, TypeParts DEF IInv, LocalOK
  <1>6. pc'[p] = next /\ Leads(p, next)
    BY <1>2, <1>4 DEF IInv, Core, Goto, Leads, Steps, LaneSteps, ClaimsSteps, TriggerSteps
  <1>7. Says(p)'
    <2>1. Live' = Live /\ Kind(p)' = Kind(p)
      BY <1>2 DEF Live, Kind
    <2>2. SaysOfLane(p)'
      BY <1>2, <1>3, <1>4, <1>5, <1>6, <2>1 DEF SaysOfLane
    <2>3. SaysOfIntent(p)'
      BY <1>2, <1>4, <1>5, <1>6, <2>1 DEF SaysOfIntent, Disposals
    <2>4. SaysOfDisk(p)'
      BY <1>2, <1>4, <1>6, <2>1 DEF SaysOfDisk, Disposals
    <2>5. SaysOfTrigger(p)'
      BY <1>4, <1>6 DEF SaysOfTrigger
    <2> QED
      BY <2>2, <2>3, <2>4, <2>5 DEF Says
  <1>8. Core'
    BY <1>2, <1>5, <1>6, <1>7, GoesOn DEF Minds, IInv, Core
  <1>9. TreesOK' /\ DiskOK' /\ LocksOK'
    BY <1>2, TypeParts DEF IInv, TreesOK, DiskOK, LocksOK
  <1> QED
    BY <1>2, <1>5, <1>8, <1>9, LaneStepTypes DEF IInv

\* The intent, and the removal under it.
LEMMA RemoveSteps ==
    ASSUME IInv, NEW p \in Proc \ dead, AppendDetaching(p) \/ DetachRemoves(p)
    PROVE  IInv'
  <1>1. Says(p)
    BY DEF IInv, Core
  <1>2. CASE AppendDetaching(p)
    <2>1. /\ pc[p] = "intending" /\ Goto(p, "removing") /\ lock' = lock
          /\ WorktreeDetaching(at[p], how[p])
          /\ UNCHANGED <<disk, cool, op, at, how, saw, dead, hidden, meddled>>
          /\ view' = view /\ mode' = mode /\ corrupt' = corrupt /\ adopted' = adopted
      BY <1>2 DEF AppendDetaching, At, local, fixed, history
    <2>2. at[p] \in Live /\ wt[at[p]].origin = "local" /\ how[p] \in {"merged", "abandoned"}
      BY <1>1, <2>1 DEF Says, SaysOfLane, SaysOfIntent
    <2>3. TreesOK' /\ wt' = wt /\ intent'[at[p]] = how[p] /\ Live' = Live
      BY <2>1, <2>2, DetachTypes, TypeParts DEF IInv, WorktreeDetaching, TreesOK, Live
    <2>4. pc'[p] = "removing" /\ Leads(p, "removing") /\ pc[p] \in LaneSteps
      BY <2>1 DEF IInv, Core, Goto, Leads, Steps, LaneSteps, ClaimsSteps, TriggerSteps
    <2>5. Minds(p)
      BY <2>1, <2>3, <2>4 DEF Minds, IInv, Core
    <2>6. Says(p)'
      BY <1>1, <2>1, <2>2, <2>3, <2>4 DEF Says, SaysOfLane, SaysOfIntent, SaysOfDisk, SaysOfTrigger, Kind
    <2>7. Core'
      BY <2>1, <2>4, <2>5, <2>6, GoesOn DEF IInv
    <2>8. LocalOK' /\ DiskOK' /\ LocksOK'
      BY <2>1, TypeParts DEF IInv, LocalOK, DiskOK, LocksOK
    <2> QED
      BY <2>1, <2>3, <2>7, <2>8, LaneStepTypes DEF IInv
  <1>3. CASE DetachRemoves(p)
    <2>1. /\ pc[p] = "removing" /\ Quiet
          /\ \/ OnDisk = NoTree /\ Goto(p, "probing") /\ lock' = lock
             \/ /\ OnDisk # NoTree /\ (wt[at[p]].token => OnDisk = at[p])
                /\ Goto(p, "erasing") /\ lock' = lock
             \/ Finish(p)
      BY <1>3 DEF DetachRemoves, At
    <2>2. UNCHANGED <<wt, intent, disk, cool, at, how, op, hidden, meddled>> /\ Live' = Live
      BY <2>1 DEF Quiet, trees, local, history, Live
    <2>3. Kind(p) \in Disposals /\ Kind(p)' = Kind(p)
      BY <1>1, <2>1, <2>2 DEF Says, SaysOfIntent, Kind
    <2>4. CASE OnDisk = NoTree /\ Goto(p, "probing") /\ lock' = lock
      <3>1. pc'[p] = "probing" /\ Leads(p, "probing")
        BY <2>1, <2>4 DEF IInv, Core, Goto, Leads, Steps, LaneSteps, ClaimsSteps, TriggerSteps
      <3>2. Says(p)'
        BY <1>1, <2>1, <2>2, <2>3, <3>1
           DEF Says, SaysOfLane, SaysOfIntent, SaysOfDisk, SaysOfTrigger, Disposals
      <3> QED
        BY <2>1, <2>4, <3>1, <3>2, QuietGoes
    <2>5. CASE /\ OnDisk # NoTree /\ (wt[at[p]].token => OnDisk = at[p])
               /\ Goto(p, "erasing") /\ lock' = lock
      <3>1. pc'[p] = "erasing" /\ Leads(p, "erasing")
        BY <2>1, <2>5 DEF IInv, Core, Goto, Leads, Steps, LaneSteps, ClaimsSteps, TriggerSteps
      <3>2. ~hidden /\ disk = OnDisk
        BY <2>5 DEF OnDisk
      <3>3. Says(p)'
        BY <1>1, <2>1, <2>2, <2>3, <2>5, <3>1, <3>2
           DEF Says, SaysOfLane, SaysOfIntent, SaysOfDisk, SaysOfTrigger
      <3> QED
        BY <2>1, <2>5, <3>1, <3>3, QuietGoes
    <2> QED
      BY <2>1, <2>4, <2>5, QuietEnds
  <1> QED
    BY <1>2, <1>3

\* What is there by the time of the removal goes, and is gone when the end is recorded.
LEMMA EraseSteps ==
    ASSUME IInv, NEW p \in Proc \ dead, EraseCheckout(p) \/ ProbeGone(p)
    PROVE  IInv'
  <1>1. Says(p) /\ LocksOK
    BY TypeParts DEF IInv, Core
  <1>2. CASE EraseCheckout(p)
    <2>1. /\ pc[p] = "erasing" /\ pc[p] \in LaneSteps
          /\ \/ OnDisk = NoTree /\ disk' = disk /\ Goto(p, "probing") /\ lock' = lock
             \/ disk' = NoTree /\ Goto(p, "probing") /\ lock' = lock
             \/ disk' \in {disk, NoTree, Alien} /\ Finish(p)
          /\ UNCHANGED <<wt, intent, cool, op, at, how, saw, dead, hidden, meddled>>
          /\ view' = view /\ mode' = mode /\ corrupt' = corrupt /\ adopted' = adopted
          /\ trees' = trees /\ local' = local
      BY <1>2 DEF EraseCheckout, At, trees, local, fixed, history, LaneSteps
    <2>2. Minds(p)
      BY <2>1 DEF Minds, IInv, Core
    <2>3. ASSUME Goto(p, "probing"), lock' = lock, disk' = NoTree \/ (OnDisk = NoTree /\ disk' = disk)
          PROVE  Core'
      <3>1. pc'[p] = "probing" /\ Leads(p, "probing")
        BY <2>1, <2>3 DEF IInv, Core, Goto, Leads, Steps, LaneSteps, ClaimsSteps, TriggerSteps
      <3>2. at[p] \in Live /\ at[p] # NoTree /\ Live' = Live
        BY <1>1, <2>1, WorktreeAssumption DEF Says, SaysOfLane, Live, NoTree
      <3>3. SaysOfDisk(p)'
        BY <1>1, <2>1, <2>3, <3>1, <3>2 DEF Says, SaysOfDisk, OnDisk
      <3>4. SaysOfLane(p)' /\ SaysOfIntent(p)' /\ SaysOfTrigger(p)'
        BY <1>1, <2>1, <3>1, <3>2 DEF Says, SaysOfLane, SaysOfIntent, SaysOfTrigger
      <3> QED
        BY <2>1, <2>2, <2>3, <3>1, <3>3, <3>4, GoesOn DEF IInv, Says
    <2>4. ASSUME Finish(p)
          PROVE  Core'
      BY <1>1, <2>2, <2>4, Ends DEF IInv, LocksOK
    <2>5. LocksOK' /\ DiskOK'
      BY <1>1, <2>1, TypeParts, EndTypes DEF IInv, DiskOK
    <2> QED
      BY <2>1, <2>3, <2>4, <2>5, TypeParts, SameTypes, LaneStepTypes DEF IInv
  <1>3. CASE ProbeGone(p)
    <2>1. /\ pc[p] = "probing" /\ Quiet
          /\ Finish(p) \/ (Goto(p, "ending") /\ lock' = lock)
      BY <1>3 DEF ProbeGone, At, Quiet
    <2>2. UNCHANGED <<wt, intent, disk, cool, at, how, op, hidden, meddled>> /\ Live' = Live
      BY <2>1 DEF Quiet, trees, local, history, Live
    <2>3. CASE Goto(p, "ending") /\ lock' = lock
      <3>1. pc'[p] = "ending" /\ Leads(p, "ending")
        BY <2>1, <2>3 DEF IInv, Core, Goto, Leads, Steps, LaneSteps, ClaimsSteps, TriggerSteps
      <3>2. Says(p)'
        BY <1>1, <2>1, <2>2, <3>1 DEF Says, SaysOfLane, SaysOfIntent, SaysOfDisk, SaysOfTrigger, Kind
      <3> QED
        BY <2>1, <2>3, <3>1, <3>2, QuietGoes
    <2> QED
      BY <2>1, <2>3, QuietEnds
  <1> QED
    BY <1>2, <1>3

\* finalizeInLock goes on to remove what the intent names, by the intent.
LEMMA FinalizeStep ==
    ASSUME IInv, NEW p \in Proc \ dead, Finalize(p)
    PROVE  IInv'
  <1> DEFINE a == at[p]
  <1>1. /\ pc[p] = "finalizing" /\ pc[p] \in LaneSteps
        /\ UNCHANGED <<wt, intent, disk, cool, op, at, saw, dead, hidden, meddled>>
        /\ view' = view /\ mode' = mode /\ corrupt' = corrupt /\ adopted' = adopted
        /\ \/ /\ Candidate(a) /\ OnDisk = a /\ how' = [how EXCEPT ![p] = intent[a]]
              /\ Goto(p, "erasing") /\ lock' = lock
           \/ Finish(p) /\ how' = how
    BY DEF Finalize, At, trees, fixed, history, LaneSteps
  <1>2. a \in Aid /\ LocalOK /\ LocksOK
    BY <1>1, TypeParts DEF IInv, Core, Says, SaysOfLane
  <1>3. /\ LocalOK' /\ \A q \in Proc : q # p => how'[q] = how[q]
        /\ Candidate(a) /\ how' = [how EXCEPT ![p] = intent[a]] => how'[p] = intent[a]
    BY <1>1, <1>2 DEF LocalOK, Candidate, Disposals
  <1>4. Minds(p)
    BY <1>1, <1>3 DEF Minds, IInv, Core
  <1>5. ASSUME Finish(p)
        PROVE  Core'
    BY <1>2, <1>4, <1>5, Ends DEF IInv, LocksOK
  <1>6. ASSUME Candidate(a), OnDisk = a, how' = [how EXCEPT ![p] = intent[a]],
               Goto(p, "erasing"), lock' = lock
        PROVE  Core'
    <2>1. pc'[p] = "erasing" /\ Leads(p, "erasing")
      BY <1>1, <1>6 DEF IInv, Core, Goto, Leads, Steps, LaneSteps, ClaimsSteps, TriggerSteps
    <2>2. /\ Live' = {a} /\ wt'[a].origin = "local" /\ at'[p] = a /\ how'[p] = intent[a]
          /\ intent' = intent /\ intent[a] \in {"merged", "abandoned"}
      BY <1>1, <1>2, <1>3, <1>6 DEF Candidate, Live
    <2>3. ~hidden' /\ disk' = a
      BY <1>1, <1>2, <1>6, WorktreeAssumption DEF OnDisk, NoTree
    <2>4. Says(p)'
      BY <2>1, <2>2, <2>3 DEF Says, SaysOfLane, SaysOfIntent, SaysOfDisk, SaysOfTrigger
    <2> QED
      BY <1>1, <1>4, <1>6, <2>1, <2>4, GoesOn DEF IInv
  <1>7. TreesOK' /\ DiskOK' /\ LocksOK'
    BY <1>1, <1>2, TypeParts, EndTypes DEF IInv, TreesOK, DiskOK
  <1>8. Core'
    BY <1>1, <1>5, <1>6
  <1> QED
    BY <1>1, <1>3, <1>7, <1>8, LaneStepTypes DEF IInv

\* The terminal: the lane has no other worktree that was made here.
LEMMA DetachedStep ==
    ASSUME IInv, NEW p \in Proc \ dead, AppendDetached(p)
    PROVE  IInv'
  <1>1. /\ pc[p] = "ending" /\ pc[p] \in LaneSteps /\ WorktreeDetached(at[p], how[p])
        /\ UNCHANGED <<disk, cool, at, how, saw, dead, hidden, meddled>>
        /\ view' = view /\ mode' = mode /\ corrupt' = corrupt /\ adopted' = adopted
    BY DEF AppendDetached, At, fixed, history, LaneSteps
  <1>2. /\ op' = IF Kind(p) = "recover" THEN [op EXCEPT ![p].kind = "release"] ELSE op
        /\ \/ Finish(p)
           \/ Kind(p) = "recover" /\ Goto(p, "releaseLock") /\ lock' = Dropped(p, {"lane"})
           \/ Kind(p) # "recover" /\ Goto(p, "releasing") /\ lock' = lock
    BY DEF AppendDetached
  <1>3. /\ at[p] \in Live /\ wt[at[p]].origin = "local" /\ LocalOK /\ LocksOK /\ TreesOK
        /\ how[p] \in {"none", "orphaned"} \cup Disposals
        /\ OneLocal(wt) /\ ForeignMarked(wt) /\ Holds(p) /\ DiskOK
    BY <1>1, TypeParts DEF IInv, Core, Says, SaysOfLane, LocalOK, Held
  <1>4. /\ TreesOK' /\ OneLocal(wt') /\ ForeignMarked(wt') /\ Live' = Live \ {at[p]}
    BY <1>1, <1>3, EndedIs
  <1>5. Live' \subseteq Foreign
    BY <1>3, <1>4 DEF OneLocal, ForeignMarked, Live
  <1>6. /\ LocalOK' /\ \A q \in Proc : q # p => op'[q] = op[q]
        /\ Kind(p)' = IF Kind(p) = "recover" THEN "release" ELSE Kind(p)
    <2>1. op[p] \in Op /\ [op[p] EXCEPT !.kind = "release"] \in Op
          /\ [op[p] EXCEPT !.kind = "release"].kind = "release"
      BY <1>3 DEF LocalOK, Op, Kinds
    <2>2. op' = [op EXCEPT ![p] = IF Kind(p) = "recover" THEN [op[p] EXCEPT !.kind = "release"] ELSE @]
      BY <1>2, <1>3 DEF LocalOK
    <2> QED
      BY <1>1, <1>3, <2>1, <2>2 DEF LocalOK, Kind
  <1>7. Minds(p)
    BY <1>1, <1>4, <1>6 DEF Minds
  <1>8. ASSUME Finish(p)
        PROVE  Core' /\ LocksOK'
    BY <1>1, <1>3, <1>7, <1>8, Ends, EndTypes DEF IInv, LocksOK
  <1>9. ASSUME Kind(p) = "recover", Goto(p, "releaseLock"), lock' = Dropped(p, {"lane"})
        PROVE  Core' /\ LocksOK'
    <2>1. lock' = [k \in Locks |-> IF k = "lane" /\ lock[k] = p THEN Nobody ELSE lock[k]]
      BY <1>9 DEF Dropped
    <2>2. /\ LocksOK' /\ pc' \in [Proc -> Steps] /\ pc'[p] = "releaseLock"
          /\ \A q \in Proc : q # p => pc'[q] = pc[q]
      BY <1>1, <1>3, <1>9, <2>1 DEF IInv, Core, Goto, Steps, Plain, LocksOK
    <2>3. ASSUME NEW q \in Proc, q # p, NEW k \in Locks
          PROVE  lock'[k] = q <=> lock[k] = q
      BY <2>1, <2>3, WorktreeAssumption
    <2>4. Spares(p)
      BY <2>2, <2>3 DEF Spares
    <2>5. Holds(p)'
      <3>1. lock'["lane"] # p /\ lock'["claims"] = lock["claims"] /\ lock["claims"] # p
        BY <1>3, <1>9, <2>1, WorktreeAssumption DEF Locks, Holds
      <3> QED
        BY <1>6, <1>9, <2>2, <3>1 DEF Holds, LaneSteps, TriggerSteps
    <2>6. Says(p)'
      BY <2>2, PlainSaysNext DEF Plain
    <2> QED
      BY <1>7, <2>2, <2>4, <2>5, <2>6, OthersGoOn DEF IInv
  <1>10. ASSUME Kind(p) # "recover", Goto(p, "releasing"), lock' = lock
         PROVE  Core' /\ LocksOK'
    <2>1. pc'[p] = "releasing" /\ Leads(p, "releasing") /\ op' = op
      BY <1>1, <1>2, <1>10 DEF IInv, Core, Goto, Leads, Steps, LaneSteps, ClaimsSteps, TriggerSteps
    <2>2. Says(p)'
      BY <1>5, <2>1 DEF Says, SaysOfLane, SaysOfIntent, SaysOfDisk, SaysOfTrigger
    <2> QED
      BY <1>1, <1>3, <1>7, <1>10, <2>1, <2>2, GoesOn DEF IInv, LocksOK
  <1>11. DiskOK' /\ Core' /\ LocksOK'
    BY <1>1, <1>2, <1>3, <1>8, <1>9, <1>10 DEF DiskOK
  <1> QED
    BY <1>1, <1>4, <1>6, <1>11, LaneStepTypes DEF IInv

\* The release of the claim.
LEMMA ReleaseLaneStep ==
    ASSUME IInv, NEW p \in Proc \ dead, ReleaseLane(p)
    PROVE  IInv'
  <1>1. /\ Finish(p) /\ LaneReleased(Actor(p), Main) /\ UNCHANGED <<mode, corrupt>>
        /\ UNCHANGED <<wt, intent, disk, cool, at, how, op, dead, hidden, meddled>>
        /\ trees' = trees /\ local' = local /\ adopted' = adopted
    BY DEF ReleaseLane, trees, local, fixed, history
  <1>2. Actor(p) \in Sid \cup {Nobody}
    BY TypeParts DEF IInv, LocalOK, Op, Actor
  <1>3. ProjectionTypeOK'
    BY <1>1, <1>2, EventTypes, TypeParts DEF IInv
  <1>4. Core' /\ LocksOK'
    BY <1>1, CalmMinds, TypeParts, Ends, EndTypes DEF IInv, LocksOK
  <1>5. TypeOK'
    BY <1>1, <1>3, <1>4, TypeParts, TypeAssembles, SameTypes DEF IInv
  <1> QED
    BY <1>4, <1>5 DEF IInv

\* A sweep takes the recovery lock, then the lane lock of the one candidate it picks.
LEMMA SweepLockSteps ==
    ASSUME IInv, NEW p \in Proc \ dead, TakeRecovery(p) \/ Scan(p)
    PROVE  IInv'
  <1>1. Quiet /\ UNCHANGED <<wt, intent, disk, cool, at, how, op, dead, hidden, meddled>>
    BY DEF TakeRecovery, Scan, Quiet, trees, local, fixed, history
  <1>2. LocksOK /\ Minds(p) /\ Holds(p) /\ Says(p) /\ Core
    BY <1>1, CalmMinds, TypeParts DEF IInv, Core, Held
  <1>3. CASE Finish(p)
    BY <1>1, <1>3, QuietEnds
  <1>4. CASE pc[p] = "sweeping" /\ Free("recovery") /\ Goto(p, "gauntlet")
             /\ lock' = [lock EXCEPT !["recovery"] = p]
    <2>1. pc'[p] = "gauntlet" /\ "gauntlet" \in Steps /\ Says(p)'
      BY <1>2, <1>4, PlainSaysNext DEF Core, Goto, Steps, Plain
    <2>2. Holds(p)'
      BY <1>1, <1>2, <1>4, <2>1 DEF Holds, LocksOK, Locks, LaneSteps, ClaimsSteps, TriggerSteps
    <2>3. Core' /\ LocksOK'
      BY <1>2, <1>4, <2>1, <2>2, Takes DEF Locks
    <2> QED
      BY <1>1, <2>3, QuietTypes DEF IInv
  <1>5. CASE pc[p] = "scanning" /\ Free("lane") /\ Goto(p, "firing")
             /\ lock' = [lock EXCEPT !["lane"] = p]
    <2>1. pc'[p] = "firing" /\ "firing" \in Steps
      BY <1>2, <1>5 DEF Core, Goto, Steps, LaneSteps
    <2>2. Says(p)'
      BY <1>1, <1>2, <1>5, <2>1 DEF Says, SaysOfLane, SaysOfIntent, SaysOfDisk, SaysOfTrigger
    <2>3. Holds(p)'
      BY <1>1, <1>2, <1>5, <2>1 DEF Holds, LocksOK, Locks, LaneSteps, ClaimsSteps, TriggerSteps
    <2>4. Core' /\ LocksOK'
      BY <1>2, <1>5, <2>1, <2>2, <2>3, Takes DEF Locks
    <2> QED
      BY <1>1, <2>4, QuietTypes DEF IInv
  <1> QED
    BY <1>3, <1>4, <1>5 DEF TakeRecovery, Scan, At

\* The gauntlet, and the trigger after which nothing fires for the length of the cooldown.
LEMMA GauntletSteps ==
    ASSUME IInv, NEW p \in Proc \ dead, PassGauntlet(p) \/ FireTrigger(p)
    PROVE  IInv'
  <1>1. /\ UNCHANGED <<wt, intent, disk, op, how, saw, dead, hidden, meddled>>
        /\ view' = view /\ mode' = mode /\ corrupt' = corrupt /\ adopted' = adopted
    BY DEF PassGauntlet, FireTrigger, trees, local, fixed, history
  <1>2. LocalOK /\ LocksOK /\ Says(p) /\ Core
    BY TypeParts DEF IInv, Core
  <1>3. CASE PassGauntlet(p)
    <2>1. \/ Finish(p) /\ at' = at
          \/ \E a \in Aid : /\ pc[p] = "gauntlet" /\ Goto(p, "scanning") /\ lock' = lock /\ ~cool
                            /\ at' = [at EXCEPT ![p] = a]
      BY <1>3 DEF PassGauntlet, At
    <2>2. cool' = cool
      BY <1>3 DEF PassGauntlet
    <2>3. LocalOK' /\ (\A q \in Proc : q # p => at'[q] = at[q])
          /\ (Goto(p, "scanning") /\ ~Finish(p) => at'[p] \in Aid)
      BY <1>1, <1>2, <2>1 DEF LocalOK
    <2>4. Minds(p)
      BY <1>1, <2>2, <2>3 DEF Minds, IInv, Core
    <2>5. ASSUME Finish(p)
          PROVE  Core'
      BY <1>2, <2>4, <2>5, Ends DEF LocksOK
    <2>6. ASSUME NEW a \in Aid, pc[p] = "gauntlet", Goto(p, "scanning"), lock' = lock, ~cool,
                 at' = [at EXCEPT ![p] = a]
          PROVE  Core'
      <3>1. pc'[p] = "scanning" /\ Leads(p, "scanning") /\ at'[p] \in Aid
        BY <1>2, <2>6
           DEF Core, Goto, Leads, Steps, LaneSteps, ClaimsSteps, TriggerSteps, LocalOK
      <3>2. Says(p)'
        BY <2>2, <2>6, <3>1 DEF Says, SaysOfLane, SaysOfIntent, SaysOfDisk, SaysOfTrigger
      <3> QED
        BY <1>1, <1>2, <2>4, <2>6, <3>1, <3>2, GoesOn
    <2>7. TreesOK' /\ DiskOK' /\ LocksOK'
      BY <1>1, <1>2, <2>1, TypeParts, EndTypes DEF IInv, TreesOK, DiskOK
    <2> QED
      BY <1>1, <2>1, <2>3, <2>5, <2>6, <2>7, LaneStepTypes DEF IInv
  <1>4. CASE FireTrigger(p)
    <2>1. pc[p] = "firing" /\ Goto(p, "finalizing") /\ lock' = lock /\ at' = at
      BY <1>4 DEF FireTrigger, At, local
    <2>2. pc'[p] = "finalizing" /\ Leads(p, "finalizing")
      BY <1>2, <2>1 DEF Core, Goto, Leads, Steps, LaneSteps, ClaimsSteps, TriggerSteps
    <2>3. Minds(p)
      BY <1>1, <2>1 DEF Minds, IInv, Core
    <2>4. Says(p)'
      BY <1>2, <2>1, <2>2 DEF Says, SaysOfLane, SaysOfIntent, SaysOfDisk, SaysOfTrigger
    <2>5. Core'
      BY <1>1, <1>2, <2>1, <2>2, <2>3, <2>4, GoesOn
    <2>6. TreesOK' /\ LocalOK' /\ DiskOK' /\ LocksOK'
      BY <1>1, <2>1, TypeParts DEF IInv, TreesOK, LocalOK, DiskOK, LocksOK
    <2> QED
      BY <1>1, <2>5, <2>6, LaneStepTypes DEF IInv
  <1> QED
    BY <1>3, <1>4

\* recoverInLock: the operator's recovery ends the one live worktree of the lane.
LEMMA RecoverStep ==
    ASSUME IInv, NEW p \in Proc \ dead, Recover(p)
    PROVE  IInv'
  <1> DEFINE a == FirstLive
  <1>1. /\ pc[p] = "recovering" /\ pc[p] \in LaneSteps /\ ~Unrecoverable(p)
        /\ at' = [at EXCEPT ![p] = a]
        /\ UNCHANGED <<wt, intent, disk, cool, op, saw, dead, hidden, meddled>>
        /\ view' = view /\ mode' = mode /\ corrupt' = corrupt /\ adopted' = adopted
    BY DEF Recover, At, trees, fixed, history, LaneSteps
  <1>2. PICK d, next :
           /\ how' = [how EXCEPT ![p] = d] /\ Goto(p, next) /\ lock' = lock
           /\ d = "orphaned" \/ (Candidate(a) /\ d = intent[a])
           /\ next = "ending" \/ (next = "erasing" /\ Candidate(a) /\ OnDisk = a)
    BY DEF Recover
  <1>3. Live = {a} /\ wt[a].origin = "local" /\ a \in Aid /\ Kind(p) = "recover"
    BY <1>1, RecoverableIs DEF Live, IInv, Core, Held, Holds
  <1>4. /\ LocalOK' /\ at'[p] = a /\ how'[p] = d /\ LocksOK /\ Core
        /\ \A q \in Proc : q # p => at'[q] = at[q] /\ how'[q] = how[q]
    BY <1>1, <1>2, <1>3, TypeParts DEF IInv, LocalOK, Candidate, Disposals
  <1>5. Minds(p)
    BY <1>1, <1>4 DEF Minds, Core
  <1>6. pc'[p] = next /\ Leads(p, next)
    BY <1>1, <1>2, <1>4 DEF Core, Goto, Leads, Steps, LaneSteps, ClaimsSteps, TriggerSteps
  <1>7. Says(p)'
    <2>1. Live' = Live /\ Kind(p)' = "recover"
      BY <1>1, <1>3 DEF Live, Kind
    <2>2. next = "erasing" => ~hidden' /\ disk' = a /\ intent[a] \in {"merged", "abandoned"}
      BY <1>1, <1>2, <1>3, WorktreeAssumption DEF OnDisk, NoTree, Candidate
    <2>3. SaysOfLane(p)' /\ SaysOfTrigger(p)'
      BY <1>1, <1>2, <1>3, <1>4, <1>6, <2>1 DEF SaysOfLane, SaysOfTrigger
    <2>4. SaysOfIntent(p)'
      BY <1>1, <1>2, <1>4, <1>6, <2>1, <2>2 DEF SaysOfIntent
    <2>5. SaysOfDisk(p)'
      BY <1>1, <1>2, <1>4, <1>6, <2>1, <2>2 DEF SaysOfDisk
    <2> QED
      BY <2>3, <2>4, <2>5 DEF Says
  <1>8. Core'
    BY <1>1, <1>2, <1>4, <1>5, <1>6, <1>7, GoesOn
  <1>9. TreesOK' /\ DiskOK' /\ LocksOK'
    BY <1>1, <1>2, <1>4, TypeParts DEF IInv, TreesOK, DiskOK, LocksOK
  <1> QED
    BY <1>1, <1>4, <1>8, <1>9, LaneStepTypes DEF IInv

\* Every step of a release, a detach, a recovery and a sweep.
LEMMA DetachSteps ==
    ASSUME IInv, NEW p \in Proc \ dead, DetachStep(p)
    PROVE  IInv'
  <1>1. CASE ReleaseRefused(p) \/ DisposeRefused(p) \/ RecoverRefused(p)
    BY <1>1, QuietEnds DEF ReleaseRefused, DisposeRefused, RecoverRefused
  <1> QED
    BY <1>1, LookSteps, ReconcileStep, DisposeSteps, RemoveSteps, EraseSteps, FinalizeStep, DetachedStep,
       ReleaseLaneStep, SweepLockSteps, GauntletSteps, RecoverStep DEF DetachStep

-----------------------------------------------------------------------------
(* What happens outside of the calls *)

\* The calls go by none of the sessions, and by the disk only between a check of the token and the
\* removal; whoever is there when it changes is remembered.
LEMMA CoreStays ==
    ASSUME Core, UNCHANGED <<wt, intent, at, how, op, pc, lock, dead>>, cool' \in {cool, FALSE},
           \/ disk' = disk /\ (hidden' => hidden) /\ meddled' = meddled
           \/ disk' \in {disk, NoTree, Alien} /\ meddled' = meddled \cup Erasing
    PROVE  Core'
  <1>1. Held' /\ Live' = Live
    BY DEF Core, Held, Holds, Kind, Live
  <1>2. \A q \in Proc \ dead' : Says(q)'
    <2>1. TAKE q \in Proc \ dead'
    <2>2. Says(q)
      BY DEF Core
    <2>3. pc[q] \in {"probing", "ending"} => at[q] \notin {NoTree, Alien}
      BY <2>2, WorktreeAssumption DEF Says, SaysOfLane, Live, NoTree, Alien
    <2>4. SaysOfLane(q)'
      BY <1>1, <2>2 DEF Says, SaysOfLane, Actor
    <2>5. SaysOfIntent(q)'
      BY <2>2 DEF Says, SaysOfIntent, Kind
    <2>6. SaysOfDisk(q)'
      <3>1. q \in meddled => q \in meddled'
        OBVIOUS
      <3>2. CASE disk' = disk /\ (hidden' => hidden) /\ meddled' = meddled
        BY <2>2, <3>2 DEF Says, SaysOfDisk, Kind
      <3>3. CASE disk' \in {disk, NoTree, Alien} /\ meddled' = meddled \cup Erasing
        <4>1. pc[q] = "erasing" => q \in meddled'
          BY <3>3 DEF Erasing
        <4> QED
          BY <2>2, <2>3, <3>1, <3>3, <4>1 DEF Says, SaysOfDisk, Kind
      <3> QED
        BY <3>2, <3>3
    <2>7. SaysOfTrigger(q)'
      BY <2>2 DEF Says, SaysOfTrigger
    <2> QED
      BY <2>4, <2>5, <2>6, <2>7 DEF Says
  <1> QED
    BY <1>1, <1>2 DEF Core

\* A close, someone at the disk, an outage, the end of the cooldown, or nothing.
LEMMA WorldSteps ==
    ASSUME IInv, (\E s \in Sid : CloseSession(s)) \/ Tamper \/ Outage \/ CoolDown \/ UNCHANGED vars
    PROVE  IInv'
  <1>1. /\ UNCHANGED <<wt, intent, at, how, op, pc, lock, dead, mode, corrupt>>
        /\ disk' \in {disk, NoTree, Alien} /\ cool' \in {cool, FALSE}
        /\ trees' = trees /\ local' = local /\ adopted' = adopted
        /\ meddled' = meddled \/ meddled' = meddled \cup Erasing
    BY DEF CloseSession, Tamper, Outage, CoolDown, vars, trees, local, fixed, history
  <1>2. Core'
    <2>1. CASE Outage
      <3>1. \/ disk' = disk /\ hidden' = FALSE /\ meddled' = meddled
            \/ disk' = disk /\ meddled' = meddled \cup Erasing
        BY <2>1 DEF Outage
      <3> QED
        BY <1>1, <3>1, CoreStays DEF IInv
    <2>2. CASE Tamper
      BY <1>1, <2>2, CoreStays DEF IInv, Tamper
    <2>3. CASE (\E s \in Sid : CloseSession(s)) \/ CoolDown \/ UNCHANGED vars
      <3>1. disk' = disk /\ hidden' = hidden /\ meddled' = meddled
        BY <2>3 DEF CloseSession, CoolDown, vars, history
      <3> QED
        BY <1>1, <3>1, CoreStays DEF IInv
    <2> QED
      BY <2>1, <2>2, <2>3
  <1>3. ProjectionTypeOK'
    <2>1. CASE \E s \in Sid : CloseSession(s)
      BY <1>1, <2>1, EventTypes, TypeParts DEF CloseSession, IInv
    <2>2. CASE Tamper \/ Outage \/ CoolDown \/ UNCHANGED vars
      <3>1. view' = view
        BY <2>2 DEF Tamper, Outage, CoolDown, vars
      <3> QED
        BY <1>1, <3>1, SameTypes, TypeParts DEF IInv
    <2> QED
      BY <2>1, <2>2
  <1>4. DiskOK' /\ LocksOK' /\ HistoryOK'
    BY <1>1, TypeParts DEF IInv, DiskOK, LocksOK, HistoryOK, Erasing
  <1>5. TypeOK'
    BY <1>1, <1>3, <1>4, TypeParts, TypeAssembles, SameTypes DEF IInv
  <1> QED
    BY <1>2, <1>5 DEF IInv

\* What a pull brings is of another replica, and nothing that a call here is at work on.
LEMMA ImportStep ==
    ASSUME IInv, Import
    PROVE  IInv'
  <1>1. PICK a \in Foreign, s \in Sid, k \in {1, claimSeq + 1} :
           /\ wt[a].state = "none"
           /\ wt' = [wt EXCEPT ![a] = [state |-> "live", session |-> s, origin |-> "foreign",
                                       token |-> TRUE]]
           /\ \/ status' = [status EXCEPT ![s] = "active"] /\ rank' = [rank EXCEPT ![Main][s] = k]
              \/ status' = [status EXCEPT ![s] = "closed"] /\ rank' = rank
    BY DEF Import
  <1>2. /\ claimSeq' = claimSeq + 1
        /\ UNCHANGED <<stale, beat, claim, intent, disk, hidden, cool, op, at, how, saw, pc, lock, mode,
                       corrupt, dead, adopted, meddled>>
        /\ local' = local
    BY DEF Import, local, history
  <1>3. TreesOK /\ Core /\ a \in Aid
    BY TypeParts, WorktreeAssumption DEF IInv
  <1>4. /\ TreesOK' /\ wt'[a].state = "live" /\ wt'[a].origin = "foreign"
        /\ \A b \in Aid : b # a => wt'[b] = wt[b]
    BY <1>1, <1>2, <1>3 DEF TreesOK, Attachment, States, Disposals
  <1>5. Live' = Live \cup {a} /\ a \notin Live
    BY <1>1, <1>3, <1>4 DEF Live
  <1>6. OneLocal(wt') /\ ForeignMarked(wt')
    BY <1>3, <1>4, WorktreeAssumption DEF Core, OneLocal, ForeignMarked
  <1>7. Held'
    BY <1>2, <1>3 DEF Core, Held, Holds, Kind
  <1>8. \A q \in Proc \ dead' : Says(q)'
    <2>1. TAKE q \in Proc \ dead'
    <2>2. Says(q)
      BY <1>2, <1>3 DEF Core
    <2>3. pc[q] \in {"confirming", "orphaning", "intending", "removing", "erasing", "probing", "ending"} =>
             at[q] \in Live /\ wt'[at[q]] = wt[at[q]]
      BY <1>4, <1>5, <2>2 DEF Says, SaysOfLane, Live
    <2>4. SaysOfLane(q)'
      <3>1. ASSUME pc[q] = "releasing", NEW b \in Live' \ Foreign, wt'[b].session = Actor(q)
            PROVE  \E f \in Live' \cap Foreign : f < b
        <4>1. b # a /\ b \in Live \ Foreign /\ b \in Aid
          BY <1>5, <3>1 DEF Live
        <4>2. wt[b].session = Actor(q)
          BY <1>4, <3>1, <4>1
        <4> QED
          BY <1>5, <2>2, <3>1, <4>1, <4>2 DEF Says, SaysOfLane
      <3>2. Actor(q)' = Actor(q)
        BY <1>2 DEF Actor
      <3> QED
        BY <1>1, <1>2, <1>5, <2>2, <2>3, <3>1, <3>2 DEF Says, SaysOfLane
    <2>5. SaysOfIntent(q)'
      BY <1>2, <2>2, <2>3 DEF Says, SaysOfIntent, Kind
    <2>6. SaysOfDisk(q)'
      BY <1>2, <2>2, <2>3 DEF Says, SaysOfDisk, Kind
    <2>7. SaysOfTrigger(q)'
      BY <1>2, <2>2 DEF Says, SaysOfTrigger
    <2> QED
      BY <2>4, <2>5, <2>6, <2>7 DEF Says
  <1>9. Core'
    BY <1>2, <1>3, <1>6, <1>7, <1>8 DEF Core
  <1>10. ProjectionTypeOK'
    <2>1. ProjectionTypeOK /\ claimSeq \in Nat /\ k \in Nat /\ claimSeq + 1 \in Nat
      BY TypeParts DEF IInv, ProjectionTypeOK
    <2>2. rank' \in [Lane -> [Sid -> Nat]]
      <3>1. rank[Main] \in [Sid -> Nat] /\ [rank[Main] EXCEPT ![s] = k] \in [Sid -> Nat]
        BY <2>1, WorktreeAssumption DEF ProjectionTypeOK
      <3>2. rank' = rank \/ rank' = [rank EXCEPT ![Main] = [rank[Main] EXCEPT ![s] = k]]
        BY <1>1
      <3> QED
        BY <2>1, <3>1, <3>2 DEF ProjectionTypeOK
    <2>3. status' \in [Sid -> {"absent", "active", "closed"}]
      BY <1>1, <2>1 DEF ProjectionTypeOK
    <2> QED
      BY <1>2, <2>1, <2>2, <2>3 DEF ProjectionTypeOK
  <1>11. LocalOK' /\ DiskOK' /\ LocksOK' /\ HistoryOK'
    BY <1>2, TypeParts, SameTypes DEF IInv, DiskOK, LocksOK, HistoryOK
  <1> QED
    BY <1>4, <1>9, <1>10, <1>11, TypeAssembles DEF IInv

-----------------------------------------------------------------------------
(* The invariant *)

\* Every scene has the invariant.
LEMMA InitOK ==
    ASSUME Init
    PROVE  IInv
  <1>1. PICK sc \in Scenes : /\ op = sc.ops /\ status = sc.status /\ claim = sc.claim
                             /\ rank = sc.rank /\ mode = sc.mode /\ corrupt = sc.corrupt
                             /\ wt = sc.wt /\ intent = sc.intent /\ disk = sc.disk
    BY DEF Init
  <1>2. /\ claimSeq = 3 /\ stale = {} /\ beat = [s \in Sid |-> "fresh"] /\ cool = FALSE
        /\ pc = [p \in Proc |-> First(op[p])] /\ at = [p \in Proc |-> NoTree]
        /\ how = [p \in Proc |-> "none"] /\ saw = [p \in Proc |-> [owners |-> {}, active |-> {}]]
        /\ lock = [k \in Locks |-> Nobody] /\ dead = {} /\ adopted = {} /\ meddled = {}
    BY DEF Init
  <1>3. ProjectionTypeOK /\ TreesOK /\ LocalOK /\ DiskOK /\ LocksOK /\ HistoryOK
    <2>1. ProjectionTypeOK
      BY <1>1, <1>2, ScenesAssumption DEF ProjectionTypeOK
    <2>2. TreesOK /\ DiskOK
      BY <1>1, ScenesAssumption DEF TreesOK, DiskOK
    <2>3. LocalOK
      BY <1>1, <1>2, ScenesAssumption DEF LocalOK
    <2> QED
      BY <1>2, <2>1, <2>2, <2>3 DEF LocksOK, HistoryOK
  <1>4. \A p \in Proc :
           /\ pc[p] \in {"claiming", "forceLock", "recoverLock", "sweeping", "done", "releaseLock"}
           /\ pc[p] \in {"forceLock", "releaseLock"} => Kind(p) # "recover"
           /\ pc[p] = "recoverLock" => Kind(p) = "recover"
    BY <1>2 DEF First, Kind
  <1>5. \A p \in Proc, k \in Locks : lock[k] # p
    BY <1>2, WorktreeAssumption
  <1>6. pc \in [Proc -> Steps]
    BY <1>2, <1>4 DEF Steps, Plain
  <1>7. \A p \in Proc : Holds(p)
    BY <1>4, <1>5 DEF Holds, Locks, LaneSteps, TriggerSteps
  <1>8. \A p \in Proc : Says(p)
    BY <1>4, PlainSays DEF Plain
  <1>9. Core
    BY <1>1, <1>6, <1>7, <1>8, ScenesAssumption DEF Core, Held
  <1> QED
    BY <1>3, <1>9, TypeParts DEF IInv

\* Every step keeps the invariant.
LEMMA NextOK ==
    ASSUME IInv, [Next]_vars
    PROVE  IInv'
  <1>1. ASSUME NEW p \in Proc, Step(p)
        PROVE  IInv'
    <2>1. CASE p \in dead
      BY <1>1, <2>1
         DEF Step, At, TakeLock, LockBusy, StepFails, Die, AttachStep, ClaimRefused, ClaimLane,
             ForceRefused, PassPreflight, ForceClaim, CheckOwner, Reuse, AddWorktree, AddFails,
             MintInstance, MintFails, CheckOwnerAgain, AppendAttached, AppendOrphaned, Unwind,
             DetachStep, TakeSnapshot, ReleaseRefused, ReleaseFree, ReleaseReconciles,
             DisposeRefused, DisposeKept, DisposeResumed, DisposeFresh, Disposing, Deciding,
             AppendDetaching, DetachRemoves, Finalize, EraseCheckout, ProbeGone, AppendDetached, ReleaseLane, TakeRecovery,
             PassGauntlet, Scan, FireTrigger, RecoverRefused, Recover
    <2>2. CASE p \notin dead
      <3>1. CASE StepFails(p)
        BY <2>2, <3>1, QuietEnds DEF StepFails
      <3>2. CASE AttachStep(p) \/ DetachStep(p)
        BY <2>2, <3>2, AttachSteps, DetachSteps
      <3>3. CASE TakeLock(p) \/ LockBusy(p) \/ Die(p)
        BY <2>2, <3>3, TakeLockStep, LockBusyStep, DieStep
      <3> QED
        BY <1>1, <3>1, <3>2, <3>3 DEF Step
    <2> QED
      BY <2>1, <2>2
  <1> QED
    BY <1>1, WorldSteps, ImportStep DEF Next

\* The invariant holds of every state.
THEOREM Inductive == Spec => []IInv
  <1>1. Init => IInv
    BY InitOK
  <1>2. IInv /\ [Next]_vars => IInv'
    BY NextOK
  <1> QED
    BY <1>1, <1>2, PTL DEF Spec

-----------------------------------------------------------------------------
(* What follows from it *)

\* Every variable has its type.
THEOREM TypeCorrect == Spec => []TypeOK
  BY Inductive, PTL DEF IInv

\* The lane has at most one live worktree that was made here.
THEOREM OneEpochAlways == Spec => []OneEpoch
  <1>1. IInv => OneEpoch
    BY DEF IInv, Core, OneEpoch
  <1> QED
    BY <1>1, Inductive, PTL

\* A process about to record the end of an attachment is the one that may.
THEOREM TerminalOnceAlways == Spec => []TerminalOnce
  <1>1. IInv => TerminalOnce
    BY DEF IInv, Core, TerminalOnce, Recorded, Writing, Says, SaysOfLane, Live
  <1> QED
    BY <1>1, Inductive, PTL

\* No call here ends an attachment of another replica.
THEOREM ForeignKeptAlways == Spec => []ForeignKept
  <1>1. IInv => ForeignKept
    BY DEF IInv, Core, ForeignKept, Recorded, Writing, Says, SaysOfLane
  <1> QED
    BY <1>1, Inductive, PTL

\* A worktree ends the way its intent says.
THEOREM IntentDecidesAlways == Spec => []IntentDecides
  <1>1. IInv => IntentDecides
    BY DEF IInv, Core, IntentDecides, Writing, Says, SaysOfIntent
  <1> QED
    BY <1>1, Inductive, PTL

\* A sweep or a plain release has removed the checkout whose end it records, unless the path went out
\* of sight between its check of the token and its removal.
THEOREM AutoRemovesItselfAlways == Spec => []AutoRemovesItself
  <1>1. IInv => AutoRemovesItself
    BY DEF IInv, Core, AutoRemovesItself, Writing, Says, SaysOfDisk
  <1> QED
    BY <1>1, Inductive, PTL

\* The four together: whoever records the end of an attachment may.
THEOREM EndJustifiedAlways == Spec => []EndJustified
  BY TerminalOnceAlways, ForeignKeptAlways, AutoRemovesItselfAlways, IntentDecidesAlways, PTL
     DEF EndJustified

\* The recovery trigger does not fire within its cooldown.
THEOREM TriggerSpacedAlways == Spec => []TriggerSpaced
  <1>1. IInv => TriggerSpaced
    BY DEF IInv, Core, TriggerSpaced, Writing, Says, SaysOfTrigger
  <1> QED
    BY <1>1, Inductive, PTL

\* The wait for the claims lock is made with no lock, that for the lane lock with at most the claims
\* lock, and a holder of the lane lock waits for nothing: no ring can close.
THEOREM NoLockCycleAlways == Spec => []NoLockCycle
  <1>1. ASSUME Held, NEW S \in SUBSET (Proc \ dead), NEW p \in S, \A q \in S : Waiting(q, S)
        PROVE  FALSE
    <2>1. \A q \in S : Holds(q)
      BY <1>1 DEF Held
    <2>2. ASSUME NEW q \in S
          PROVE  lock["lane"] # q
      <3>1. PICK k \in Locks : pc[q] \in LockOf[k]
        BY <1>1 DEF Waiting
      <3>2. pc[q] \notin LaneSteps
        BY <3>1, WaitsAre DEF LaneSteps
      <3> QED
        BY <2>1, <3>2 DEF Holds
    <2>3. ASSUME NEW q \in S
          PROVE  pc[q] # "decideLock"
      <3>1. PICK k \in Locks : pc[q] \in LockOf[k] /\ lock[k] \in S
        BY <1>1 DEF Waiting
      <3>2. k # "lane"
        BY <2>2, <3>1
      <3> QED
        BY <3>1, <3>2, WaitsAre
    <2>4. PICK k \in Locks : pc[p] \in LockOf[k] /\ lock[k] \in S
      BY <1>1 DEF Waiting
    <2>5. k = "claims"
      BY <2>2, <2>4, WaitsAre
    <2> DEFINE r == lock["claims"]
    <2>6. r \in S /\ pc[r] \in ClaimsSteps
      BY <2>1, <2>4, <2>5 DEF Holds
    <2>7. PICK j \in Locks : pc[r] \in LockOf[j]
      BY <1>1, <2>6 DEF Waiting
    <2>8. pc[r] = "decideLock"
      BY <2>6, <2>7, WaitsAre DEF ClaimsSteps
    <2> QED
      BY <2>3, <2>6, <2>8
  <1>2. IInv => NoLockCycle
    BY <1>1 DEF IInv, Core, NoLockCycle
  <1> QED
    BY <1>2, Inductive, PTL

\* Only the process that takes a step moves, and a dead one does not.
LEMMA OneMoves ==
    ASSUME IInv, Next, NEW p \in Proc, pc'[p] # pc[p]
    PROVE  p \notin dead /\ Step(p)
  <1>1. PICK q \in Proc : Step(q)
    BY DEF Next, CloseSession, Tamper, Outage, Import, CoolDown, vars
  <1>2. q \notin dead /\ \E x : pc' = [pc EXCEPT ![q] = x]
    <2>1. CASE TakeLock(q) \/ LockBusy(q) \/ StepFails(q)
      BY <2>1 DEF TakeLock, LockBusy, StepFails, At, Goto, Finish
    <2>2. CASE Die(q)
      BY <2>2 DEF Die, IInv, Core
    <2>3. CASE AttachStep(q)
      BY <2>3
         DEF AttachStep, At, Goto, Finish, ClaimRefused, ClaimLane, ForceRefused, PassPreflight,
             ForceClaim, CheckOwner, Reuse, AddWorktree, AddFails, MintInstance, MintFails,
             CheckOwnerAgain, AppendAttached, AppendOrphaned, Unwind
    <2>4. CASE DetachStep(q)
      BY <2>4
         DEF DetachStep, At, Goto, Finish, TakeSnapshot, ReleaseRefused, ReleaseFree,
             ReleaseReconciles, DisposeRefused, DisposeKept, DisposeResumed, DisposeFresh,
             Disposing, Deciding, AppendDetaching, DetachRemoves, Finalize, EraseCheckout,
             ProbeGone, AppendDetached, ReleaseLane, TakeRecovery, PassGauntlet, Scan, FireTrigger,
             RecoverRefused, Recover
    <2> QED
      BY <1>1, <2>1, <2>2, <2>3, <2>4 DEF Step
  <1>3. q = p
    BY <1>2 DEF IInv, Core
  <1> QED
    BY <1>1, <1>2, <1>3

\* A session that gives up the lane leaves no worktree of its own behind.
THEOREM ReleaseLeavesNoWorktreeAlways == Spec => ReleaseLeavesNoWorktree
  <1>1. ASSUME IInv, Next, NEW p \in Proc, pc[p] = "releasing", pc'[p] = "done"
        PROVE  \A a \in Live \ Foreign : wt[a].session = Actor(p) => \E f \in Live \cap Foreign : f < a
    <2>1. p \notin dead
      BY <1>1, OneMoves
    <2> QED
      BY <1>1, <2>1 DEF IInv, Core, Says, SaysOfLane
  <1>2. IInv /\ [Next]_vars => [\A p \in Proc :
          pc[p] = "releasing" /\ pc'[p] = "done" =>
            \A a \in Live \ Foreign :
                wt[a].session = Actor(p) => \E f \in Live \cap Foreign : f < a]_lanes
    BY <1>1 DEF vars, view
  <1> QED
    BY <1>2, Inductive, PTL DEF Spec, ReleaseLeavesNoWorktree

\* A detach takes away only the checkout whose end is intended, or one put in its place between the
\* check of the token and the removal.
THEOREM RemovalIsIntendedAlways == Spec => RemovalIsIntended
  <1>1. ASSUME IInv, Next, disk' # disk, NEW p \in Proc, pc'[p] # pc[p]
        PROVE  \/ pc[p] \in {"reusing", "minting", "unwinding"}
               \/ at'[p] \in Aid /\ ~wt[at'[p]].token
               \/ disk \in Aid /\ intent[disk] # "none"
               \/ disk = Alien /\ p \in meddled
    <2>1. Step(p) /\ Says(p)
      BY <1>1, OneMoves DEF IInv, Core
    <2>2. CASE AttachStep(p)
      BY <1>1, <2>2
         DEF AttachStep, At, Quiet, ClaimRefused, ClaimLane, ForceRefused, PassPreflight,
             ForceClaim, CheckOwner, Reuse, AddWorktree, AddFails, MintInstance, MintFails,
             CheckOwnerAgain, AppendAttached, AppendOrphaned, Unwind
    <2>3. CASE EraseCheckout(p)
      <3>1. pc[p] = "erasing" /\ at' = at /\ disk # NoTree
        BY <1>1, <2>3 DEF EraseCheckout, At, local, OnDisk
      <3>2. /\ at[p] \in Aid
            /\ wt[at[p]].token => /\ intent[at[p]] # "none"
                                  /\ disk = at[p] \/ (disk = Alien /\ p \in meddled)
        BY <2>1, <3>1 DEF Says, SaysOfLane, SaysOfIntent, SaysOfDisk, Live
      <3> QED
        BY <3>1, <3>2
    <2>4. CASE TakeLock(p) \/ LockBusy(p) \/ StepFails(p) \/ Die(p)
      BY <1>1, <2>4 DEF TakeLock, LockBusy, StepFails, Die, Quiet
    <2>5. CASE DetachStep(p) /\ ~EraseCheckout(p)
      BY <1>1, <2>5
         DEF DetachStep, Quiet, TakeSnapshot, ReleaseRefused, ReleaseFree, ReleaseReconciles,
             DisposeRefused, DisposeKept, DisposeResumed, DisposeFresh, Disposing,
             AppendDetaching, DetachRemoves, Finalize, ProbeGone, AppendDetached, ReleaseLane,
             TakeRecovery, PassGauntlet, Scan, FireTrigger, RecoverRefused, Recover
    <2> QED
      BY <2>1, <2>2, <2>3, <2>4, <2>5 DEF Step
  <1>2. IInv /\ [Next]_vars => [\A p \in Proc :
          \/ pc'[p] = pc[p]
          \/ pc[p] \in {"reusing", "minting", "unwinding"}
          \/ at'[p] \in Aid /\ ~wt[at'[p]].token
          \/ disk \in Aid /\ intent[disk] # "none"
          \/ disk = Alien /\ p \in meddled]_disk
    BY <1>1 DEF vars
  <1> QED
    BY <1>2, Inductive, PTL DEF Spec, RemovalIsIntended

-----------------------------------------------------------------------------
(* Sessions at work: OtherActiveSpared rests on what a detach may still say of the sessions it saw  *)
(* active when it took its snapshot, after other processes have gone on.                            *)

\* The steps at which a process holds the claims lock, and at which an attach is under way.
UnderClaims == {"preflight", "forcing", "looking", "decideLock", "deciding"}
Attaching == {"owning", "attachLock", "reusing", "minting", "checking", "attaching"}
Snapshotted == {"decideLock", "deciding"}

Absent == {s \in Sid : status[s] = "absent"}

HoldsClaims(p) ==
    /\ pc[p] \in UnderClaims => lock["claims"] = p
    /\ pc[p] \in TriggerSteps \cup {"sweeping"} => Kind(p) = "sweep"

\* A session that attaches was active once; no pull brings it a second time.
ActorKnown(p) == pc[p] \in Attaching \cup {"forcing"} => Actor(p) \notin Absent

\* Whoever is active and has a worktree here, or may still get one, was active in the snapshot.
Seen(p) ==
    pc[p] \in Snapshotted =>
        /\ \A a \in Live : wt[a].origin = "local" /\ wt[a].session \in Active =>
              wt[a].session \in saw[p].active
        /\ \A q \in Proc \ dead : pc[q] \in Attaching /\ Actor(q) \in Active =>
              Actor(q) \in saw[p].active

\* What a process is about to end is its own, was intended, or is nobody's who is at work.
SparesOthers(p) ==
    /\ pc[p] \in {"confirming", "orphaning"} => wt[at[p]].session = Actor(p)
    /\ pc[p] = "finalizing" /\ Kind(p) # "sweep" =>
          at[p] \in Live /\ wt[at[p]].session = Actor(p)
    /\ pc[p] \in {"erasing", "probing", "ending"} /\ Kind(p) = "sweep" => intent[at[p]] # "none"
    /\ pc[p] \in {"intending", "removing", "erasing", "probing", "ending"} /\ Kind(p) # "sweep" =>
          wt[at[p]].session \notin Active \ {Actor(p)}

Meets(p) == HoldsClaims(p) /\ ActorKnown(p) /\ Seen(p) /\ SparesOthers(p)

Sparing == SessionsKnown(wt, status) /\ \A p \in Proc \ dead : Meets(p)

\* What a step of p leaves to the others: their calls, their positions and the claims lock.
KeepsToItself(p) ==
    /\ dead' = dead /\ status' = status
    /\ Actor(p)' = Actor(p)
    /\ \A q \in Proc \ {p} :
          pc'[q] = pc[q] /\ at'[q] = at[q] /\ op'[q] = op[q] /\ saw'[q] = saw[q]
    /\ \A q \in (Proc \ dead) \ {p} : lock'["claims"] = q <=> lock["claims"] = q

\* The end of an attachment leaves the others theirs, whatever p goes on to.
LEMMA DetachedToItself ==
    ASSUME IInv, NEW p \in Proc, AppendDetached(p)
    PROVE  KeepsToItself(p)
  <1>1. /\ pc \in [Proc -> Steps] /\ op \in [Proc -> Op] /\ lock \in [Locks -> Proc \cup {Nobody}]
    BY DEF IInv, Core, TypeOK
  <1>2. /\ dead' = dead /\ status' = status /\ at' = at /\ saw' = saw
        /\ op' = [op EXCEPT ![p].kind = "release"] \/ op' = op
    BY DEF AppendDetached, view, sessions, fixed, history
  <1>3. /\ Actor(p)' = Actor(p)
        /\ \A q \in Proc \ {p} : op'[q] = op[q]
    BY <1>1, <1>2 DEF Actor, Op
  <1>4. \/ Finish(p)
        \/ Goto(p, "releaseLock") /\ lock' = Dropped(p, {"lane"})
        \/ Goto(p, "releasing") /\ lock' = lock
    BY DEF AppendDetached
  <1>5. \A q \in Proc \ {p} : pc'[q] = pc[q]
    BY <1>1, <1>4 DEF Finish, Goto
  <1>6. \A q \in (Proc \ dead) \ {p} : lock'["claims"] = q <=> lock["claims"] = q
    BY <1>1, <1>4, WorktreeAssumption DEF Finish, Dropped, Locks
  <1> QED
    BY <1>2, <1>3, <1>5, <1>6 DEF KeepsToItself

\* Every step of a process does, except the end of it.
LEMMA StepsKeepToThemselves ==
    ASSUME IInv, NEW p \in Proc, TakeLock(p) \/ LockBusy(p) \/ StepFails(p) \/ AttachStep(p) \/ DetachStep(p)
    PROVE  KeepsToItself(p)
  <1>1. /\ pc \in [Proc -> Steps] /\ op \in [Proc -> Op] /\ lock \in [Locks -> Proc \cup {Nobody}]
        /\ at \in [Proc -> Aid \cup {NoTree}]
        /\ saw \in [Proc -> [owners : SUBSET Sid, active : SUBSET Sid]]
    BY DEF IInv, Core, TypeOK
  <1>2. \A k \in Locks : k = "claims" \/ k = "lane" \/ k = "recovery"
    BY DEF Locks
  <1>3. CASE TakeLock(p)
    BY <1>1, <1>3, WorktreeAssumption
       DEF TakeLock, Goto, Free, KeepsToItself, view, sessions, local, fixed, history, Actor, Locks
  <1>4. ASSUME Finish(p), dead' = dead, status' = status, local' = local
        PROVE  KeepsToItself(p)
    BY <1>1, <1>4, WorktreeAssumption DEF Finish, Goto, Dropped, KeepsToItself, local, Actor, Locks
  <1>5. CASE LockBusy(p) \/ StepFails(p)
    BY <1>4, <1>5 DEF LockBusy, StepFails, Quiet, view, sessions, fixed, history
  <1>6. CASE AttachStep(p)
    <2> USE <1>1 DEF At, Goto, Finish, Dropped, KeepsToItself, Actor, view, sessions, local, fixed, history, Locks
    <2>1. CASE ClaimRefused(p) \/ ClaimLane(p) \/ ForceRefused(p) \/ PassPreflight(p) \/ ForceClaim(p)
      BY <2>1, WorktreeAssumption
         DEF ClaimRefused, ClaimLane, ForceRefused, PassPreflight, ForceClaim, ClaimedAlone, Quiet
    <2>2. CASE CheckOwner(p) \/ Reuse(p) \/ AddWorktree(p) \/ AddFails(p) \/ MintInstance(p)
      BY <2>2, WorktreeAssumption DEF CheckOwner, Reuse, AddWorktree, AddFails, MintInstance, Quiet
    <2>3. CASE MintFails(p) \/ CheckOwnerAgain(p) \/ AppendAttached(p) \/ AppendOrphaned(p) \/ Unwind(p)
      BY <2>3, WorktreeAssumption
         DEF MintFails, CheckOwnerAgain, AppendAttached, AppendOrphaned, Unwind, Quiet
    <2> QED
      BY <1>6, <2>1, <2>2, <2>3 DEF AttachStep
  <1>7. CASE DetachStep(p)
    <2> USE <1>1 DEF At, Goto, Finish, Dropped, KeepsToItself, Actor, view, sessions, local, fixed, history, Locks
    <2>1. CASE TakeSnapshot(p) \/ ReleaseRefused(p) \/ ReleaseFree(p) \/ ReleaseReconciles(p)
      BY <2>1, WorktreeAssumption
         DEF TakeSnapshot, ReleaseRefused, ReleaseFree, ReleaseReconciles, Quiet, Deciding
    <2>2. CASE DisposeRefused(p) \/ DisposeKept(p) \/ DisposeResumed(p) \/ DisposeFresh(p)
      BY <2>2, WorktreeAssumption
         DEF DisposeRefused, DisposeKept, DisposeResumed, DisposeFresh, Quiet, Disposing, Deciding
    <2>3. CASE AppendDetaching(p) \/ DetachRemoves(p) \/ Finalize(p) \/ EraseCheckout(p) \/ ProbeGone(p)
      BY <2>3, WorktreeAssumption
         DEF AppendDetaching, DetachRemoves, Finalize, EraseCheckout, ProbeGone, Quiet
    <2>4. CASE AppendDetached(p)
      BY <2>4, DetachedToItself
    <2>5. CASE ReleaseLane(p) \/ TakeRecovery(p) \/ PassGauntlet(p) \/ Scan(p)
      BY <2>5, WorktreeAssumption DEF ReleaseLane, LaneReleased, TakeRecovery, PassGauntlet, Scan, Quiet
    <2>6. CASE FireTrigger(p) \/ RecoverRefused(p) \/ Recover(p)
      BY <2>6, WorktreeAssumption DEF FireTrigger, RecoverRefused, Recover, Quiet
    <2> QED
      BY <1>7, <2>1, <2>2, <2>3, <2>4, <2>5, <2>6 DEF DetachStep
  <1> QED
    BY <1>3, <1>5, <1>6, <1>7

\* Nobody but p is between its snapshot and its decision.
Unobserved(p) == \A q \in (Proc \ dead) \ {p} : pc[q] \notin Snapshotted

\* A step that leaves the attachments as they are, and starts no attach while a snapshot is in use.
LEMMA CalmSpares ==
    ASSUME IInv, Sparing, NEW p \in Proc \ dead, KeepsToItself(p), UNCHANGED <<wt, intent>>,
           pc'[p] \in Attaching => pc[p] \in Attaching \/ Unobserved(p),
           Meets(p)'
    PROVE  Sparing'
  <1>1. Live' = Live /\ Active' = Active /\ Absent' = Absent /\ dead' = dead
    BY DEF Live, Active, Absent, KeepsToItself
  <1>2. ASSUME NEW q \in Proc \ dead, q # p
        PROVE  Meets(q)'
    <2>1. /\ pc'[q] = pc[q] /\ at'[q] = at[q] /\ op'[q] = op[q] /\ saw'[q] = saw[q]
          /\ lock'["claims"] = q <=> lock["claims"] = q
          /\ Meets(q)
      BY <1>2 DEF KeepsToItself, Sparing
    <2>2. HoldsClaims(q)' /\ ActorKnown(q)' /\ SparesOthers(q)'
      BY <1>1, <2>1 DEF Meets, HoldsClaims, ActorKnown, SparesOthers, Kind, Actor
    <2>3. Seen(q)'
      <3>1. ASSUME NEW r \in Proc \ dead, pc[q] \in Snapshotted, pc'[r] \in Attaching, Actor(r)' \in Active
            PROVE  Actor(r)' \in saw[q].active
        <4>1. pc[r] \in Attaching /\ Actor(r)' = Actor(r)
          BY <1>2, <3>1 DEF KeepsToItself, Unobserved, Actor
        <4> QED
          BY <2>1, <3>1, <4>1 DEF Meets, Seen
      <3> QED
        BY <1>1, <2>1, <3>1 DEF Meets, Seen
    <2> QED
      BY <2>2, <2>3 DEF Meets
  <1>3. SessionsKnown(wt, status)'
    BY DEF Sparing, SessionsKnown, KeepsToItself
  <1> QED
    BY <1>1, <1>2, <1>3 DEF Sparing

\* At its end a process meets everything.
LEMMA DoneMeets ==
    ASSUME NEW p, pc'[p] \in {"done", "unwinding", "releasing"}
    PROVE  Meets(p)'
  BY DEF Meets, HoldsClaims, ActorKnown, Seen, SparesOthers, UnderClaims, Attaching, Snapshotted,
         TriggerSteps

\* A call that ends leaves no one less to spare.
LEMMA EndSpares ==
    ASSUME IInv, Sparing, NEW p \in Proc \ dead, KeepsToItself(p), Finish(p), UNCHANGED <<wt, intent>>
    PROVE  Sparing'
  <1>1. pc'[p] = "done"
    BY DEF Finish, Goto, IInv, Core
  <1> QED
    BY <1>1, DoneMeets, CalmSpares DEF Attaching

\* Under the lane lock an attachment may end, or one may be made by the session that attaches.
LEMMA LaneSpares ==
    ASSUME IInv, Sparing, NEW p \in Proc \ dead, KeepsToItself(p),
           pc[p] \in LaneSteps, pc'[p] \notin Attaching,
           \A a \in Live' : wt'[a].origin = "local" =>
              \/ a \in Live /\ wt[a].origin = "local" /\ wt'[a].session = wt[a].session
              \/ pc[p] = "attaching" /\ wt'[a].session = Actor(p),
           Meets(p)'
    PROVE  Sparing'
  <1>1. Active' = Active /\ Absent' = Absent /\ dead' = dead
    BY DEF Active, Absent, KeepsToItself
  <1>2. pc[p] = "attaching" => Actor(p) \notin Absent
    BY DEF Sparing, Meets, ActorKnown, Attaching
  <1>3. ASSUME NEW q \in Proc \ dead, q # p
        PROVE  Meets(q)'
    <2>1. /\ pc'[q] = pc[q] /\ at'[q] = at[q] /\ op'[q] = op[q] /\ saw'[q] = saw[q]
          /\ lock'["claims"] = q <=> lock["claims"] = q
          /\ Meets(q)
      BY <1>3 DEF KeepsToItself, Sparing
    <2>2. pc[q] \notin LaneSteps
      BY <1>3 DEF IInv, Core, Held, Holds
    <2>3. HoldsClaims(q)' /\ ActorKnown(q)'
      BY <1>1, <2>1 DEF Meets, HoldsClaims, ActorKnown, Kind, Actor
    <2>4. SparesOthers(q)'
      BY <2>1, <2>2 DEF SparesOthers, LaneSteps
    <2>5. Seen(q)'
      <3>1. ASSUME NEW r \in Proc \ dead, pc[q] \in Snapshotted, pc'[r] \in Attaching, Actor(r)' \in Active
            PROVE  Actor(r)' \in saw[q].active
        <4>1. pc[r] \in Attaching /\ Actor(r)' = Actor(r)
          BY <3>1 DEF KeepsToItself, Actor
        <4> QED
          BY <2>1, <3>1, <4>1 DEF Meets, Seen
      <3>2. ASSUME NEW a \in Live', pc[q] \in Snapshotted, wt'[a].origin = "local",
                   wt'[a].session \in Active
            PROVE  wt'[a].session \in saw[q].active
        <4>1. CASE a \in Live /\ wt[a].origin = "local" /\ wt'[a].session = wt[a].session
          BY <2>1, <3>2, <4>1 DEF Meets, Seen
        <4>2. CASE pc[p] = "attaching" /\ wt'[a].session = Actor(p)
          BY <2>1, <3>2, <4>2 DEF Meets, Seen, Attaching
        <4> QED
          BY <3>2, <4>1, <4>2
      <3> QED
        BY <1>1, <2>1, <3>1, <3>2 DEF Seen
    <2> QED
      BY <2>3, <2>4, <2>5 DEF Meets
  <1>4. SessionsKnown(wt, status)'
    <2>1. ASSUME NEW a \in Aid, wt'[a].state = "live", wt'[a].origin = "local"
          PROVE  wt'[a].session \notin Absent
      <3>1. a \in Live'
        BY <2>1 DEF Live
      <3>2. CASE a \in Live /\ wt[a].origin = "local" /\ wt'[a].session = wt[a].session
        BY <3>2 DEF Sparing, SessionsKnown, Live, Absent
      <3>3. CASE pc[p] = "attaching" /\ wt'[a].session = Actor(p)
        BY <1>2, <3>3
      <3> QED
        BY <2>1, <3>1, <3>2, <3>3
    <2> QED
      BY <1>1, <2>1 DEF SessionsKnown, Absent
  <1> QED
    BY <1>1, <1>3, <1>4 DEF Sparing

\* While p has the claims lock, or nobody alive has it, nobody else uses a snapshot.
LEMMA NobodyLooks ==
    ASSUME Sparing, NEW p \in Proc \ dead,
           lock["claims"] = p \/ Free("claims")
    PROVE  Unobserved(p)
  <1>1. SUFFICES ASSUME NEW q \in (Proc \ dead) \ {p}, pc[q] \in Snapshotted
                 PROVE  FALSE
    BY DEF Unobserved
  <1>2. lock["claims"] = q
    BY <1>1 DEF Sparing, Meets, HoldsClaims, Snapshotted, UnderClaims
  <1> QED
    BY <1>1, <1>2, WorktreeAssumption DEF Free

\* The steps that take a lock.
LEMMA LockSpares ==
    ASSUME IInv, Sparing, NEW p \in Proc \ dead, TakeLock(p)
    PROVE  Sparing'
  <1>1. PICK k \in Locks : /\ pc[p] \in LockOf[k] /\ lock' = [lock EXCEPT ![k] = p]
                           /\ pc' = [pc EXCEPT ![p] = After[pc[p]]]
                           /\ UNCHANGED <<wt, intent, at, op, saw, dead>> /\ status' = status
    BY DEF TakeLock, Goto, view, sessions, trees, local, fixed, history
  <1>2. KeepsToItself(p) /\ Meets(p)
    BY StepsKeepToThemselves DEF Sparing
  <1>3. pc'[p] = After[pc[p]] /\ lock'[k] = p /\ \A j \in Locks : j # k => lock'[j] = lock[j]
    BY <1>1 DEF IInv, Core, TypeOK
  <1>4. \/ k = "claims" /\ pc[p] = "forceLock"   /\ After[pc[p]] = "preflight"
        \/ k = "claims" /\ pc[p] = "releaseLock" /\ After[pc[p]] = "looking"
        \/ k = "lane"   /\ pc[p] = "attachLock"  /\ After[pc[p]] = "reusing"
        \/ k = "lane"   /\ pc[p] = "decideLock"  /\ After[pc[p]] = "deciding"
        \/ k = "lane"   /\ pc[p] = "recoverLock" /\ After[pc[p]] = "recovering"
    <2>1. pc[p] \in LockOf[k]
      BY <1>1
    <2> QED
      BY <2>1, WaitsAre, Zenon
  <1>5. CASE pc[p] = "decideLock"
    <2>1. pc'[p] = "deciding" /\ lock'["claims"] = lock["claims"] /\ lock["claims"] = p
      BY <1>2, <1>3, <1>4, <1>5 DEF Locks, Meets, HoldsClaims, UnderClaims
    <2>2. Seen(p)'
      <3>1. Live' = Live /\ Active' = Active
        BY <1>1 DEF Live, Active
      <3>2. \A q \in Proc \ dead : pc'[q] \in Attaching => pc[q] \in Attaching
        BY <1>2, <2>1 DEF KeepsToItself, Attaching
      <3> QED
        BY <1>1, <1>2, <1>5, <3>1, <3>2 DEF Meets, Seen, Snapshotted, Actor
    <2>3. Meets(p)'
      BY <2>1, <2>2 DEF Meets, HoldsClaims, ActorKnown, SparesOthers, Attaching, TriggerSteps
    <2> QED
      BY <1>1, <1>2, <2>1, <2>3, CalmSpares DEF Attaching
  <1>6. CASE pc[p] # "decideLock"
    <2>1. pc'[p] \in {"preflight", "looking", "reusing", "recovering"}
      BY <1>3, <1>4, <1>6
    <2>2. pc'[p] \in {"preflight", "looking"} => lock'["claims"] = p
      BY <1>3, <1>4, <1>6
    <2>3. pc'[p] = "reusing" => pc[p] = "attachLock"
      BY <1>3, <1>4, <1>6
    <2>4. ActorKnown(p)'
      <3>1. Absent' = Absent /\ Actor(p)' = Actor(p)
        BY <1>1 DEF Absent, Actor
      <3> QED
        BY <1>2, <2>1, <2>3, <3>1 DEF Meets, ActorKnown, Attaching
    <2>5. Meets(p)'
      BY <2>1, <2>2, <2>4 DEF Meets, HoldsClaims, Seen, SparesOthers, Snapshotted, TriggerSteps, UnderClaims
    <2> QED
      BY <1>1, <1>2, <2>1, <2>3, <2>5, CalmSpares DEF Attaching
  <1> QED
    BY <1>5, <1>6

\* The steps of a claim and of an attach.
LEMMA AttachSpares ==
    ASSUME IInv, Sparing, NEW p \in Proc \ dead, AttachStep(p)
    PROVE  Sparing'
  <1>1. /\ pc \in [Proc -> Steps] /\ op \in [Proc -> Op] /\ at \in [Proc -> Aid \cup {NoTree}]
        /\ wt \in [Aid -> Attachment]
    BY DEF IInv, Core, TypeOK
  <1>2. KeepsToItself(p) /\ Meets(p) /\ Says(p)
    BY StepsKeepToThemselves DEF Sparing, IInv, Core
  <1>3. Active' = Active /\ Absent' = Absent /\ Actor(p)' = Actor(p)
    BY <1>2 DEF KeepsToItself, Active, Absent
  <1>4. Active \cap Absent = {}
    BY DEF Active, Absent
  <1> DEFINE Calm == UNCHANGED <<wt, intent, at, op>>
  <1>5. CASE ClaimRefused(p) \/ ForceRefused(p) \/ Reuse(p) \/ AddFails(p) \/ Unwind(p)
    <2>1. Finish(p) /\ UNCHANGED <<wt, intent>>
      BY <1>5 DEF ClaimRefused, ForceRefused, Reuse, AddFails, Unwind, Quiet, trees
    <2> QED
      BY <1>2, <2>1, EndSpares
  <1>6. CASE ClaimLane(p)
    <2>1. /\ Free("claims") /\ Actor(p) \in Active /\ pc'[p] = "owning" /\ Calm
      BY <1>1, <1>6 DEF ClaimLane, Goto, trees, local
    <2>2. Meets(p)'
      BY <1>3, <1>4, <2>1 DEF Meets, HoldsClaims, ActorKnown, Seen, SparesOthers, UnderClaims,
                             Attaching, Snapshotted, TriggerSteps
    <2>3. Unobserved(p)
      BY <2>1, NobodyLooks
    <2> QED
      BY <1>2, <2>1, <2>2, <2>3, CalmSpares
  <1>7. CASE PassPreflight(p)
    <2>1. /\ Actor(p) \in Active /\ pc[p] = "preflight" /\ pc'[p] = "forcing" /\ Calm /\ lock' = lock
      BY <1>1, <1>7 DEF PassPreflight, Goto, At, Quiet, trees, local
    <2>2. Meets(p)'
      BY <1>2, <1>3, <1>4, <2>1 DEF Meets, HoldsClaims, ActorKnown, Seen, SparesOthers, UnderClaims,
                                    Attaching, Snapshotted, TriggerSteps
    <2> QED
      BY <1>2, <2>1, <2>2, CalmSpares DEF Attaching
  <1>8. CASE ForceClaim(p)
    <2>1. /\ pc[p] = "forcing" /\ pc'[p] \in {"done", "owning"} /\ Calm
      BY <1>1, <1>8 DEF ForceClaim, Goto, At, trees, local
    <2>2. lock["claims"] = p /\ Actor(p) \notin Absent
      BY <1>2, <2>1 DEF Meets, HoldsClaims, ActorKnown, UnderClaims
    <2>3. Meets(p)'
      BY <1>3, <2>1, <2>2 DEF Meets, HoldsClaims, ActorKnown, Seen, SparesOthers, UnderClaims,
                             Attaching, Snapshotted, TriggerSteps
    <2>4. Unobserved(p)
      BY <2>2, NobodyLooks
    <2> QED
      BY <1>2, <2>1, <2>3, <2>4, CalmSpares
  <1>9. ASSUME Calm, pc[p] \in Attaching,
               pc'[p] \in {"done", "attachLock", "minting", "attaching", "unwinding"}
        PROVE  Sparing'
    <2>1. Meets(p)'
      BY <1>2, <1>3, <1>9 DEF Meets, HoldsClaims, ActorKnown, Seen, SparesOthers, UnderClaims,
                             Attaching, Snapshotted, TriggerSteps
    <2> QED
      BY <1>2, <1>9, <2>1, CalmSpares
  <1>10. CASE CheckOwner(p) \/ AddWorktree(p) \/ MintFails(p)
    <2>1. Calm /\ pc[p] \in Attaching /\ pc'[p] \in {"done", "attachLock", "minting", "unwinding"}
      BY <1>1, <1>10 DEF CheckOwner, AddWorktree, MintFails, Goto, Finish, At, Quiet, trees, local,
                         Attaching
    <2> QED
      BY <1>9, <2>1
  <1>11. CASE MintInstance(p)
    <2>1. /\ pc[p] = "minting" /\ pc'[p] = "checking" /\ UNCHANGED <<wt, intent, op>>
      BY <1>1, <1>11 DEF MintInstance, Goto, At, trees
    <2>2. Meets(p)'
      BY <1>2, <1>3, <2>1 DEF Meets, HoldsClaims, ActorKnown, Seen, SparesOthers, UnderClaims,
                             Attaching, Snapshotted, TriggerSteps
    <2> QED
      BY <1>2, <2>1, <2>2, CalmSpares DEF Attaching
  <1>12. CASE CheckOwnerAgain(p)
    <2>1. /\ Calm
          /\ \/ pc[p] = "checking" /\ pc'[p] \in {"attaching", "unwinding"}
             \/ pc[p] = "confirming" /\ Finish(p)
             \/ pc[p] = "confirming" /\ pc'[p] = "orphaning"
      BY <1>1, <1>12 DEF CheckOwnerAgain, Goto, At, Quiet, trees, local
    <2>2. CASE pc[p] = "checking" /\ pc'[p] \in {"attaching", "unwinding"}
      BY <1>9, <2>1, <2>2 DEF Attaching
    <2>3. CASE pc[p] = "confirming" /\ Finish(p)
      BY <1>2, <2>1, <2>3, EndSpares
    <2>4. CASE pc[p] = "confirming" /\ pc'[p] = "orphaning"
      <3>1. Meets(p)'
        BY <1>2, <1>3, <2>1, <2>4
           DEF Meets, HoldsClaims, ActorKnown, Seen, SparesOthers, UnderClaims, Attaching,
               Snapshotted, TriggerSteps
      <3> QED
        BY <1>2, <2>1, <2>4, <3>1, CalmSpares DEF Attaching
    <2> QED
      BY <2>1, <2>2, <2>3, <2>4
  <1>13. CASE AppendAttached(p)
    <2>1. /\ pc[p] = "attaching" /\ pc'[p] = "confirming" /\ at' = at /\ op' = op
          /\ wt' = [wt EXCEPT ![at[p]] = [state |-> "live", session |-> Actor(p),
                                          origin |-> "local", token |-> TRUE]]
      BY <1>1, <1>13 DEF AppendAttached, WorktreeAttached, Goto, At, local
    <2>2. at[p] \in Aid /\ wt'[at[p]].session = Actor(p)
          /\ \A a \in Aid : a # at[p] => wt'[a] = wt[a]
      BY <1>1, <1>2, <2>1, LocalAssumption DEF Says, SaysOfLane
    <2>3. Meets(p)'
      BY <1>3, <2>1, <2>2 DEF Meets, HoldsClaims, ActorKnown, Seen, SparesOthers, UnderClaims,
                             Attaching, Snapshotted, TriggerSteps
    <2> QED
      BY <1>2, <2>1, <2>2, <2>3, LaneSpares DEF Attaching, LaneSteps, Live
  <1>14. CASE AppendOrphaned(p)
    <2>1. /\ pc[p] = "orphaning" /\ pc'[p] = "unwinding"
          /\ wt' = [wt EXCEPT ![at[p]].state = "orphaned"]
      BY <1>1, <1>14 DEF AppendOrphaned, WorktreeDetached, Goto, At, local
    <2>2. \A a \in Live' : a \in Live /\ wt'[a] = wt[a]
      BY <1>1, <2>1 DEF Live, Attachment
    <2> QED
      BY <1>2, <2>1, <2>2, DoneMeets, LaneSpares DEF Attaching, LaneSteps
  <1> QED
    BY <1>5, <1>6, <1>7, <1>8, <1>10, <1>11, <1>12, <1>13, <1>14 DEF AttachStep

\* What is about to be disposed of is the caller's, or of a session that has ended: one that is
\* active and has a worktree here was in the snapshot, and would have been in the way.
LEMMA DisposesOfEnded ==
    ASSUME Sparing, NEW p \in Proc \ dead, pc[p] = "deciding", ~Undisposable(p)
    PROVE  wt[FirstLive].session \notin Active \ {Actor(p)}
  <1>1. Live = {FirstLive} /\ wt[FirstLive].origin = "local" /\ ~OwnedByOther(p)
    BY DEF Undisposable
  <1>2. FirstLive # NoTree
    BY <1>1, FirstLiveIs
  <1>3. wt[FirstLive].session \in Active => wt[FirstLive].session \in saw[p].active
    BY <1>1 DEF Sparing, Meets, Seen, Snapshotted
  <1> QED
    BY <1>1, <1>2, <1>3 DEF OwnedByOther

\* The steps of a release, of a recovery and of a sweep.
LEMMA DetachSpares ==
    ASSUME IInv, Sparing, NEW p \in Proc \ dead, DetachStep(p)
    PROVE  Sparing'
  <1>1. /\ pc \in [Proc -> Steps] /\ op \in [Proc -> Op] /\ at \in [Proc -> Aid \cup {NoTree}]
        /\ saw \in [Proc -> [owners : SUBSET Sid, active : SUBSET Sid]]
        /\ wt \in [Aid -> Attachment]
        /\ intent \in [Aid -> {"none", "invalid", "merged", "abandoned"}]
    BY DEF IInv, Core, TypeOK
  <1>2. KeepsToItself(p) /\ Meets(p) /\ Says(p)
    BY StepsKeepToThemselves DEF Sparing, IInv, Core
  <1>3. Active' = Active /\ Absent' = Absent /\ Actor(p)' = Actor(p)
    BY <1>2 DEF KeepsToItself, Active, Absent
  <1> DEFINE Trees == UNCHANGED <<wt, intent>>
  <1>4. CASE ReleaseRefused(p) \/ DisposeRefused(p) \/ RecoverRefused(p) \/ ReleaseLane(p)
    <2>1. Finish(p) /\ Trees
      BY <1>4 DEF ReleaseRefused, DisposeRefused, RecoverRefused, ReleaseLane, Quiet, trees
    <2> QED
      BY <1>2, <2>1, EndSpares
  <1>5. CASE TakeSnapshot(p)
    <2>1. /\ Trees /\ pc[p] = "looking" /\ saw'[p].active = Active
          /\ Finish(p) \/ (pc'[p] = "decideLock" /\ lock' = lock)
      BY <1>1, <1>5 DEF TakeSnapshot, At, Goto, trees
    <2>2. CASE pc'[p] = "decideLock" /\ lock' = lock
      <3>1. Meets(p)'
        BY <1>2, <1>3, <2>1, <2>2
           DEF Meets, HoldsClaims, ActorKnown, Seen, SparesOthers, UnderClaims, Attaching,
               TriggerSteps
      <3> QED
        BY <1>2, <2>1, <2>2, <3>1, CalmSpares DEF Attaching
    <2> QED
      BY <1>2, <2>1, <2>2, EndSpares
  <1>6. CASE ReleaseFree(p)
    <2>1. Trees /\ pc'[p] = "releasing"
      BY <1>1, <1>6 DEF ReleaseFree, Goto, Quiet, trees
    <2> QED
      BY <1>2, <2>1, DoneMeets, CalmSpares DEF Attaching
  <1>7. CASE ReleaseReconciles(p)
    <2>1. /\ Trees /\ pc'[p] = "finalizing" /\ at'[p] = FirstLive
          /\ FirstLive # NoTree /\ wt[FirstLive].session = Actor(p)
      BY <1>1, <1>7 DEF ReleaseReconciles, Goto, trees, Own
    <2>2. FirstLive \in Live /\ Live' = Live
      BY <2>1, FirstLiveIs DEF Live
    <2>3. Meets(p)'
      BY <1>3, <2>1, <2>2 DEF Meets, HoldsClaims, ActorKnown, Seen, SparesOthers, UnderClaims,
                             Attaching, Snapshotted, TriggerSteps
    <2> QED
      BY <1>2, <2>1, <2>3, CalmSpares DEF Attaching
  <1>8. CASE DisposeKept(p) \/ DisposeResumed(p) \/ DisposeFresh(p)
    <2>1. ASSUME NEW d, NEW next \in {"ending", "removing", "intending"}, Disposing(p, d, next)
          PROVE  /\ Trees /\ pc[p] = "deciding" /\ Kind(p) \in Disposals /\ ~Undisposable(p)
                 /\ pc'[p] \in {"ending", "removing", "intending"}
                 /\ at'[p] = FirstLive /\ op' = op
      BY <1>1, <2>1 DEF Disposing, Deciding, At, Goto, trees
    <2>2. /\ Trees /\ pc[p] = "deciding" /\ Kind(p) \in Disposals /\ ~Undisposable(p)
          /\ pc'[p] \in {"ending", "removing", "intending"}
          /\ at'[p] = FirstLive /\ op' = op
      <3>1. CASE DisposeKept(p)
        BY <2>1, <3>1 DEF DisposeKept
      <3>2. CASE DisposeResumed(p)
        BY <2>1, <3>2 DEF DisposeResumed
      <3>3. CASE DisposeFresh(p)
        BY <2>1, <3>3 DEF DisposeFresh
      <3> QED
        BY <1>8, <3>1, <3>2, <3>3
    <2>3. wt[FirstLive].session \notin Active \ {Actor(p)}
      BY <2>2, DisposesOfEnded
    <2>4. Kind(p)' # "sweep"
      BY <2>2 DEF Kind, Disposals
    <2>5. Meets(p)'
      BY <1>3, <2>1, <2>2, <2>3, <2>4
         DEF Meets, HoldsClaims, ActorKnown, Seen, SparesOthers, UnderClaims, Attaching,
             Snapshotted, TriggerSteps
    <2> QED
      BY <1>2, <2>1, <2>2, <2>5, CalmSpares DEF Attaching
  <1>9. CASE AppendDetaching(p)
    <2>1. /\ pc[p] = "intending" /\ pc'[p] = "removing" /\ wt' = wt /\ at' = at /\ op' = op
      BY <1>1, <1>9 DEF AppendDetaching, WorktreeDetaching, Goto, At, local
    <2>2. Kind(p) # "sweep"
      BY <1>2, <2>1 DEF Says, SaysOfIntent, Disposals
    <2>3. Meets(p)'
      BY <1>2, <1>3, <2>1, <2>2
         DEF Meets, HoldsClaims, ActorKnown, Seen, SparesOthers, UnderClaims, Attaching,
             Snapshotted, TriggerSteps, Kind
    <2> QED
      BY <1>2, <2>1, <2>3, LaneSpares DEF Attaching, LaneSteps, Live
  <1>10. CASE DetachRemoves(p) \/ EraseCheckout(p) \/ ProbeGone(p)
    <2>1. /\ Trees /\ pc[p] \in {"removing", "erasing", "probing"} /\ at' = at /\ op' = op
          /\ pc'[p] \in {"erasing", "probing", "ending"} \/ Finish(p)
          /\ pc[p] = "removing" \/ pc'[p] # "erasing"
      BY <1>1, <1>10 DEF DetachRemoves, EraseCheckout, ProbeGone, At, Goto, Finish, Quiet, trees, local
    <2>2. pc[p] = "removing" => Kind(p) # "sweep"
      BY <1>2 DEF Says, SaysOfIntent, Disposals
    <2>3. CASE pc'[p] \in {"erasing", "probing", "ending"}
      <3>1. Meets(p)'
        BY <1>2, <1>3, <2>1, <2>2, <2>3
           DEF Meets, HoldsClaims, ActorKnown, Seen, SparesOthers, UnderClaims, Attaching,
               Snapshotted, TriggerSteps, Kind
      <3> QED
        BY <1>2, <2>1, <2>3, <3>1, CalmSpares DEF Attaching
    <2> QED
      BY <1>2, <2>1, <2>3, EndSpares
  <1>11. CASE Finalize(p)
    <2>1. /\ Trees /\ pc[p] = "finalizing" /\ at' = at /\ op' = op
          /\ (pc'[p] = "erasing" /\ Candidate(at[p])) \/ Finish(p)
      BY <1>1, <1>11 DEF Finalize, At, Goto, trees
    <2>2. CASE pc'[p] = "erasing" /\ Candidate(at[p])
      <3>1. intent[at[p]] # "none"
        BY <2>2 DEF Candidate
      <3>2. Kind(p) # "sweep" => wt[at[p]].session = Actor(p)
        BY <1>2, <2>1 DEF Meets, SparesOthers
      <3>3. Meets(p)'
        BY <1>3, <2>1, <2>2, <3>1, <3>2
           DEF Meets, HoldsClaims, ActorKnown, Seen, SparesOthers, UnderClaims, Attaching,
               Snapshotted, TriggerSteps, Kind
      <3> QED
        BY <1>2, <2>1, <2>2, <3>3, CalmSpares DEF Attaching
    <2> QED
      BY <1>2, <2>1, <2>2, EndSpares
  <1>12. CASE AppendDetached(p)
    <2>1. /\ pc[p] = "ending" /\ pc'[p] \in {"done", "releaseLock", "releasing"}
          /\ wt' = [wt EXCEPT ![at[p]].state = how[p]]
      <3>1. \/ Finish(p)
            \/ Goto(p, "releaseLock") /\ lock' = Dropped(p, {"lane"})
            \/ Goto(p, "releasing") /\ lock' = lock
        BY <1>12 DEF AppendDetached
      <3> QED
        BY <1>1, <1>12, <3>1 DEF AppendDetached, WorktreeDetached, Finish, Goto, At
    <2>2. at[p] \in Live /\ at[p] \notin Live'
      <3>1. at[p] \in Live /\ how[p] # "live"
        BY <1>2, <2>1 DEF Says, SaysOfLane, IInv, TypeOK, Disposals
      <3> QED
        BY <1>1, <2>1, <3>1 DEF Live, Attachment
    <2>3. \A a \in Live' : a \in Live /\ wt'[a] = wt[a]
      BY <1>1, <2>1, <2>2 DEF Live, Attachment
    <2>4. Meets(p)'
      BY <2>1 DEF Meets, HoldsClaims, ActorKnown, Seen, SparesOthers, UnderClaims, Attaching,
                  Snapshotted, TriggerSteps
    <2> QED
      BY <1>2, <2>1, <2>3, <2>4, LaneSpares DEF Attaching, LaneSteps
  <1>13. CASE TakeRecovery(p) \/ PassGauntlet(p) \/ Scan(p) \/ FireTrigger(p)
    <2>1. /\ Trees /\ pc[p] \in {"sweeping", "gauntlet", "scanning", "firing"} /\ op' = op
          /\ pc'[p] \in {"gauntlet", "scanning", "firing", "finalizing"} \/ Finish(p)
      BY <1>1, <1>13 DEF TakeRecovery, PassGauntlet, Scan, FireTrigger, At, Goto, Quiet, trees, local
    <2>2. CASE pc'[p] \in {"gauntlet", "scanning", "firing", "finalizing"}
      <3>1. Kind(p) = "sweep"
        BY <1>2, <2>1 DEF Meets, HoldsClaims, TriggerSteps
      <3>2. Meets(p)'
        BY <2>1, <2>2, <3>1
           DEF Meets, HoldsClaims, ActorKnown, Seen, SparesOthers, UnderClaims, Attaching,
               Snapshotted, Kind
      <3> QED
        BY <1>2, <2>1, <2>2, <3>2, CalmSpares DEF Attaching
    <2> QED
      BY <1>2, <2>1, <2>2, EndSpares
  <1>14. CASE Recover(p)
    <2>1. /\ Trees /\ pc[p] = "recovering" /\ ~Unrecoverable(p) /\ at'[p] = FirstLive /\ op' = op
          /\ pc'[p] \in {"ending", "erasing"}
      BY <1>1, <1>14 DEF Recover, At, Goto, trees
    <2>2. Live = {FirstLive} /\ wt[FirstLive].session \notin Active \ {Actor(p)}
      BY <2>1 DEF Unrecoverable
    <2>3. Kind(p) = "recover"
      BY <2>1 DEF IInv, Core, Held, Holds
    <2>4. Meets(p)'
      BY <1>3, <2>1, <2>2, <2>3
         DEF Meets, HoldsClaims, ActorKnown, Seen, SparesOthers, UnderClaims, Attaching,
             Snapshotted, TriggerSteps, Kind
    <2> QED
      BY <1>2, <2>1, <2>4, CalmSpares DEF Attaching
  <1> QED
    BY <1>4, <1>5, <1>6, <1>7, <1>8, <1>9, <1>10, <1>11, <1>12, <1>13, <1>14 DEF DetachStep

\* A close makes nobody active or unknown, and the rest of the world touches no session.
LEMMA WorldSpares ==
    ASSUME IInv, Sparing,
           (\E s \in Sid : CloseSession(s)) \/ Tamper \/ Outage \/ CoolDown \/ UNCHANGED vars
           \/ (\E p \in Proc : Die(p))
    PROVE  Sparing'
  <1>1. /\ UNCHANGED <<wt, intent, at, op, saw, pc, lock>> /\ dead \subseteq dead'
        /\ status' = status \/ \E s \in Sid : status' = [status EXCEPT ![s] = "closed"]
    <2>1. CASE \E s \in Sid : CloseSession(s)
      BY <2>1 DEF CloseSession, SessionClosed, trees, local
    <2>2. CASE Tamper \/ Outage \/ CoolDown \/ UNCHANGED vars \/ (\E p \in Proc : Die(p))
      BY <2>2 DEF Tamper, Outage, CoolDown, vars, Die, view, sessions, trees, local, fixed, history
    <2> QED
      BY <2>1, <2>2
  <1>2. status \in [Sid -> {"absent", "active", "closed"}]
    BY DEF IInv, TypeOK, ProjectionTypeOK
  <1>3. Active' \subseteq Active /\ Absent' \subseteq Absent /\ Live' = Live
    BY <1>1, <1>2 DEF Active, Absent, Live
  <1>4. ASSUME NEW p \in Proc \ dead'
        PROVE  Meets(p)'
    <2>1. Meets(p) /\ Actor(p)' = Actor(p) /\ Kind(p)' = Kind(p)
      BY <1>1 DEF Sparing, Actor, Kind
    <2>2. HoldsClaims(p)' /\ ActorKnown(p)'
      BY <1>1, <1>3, <2>1 DEF Meets, HoldsClaims, ActorKnown
    <2>3. Seen(p)'
      <3>1. \A q \in Proc \ dead' : q \in Proc \ dead /\ Actor(q)' = Actor(q)
        BY <1>1 DEF Actor
      <3> QED
        BY <1>1, <1>3, <2>1, <3>1 DEF Meets, Seen
    <2>4. SparesOthers(p)'
      BY <1>1, <1>3, <2>1 DEF Meets, SparesOthers
    <2> QED
      BY <2>2, <2>3, <2>4 DEF Meets
  <1>5. SessionsKnown(wt, status)'
    BY <1>1, <1>3 DEF Sparing, SessionsKnown, Absent
  <1> QED
    BY <1>4, <1>5 DEF Sparing

\* The session a pull brings was unknown: it has no worktree made here, and attaches none.
LEMMA ImportSpares ==
    ASSUME IInv, Sparing, Import
    PROVE  Sparing'
  <1>1. PICK a \in Foreign, s \in Sid :
           /\ wt[a].state = "none" /\ s \in Absent
           /\ wt' = [wt EXCEPT ![a] = [state |-> "live", session |-> s, origin |-> "foreign",
                                       token |-> TRUE]]
           /\ \/ status' = [status EXCEPT ![s] = "active"]
              \/ status' = [status EXCEPT ![s] = "closed"]
    BY DEF Import, Absent
  <1>2. UNCHANGED <<intent, at, op, saw, pc, lock, dead>>
    BY DEF Import, local
  <1>3. /\ status \in [Sid -> {"absent", "active", "closed"}] /\ wt \in [Aid -> Attachment]
        /\ a \in Aid
    BY WorktreeAssumption DEF IInv, TypeOK, ProjectionTypeOK
  <1>4. Active' \subseteq Active \cup {s} /\ Absent' \subseteq Absent
    BY <1>1, <1>3 DEF Active, Absent
  <1>5. /\ wt'[a].origin # "local" /\ a \notin Live
        /\ \A b \in Aid : b # a => wt'[b] = wt[b]
        /\ \A b \in Live : b \in Live' /\ wt'[b] = wt[b]
        /\ \A b \in Live' : wt'[b].origin = "local" => b \in Live /\ wt'[b] = wt[b]
    BY <1>1, <1>3 DEF Live
  <1>6. \A b \in Live : wt[b].origin = "local" => wt[b].session # s
    BY <1>1 DEF Sparing, SessionsKnown, Live, Absent
  <1>7. ASSUME NEW p \in Proc \ dead
        PROVE  Meets(p)'
    <2>1. Meets(p) /\ Says(p) /\ Actor(p)' = Actor(p) /\ Kind(p)' = Kind(p)
      BY <1>2 DEF Sparing, IInv, Core, Actor, Kind
    <2>2. HoldsClaims(p)' /\ ActorKnown(p)'
      BY <1>2, <1>4, <2>1 DEF Meets, HoldsClaims, ActorKnown
    <2>3. Seen(p)'
      <3>1. \A q \in Proc \ dead : pc[q] \in Attaching => Actor(q)' = Actor(q) /\ Actor(q) # s
        BY <1>1, <1>2 DEF Sparing, Meets, ActorKnown, Actor
      <3>2. SUFFICES ASSUME pc[p] \in Snapshotted
                     PROVE  /\ \A b \in Live' : wt'[b].origin = "local" /\ wt'[b].session \in Active' =>
                                  wt'[b].session \in saw[p].active
                            /\ \A q \in Proc \ dead : pc[q] \in Attaching /\ Actor(q)' \in Active' =>
                                  Actor(q)' \in saw[p].active
        BY <1>2 DEF Seen
      <3> QED
        BY <1>4, <1>5, <1>6, <2>1, <3>1, <3>2 DEF Meets, Seen
    <2>4. SparesOthers(p)'
      <3>1. pc[p] \in {"confirming", "orphaning", "intending", "removing", "erasing", "probing", "ending"} =>
               at[p] \in Live /\ wt'[at[p]] = wt[at[p]] /\ wt[at[p]].session # s
        BY <1>5, <1>6, <2>1 DEF Says, SaysOfLane
      <3> QED
        BY <1>2, <1>4, <1>5, <2>1, <3>1 DEF Meets, SparesOthers
    <2> QED
      BY <2>2, <2>3, <2>4 DEF Meets
  <1>8. SessionsKnown(wt, status)'
    <2>1. ASSUME NEW b \in Aid, wt'[b].state = "live", wt'[b].origin = "local"
          PROVE  wt'[b].session \notin Absent'
      BY <1>3, <1>4, <1>5, <2>1 DEF Live, Sparing, SessionsKnown, Absent
    <2> QED
      BY <2>1 DEF SessionsKnown, Absent
  <1> QED
    BY <1>2, <1>7, <1>8 DEF Sparing

\* At first nobody is under way.
LEMMA InitSpares ==
    ASSUME Init
    PROVE  Sparing
  <1>1. PICK sc \in Scenes : op = sc.ops /\ wt = sc.wt /\ status = sc.status
    BY DEF Init
  <1>2. SessionsKnown(wt, status)
    BY <1>1, ScenesAssumption
  <1>3. ASSUME NEW p \in Proc
        PROVE  Meets(p)
    <2>1. /\ pc[p] \in {"claiming", "forceLock", "recoverLock", "sweeping", "done", "releaseLock"}
          /\ pc[p] = "sweeping" => Kind(p) = "sweep"
      BY DEF Init, First, Kind
    <2> QED
      BY <2>1 DEF Meets, HoldsClaims, ActorKnown, Seen, SparesOthers, UnderClaims, Attaching,
                  Snapshotted, TriggerSteps
  <1> QED
    BY <1>2, <1>3 DEF Sparing

\* Every step spares the sessions at work.
LEMMA NextSpares ==
    ASSUME IInv, Sparing, [Next]_vars
    PROVE  Sparing'
  <1>1. ASSUME NEW p \in Proc, Step(p)
        PROVE  Sparing'
    <2>1. CASE Die(p)
      BY <2>1, WorldSpares
    <2>2. CASE p \in dead
      BY <1>1, <2>2
         DEF Step, At, TakeLock, LockBusy, StepFails, Die, AttachStep, ClaimRefused, ClaimLane,
             ForceRefused, PassPreflight, ForceClaim, CheckOwner, Reuse, AddWorktree, AddFails,
             MintInstance, MintFails, CheckOwnerAgain, AppendAttached, AppendOrphaned, Unwind,
             DetachStep, TakeSnapshot, ReleaseRefused, ReleaseFree, ReleaseReconciles,
             DisposeRefused, DisposeKept, DisposeResumed, DisposeFresh, Disposing, Deciding,
             AppendDetaching, DetachRemoves, Finalize, EraseCheckout, ProbeGone, AppendDetached, ReleaseLane, TakeRecovery,
             PassGauntlet, Scan, FireTrigger, RecoverRefused, Recover
    <2>3. CASE p \notin dead /\ (LockBusy(p) \/ StepFails(p))
      <3>1. KeepsToItself(p) /\ Finish(p) /\ UNCHANGED <<wt, intent>>
        BY <2>3, StepsKeepToThemselves DEF LockBusy, StepFails, Quiet, trees
      <3> QED
        BY <2>3, <3>1, EndSpares
    <2>4. CASE p \notin dead /\ (TakeLock(p) \/ AttachStep(p) \/ DetachStep(p))
      BY <2>4, LockSpares, AttachSpares, DetachSpares
    <2> QED
      BY <1>1, <2>1, <2>2, <2>3, <2>4 DEF Step
  <1> QED
    BY <1>1, WorldSpares, ImportSpares DEF Next

\* Whatever is claimed, detached, recovered, swept, closed or pulled meanwhile: nobody but its
\* session ends an attachment while that session is active, unless it intended to.
THEOREM OtherActiveSparedAlways == Spec => []OtherActiveSpared
  <1>1. Init => Sparing
    BY InitSpares
  <1>2. IInv /\ Sparing /\ [Next]_vars => Sparing'
    BY NextSpares
  <1>3. IInv /\ Sparing => OtherActiveSpared
    <2>1. SUFFICES ASSUME IInv, Sparing, NEW p \in Proc, Recorded(p),
                          wt[at[p]].session \in Active \ {Actor(p)}
                   PROVE  intent[at[p]] # "none" /\ Kind(p) = "sweep"
      BY DEF OtherActiveSpared
    <2>2. p \notin dead /\ pc[p] \in {"ending", "orphaning"}
      BY <2>1 DEF Recorded, Writing
    <2> QED
      BY <2>1, <2>2 DEF Sparing, Meets, SparesOthers
  <1> QED
    BY <1>1, <1>2, <1>3, Inductive, PTL DEF Spec
=============================================================================
