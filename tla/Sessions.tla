------------------------------- MODULE Sessions -------------------------------
(***************************************************************************)
(* Sessions and lanes of one repository: every writer of session, binding,  *)
(* pointer and lane ownership at once, with failing appends, exits, and the  *)
(* moment at which the spine becomes a synced one.                          *)
(***************************************************************************)
EXTENDS SessionHooks, LaneOwnership, FiniteSets

\* Every call of a scene has the ids it needs, and a fresh id of its own.
SceneCalls(sc) ==
    /\ sc.ops \in [Proc -> Op]
    /\ \A p \in Proc :
          /\ sc.ops[p].kind \in {"heartbeat", "explicit"} => sc.ops[p].sid \in Sid
          /\ sc.ops[p].kind \in {"edit", "start", "register"} =>
                sc.ops[p].fresh \in Sid /\ sc.status[sc.ops[p].fresh] = "absent"
          /\ sc.ops[p].fresh # Nobody => \A q \in Proc :
                /\ sc.ops[p].fresh # sc.ops[q].sid
                /\ p # q => sc.ops[p].fresh # sc.ops[q].fresh

\* The spine of a scene is one that some history has left, and so are the files beside it.
SceneSpine(sc) ==
    /\ sc.status \in [Sid -> {"absent", "active", "closed"}]
    /\ sc.beat \in [Sid -> {"fresh", "old", "expired"}]
    /\ sc.claim \in [Lane -> Sid \cup {Nobody}]
    /\ sc.rank \in [Lane -> [Sid -> Nat]]
    /\ IsFiniteSet({t \in Lane \X Sid : sc.rank[t[1]][t[2]] > 0})
    /\ sc.mode \in {"default", "sync"} /\ sc.corrupt \in BOOLEAN
    /\ sc.binding \in [Claude -> [sid : Sid \cup {Nobody}, new : BOOLEAN]]
    /\ sc.pointer \in Sid \cup {Nobody}

\* Owners and bound sessions are on the spine; the folds of a default spine agree.
SceneOwners(sc) ==
    /\ \A l \in Lane : \A s \in Sid :
          /\ sc.claim[l] = s \/ sc.rank[l][s] > 0 => sc.status[s] # "absent"
          /\ sc.mode = "default" => (sc.claim[l] = s <=> sc.rank[l][s] > 0)
    /\ \A c \in Claude : sc.binding[c].sid \in Sid => sc.status[sc.binding[c].sid] # "absent"

ASSUME ScenesAssumption ==
    \A sc \in Scenes : SceneCalls(sc) /\ SceneSpine(sc) /\ SceneOwners(sc)

First(o) ==
    CASE o.kind \in {"claim", "force"} -> "close"
      [] o.kind = "edit"      -> "resolving"
      [] o.kind = "release"   -> "claims"
      [] o.kind = "sweep"     -> "selecting"
      [] o.kind = "close"     -> "shut"
      [] o.kind = "heartbeat" -> "beat"
      [] o.kind = "explicit"  -> "enter"
      [] o.kind = "register"  -> IF o.sid = Nobody THEN "enter" ELSE "renew"
      [] o.kind = "start"     -> "startBinding"
      [] o.kind = "end"       -> "endBinding"
      [] o.kind = "init"      -> "turning"
      [] OTHER                -> "done"

Init ==
    /\ \E sc \in Scenes :
         /\ op = sc.ops
         /\ status = sc.status
         /\ beat = sc.beat
         /\ claim = sc.claim
         /\ rank = sc.rank
         /\ claimSeq = Cardinality({t \in Lane \X Sid : sc.rank[t[1]][t[2]] > 0})
         /\ mode = sc.mode
         /\ corrupt = sc.corrupt
         /\ binding = sc.binding
         /\ pointer = sc.pointer
    /\ stale = {}
    /\ pc = [p \in Proc |-> First(op[p])]
    /\ at = [p \in Proc |-> op[p].sid]
    /\ aim = [p \in Proc |-> op[p].lane]
    /\ todo = [p \in Proc |-> {}]
    /\ picked = [p \in Proc |-> {}]
    /\ seen = [p \in Proc |-> Nobody]
    /\ unbound = {}
    /\ lock = [k \in Locks |-> Nobody]
    /\ dead = {}
    /\ unlocked = {}

Appends == {"firing", "marking", "claiming", "releasing", "closing", "beating", "renewing",
            "entering", "staling", "startRenewing"}

\* A failed append ends the call; of a mint it is MintRefused, of its rollback RolledBack.
AppendFails(p) ==
    /\ \/ \E step \in Appends : At(p, step)
       \/ At(p, "cleaning") /\ todo[p] # {}
       \/ At(p, "enrolling") /\ Kind(p) = "start"
    /\ IF Kind(p) = "edit" /\ pc[p] = "closing" THEN Goto(p, "unminted") /\ UNCHANGED lock
       ELSE Finish(p)
    /\ UNCHANGED <<view, local, files, fixed, unlocked>>

\* An exit that leaves no lock behind is a process that is never scheduled again.
Die(p) ==
    /\ p \in MayDie \ dead
    /\ \E k \in Locks : lock[k] = p
    /\ dead' = dead \cup {p}
    /\ UNCHANGED <<view, mode, corrupt, local, pc, files, lock, unlocked>>

\* `spine sync init' has put the replica id in place.
TurnSync(p) ==
    /\ At(p, "turning")
    /\ mode' = "sync"
    /\ Goto(p, "done")
    /\ UNCHANGED <<view, corrupt, local, files, lock, dead, unlocked>>

Step(p) == LifecycleStep(p) \/ HookStep(p) \/ LaneStep(p) \/ AppendFails(p) \/ TurnSync(p) \/ Die(p)

Over == \A p \in Proc : pc[p] = "done" \/ p \in dead

Next ==
    \/ \E p \in Proc : Step(p)
    \/ \E c \in Claude : BindingAges(c)
    \/ Over /\ UNCHANGED vars

Spec == Init /\ [][Next]_vars

-----------------------------------------------------------------------------
TypeOK ==
    /\ ProjectionTypeOK
    /\ op \in [Proc -> Op]
    /\ at \in [Proc -> Sid \cup {Nobody}]
    /\ aim \in [Proc -> Lane]
    /\ todo \in [Proc -> SUBSET (Lane \X Sid)]
    /\ picked \in [Proc -> SUBSET ({"old", "expired"} \X Sid)]
    /\ seen \in [Proc -> Sid \cup {Nobody}]
    /\ unbound \subseteq Proc
    /\ binding \in [Claude -> [sid : Sid \cup {Nobody}, new : BOOLEAN]]
    /\ pointer \in Sid \cup {Nobody}
    /\ lock \in [Locks -> Proc \cup {Nobody}]
    /\ dead \subseteq Proc
    /\ unlocked \subseteq Sid

Orphans ==
    {t \in Lane \X Sid : t[2] \in (DefaultOwners(t[1]) \cup SyncOwners(t[1])) \ Active}

\* No writer makes an orphan: a claim never lands for a session that a close, which holds another
\* lock, has ended (lane-ownership.mjs:21-26).
NoNewOrphan == [][Orphans' \subseteq Orphans]_view

\* An active session loses a lane by its own release, by its own close, or to a force: never by the
\* clean-up of a claim or a sweep, whose snapshot may be old by the time it releases.
NoBystanderEvicted ==
    [][\A l \in Lane : \A s \in OwnersOf(l) \cap Active :
          s \in OwnersOf(l)' \/ s \notin Active'
          \/ \E p \in Proc :
                /\ aim[p] = l
                /\ \/ pc[p] = "releasing" /\ at[p] = s
                   \/ pc[p] = "cleaning" /\ Kind(p) = "force"]_lanes

\* A claim that lands makes its session the one owner of the lane, whatever superseded or inactive
\* owners the lane had.
ClaimIsSole ==
    [][\A p \in Proc : claimSeq' # claimSeq /\ pc[p] = "claiming" /\ pc'[p] = "done"
          => OwnersOf(aim[p])' = {at[p]}]_lanes

\* On the history of one checkout both folds name the same owners.
FoldsAgree ==
    mode = "default" => \A l \in Lane : DefaultOwners(l) = SyncOwners(l)

Writing(p, step) == p \notin dead /\ pc[p] = step

\* A session is registered once and closed once, and nothing renews a closed one.
LifecycleOnce ==
    \A p \in Proc :
        /\ Writing(p, "closing") \/ Writing(p, "renewing") \/ Writing(p, "startRenewing")
             => at[p] \in Active
        /\ Writing(p, "entering") => status[Entered(p)] = "absent"
        /\ Writing(p, "enrolling") => status[at[p]] = "absent"

\* A sweep closes or marks no session that got a heartbeat since it was selected, but for heartbeats
\* whose command gave up waiting for the lock (session.mjs:250-254).
HeartbeatSpares ==
    \A p \in Proc : Sweeps(p) /\ at[p] \notin unlocked =>
        /\ Writing(p, "closing") => beat[at[p]] = "expired"
        /\ Writing(p, "staling") => beat[at[p]] # "fresh" /\ at[p] \notin stale

\* A binding names a session of the spine, even between the steps of a start or a mint.
BindingRegistered == \A c \in Claude : Bound(c) # Nobody => status[Bound(c)] # "absent"

\* What is kept twice agrees: becoming a synced spine gives no lane to anyone else, and no binding is
\* ahead of the spine.
RecordsAgree == FoldsAgree /\ BindingRegistered

\* Concurrent edits of one Claude session mint one session: no mint registers while the binding
\* names a live session.
NoDoubleMint ==
    \A p \in Proc : Writing(p, "enrolling") /\ Kind(p) = "edit" => Bound(Claude_(p)) \notin Active

\* SessionEnd closes what is bound, and not to a continuation that has just been bound.
EndSparesContinuation ==
    \A p \in Proc : Writing(p, "closing") /\ Kind(p) = "end" =>
        binding[Claude_(p)] = [sid |-> at[p], new |-> FALSE]

\* What a writer decided on still holds when its append is made, whatever the others did in between:
\* each of the four conjuncts needs another of the locks.
DecisionsHold == LifecycleOnce /\ HeartbeatSpares /\ NoDoubleMint /\ EndSparesContinuation

\* The binding of a live session is replaced by a start or a mint, never removed.  A pointer to a live
\* session is changed by a registration alone: no close clears it for another session, and no renewal
\* takes it over.
LiveSessionKept ==
    [][/\ \A c \in Claude : Bound(c) \in Active => Bound(c)' # Nobody
       /\ pointer \in Active /\ pointer' # pointer =>
             \E p \in Proc : pc[p] = "pointing" /\ pc'[p] # "pointing"]_files

Waiting(p, S) ==
    \E k \in Locks : pc[p] \in LockOf[k] /\ lock[k] \in S

\* No processes wait for each other's locks in a ring (session-lifecycle.mjs:10-15).
NoLockCycle ==
    \A S \in SUBSET (Proc \ dead) : S # {} => \E p \in S : ~Waiting(p, S)
=============================================================================
