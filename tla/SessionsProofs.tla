---------------------------- MODULE SessionsProofs ----------------------------
(***************************************************************************)
(* Proofs about Sessions, for any sessions, lanes, processes and calls, and  *)
(* any spine that a scene may find.  All rest on which process holds which    *)
(* of the three locks at which step (Held), and on what a process may go by   *)
(* at each step because the locks it holds keep the others from changing it   *)
(* (Says).                                                                  *)
(***************************************************************************)
EXTENDS Sessions, TLAPS, FiniteSetTheorems

\* The steps at which a process holds the claims lock.
ClaimsSteps == {"look", "firing", "cleaning", "marking", "claiming", "releasing"}

\* The steps at which it holds the close lock, whatever its call, and those at which it may.
CloseSteps == {"shutLook", "closing", "clearing", "renewLook", "renewing", "enterLook", "staleLook",
               "staling", "startLook", "startRenewing", "rebinding", "mintLook", "enrolling"}
CloseMay   == CloseSteps \cup ClaimsSteps \cup
              {"claims", "beating", "entering", "keeping", "binding", "pointing", "unminted"}

\* All steps.
Steps == ClaimsSteps \cup CloseMay \cup
         {"done", "close", "shut", "beat", "renew", "enter", "stale", "sweeping", "selecting",
          "turning", "resolving", "deciding", "mintBinding", "mintClose", "startBinding",
          "startClose", "endBinding", "readBinding", "endClose", "unbinding"}

NeedsClose(p) ==
    \/ pc[p] \in CloseSteps
    \/ Kind(p) \in Owning /\ pc[p] \in ClaimsSteps \cup {"claims"}
    \/ Kind(p) = "explicit" /\ pc[p] = "entering"
    \/ Kind(p) = "edit" /\ pc[p] \in {"pointing", "binding"}

NeedsBinding(p) ==
    \/ pc[p] \in {"startClose", "startLook", "startRenewing", "rebinding", "readBinding", "endClose",
                  "unbinding", "mintClose", "mintLook", "enrolling", "binding"}
    \/ Kind(p) \in {"end", "edit"} /\ pc[p] \in {"shutLook", "closing", "clearing"}
    \/ Kind(p) = "edit" /\ pc[p] = "pointing"
    \/ Kind(p) = "start" /\ p \notin unbound /\ pc[p] \in {"enter", "enterLook", "entering"}

\* None of these steps waits for the binding lock, of which the process may already have it.
MayBind(p) ==
    \/ Kind(p) = "start" /\ pc[p] \in {"startClose", "startLook", "startRenewing", "rebinding",
            "keeping", "enrolling", "binding", "pointing", "enter", "enterLook", "entering"}
    \/ Kind(p) = "end" /\ pc[p] \in {"readBinding", "endClose", "shutLook", "closing", "clearing",
            "unbinding"}
    \/ Kind(p) = "edit" /\ pc[p] \in {"mintClose", "mintLook", "enrolling", "pointing", "binding",
            "shutLook", "closing", "clearing", "unminted"}

\* Which call gets to which step.
Route(p) ==
    /\ pc[p] = "close" => Kind(p) \in Owning
    /\ pc[p] \in {"selecting", "sweeping", "stale", "staleLook", "staling"} => Kind(p) \in Sweepers
    /\ pc[p] = "shut" => Kind(p) \in {"close", "sweep", "start"}
    /\ pc[p] \in {"shutLook", "closing", "clearing"} =>
          Kind(p) \in {"close", "sweep", "start", "end", "edit"}
    /\ pc[p] \in {"endBinding", "readBinding", "endClose", "unbinding"} => Kind(p) = "end"
    /\ pc[p] \in {"enter", "enterLook", "entering"} => Kind(p) \in {"explicit", "register", "start"}
    /\ pc[p] \in {"renew", "renewLook", "renewing"} => Kind(p) = "register"
    /\ pc[p] \in {"startBinding", "startClose", "startLook", "startRenewing", "rebinding"} =>
          Kind(p) = "start"
    /\ pc[p] \in {"resolving", "deciding", "mintBinding", "mintClose", "mintLook", "firing",
                  "unminted"} => Kind(p) = "edit"
    /\ pc[p] \in {"enrolling", "binding"} => Kind(p) \in {"start", "edit"}
    /\ pc[p] = "keeping" => Kind(p) \in {"start", "register"}
    /\ pc[p] = "pointing" => Kind(p) \in {"start", "edit", "explicit", "register"}
    /\ pc[p] \in {"beat", "beating"} => Kind(p) = "heartbeat"
    /\ pc[p] = "releasing" => Kind(p) = "release"
    /\ pc[p] = "cleaning" => Kind(p) \in Owning \cup Sweepers
    /\ pc[p] = "marking" => Kind(p) = "force"
    /\ pc[p] = "claiming" => Kind(p) \in Owning
    /\ pc[p] \in {"claims", "look"} => Kind(p) \in Owning \cup Sweepers \cup {"release"}

HoldsLocks(p) ==
    /\ lock["claims"] = p <=> pc[p] \in ClaimsSteps
    /\ NeedsClose(p) => lock["close"] = p
    /\ lock["close"] = p => pc[p] \in CloseMay
    /\ NeedsBinding(p) => lock["binding"] = p
    /\ lock["binding"] = p => MayBind(p)

Holds(p) == HoldsLocks(p) /\ Route(p)

Held == \A p \in Proc \ dead : Holds(p)

\* The steps before a registration.
Ahead == {"resolving", "deciding", "mintBinding", "mintClose", "mintLook", "startBinding",
          "startClose", "startLook", "renew", "renewLook", "enter", "enterLook", "entering",
          "enrolling"}
Minting == {"edit", "start", "register"}

SaysOfSession(p) ==
    /\ pc[p] \in {"closing", "renewing", "startRenewing", "staling", "firing", "marking",
                  "claiming"} => at[p] \in Active
    /\ pc[p] = "cleaning" /\ Kind(p) \in Owning => at[p] \in Active
    /\ pc[p] \in {"clearing", "unbinding"} => at[p] \in Sid /\ status[at[p]] = "closed"
    /\ pc[p] \in {"binding", "rebinding", "pointing"} => at[p] \in Sid /\ status[at[p]] # "absent"
    /\ pc[p] \in {"beat", "beating", "releasing"} => at[p] \in Sid

SaysOfEntry(p) ==
    /\ pc[p] \in Ahead /\ Kind(p) \in Minting => status[op[p].fresh] = "absent"
    /\ Kind(p) = "explicit" /\ pc[p] \in {"enter", "enterLook", "entering"} => at[p] = op[p].sid
    /\ Kind(p) = "explicit" /\ pc[p] = "entering" => status[at[p]] = "absent"
    /\ pc[p] = "enrolling" => at[p] = op[p].fresh

SaysOfBeat(p) ==
    Sweeps(p) /\ at[p] \notin unlocked =>
        /\ pc[p] = "closing" => beat[at[p]] = "expired"
        /\ pc[p] = "staling" => beat[at[p]] # "fresh" /\ at[p] \notin stale

SaysOfBinding(p) ==
    /\ pc[p] = "enrolling" /\ Kind(p) = "edit" => Bound(Claude_(p)) \notin Active
    /\ pc[p] \in {"endClose", "shutLook", "closing"} /\ Kind(p) = "end" =>
          at[p] # Nobody /\ binding[Claude_(p)] = [sid |-> at[p], new |-> FALSE]

SaysOfLane(p) ==
    /\ pc[p] \in {"firing", "cleaning"} /\ Kind(p) \in Owning =>
          /\ \A t \in todo[p] : t[1] = aim[p]
          /\ \A s \in SyncOwners(aim[p]) : s = at[p] \/ <<aim[p], s>> \in todo[p]
    /\ pc[p] \in {"firing", "cleaning"} =>
          \A t \in todo[p] : /\ Kind(p) # "force" => status[t[2]] = "closed"
                             /\ mode = "default" => SyncOwners(t[1]) \subseteq {t[2]}
    /\ pc[p] \in {"marking", "claiming"} => SyncOwners(aim[p]) \subseteq {at[p]}
    /\ pc[p] = "releasing" /\ mode = "default" => SyncOwners(aim[p]) \subseteq {at[p]}

Says(p) == SaysOfSession(p) /\ SaysOfEntry(p) /\ SaysOfBeat(p) /\ SaysOfBinding(p) /\ SaysOfLane(p)

\* Every call has the ids it needs, and a fresh id that no other call has.
OpsOK ==
    \A p \in Proc :
        /\ Kind(p) \in {"heartbeat", "explicit"} => op[p].sid \in Sid
        /\ Kind(p) \in Minting => op[p].fresh \in Sid
        /\ op[p].fresh # Nobody => \A q \in Proc : /\ op[p].fresh # op[q].sid
                                                   /\ p # q => op[p].fresh # op[q].fresh

\* A lane's owners are sessions of the spine.
OwnersKnown ==
    \A l \in Lane : \A s \in Sid : claim[l] = s \/ rank[l][s] > 0 => status[s] # "absent"

Agrees == OwnersKnown /\ RecordsAgree

Core ==
    /\ pc \in [Proc -> Steps]
    /\ Held
    /\ \A p \in Proc \ dead : Says(p)
    /\ Agrees

IInv == TypeOK /\ OpsOK /\ Core

-----------------------------------------------------------------------------
(* What the steps have in common *)

\* A step of p leaves the calls of the others alone.
KeepsCalls(p) ==
    /\ op' = op
    /\ dead' = dead
    /\ \A q \in Proc \ {p} : /\ at'[q] = at[q] /\ aim'[q] = aim[q] /\ todo'[q] = todo[q]
                             /\ q \in unbound' <=> q \in unbound

\* No session comes back.  Without the close lock p ends none, makes none stale, registers no explicit
\* id of another, and every heartbeat is known as one outside of the lock.
KeepsSessions(p) ==
    /\ \A s \in Sid : /\ status[s] = "closed" => status'[s] = "closed"
                      /\ status[s] # "absent" => status'[s] # "absent"
                      /\ status[s] = "active" => status'[s] = "active" \/ lock["close"] = p
    /\ \A q \in Proc \ {p} :
          /\ Kind(q) \in Minting /\ status[op[q].fresh] = "absent" => status'[op[q].fresh] = "absent"
          /\ Kind(q) = "explicit" /\ status[op[q].sid] = "absent" =>
                status'[op[q].sid] = "absent" \/ lock["close"] = p
    /\ unlocked \subseteq unlocked'
    /\ \/ lock["close"] = p
       \/ (\A s \in Active : beat'[s] = beat[s] \/ s \in unlocked') /\ stale' \subseteq stale

\* Without the claims lock it makes no owner; the spine does not go back to a default one.
KeepsLanes(p) ==
    /\ lock["claims"] = p \/ \A l \in Lane : SyncOwners(l)' \subseteq SyncOwners(l)
    /\ mode' = "default" => mode = "default"

\* Without the binding lock it binds nothing.
KeepsBinding(p) == lock["binding"] = p \/ binding' = binding

Minds(p) == KeepsCalls(p) /\ KeepsSessions(p) /\ KeepsLanes(p) /\ KeepsBinding(p) /\ Agrees'

\* The locks that others hold, they keep.
Spares(p) ==
    /\ pc' \in [Proc -> Steps]
    /\ \A q \in (Proc \ dead) \ {p} : pc'[q] = pc[q] /\ \A k \in Locks : lock'[k] = q <=> lock[k] = q

\* What another process holds, it still holds.
LEMMA OthersHold ==
    ASSUME NEW p, NEW q \in (Proc \ dead) \ {p}, KeepsCalls(p), Spares(p), Holds(q)
    PROVE  Holds(q)'
  <1>1. /\ pc'[q] = pc[q] /\ op' = op /\ (q \in unbound' <=> q \in unbound)
        /\ lock'["claims"] = q <=> lock["claims"] = q
        /\ lock'["close"] = q <=> lock["close"] = q
        /\ lock'["binding"] = q <=> lock["binding"] = q
    BY DEF KeepsCalls, Spares, Locks
  <1>2. /\ Kind(q)' = Kind(q) /\ (Route(q)' <=> Route(q)) /\ (NeedsClose(q)' <=> NeedsClose(q))
        /\ (NeedsBinding(q)' <=> NeedsBinding(q)) /\ (MayBind(q)' <=> MayBind(q))
    BY <1>1 DEF Kind, Route, NeedsClose, NeedsBinding, MayBind
  <1> QED
    BY <1>1, <1>2 DEF Holds, HoldsLocks

\* What it goes by of its session and its entry.
LEMMA OthersSession ==
    ASSUME NEW p, NEW q \in Proc \ {p}, KeepsCalls(p), KeepsSessions(p), pc'[q] = pc[q],
           Holds(q), Says(q), OpsOK
    PROVE  SaysOfSession(q)' /\ SaysOfEntry(q)'
  <1>1. at'[q] = at[q] /\ op' = op
    BY DEF KeepsCalls
  <1>2. \A s \in Active : lock["close"] = q => s \in Active'
    BY DEF KeepsSessions, Active
  <1>3. SaysOfSession(q)'
    <2>1. pc[q] \in {"closing", "renewing", "startRenewing", "staling", "firing", "marking",
                     "claiming"} => lock["close"] = q
      BY DEF Holds, HoldsLocks, NeedsClose, CloseSteps, Route, Owning, ClaimsSteps
    <2>2. pc[q] = "cleaning" /\ Kind(q) \in Owning => lock["close"] = q
      BY DEF Holds, HoldsLocks, NeedsClose, ClaimsSteps
    <2> QED
      BY <1>1, <1>2, <2>1, <2>2 DEF Says, SaysOfSession, Kind, KeepsSessions
  <1>4. SaysOfEntry(q)'
    <2>1. Kind(q) = "explicit" /\ pc[q] = "entering" => lock["close"] = q
      BY DEF Holds, HoldsLocks, NeedsClose
    <2>2. Kind(q)' = Kind(q)
      BY <1>1 DEF Kind
    <2> QED
      BY <1>1, <2>1, <2>2 DEF Says, SaysOfEntry, KeepsSessions
  <1> QED
    BY <1>3, <1>4

\* Of the age of a heartbeat.
LEMMA OthersBeat ==
    ASSUME NEW p, NEW q \in Proc \ {p}, KeepsCalls(p), KeepsSessions(p), pc'[q] = pc[q],
           Holds(q), Says(q)
    PROVE  SaysOfBeat(q)'
  <1>1. at'[q] = at[q] /\ (Sweeps(q)' <=> Sweeps(q))
    BY DEF KeepsCalls, Sweeps, Kind
  <1>2. pc[q] \in {"closing", "staling"} => lock["close"] = q /\ at[q] \in Active
    BY DEF Holds, HoldsLocks, NeedsClose, CloseSteps, Says, SaysOfSession
  <1>3. pc[q] \in {"closing", "staling"} /\ at[q] \notin unlocked' =>
           beat'[at[q]] = beat[at[q]] /\ stale' \subseteq stale /\ at[q] \notin unlocked
    BY <1>2 DEF KeepsSessions
  <1> QED
    BY <1>1, <1>3 DEF Says, SaysOfBeat

\* Of a binding.
LEMMA OthersBinding ==
    ASSUME NEW p, NEW q \in Proc \ {p}, KeepsCalls(p), KeepsSessions(p), KeepsBinding(p),
           pc'[q] = pc[q], Holds(q), Says(q), Agrees, TypeOK
    PROVE  SaysOfBinding(q)'
  <1>1. at'[q] = at[q] /\ Kind(q)' = Kind(q) /\ Claude_(q)' = Claude_(q) /\ Claude_(q) \in Claude
    BY DEF KeepsCalls, Kind, Claude_, TypeOK, Op
  <1>2. \/ pc[q] = "enrolling"
        \/ pc[q] \in {"endClose", "shutLook", "closing"} /\ Kind(q) = "end" => binding' = binding
    BY DEF Holds, HoldsLocks, NeedsBinding, KeepsBinding
  <1>3. pc[q] = "enrolling" => binding' = binding
    BY DEF Holds, HoldsLocks, NeedsBinding, KeepsBinding
  <1>4. Bound(Claude_(q)) \notin Active /\ binding' = binding => Bound(Claude_(q)) \notin Active'
    BY <1>1, ProjectionAssumption
       DEF Agrees, RecordsAgree, BindingRegistered, KeepsSessions, Active, Bound, TypeOK,
           ProjectionTypeOK
  <1> QED
    BY <1>1, <1>2, <1>3, <1>4 DEF Says, SaysOfBinding, Bound

\* Of the owners of a lane.
LEMMA OthersLane ==
    ASSUME NEW p, NEW q \in Proc \ {p}, KeepsCalls(p), KeepsSessions(p), KeepsLanes(p),
           pc'[q] = pc[q], Holds(q), Says(q), TypeOK
    PROVE  SaysOfLane(q)'
  <1>1. at'[q] = at[q] /\ aim'[q] = aim[q] /\ todo'[q] = todo[q] /\ Kind(q)' = Kind(q)
    BY DEF KeepsCalls, Kind
  <1>2. aim[q] \in Lane /\ \A t \in todo[q] : t[1] \in Lane /\ t[2] \in Sid
    BY DEF TypeOK
  <1>3. pc[q] \in ClaimsSteps => \A l \in Lane : SyncOwners(l)' \subseteq SyncOwners(l)
    BY DEF Holds, HoldsLocks, KeepsLanes
  <1>4. SaysOfLane(q) /\ (mode' = "default" => mode = "default")
        /\ \A t \in todo[q] : status[t[2]] = "closed" => status'[t[2]] = "closed"
    BY <1>2 DEF Says, KeepsLanes, KeepsSessions
  <1>5. CASE pc[q] \in ClaimsSteps
    BY <1>1, <1>2, <1>3, <1>4, <1>5 DEF SaysOfLane
  <1>6. CASE pc[q] \notin ClaimsSteps
    BY <1>1, <1>6 DEF SaysOfLane, ClaimsSteps
  <1> QED
    BY <1>5, <1>6

\* A step that minds the others disturbs nothing that they go by.
LEMMA OthersGoOn ==
    ASSUME TypeOK, OpsOK, Core, NEW p \in Proc \ dead, Minds(p), Spares(p), Holds(p)', Says(p)'
    PROVE  OpsOK' /\ Core'
  <1>1. ASSUME NEW q \in Proc \ dead, q # p
        PROVE  Holds(q)' /\ Says(q)'
    <2>1. /\ KeepsCalls(p) /\ KeepsSessions(p) /\ KeepsLanes(p) /\ KeepsBinding(p)
          /\ Holds(q) /\ Says(q) /\ Agrees /\ pc'[q] = pc[q] /\ q \in (Proc \ dead) \ {p}
      BY <1>1 DEF Minds, Core, Held, Spares
    <2> QED
      BY <2>1, OthersHold, OthersSession, OthersBeat, OthersBinding, OthersLane DEF Says
  <1>2. OpsOK'
    BY DEF OpsOK, Minds, KeepsCalls, Kind
  <1>3. dead' = dead /\ Agrees' /\ pc' \in [Proc -> Steps]
    BY DEF Minds, KeepsCalls, Spares
  <1> QED
    BY <1>1, <1>2, <1>3 DEF Core, Held

-----------------------------------------------------------------------------
(* Types *)

CallsOK ==
    /\ op \in [Proc -> Op]
    /\ at \in [Proc -> Sid \cup {Nobody}]
    /\ aim \in [Proc -> Lane]
    /\ todo \in [Proc -> SUBSET (Lane \X Sid)]
    /\ picked \in [Proc -> SUBSET ({"old", "expired"} \X Sid)]
    /\ seen \in [Proc -> Sid \cup {Nobody}]
    /\ unbound \subseteq Proc

FilesOK ==
    /\ binding \in [Claude -> [sid : Sid \cup {Nobody}, new : BOOLEAN]]
    /\ pointer \in Sid \cup {Nobody}
    /\ unlocked \subseteq Sid

LocksOK == lock \in [Locks -> Proc \cup {Nobody}] /\ dead \subseteq Proc

\* TypeOK, taken apart so that a step need only treat the parts it disturbs.
LEMMA TypeParts ==
    TypeOK <=> ProjectionTypeOK /\ CallsOK /\ FilesOK /\ LocksOK
  BY Zenon DEF TypeOK, CallsOK, FilesOK, LocksOK

\* The parts, in the next state, make up TypeOK again.
LEMMA TypeAssembles ==
    ASSUME ProjectionTypeOK', CallsOK', FilesOK', LocksOK'
    PROVE  TypeOK'
  BY Zenon DEF TypeOK, CallsOK, FilesOK, LocksOK

\* What a step leaves alone keeps its type.
LEMMA SameTypes ==
    /\ ProjectionTypeOK /\ view' = view /\ mode' = mode /\ corrupt' = corrupt => ProjectionTypeOK'
    /\ CallsOK /\ local' = local => CallsOK'
    /\ FilesOK /\ files' = files /\ unlocked' = unlocked => FilesOK'
    /\ LocksOK /\ lock' = lock /\ dead' = dead => LocksOK'
  BY DEF ProjectionTypeOK, view, sessions, lanes, CallsOK, local, FilesOK, files, LocksOK

-----------------------------------------------------------------------------
(* The ways of a step *)

\* p goes on to a step, and gives up those of the locks ks that it has.
Lands(p, step, ks) ==
    /\ step \in Steps
    /\ pc' = [pc EXCEPT ![p] = step]
    /\ lock' = Dropped(p, ks) \/ (ks = {} /\ lock' = lock)
    /\ op' = op
    /\ dead' = dead

\* It leaves alone what the others hold.
LEMMA LandsSpares ==
    ASSUME IInv, NEW p \in Proc \ dead, NEW step, NEW ks, Lands(p, step, ks)
    PROVE  /\ Spares(p) /\ LocksOK' /\ pc'[p] = step /\ Kind(p)' = Kind(p)
           /\ \A k \in Locks : lock'[k] = p <=> lock[k] = p /\ k \notin ks
  <1>1. LocksOK /\ pc \in [Proc -> Steps]
    BY TypeParts DEF IInv, Core
  <1>2. lock' = [k \in Locks |-> IF k \in ks /\ lock[k] = p THEN Nobody ELSE lock[k]]
    BY <1>1 DEF Lands, Dropped, LocksOK
  <1>3. \A k \in Locks : lock'[k] = p <=> lock[k] = p /\ k \notin ks
    BY <1>1, <1>2, StoreAssumption
  <1>4. \A q \in Proc \ {p} : \A k \in Locks : lock'[k] = q <=> lock[k] = q
    BY <1>1, <1>2, StoreAssumption
  <1>5. pc'[p] = step /\ pc' \in [Proc -> Steps] /\ \A q \in Proc \ {p} : pc'[q] = pc[q]
    BY <1>1 DEF Lands
  <1>6. LocksOK' /\ Kind(p)' = Kind(p)
    BY <1>1, <1>2 DEF LocksOK, Lands, Kind
  <1> QED
    BY <1>3, <1>4, <1>5, <1>6 DEF Spares

\* Nothing that the others go by changes.
Calm(p) ==
    /\ view' = view /\ mode' = mode /\ binding' = binding /\ unlocked' = unlocked
    /\ KeepsCalls(p)

\* Such a step minds the others.
LEMMA CalmMinds ==
    ASSUME Agrees, NEW p, Calm(p)
    PROVE  Minds(p)
  <1>1. /\ status' = status /\ beat' = beat /\ stale' = stale /\ claim' = claim /\ rank' = rank
        /\ mode' = mode /\ binding' = binding
    BY DEF Calm, view, sessions, lanes
  <1>2. Agrees'
    BY <1>1 DEF Agrees, OwnersKnown, RecordsAgree, FoldsAgree, BindingRegistered, SyncOwners,
                DefaultOwners, Bound
  <1> QED
    BY <1>1, <1>2 DEF Minds, Calm, KeepsSessions, KeepsLanes, KeepsBinding, SyncOwners

\* A call that is over holds nothing and goes by nothing.
LEMMA OverSays ==
    ASSUME NEW p, pc'[p] = "done"
    PROVE  Says(p)'
  BY DEF Says, SaysOfSession, SaysOfEntry, SaysOfBeat, SaysOfBinding, SaysOfLane, Ahead

\* The same of its locks.
LEMMA OverHolds ==
    ASSUME NEW p, pc'[p] = "done", \A k \in Locks : lock'[k] # p
    PROVE  Holds(p)'
  BY DEF Holds, HoldsLocks, Route, NeedsClose, NeedsBinding, CloseSteps, ClaimsSteps, Locks

\* A call that ends, having minded the others.
LEMMA Ends ==
    ASSUME IInv, NEW p \in Proc \ dead, Finish(p), op' = op, dead' = dead, Minds(p)
    PROVE  OpsOK' /\ Core' /\ LocksOK'
  <1>1. Lands(p, "done", Locks)
    BY DEF Lands, Finish, Goto, Steps
  <1>2. Spares(p) /\ LocksOK' /\ pc'[p] = "done" /\ \A k \in Locks : lock'[k] # p
    BY <1>1, LandsSpares
  <1> QED
    BY <1>2, OverSays, OverHolds, OthersGoOn DEF IInv

\* A call that goes on, having minded the others.
LEMMA GoesOn ==
    ASSUME IInv, NEW p \in Proc \ dead, NEW step, NEW ks, Lands(p, step, ks), Minds(p),
           Holds(p)', Says(p)'
    PROVE  OpsOK' /\ Core' /\ LocksOK'
  BY LandsSpares, OthersGoOn DEF IInv

\* A call that ends there and then.
LEMMA QuietEnds ==
    ASSUME IInv, NEW p \in Proc \ dead, Finish(p), UNCHANGED <<view, local, files, fixed, unlocked>>
    PROVE  IInv'
  <1>1. Calm(p) /\ op' = op /\ dead' = dead
    BY DEF Calm, KeepsCalls, local, files, fixed
  <1>2. OpsOK' /\ Core' /\ LocksOK'
    BY <1>1, CalmMinds, Ends DEF IInv, Core
  <1>3. ProjectionTypeOK' /\ CallsOK' /\ FilesOK'
    BY TypeParts, SameTypes DEF IInv, fixed
  <1> QED
    BY <1>2, <1>3, TypeAssembles DEF IInv

\* A call that only reads goes on, perhaps with another session and fewer locks.
LEMMA QuietMoves ==
    ASSUME IInv, NEW p \in Proc \ dead, NEW step \in Steps, NEW ks, Move(p, step, ks),
           at' = at \/ (\E s \in Sid \cup {Nobody} : Work(p, s)),
           Holds(p)', Says(p)'
    PROVE  IInv'
  <1>1. Calm(p) /\ Lands(p, step, ks)
    BY TypeParts DEF Calm, KeepsCalls, Move, Work, files, fixed, Lands, Goto, IInv, CallsOK
  <1>2. OpsOK' /\ Core' /\ LocksOK'
    BY <1>1, CalmMinds, GoesOn DEF IInv, Core
  <1>3. ProjectionTypeOK' /\ FilesOK'
    BY TypeParts, SameTypes DEF IInv, Move, fixed
  <1>4. CallsOK'
    BY TypeParts DEF IInv, CallsOK, Move, Work
  <1> QED
    BY <1>2, <1>3, <1>4, TypeAssembles DEF IInv

\* A call that only goes on, with the locks it has.
LEMMA QuietGoes ==
    ASSUME IInv, NEW p \in Proc \ dead, NEW step \in Steps, Goto(p, step), lock' = lock,
           UNCHANGED <<view, local, files, fixed, unlocked>>, Holds(p)', Says(p)'
    PROVE  IInv'
  <1>1. Calm(p) /\ Lands(p, step, {})
    BY DEF Calm, KeepsCalls, local, files, fixed, Lands, Goto
  <1>2. OpsOK' /\ Core' /\ LocksOK'
    BY <1>1, CalmMinds, GoesOn DEF IInv, Core
  <1>3. ProjectionTypeOK' /\ CallsOK' /\ FilesOK'
    BY TypeParts, SameTypes DEF IInv, fixed
  <1> QED
    BY <1>2, <1>3, TypeAssembles DEF IInv

-----------------------------------------------------------------------------
(* The events *)

\* What an event keeps for the others.
Keeps(p) == ProjectionTypeOK' /\ KeepsSessions(p) /\ KeepsLanes(p) /\ Agrees'

\* A step without an event.
LEMMA NoEvent ==
    ASSUME IInv, NEW p, view' = view, mode' = mode, corrupt' = corrupt, binding' = binding,
           unlocked' = unlocked
    PROVE  Keeps(p)
  <1>1. /\ status' = status /\ beat' = beat /\ stale' = stale /\ claim' = claim /\ rank' = rank
        /\ mode' = mode /\ binding' = binding
    BY DEF view, sessions, lanes
  <1>2. Agrees'
    BY <1>1 DEF IInv, Core, Agrees, OwnersKnown, RecordsAgree, FoldsAgree, BindingRegistered,
                SyncOwners, DefaultOwners, Bound
  <1>3. ProjectionTypeOK'
    BY TypeParts, SameTypes DEF IInv
  <1> QED
    BY <1>1, <1>2, <1>3 DEF Keeps, KeepsSessions, KeepsLanes, SyncOwners

\* The end of an active session, under the close lock.
LEMMA ClosedKeeps ==
    ASSUME IInv, NEW p, NEW s \in Active, SessionClosed(s), lock["close"] = p,
           mode' = mode, corrupt' = corrupt, binding' = binding, unlocked' = unlocked
    PROVE  Keeps(p) /\ status'[s] = "closed"
  <1>1. ProjectionTypeOK /\ Agrees /\ s \in Sid /\ status[s] = "active"
    BY TypeParts DEF IInv, Core, Active
  <1>2. /\ status' = [status EXCEPT ![s] = "closed"]
        /\ stale' = stale \ {s} /\ beat' = beat /\ claimSeq' = claimSeq
        /\ claim' = [l \in Lane |-> IF claim[l] = s THEN Nobody ELSE claim[l]]
        /\ rank' = [l \in Lane |-> [rank[l] EXCEPT ![s] = 0]]
    BY <1>1 DEF SessionClosed
  <1>3. ProjectionTypeOK'
    BY <1>1, <1>2 DEF ProjectionTypeOK
  <1>4. /\ status'[s] = "closed" /\ \A r \in Sid \ {s} : status'[r] = status[r]
        /\ \A l \in Lane : \A r \in Sid : rank'[l][r] = IF r = s THEN 0 ELSE rank[l][r]
        /\ \A l \in Lane : \A r \in Sid : claim'[l] = r <=> claim[l] = r /\ r # s
    BY <1>1, <1>2, ProjectionAssumption DEF ProjectionTypeOK
  <1>5. KeepsSessions(p)
    BY <1>1, <1>2, <1>4 DEF KeepsSessions
  <1>6. KeepsLanes(p)
    BY <1>4 DEF KeepsLanes, SyncOwners
  <1>7. OwnersKnown' /\ FoldsAgree'
    BY <1>1, <1>4 DEF Agrees, RecordsAgree, OwnersKnown, FoldsAgree, DefaultOwners, SyncOwners
  <1>8. BindingRegistered'
    <2>1. ASSUME NEW c \in Claude, binding[c].sid # Nobody
          PROVE  status'[binding[c].sid] # "absent"
      <3>1. status[binding[c].sid] # "absent" /\ binding[c].sid \in Sid
        BY <2>1, TypeParts
           DEF IInv, FilesOK, Core, Agrees, RecordsAgree, BindingRegistered, Bound
      <3> QED
        BY <1>4, <3>1
    <2> QED
      BY <2>1 DEF BindingRegistered, Bound
  <1> QED
    BY <1>3, <1>4, <1>5, <1>6, <1>7, <1>8 DEF Keeps, Agrees, RecordsAgree

\* The registration of a session that is not there, under an id that no other call has.
LEMMA RegisteredKeeps ==
    ASSUME IInv, NEW p, NEW s \in Sid, status[s] = "absent", SessionRegistered(s),
           \A q \in Proc \ {p} : /\ Kind(q) \in Minting => op[q].fresh # s
                                 /\ Kind(q) = "explicit" => op[q].sid # s \/ lock["close"] = p,
           mode' = mode, corrupt' = corrupt, binding' = binding, unlocked' = unlocked
    PROVE  Keeps(p) /\ status'[s] = "active"
  <1>1. ProjectionTypeOK /\ Agrees /\ OpsOK
    BY TypeParts DEF IInv, Core
  <1>2. /\ status' = [status EXCEPT ![s] = "active"] /\ beat' = [beat EXCEPT ![s] = "fresh"]
        /\ stale' = stale /\ claim' = claim /\ rank' = rank /\ claimSeq' = claimSeq
    BY DEF SessionRegistered, lanes
  <1>3. ProjectionTypeOK'
    BY <1>1, <1>2 DEF ProjectionTypeOK
  <1>4. status'[s] = "active" /\ \A r \in Sid \ {s} : status'[r] = status[r] /\ beat'[r] = beat[r]
    BY <1>1, <1>2 DEF ProjectionTypeOK
  <1>5. KeepsSessions(p)
    <2>1. \A r \in Active : beat'[r] = beat[r]
      BY <1>4 DEF Active
    <2>2. ASSUME NEW q \in Proc \ {p}
          PROVE  /\ Kind(q) \in Minting /\ status[op[q].fresh] = "absent" =>
                       status'[op[q].fresh] = "absent"
                 /\ Kind(q) = "explicit" /\ status[op[q].sid] = "absent" =>
                       status'[op[q].sid] = "absent" \/ lock["close"] = p
      BY <1>1, <1>4, <2>2 DEF OpsOK
    <2> QED
      BY <1>2, <1>4, <2>1, <2>2 DEF KeepsSessions
  <1>6. KeepsLanes(p)
    BY <1>2 DEF KeepsLanes, SyncOwners
  <1>7. OwnersKnown' /\ FoldsAgree'
    BY <1>1, <1>2, <1>4 DEF Agrees, RecordsAgree, OwnersKnown, FoldsAgree, DefaultOwners, SyncOwners
  <1>8. BindingRegistered'
    <2>1. ASSUME NEW c \in Claude, binding[c].sid # Nobody
          PROVE  status'[binding[c].sid] # "absent"
      <3>1. status[binding[c].sid] # "absent" /\ binding[c].sid \in Sid
        BY <2>1, TypeParts
           DEF IInv, FilesOK, Core, Agrees, RecordsAgree, BindingRegistered, Bound
      <3> QED
        BY <1>4, <3>1
    <2> QED
      BY <2>1 DEF BindingRegistered, Bound
  <1> QED
    BY <1>3, <1>4, <1>5, <1>6, <1>7, <1>8 DEF Keeps, Agrees, RecordsAgree

\* A heartbeat, under the close lock or known as one outside of it.
LEMMA HeartbeatKeeps ==
    ASSUME IInv, NEW p, NEW s \in Sid, SessionHeartbeat(s), unlocked \subseteq unlocked',
           lock["close"] = p \/ s \in unlocked', mode' = mode, corrupt' = corrupt, binding' = binding
    PROVE  Keeps(p)
  <1>1. ProjectionTypeOK /\ Agrees
    BY TypeParts DEF IInv, Core
  <1>2. /\ status' = status /\ stale' \subseteq stale
        /\ beat' = beat \/ beat' = [beat EXCEPT ![s] = "fresh"]
        /\ claim' = claim /\ rank' = rank /\ claimSeq' = claimSeq
    BY DEF SessionHeartbeat, lanes
  <1>3. ProjectionTypeOK'
    BY <1>1, <1>2 DEF ProjectionTypeOK
  <1>4. KeepsSessions(p)
    BY <1>1, <1>2 DEF KeepsSessions, Active, ProjectionTypeOK
  <1>5. KeepsLanes(p) /\ Agrees'
    BY <1>1, <1>2 DEF KeepsLanes, Agrees, OwnersKnown, RecordsAgree, FoldsAgree, BindingRegistered,
                      SyncOwners, DefaultOwners, Bound
  <1> QED
    BY <1>3, <1>4, <1>5 DEF Keeps

\* A stale mark, under the close lock.
LEMMA StaleKeeps ==
    ASSUME IInv, NEW p, NEW s \in Sid, SessionStaleDetected(s), lock["close"] = p,
           mode' = mode, corrupt' = corrupt, binding' = binding, unlocked' = unlocked
    PROVE  Keeps(p)
  <1>1. ProjectionTypeOK /\ Agrees
    BY TypeParts DEF IInv, Core
  <1>2. /\ status' = status /\ stale' = stale \cup {s} /\ beat' = beat
        /\ claim' = claim /\ rank' = rank /\ claimSeq' = claimSeq
    BY DEF SessionStaleDetected, lanes
  <1>3. ProjectionTypeOK' /\ KeepsSessions(p)
    BY <1>1, <1>2 DEF ProjectionTypeOK, KeepsSessions
  <1>4. KeepsLanes(p) /\ Agrees'
    BY <1>1, <1>2 DEF KeepsLanes, Agrees, OwnersKnown, RecordsAgree, FoldsAgree, BindingRegistered,
                      SyncOwners, DefaultOwners, Bound
  <1> QED
    BY <1>3, <1>4 DEF Keeps

\* A release, under the claims lock, of a lane that on a default spine has no other owner.
LEMMA ReleasedKeeps ==
    ASSUME IInv, NEW p, NEW s \in Sid, NEW l \in Lane, LaneReleased(s, l), lock["claims"] = p,
           mode = "default" => SyncOwners(l) \subseteq {s},
           mode' = mode, corrupt' = corrupt, binding' = binding, unlocked' = unlocked
    PROVE  Keeps(p)
  <1>1. ProjectionTypeOK /\ Agrees
    BY TypeParts DEF IInv, Core
  <1>2. /\ status' = status /\ stale' = stale /\ beat' = beat /\ claimSeq' = claimSeq
        /\ claim' = [claim EXCEPT ![l] = Nobody] /\ rank' = [rank EXCEPT ![l][s] = 0]
    BY DEF LaneReleased, sessions
  <1>3. ProjectionTypeOK'
    BY <1>1, <1>2 DEF ProjectionTypeOK
  <1>4. /\ \A r \in Sid : rank'[l][r] = IF r = s THEN 0 ELSE rank[l][r]
        /\ \A k \in Lane \ {l} : rank'[k] = rank[k] /\ claim'[k] = claim[k]
        /\ claim'[l] = Nobody
    BY <1>1, <1>2 DEF ProjectionTypeOK
  <1>5. KeepsSessions(p) /\ KeepsLanes(p)
    BY <1>2 DEF KeepsSessions, KeepsLanes
  <1>6. OwnersKnown'
    BY <1>1, <1>2, <1>4, ProjectionAssumption DEF Agrees, OwnersKnown
  <1>7. FoldsAgree'
    <2>1. ASSUME mode = "default", NEW k \in Lane, NEW r \in Sid
          PROVE  claim'[k] = r <=> rank'[k][r] > 0
      BY <1>1, <1>4, <2>1, ProjectionAssumption
         DEF Agrees, RecordsAgree, FoldsAgree, DefaultOwners, SyncOwners
    <2> QED
      BY <2>1 DEF FoldsAgree, DefaultOwners, SyncOwners
  <1>8. BindingRegistered'
    BY <1>1, <1>2 DEF Agrees, RecordsAgree, BindingRegistered, Bound
  <1> QED
    BY <1>3, <1>5, <1>6, <1>7, <1>8 DEF Keeps, Agrees, RecordsAgree

\* A claim of an active session, under the claims lock, on a lane without another owner.
LEMMA ClaimedKeeps ==
    ASSUME IInv, NEW p, NEW s \in Active, NEW l \in Lane, LaneClaimed(s, l), lock["claims"] = p,
           SyncOwners(l) \subseteq {s},
           mode' = mode, corrupt' = corrupt, binding' = binding, unlocked' = unlocked
    PROVE  Keeps(p) /\ SyncOwners(l)' = {s} /\ DefaultOwners(l)' = {s}
  <1>1. ProjectionTypeOK /\ Agrees /\ s \in Sid /\ status[s] = "active"
    BY TypeParts DEF IInv, Core, Active
  <1>2. /\ status' = status /\ stale' = stale /\ beat' = beat /\ claimSeq' = claimSeq + 1
        /\ claim' = [claim EXCEPT ![l] = s]
        /\ rank' = IF rank[l][s] > 0 THEN rank ELSE [rank EXCEPT ![l][s] = claimSeq + 1]
    BY DEF LaneClaimed, sessions
  <1>3. claimSeq + 1 \in Nat /\ claimSeq + 1 > 0
    BY <1>1 DEF ProjectionTypeOK
  <1>4. ProjectionTypeOK'
    BY <1>1, <1>2, <1>3 DEF ProjectionTypeOK
  <1>5. /\ rank'[l][s] > 0 /\ claim'[l] = s
        /\ \A r \in Sid \ {s} : rank'[l][r] = rank[l][r]
        /\ \A k \in Lane \ {l} : rank'[k] = rank[k] /\ claim'[k] = claim[k]
    BY <1>1, <1>2, <1>3 DEF ProjectionTypeOK
  <1>6. KeepsSessions(p) /\ KeepsLanes(p)
    BY <1>2 DEF KeepsSessions, KeepsLanes
  <1>7. OwnersKnown'
    BY <1>1, <1>2, <1>5 DEF Agrees, OwnersKnown
  <1>8. SyncOwners(l)' = {s} /\ DefaultOwners(l)' = {s}
    BY <1>1, <1>5 DEF SyncOwners, DefaultOwners
  <1>9. FoldsAgree'
    BY <1>1, <1>5, <1>8 DEF Agrees, RecordsAgree, FoldsAgree, DefaultOwners, SyncOwners
  <1>10. BindingRegistered'
    BY <1>1, <1>2 DEF Agrees, RecordsAgree, BindingRegistered, Bound
  <1> QED
    BY <1>4, <1>6, <1>7, <1>8, <1>9, <1>10 DEF Keeps, Agrees, RecordsAgree

\* A step that makes an event and binds nothing minds the others.
LEMMA EventMinds ==
    ASSUME NEW p, Keeps(p), binding' = binding, op' = op, dead' = dead, at' = at, aim' = aim,
           unbound' = unbound, \A q \in Proc \ {p} : todo'[q] = todo[q]
    PROVE  Minds(p)
  BY DEF Minds, Keeps, KeepsCalls, KeepsBinding

-----------------------------------------------------------------------------
(* The ways of a step, once more *)

\* A step to which nothing new has come: what is read at it.
LEMMA CalmViews ==
    ASSUME NEW p, Calm(p)
    PROVE  /\ status' = status /\ beat' = beat /\ stale' = stale /\ claim' = claim /\ rank' = rank
           /\ mode' = mode /\ binding' = binding /\ unlocked' = unlocked /\ op' = op
           /\ Active' = Active /\ \A l : SyncOwners(l)' = SyncOwners(l)
  BY DEF Calm, KeepsCalls, view, sessions, lanes, Active, SyncOwners

\* Any step of p that goes on, minds the others, and leaves p with what it should hold and go by.
LEMMA Onwards ==
    ASSUME IInv, NEW p \in Proc \ dead, NEW step, NEW ks, Lands(p, step, ks), Minds(p),
           ProjectionTypeOK', CallsOK', FilesOK', Holds(p)', Says(p)'
    PROVE  IInv'
  BY GoesOn, TypeAssembles DEF IInv

\* p takes the lock k, which is free, and waits for no other at this step.
TakesLock(p, step, next, k) ==
    /\ Take(p, step, next)
    /\ k \in Locks /\ \A j \in Locks : step \in LockOf[j] => j = k
    /\ next \in Steps

\* Nobody else notices.
LEMMA TakeSpares ==
    ASSUME IInv, NEW p \in Proc \ dead, NEW step, NEW next, NEW k, TakesLock(p, step, next, k)
    PROVE  /\ Spares(p) /\ LocksOK' /\ Calm(p) /\ pc[p] = step /\ pc'[p] = next
           /\ lock'[k] = p /\ \A j \in Locks \ {k} : lock'[j] = p <=> lock[j] = p
           /\ at' = at /\ aim' = aim /\ todo' = todo
           /\ Kind(p)' = Kind(p) /\ (p \in unbound' <=> p \in unbound)
  <1>1. LocksOK /\ pc \in [Proc -> Steps]
    BY TypeParts DEF IInv, Core
  <1>2. /\ pc[p] = step /\ Free(k) /\ lock' = [lock EXCEPT ![k] = p]
        /\ pc' = [pc EXCEPT ![p] = next] /\ k \in Locks /\ next \in Steps
        /\ UNCHANGED <<view, local, files, fixed, unlocked>>
    BY DEF TakesLock, Take, At, Goto
  <1>3. /\ lock'[k] = p /\ \A j \in Locks \ {k} : lock'[j] = lock[j]
        /\ pc'[p] = next /\ pc' \in [Proc -> Steps] /\ \A q \in Proc \ {p} : pc'[q] = pc[q]
    BY <1>1, <1>2 DEF LocksOK
  <1>4. ASSUME NEW q \in (Proc \ dead) \ {p}, NEW j \in Locks
        PROVE  lock'[j] = q <=> lock[j] = q
    <2>1. lock[k] # q
      BY <1>2, <1>4, StoreAssumption DEF Free
    <2> QED
      BY <1>3, <1>4, <2>1
  <1>5. LocksOK' /\ Spares(p)
    BY <1>1, <1>2, <1>3, <1>4 DEF LocksOK, Spares, fixed
  <1>6. Calm(p) /\ at' = at /\ aim' = aim /\ todo' = todo /\ op' = op /\ unbound' = unbound
    BY <1>2 DEF Calm, KeepsCalls, local, files, fixed
  <1> QED
    BY <1>2, <1>3, <1>5, <1>6 DEF Kind

\* A step that takes a lock.
LEMMA Takes ==
    ASSUME IInv, NEW p \in Proc \ dead, NEW step, NEW next, NEW k, TakesLock(p, step, next, k),
           Holds(p)', Says(p)'
    PROVE  IInv'
  <1>1. Spares(p) /\ LocksOK' /\ Calm(p)
    BY TakeSpares
  <1>2. OpsOK' /\ Core'
    BY <1>1, CalmMinds, OthersGoOn DEF IInv, Core
  <1>3. ProjectionTypeOK' /\ CallsOK' /\ FilesOK'
    BY TypeParts, SameTypes DEF IInv, TakesLock, Take, fixed
  <1> QED
    BY <1>1, <1>2, <1>3, TypeAssembles DEF IInv

\* The locks of the lane writers.
LEMMA TakeClaimLocksKeeps ==
    ASSUME IInv, NEW p \in Proc \ dead, TakeClaimLocks(p)
    PROVE  IInv'
  <1>1. Holds(p) /\ Says(p)
    BY DEF IInv, Core, Held
  <1>2. CASE Take(p, "close", "claims")
    <2>1. TakesLock(p, "close", "claims", "close")
      BY <1>2 DEF TakesLock, Locks, LockOf, Steps, CloseMay, ClaimsSteps
    <2>2. Holds(p)'
      BY <1>1, <2>1, TakeSpares
         DEF Holds, HoldsLocks, Route, NeedsClose, NeedsBinding, MayBind, Locks, ClaimsSteps,
             CloseSteps, CloseMay, Owning
    <2>3. Says(p)'
      BY <2>1, TakeSpares
         DEF Says, SaysOfSession, SaysOfEntry, SaysOfBeat, SaysOfBinding, SaysOfLane, Ahead
    <2> QED
      BY <2>1, <2>2, <2>3, Takes
  <1>3. CASE Take(p, "claims", "look")
    <2>1. TakesLock(p, "claims", "look", "claims")
      BY <1>3 DEF TakesLock, Locks, LockOf, Steps, ClaimsSteps
    <2>2. Holds(p)'
      BY <1>1, <2>1, TakeSpares
         DEF Holds, HoldsLocks, Route, NeedsClose, NeedsBinding, MayBind, Locks, ClaimsSteps,
             CloseSteps, CloseMay, Owning
    <2>3. Says(p)'
      BY <2>1, TakeSpares
         DEF Says, SaysOfSession, SaysOfEntry, SaysOfBeat, SaysOfBinding, SaysOfLane, Ahead
    <2> QED
      BY <2>1, <2>2, <2>3, Takes
  <1> QED
    BY <1>2, <1>3 DEF TakeClaimLocks

\* The close lock of the session writers.
LEMMA TakeCloseLockKeeps ==
    ASSUME IInv, NEW p \in Proc \ dead, TakeCloseLock(p)
    PROVE  IInv'
  <1>1. Holds(p) /\ Says(p)
    BY DEF IInv, Core, Held
  <1>2. CASE Take(p, "shut", "shutLook")
    <2>1. TakesLock(p, "shut", "shutLook", "close")
      BY <1>2 DEF TakesLock, Locks, LockOf, Steps, CloseSteps, CloseMay
    <2>2. Holds(p)'
      BY <1>1, <2>1, TakeSpares
         DEF Holds, HoldsLocks, Route, NeedsClose, NeedsBinding, MayBind, Locks, ClaimsSteps,
             CloseSteps, CloseMay, Owning
    <2>3. Says(p)'
      BY <1>1, <2>1, TakeSpares, CalmViews
         DEF Says, SaysOfSession, SaysOfEntry, SaysOfBeat, SaysOfBinding, SaysOfLane, Ahead,
             Holds, Route, Claude_, Bound, Kind
    <2> QED
      BY <2>1, <2>2, <2>3, Takes
  <1>3. CASE Take(p, "beat", "beating")
    <2>1. TakesLock(p, "beat", "beating", "close")
      BY <1>3 DEF TakesLock, Locks, LockOf, Steps, CloseSteps, CloseMay
    <2>2. Holds(p)'
      BY <1>1, <2>1, TakeSpares
         DEF Holds, HoldsLocks, Route, NeedsClose, NeedsBinding, MayBind, Locks, ClaimsSteps,
             CloseSteps, CloseMay, Owning
    <2>3. Says(p)'
      BY <1>1, <2>1, TakeSpares, CalmViews
         DEF Says, SaysOfSession, SaysOfEntry, SaysOfBeat, SaysOfBinding, SaysOfLane, Ahead,
             Holds, Route, Claude_, Bound, Kind
    <2> QED
      BY <2>1, <2>2, <2>3, Takes
  <1>4. CASE Take(p, "renew", "renewLook")
    <2>1. TakesLock(p, "renew", "renewLook", "close")
      BY <1>4 DEF TakesLock, Locks, LockOf, Steps, CloseSteps, CloseMay
    <2>2. Holds(p)'
      BY <1>1, <2>1, TakeSpares
         DEF Holds, HoldsLocks, Route, NeedsClose, NeedsBinding, MayBind, Locks, ClaimsSteps,
             CloseSteps, CloseMay, Owning
    <2>3. Says(p)'
      BY <1>1, <2>1, TakeSpares, CalmViews
         DEF Says, SaysOfSession, SaysOfEntry, SaysOfBeat, SaysOfBinding, SaysOfLane, Ahead,
             Holds, Route, Claude_, Bound, Kind
    <2> QED
      BY <2>1, <2>2, <2>3, Takes
  <1>5. CASE Take(p, "enter", "enterLook")
    <2>1. TakesLock(p, "enter", "enterLook", "close")
      BY <1>5 DEF TakesLock, Locks, LockOf, Steps, CloseSteps, CloseMay
    <2>2. Holds(p)'
      BY <1>1, <2>1, TakeSpares
         DEF Holds, HoldsLocks, Route, NeedsClose, NeedsBinding, MayBind, Locks, ClaimsSteps,
             CloseSteps, CloseMay, Owning
    <2>3. Says(p)'
      BY <1>1, <2>1, TakeSpares, CalmViews
         DEF Says, SaysOfSession, SaysOfEntry, SaysOfBeat, SaysOfBinding, SaysOfLane, Ahead,
             Holds, Route, Claude_, Bound, Kind
    <2> QED
      BY <2>1, <2>2, <2>3, Takes
  <1>6. CASE Take(p, "stale", "staleLook")
    <2>1. TakesLock(p, "stale", "staleLook", "close")
      BY <1>6 DEF TakesLock, Locks, LockOf, Steps, CloseSteps, CloseMay
    <2>2. Holds(p)'
      BY <1>1, <2>1, TakeSpares
         DEF Holds, HoldsLocks, Route, NeedsClose, NeedsBinding, MayBind, Locks, ClaimsSteps,
             CloseSteps, CloseMay, Owning
    <2>3. Says(p)'
      BY <1>1, <2>1, TakeSpares, CalmViews
         DEF Says, SaysOfSession, SaysOfEntry, SaysOfBeat, SaysOfBinding, SaysOfLane, Ahead,
             Holds, Route, Claude_, Bound, Kind
    <2> QED
      BY <2>1, <2>2, <2>3, Takes
  <1> QED
    BY <1>2, <1>3, <1>4, <1>5, <1>6 DEF TakeCloseLock

\* The locks of the hooks.
LEMMA TakeHookLocksKeeps ==
    ASSUME IInv, NEW p \in Proc \ dead, TakeHookLocks(p)
    PROVE  IInv'
  <1>1. Holds(p) /\ Says(p)
    BY DEF IInv, Core, Held
  <1>2. CASE Take(p, "startBinding", "startClose")
    <2>1. TakesLock(p, "startBinding", "startClose", "binding")
      BY <1>2 DEF TakesLock, Locks, LockOf, Steps, CloseSteps, CloseMay
    <2>2. Holds(p)'
      BY <1>1, <2>1, TakeSpares
         DEF Holds, HoldsLocks, Route, NeedsClose, NeedsBinding, MayBind, Locks, ClaimsSteps,
             CloseSteps, CloseMay, Owning
    <2>3. Says(p)'
      BY <1>1, <2>1, TakeSpares, CalmViews
         DEF Says, SaysOfSession, SaysOfEntry, SaysOfBeat, SaysOfBinding, SaysOfLane, Ahead,
             Holds, Route, Claude_, Bound, Kind
    <2> QED
      BY <2>1, <2>2, <2>3, Takes
  <1>3. CASE Take(p, "startClose", "startLook")
    <2>1. TakesLock(p, "startClose", "startLook", "close")
      BY <1>3 DEF TakesLock, Locks, LockOf, Steps, CloseSteps, CloseMay
    <2>2. Holds(p)'
      BY <1>1, <2>1, TakeSpares
         DEF Holds, HoldsLocks, Route, NeedsClose, NeedsBinding, MayBind, Locks, ClaimsSteps,
             CloseSteps, CloseMay, Owning
    <2>3. Says(p)'
      BY <1>1, <2>1, TakeSpares, CalmViews
         DEF Says, SaysOfSession, SaysOfEntry, SaysOfBeat, SaysOfBinding, SaysOfLane, Ahead,
             Holds, Route, Claude_, Bound, Kind
    <2> QED
      BY <2>1, <2>2, <2>3, Takes
  <1>4. CASE Take(p, "endBinding", "readBinding")
    <2>1. TakesLock(p, "endBinding", "readBinding", "binding")
      BY <1>4 DEF TakesLock, Locks, LockOf, Steps, CloseSteps, CloseMay
    <2>2. Holds(p)'
      BY <1>1, <2>1, TakeSpares
         DEF Holds, HoldsLocks, Route, NeedsClose, NeedsBinding, MayBind, Locks, ClaimsSteps,
             CloseSteps, CloseMay, Owning
    <2>3. Says(p)'
      BY <1>1, <2>1, TakeSpares, CalmViews
         DEF Says, SaysOfSession, SaysOfEntry, SaysOfBeat, SaysOfBinding, SaysOfLane, Ahead,
             Holds, Route, Claude_, Bound, Kind
    <2> QED
      BY <2>1, <2>2, <2>3, Takes
  <1>5. CASE Take(p, "endClose", "shutLook")
    <2>1. TakesLock(p, "endClose", "shutLook", "close")
      BY <1>5 DEF TakesLock, Locks, LockOf, Steps, CloseSteps, CloseMay
    <2>2. Holds(p)'
      BY <1>1, <2>1, TakeSpares
         DEF Holds, HoldsLocks, Route, NeedsClose, NeedsBinding, MayBind, Locks, ClaimsSteps,
             CloseSteps, CloseMay, Owning
    <2>3. op' = op /\ at' = at /\ binding' = binding /\ pc[p] = "endClose" /\ pc'[p] = "shutLook"
      BY <2>1, TakeSpares, CalmViews
    <2>4. SaysOfBinding(p)'
      BY <1>1, <2>3 DEF Says, SaysOfBinding, Claude_, Bound, Kind
    <2>5. Says(p)'
      BY <2>3, <2>4 DEF Says, SaysOfSession, SaysOfEntry, SaysOfBeat, SaysOfLane, Ahead
    <2> QED
      BY <2>1, <2>2, <2>5, Takes
  <1>6. CASE Take(p, "mintBinding", "mintClose")
    <2>1. TakesLock(p, "mintBinding", "mintClose", "binding")
      BY <1>6 DEF TakesLock, Locks, LockOf, Steps, CloseSteps, CloseMay
    <2>2. Holds(p)'
      BY <1>1, <2>1, TakeSpares
         DEF Holds, HoldsLocks, Route, NeedsClose, NeedsBinding, MayBind, Locks, ClaimsSteps,
             CloseSteps, CloseMay, Owning
    <2>3. Says(p)'
      BY <1>1, <2>1, TakeSpares, CalmViews
         DEF Says, SaysOfSession, SaysOfEntry, SaysOfBeat, SaysOfBinding, SaysOfLane, Ahead,
             Holds, Route, Claude_, Bound, Kind
    <2> QED
      BY <2>1, <2>2, <2>3, Takes
  <1>7. CASE Take(p, "mintClose", "mintLook")
    <2>1. TakesLock(p, "mintClose", "mintLook", "close")
      BY <1>7 DEF TakesLock, Locks, LockOf, Steps, CloseSteps, CloseMay
    <2>2. Holds(p)'
      BY <1>1, <2>1, TakeSpares
         DEF Holds, HoldsLocks, Route, NeedsClose, NeedsBinding, MayBind, Locks, ClaimsSteps,
             CloseSteps, CloseMay, Owning
    <2>3. Says(p)'
      BY <1>1, <2>1, TakeSpares, CalmViews
         DEF Says, SaysOfSession, SaysOfEntry, SaysOfBeat, SaysOfBinding, SaysOfLane, Ahead,
             Holds, Route, Claude_, Bound, Kind
    <2> QED
      BY <2>1, <2>2, <2>3, Takes
  <1> QED
    BY <1>2, <1>3, <1>4, <1>5, <1>6, <1>7 DEF TakeHookLocks

-----------------------------------------------------------------------------
(* The steps that only read *)

\* What such a step leaves.
LEMMA MoveViews ==
    ASSUME IInv, NEW p \in Proc \ dead, NEW step \in Steps, NEW ks, Move(p, step, ks),
           at' = at \/ (\E s \in Sid \cup {Nobody} : Work(p, s))
    PROVE  /\ pc'[p] = step /\ Kind(p)' = Kind(p)
           /\ \A k \in Locks : lock'[k] = p <=> lock[k] = p /\ k \notin ks
           /\ status' = status /\ beat' = beat /\ stale' = stale /\ binding' = binding
           /\ unlocked' = unlocked /\ op' = op /\ aim' = aim /\ todo' = todo /\ unbound' = unbound
           /\ Active' = Active /\ mode' = mode /\ \A l : SyncOwners(l)' = SyncOwners(l)
  <1>1. Calm(p) /\ Lands(p, step, ks)
    BY TypeParts DEF Calm, KeepsCalls, Move, Work, files, fixed, Lands, Goto, IInv, CallsOK
  <1> QED
    BY <1>1, CalmViews, LandsSpares DEF Move

\* One with which the call is over.
LEMMA MoveEnds ==
    ASSUME IInv, NEW p \in Proc \ dead, NEW ks, Move(p, "done", ks), at' = at,
           \A k \in Locks \ ks : lock[k] # p
    PROVE  IInv'
  <1>1. "done" \in Steps
    BY DEF Steps
  <1>2. Holds(p)' /\ Says(p)'
    BY <1>1, MoveViews, OverHolds, OverSays
  <1> QED
    BY <1>1, <1>2, QuietMoves

\* A close that is not made: without the lock, or of a session that is not to be closed.
LEMMA CloseLockBusyKeeps ==
    ASSUME IInv, NEW p \in Proc \ dead, CloseLockBusy(p)
    PROVE  IInv'
  <1>1. Holds(p) /\ Says(p) /\ at' = at
    BY DEF IInv, Core, Held, CloseLockBusy
  <1>2. ASSUME pc[p] \in {"shut", "enter"}, Kind(p) # "start",
               Move(p, "done", Locks) \/ Move(p, "done", {})
        PROVE  IInv'
    <2>1. \A k \in Locks : lock[k] # p
      BY <1>1, <1>2 DEF Holds, HoldsLocks, Locks, ClaimsSteps, CloseMay, CloseSteps, MayBind
    <2> QED
      BY <1>1, <1>2, <2>1, MoveEnds
  <1>3. ASSUME pc[p] \in {"shut", "stale"}, Kind(p) \in Sweepers,
               \E ks \in {{}, Locks} : Move(p, "sweeping", ks)
        PROVE  IInv'
    <2>1. PICK ks \in {{}, Locks} : Move(p, "sweeping", ks)
      BY <1>3
    <2>2. "sweeping" \in Steps
      BY DEF Steps
    <2>3. Holds(p)'
      BY <1>1, <1>3, <2>1, <2>2, MoveViews
         DEF Holds, HoldsLocks, Route, NeedsClose, NeedsBinding, Locks, ClaimsSteps, CloseSteps,
             CloseMay, MayBind, Sweepers
    <2>4. Says(p)'
      BY <1>1, <2>1, <2>2, MoveViews
         DEF Says, SaysOfSession, SaysOfEntry, SaysOfBeat, SaysOfBinding, SaysOfLane, Ahead
    <2> QED
      BY <1>1, <2>1, <2>2, <2>3, <2>4, QuietMoves
  <1>4. ASSUME NEW step \in {"beating", "entering", "enter"}, Move(p, step, {}),
               step = "beating" => pc[p] = "beat",
               step = "enter" => pc[p] = "renew",
               step = "entering" => pc[p] = "enter" /\ Kind(p) # "explicit"
        PROVE  IInv'
    <2>1. step \in Steps
      BY <1>4 DEF Steps, CloseMay, ClaimsSteps
    <2>2. Holds(p)'
      BY <1>1, <1>4, <2>1, MoveViews
         DEF Holds, HoldsLocks, Route, NeedsClose, NeedsBinding, Locks, ClaimsSteps, CloseSteps,
             CloseMay, MayBind, Owning
    <2>3. SaysOfEntry(p)'
      BY <1>1, <1>4, <2>1, MoveViews DEF Says, SaysOfEntry, Ahead, Holds, Route
    <2>4. Says(p)'
      BY <1>1, <1>4, <2>1, <2>3, MoveViews
         DEF Says, SaysOfSession, SaysOfBeat, SaysOfBinding, SaysOfLane
    <2> QED
      BY <1>1, <1>4, <2>1, <2>2, <2>4, QuietMoves
  <1> QED
    BY <1>1, <1>2, <1>3, <1>4
       DEF CloseLockBusy, Busy, At, Sweeps, Sweepers, Holds, Route

\* What a close looks at.
LEMMA CheckCloseKeeps ==
    ASSUME IInv, NEW p \in Proc \ dead, CheckClose(p)
    PROVE  IInv'
  <1>1. Holds(p) /\ Says(p) /\ at' = at /\ pc[p] = "shutLook"
    BY DEF IInv, Core, Held, CheckClose, At
  <1>2. ASSUME Move(p, "closing", {}), at[p] \in Active, Sweeps(p) => beat[at[p]] = "expired"
        PROVE  IInv'
    <2>1. "closing" \in Steps
      BY DEF Steps, CloseSteps, CloseMay
    <2>2. Holds(p)'
      BY <1>1, <1>2, <2>1, MoveViews
         DEF Holds, HoldsLocks, Route, NeedsClose, NeedsBinding, MayBind, Locks, ClaimsSteps,
             CloseSteps, CloseMay, Owning, Sweepers
    <2>3. Says(p)'
      BY <1>1, <1>2, <2>1, MoveViews
         DEF Says, SaysOfSession, SaysOfEntry, SaysOfBeat, SaysOfBinding, SaysOfLane, Ahead,
             Holds, Route, Minting, Owning, Sweeps, Sweepers, Kind, Claude_, Bound
    <2> QED
      BY <1>1, <1>2, <2>1, <2>2, <2>3, QuietMoves
  <1>3. ASSUME Move(p, "sweeping", {"close"}), Kind(p) \in Sweepers
        PROVE  IInv'
    <2>1. "sweeping" \in Steps
      BY DEF Steps, CloseSteps, CloseMay
    <2>2. Holds(p)'
      BY <1>1, <1>3, <2>1, MoveViews
         DEF Holds, HoldsLocks, Route, NeedsClose, NeedsBinding, MayBind, Locks, ClaimsSteps,
             CloseSteps, CloseMay, Owning, Sweepers
    <2>3. Says(p)'
      BY <1>1, <1>3, <2>1, MoveViews
         DEF Says, SaysOfSession, SaysOfEntry, SaysOfBeat, SaysOfBinding, SaysOfLane, Ahead,
             Holds, Route, Minting, Owning, Sweeps, Sweepers, Kind, Claude_, Bound
    <2> QED
      BY <1>1, <1>3, <2>1, <2>2, <2>3, QuietMoves
  <1>4. ASSUME Move(p, "unbinding", {"close"}), Kind(p) = "end", at[p] \notin Active
        PROVE  IInv'
    <2>1. "unbinding" \in Steps
      BY DEF Steps
    <2>2. Holds(p)'
      BY <1>1, <1>4, <2>1, MoveViews
         DEF Holds, HoldsLocks, Route, NeedsClose, NeedsBinding, MayBind, Locks, ClaimsSteps,
             CloseSteps, CloseMay, Owning, Sweepers
    <2>3. at[p] \in Sid /\ status[at[p]] = "closed"
      <3>1. Claude_(p) \in Claude /\ Bound(Claude_(p)) = at[p] /\ at[p] # Nobody /\ at[p] \in Sid
        BY <1>1, <1>4, TypeParts
           DEF Says, SaysOfBinding, IInv, CallsOK, Op, Claude_, Bound
      <3>2. status[at[p]] \in {"absent", "active", "closed"}
        BY <3>1, TypeParts DEF IInv, ProjectionTypeOK
      <3>3. status[at[p]] # "absent"
        BY <3>1 DEF IInv, Core, Agrees, RecordsAgree, BindingRegistered
      <3> QED
        BY <1>4, <3>1, <3>2, <3>3 DEF Active
    <2>4. Says(p)'
      BY <1>1, <1>4, <2>1, <2>3, MoveViews
         DEF Says, SaysOfSession, SaysOfEntry, SaysOfBeat, SaysOfBinding, SaysOfLane, Ahead
    <2> QED
      BY <1>1, <1>4, <2>1, <2>2, <2>4, QuietMoves
  <1>5. ASSUME Move(p, "done", Locks)
        PROVE  IInv'
    BY <1>1, <1>5, MoveEnds
  <1> QED
    BY <1>1, <1>2, <1>3, <1>4, <1>5 DEF CheckClose, Sweeps, Sweepers

\* What a renewal looks at.
LEMMA CheckRenewKeeps ==
    ASSUME IInv, NEW p \in Proc \ dead, CheckRenew(p)
    PROVE  IInv'
  <1>1. Holds(p) /\ Says(p) /\ at' = at /\ pc[p] = "renewLook"
    BY DEF IInv, Core, Held, CheckRenew, At
  <1>2. ASSUME Move(p, "renewing", {}), at[p] \in Active
        PROVE  IInv'
    <2>1. "renewing" \in Steps
      BY DEF Steps, CloseSteps, CloseMay
    <2>2. Holds(p)'
      BY <1>1, <1>2, <2>1, MoveViews
         DEF Holds, HoldsLocks, Route, NeedsClose, NeedsBinding, MayBind, Locks, ClaimsSteps,
             CloseSteps, CloseMay, Owning, Sweepers
    <2>3. Says(p)'
      BY <1>1, <1>2, <2>1, MoveViews
         DEF Says, SaysOfSession, SaysOfEntry, SaysOfBeat, SaysOfBinding, SaysOfLane, Ahead,
             Holds, Route, Minting, Owning, Sweeps, Sweepers, Kind, Claude_, Bound
    <2> QED
      BY <1>1, <1>2, <2>1, <2>2, <2>3, QuietMoves
  <1>3. ASSUME Move(p, "enter", {"close"})
        PROVE  IInv'
    <2>1. "enter" \in Steps
      BY DEF Steps, CloseSteps, CloseMay
    <2>2. Holds(p)'
      BY <1>1, <1>3, <2>1, MoveViews
         DEF Holds, HoldsLocks, Route, NeedsClose, NeedsBinding, MayBind, Locks, ClaimsSteps,
             CloseSteps, CloseMay, Owning, Sweepers
    <2>3. Says(p)'
      BY <1>1, <1>3, <2>1, MoveViews
         DEF Says, SaysOfSession, SaysOfEntry, SaysOfBeat, SaysOfBinding, SaysOfLane, Ahead,
             Holds, Route, Minting, Owning, Sweeps, Sweepers, Kind, Claude_, Bound
    <2> QED
      BY <1>1, <1>3, <2>1, <2>2, <2>3, QuietMoves
  <1> QED
    BY <1>1, <1>2, <1>3 DEF CheckRenew

\* What a registration looks at.
LEMMA CheckEntryKeeps ==
    ASSUME IInv, NEW p \in Proc \ dead, CheckEntry(p)
    PROVE  IInv'
  <1>1. Holds(p) /\ Says(p) /\ pc[p] = "enterLook" /\ p \in Proc
    BY DEF IInv, Core, Held, CheckEntry, At
  <1>2. ASSUME Move(p, "entering", {}), at' = at, Kind(p) = "explicit", status[at[p]] = "absent"
        PROVE  IInv'
    <2>1. "entering" \in Steps
      BY DEF Steps, CloseSteps, CloseMay
    <2>2. Holds(p)'
      BY <1>1, <1>2, <2>1, MoveViews
         DEF Holds, HoldsLocks, Route, NeedsClose, NeedsBinding, MayBind, Locks, ClaimsSteps,
             CloseSteps, CloseMay, Owning, Sweepers
    <2>3. Says(p)'
      BY <1>1, <1>2, <2>1, MoveViews
         DEF Says, SaysOfSession, SaysOfEntry, SaysOfBeat, SaysOfBinding, SaysOfLane, Ahead,
             Holds, Route, Minting, Owning, Sweeps, Sweepers, Kind, Claude_, Bound
    <2> QED
      BY <1>1, <1>2, <2>1, <2>2, <2>3, QuietMoves
  <1>3. ASSUME Move(p, "done", Locks), at' = at
        PROVE  IInv'
    BY <1>1, <1>3, MoveEnds
  <1>4. ASSUME Move(p, "entering", {}), Work(p, op[p].fresh), Kind(p) # "explicit",
               op[p].fresh \in Sid
        PROVE  IInv'
    <2>1. "entering" \in Steps
      BY DEF Steps, CloseSteps, CloseMay
    <2>2. Holds(p)'
      BY <1>1, <1>4, <2>1, MoveViews
         DEF Holds, HoldsLocks, Route, NeedsClose, NeedsBinding, MayBind, Locks, ClaimsSteps,
             CloseSteps, CloseMay, Owning, Sweepers
    <2>3. Says(p)'
      BY <1>1, <1>4, <2>1, MoveViews
         DEF Says, SaysOfSession, SaysOfEntry, SaysOfBeat, SaysOfBinding, SaysOfLane, Ahead,
             Holds, Route, Minting, Owning, Sweeps, Sweepers, Kind, Claude_, Bound
    <2> QED
      BY <1>1, <1>4, <2>1, <2>2, <2>3, QuietMoves
  <1>5. Kind(p) # "explicit" => op[p].fresh \in Sid
    BY <1>1 DEF Holds, Route, IInv, OpsOK, Minting
  <1> QED
    BY <1>1, <1>2, <1>3, <1>4, <1>5 DEF CheckEntry

\* The sweep has looked at all its sessions.
LEMMA NoCandidateKeeps ==
    ASSUME IInv, NEW p \in Proc \ dead, NoCandidate(p)
    PROVE  IInv'
  <1>1. Holds(p) /\ Says(p) /\ at' = at /\ pc[p] = "sweeping"
    BY DEF IInv, Core, Held, NoCandidate, At
  <1>2. ASSUME Move(p, "claims", {})
        PROVE  IInv'
    <2>1. "claims" \in Steps
      BY DEF Steps, CloseSteps, CloseMay
    <2>2. Holds(p)'
      BY <1>1, <1>2, <2>1, MoveViews
         DEF Holds, HoldsLocks, Route, NeedsClose, NeedsBinding, MayBind, Locks, ClaimsSteps,
             CloseSteps, CloseMay, Owning, Sweepers
    <2>3. Says(p)'
      BY <1>1, <1>2, <2>1, MoveViews
         DEF Says, SaysOfSession, SaysOfEntry, SaysOfBeat, SaysOfBinding, SaysOfLane, Ahead,
             Holds, Route, Minting, Owning, Sweeps, Sweepers, Kind, Claude_, Bound
    <2> QED
      BY <1>1, <1>2, <2>1, <2>2, <2>3, QuietMoves
  <1> QED
    BY <1>2 DEF NoCandidate

\* What a stale mark looks at.
LEMMA CheckStaleKeeps ==
    ASSUME IInv, NEW p \in Proc \ dead, CheckStale(p)
    PROVE  IInv'
  <1>1. Holds(p) /\ Says(p) /\ at' = at /\ pc[p] = "staleLook"
    BY DEF IInv, Core, Held, CheckStale, At
  <1>2. ASSUME Move(p, "staling", {}), at[p] \in Active \ stale, beat[at[p]] # "fresh"
        PROVE  IInv'
    <2>1. "staling" \in Steps
      BY DEF Steps, CloseSteps, CloseMay
    <2>2. Holds(p)'
      BY <1>1, <1>2, <2>1, MoveViews
         DEF Holds, HoldsLocks, Route, NeedsClose, NeedsBinding, MayBind, Locks, ClaimsSteps,
             CloseSteps, CloseMay, Owning, Sweepers
    <2>3. Says(p)'
      BY <1>1, <1>2, <2>1, MoveViews
         DEF Says, SaysOfSession, SaysOfEntry, SaysOfBeat, SaysOfBinding, SaysOfLane, Ahead,
             Holds, Route, Minting, Owning, Sweeps, Sweepers, Kind, Claude_, Bound
    <2> QED
      BY <1>1, <1>2, <2>1, <2>2, <2>3, QuietMoves
  <1>3. ASSUME Move(p, "sweeping", {"close"})
        PROVE  IInv'
    <2>1. "sweeping" \in Steps
      BY DEF Steps, CloseSteps, CloseMay
    <2>2. Holds(p)'
      BY <1>1, <1>3, <2>1, MoveViews
         DEF Holds, HoldsLocks, Route, NeedsClose, NeedsBinding, MayBind, Locks, ClaimsSteps,
             CloseSteps, CloseMay, Owning, Sweepers
    <2>3. Says(p)'
      BY <1>1, <1>3, <2>1, MoveViews
         DEF Says, SaysOfSession, SaysOfEntry, SaysOfBeat, SaysOfBinding, SaysOfLane, Ahead,
             Holds, Route, Minting, Owning, Sweeps, Sweepers, Kind, Claude_, Bound
    <2> QED
      BY <1>1, <1>3, <2>1, <2>2, <2>3, QuietMoves
  <1> QED
    BY <1>1, <1>2, <1>3 DEF CheckStale

\* What a SessionStart looks at.
LEMMA CheckStartKeeps ==
    ASSUME IInv, NEW p \in Proc \ dead, CheckStart(p)
    PROVE  IInv'
  <1>1. Holds(p) /\ Says(p) /\ pc[p] = "startLook"
    BY DEF IInv, Core, Held, CheckStart, At
  <1>2. ASSUME Move(p, "startRenewing", {}), at' = at, at[p] \in Active
        PROVE  IInv'
    <2>1. "startRenewing" \in Steps
      BY DEF Steps, CloseSteps, CloseMay
    <2>2. Holds(p)'
      BY <1>1, <1>2, <2>1, MoveViews
         DEF Holds, HoldsLocks, Route, NeedsClose, NeedsBinding, MayBind, Locks, ClaimsSteps,
             CloseSteps, CloseMay, Owning, Sweepers
    <2>3. Says(p)'
      BY <1>1, <1>2, <2>1, MoveViews
         DEF Says, SaysOfSession, SaysOfEntry, SaysOfBeat, SaysOfBinding, SaysOfLane, Ahead,
             Holds, Route, Minting, Owning, Sweeps, Sweepers, Kind, Claude_, Bound
    <2> QED
      BY <1>1, <1>2, <2>1, <2>2, <2>3, QuietMoves
  <1>3. ASSUME Move(p, "enrolling", {}), Work(p, op[p].fresh), op[p].fresh \in Sid
        PROVE  IInv'
    <2>1. "enrolling" \in Steps
      BY DEF Steps, CloseSteps, CloseMay
    <2>2. Holds(p)'
      BY <1>1, <1>3, <2>1, MoveViews
         DEF Holds, HoldsLocks, Route, NeedsClose, NeedsBinding, MayBind, Locks, ClaimsSteps,
             CloseSteps, CloseMay, Owning, Sweepers
    <2>3. /\ pc'[p] = "enrolling" /\ op' = op /\ at'[p] = op[p].fresh /\ status' = status
          /\ Kind(p)' = Kind(p)
      BY <1>3, <2>1, MoveViews, TypeParts DEF Work, IInv, CallsOK
    <2>4. Kind(p) = "start"
      BY <1>1 DEF Holds, Route
    <2>5. Says(p)'
      BY <1>1, <2>3, <2>4
         DEF Says, SaysOfSession, SaysOfEntry, SaysOfBeat, SaysOfBinding, SaysOfLane, Ahead,
             Minting
    <2> QED
      BY <1>3, <2>1, <2>2, <2>5, QuietMoves
  <1>4. op[p].fresh \in Sid
    BY <1>1 DEF Holds, Route, IInv, OpsOK, Minting
  <1> QED
    BY <1>1, <1>2, <1>3, <1>4 DEF CheckStart

\* A SessionEnd without its locks.
LEMMA EndGivesUpKeeps ==
    ASSUME IInv, NEW p \in Proc \ dead, EndGivesUp(p)
    PROVE  IInv'
  BY MoveEnds DEF EndGivesUp

\* What a SessionEnd finds bound.
LEMMA ReadBindingKeeps ==
    ASSUME IInv, NEW p \in Proc \ dead, ReadBinding(p)
    PROVE  IInv'
  <1>1. Holds(p) /\ Says(p) /\ pc[p] = "readBinding"
    BY DEF IInv, Core, Held, ReadBinding, At
  <1>2. ASSUME Move(p, "done", Locks), at' = at
        PROVE  IInv'
    BY <1>1, <1>2, MoveEnds
  <1>3. ASSUME Move(p, "endClose", {}), NEW s \in Sid, Work(p, s),
               binding[Claude_(p)] = [sid |-> s, new |-> FALSE]
        PROVE  IInv'
    <2>1. "endClose" \in Steps
      BY DEF Steps
    <2>2. Holds(p)'
      BY <1>1, <1>3, <2>1, MoveViews
         DEF Holds, HoldsLocks, Route, NeedsClose, NeedsBinding, MayBind, Locks, ClaimsSteps,
             CloseSteps, CloseMay, Owning, Sweepers
    <2>3. pc'[p] = "endClose" /\ op' = op /\ binding' = binding /\ at'[p] = s /\ s # Nobody
      BY <1>3, <2>1, MoveViews, TypeParts, ProjectionAssumption DEF Work, IInv, CallsOK
    <2>4. Claude_(p)' = Claude_(p)
      BY <2>3 DEF Claude_
    <2>5. Says(p)'
      BY <1>3, <2>3, <2>4
         DEF Says, SaysOfSession, SaysOfEntry, SaysOfBeat, SaysOfBinding, SaysOfLane, Ahead
    <2> QED
      BY <1>1, <1>3, <2>1, <2>2, <2>5, QuietMoves
  <1>4. ASSUME Bound(Claude_(p)) # Nobody, ~binding[Claude_(p)].new
        PROVE  /\ Bound(Claude_(p)) \in Sid
               /\ binding[Claude_(p)] = [sid |-> Bound(Claude_(p)), new |-> FALSE]
    <2>1. Claude_(p) \in Claude
      BY TypeParts DEF IInv, CallsOK, Op, Claude_
    <2> QED
      BY <1>4, <2>1, TypeParts DEF IInv, FilesOK, Bound
  <1> QED
    BY <1>1, <1>2, <1>3, <1>4 DEF ReadBinding

\* An edit that goes on to its automatic claim, with some session and without a lock.
LEMMA EditGoesOn ==
    ASSUME IInv, NEW p \in Proc \ dead, NEW s \in Sid \cup {Nobody}, Work(p, s),
           Move(p, "close", Locks), Kind(p) = "edit"
    PROVE  IInv'
  <1>1. Holds(p) /\ Says(p)
    BY DEF IInv, Core, Held
  <1>2. "close" \in Steps
    BY DEF Steps
  <1>3. Holds(p)'
    BY <1>1, <1>2, MoveViews
       DEF Holds, HoldsLocks, Route, NeedsClose, NeedsBinding, MayBind, Locks, ClaimsSteps,
           CloseSteps, CloseMay, Owning, Sweepers
  <1>4. Says(p)'
    BY <1>2, MoveViews
       DEF Says, SaysOfSession, SaysOfEntry, SaysOfBeat, SaysOfBinding, SaysOfLane, Ahead
  <1> QED
    BY <1>2, <1>3, <1>4, QuietMoves

\* A call that ends on another session.
LEMMA WorkEnds ==
    ASSUME IInv, NEW p \in Proc \ dead, NEW s \in Sid \cup {Nobody}, Work(p, s),
           Move(p, "done", Locks)
    PROVE  IInv'
  <1>1. "done" \in Steps
    BY DEF Steps
  <1>2. Holds(p)' /\ Says(p)'
    BY <1>1, MoveViews, OverHolds, OverSays
  <1> QED
    BY <1>1, <1>2, QuietMoves

\* An edit without a mint.
LEMMA UnmintedKeeps ==
    ASSUME IInv, NEW p \in Proc \ dead, Unminted(p), Kind(p) = "edit"
    PROVE  IInv'
  <1>1. PICK s \in Sid \cup {Nobody} :
            Work(p, s) /\ (Move(p, "close", Locks) \/ Move(p, "done", Locks))
    BY TypeParts DEF Unminted, IInv, CallsOK, Op
  <1> QED
    BY <1>1, EditGoesOn, WorkEnds

\* The acting session of an edit.
LEMMA ResolveKeeps ==
    ASSUME IInv, NEW p \in Proc \ dead, Resolve(p)
    PROVE  IInv'
  <1>1. Holds(p) /\ Says(p) /\ pc[p] = "deciding" /\ Kind(p) = "edit"
    BY DEF IInv, Core, Held, Resolve, At, Holds, Route
  <1>2. op[p].sid \in Sid \cup {Nobody} /\ seen[p] \in Sid \cup {Nobody}
    BY TypeParts DEF IInv, CallsOK, Op
  <1>3. ASSUME NEW s \in Sid \cup {Nobody}, Work(p, s), NEW step \in {"close", "mintBinding"},
               Move(p, step, {})
        PROVE  IInv'
    <2>1. step \in Steps
      BY <1>3 DEF Steps
    <2>2. Holds(p)'
      BY <1>1, <1>3, <2>1, MoveViews
         DEF Holds, HoldsLocks, Route, NeedsClose, NeedsBinding, MayBind, Locks, ClaimsSteps,
             CloseSteps, CloseMay, Owning, Sweepers
    <2>3. Says(p)'
      BY <1>1, <1>3, <2>1, MoveViews
         DEF Says, SaysOfSession, SaysOfEntry, SaysOfBeat, SaysOfBinding, SaysOfLane, Ahead
    <2> QED
      BY <1>3, <2>1, <2>2, <2>3, QuietMoves
  <1> QED
    BY <1>2, <1>3 DEF Resolve

\* What a mint looks at.
LEMMA CheckMintKeeps ==
    ASSUME IInv, NEW p \in Proc \ dead, CheckMint(p)
    PROVE  IInv'
  <1>1. Holds(p) /\ Says(p) /\ pc[p] = "mintLook" /\ Kind(p) = "edit"
    BY DEF IInv, Core, Held, CheckMint, At, Holds, Route
  <1>2. Bound(Claude_(p)) \in Active => Bound(Claude_(p)) \in Sid
    BY DEF Active
  <1>3. op[p].fresh \in Sid
    BY <1>1 DEF IInv, OpsOK, Minting
  <1>4. ASSUME Move(p, "enrolling", {}), Work(p, op[p].fresh), Bound(Claude_(p)) \notin Active
        PROVE  IInv'
    <2>1. "enrolling" \in Steps
      BY DEF Steps, CloseSteps, CloseMay
    <2>2. Holds(p)'
      BY <1>1, <1>4, <1>3, <2>1, MoveViews
         DEF Holds, HoldsLocks, Route, NeedsClose, NeedsBinding, MayBind, Locks, ClaimsSteps,
             CloseSteps, CloseMay, Owning, Sweepers
    <2>3. /\ pc'[p] = "enrolling" /\ op' = op /\ binding' = binding /\ at'[p] = op[p].fresh
          /\ status' = status /\ Active' = Active
      BY <1>4, <1>3, <2>1, MoveViews, TypeParts DEF Work, IInv, CallsOK
    <2>4. Bound(Claude_(p))' = Bound(Claude_(p)) /\ Kind(p)' = Kind(p)
      BY <2>3 DEF Claude_, Bound, Kind
    <2>5. Says(p)'
      BY <1>1, <1>4, <2>3, <2>4
         DEF Says, SaysOfSession, SaysOfEntry, SaysOfBeat, SaysOfBinding, SaysOfLane, Ahead,
             Minting
    <2> QED
      BY <1>4, <1>3, <2>1, <2>2, <2>5, QuietMoves
  <1> QED
    BY <1>1, <1>2, <1>3, <1>4, EditGoesOn DEF CheckMint

\* A mint that cannot be made, or has been rolled back.
LEMMA MintRefusedKeeps ==
    ASSUME IInv, NEW p \in Proc \ dead, MintRefused(p) \/ RolledBack(p)
    PROVE  IInv'
  <1>1. Holds(p)
    BY DEF IInv, Core, Held
  <1>2. Kind(p) = "edit" /\ Unminted(p)
    BY <1>1 DEF MintRefused, RolledBack, At, Holds, Route
  <1> QED
    BY <1>2, UnmintedKeeps

-----------------------------------------------------------------------------
(* The steps that note something of their call, or decide *)

\* p goes on to a step with the locks it has, and only its own call has changed.
Notes(p, step) ==
    /\ step \in Steps
    /\ Goto(p, step)
    /\ Calm(p)
    /\ CallsOK'
    /\ corrupt' = corrupt /\ pointer' = pointer /\ lock' = lock

\* What such a step leaves.
LEMMA NotesViews ==
    ASSUME IInv, NEW p \in Proc \ dead, NEW step, Notes(p, step)
    PROVE  /\ pc'[p] = step /\ Kind(p)' = Kind(p) /\ lock' = lock
           /\ status' = status /\ beat' = beat /\ stale' = stale /\ binding' = binding
           /\ unlocked' = unlocked /\ op' = op /\ mode' = mode
           /\ Active' = Active /\ \A l : SyncOwners(l)' = SyncOwners(l)
  <1>1. pc \in [Proc -> Steps]
    BY DEF IInv, Core
  <1> QED
    BY <1>1, CalmViews DEF Notes, Goto, Kind

\* It keeps the invariant.
LEMMA QuietNotes ==
    ASSUME IInv, NEW p \in Proc \ dead, NEW step, Notes(p, step), Holds(p)', Says(p)'
    PROVE  IInv'
  <1>1. Lands(p, step, {}) /\ Minds(p)
    BY CalmMinds DEF Notes, Calm, KeepsCalls, Lands, Goto, IInv, Core
  <1>2. ProjectionTypeOK' /\ FilesOK'
    BY TypeParts, SameTypes DEF IInv, Notes, Calm, files
  <1> QED
    BY <1>1, <1>2, Onwards DEF Notes

\* A SessionStart that goes on without its locks.
LEMMA StartLocksBusyKeeps ==
    ASSUME IInv, NEW p \in Proc \ dead, StartLocksBusy(p)
    PROVE  IInv'
  <1>1. Holds(p) /\ Says(p) /\ pc[p] \in {"startBinding", "startClose"} /\ Kind(p) = "start"
    BY DEF IInv, Core, Held, StartLocksBusy, Busy, At, Holds, Route
  <1>2. \/ unbound' = unbound \cup {p}
        \/ unbound' = unbound /\ pc[p] = "startClose"
    BY DEF StartLocksBusy, Busy, At
  <1>3. Notes(p, "enter")
    BY <1>2, TypeParts
       DEF StartLocksBusy, Notes, Calm, KeepsCalls, files, fixed, Steps, IInv, CallsOK
  <1>4. Holds(p)'
    BY <1>1, <1>2, <1>3, NotesViews
       DEF Holds, HoldsLocks, Route, NeedsClose, NeedsBinding, MayBind, Locks, ClaimsSteps,
           CloseSteps, CloseMay, Owning, Sweepers
  <1>5. Says(p)'
    BY <1>1, <1>3, NotesViews
       DEF Says, SaysOfSession, SaysOfEntry, SaysOfBeat, SaysOfBinding, SaysOfLane, Ahead, Minting
  <1> QED
    BY <1>3, <1>4, <1>5, QuietNotes

\* An edit reads the binding.
LEMMA ReadOwnBindingKeeps ==
    ASSUME IInv, NEW p \in Proc \ dead, ReadOwnBinding(p)
    PROVE  IInv'
  <1>1. Holds(p) /\ Says(p) /\ pc[p] = "resolving" /\ Kind(p) = "edit"
    BY DEF IInv, Core, Held, ReadOwnBinding, At, Holds, Route
  <1>2. Bound(Claude_(p)) \in Sid \cup {Nobody}
    BY TypeParts DEF IInv, CallsOK, Op, FilesOK, Claude_, Bound
  <1>3. Notes(p, "deciding") /\ unbound' = unbound
    BY <1>2, TypeParts
       DEF ReadOwnBinding, Notes, Calm, KeepsCalls, files, fixed, Steps, IInv, CallsOK
  <1>4. Holds(p)'
    BY <1>1, <1>3, NotesViews
       DEF Holds, HoldsLocks, Route, NeedsClose, NeedsBinding, MayBind, Locks, ClaimsSteps,
           CloseSteps, CloseMay, Owning, Sweepers
  <1>5. Says(p)'
    BY <1>1, <1>3, NotesViews
       DEF Says, SaysOfSession, SaysOfEntry, SaysOfBeat, SaysOfBinding, SaysOfLane, Ahead, Minting
  <1> QED
    BY <1>3, <1>4, <1>5, QuietNotes

\* A sweep that goes on with the sessions it has picked, or with one of them.
LEMMA SweepGoesOn ==
    ASSUME IInv, NEW p \in Proc \ dead, NEW step \in {"sweeping", "stale", "shut"}, Notes(p, step),
           pc[p] \in {"selecting", "sweeping"}
    PROVE  IInv'
  <1>1. Holds(p)
    BY DEF IInv, Core, Held
  <1>2. Holds(p)'
    BY <1>1, NotesViews
       DEF Holds, HoldsLocks, Route, NeedsClose, NeedsBinding, MayBind, Locks, ClaimsSteps,
           CloseSteps, CloseMay, Owning, Sweepers
  <1>3. Says(p)'
    BY NotesViews
       DEF Says, SaysOfSession, SaysOfEntry, SaysOfBeat, SaysOfBinding, SaysOfLane, Ahead
  <1> QED
    BY <1>2, <1>3, QuietNotes

\* The sweep picks its sessions.
LEMMA SelectKeeps ==
    ASSUME IInv, NEW p \in Proc \ dead, Select(p)
    PROVE  IInv'
  <1> DEFINE S == IF Refused THEN {}
                  ELSE {<<"expired", s>> : s \in {t \in Active : beat[t] = "expired"}}
                       \cup {<<"old", s>> : s \in {t \in Active \ stale : beat[t] = "old"}}
  <1>0. S \in SUBSET ({"old", "expired"} \X Sid)
    BY DEF Active
  <1>1. picked' = [picked EXCEPT ![p] = S]
    BY DEF Select
  <1> HIDE DEF S
  <1>2. Notes(p, "sweeping") /\ pc[p] = "selecting"
    BY <1>0, <1>1, TypeParts
       DEF Select, At, Notes, Calm, KeepsCalls, files, fixed, Steps, IInv, CallsOK
  <1> QED
    BY <1>2, SweepGoesOn

\* It goes on to one of them.
LEMMA NextCandidateKeeps ==
    ASSUME IInv, NEW p \in Proc \ dead, NextCandidate(p)
    PROVE  IInv'
  <1>1. PICK t \in picked[p] : /\ Work(p, t[2])
                               /\ picked' = [picked EXCEPT ![p] = @ \ {t}]
                               /\ Goto(p, IF t[1] = "old" THEN "stale" ELSE "shut")
    BY DEF NextCandidate
  <1>2. t[2] \in Sid /\ picked[p] \ {t} \in SUBSET ({"old", "expired"} \X Sid)
    BY <1>1, TypeParts DEF IInv, CallsOK
  <1>3. CallsOK' /\ \A q \in Proc \ {p} : at'[q] = at[q]
    BY <1>1, <1>2, TypeParts DEF IInv, CallsOK, NextCandidate, Work
  <1>4. PICK step \in {"stale", "shut"} : Goto(p, step)
    BY <1>1
  <1>5. Notes(p, step) /\ pc[p] = "sweeping"
    BY <1>3, <1>4 DEF NextCandidate, At, Notes, Calm, KeepsCalls, files, fixed, Steps
  <1> QED
    BY <1>4, <1>5, SweepGoesOn

\* The steps that end a call with what has landed.
LEMMA GivesUpKeeps ==
    ASSUME IInv, NEW p \in Proc \ dead, Refuse(p) \/ ClaimLocksBusy(p)
    PROVE  IInv'
  BY QuietEnds DEF Refuse, ClaimLocksBusy

\* A failed append: of a rollback, the edit goes on.
LEMMA AppendFailsKeeps ==
    ASSUME IInv, NEW p \in Proc \ dead, AppendFails(p)
    PROVE  IInv'
  <1>1. CASE Finish(p)
    BY <1>1, QuietEnds DEF AppendFails
  <1>2. CASE Kind(p) = "edit" /\ pc[p] = "closing" /\ Goto(p, "unminted") /\ UNCHANGED lock
    <2>1. Holds(p) /\ "unminted" \in Steps
      BY DEF IInv, Core, Held, Steps, CloseMay
    <2>2. Notes(p, "unminted") /\ unbound' = unbound
      BY <1>2, <2>1, TypeParts, SameTypes
         DEF AppendFails, Notes, Calm, KeepsCalls, local, files, fixed, IInv
    <2>3. Holds(p)'
      BY <1>2, <2>1, <2>2, NotesViews
         DEF Holds, HoldsLocks, Route, NeedsClose, NeedsBinding, MayBind, Locks, ClaimsSteps,
             CloseSteps, CloseMay, Owning, Sweepers
    <2>4. Says(p)'
      BY <2>2, NotesViews
         DEF Says, SaysOfSession, SaysOfEntry, SaysOfBeat, SaysOfBinding, SaysOfLane, Ahead
    <2> QED
      BY <2>2, <2>3, <2>4, QuietNotes
  <1> QED
    BY <1>1, <1>2 DEF AppendFails

\* A trigger or a marker is appended.
LEMMA PassesKeeps ==
    ASSUME IInv, NEW p \in Proc \ dead, FireTrigger(p) \/ MarkForced(p)
    PROVE  IInv'
  <1>1. Holds(p) /\ Says(p)
    BY DEF IInv, Core, Held
  <1>2. PICK step \in {"cleaning", "claiming"} :
            /\ Passes(p, IF step = "cleaning" THEN "firing" ELSE "marking", step)
            /\ step \in Steps
    BY DEF FireTrigger, MarkForced, Steps, ClaimsSteps
  <1>3. /\ Notes(p, step) /\ unbound' = unbound /\ at' = at /\ aim' = aim /\ todo' = todo
        /\ pc[p] = IF step = "cleaning" THEN "firing" ELSE "marking"
    BY <1>2, TypeParts, SameTypes
       DEF Passes, At, Notes, Calm, KeepsCalls, local, files, fixed, IInv
  <1>4. Holds(p)'
    BY <1>1, <1>2, <1>3, NotesViews
       DEF Holds, HoldsLocks, Route, NeedsClose, NeedsBinding, MayBind, Locks, ClaimsSteps,
           CloseSteps, CloseMay, Owning, Sweepers
  <1>5. Says(p)'
    BY <1>1, <1>2, <1>3, NotesViews
       DEF Says, SaysOfSession, SaysOfEntry, SaysOfBeat, SaysOfBinding, SaysOfLane, Ahead, Holds,
           Route, Owning
  <1> QED
    BY <1>3, <1>4, <1>5, QuietNotes

\* All owners found are released.
LEMMA OthersReleasedKeeps ==
    ASSUME IInv, NEW p \in Proc \ dead, OthersReleased(p)
    PROVE  IInv'
  <1>1. Holds(p) /\ Says(p) /\ pc[p] = "cleaning" /\ todo[p] = {}
    BY DEF IInv, Core, Held, OthersReleased, At
  <1>2. CASE Finish(p)
    BY <1>2, QuietEnds DEF OthersReleased
  <1>3. CASE ~Finish(p)
    <2>0. Kind(p) \notin Sweepers /\ lock' = lock
          /\ Goto(p, IF Kind(p) = "force" THEN "marking" ELSE "claiming")
      BY <1>3 DEF OthersReleased
    <2>1. Kind(p) \in Owning
      BY <1>1, <2>0 DEF Holds, Route
    <2>2. PICK step \in {"marking", "claiming"} :
              /\ Goto(p, step)
              /\ step \in Steps
              /\ step = "marking" => Kind(p) = "force"
      <3>1. {"marking", "claiming"} \subseteq Steps
        BY DEF Steps, ClaimsSteps
      <3>2. CASE Kind(p) = "force"
        BY <2>0, <3>1, <3>2
      <3>3. CASE Kind(p) # "force"
        BY <2>0, <3>1, <3>3
      <3> QED
        BY <3>2, <3>3
    <2>3. Notes(p, step) /\ unbound' = unbound /\ at' = at /\ aim' = aim
      <3>1. UNCHANGED <<view, local, files, fixed, unlocked>>
        BY DEF OthersReleased
      <3> QED
        BY <2>0, <2>2, <3>1, TypeParts, SameTypes
           DEF Notes, Calm, KeepsCalls, local, files, fixed, IInv
    <2>4. Holds(p)'
      <3>1. pc'[p] = step /\ Kind(p)' = Kind(p) /\ lock' = lock
        BY <2>3, NotesViews
      <3>2. lock["claims"] = p /\ lock["close"] = p /\ lock["binding"] # p
        BY <1>1, <2>1 DEF Holds, HoldsLocks, NeedsClose, MayBind, ClaimsSteps
      <3>3. HoldsLocks(p)'
        BY <2>2, <3>1, <3>2
           DEF HoldsLocks, NeedsClose, NeedsBinding, MayBind, ClaimsSteps, CloseSteps, CloseMay
      <3>4. Route(p)'
        BY <2>1, <2>2, <3>1 DEF Route
      <3> QED
        BY <3>3, <3>4 DEF Holds
    <2>5. at[p] \in Active /\ SyncOwners(aim[p]) \subseteq {at[p]}
      BY <1>1, <2>1 DEF Says, SaysOfSession, SaysOfLane
    <2>6. Says(p)'
      BY <2>2, <2>3, <2>5, NotesViews
         DEF Says, SaysOfSession, SaysOfEntry, SaysOfBeat, SaysOfBinding, SaysOfLane, Ahead
    <2> QED
      BY <2>3, <2>4, <2>6, QuietNotes
  <1> QED
    BY <1>2, <1>3

\* Whatever the fold in use, it names the owners of the synced one.
LEMMA OneFold ==
    ASSUME IInv, NEW l \in Lane
    PROVE  /\ OwnersOf(l) = SyncOwners(l) /\ OwnersOf(l) \subseteq Sid
           /\ \A s \in OwnersOf(l) \ Active : status[s] = "closed"
           /\ mode = "default" => \A s \in OwnersOf(l) : SyncOwners(l) \subseteq {s}
  <1>1. Agrees /\ ProjectionTypeOK
    BY TypeParts DEF IInv, Core
  <1>2. OwnersOf(l) = SyncOwners(l) /\ OwnersOf(l) \subseteq Sid
    BY <1>1 DEF Agrees, RecordsAgree, FoldsAgree, OwnersOf, SyncOwners, DefaultOwners,
                ProjectionTypeOK
  <1>3. \A s \in SyncOwners(l) : status[s] # "absent"
    BY <1>1 DEF Agrees, OwnersKnown, SyncOwners
  <1>4. mode = "default" => \A s \in OwnersOf(l) : OwnersOf(l) \subseteq {s}
    BY DEF OwnersOf, DefaultOwners
  <1> QED
    BY <1>1, <1>2, <1>3, <1>4 DEF Active, ProjectionTypeOK

\* A decision: the lane, and the owners that are to be released.
LEMMA Decides ==
    ASSUME IInv, NEW p \in Proc \ dead, NEW step \in {"cleaning", "firing", "claiming", "releasing"},
           NEW S \in SUBSET (Lane \X Sid), NEW l \in Lane,
           At(p, "look"), Decided(p, step, S), aim' = [aim EXCEPT ![p] = l] \/ aim' = aim,
           Holds(p)', Says(p)'
    PROVE  IInv'
  <1>1. Notes(p, step)
    BY TypeParts
       DEF Decided, Notes, Calm, KeepsCalls, files, fixed, Steps, ClaimsSteps, IInv, CallsOK
  <1> QED
    BY <1>1, QuietNotes

\* What it leaves.
LEMMA DecidedViews ==
    ASSUME IInv, NEW p \in Proc \ dead, NEW step \in {"cleaning", "firing", "claiming", "releasing"},
           NEW S \in SUBSET (Lane \X Sid), NEW l \in Lane,
           At(p, "look"), Decided(p, step, S), aim' = [aim EXCEPT ![p] = l] \/ aim' = aim
    PROVE  /\ pc'[p] = step /\ pc[p] = "look" /\ Kind(p)' = Kind(p) /\ lock' = lock /\ at' = at
           /\ todo'[p] = S
           /\ aim' = [aim EXCEPT ![p] = l] => aim'[p] = l
           /\ unbound' = unbound /\ status' = status /\ mode' = mode /\ op' = op
           /\ Active' = Active /\ \A k : SyncOwners(k)' = SyncOwners(k)
  <1>1. Notes(p, step)
    BY TypeParts
       DEF Decided, Notes, Calm, KeepsCalls, files, fixed, Steps, ClaimsSteps, IInv, CallsOK
  <1> QED
    BY <1>1, NotesViews, TypeParts DEF Decided, At, IInv, CallsOK

\* What a writer of a lane holds when it has decided.
LEMMA DecidedHolds ==
    ASSUME IInv, NEW p \in Proc \ dead, NEW step \in {"cleaning", "firing", "claiming", "releasing"},
           NEW S \in SUBSET (Lane \X Sid), NEW l \in Lane,
           At(p, "look"), Decided(p, step, S), aim' = [aim EXCEPT ![p] = l] \/ aim' = aim,
           step = "firing" => Kind(p) = "edit",
           step = "claiming" => Kind(p) \in Owning,
           step = "releasing" => Kind(p) = "release",
           step = "cleaning" => Kind(p) \in Owning \cup Sweepers
    PROVE  Holds(p)'
  <1>1. Holds(p)
    BY DEF IInv, Core, Held
  <1>2. /\ pc'[p] = step /\ pc[p] = "look" /\ Kind(p)' = Kind(p) /\ lock' = lock
    BY DecidedViews
  <1>3. HoldsLocks(p)'
    BY <1>1, <1>2
       DEF Holds, HoldsLocks, NeedsClose, NeedsBinding, MayBind, ClaimsSteps, CloseSteps, CloseMay
  <1>4. Route(p)'
    BY <1>2 DEF Route, Owning
  <1> QED
    BY <1>3, <1>4 DEF Holds

\* A decision that the snapshot bears out.
BornOut(p, step, S, l) ==
    /\ Kind(p) \in Sweepers \/ aim' = [aim EXCEPT ![p] = l]
    /\ step # "releasing" /\ Kind(p) \notin Sweepers => at[p] \in Active
    /\ step = "releasing" => at[p] \in Sid
    /\ step \in {"firing", "cleaning"} /\ Kind(p) \in Owning =>
          /\ \A t \in S : t[1] = l
          /\ \A s \in SyncOwners(l) : s = at[p] \/ <<l, s>> \in S
    /\ step \in {"firing", "cleaning"} =>
          \A t \in S : /\ Kind(p) # "force" => status[t[2]] = "closed"
                       /\ mode = "default" => SyncOwners(t[1]) \subseteq {t[2]}
    /\ step = "claiming" \/ (step = "releasing" /\ mode = "default") =>
          SyncOwners(l) \subseteq {at[p]}
    /\ step # "cleaning" => Kind(p) \notin Sweepers

\* What the writer goes by from then on.
LEMMA DecidedSays ==
    ASSUME IInv, NEW p \in Proc \ dead, NEW step \in {"cleaning", "firing", "claiming", "releasing"},
           NEW S \in SUBSET (Lane \X Sid), NEW l \in Lane,
           At(p, "look"), Decided(p, step, S), aim' = [aim EXCEPT ![p] = l] \/ aim' = aim,
           BornOut(p, step, S, l)
    PROVE  Says(p)'
  <1>1. /\ pc'[p] = step /\ Kind(p)' = Kind(p) /\ at' = at /\ todo'[p] = S
        /\ status' = status /\ mode' = mode /\ Active' = Active
        /\ \A k : SyncOwners(k)' = SyncOwners(k)
        /\ aim' = [aim EXCEPT ![p] = l] => aim'[p] = l
    BY DecidedViews
  <1>2. Kind(p) \notin Sweepers => aim'[p] = l
    BY <1>1 DEF BornOut
  <1>3. SaysOfSession(p)'
    BY <1>1 DEF SaysOfSession, BornOut, Owning, Sweepers
  <1>4. SaysOfEntry(p)' /\ SaysOfBeat(p)' /\ SaysOfBinding(p)'
    BY <1>1 DEF SaysOfEntry, SaysOfBeat, SaysOfBinding, Ahead
  <1>5. SaysOfLane(p)'
    <2>1. Kind(p) \in Owning => aim'[p] = l
      BY <1>2 DEF Owning, Sweepers
    <2>2. step \in {"claiming", "releasing"} => aim'[p] = l
      BY <1>2 DEF BornOut
    <2> QED
      BY <1>1, <2>1, <2>2 DEF SaysOfLane, BornOut
  <1> QED
    BY <1>3, <1>4, <1>5 DEF Says

\* A claim decides.
LEMMA DecideClaimKeeps ==
    ASSUME IInv, NEW p \in Proc \ dead, DecideClaim(p)
    PROVE  IInv'
  <1> DEFINE l == op[p].lane
             S == InactiveOthers(p, l)
  <1>1. l \in Lane /\ at[p] \in Active /\ Kind(p) = "claim" /\ At(p, "look")
    BY TypeParts DEF IInv, CallsOK, Op, DecideClaim, Looks
  <1>2. S \in SUBSET (Lane \X Sid)
    BY <1>1, OneFold DEF InactiveOthers
  <1>3. Decided(p, "cleaning", S) /\ aim' = [aim EXCEPT ![p] = l] /\ ~ActiveRival(p, l)
    BY DEF DecideClaim
  <1> HIDE DEF l
  <1>4. /\ \A t \in S : /\ t[1] = l /\ status[t[2]] = "closed"
                        /\ mode = "default" => SyncOwners(t[1]) \subseteq {t[2]}
        /\ \A s \in SyncOwners(l) : s = at[p] \/ <<l, s>> \in S
    BY <1>1, <1>3, OneFold DEF InactiveOthers, ActiveRival
  <1> HIDE DEF S
  <1>5. Holds(p)'
    BY <1>1, <1>2, <1>3, DecidedHolds DEF Owning
  <1>6. Says(p)'
    <2>1. BornOut(p, "cleaning", S, l)
      BY <1>1, <1>2, <1>3, <1>4 DEF BornOut, Owning, Sweepers
    <2> QED
      BY <1>1, <1>2, <1>3, <1>4, <2>1, DecidedSays
  <1> QED
    BY <1>1, <1>2, <1>3, <1>5, <1>6, Decides

\* A force decides.
LEMMA DecideForceKeeps ==
    ASSUME IInv, NEW p \in Proc \ dead, DecideForce(p)
    PROVE  IInv'
  <1> DEFINE l == op[p].lane
             R == OwnersOf(l) \ {at[p]}
             S == {<<l, s>> : s \in R}
             step == IF R = {} THEN "claiming" ELSE "cleaning"
  <1>1. l \in Lane /\ at[p] \in Active /\ Kind(p) = "force" /\ At(p, "look")
    BY TypeParts DEF IInv, CallsOK, Op, DecideForce, Looks
  <1>2. S \in SUBSET (Lane \X Sid)
    BY <1>1, OneFold
  <1>3. Decided(p, step, S) /\ aim' = [aim EXCEPT ![p] = l]
    BY DEF DecideForce
  <1>4. /\ \A t \in S : /\ t[1] = l
                        /\ mode = "default" => SyncOwners(t[1]) \subseteq {t[2]}
        /\ \A s \in SyncOwners(l) : s = at[p] \/ <<l, s>> \in S
        /\ step = "claiming" => SyncOwners(l) \subseteq {at[p]}
        /\ step \in {"cleaning", "claiming"}
    <2> HIDE DEF l
    <2> QED
      BY <1>1, OneFold
  <1> HIDE DEF l, S, step
  <1>5. Holds(p)'
    BY <1>1, <1>2, <1>3, <1>4, DecidedHolds DEF Owning
  <1>6. Says(p)'
    <2>1. BornOut(p, step, S, l)
      BY <1>1, <1>2, <1>3, <1>4 DEF BornOut, Owning, Sweepers
    <2> QED
      BY <1>1, <1>2, <1>3, <1>4, <2>1, DecidedSays
  <1> QED
    BY <1>1, <1>2, <1>3, <1>4, <1>5, <1>6, Decides

\* The automatic claim decides.
LEMMA DecideAutoClaimKeeps ==
    ASSUME IInv, NEW p \in Proc \ dead, DecideAutoClaim(p)
    PROVE  IInv'
  <1> DEFINE l == Target(p)
             S == InactiveOthers(p, l)
  <1>1. op[p].lane \in Lane /\ at[p] \in Active /\ Kind(p) = "edit" /\ At(p, "look")
    BY TypeParts DEF IInv, CallsOK, Op, DecideAutoClaim, Looks
  <1>2. l \in Lane
    BY <1>1, FallbackAssumption DEF Target, Active
  <1>3. Decided(p, "firing", S) /\ aim' = [aim EXCEPT ![p] = l] /\ ~ActiveRival(p, l)
    BY DEF DecideAutoClaim
  <1> HIDE DEF l
  <1>4. S \in SUBSET (Lane \X Sid)
    BY <1>2, OneFold DEF InactiveOthers
  <1>5. /\ \A t \in S : /\ t[1] = l /\ status[t[2]] = "closed"
                        /\ mode = "default" => SyncOwners(t[1]) \subseteq {t[2]}
        /\ \A s \in SyncOwners(l) : s = at[p] \/ <<l, s>> \in S
    BY <1>2, <1>3, OneFold DEF InactiveOthers, ActiveRival
  <1> HIDE DEF S
  <1>6. Holds(p)'
    BY <1>1, <1>2, <1>3, <1>4, DecidedHolds
  <1>7. Says(p)'
    <2>1. BornOut(p, "firing", S, l)
      BY <1>1, <1>2, <1>3, <1>4, <1>5 DEF BornOut, Owning, Sweepers
    <2> QED
      BY <1>1, <1>2, <1>3, <1>4, <1>5, <2>1, DecidedSays
  <1> QED
    BY <1>1, <1>2, <1>3, <1>4, <1>6, <1>7, Decides

\* A release decides.
LEMMA DecideReleaseKeeps ==
    ASSUME IInv, NEW p \in Proc \ dead, DecideRelease(p)
    PROVE  IInv'
  <1> DEFINE l == op[p].lane
  <1>1. l \in Lane /\ at[p] \in OwnersOf(l) /\ Kind(p) = "release" /\ At(p, "look")
    BY TypeParts DEF IInv, CallsOK, Op, DecideRelease, Looks
  <1>2. Decided(p, "releasing", {}) /\ aim' = [aim EXCEPT ![p] = l]
    BY DEF DecideRelease
  <1> HIDE DEF l
  <1>3. /\ at[p] \in Sid
        /\ mode = "default" => SyncOwners(l) \subseteq {at[p]}
    BY <1>1, OneFold
  <1>4. Holds(p)'
    BY <1>1, <1>2, DecidedHolds
  <1>5. Says(p)'
    <2>1. BornOut(p, "releasing", {}, l)
      BY <1>1, <1>2, <1>3 DEF BornOut, Owning, Sweepers
    <2> QED
      BY <1>1, <1>2, <1>3, <2>1, DecidedSays
  <1> QED
    BY <1>1, <1>2, <1>4, <1>5, Decides

\* A sweep decides on the orphans.
LEMMA DecideReapKeeps ==
    ASSUME IInv, NEW p \in Proc \ dead, DecideReap(p)
    PROVE  IInv'
  <1> DEFINE S == {t \in Lane \X Sid : t[2] \in OwnersOf(t[1]) \ Active}
  <1>1. Kind(p) \in Sweepers /\ At(p, "look")
    BY DEF DecideReap, Looks
  <1>2. Decided(p, "cleaning", S) /\ aim' = aim /\ S \in SUBSET (Lane \X Sid)
    BY DEF DecideReap
  <1>3. \A t \in S : /\ status[t[2]] = "closed"
                     /\ mode = "default" => SyncOwners(t[1]) \subseteq {t[2]}
    BY OneFold
  <1> HIDE DEF S
  <1>4. op[p].lane \in Lane
    BY TypeParts DEF IInv, CallsOK, Op
  <1>5. Holds(p)'
    BY <1>1, <1>2, <1>4, DecidedHolds
  <1>6. Says(p)'
    <2>1. BornOut(p, "cleaning", S, op[p].lane)
      BY <1>1, <1>2, <1>3, <1>4 DEF BornOut, Owning, Sweepers
    <2> QED
      BY <1>1, <1>2, <1>3, <1>4, <2>1, DecidedSays
  <1> QED
    BY <1>1, <1>2, <1>4, <1>5, <1>6, Decides

-----------------------------------------------------------------------------
(* The steps that append an event *)

\* A call that goes on after its event, with the lock that it may drop.
LEMMA EventGoes ==
    ASSUME IInv, NEW p \in Proc \ dead, NEW step, NEW ks, Lands(p, step, ks), Keeps(p),
           UNCHANGED <<local, files>>, unlocked' = unlocked, Holds(p)', Says(p)'
    PROVE  IInv'
  <1>1. Minds(p)
    BY EventMinds DEF local, files, Lands
  <1>2. CallsOK' /\ FilesOK'
    BY TypeParts, SameTypes DEF IInv
  <1> QED
    BY <1>1, <1>2, Onwards DEF Keeps

\* A call that ends with its event.
LEMMA EventEnds ==
    ASSUME IInv, NEW p \in Proc \ dead, Finish(p), Keeps(p), dead' = dead,
           UNCHANGED <<local, files>>, FilesOK'
    PROVE  IInv'
  <1>1. Minds(p) /\ op' = op
    BY EventMinds DEF local, files
  <1>2. CallsOK'
    BY TypeParts, SameTypes DEF IInv
  <1>3. OpsOK' /\ Core' /\ LocksOK'
    BY <1>1, Ends
  <1> QED
    BY <1>2, <1>3, TypeAssembles DEF Keeps, IInv

\* A close.
LEMMA AppendCloseKeeps ==
    ASSUME IInv, NEW p \in Proc \ dead, AppendClose(p)
    PROVE  IInv'
  <1>1. Holds(p) /\ Says(p) /\ pc[p] = "closing"
    BY DEF IInv, Core, Held, AppendClose, At
  <1>2. at[p] \in Active /\ lock["close"] = p
    BY <1>1 DEF Says, SaysOfSession, Holds, HoldsLocks, NeedsClose, CloseSteps
  <1>3. /\ SessionClosed(at[p]) /\ Goto(p, "clearing") /\ lock' = lock
        /\ UNCHANGED <<local, files, fixed, unlocked>>
    BY DEF AppendClose
  <1>4. Keeps(p) /\ status'[at[p]] = "closed" /\ at[p] \in Sid /\ at' = at
    BY <1>2, <1>3, ClosedKeeps DEF local, files, fixed, Active
  <1>5. Lands(p, "clearing", {})
    BY <1>3 DEF Lands, Goto, Steps, CloseSteps, CloseMay, local, fixed
  <1>6. pc'[p] = "clearing" /\ Kind(p)' = Kind(p) /\ lock' = lock /\ unbound' = unbound
    BY <1>3, <1>5, LandsSpares DEF local
  <1>7. Holds(p)'
    BY <1>1, <1>6
       DEF Holds, HoldsLocks, Route, NeedsClose, NeedsBinding, MayBind, ClaimsSteps, CloseSteps,
           CloseMay, Owning
  <1>8. Says(p)'
    BY <1>4, <1>6
       DEF Says, SaysOfSession, SaysOfEntry, SaysOfBeat, SaysOfBinding, SaysOfLane, Ahead
  <1> QED
    BY <1>3, <1>4, <1>5, <1>7, <1>8, EventGoes

\* A heartbeat of a command.
LEMMA AppendHeartbeatKeeps ==
    ASSUME IInv, NEW p \in Proc \ dead, AppendHeartbeat(p)
    PROVE  IInv'
  <1>1. Says(p) /\ pc[p] = "beating"
    BY DEF IInv, Core, AppendHeartbeat, At
  <1>2. at[p] \in Sid
    BY <1>1 DEF Says, SaysOfSession
  <1>3. /\ SessionHeartbeat(at[p]) /\ Finish(p) /\ UNCHANGED <<local, files, fixed>>
        /\ unlocked \subseteq unlocked'
        /\ lock["close"] = p \/ at[p] \in unlocked'
        /\ unlocked' \subseteq unlocked \cup {at[p]}
    BY DEF AppendHeartbeat
  <1>4. Keeps(p) /\ dead' = dead
    BY <1>2, <1>3, HeartbeatKeeps DEF local, files, fixed
  <1>5. FilesOK'
    BY <1>2, <1>3, TypeParts DEF IInv, FilesOK, files
  <1> QED
    BY <1>3, <1>4, <1>5, EventEnds

\* The renewal of a registration, and that of a SessionStart.
LEMMA AppendRenewalKeeps ==
    ASSUME IInv, NEW p \in Proc \ dead, AppendRenewal(p) \/ AppendStartRenewal(p)
    PROVE  IInv'
  <1>1. Holds(p) /\ Says(p) /\ pc[p] \in {"renewing", "startRenewing"}
    BY DEF IInv, Core, Held, AppendRenewal, AppendStartRenewal, At
  <1>2. at[p] \in Active /\ lock["close"] = p
    BY <1>1 DEF Says, SaysOfSession, Holds, HoldsLocks, NeedsClose, CloseSteps
  <1>3. /\ SessionHeartbeat(at[p]) /\ UNCHANGED <<local, files, fixed, unlocked>>
        /\ \/ /\ pc[p] = "renewing" /\ Lands(p, "keeping", {"close"})
           \/ /\ pc[p] = "startRenewing" /\ Lands(p, "rebinding", {})
    BY DEF AppendRenewal, AppendStartRenewal, At, Lands, Goto, Steps, CloseSteps, CloseMay, local,
           fixed
  <1>4. at[p] \in Sid /\ status[at[p]] = "active"
    BY <1>2 DEF Active
  <1>5. Keeps(p) /\ at' = at /\ status' = status
    BY <1>2, <1>3, <1>4, HeartbeatKeeps DEF local, files, fixed, SessionHeartbeat
  <1>6. ASSUME NEW step \in {"keeping", "rebinding"}, NEW ks, Lands(p, step, ks),
               ks = IF step = "keeping" THEN {"close"} ELSE {},
               pc[p] = IF step = "keeping" THEN "renewing" ELSE "startRenewing"
        PROVE  IInv'
    <2>1. /\ pc'[p] = step /\ Kind(p)' = Kind(p) /\ unbound' = unbound
          /\ \A k \in Locks : lock'[k] = p <=> lock[k] = p /\ k \notin ks
      BY <1>3, <1>6, LandsSpares DEF local
    <2>2. Holds(p)'
      BY <1>1, <1>6, <2>1
         DEF Holds, HoldsLocks, Route, NeedsClose, NeedsBinding, MayBind, ClaimsSteps, CloseSteps,
             CloseMay, Owning, Locks
    <2>3. Says(p)'
      BY <1>4, <1>5, <2>1
         DEF Says, SaysOfSession, SaysOfEntry, SaysOfBeat, SaysOfBinding, SaysOfLane, Ahead
    <2> QED
      BY <1>3, <1>5, <1>6, <2>2, <2>3, EventGoes
  <1> QED
    BY <1>3, <1>6

\* A stale mark.
LEMMA AppendStaleKeeps ==
    ASSUME IInv, NEW p \in Proc \ dead, AppendStale(p)
    PROVE  IInv'
  <1>1. Holds(p) /\ Says(p) /\ pc[p] = "staling"
    BY DEF IInv, Core, Held, AppendStale, At
  <1>2. at[p] \in Sid /\ lock["close"] = p
    BY <1>1 DEF Says, SaysOfSession, Active, Holds, HoldsLocks, NeedsClose, CloseSteps
  <1>3. /\ SessionStaleDetected(at[p]) /\ UNCHANGED <<local, files, fixed, unlocked>>
        /\ Lands(p, "sweeping", {"close"})
    BY DEF AppendStale, Lands, Goto, Steps, local, fixed
  <1>4. Keeps(p)
    BY <1>2, <1>3, StaleKeeps DEF files, fixed
  <1>5. /\ pc'[p] = "sweeping" /\ Kind(p)' = Kind(p) /\ unbound' = unbound
        /\ \A k \in Locks : lock'[k] = p <=> lock[k] = p /\ k \notin {"close"}
    BY <1>3, LandsSpares DEF local
  <1>6. Holds(p)'
    BY <1>1, <1>5
       DEF Holds, HoldsLocks, Route, NeedsClose, NeedsBinding, MayBind, ClaimsSteps, CloseSteps,
           CloseMay, Owning, Sweepers, Locks
  <1>7. Says(p)'
    BY <1>5
       DEF Says, SaysOfSession, SaysOfEntry, SaysOfBeat, SaysOfBinding, SaysOfLane, Ahead
  <1> QED
    BY <1>3, <1>4, <1>6, <1>7, EventGoes

\* The release of another owner.
LEMMA ReleaseOtherKeeps ==
    ASSUME IInv, NEW p \in Proc \ dead, ReleaseOther(p)
    PROVE  IInv'
  <1>1. Holds(p) /\ Says(p) /\ pc[p] = "cleaning"
    BY DEF IInv, Core, Held, ReleaseOther, At
  <1>2. PICK t \in todo[p] : /\ LaneReleased(t[2], t[1])
                             /\ todo' = [todo EXCEPT ![p] = @ \ {t}]
    BY DEF ReleaseOther
  <1>3. /\ t[1] \in Lane /\ t[2] \in Sid /\ t = <<t[1], t[2]>>
        /\ todo[p] \subseteq Lane \X Sid /\ todo'[p] = todo[p] \ {t}
        /\ \A q \in Proc \ {p} : todo'[q] = todo[q]
    BY <1>2, TypeParts DEF IInv, CallsOK
  <1>4. lock["claims"] = p
    BY <1>1 DEF Holds, HoldsLocks, ClaimsSteps
  <1>5. mode = "default" => SyncOwners(t[1]) \subseteq {t[2]}
    BY <1>1, <1>2 DEF Says, SaysOfLane
  <1>6. UNCHANGED <<op, pc, at, aim, picked, seen, unbound, files, lock, fixed, unlocked>>
    BY DEF ReleaseOther
  <1>7. Keeps(p) /\ binding' = binding /\ op' = op /\ dead' = dead /\ pc' = pc /\ lock' = lock
    BY <1>2, <1>3, <1>4, <1>5, <1>6, ReleasedKeeps DEF files, fixed
  <1>8. Minds(p)
    BY <1>3, <1>6, <1>7, EventMinds
  <1>9. Lands(p, "cleaning", {})
    <2>1. pc' = [pc EXCEPT ![p] = "cleaning"]
      BY <1>1, <1>7 DEF IInv, Core
    <2> QED
      BY <1>7, <2>1 DEF Lands, Steps, ClaimsSteps
  <1>10. CallsOK' /\ FilesOK'
    BY <1>2, <1>6, TypeParts DEF IInv, CallsOK, FilesOK, files
  <1>11. Holds(p)'
    BY <1>1, <1>6
       DEF Holds, HoldsLocks, Route, NeedsClose, NeedsBinding, MayBind, Kind
  <1>12. /\ status' = status /\ mode' = mode
         /\ \A l \in Lane : SyncOwners(l)' \subseteq SyncOwners(l)
         /\ t[2] \notin SyncOwners(t[1])'
    <2>1. rank' = [rank EXCEPT ![t[1]][t[2]] = 0] /\ status' = status
      BY <1>2 DEF LaneReleased, sessions
    <2>2. rank \in [Lane -> [Sid -> Nat]]
      BY TypeParts DEF IInv, ProjectionTypeOK
    <2>3. rank'[t[1]][t[2]] = 0 /\ \A l \in Lane : \A s \in Sid : rank'[l][s] > 0 => rank[l][s] > 0
      BY <1>3, <2>1, <2>2
    <2> QED
      BY <1>6, <2>1, <2>3 DEF SyncOwners, fixed
  <1>13. Says(p)'
    <2>1. aim[p] \in Lane
      BY TypeParts DEF IInv, CallsOK
    <2>2. SaysOfLane(p)'
      BY <1>1, <1>3, <1>6, <1>12, <2>1 DEF Says, SaysOfLane, Kind
    <2>3. SaysOfSession(p)'
      BY <1>1, <1>6, <1>12 DEF Says, SaysOfSession, Kind, Active
    <2> QED
      BY <1>1, <1>6, <2>2, <2>3 DEF Says, SaysOfEntry, SaysOfBeat, SaysOfBinding, Ahead
  <1> QED
    BY <1>7, <1>8, <1>9, <1>10, <1>11, <1>13, Onwards DEF Keeps

\* A claim.
LEMMA AppendClaimKeeps ==
    ASSUME IInv, NEW p \in Proc \ dead, AppendClaim(p)
    PROVE  IInv' /\ aim[p] \in Lane /\ \A l \in Lane : l = aim[p] => OwnersOf(l)' = {at[p]}
  <1>1. Holds(p) /\ Says(p) /\ pc[p] = "claiming"
    BY DEF IInv, Core, Held, AppendClaim, At
  <1>2. /\ at[p] \in Active /\ aim[p] \in Lane /\ lock["claims"] = p
        /\ SyncOwners(aim[p]) \subseteq {at[p]}
    BY <1>1, TypeParts
       DEF Says, SaysOfSession, SaysOfLane, Holds, HoldsLocks, ClaimsSteps, IInv, CallsOK
  <1>3. /\ LaneClaimed(at[p], aim[p]) /\ Finish(p) /\ UNCHANGED <<local, files, fixed, unlocked>>
    BY DEF AppendClaim
  <1>4. PICK l \in Lane : l = aim[p]
    BY <1>2
  <1>5. Keeps(p) /\ SyncOwners(l)' = {at[p]} /\ DefaultOwners(l)' = {at[p]}
    <2>1. \A s \in Active : s = at[p] => Keeps(p) /\ SyncOwners(l)' = {s} /\ DefaultOwners(l)' = {s}
      BY <1>2, <1>3, <1>4, ClaimedKeeps DEF files, fixed
    <2> QED
      BY <1>2, <2>1
  <1>6. FilesOK' /\ dead' = dead
    BY <1>3, TypeParts, SameTypes DEF IInv, fixed
  <1>7. IInv'
    BY <1>3, <1>5, <1>6, EventEnds
  <1> QED
    BY <1>2, <1>4, <1>5, <1>7 DEF OwnersOf

\* A release.
LEMMA AppendReleaseKeeps ==
    ASSUME IInv, NEW p \in Proc \ dead, AppendRelease(p)
    PROVE  IInv'
  <1>1. Holds(p) /\ Says(p) /\ pc[p] = "releasing"
    BY DEF IInv, Core, Held, AppendRelease, At
  <1>2. /\ at[p] \in Sid /\ aim[p] \in Lane /\ lock["claims"] = p
        /\ mode = "default" => SyncOwners(aim[p]) \subseteq {at[p]}
    BY <1>1, TypeParts
       DEF Says, SaysOfSession, SaysOfLane, Holds, HoldsLocks, ClaimsSteps, IInv, CallsOK
  <1>3. /\ LaneReleased(at[p], aim[p]) /\ Finish(p) /\ UNCHANGED <<local, files, fixed, unlocked>>
    BY DEF AppendRelease
  <1>4. Keeps(p)
    BY <1>2, <1>3, ReleasedKeeps DEF files, fixed
  <1>5. FilesOK' /\ dead' = dead
    BY <1>3, TypeParts, SameTypes DEF IInv, fixed
  <1> QED
    BY <1>3, <1>4, <1>5, EventEnds

\* A registration, under an id that no other call has.
LEMMA OwnId ==
    ASSUME OpsOK, NEW p \in Proc, NEW s \in Sid,
           \/ Kind(p) \in Minting /\ s = op[p].fresh
           \/ Kind(p) = "explicit" /\ s = op[p].sid
    PROVE  \A q \in Proc \ {p} : /\ Kind(q) \in Minting => op[q].fresh # s
                                 /\ Kind(q) = "explicit" => op[q].sid # s \/ Kind(p) = "explicit"
  <1>1. CASE Kind(p) \in Minting /\ s = op[p].fresh
    BY <1>1, ProjectionAssumption DEF OpsOK
  <1>2. CASE Kind(p) = "explicit" /\ s = op[p].sid
    BY <1>2, ProjectionAssumption DEF OpsOK
  <1> QED
    BY <1>1, <1>2

\* A registration by a command, or by a start without the binding.
LEMMA AppendEntryKeeps ==
    ASSUME IInv, NEW p \in Proc \ dead, AppendEntry(p)
    PROVE  IInv'
  <1>1. Holds(p) /\ Says(p) /\ pc[p] = "entering" /\ OpsOK
    BY DEF IInv, Core, Held, AppendEntry, At
  <1>2. PICK s \in Sid : /\ s = Entered(p) /\ status[s] = "absent"
                         /\ \/ Kind(p) \in Minting /\ s = op[p].fresh
                            \/ Kind(p) = "explicit" /\ s = op[p].sid
    <2>1. CASE Kind(p) = "explicit"
      BY <1>1, <2>1 DEF Says, SaysOfEntry, Ahead, Entered, OpsOK
    <2>2. CASE Kind(p) # "explicit"
      BY <1>1, <2>2 DEF Says, SaysOfEntry, Ahead, Entered, OpsOK, Minting, Holds, Route
    <2> QED
      BY <2>1, <2>2
  <1>3. Kind(p) = "explicit" => lock["close"] = p
    BY <1>1 DEF Holds, HoldsLocks, NeedsClose
  <1>4. \A q \in Proc \ {p} : /\ Kind(q) \in Minting => op[q].fresh # s
                              /\ Kind(q) = "explicit" => op[q].sid # s \/ lock["close"] = p
    BY <1>1, <1>2, <1>3, OwnId
  <1>5. /\ SessionRegistered(s) /\ Work(p, s)
        /\ UNCHANGED <<op, aim, todo, picked, seen, unbound, files, fixed, unlocked>>
    BY <1>2 DEF AppendEntry
  <1>6. Keeps(p) /\ status'[s] = "active"
    BY <1>2, <1>4, <1>5, RegisteredKeeps DEF files, fixed
  <1>7. CallsOK' /\ FilesOK' /\ at'[p] = s
    BY <1>5, TypeParts, SameTypes DEF IInv, CallsOK, Work, FilesOK, files
  <1>8. Minds(p)
    BY <1>5, <1>6, TypeParts
       DEF Minds, Keeps, KeepsCalls, KeepsBinding, Work, files, fixed, IInv, CallsOK
  <1>9. PICK step \in {"binding", "pointing"} :
            /\ Lands(p, step, {"close"})
            /\ step = "binding" <=> Kind(p) = "start" /\ p \notin unbound
    BY <1>5 DEF AppendEntry, Lands, Goto, Steps, CloseMay, fixed
  <1>10. /\ pc'[p] = step /\ Kind(p)' = Kind(p) /\ unbound' = unbound
         /\ \A k \in Locks : lock'[k] = p <=> lock[k] = p /\ k \notin {"close"}
    BY <1>5, <1>9, LandsSpares
  <1>11. Holds(p)'
    BY <1>1, <1>9, <1>10
       DEF Holds, HoldsLocks, Route, NeedsClose, NeedsBinding, MayBind, ClaimsSteps, CloseSteps,
           CloseMay, Owning, Locks
  <1>12. Says(p)'
    BY <1>6, <1>7, <1>9, <1>10
       DEF Says, SaysOfSession, SaysOfEntry, SaysOfBeat, SaysOfBinding, SaysOfLane, Ahead
  <1> QED
    BY <1>6, <1>7, <1>8, <1>9, <1>11, <1>12, Onwards DEF Keeps

\* A registration by a start or a mint, under both locks.
LEMMA EnrollKeeps ==
    ASSUME IInv, NEW p \in Proc \ dead, Enroll(p)
    PROVE  IInv'
  <1>1. Holds(p) /\ Says(p) /\ pc[p] = "enrolling" /\ OpsOK
    BY DEF IInv, Core, Held, Enroll, At
  <1>2. Kind(p) \in Minting
    BY <1>1 DEF Holds, Route, Minting
  <1>3. PICK s \in Sid : s = at[p] /\ status[s] = "absent" /\ s = op[p].fresh
    BY <1>1, <1>2 DEF Says, SaysOfEntry, Ahead, OpsOK
  <1>4. \A q \in Proc \ {p} : /\ Kind(q) \in Minting => op[q].fresh # s
                              /\ Kind(q) = "explicit" => op[q].sid # s
    BY <1>1, <1>2, <1>3, OwnId DEF Minting
  <1>5. SessionRegistered(s) /\ UNCHANGED <<local, files, lock, fixed, unlocked>>
    BY <1>3 DEF Enroll
  <1>6. Keeps(p) /\ status'[s] = "active" /\ at' = at
    BY <1>3, <1>4, <1>5, RegisteredKeeps DEF local, files, fixed
  <1>7. PICK step \in {"binding", "pointing"} :
            /\ Lands(p, step, {})
            /\ step = "binding" <=> Kind(p) = "start"
    BY <1>5 DEF Enroll, Lands, Goto, Steps, CloseMay, local, fixed
  <1>8. pc'[p] = step /\ Kind(p)' = Kind(p) /\ unbound' = unbound /\ lock' = lock
    BY <1>5, <1>7, LandsSpares DEF local
  <1>9. Holds(p)'
    BY <1>1, <1>7, <1>8
       DEF Holds, HoldsLocks, Route, NeedsClose, NeedsBinding, MayBind, ClaimsSteps, CloseSteps,
           CloseMay, Owning
  <1>10. Says(p)'
    BY <1>3, <1>6, <1>7, <1>8
       DEF Says, SaysOfSession, SaysOfEntry, SaysOfBeat, SaysOfBinding, SaysOfLane, Ahead
  <1> QED
    BY <1>5, <1>6, <1>7, <1>9, <1>10, EventGoes

-----------------------------------------------------------------------------
(* The steps that write the pointer or the binding *)

\* The pointer is written, or not, under whatever locks.
LEMMA PointerGoes ==
    ASSUME IInv, NEW p \in Proc \ dead, NEW step, NEW ks, Lands(p, step, ks),
           pointer' \in Sid \cup {Nobody}, UNCHANGED <<view, local, binding, fixed, unlocked>>,
           Holds(p)', Says(p)'
    PROVE  IInv'
  <1>1. Calm(p)
    BY DEF Calm, KeepsCalls, local, fixed
  <1>2. ProjectionTypeOK' /\ CallsOK'
    BY TypeParts, SameTypes DEF IInv, fixed
  <1>3. FilesOK'
    BY TypeParts DEF IInv, FilesOK
  <1> QED
    BY <1>1, <1>2, <1>3, CalmMinds, Onwards DEF IInv, Core

\* The same, when it leads to a step that goes by nothing.
LEMMA PointerPasses ==
    ASSUME IInv, NEW p \in Proc \ dead, NEW step \in {"sweeping", "selecting", "done", "unminted"},
           NEW ks, Lands(p, step, ks),
           pointer' \in Sid \cup {Nobody}, UNCHANGED <<view, local, binding, fixed, unlocked>>,
           Kind(p) \in Sweepers \/ step \in {"done", "unminted"},
           \/ step # "unminted" /\ ks = Locks
           \/ step = "unminted" /\ Kind(p) = "edit" /\ pc[p] = "clearing"
    PROVE  IInv'
  <1>1. /\ pc'[p] = step /\ Kind(p)' = Kind(p) /\ unbound' = unbound
        /\ \A k \in Locks : lock'[k] = p <=> lock[k] = p /\ k \notin ks
    BY LandsSpares DEF local
  <1>2. Holds(p)
    BY DEF IInv, Core, Held
  <1>3. HoldsLocks(p)'
    BY <1>1, <1>2
       DEF Holds, HoldsLocks, NeedsClose, NeedsBinding, MayBind, ClaimsSteps, CloseSteps, CloseMay,
           Locks
  <1>4. Route(p)'
    BY <1>1 DEF Route
  <1>5. Says(p)'
    BY <1>1
       DEF Says, SaysOfSession, SaysOfEntry, SaysOfBeat, SaysOfBinding, SaysOfLane, Ahead
  <1> QED
    BY <1>3, <1>4, <1>5, PointerGoes DEF Holds

\* The pointer of a closed session is cleared.
LEMMA ClearPointerKeeps ==
    ASSUME IInv, NEW p \in Proc \ dead, ClearPointer(p)
    PROVE  IInv'
  <1>1. Holds(p) /\ Says(p) /\ pc[p] = "clearing"
    BY DEF IInv, Core, Held, ClearPointer, At
  <1>2. /\ pointer' \in Sid \cup {Nobody} /\ UNCHANGED <<view, local, binding, fixed, unlocked>>
    BY TypeParts DEF ClearPointer, ClearActiveSessionIf, IInv, FilesOK
  <1>3. CASE Kind(p) = "end"
    <2>1. Lands(p, "unbinding", {"close"})
      BY <1>3 DEF ClearPointer, Lands, Goto, Steps, local, fixed, Sweeps
    <2>2. /\ pc'[p] = "unbinding" /\ Kind(p)' = Kind(p) /\ unbound' = unbound
          /\ \A k \in Locks : lock'[k] = p <=> lock[k] = p /\ k \notin {"close"}
      BY <1>2, <2>1, LandsSpares DEF local
    <2>3. Holds(p)'
      BY <1>1, <1>3, <2>2
         DEF Holds, HoldsLocks, Route, NeedsClose, NeedsBinding, MayBind, ClaimsSteps, CloseSteps,
             CloseMay, Owning, Locks
    <2>4. at[p] \in Sid /\ status[at[p]] = "closed" /\ at' = at /\ status' = status
      BY <1>1, <1>2 DEF Says, SaysOfSession, local, view, sessions
    <2>5. Says(p)'
      BY <1>3, <2>2, <2>4
         DEF Says, SaysOfSession, SaysOfEntry, SaysOfBeat, SaysOfBinding, SaysOfLane, Ahead
    <2> QED
      BY <1>2, <2>1, <2>3, <2>5, PointerGoes
  <1>4. CASE Kind(p) = "edit"
    <2>1. Lands(p, "unminted", {})
      BY <1>4 DEF ClearPointer, Lands, Goto, Steps, CloseMay, local, fixed, Sweeps
    <2> QED
      BY <1>1, <1>2, <1>4, <2>1, PointerPasses
  <1>5. CASE Kind(p) \notin {"end", "edit"}
    <2>1. PICK step \in {"sweeping", "done"} : /\ Lands(p, step, Locks)
                                               /\ step = "sweeping" => Kind(p) \in Sweepers
      BY <1>5 DEF ClearPointer, Lands, Goto, Steps, local, fixed, Sweeps, Sweepers
    <2> QED
      BY <1>1, <1>2, <1>5, <2>1, PointerPasses
  <1> QED
    BY <1>3, <1>4, <1>5

\* The pointer is taken by a renewal.
LEMMA KeepPointerKeeps ==
    ASSUME IInv, NEW p \in Proc \ dead, KeepPointer(p)
    PROVE  IInv'
  <1>1. /\ pointer' \in Sid \cup {Nobody} /\ UNCHANGED <<view, local, binding, fixed, unlocked>>
    BY TypeParts
       DEF KeepPointer, WriteActiveSessionIfAbsent, WriteActiveSession, IInv, FilesOK, CallsOK
  <1>2. PICK step \in {"selecting", "done"} : /\ Lands(p, step, Locks)
                                              /\ step = "selecting" => Kind(p) \in Sweepers
    BY DEF KeepPointer, Lands, Goto, Steps, local, fixed, Sweepers
  <1> QED
    BY <1>1, <1>2, PointerPasses

\* The pointer is taken by a registration.
LEMMA SetPointerKeeps ==
    ASSUME IInv, NEW p \in Proc \ dead, SetPointer(p)
    PROVE  IInv'
  <1>1. Holds(p) /\ Says(p) /\ pc[p] = "pointing"
    BY DEF IInv, Core, Held, SetPointer, At
  <1>2. /\ pointer' \in Sid \cup {Nobody} /\ UNCHANGED <<view, local, binding, fixed, unlocked>>
    BY TypeParts DEF SetPointer, WriteActiveSession, IInv, FilesOK, CallsOK
  <1>3. CASE Kind(p) = "edit"
    <2>1. Lands(p, "binding", {}) /\ lock' = lock
      BY <1>3 DEF SetPointer, Lands, Goto, Steps, CloseMay, local, fixed
    <2>2. pc'[p] = "binding" /\ Kind(p)' = Kind(p) /\ unbound' = unbound /\ lock' = lock
      BY <1>2, <2>1, LandsSpares DEF local
    <2>3. Holds(p)'
      BY <1>1, <1>3, <2>2
         DEF Holds, HoldsLocks, Route, NeedsClose, NeedsBinding, MayBind, ClaimsSteps, CloseSteps,
             CloseMay, Owning
    <2>4. at[p] \in Sid /\ status[at[p]] # "absent" /\ at' = at /\ status' = status
      BY <1>1, <1>2 DEF Says, SaysOfSession, local, view, sessions
    <2>5. Says(p)'
      BY <1>3, <2>2, <2>4
         DEF Says, SaysOfSession, SaysOfEntry, SaysOfBeat, SaysOfBinding, SaysOfLane, Ahead
    <2> QED
      BY <1>2, <2>1, <2>3, <2>5, PointerGoes
  <1>4. CASE Kind(p) # "edit"
    <2>1. PICK step \in {"selecting", "done"} : /\ Lands(p, step, Locks)
                                                /\ step = "selecting" => Kind(p) \in Sweepers
      BY <1>4 DEF SetPointer, Lands, Goto, Steps, local, fixed, Sweepers
    <2> QED
      BY <1>2, <2>1, PointerPasses
  <1> QED
    BY <1>3, <1>4

\* The one that holds the binding lock binds a session of the spine, or unbinds.
LEMMA BindMinds ==
    ASSUME IInv, NEW p \in Proc \ dead, lock["binding"] = p,
           NEW b \in [sid : Sid \cup {Nobody}, new : BOOLEAN],
           b.sid # Nobody => status[b.sid] # "absent",
           binding' = binding \/ binding' = [binding EXCEPT ![Claude_(p)] = b],
           UNCHANGED <<view, local, fixed, unlocked>>, pointer' \in Sid \cup {Nobody}
    PROVE  Minds(p) /\ ProjectionTypeOK' /\ CallsOK' /\ FilesOK'
  <1>1. /\ status' = status /\ beat' = beat /\ stale' = stale /\ claim' = claim /\ rank' = rank
        /\ mode' = mode /\ dead' = dead /\ unlocked' = unlocked
    BY DEF view, sessions, lanes, fixed
  <1>2. Claude_(p) \in Claude /\ FilesOK /\ Agrees
    BY TypeParts DEF IInv, CallsOK, Op, Claude_, Core
  <1>3. FilesOK'
    BY <1>1, <1>2 DEF FilesOK
  <1>4. \A c \in Claude : binding'[c] = binding[c] \/ binding'[c] = b
    BY <1>2 DEF FilesOK
  <1>5. BindingRegistered'
    BY <1>1, <1>2, <1>4 DEF Agrees, RecordsAgree, BindingRegistered, Bound
  <1>6. OwnersKnown' /\ FoldsAgree'
    BY <1>1, <1>2 DEF Agrees, RecordsAgree, OwnersKnown, FoldsAgree, SyncOwners, DefaultOwners
  <1>7. KeepsCalls(p) /\ KeepsSessions(p) /\ KeepsLanes(p) /\ KeepsBinding(p)
    BY <1>1 DEF KeepsCalls, KeepsSessions, KeepsLanes, KeepsBinding, SyncOwners, local
  <1>8. ProjectionTypeOK' /\ CallsOK'
    BY TypeParts, SameTypes DEF IInv, fixed
  <1> QED
    BY <1>3, <1>5, <1>6, <1>7, <1>8 DEF Minds, Agrees, RecordsAgree

\* A step that binds the session it works on, and goes on.
LEMMA BindGoes ==
    ASSUME IInv, NEW p \in Proc \ dead, NEW step, NEW ks, Lands(p, step, ks),
           pc[p] \in {"binding", "rebinding"}, lock["binding"] = p,
           binding' = binding \/ binding' = [binding EXCEPT ![Claude_(p)] = Binding(at[p])],
           UNCHANGED <<view, local, pointer, fixed, unlocked>>, Holds(p)', Says(p)'
    PROVE  IInv'
  <1>1. at[p] \in Sid /\ status[at[p]] # "absent"
    BY DEF IInv, Core, Says, SaysOfSession
  <1>2. Binding(at[p]) \in [sid : Sid \cup {Nobody}, new : BOOLEAN] /\ Binding(at[p]).sid = at[p]
    BY <1>1 DEF Binding
  <1>3. pointer' \in Sid \cup {Nobody}
    BY TypeParts DEF IInv, FilesOK
  <1>4. Minds(p) /\ ProjectionTypeOK' /\ CallsOK' /\ FilesOK'
    BY <1>1, <1>2, <1>3, BindMinds
  <1> QED
    BY <1>4, Onwards

\* A SessionStart binds.
LEMMA BindStartKeeps ==
    ASSUME IInv, NEW p \in Proc \ dead, Rebind(p) \/ BindStart(p)
    PROVE  IInv'
  <1>1. Holds(p) /\ Says(p) /\ pc[p] \in {"rebinding", "binding"} /\ Kind(p) = "start"
    BY DEF IInv, Core, Held, Rebind, BindStart, At, Holds, Route
  <1>2. PICK step \in {"keeping", "pointing"} : Lands(p, step, {})
    BY DEF Rebind, BindStart, Lands, Goto, Steps, CloseMay, local, fixed
  <1>3. /\ binding' = binding \/ binding' = [binding EXCEPT ![Claude_(p)] = Binding(at[p])]
        /\ UNCHANGED <<view, local, pointer, lock, fixed, unlocked>>
    BY DEF Rebind, BindStart, Bind
  <1>4. /\ pc'[p] = step /\ Kind(p)' = Kind(p) /\ unbound' = unbound /\ lock' = lock
    BY <1>2, <1>3, LandsSpares DEF local
  <1>5. lock["binding"] = p
    BY <1>1 DEF Holds, HoldsLocks, NeedsBinding
  <1>6. Holds(p)'
    BY <1>1, <1>4
       DEF Holds, HoldsLocks, Route, NeedsClose, NeedsBinding, MayBind, ClaimsSteps, CloseSteps,
           CloseMay, Owning
  <1>7. at[p] \in Sid /\ status[at[p]] # "absent" /\ at' = at /\ status' = status
    BY <1>1, <1>3 DEF Says, SaysOfSession, local, view, sessions
  <1>8. Says(p)'
    BY <1>4, <1>7
       DEF Says, SaysOfSession, SaysOfEntry, SaysOfBeat, SaysOfBinding, SaysOfLane, Ahead
  <1> QED
    BY <1>1, <1>2, <1>3, <1>5, <1>6, <1>8, BindGoes

\* A mint binds, or is rolled back.
LEMMA BindMintKeeps ==
    ASSUME IInv, NEW p \in Proc \ dead, BindMint(p)
    PROVE  IInv'
  <1>1. Holds(p) /\ pc[p] = "binding" /\ Kind(p) = "edit"
    BY DEF IInv, Core, Held, BindMint, At
  <1>2. lock["binding"] = p
    BY <1>1 DEF Holds, HoldsLocks, NeedsBinding
  <1>3. /\ UNCHANGED <<view, local, pointer, fixed, unlocked>>
        /\ binding' = binding \/ binding' = [binding EXCEPT ![Claude_(p)] = Binding(at[p])]
        /\ \/ Goto(p, "close") /\ lock' = Dropped(p, Locks)
           \/ Goto(p, "shutLook") /\ lock' = lock
    BY DEF BindMint
  <1>4. ASSUME NEW step \in {"close", "shutLook"}, NEW ks, Lands(p, step, ks),
               ks = IF step = "close" THEN Locks ELSE {}
        PROVE  IInv'
    <2>1. /\ pc'[p] = step /\ Kind(p)' = Kind(p) /\ unbound' = unbound
          /\ \A k \in Locks : lock'[k] = p <=> lock[k] = p /\ k \notin ks
      BY <1>3, <1>4, LandsSpares DEF local
    <2>2. Holds(p)'
      BY <1>1, <1>4, <2>1
         DEF Holds, HoldsLocks, Route, NeedsClose, NeedsBinding, MayBind, ClaimsSteps, CloseSteps,
             CloseMay, Owning, Locks
    <2>3. Says(p)'
      BY <1>1, <2>1
         DEF Says, SaysOfSession, SaysOfEntry, SaysOfBeat, SaysOfBinding, SaysOfLane, Ahead
    <2> QED
      BY <1>1, <1>2, <1>3, <1>4, <2>2, <2>3, BindGoes
  <1>5. \/ Lands(p, "close", Locks)
        \/ Lands(p, "shutLook", {})
    BY <1>3 DEF Lands, Goto, Steps, CloseSteps, CloseMay, local, fixed
  <1> QED
    BY <1>4, <1>5

\* A SessionEnd unbinds what it has closed.
LEMMA UnbindKeeps ==
    ASSUME IInv, NEW p \in Proc \ dead, Unbind(p)
    PROVE  IInv'
  <1>1. Holds(p) /\ pc[p] = "unbinding"
    BY DEF IInv, Core, Held, Unbind, At
  <1>2. lock["binding"] = p
    BY <1>1 DEF Holds, HoldsLocks, NeedsBinding
  <1>3. /\ binding' = binding \/ binding' = [binding EXCEPT ![Claude_(p)] = Unbound]
        /\ UNCHANGED <<view, local, pointer, fixed, unlocked>> /\ Finish(p)
    BY DEF Unbind
  <1>4. Unbound \in [sid : Sid \cup {Nobody}, new : BOOLEAN] /\ Unbound.sid = Nobody
    BY DEF Unbound
  <1>5. pointer' \in Sid \cup {Nobody} /\ op' = op /\ dead' = dead
    BY <1>3, TypeParts DEF IInv, FilesOK, local, fixed
  <1>6. Minds(p) /\ ProjectionTypeOK' /\ CallsOK' /\ FilesOK'
    BY <1>2, <1>3, <1>4, <1>5, BindMinds
  <1>7. OpsOK' /\ Core' /\ LocksOK'
    BY <1>3, <1>5, <1>6, Ends
  <1> QED
    BY <1>6, <1>7, TypeAssembles DEF IInv

-----------------------------------------------------------------------------
(* The steps of no call *)

\* The spine becomes a synced one.
LEMMA TurnSyncKeeps ==
    ASSUME IInv, NEW p \in Proc \ dead, TurnSync(p)
    PROVE  IInv'
  <1>1. /\ pc[p] = "turning" /\ mode' = "sync" /\ Lands(p, "done", {})
        /\ UNCHANGED <<view, corrupt, local, files, lock, dead, unlocked>>
    BY DEF TurnSync, At, Lands, Goto, Steps, local
  <1>2. Holds(p) /\ Agrees
    BY DEF IInv, Core, Held
  <1>3. /\ status' = status /\ beat' = beat /\ stale' = stale /\ claim' = claim /\ rank' = rank
        /\ claimSeq' = claimSeq /\ binding' = binding /\ corrupt' = corrupt
    BY <1>1 DEF view, sessions, lanes, files
  <1>4. ProjectionTypeOK' /\ CallsOK' /\ FilesOK'
    BY <1>1, <1>3, TypeParts, SameTypes DEF IInv, ProjectionTypeOK
  <1>5. Agrees'
    BY <1>1, <1>2, <1>3 DEF Agrees, OwnersKnown, RecordsAgree, FoldsAgree, BindingRegistered, Bound
  <1>6. Minds(p)
    BY <1>1, <1>3, <1>5
       DEF Minds, KeepsCalls, KeepsSessions, KeepsLanes, KeepsBinding, SyncOwners, local
  <1>7. pc'[p] = "done" /\ \A k \in Locks : lock'[k] # p
    <2>1. \A k \in Locks : lock[k] # p
      BY <1>1, <1>2 DEF Holds, HoldsLocks, ClaimsSteps, CloseMay, CloseSteps, MayBind, Locks
    <2> QED
      BY <1>1, <2>1, LandsSpares
  <1> QED
    BY <1>1, <1>4, <1>6, <1>7, OverHolds, OverSays, Onwards

\* A process exits.
LEMMA DieKeeps ==
    ASSUME IInv, NEW p \in Proc, Die(p)
    PROVE  IInv'
  <1>1. /\ dead' = dead \cup {p}
        /\ UNCHANGED <<view, mode, corrupt, local, pc, files, lock, unlocked>>
    BY DEF Die
  <1>2. /\ status' = status /\ beat' = beat /\ stale' = stale /\ claim' = claim /\ rank' = rank
        /\ claimSeq' = claimSeq /\ binding' = binding /\ corrupt' = corrupt /\ mode' = mode
        /\ op' = op /\ at' = at /\ aim' = aim /\ todo' = todo /\ unbound' = unbound /\ pc' = pc
        /\ lock' = lock /\ unlocked' = unlocked
    BY <1>1 DEF view, sessions, lanes, files, local
  <1>3. ProjectionTypeOK' /\ CallsOK' /\ FilesOK'
    BY <1>1, TypeParts, SameTypes DEF IInv
  <1>4. LocksOK'
    BY <1>1, <1>2, TypeParts DEF IInv, LocksOK
  <1>5. OpsOK' /\ Agrees'
    BY <1>2 DEF IInv, Core, OpsOK, Kind, Agrees, OwnersKnown, RecordsAgree, FoldsAgree,
                BindingRegistered, SyncOwners, DefaultOwners, Bound
  <1>6. ASSUME NEW q \in Proc \ dead'
        PROVE  Holds(q)' /\ Says(q)'
    <2>1. Holds(q) /\ Says(q)
      BY <1>1, <1>6 DEF IInv, Core, Held
    <2>2. Holds(q)'
      BY <1>2, <2>1
         DEF Holds, HoldsLocks, Route, NeedsClose, NeedsBinding, MayBind, Kind
    <2>3. Says(q)'
      BY <1>2, <2>1
         DEF Says, SaysOfSession, SaysOfEntry, SaysOfBeat, SaysOfBinding, SaysOfLane, Kind, Sweeps,
             Claude_, Bound, Active, SyncOwners
    <2> QED
      BY <2>2, <2>3
  <1>7. Core'
    BY <1>2, <1>5, <1>6 DEF IInv, Core, Held
  <1> QED
    BY <1>3, <1>4, <1>5, <1>7, TypeAssembles DEF IInv

\* A binding is no longer a recent one.
LEMMA BindingAgesKeeps ==
    ASSUME IInv, NEW c \in Claude, BindingAges(c)
    PROVE  IInv'
  <1>1. /\ binding' = [binding EXCEPT ![c].new = FALSE]
        /\ UNCHANGED <<view, local, pc, pointer, lock, fixed, unlocked>>
    BY DEF BindingAges
  <1>2. /\ status' = status /\ beat' = beat /\ stale' = stale /\ claim' = claim /\ rank' = rank
        /\ claimSeq' = claimSeq /\ corrupt' = corrupt /\ mode' = mode /\ dead' = dead
        /\ op' = op /\ at' = at /\ aim' = aim /\ todo' = todo /\ unbound' = unbound /\ pc' = pc
        /\ lock' = lock /\ unlocked' = unlocked /\ pointer' = pointer
    BY <1>1 DEF view, sessions, lanes, fixed, local
  <1>3. ProjectionTypeOK' /\ CallsOK' /\ LocksOK'
    BY <1>1, TypeParts, SameTypes DEF IInv, fixed
  <1>4. FilesOK'
    BY <1>1, <1>2, TypeParts DEF IInv, FilesOK
  <1>5. \A d \in Claude : /\ Bound(d)' = Bound(d)
                          /\ ~binding[d].new => binding'[d] = binding[d]
    BY <1>1, TypeParts DEF IInv, FilesOK, Bound
  <1>6. OpsOK' /\ Agrees'
    BY <1>2, <1>5 DEF IInv, Core, OpsOK, Kind, Agrees, OwnersKnown, RecordsAgree, FoldsAgree,
                      BindingRegistered, SyncOwners, DefaultOwners
  <1>7. ASSUME NEW q \in Proc \ dead
        PROVE  Holds(q)' /\ Says(q)'
    <2>1. Holds(q) /\ Says(q) /\ Claude_(q) \in Claude /\ Claude_(q)' = Claude_(q)
      BY <1>2, <1>7, TypeParts DEF IInv, Core, Held, CallsOK, Op, Claude_
    <2>2. Holds(q)'
      BY <1>2, <2>1
         DEF Holds, HoldsLocks, Route, NeedsClose, NeedsBinding, MayBind, Kind
    <2>3. SaysOfBinding(q)'
      <3>1. Bound(Claude_(q))' = Bound(Claude_(q))
        BY <1>5, <2>1 DEF Bound
      <3>2. ~binding[Claude_(q)].new => binding'[Claude_(q)] = binding[Claude_(q)]
        BY <1>5, <2>1
      <3> QED
        BY <1>2, <2>1, <3>1, <3>2 DEF Says, SaysOfBinding, Kind, Active
    <2>4. Says(q)'
      BY <1>2, <2>1, <2>3
         DEF Says, SaysOfSession, SaysOfEntry, SaysOfBeat, SaysOfLane, Kind, Sweeps, Active,
             SyncOwners
    <2> QED
      BY <2>2, <2>4
  <1>8. Core'
    BY <1>2, <1>6, <1>7 DEF IInv, Core, Held
  <1> QED
    BY <1>3, <1>4, <1>6, <1>8, TypeAssembles DEF IInv

-----------------------------------------------------------------------------
(* The invariant *)

\* Where each call begins.
LEMMA FirstSteps ==
    ASSUME NEW p, Kind(p) \in Kinds, pc[p] = First(op[p])
    PROVE  \/ Kind(p) \in {"claim", "force"} /\ pc[p] = "close"
           \/ Kind(p) = "edit" /\ pc[p] = "resolving"
           \/ Kind(p) = "release" /\ pc[p] = "claims"
           \/ Kind(p) = "sweep" /\ pc[p] = "selecting"
           \/ Kind(p) = "close" /\ pc[p] = "shut"
           \/ Kind(p) = "heartbeat" /\ pc[p] = "beat"
           \/ Kind(p) = "explicit" /\ pc[p] = "enter"
           \/ Kind(p) = "register" /\ pc[p] \in {"enter", "renew"}
           \/ Kind(p) = "start" /\ pc[p] = "startBinding"
           \/ Kind(p) = "end" /\ pc[p] = "endBinding"
           \/ Kind(p) = "init" /\ pc[p] = "turning"
           \/ Kind(p) = "none" /\ pc[p] = "done"
  BY DEF First, Kinds, Kind

\* Every scene makes a state that has the invariant.
LEMMA InitOK == Init => IInv
  <1> SUFFICES ASSUME Init
               PROVE  IInv
    OBVIOUS
  <1>1. PICK sc \in Scenes : /\ op = sc.ops /\ status = sc.status /\ beat = sc.beat
                             /\ claim = sc.claim /\ rank = sc.rank /\ mode = sc.mode
                             /\ corrupt = sc.corrupt /\ binding = sc.binding
                             /\ pointer = sc.pointer
                             /\ claimSeq = Cardinality({t \in Lane \X Sid :
                                                           sc.rank[t[1]][t[2]] > 0})
    BY DEF Init
  <1>2. SceneCalls(sc) /\ SceneSpine(sc) /\ SceneOwners(sc)
    BY ScenesAssumption
  <1>3. claimSeq \in Nat
    BY <1>1, <1>2, FS_CardinalityType DEF SceneSpine
  <1>4. ProjectionTypeOK /\ FilesOK
    BY <1>1, <1>2, <1>3 DEF Init, ProjectionTypeOK, FilesOK, SceneSpine
  <1>5. CallsOK /\ LocksOK
    <2>1. op \in [Proc -> Op]
      BY <1>1, <1>2 DEF SceneCalls
    <2> QED
      BY <2>1 DEF Init, CallsOK, LocksOK, Op
  <1>6. OpsOK /\ \A p \in Proc : Kind(p) \in Minting => status[op[p].fresh] = "absent"
    BY <1>1, <1>2 DEF SceneCalls, OpsOK, Kind, Minting
  <1>7. OwnersKnown /\ FoldsAgree
    BY <1>1, <1>2 DEF SceneOwners, OwnersKnown, FoldsAgree, DefaultOwners, SyncOwners
  <1>8. BindingRegistered
    <2>1. ASSUME NEW c \in Claude, Bound(c) # Nobody
          PROVE  status[Bound(c)] # "absent"
      <3>1. Bound(c) \in Sid
        BY <1>4, <2>1 DEF FilesOK, Bound
      <3> QED
        BY <1>1, <1>2, <3>1 DEF SceneOwners, Bound
    <2> QED
      BY <2>1 DEF BindingRegistered
  <1>9. ASSUME NEW p \in Proc
        PROVE  pc[p] \in Steps /\ Holds(p) /\ Says(p)
    <2>1. Kind(p) \in Kinds /\ pc[p] = First(op[p]) /\ at[p] = op[p].sid
          /\ \A k \in Locks : lock[k] # p
      BY <1>5, StoreAssumption DEF Init, CallsOK, Kind, Op
    <2>2. Kind(p) \in Minting => status[op[p].fresh] = "absent"
      BY <1>6, <1>9
    <2>3. pc[p] \in Steps
      BY <2>1, FirstSteps DEF Steps, CloseMay
    <2>4. HoldsLocks(p)
      BY <2>1, FirstSteps DEF HoldsLocks, NeedsClose, NeedsBinding, ClaimsSteps, CloseSteps, Locks,
                              Owning
    <2>5. Route(p)
      BY <2>1, FirstSteps DEF Route, Owning, Sweepers
    <2>6. SaysOfSession(p)
      BY <1>6, <2>1, FirstSteps DEF SaysOfSession, OpsOK
    <2>7. SaysOfEntry(p)
      BY <2>1, <2>2, FirstSteps DEF SaysOfEntry
    <2>8. SaysOfBeat(p) /\ SaysOfBinding(p) /\ SaysOfLane(p)
      BY <2>1, FirstSteps DEF SaysOfBeat, SaysOfBinding, SaysOfLane
    <2> QED
      BY <2>3, <2>4, <2>5, <2>6, <2>7, <2>8 DEF Says, Holds
  <1>10. Core
    BY <1>7, <1>8, <1>9 DEF Core, Held, Agrees, RecordsAgree, Init
  <1> QED
    BY <1>4, <1>5, <1>6, <1>10, TypeParts DEF IInv

\* Nothing happens.
LEMMA NothingKeeps ==
    ASSUME IInv, UNCHANGED vars
    PROVE  IInv'
  <1>1. /\ status' = status /\ beat' = beat /\ stale' = stale /\ claim' = claim /\ rank' = rank
        /\ claimSeq' = claimSeq /\ corrupt' = corrupt /\ mode' = mode /\ dead' = dead
        /\ op' = op /\ at' = at /\ aim' = aim /\ todo' = todo /\ unbound' = unbound /\ pc' = pc
        /\ lock' = lock /\ unlocked' = unlocked /\ binding' = binding
        /\ UNCHANGED <<view, local, files>>
    BY DEF vars, view, sessions, lanes, local, files
  <1>2. ProjectionTypeOK' /\ CallsOK' /\ FilesOK' /\ LocksOK'
    BY <1>1, TypeParts, SameTypes DEF IInv
  <1>3. OpsOK' /\ Agrees'
    BY <1>1 DEF IInv, Core, OpsOK, Kind, Agrees, OwnersKnown, RecordsAgree, FoldsAgree,
                BindingRegistered, SyncOwners, DefaultOwners, Bound
  <1>4. ASSUME NEW q \in Proc \ dead
        PROVE  Holds(q)' /\ Says(q)'
    <2>1. Holds(q) /\ Says(q)
      BY <1>4 DEF IInv, Core, Held
    <2>2. Holds(q)'
      BY <1>1, <2>1
         DEF Holds, HoldsLocks, Route, NeedsClose, NeedsBinding, MayBind, Kind
    <2>3. Says(q)'
      BY <1>1, <2>1
         DEF Says, SaysOfSession, SaysOfEntry, SaysOfBeat, SaysOfBinding, SaysOfLane, Kind, Sweeps,
             Claude_, Bound, Active, SyncOwners
    <2> QED
      BY <2>2, <2>3
  <1>5. Core'
    BY <1>1, <1>3, <1>4 DEF IInv, Core, Held
  <1> QED
    BY <1>2, <1>3, <1>5, TypeAssembles DEF IInv

\* A step of the session writers.
LEMMA LifecycleKeeps ==
    ASSUME IInv, NEW p \in Proc \ dead, LifecycleStep(p)
    PROVE  IInv'
  BY TakeCloseLockKeeps, CloseLockBusyKeeps, CheckCloseKeeps, AppendCloseKeeps, ClearPointerKeeps,
     AppendHeartbeatKeeps, CheckRenewKeeps, AppendRenewalKeeps, KeepPointerKeeps, CheckEntryKeeps,
     AppendEntryKeeps, SetPointerKeeps, SelectKeeps, NextCandidateKeeps, NoCandidateKeeps,
     CheckStaleKeeps, AppendStaleKeeps
     DEF LifecycleStep

\* A step of the hooks.
LEMMA HookKeeps ==
    ASSUME IInv, NEW p \in Proc \ dead, HookStep(p)
    PROVE  IInv'
  BY TakeHookLocksKeeps, StartLocksBusyKeeps, CheckStartKeeps, AppendRenewalKeeps, BindStartKeeps,
     EnrollKeeps, EndGivesUpKeeps, ReadBindingKeeps, UnbindKeeps, ReadOwnBindingKeeps, ResolveKeeps,
     MintRefusedKeeps, CheckMintKeeps, BindMintKeeps
     DEF HookStep

\* A step of the lane writers.
LEMMA LaneKeeps ==
    ASSUME IInv, NEW p \in Proc \ dead, LaneStep(p)
    PROVE  IInv'
  BY TakeClaimLocksKeeps, GivesUpKeeps, DecideClaimKeeps, DecideForceKeeps, DecideAutoClaimKeeps,
     DecideReleaseKeeps, DecideReapKeeps, PassesKeeps, ReleaseOtherKeeps, OthersReleasedKeeps,
     AppendClaimKeeps, AppendReleaseKeeps
     DEF LaneStep

\* A process that exited takes no step.
LEMMA OnlyTheLiving ==
    ASSUME NEW p \in Proc, LifecycleStep(p) \/ HookStep(p) \/ LaneStep(p) \/ AppendFails(p) \/ TurnSync(p)
    PROVE  p \notin dead
  BY DEF LifecycleStep, TakeCloseLock, CloseLockBusy, CheckClose, AppendClose, ClearPointer,
         AppendHeartbeat, CheckRenew, AppendRenewal, KeepPointer, CheckEntry, AppendEntry,
         SetPointer, Select, NextCandidate, NoCandidate, CheckStale, AppendStale, HookStep,
         TakeHookLocks, StartLocksBusy, CheckStart, AppendStartRenewal, Rebind, Enroll, BindStart,
         EndGivesUp, ReadBinding, Unbind, ReadOwnBinding, Resolve, MintRefused, CheckMint, BindMint,
         RolledBack, LaneStep, TakeClaimLocks, ClaimLocksBusy, Refuse, DecideClaim, DecideForce,
         DecideAutoClaim, DecideRelease, DecideReap, FireTrigger, MarkForced, Passes, ReleaseOther,
         OthersReleased, AppendClaim, AppendRelease, AppendFails, TurnSync, Take, Busy, At, Looks

\* Every step keeps it.
LEMMA NextOK == IInv /\ [Next]_vars => IInv'
  <1> SUFFICES ASSUME IInv, [Next]_vars
               PROVE  IInv'
    OBVIOUS
  <1>1. ASSUME NEW p \in Proc, Step(p)
        PROVE  IInv'
    <2>1. CASE Die(p)
      BY <2>1, DieKeeps
    <2>2. CASE ~Die(p)
      BY <1>1, <2>2, OnlyTheLiving, LifecycleKeeps, HookKeeps, LaneKeeps, AppendFailsKeeps,
         TurnSyncKeeps
         DEF Step
    <2> QED
      BY <2>1, <2>2
  <1>2. ASSUME NEW c \in Claude, BindingAges(c)
        PROVE  IInv'
    BY <1>2, BindingAgesKeeps
  <1>3. CASE UNCHANGED vars
    BY <1>3, NothingKeeps
  <1> QED
    BY <1>1, <1>2, <1>3 DEF Next

\* What a process goes by at each step, whatever the others do meanwhile.
THEOREM Inductive == Spec => []IInv
  BY InitOK, NextOK, PTL DEF Spec

\* Every variable keeps its type.
THEOREM TypeCorrect == Spec => []TypeOK
  <1>1. IInv => TypeOK
    BY DEF IInv
  <1> QED
    BY <1>1, Inductive, PTL

\* The two ownership folds name the same owners for as long as the spine is of one checkout, and no
\* binding is ahead of the spine.
THEOREM RecordsAgreeAlways == Spec => []RecordsAgree
  <1>1. IInv => RecordsAgree
    BY DEF IInv, Core, Agrees
  <1> QED
    BY <1>1, Inductive, PTL

\* What a writer has decided under its locks still holds when its append is made.
THEOREM DecisionsHoldAlways == Spec => []DecisionsHold
  <1>1. IInv => DecisionsHold
    <2> SUFFICES ASSUME IInv
                 PROVE  DecisionsHold
      OBVIOUS
    <2>1. ASSUME NEW p \in Proc \ dead
          PROVE  Holds(p) /\ Says(p)
      BY <2>1 DEF IInv, Core, Held
    <2>2. LifecycleOnce
      <3>1. ASSUME NEW p \in Proc \ dead, pc[p] = "entering"
            PROVE  status[Entered(p)] = "absent"
        BY <2>1, <3>1 DEF Says, SaysOfEntry, Entered, Ahead, Minting, Holds, Route
      <3>2. ASSUME NEW p \in Proc \ dead, pc[p] = "enrolling"
            PROVE  status[at[p]] = "absent"
        BY <2>1, <3>2 DEF Says, SaysOfEntry, Ahead, Minting, Holds, Route
      <3> QED
        BY <2>1, <3>1, <3>2 DEF LifecycleOnce, Writing, Says, SaysOfSession
    <2>3. HeartbeatSpares
      BY <2>1 DEF HeartbeatSpares, Writing, Says, SaysOfBeat
    <2>4. NoDoubleMint /\ EndSparesContinuation
      BY <2>1 DEF NoDoubleMint, EndSparesContinuation, Writing, Says, SaysOfBinding
    <2> QED
      BY <2>2, <2>3, <2>4 DEF DecisionsHold
  <1> QED
    BY <1>1, Inductive, PTL

\* Who holds the innermost lock waits for nobody, and who holds another waits for an inner one.
THEOREM NoLockCycleAlways == Spec => []NoLockCycle
  <1>1. IInv => NoLockCycle
    <2> SUFFICES ASSUME IInv, NEW S \in SUBSET (Proc \ dead), S # {},
                        \A p \in S : Waiting(p, S)
                 PROVE  FALSE
      BY DEF NoLockCycle
    <2>1. \A p \in S : Holds(p)
      BY DEF IInv, Core, Held
    <2>2. \A p \in S : \E k \in Locks : pc[p] \in LockOf[k] /\ lock[k] \in S
      BY DEF Waiting
    <2>3. lock["claims"] \notin S
      BY <2>1, <2>2 DEF Holds, HoldsLocks, ClaimsSteps, Locks, LockOf
    <2>4. lock["close"] \notin S
      <3>1. \A p \in S : pc[p] \in LockOf["claims"] => lock["claims"] \in S
        BY <2>2 DEF Locks, LockOf
      <3>2. \A p \in S : pc[p] \notin LockOf["claims"]
        BY <2>3, <3>1
      <3>3. ASSUME lock["close"] \in S
            PROVE  FALSE
        <4>1. pc[lock["close"]] \in CloseMay
          BY <2>1, <3>3 DEF Holds, HoldsLocks
        <4> QED
          BY <2>2, <3>2, <3>3, <4>1 DEF CloseMay, CloseSteps, ClaimsSteps, Locks, LockOf
      <3> QED
        BY <3>3
    <2>5. lock["binding"] \notin S
      <3>1. ASSUME lock["binding"] \in S
            PROVE  FALSE
        <4>1. MayBind(lock["binding"])
          BY <2>1, <3>1 DEF Holds, HoldsLocks
        <4>2. pc[lock["binding"]] \notin LockOf["binding"]
          BY <4>1 DEF MayBind, LockOf
        <4> QED
          BY <2>2, <2>3, <2>4, <3>1, <4>2 DEF Locks
      <3> QED
        BY <3>1
    <2> QED
      BY <2>2, <2>3, <2>4, <2>5 DEF Locks
  <1> QED
    BY <1>1, Inductive, PTL

-----------------------------------------------------------------------------
(* What a step may do to the lanes and the files *)

\* The event of a step, with what its writer went by.
Event(p) ==
    \/ \E s \in Active : SessionClosed(s)
    \/ \E s \in Sid : status[s] = "absent" /\ SessionRegistered(s)
    \/ \E s \in Sid : SessionHeartbeat(s) \/ SessionStaleDetected(s)
    \/ pc[p] = "cleaning" /\ \E t \in todo[p] : LaneReleased(t[2], t[1])
    \/ pc[p] = "releasing" /\ LaneReleased(at[p], aim[p])
    \/ AppendClaim(p)

\* A step without an event leaves the spine alone.
LEMMA LifecycleEvents ==
    ASSUME NEW p \in Proc, Holds(p), Says(p), OpsOK, LifecycleStep(p)
    PROVE  UNCHANGED <<view, mode>> \/ (mode' = mode /\ Event(p))
  <1>1. CASE AppendClose(p)
    BY <1>1 DEF AppendClose, At, Says, SaysOfSession, Event, fixed
  <1>2. CASE AppendHeartbeat(p)
    BY <1>2 DEF AppendHeartbeat, At, Says, SaysOfSession, Event, fixed
  <1>3. CASE AppendRenewal(p)
    BY <1>3 DEF AppendRenewal, At, Says, SaysOfSession, Event, fixed, Active
  <1>4. CASE AppendEntry(p)
    <2>1. Entered(p) \in Sid /\ status[Entered(p)] = "absent"
      BY <1>4
         DEF AppendEntry, At, Says, SaysOfEntry, Ahead, Entered, OpsOK, Minting, Holds, Route
    <2> QED
      BY <1>4, <2>1 DEF AppendEntry, Event, fixed
  <1>5. CASE AppendStale(p)
    BY <1>5 DEF AppendStale, At, Says, SaysOfSession, Event, fixed, Active
  <1> QED
    BY <1>1, <1>2, <1>3, <1>4, <1>5
       DEF LifecycleStep, TakeCloseLock, Take, CloseLockBusy, CheckClose, ClearPointer, CheckRenew,
           KeepPointer, CheckEntry, SetPointer, Select, NextCandidate, NoCandidate, CheckStale,
           Move, fixed

\* The same of the hooks.
LEMMA HookEvents ==
    ASSUME NEW p \in Proc, Holds(p), Says(p), OpsOK, HookStep(p)
    PROVE  UNCHANGED <<view, mode>> \/ (mode' = mode /\ Event(p))
  <1>1. CASE AppendStartRenewal(p)
    BY <1>1 DEF AppendStartRenewal, At, Says, SaysOfSession, Event, fixed, Active
  <1>2. CASE Enroll(p)
    <2>1. at[p] \in Sid /\ status[at[p]] = "absent"
      BY <1>2 DEF Enroll, At, Says, SaysOfEntry, Ahead, OpsOK, Minting, Holds, Route
    <2> QED
      BY <1>2, <2>1 DEF Enroll, Event, fixed
  <1> QED
    BY <1>1, <1>2
       DEF HookStep, TakeHookLocks, Take, StartLocksBusy, CheckStart, Rebind, BindStart, EndGivesUp,
           ReadBinding, Unbind, ReadOwnBinding, Resolve, MintRefused, CheckMint, BindMint,
           RolledBack, Unminted, Move, fixed

\* The same of the lane writers.
LEMMA LaneEvents ==
    ASSUME NEW p \in Proc, LaneStep(p)
    PROVE  UNCHANGED <<view, mode>> \/ (mode' = mode /\ Event(p))
  <1>1. CASE ReleaseOther(p)
    BY <1>1 DEF ReleaseOther, At, Event, fixed
  <1>2. CASE AppendRelease(p)
    BY <1>2 DEF AppendRelease, At, Event, fixed
  <1>3. CASE AppendClaim(p)
    BY <1>3 DEF AppendClaim, Event, fixed
  <1> QED
    BY <1>1, <1>2, <1>3
       DEF LaneStep, TakeClaimLocks, Take, ClaimLocksBusy, Refuse, DecideClaim, DecideForce,
           DecideAutoClaim, DecideRelease, DecideReap, Decided, FireTrigger, MarkForced, Passes,
           OthersReleased, fixed

\* All that a step does to the spine.
LEMMA Events ==
    ASSUME IInv, [Next]_vars
    PROVE  \/ UNCHANGED view
           \/ mode' = mode /\ \E p \in Proc \ dead : Event(p)
  <1>1. ASSUME NEW p \in Proc, Step(p)
        PROVE  UNCHANGED view \/ (mode' = mode /\ p \notin dead /\ Event(p))
    <2>1. CASE Die(p)
      BY <2>1 DEF Die
    <2>2. CASE AppendFails(p) \/ TurnSync(p)
      BY <2>2 DEF AppendFails, TurnSync
    <2>3. CASE LifecycleStep(p) \/ HookStep(p) \/ LaneStep(p)
      <3>1. p \notin dead /\ Holds(p) /\ Says(p) /\ OpsOK
        BY <2>3, OnlyTheLiving DEF IInv, Core, Held
      <3> QED
        BY <2>3, <3>1, LifecycleEvents, HookEvents, LaneEvents
    <2> QED
      BY <1>1, <2>1, <2>2, <2>3 DEF Step
  <1>2. ASSUME NEW c \in Claude, BindingAges(c)
        PROVE  UNCHANGED view
    BY <1>2 DEF BindingAges
  <1>3. CASE UNCHANGED vars
    BY <1>3 DEF vars
  <1> QED
    BY <1>1, <1>2, <1>3 DEF Next


\* The types that the events are about.
LEMMA ViewTypes ==
    ASSUME IInv
    PROVE  /\ status \in [Sid -> {"absent", "active", "closed"}]
           /\ claim \in [Lane -> Sid \cup {Nobody}]
           /\ rank \in [Lane -> [Sid -> Nat]]
           /\ claimSeq \in Nat
           /\ at \in [Proc -> Sid \cup {Nobody}]
           /\ aim \in [Proc -> Lane]
           /\ todo \in [Proc -> SUBSET (Lane \X Sid)]
           /\ pc \in [Proc -> Steps]
  BY DEF IInv, TypeOK, ProjectionTypeOK, Core

\* No writer makes an orphan: what a claim adds is an owner that is active, and what ends a session
\* takes its lanes in both folds.
THEOREM NoNewOrphanAlways == Spec => NoNewOrphan
  <1>1. IInv /\ [Next]_vars => [Orphans' \subseteq Orphans]_view
    <2> SUFFICES ASSUME IInv, [Next]_vars,
                        NEW p \in Proc \ dead, Event(p),
                        NEW l \in Lane, NEW s \in Sid,
                        s \notin Active', claim'[l] = s \/ rank'[l][s] > 0
                 PROVE  s \notin Active /\ (claim[l] = s \/ rank[l][s] > 0)
      BY Events DEF Orphans, DefaultOwners, SyncOwners
    <2>1. ASSUME NEW e \in Active, SessionClosed(e)
          PROVE  s \notin Active /\ (claim[l] = s \/ rank[l][s] > 0)
      BY <2>1, ViewTypes, ProjectionAssumption DEF SessionClosed, Active
    <2>2. ASSUME NEW e \in Sid, status[e] = "absent", SessionRegistered(e)
          PROVE  s \notin Active /\ (claim[l] = s \/ rank[l][s] > 0)
      BY <2>2, ViewTypes DEF SessionRegistered, Active, lanes
    <2>3. ASSUME NEW e \in Sid, SessionHeartbeat(e) \/ SessionStaleDetected(e)
          PROVE  s \notin Active /\ (claim[l] = s \/ rank[l][s] > 0)
      BY <2>3, ViewTypes DEF SessionHeartbeat, SessionStaleDetected, Active, lanes
    <2>4. ASSUME NEW k \in Lane, NEW e \in Sid \cup {Nobody}, LaneReleased(e, k)
          PROVE  s \notin Active /\ (claim[l] = s \/ rank[l][s] > 0)
      BY <2>4, ViewTypes, ProjectionAssumption DEF LaneReleased, Active, sessions
    <2>5. ASSUME AppendClaim(p)
          PROVE  s \notin Active /\ (claim[l] = s \/ rank[l][s] > 0)
      <3>1. at[p] \in Active /\ aim[p] \in Lane /\ LaneClaimed(at[p], aim[p])
        BY <2>5, ViewTypes DEF AppendClaim, At, IInv, Core, Says, SaysOfSession
      <3> QED
        BY <3>1, ViewTypes DEF LaneClaimed, Active, sessions
    <2>6. CASE pc[p] = "cleaning" /\ \E t \in todo[p] : LaneReleased(t[2], t[1])
      BY <2>4, <2>6, ViewTypes
    <2>7. CASE pc[p] = "releasing" /\ LaneReleased(at[p], aim[p])
      BY <2>4, <2>7, ViewTypes
    <2> QED
      BY <2>1, <2>2, <2>3, <2>5, <2>6, <2>7 DEF Event
  <1> QED
    BY <1>1, Inductive, PTL DEF Spec, NoNewOrphan

\* A release spares the owners it does not name: in a spine of one checkout there are none.
LEMMA ReleaseSpares ==
    ASSUME IInv, mode' = mode, NEW k \in Lane, NEW e \in Sid, LaneReleased(e, k),
           mode = "default" => SyncOwners(k) \subseteq {e},
           NEW l \in Lane, NEW s \in OwnersOf(l), s \notin OwnersOf(l)'
    PROVE  l = k /\ s = e
  <1>1. s \in SyncOwners(l) /\ s \in Sid /\ (mode = "default" => claim[l] = s)
    BY OneFold DEF OwnersOf, DefaultOwners
  <1>2. CASE mode = "sync"
    BY <1>1, <1>2, ViewTypes DEF LaneReleased, OwnersOf, SyncOwners
  <1>3. CASE mode # "sync"
    <2>1. mode = "default"
      BY <1>3 DEF IInv, TypeOK, ProjectionTypeOK
    <2>2. l = k
      BY <1>1, <1>3, <2>1, ViewTypes DEF LaneReleased, OwnersOf, DefaultOwners
    <2> QED
      BY <1>1, <2>1, <2>2
  <1> QED
    BY <1>2, <1>3

\* An active session loses a lane by its own release, by its own close or to a force.
THEOREM NoBystanderEvictedAlways == Spec => NoBystanderEvicted
  <1>1. IInv /\ [Next]_vars =>
          [\A l \in Lane : \A s \in OwnersOf(l) \cap Active :
              s \in OwnersOf(l)' \/ s \notin Active'
              \/ \E p \in Proc :
                    /\ aim[p] = l
                    /\ \/ pc[p] = "releasing" /\ at[p] = s
                       \/ pc[p] = "cleaning" /\ Kind(p) = "force"]_lanes
    <2> SUFFICES ASSUME IInv, [Next]_vars, mode' = mode,
                        NEW p \in Proc \ dead, Event(p),
                        NEW l \in Lane, NEW s \in OwnersOf(l) \cap Active,
                        s \notin OwnersOf(l)', s \in Active'
                 PROVE  \E q \in Proc : /\ aim[q] = l
                                        /\ \/ pc[q] = "releasing" /\ at[q] = s
                                           \/ pc[q] = "cleaning" /\ Kind(q) = "force"
      BY Events DEF view
    <2>1. Says(p)
      BY DEF IInv, Core
    <2>2. s \in Sid /\ s \in SyncOwners(l) /\ (mode # "sync" => claim[l] = s)
      BY OneFold DEF OwnersOf, DefaultOwners
    <2>3. CASE pc[p] = "releasing" /\ LaneReleased(at[p], aim[p])
      <3>1. \A e \in Sid : \A k \in Lane : e = at[p] /\ k = aim[p] => l = k /\ s = e
        BY <2>1, <2>3, ReleaseSpares DEF Says, SaysOfLane
      <3>2. at[p] \in Sid /\ aim[p] \in Lane
        BY <2>1, <2>3, ViewTypes DEF Says, SaysOfSession
      <3> QED
        BY <2>3, <3>1, <3>2
    <2>4. CASE pc[p] = "cleaning" /\ \E t \in todo[p] : LaneReleased(t[2], t[1])
      <3>1. PICK t \in todo[p] : LaneReleased(t[2], t[1])
        BY <2>4
      <3>2. t[1] \in Lane /\ t[2] \in Sid
        BY <3>1, ViewTypes
      <3>3. /\ Kind(p) # "force" => status[t[2]] = "closed"
            /\ mode = "default" => SyncOwners(t[1]) \subseteq {t[2]}
            /\ Kind(p) \in Owning => t[1] = aim[p]
        BY <2>1, <2>4, <3>1 DEF Says, SaysOfLane
      <3>4. l = t[1] /\ s = t[2]
        BY <3>1, <3>2, <3>3, ReleaseSpares
      <3>5. Kind(p) = "force"
        BY <3>3, <3>4 DEF Active
      <3> QED
        BY <2>4, <3>3, <3>4, <3>5 DEF Owning
    <2>5. CASE AppendClaim(p)
      <3>1. /\ at[p] \in Active /\ aim[p] \in Lane /\ LaneClaimed(at[p], aim[p])
            /\ SyncOwners(aim[p]) \subseteq {at[p]}
        BY <2>1, <2>5, ViewTypes DEF AppendClaim, At, Says, SaysOfSession, SaysOfLane
      <3>2. l # aim[p] => s \in OwnersOf(l)'
        BY <2>2, <3>1, ViewTypes DEF LaneClaimed, OwnersOf, SyncOwners, DefaultOwners, Active
      <3>3. \A k \in Lane : k = aim[p] => OwnersOf(k)' = {at[p]}
        BY <2>5, AppendClaimKeeps
      <3> QED
        BY <2>2, <3>1, <3>2, <3>3
    <2>6. CASE \E e \in Active : SessionClosed(e)
      BY <2>2, <2>6, ViewTypes, ProjectionAssumption
         DEF SessionClosed, OwnersOf, SyncOwners, DefaultOwners, Active
    <2>7. CASE \/ \E e \in Sid : status[e] = "absent" /\ SessionRegistered(e)
               \/ \E e \in Sid : SessionHeartbeat(e) \/ SessionStaleDetected(e)
      BY <2>2, <2>7
         DEF SessionRegistered, SessionHeartbeat, SessionStaleDetected, lanes, OwnersOf, SyncOwners,
             DefaultOwners
    <2> QED
      BY <2>3, <2>4, <2>5, <2>6, <2>7 DEF Event
  <1> QED
    BY <1>1, Inductive, PTL DEF Spec, NoBystanderEvicted


\* A claim that lands makes its session the one owner of the lane.
THEOREM ClaimIsSoleAlways == Spec => ClaimIsSole
  <1>1. IInv /\ [Next]_vars =>
          [\A p \in Proc : claimSeq' # claimSeq /\ pc[p] = "claiming" /\ pc'[p] = "done"
              => OwnersOf(aim[p])' = {at[p]}]_lanes
    <2> SUFFICES ASSUME IInv, [Next]_vars,
                        NEW q \in Proc \ dead, Event(q),
                        NEW p \in Proc, claimSeq' # claimSeq, pc[p] = "claiming", pc'[p] = "done"
                 PROVE  OwnersOf(aim[p])' = {at[p]}
      BY Events DEF view, lanes
    <2>1. AppendClaim(q)
      BY DEF Event, SessionClosed, SessionRegistered, SessionHeartbeat, SessionStaleDetected,
             LaneReleased, lanes
    <2>2. q = p
      BY <2>1, ViewTypes DEF AppendClaim, Finish, Goto
    <2>3. aim[p] \in Lane /\ aim' = aim /\ \A l \in Lane : l = aim[p] => OwnersOf(l)' = {at[p]}
      BY <2>1, <2>2, AppendClaimKeeps DEF AppendClaim, local
    <2> QED
      BY <2>3
  <1> QED
    BY <1>1, Inductive, PTL DEF Spec, ClaimIsSole

\* A write of the binding file, or of the pointer.
BindingStep(p) ==
    \/ Rebind(p) \/ BindStart(p) \/ BindMint(p) \/ Unbind(p)

PointerStep(p) ==
    \/ ClearPointer(p) \/ KeepPointer(p) \/ SetPointer(p)

\* No other step writes either of them.
LEMMA FileWriters ==
    ASSUME NEW p \in Proc, Step(p)
    PROVE  UNCHANGED files \/ BindingStep(p) \/ PointerStep(p)
  <1>1. CASE LifecycleStep(p)
    BY <1>1 DEF LifecycleStep, TakeCloseLock, Take, CloseLockBusy, CheckClose, AppendClose,
         AppendHeartbeat, CheckRenew, AppendRenewal, CheckEntry, AppendEntry, Select, NextCandidate,
         NoCandidate, CheckStale, AppendStale, Move, PointerStep
  <1>2. CASE HookStep(p)
    BY <1>2 DEF HookStep, TakeHookLocks, Take, StartLocksBusy, CheckStart, AppendStartRenewal,
         Enroll, EndGivesUp, ReadBinding, ReadOwnBinding, Resolve, MintRefused, CheckMint,
         RolledBack, Unminted, Move, BindingStep
  <1>3. CASE LaneStep(p)
    BY <1>3 DEF LaneStep, TakeClaimLocks, Take, ClaimLocksBusy, Refuse, DecideClaim, DecideForce,
         DecideAutoClaim, DecideRelease, DecideReap, Decided, FireTrigger, MarkForced, Passes,
         ReleaseOther, OthersReleased, AppendClaim, AppendRelease
  <1>4. CASE AppendFails(p) \/ TurnSync(p) \/ Die(p)
    BY <1>4 DEF AppendFails, TurnSync, Die
  <1> QED
    BY <1>1, <1>2, <1>3, <1>4 DEF Step

\* The binding of a live session is replaced and never removed.
LEMMA BindingKept ==
    ASSUME IInv, NEW p \in Proc \ dead, BindingStep(p), NEW c \in Claude, Bound(c) \in Active
    PROVE  Bound(c)' # Nobody
  <1>1. Says(p) /\ binding \in [Claude -> [sid : Sid \cup {Nobody}, new : BOOLEAN]]
    BY DEF IInv, Core, TypeOK
  <1>2. Bound(c) # Nobody /\ status[Bound(c)] = "active"
    BY ProjectionAssumption DEF Active
  <1>3. CASE Rebind(p) \/ BindStart(p) \/ BindMint(p)
    <2>1. at[p] \in Sid
      BY <1>1, <1>3 DEF Rebind, BindStart, BindMint, At, Says, SaysOfSession
    <2>2. binding' \in {binding, [binding EXCEPT ![Claude_(p)] = Binding(at[p])]}
      BY <1>3 DEF Rebind, BindStart, BindMint, Bind
    <2> QED
      BY <1>1, <1>2, <2>1, <2>2, ProjectionAssumption DEF Bound, Binding
  <1>4. CASE Unbind(p)
    <2>1. status[at[p]] = "closed"
      BY <1>1, <1>4 DEF Unbind, At, Says, SaysOfSession
    <2>2. binding' \in {binding, IF Bound(Claude_(p)) = at[p]
                                 THEN [binding EXCEPT ![Claude_(p)] = Unbound] ELSE binding}
      BY <1>4 DEF Unbind
    <2>3. c = Claude_(p) => Bound(Claude_(p)) # at[p]
      BY <1>2, <2>1
    <2> QED
      BY <1>1, <1>2, <2>2, <2>3 DEF Bound
  <1> QED
    BY <1>3, <1>4 DEF BindingStep

\* The pointer to a live session is changed by a registration alone.
LEMMA PointerKept ==
    ASSUME IInv, NEW p \in Proc \ dead, PointerStep(p), pointer \in Active, pointer' # pointer
    PROVE  pc[p] = "pointing" /\ pc'[p] # "pointing"
  <1>1. Says(p) /\ pc \in [Proc -> Steps]
    BY DEF IInv, Core
  <1>2. ~ ClearPointer(p)
    BY <1>1 DEF ClearPointer, ClearActiveSessionIf, At, Says, SaysOfSession, Active
  <1>3. ~ KeepPointer(p)
    BY ProjectionAssumption DEF KeepPointer, WriteActiveSessionIfAbsent, Active
  <1>4. SetPointer(p)
    BY <1>2, <1>3 DEF PointerStep
  <1> QED
    BY <1>1, <1>4 DEF SetPointer, At, Goto

\* No close and no renewal takes what belongs to a live session.
THEOREM LiveSessionKeptAlways == Spec => LiveSessionKept
  <1>1. IInv /\ [Next]_vars =>
          [/\ \A c \in Claude : Bound(c) \in Active => Bound(c)' # Nobody
           /\ pointer \in Active /\ pointer' # pointer =>
                 \E p \in Proc : pc[p] = "pointing" /\ pc'[p] # "pointing"]_files
    <2> SUFFICES ASSUME IInv, [Next]_vars, ~ UNCHANGED files
                 PROVE  /\ \A c \in Claude : Bound(c) \in Active => Bound(c)' # Nobody
                        /\ pointer \in Active /\ pointer' # pointer =>
                              \E p \in Proc : pc[p] = "pointing" /\ pc'[p] # "pointing"
      OBVIOUS
    <2>1. ASSUME NEW p \in Proc, Step(p)
          PROVE  /\ \A c \in Claude : Bound(c) \in Active => Bound(c)' # Nobody
                 /\ pointer \in Active /\ pointer' # pointer =>
                       pc[p] = "pointing" /\ pc'[p] # "pointing"
      <3>1. CASE BindingStep(p)
        <4>1. pointer' = pointer /\ p \notin dead
          BY <3>1 DEF BindingStep, Rebind, BindStart, BindMint, Unbind, At
        <4> QED
          BY <3>1, <4>1, BindingKept
      <3>2. CASE PointerStep(p)
        <4>1. binding' = binding /\ p \notin dead
          BY <3>2 DEF PointerStep, ClearPointer, KeepPointer, SetPointer, At
        <4>2. \A c \in Claude : Bound(c) \in Active => Bound(c)' # Nobody
          BY <4>1, ProjectionAssumption DEF Bound, Active
        <4> QED
          BY <3>2, <4>1, <4>2, PointerKept
      <3> QED
        BY <2>1, <3>1, <3>2, FileWriters
    <2>2. ASSUME NEW d \in Claude, BindingAges(d)
          PROVE  /\ \A c \in Claude : Bound(c) \in Active => Bound(c)' # Nobody
                 /\ pointer' = pointer
      <3>1. binding \in [Claude -> [sid : Sid \cup {Nobody}, new : BOOLEAN]]
        BY DEF IInv, TypeOK
      <3> QED
        BY <2>2, <3>1, ProjectionAssumption DEF BindingAges, Bound, Active
    <2>3. ~ UNCHANGED vars
      BY DEF vars
    <2> QED
      BY <2>1, <2>2, <2>3 DEF Next
  <1> QED
    BY <1>1, Inductive, PTL DEF Spec, LiveSessionKept
=============================================================================
