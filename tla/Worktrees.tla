------------------------------- MODULE Worktrees -------------------------------
(***************************************************************************)
(* The worktree of a lane under every call that changes it at once, with     *)
(* failing reads, appends and git commands, exits, and what may happen to    *)
(* the disk, the sessions and the spine meanwhile.                          *)
(***************************************************************************)
EXTENDS WorktreeDetach

States == {"none", "live", "orphaned"} \cup Disposals

Attachment == [state : States, session : Sid \cup {Nobody}, token : BOOLEAN,
               origin : {"local", "foreign", "unverifiable"}]

\* The lane has at most one live worktree that was made here.
OneLocal(w) == \A a, b \in {c \in Aid \ Foreign : w[c].state = "live"} : a = b

\* No live attachment of another replica is taken for one made here.
ForeignMarked(w) == \A a \in Foreign : w[a].state = "live" => w[a].origin # "local"

\* What was attached here was attached by a session that the spine had seen registered.
SessionsKnown(w, st) ==
    \A a \in Aid : w[a].state = "live" /\ w[a].origin = "local" =>
        w[a].session \notin {s \in Sid : st[s] = "absent"}

ASSUME ScenesAssumption ==
    \A sc \in Scenes :
        /\ sc.ops \in [Proc -> Op]
        /\ sc.status \in [Sid -> {"absent", "active", "closed"}]
        /\ sc.claim \in [Lane -> Sid \cup {Nobody}]
        /\ sc.rank \in [Lane -> [Sid -> Nat]]
        /\ sc.mode \in {"default", "sync"} /\ sc.corrupt \in BOOLEAN
        /\ sc.wt \in [Aid -> Attachment] /\ OneLocal(sc.wt) /\ ForeignMarked(sc.wt)
        /\ SessionsKnown(sc.wt, sc.status)
        /\ sc.intent \in [Aid -> {"none", "invalid", "merged", "abandoned"}]
        /\ sc.disk \in Aid \cup {NoTree, Alien}

First(o) ==
    CASE o.kind = "claim"                  -> "claiming"
      [] o.kind \in {"force", "forceClaim"} -> "forceLock"
      [] o.kind = "recover"                -> "recoverLock"
      [] o.kind = "sweep"                  -> "sweeping"
      [] o.kind = "none"                   -> "done"
      [] OTHER                             -> "releaseLock"

Init ==
    /\ \E sc \in Scenes :
         /\ op = sc.ops
         /\ status = sc.status
         /\ claim = sc.claim
         /\ rank = sc.rank
         /\ mode = sc.mode
         /\ corrupt = sc.corrupt
         /\ wt = sc.wt
         /\ intent = sc.intent
         /\ disk = sc.disk
         /\ allowed = sc.allowed
         /\ may = sc.may
    /\ claimSeq = 3
    /\ stale = {}
    /\ beat = [s \in Sid |-> "fresh"]
    /\ hidden = FALSE
    /\ cool = FALSE
    /\ pc = [p \in Proc |-> First(op[p])]
    /\ at = [p \in Proc |-> NoTree]
    /\ how = [p \in Proc |-> "none"]
    /\ saw = [p \in Proc |-> [owners |-> {}, active |-> {}]]
    /\ lock = [k \in Locks |-> Nobody]
    /\ dead = {}
    /\ adopted = {}
    /\ meddled = {}

Failing == {"deciding", "forcing", "attaching", "orphaning", "intending", "ending", "releasing",
            "firing"}

\* An append, or the read of the attachments before a release, fails and ends the call.
StepFails(p) ==
    /\ \E step \in Failing : At(p, step)
    /\ Finish(p)
    /\ Quiet

Die(p) ==
    /\ p \in MayDie \ dead
    /\ \E k \in Locks : lock[k] = p
    /\ dead' = dead \cup {p}
    /\ UNCHANGED <<view, trees, disk, hidden, cool, local, pc, lock, mode, corrupt, allowed, may,
                   history>>

Once(e) == e \in may /\ may' = may \ {e}

\* A session is closed, by itself or by a sweep (module Sessions); its lanes go with it.
CloseSession(s) ==
    /\ Once("close")
    /\ s \in Active
    /\ SessionClosed(s)
    /\ UNCHANGED <<trees, disk, hidden, cool, local, pc, lock, mode, corrupt, allowed, dead, history>>

\* The processes that have checked the token and are about to remove.
Erasing == {p \in Proc : pc[p] = "erasing"}

\* Someone removes the checkout by hand, or puts another one in its place.
Tamper ==
    /\ Once("tamper")
    /\ disk' \in {NoTree, Alien} \ {disk}
    /\ meddled' = meddled \cup Erasing
    /\ UNCHANGED <<view, trees, hidden, cool, local, pc, lock, mode, corrupt, allowed, dead, adopted>>

\* The storage goes away and comes back.
Outage ==
    /\ \/ Once("outage") /\ hidden' = TRUE /\ meddled' = meddled \cup Erasing
       \/ hidden /\ hidden' = FALSE /\ UNCHANGED <<may, meddled>>
    /\ UNCHANGED <<view, trees, disk, cool, local, pc, lock, mode, corrupt, allowed, dead, adopted>>

\* A pull brings the worktree that a session of another replica attached, with its claim of the
\* lane, made before or after the ones here, or with its end.
Import ==
    /\ Once("import")
    /\ mode = "sync"
    /\ \E a \in Foreign, s \in Sid, k \in {1, claimSeq + 1} :
         /\ wt[a].state = "none"
         /\ status[s] = "absent"
         /\ wt' = [wt EXCEPT ![a] = [state |-> "live", session |-> s, origin |-> "foreign",
                                     token |-> TRUE]]
         /\ \/ status' = [status EXCEPT ![s] = "active"] /\ rank' = [rank EXCEPT ![Main][s] = k]
            \/ status' = [status EXCEPT ![s] = "closed"] /\ UNCHANGED rank
    /\ claimSeq' = claimSeq + 1
    /\ UNCHANGED <<stale, beat, claim, intent, disk, hidden, cool, local, pc, lock, mode, corrupt,
                   allowed, dead, history>>

CoolDown ==
    /\ cool
    /\ cool' = FALSE
    /\ UNCHANGED <<view, trees, disk, hidden, local, pc, lock, fixed, history>>

Step(p) ==
    TakeLock(p) \/ LockBusy(p) \/ AttachStep(p) \/ DetachStep(p) \/ StepFails(p) \/ Die(p)

Over == \A p \in Proc : pc[p] = "done" \/ p \in dead

Next ==
    \/ \E p \in Proc : Step(p)
    \/ \E s \in Sid : CloseSession(s)
    \/ Tamper \/ Outage \/ Import \/ CoolDown
    \/ Over /\ UNCHANGED vars

Spec == Init /\ [][Next]_vars

-----------------------------------------------------------------------------
TypeOK ==
    /\ ProjectionTypeOK
    /\ wt \in [Aid -> Attachment]
    /\ intent \in [Aid -> {"none", "invalid", "merged", "abandoned"}]
    /\ disk \in Aid \cup {NoTree, Alien}
    /\ op \in [Proc -> Op]
    /\ at \in [Proc -> Aid \cup {NoTree}]
    /\ how \in [Proc -> {"none", "orphaned"} \cup Disposals]
    /\ saw \in [Proc -> [owners : SUBSET Sid, active : SUBSET Sid]]
    /\ lock \in [Locks -> Proc \cup {Nobody}]
    /\ dead \subseteq Proc
    /\ adopted \subseteq Aid
    /\ meddled \subseteq Proc

Writing(p, step) == p \notin dead /\ pc[p] = step

Recorded(p) == \E step \in {"ending", "orphaning"} : Writing(p, step)

\* The lane has at most one live worktree that was made here: attach looks before it adds one.
OneEpoch == OneLocal(wt)

\* An attachment ends once, and the process about to end it may.
TerminalOnce == \A p \in Proc : Recorded(p) => wt[at[p]].state = "live"

\* What another replica attached, or nobody can tell who did, is ended by no call here.
ForeignKept == \A p \in Proc : Recorded(p) => wt[at[p]].origin = "local"

\* A detach takes away only the checkout of an attachment whose end the spine records as intended,
\* so that a crash right after it can be told from a lost worktree; whoever put another checkout in
\* its place finds it there.  Two exceptions: an attachment without a token names no checkout of its
\* own, so whatever is at the path goes; and so does a checkout that a hand put there between the
\* check of the token and the removal, which goes by the path.
RemovalIsIntended ==
    [][\A p \in Proc :
          \/ pc'[p] = pc[p]
          \/ pc[p] \in {"reusing", "minting", "unwinding"}
          \/ at'[p] \in Aid /\ ~wt[at'[p]].token
          \/ disk \in Aid /\ intent[disk] # "none"
          \/ disk = Alien /\ p \in meddled]_disk

\* A sweep or a plain release ends an attachment only after it has removed the checkout itself: one
\* that is out of sight may come back.  The exception is an outage between its check of the token
\* and its removal: git takes the missing path for done, and so does the probe.
AutoRemovesItself ==
    \A p \in Proc :
        Writing(p, "ending") /\ Kind(p) \in {"sweep", "release"} => disk # at[p] \/ p \in meddled

\* Nobody but its session ends an attachment while that session is active, unless it intended to.
OtherActiveSpared ==
    \A p \in Proc : Recorded(p) /\ wt[at[p]].session \in Active \ {Actor(p)} =>
        intent[at[p]] # "none" /\ Kind(p) = "sweep"

\* A worktree ends the way its intent says, whatever the call that completes it was asked for: what
\* was not verified as merged is never recorded as merged.
IntentDecides ==
    \A p \in Proc :
        Writing(p, "ending") /\ intent[at[p]] \in {"merged", "abandoned"} =>
            how[p] \in {intent[at[p]], "kept", "orphaned"}

\* A session that gives up the lane leaves no worktree of its own behind, unless one imported from
\* elsewhere is in front of it.
ReleaseLeavesNoWorktree ==
    [][\A p \in Proc :
          pc[p] = "releasing" /\ pc'[p] = "done" =>
            \A a \in Live \ Foreign :
                wt[a].session = Actor(p) => \E f \in Live \cap Foreign : f < a]_lanes

\* Whoever records the end of an attachment may: it is live, made here, ends as it was intended, and
\* its checkout is gone if the caller was to remove it, outside the window AutoRemovesItself names.
\* All of it was read in an earlier step.
EndJustified == TerminalOnce /\ ForeignKept /\ AutoRemovesItself /\ IntentDecides

\* The recovery trigger does not fire again within its cooldown, however many sweeps there are.
TriggerSpaced == \A p \in Proc : Writing(p, "firing") => ~cool

Waiting(p, S) == \E k \in Locks : pc[p] \in LockOf[k] /\ lock[k] \in S

\* No processes wait for each other's locks in a ring, nor one for its own.
NoLockCycle ==
    \A S \in SUBSET {p \in Proc \ dead : Waiting(p, Proc)} :
        S # {} => \E p \in S : ~Waiting(p, S)

\* A worktree handed out again is not taken away by a recovery of what was intended before.
ReusedIsKept ==
    [][\A p \in Proc :
          pc[p] = "erasing" /\ pc'[p] # pc[p] /\ Kind(p) = "sweep" => disk \notin adopted]_disk
=============================================================================
