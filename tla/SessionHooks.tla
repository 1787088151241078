----------------------------- MODULE SessionHooks -----------------------------
(***************************************************************************)
(* The hooks of a Claude session (fire-core.mjs) and the binding of Claude   *)
(* session ids to sessions (discipline.mjs).  SessionStart renews or         *)
(* registers a session and binds it; SessionEnd closes the session bound;    *)
(* an edit without a live session mints and binds one, and then claims a     *)
(* lane (module LaneOwnership).  All of them hold the binding lock, with     *)
(* the close lock inside.                                                   *)
(***************************************************************************)
EXTENDS SessionLifecycle

Claude_(p) == op[p].claude

\* bindClaudeSessionIn: the map is rewritten, or cannot be.
Bind(p) == binding' \in {binding, [binding EXCEPT ![Claude_(p)] = Binding(at[p])]}

TakeHookLocks(p) ==
    \/ Take(p, "startBinding", "startClose")
    \/ Take(p, "startClose", "startLook")
    \/ Take(p, "endBinding", "readBinding")
    \/ Take(p, "endClose", "shutLook")
    \/ Take(p, "mintBinding", "mintClose")
    \/ Take(p, "mintClose", "mintLook")

-----------------------------------------------------------------------------
(* SessionStart *)

\* Without the binding lock it registers only; without the close lock it tries that once more.
StartLocksBusy(p) ==
    /\ Goto(p, "enter")
    /\ \/ Busy(p, "startBinding") /\ unbound' = unbound \cup {p}
       \/ Busy(p, "startClose") /\ UNCHANGED unbound
    /\ UNCHANGED <<view, op, at, aim, todo, picked, seen, files, lock, fixed, unlocked>>

CheckStart(p) ==
    /\ At(p, "startLook")
    /\ IF ~Refused /\ at[p] \in Active
       THEN UNCHANGED at /\ Move(p, "startRenewing", {})
       ELSE Work(p, op[p].fresh) /\ Move(p, "enrolling", {})

AppendStartRenewal(p) ==
    /\ At(p, "startRenewing")
    /\ SessionHeartbeat(at[p])
    /\ Goto(p, "rebinding")
    /\ UNCHANGED <<local, files, lock, fixed, unlocked>>

Rebind(p) ==
    /\ At(p, "rebinding")
    /\ Bind(p)
    /\ Goto(p, "keeping")
    /\ UNCHANGED <<view, local, pointer, lock, fixed, unlocked>>

\* The registration of a start or a mint, under both locks.
Enroll(p) ==
    /\ At(p, "enrolling")
    /\ SessionRegistered(at[p])
    /\ Goto(p, IF Kind(p) = "start" THEN "binding" ELSE "pointing")
    /\ UNCHANGED <<local, files, lock, fixed, unlocked>>

BindStart(p) ==
    /\ At(p, "binding")
    /\ Kind(p) = "start"
    /\ Bind(p)
    /\ Goto(p, "pointing")
    /\ UNCHANGED <<view, local, pointer, lock, fixed, unlocked>>

-----------------------------------------------------------------------------
(* SessionEnd *)

EndGivesUp(p) ==
    /\ Busy(p, "endBinding") \/ Busy(p, "endClose")
    /\ UNCHANGED at
    /\ Move(p, "done", Locks)

\* Mutant of ReadBinding: the binding lock is given up before the close.
ReadBindingUnlocked(p) ==
    /\ At(p, "readBinding")
    /\ IF Bound(Claude_(p)) = Nobody \/ binding[Claude_(p)].new
       THEN UNCHANGED at /\ Move(p, "done", Locks)
       ELSE Work(p, Bound(Claude_(p))) /\ Move(p, "endClose", {"binding"})

\* A session bound less than ten seconds ago is taken for a continuation.
ReadBinding(p) ==
    /\ At(p, "readBinding")
    /\ IF Bound(Claude_(p)) = Nobody \/ binding[Claude_(p)].new
       THEN UNCHANGED at /\ Move(p, "done", Locks)
       ELSE Work(p, Bound(Claude_(p))) /\ Move(p, "endClose", {})

Unbind(p) ==
    /\ At(p, "unbinding")
    /\ binding' \in {binding, IF Bound(Claude_(p)) = at[p]
                              THEN [binding EXCEPT ![Claude_(p)] = Unbound] ELSE binding}
    /\ Finish(p)
    /\ UNCHANGED <<view, local, pointer, fixed, unlocked>>

BindingAges(c) ==
    /\ binding[c].new
    /\ binding' = [binding EXCEPT ![c].new = FALSE]
    /\ UNCHANGED <<view, local, pc, pointer, lock, fixed, unlocked>>

-----------------------------------------------------------------------------
(* PreToolUse: the acting session, minted if need be *)

ReadOwnBinding(p) ==
    /\ At(p, "resolving")
    /\ seen' = [seen EXCEPT ![p] = Bound(Claude_(p))]
    /\ Goto(p, "deciding")
    /\ UNCHANGED <<view, op, at, aim, todo, picked, unbound, files, lock, fixed, unlocked>>

\* The inherited session first, then the bound one, if they are live.
Resolve(p) ==
    /\ At(p, "deciding")
    /\ IF op[p].sid \in Active THEN Work(p, op[p].sid) /\ Move(p, "close", {})
       ELSE /\ Work(p, seen[p])
            /\ Move(p, IF seen[p] \in Active THEN "close" ELSE "mintBinding", {})

\* Without a mint the edit goes on with the session it has, live or not.
Unminted(p) ==
    LET s == IF op[p].sid # Nobody THEN op[p].sid ELSE seen[p]
    IN  Work(p, s) /\ Move(p, IF s = Nobody THEN "done" ELSE "close", Locks)

\* A lock is busy, the map is not writable, the spine is corrupt, or the append throws.
MintRefused(p) ==
    /\ \/ Busy(p, "mintBinding") \/ Busy(p, "mintClose")
       \/ At(p, "mintLook") \/ At(p, "enrolling")
    /\ Kind(p) = "edit"
    /\ Unminted(p)

\* A binding healed in the meantime is used; otherwise the map has proved writable.
CheckMint(p) ==
    /\ At(p, "mintLook")
    /\ IF Bound(Claude_(p)) \in Active
       THEN Work(p, Bound(Claude_(p))) /\ Move(p, "close", Locks)
       ELSE ~Refused /\ Work(p, op[p].fresh) /\ Move(p, "enrolling", {})

\* The last step of a mint; a bind that fails rolls the registration back.
BindMint(p) ==
    /\ At(p, "binding")
    /\ Kind(p) = "edit"
    /\ \/ /\ binding' = [binding EXCEPT ![Claude_(p)] = Binding(at[p])]
          /\ Goto(p, "close")
          /\ lock' = Dropped(p, Locks)
       \/ Goto(p, "shutLook") /\ UNCHANGED <<binding, lock>>
    /\ UNCHANGED <<view, local, pointer, fixed, unlocked>>

RolledBack(p) ==
    /\ At(p, "unminted")
    /\ Unminted(p)

HookStep(p) ==
    \/ TakeHookLocks(p)
    \/ StartLocksBusy(p) \/ CheckStart(p) \/ AppendStartRenewal(p) \/ Rebind(p)
    \/ Enroll(p) \/ BindStart(p)
    \/ EndGivesUp(p) \/ ReadBinding(p) \/ Unbind(p)
    \/ ReadOwnBinding(p) \/ Resolve(p) \/ MintRefused(p) \/ CheckMint(p)
    \/ BindMint(p) \/ RolledBack(p)
=============================================================================
