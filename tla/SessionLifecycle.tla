--------------------------- MODULE SessionLifecycle ---------------------------
(***************************************************************************)
(* The session writers of session-lifecycle.mjs, with the commands that     *)
(* call them: close, heartbeat, registration with an explicit id and with a  *)
(* generated one (`maddu register', which first tries to renew the session   *)
(* it inherited), and the sweep of janitor.mjs: it selects the sessions      *)
(* whose heartbeat is old, goes through them one by one under the close      *)
(* lock, and then releases the orphaned claims (module LaneOwnership).       *)
(*                                                                         *)
(* The calls of a scene take less than the half hour after which a           *)
(* heartbeat is old: ages change by heartbeats only.                         *)
(***************************************************************************)
EXTENDS SessionStore

Sweeps(p) == Kind(p) \in {"sweep", "start"}

Work(p, s) == at' = [at EXCEPT ![p] = s]

\* A step that only reads, or drops a lock: ks are the locks it gives up.
Move(p, next, ks) ==
    /\ Goto(p, next)
    /\ lock' = Dropped(p, ks)
    /\ UNCHANGED <<view, op, aim, todo, picked, seen, unbound, files, fixed, unlocked>>

\* closeSessionIfActive, markSessionStaleIfStill, renewSessionIfActive, registerSessionUnique,
\* and the heartbeat of the commands.
TakeCloseLock(p) ==
    \/ Take(p, "shut", "shutLook")
    \/ Take(p, "beat", "beating")
    \/ Take(p, "renew", "renewLook")
    \/ Take(p, "enter", "enterLook")
    \/ Take(p, "stale", "staleLook")

\* A heartbeat and a generated id go on without the lock, a sweep without this session.
CloseLockBusy(p) ==
    /\ UNCHANGED at
    /\ \/ Busy(p, "shut") /\ Move(p, IF Sweeps(p) THEN "sweeping" ELSE "done", Locks)
       \/ Busy(p, "beat") /\ Move(p, "beating", {})
       \/ Busy(p, "renew") /\ Move(p, "enter", {})
       \/ /\ Busy(p, "enter")
          /\ IF Kind(p) = "explicit" THEN Move(p, "done", {}) ELSE Move(p, "entering", {})
       \/ Busy(p, "stale") /\ Move(p, "sweeping", {})

-----------------------------------------------------------------------------
(* Closing *)

\* Mutant of CheckClose: SessionEnd unbinds a session that it could not look at.
CheckCloseAnyway(p) ==
    /\ At(p, "shutLook")
    /\ UNCHANGED at
    /\ IF ~Refused /\ at[p] \in Active /\ (Sweeps(p) => beat[at[p]] = "expired")
       THEN Move(p, "closing", {})
       ELSE IF Sweeps(p) THEN Move(p, "sweeping", {"close"})
       ELSE IF Kind(p) = "end" THEN Move(p, "unbinding", {"close"})
       ELSE Move(p, "done", Locks)

CheckClose(p) ==
    /\ At(p, "shutLook")
    /\ UNCHANGED at
    /\ IF ~Refused /\ at[p] \in Active /\ (Sweeps(p) => beat[at[p]] = "expired")
       THEN Move(p, "closing", {})
       ELSE IF Sweeps(p) THEN Move(p, "sweeping", {"close"})
       ELSE IF Kind(p) = "end" /\ ~Refused THEN Move(p, "unbinding", {"close"})
       ELSE Move(p, "done", Locks)

AppendClose(p) ==
    /\ At(p, "closing")
    /\ SessionClosed(at[p])
    /\ Goto(p, "clearing")
    /\ UNCHANGED <<local, files, lock, fixed, unlocked>>

\* The pointer is cleared under the close lock; a rolled back mint goes on as without one.
ClearPointer(p) ==
    /\ At(p, "clearing")
    /\ ClearActiveSessionIf(at[p])
    /\ Goto(p, CASE Sweeps(p) -> "sweeping"
                 [] Kind(p) = "end" -> "unbinding"
                 [] Kind(p) = "edit" -> "unminted"
                 [] OTHER -> "done")
    /\ lock' = Dropped(p, IF Kind(p) = "edit" THEN {} ELSE
                          IF Kind(p) = "end" THEN {"close"} ELSE Locks)
    /\ UNCHANGED <<view, local, binding, fixed, unlocked>>

-----------------------------------------------------------------------------
(* Heartbeats and registrations *)

AppendHeartbeat(p) ==
    /\ At(p, "beating")
    /\ SessionHeartbeat(at[p])
    /\ unlocked' = IF lock["close"] = p THEN unlocked ELSE unlocked \cup {at[p]}
    /\ Finish(p)
    /\ UNCHANGED <<local, files, fixed>>

\* An inherited session that is not active is left for a new one.
CheckRenew(p) ==
    /\ At(p, "renewLook")
    /\ UNCHANGED at
    /\ IF ~Refused /\ at[p] \in Active THEN Move(p, "renewing", {}) ELSE Move(p, "enter", {"close"})

AppendRenewal(p) ==
    /\ At(p, "renewing")
    /\ SessionHeartbeat(at[p])
    /\ Goto(p, "keeping")
    /\ lock' = Dropped(p, {"close"})
    /\ UNCHANGED <<local, files, fixed, unlocked>>

KeepPointer(p) ==
    /\ At(p, "keeping")
    /\ WriteActiveSessionIfAbsent(at[p])
    /\ Goto(p, IF Kind(p) = "start" THEN "selecting" ELSE "done")
    /\ lock' = Dropped(p, Locks)
    /\ UNCHANGED <<view, local, binding, fixed, unlocked>>

\* An explicit id must be new to a spine that parses; a generated one is new anyway.
CheckEntry(p) ==
    /\ At(p, "enterLook")
    /\ IF Kind(p) = "explicit"
       THEN /\ UNCHANGED at
            /\ IF Refused \/ status[at[p]] # "absent" THEN Move(p, "done", Locks)
               ELSE Move(p, "entering", {})
       ELSE Work(p, op[p].fresh) /\ Move(p, "entering", {})

Entered(p) == IF Kind(p) = "explicit" THEN at[p] ELSE op[p].fresh

AppendEntry(p) ==
    /\ At(p, "entering")
    /\ SessionRegistered(Entered(p))
    /\ Work(p, Entered(p))
    /\ Goto(p, IF Kind(p) = "start" /\ p \notin unbound THEN "binding" ELSE "pointing")
    /\ lock' = Dropped(p, {"close"})
    /\ UNCHANGED <<op, aim, todo, picked, seen, unbound, files, fixed, unlocked>>

SetPointer(p) ==
    /\ At(p, "pointing")
    /\ WriteActiveSession(at[p])
    /\ IF Kind(p) = "edit" THEN Goto(p, "binding") /\ UNCHANGED lock
       ELSE /\ Goto(p, IF Kind(p) = "start" THEN "selecting" ELSE "done")
            /\ lock' = Dropped(p, Locks)
    /\ UNCHANGED <<view, local, binding, fixed, unlocked>>

-----------------------------------------------------------------------------
(* The sweep *)

Select(p) ==
    /\ At(p, "selecting")
    /\ picked' = [picked EXCEPT ![p] =
                    IF Refused THEN {}
                    ELSE {<<"expired", s>> : s \in {t \in Active : beat[t] = "expired"}}
                         \cup {<<"old", s>> : s \in {t \in Active \ stale : beat[t] = "old"}}]
    /\ Goto(p, "sweeping")
    /\ UNCHANGED <<view, op, at, aim, todo, seen, unbound, files, lock, fixed, unlocked>>

\* Stale marks first, then closes, then the orphaned claims.
NextCandidate(p) ==
    /\ At(p, "sweeping")
    /\ \E t \in picked[p] :
         /\ t[1] = "expired" => \A u \in picked[p] : u[1] = "expired"
         /\ Work(p, t[2])
         /\ picked' = [picked EXCEPT ![p] = @ \ {t}]
         /\ Goto(p, IF t[1] = "old" THEN "stale" ELSE "shut")
    /\ UNCHANGED <<view, op, aim, todo, seen, unbound, files, lock, fixed, unlocked>>

NoCandidate(p) ==
    /\ At(p, "sweeping")
    /\ picked[p] = {}
    /\ UNCHANGED at
    /\ Move(p, "claims", {})

CheckStale(p) ==
    /\ At(p, "staleLook")
    /\ UNCHANGED at
    /\ IF ~Refused /\ at[p] \in Active \ stale /\ beat[at[p]] # "fresh"
       THEN Move(p, "staling", {}) ELSE Move(p, "sweeping", {"close"})

AppendStale(p) ==
    /\ At(p, "staling")
    /\ SessionStaleDetected(at[p])
    /\ Goto(p, "sweeping")
    /\ lock' = Dropped(p, {"close"})
    /\ UNCHANGED <<local, files, fixed, unlocked>>

LifecycleStep(p) ==
    \/ TakeCloseLock(p) \/ CloseLockBusy(p)
    \/ CheckClose(p) \/ AppendClose(p) \/ ClearPointer(p)
    \/ AppendHeartbeat(p) \/ CheckRenew(p) \/ AppendRenewal(p) \/ KeepPointer(p)
    \/ CheckEntry(p) \/ AppendEntry(p) \/ SetPointer(p)
    \/ Select(p) \/ NextCandidate(p) \/ NoCandidate(p) \/ CheckStale(p) \/ AppendStale(p)
=============================================================================
