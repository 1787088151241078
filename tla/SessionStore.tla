----------------------------- MODULE SessionStore -----------------------------
(***************************************************************************)
(* The processes that write sessions and lanes, the files they share beside *)
(* the spine, and the locks between them, taken in the order of              *)
(* session-lifecycle.mjs: claude-binding, session-close, lane-claims.        *)
(*                                                                         *)
(* A process is one call of a command, a bridge route or a hook, with its   *)
(* arguments in `op'.  Reading a snapshot and every append are steps of      *)
(* their own.  An append may fail, which ends the call, and the processes    *)
(* of MayDie may exit anywhere: their locks are then taken over (module      *)
(* AppendLock).  A lock that stays busy for as long as the caller waits is   *)
(* a choice while another process holds it.                                 *)
(*                                                                         *)
(* The active-session pointer has a lock that nothing else is taken under:  *)
(* each of its read-compare-write operations is one step, or is skipped.    *)
(* The writeIfAbsent that reads the spine under it may do so earlier than    *)
(* it writes, which nothing tells apart: a session seen closed stays closed, *)
(* and one seen live makes it write nothing.                                *)
(***************************************************************************)
EXTENDS Projection

CONSTANTS Proc,     \* the processes
          Claude,   \* the Claude session ids
          Scenes,   \* what the processes are called for, and the spine they find
          MayDie    \* processes that may exit at any step

ASSUME StoreAssumption ==
    /\ Nobody \notin Proc
    /\ MayDie \subseteq Proc

Kinds == {"none", "claim", "force", "edit", "release", "sweep", "close", "heartbeat",
          "explicit", "register", "start", "end", "init"}

\* sid: the session acted for or the inherited one; fresh: the id that would be generated.
Op == [kind : Kinds, sid : Sid \cup {Nobody}, fresh : Sid \cup {Nobody},
       lane : Lane, claude : Claude]

Locks == {"binding", "close", "claims"}

VARIABLES op,       \* proc -> its call
          pc,       \* proc -> its next step
          at,       \* proc -> the session it is working on
          aim,      \* proc -> the lane it is working on
          todo,     \* proc -> the owners it has found to release, as <<lane, sid>>
          picked,   \* proc -> the sessions its sweep selected, as <<age, sid>>
          seen,     \* proc -> the binding that its edit found
          unbound,  \* processes that go on without the binding
          binding,  \* claude id -> the session bound to it, and whether just now
          pointer,  \* the session the active-session pointer names
          lock,     \* lock -> its holder
          dead,     \* processes that exited
          unlocked  \* sessions that got a heartbeat outside of the close lock

local == <<op, at, aim, todo, picked, seen, unbound>>
files == <<binding, pointer>>
fixed == <<mode, corrupt, dead>>
vars  == <<view, mode, corrupt, local, pc, files, lock, dead, unlocked>>

Unbound   == [sid |-> Nobody, new |-> FALSE]
Binding(s) == [sid |-> s, new |-> TRUE]
Bound(c)  == binding[c].sid

Kind(p) == op[p].kind

At(p, step) == p \notin dead /\ pc[p] = step
Goto(p, step) == pc' = [pc EXCEPT ![p] = step]

Free(k) == lock[k] = Nobody \/ lock[k] \in dead

Dropped(p, ks) == [k \in Locks |-> IF k \in ks /\ lock[k] = p THEN Nobody ELSE lock[k]]

\* The call returns or throws: its locks are released, the innermost first.
Finish(p) ==
    /\ Goto(p, "done")
    /\ lock' = Dropped(p, Locks)

\* Mutant of LockOf: SessionEnd takes the close lock before the binding lock.
LockOfReversed ==
    [binding |-> {"startBinding", "endClose", "mintBinding"},
     close   |-> {"startClose", "endBinding", "mintClose", "shut", "beat", "renew", "enter", "stale",
                  "close"},
     claims  |-> {"claims"}]

\* The steps at which a process waits for each lock.
LockOf ==
    [binding |-> {"startBinding", "endBinding", "mintBinding"},
     close   |-> {"startClose", "endClose", "mintClose", "shut", "beat", "renew", "enter", "stale",
                  "close"},
     claims  |-> {"claims"}]

Take(p, step, next) ==
    /\ At(p, step)
    /\ \E k \in Locks :
         /\ step \in LockOf[k]
         /\ Free(k)
         /\ lock' = [lock EXCEPT ![k] = p]
    /\ Goto(p, next)
    /\ UNCHANGED <<view, local, files, fixed, unlocked>>

Busy(p, step) == At(p, step) /\ \E k \in Locks : step \in LockOf[k] /\ ~Free(k)

-----------------------------------------------------------------------------
(* The active-session pointer (session-active.mjs) *)

WriteActiveSession(s) == pointer' = s \/ UNCHANGED pointer

\* Replaced only when it names no session, or one that is not active any more.
WriteActiveSessionIfAbsent(s) ==
    IF pointer = Nobody \/ (~Refused /\ pointer \notin Active)
    THEN WriteActiveSession(s) ELSE UNCHANGED pointer

ClearActiveSessionIf(s) ==
    IF pointer = s THEN pointer' \in {Nobody, pointer} ELSE UNCHANGED pointer
=============================================================================
