----------------------------- MODULE EvidenceRun -----------------------------
(***************************************************************************)
(* The run lifecycle over the store (runtime/lifecycle/run.mjs, with the    *)
(* gate runner of checks.mjs): Run objects that cache the head they append  *)
(* against, starting, resuming, evaluating the gates, recording, ending and *)
(* cancelling.  A call runs from one await to the next in one step.         *)
(***************************************************************************)
EXTENDS EvidenceStore

VARIABLES
    run,         \* run[h]: the Run object h, what it caches of the run
    refreshing,  \* calls whose queued request is the read of refresh()
    pc,          \* where each call is, or how it ended
    gate,        \* gate[c]: the gate evaluate() is at
    acked        \* history: events whose append was acknowledged

runVars == <<run, refreshing, gate, acked>>

NoRun == [open |-> FALSE, head |-> None, ended |-> FALSE, aborted |-> FALSE]
RunAt(events) == [open |-> TRUE, head |-> Tip(events), ended |-> Ended(events), aborted |-> FALSE]

On(c) == run[call[c].on]

Is(c, kind) == call[c].kind = kind
At(c, step) == pc[c] = step
Goto(c, step) == pc' = [pc EXCEPT ![c] = step]

\* A call may begin: it is its turn in the program and its Run object is there.
Begins(c, kind) == Is(c, kind) /\ At(c, "idle") /\ On(c).open

\* Where a call waits for its append, and how it ends when that is refused.
Awaiting ==
    [starting |-> "threw", recording |-> "threw", ending |-> "threw", cancelling |-> "threw",
     checkStart |-> "notPassed", checkFinish |-> "notPassed",
     proposing |-> "threw", requesting |-> "threw", deciding |-> "threw", approving |-> "threw",
     intent |-> "threw", finishing |-> "unrecorded",
     releasing |-> "threw", observing |-> "unrecorded", reconciling |-> "threw"]

\* The call is over, without a request.
Ends(c, how) == Goto(c, how) /\ UNCHANGED <<queue, req>>

\* _append: with the head the Run object has at this moment, unless it knows the
\* run to be over.
Appends(c, e, step) ==
    \/ /\ ~On(c).ended
       /\ Asks(c, e, TRUE, On(c).head, queue)
       /\ Goto(c, step)
    \/ /\ On(c).ended
       /\ Ends(c, Awaiting[step])

-----------------------------------------------------------------------------
(* Answers of the store *)

\* The append of c is acknowledged: its Run object follows the head.
Acknowledged(c) ==
    /\ c \notin refreshing
    /\ Stored(c)
    /\ acked' = acked \cup {req[c].ev}
    /\ run' = [run EXCEPT ![call[c].on].head = req[c].ev,
                          ![call[c].on].ended = @ \/ req[c].ev.type \in Terminal]
    /\ UNCHANGED <<refreshing, crashes>>

\* A refused append whose Run object was aborted, and a cancel that came too late,
\* read the run again before they answer.
NeedsRefresh(c) ==
    \/ Code(c) = "head_mismatch" /\ On(c).aborted
    \/ Code(c) = "run_terminal" /\ Is(c, "cancel")

Refused(c) ==
    /\ Turn(c) /\ c \notin refreshing
    /\ Code(c) # "ok"
    /\ ~NeedsRefresh(c)
    /\ ~(Is(c, "start") /\ Code(c) = "head_mismatch")
    /\ Goto(c, IF At(c, "intent") /\ Code(c) = "duplicate_operation" THEN "consumed"
               ELSE Awaiting[pc[c]])
    /\ queue' = Tail(queue)
    /\ UNCHANGED <<storeVars, req, runVars, crashes>>

WriteRefused(c) ==
    /\ c \notin refreshing
    /\ WriteFails(c)
    /\ Goto(c, Awaiting[pc[c]])
    /\ queue' = Tail(queue)
    /\ UNCHANGED <<req, runVars, crashes>>

AsksRefresh(c) ==
    /\ Turn(c) /\ c \notin refreshing
    /\ NeedsRefresh(c)
    /\ refreshing' = refreshing \cup {c}
    /\ queue' = Append(Tail(queue), c)
    /\ UNCHANGED <<storeVars, req, run, pc, gate, acked, crashes>>

Refreshed(c) ==
    /\ Turn(c) /\ c \in refreshing
    /\ run' = [run EXCEPT ![call[c].on].head = Tip(mem), ![call[c].on].ended = Ended(mem)]
    /\ refreshing' = refreshing \ {c}
    /\ Goto(c, IF Is(c, "cancel") /\ Ended(mem) THEN "already" ELSE Awaiting[pc[c]])
    /\ queue' = Tail(queue)
    /\ UNCHANGED <<storeVars, req, gate, acked, crashes>>

-----------------------------------------------------------------------------
(* startRun, openRun, refresh *)

\* Mutant of Resumes: the idempotency key of the run is not looked at.
ResumesAny(c) ==
    \/ damaged /\ Goto(c, "threw") /\ UNCHANGED run
    \/ ~damaged /\ Goto(c, "resumed") /\ run' = [run EXCEPT ![call[c].on] = RunAt(mem)]

\* The run exists: it is the caller's when key, identity and gate set agree.
Resumes(c) ==
    \/ /\ damaged \/ mem[1].type # Start \/ mem[1].val # call[c].key
       /\ Goto(c, "threw")
       /\ UNCHANGED run
    \/ /\ ~damaged /\ mem[1].type = Start /\ mem[1].val = call[c].key
       /\ Goto(c, "resumed")
       /\ run' = [run EXCEPT ![call[c].on] = RunAt(mem)]

StartRun(c) ==
    /\ Is(c, "start") /\ At(c, "idle") /\ ~On(c).open
    /\ \/ /\ mem # <<>>
          /\ Resumes(c)
          /\ UNCHANGED <<queue, req>>
       \/ /\ mem = <<>>
          /\ Asks(c, Event(c, Start, None, call[c].key), TRUE, None, queue)
          /\ Goto(c, "starting")
          /\ UNCHANGED run
    /\ UNCHANGED <<storeVars, refreshing, gate, acked, crashes>>

Started(c) ==
    /\ At(c, "starting")
    /\ c \notin refreshing
    /\ Stored(c)
    /\ acked' = acked \cup {req[c].ev}
    /\ run' = [run EXCEPT ![call[c].on] = [NoRun EXCEPT !.open = TRUE, !.head = req[c].ev]]
    /\ Goto(c, "started")
    /\ queue' = Tail(queue)
    /\ UNCHANGED <<req, refreshing, gate, crashes>>

\* Another start won the compare-and-swap: the same rule as for an existing run.
LostStart(c) ==
    /\ Turn(c) /\ At(c, "starting")
    /\ Code(c) = "head_mismatch"
    /\ Goto(c, "resuming")
    /\ queue' = Tail(queue)
    /\ UNCHANGED <<storeVars, req, runVars, crashes>>

ResumeRun(c) ==
    /\ At(c, "resuming")
    /\ Resumes(c)
    /\ UNCHANGED <<storeVars, queue, req, refreshing, gate, acked, crashes>>

\* A Run object of openRun; one that startRun is to make is not there before it.
OpenRun(h) ==
    /\ ~run[h].open
    /\ \A c \in Call : call[c].on = h => ~Is(c, "start") \/ pc[c] \notin {"idle", "starting", "resuming"}
    /\ ~damaged
    /\ mem # <<>> /\ mem[1].type = Start
    /\ run' = [run EXCEPT ![h] = RunAt(mem)]
    /\ UNCHANGED <<storeVars, queue, req, refreshing, gate, acked, pc, crashes>>

\* The host's own refresh().
HostRefresh(h) ==
    /\ run[h].open
    /\ run' = [run EXCEPT ![h].head = Tip(mem), ![h].ended = Ended(mem)]
    /\ UNCHANGED <<storeVars, queue, req, refreshing, gate, acked, pc, crashes>>

-----------------------------------------------------------------------------
(* record, complete and fail, cancel *)

Record(c) ==
    /\ Begins(c, "record")
    /\ Appends(c, Event(c, "app", None, None), "recording")
    /\ UNCHANGED <<storeVars, runVars, crashes>>

\* complete() and fail().
Complete(c) ==
    /\ Begins(c, "complete")
    /\ Appends(c, Event(c, "RUN_COMPLETED", None, None), "ending")
    /\ UNCHANGED <<storeVars, runVars, crashes>>

\* The checks are aborted and the terminal event asked for in one go.
Cancel(c) ==
    /\ Begins(c, "cancel")
    /\ run' = [run EXCEPT ![call[c].on].aborted = TRUE]
    /\ \/ On(c).ended /\ Ends(c, "already")
       \/ /\ ~On(c).ended
          /\ Asks(c, Event(c, "RUN_CANCELLED", None, None), FALSE, None, queue)
          /\ Goto(c, "cancelling")
    /\ UNCHANGED <<storeVars, refreshing, gate, acked, crashes>>

\* The one append of the call is acknowledged.
Single == [recording |-> "recorded", ending |-> "ended", cancelling |-> "cancelled"]

SingleDone(c) ==
    /\ pc[c] \in DOMAIN Single
    /\ Acknowledged(c)
    /\ Goto(c, Single[pc[c]])
    /\ queue' = Tail(queue)
    /\ UNCHANGED <<req, gate>>

-----------------------------------------------------------------------------
(* evaluate *)

Evaluate(c) ==
    /\ Begins(c, "evaluate")
    /\ gate' = [gate EXCEPT ![c] = 1]
    /\ Appends(c, Event(c, "CHECK_STARTED", 1, None), "checkStart")
    /\ UNCHANGED <<storeVars, run, refreshing, acked, crashes>>

CheckStarted(c) ==
    /\ At(c, "checkStart")
    /\ Acknowledged(c)
    /\ Goto(c, "gate")
    /\ queue' = Tail(queue)
    /\ UNCHANGED <<req, gate>>

\* runGate: "fail" stands for every result of the runner that is not a pass.
GateReturns(c) ==
    /\ At(c, "gate")
    /\ \E result \in (IF On(c).aborted THEN {"cancelled"} ELSE {"pass", "fail"}) :
          Appends(c, Event(c, "CHECK_FINISHED", gate[c], result), "checkFinish")
    /\ UNCHANGED <<storeVars, runVars, crashes>>

\* Every gate of c has its pass in the run: what evaluate() reports as passed.
AllPassed(c) ==
    \A g \in Gate : \E i \in DOMAIN mem : mem[i] = Event(c, "CHECK_FINISHED", g, "pass")

CheckFinished(c) ==
    /\ At(c, "checkFinish")
    /\ Acknowledged(c)
    /\ \/ /\ gate[c] + 1 \in Gate
          /\ gate' = [gate EXCEPT ![c] = @ + 1]
          /\ Asks(c, Event(c, "CHECK_STARTED", gate[c] + 1, None), TRUE, req[c].ev, Tail(queue))
          /\ Goto(c, "checkStart")
       \/ /\ gate[c] + 1 \notin Gate
          /\ Goto(c, IF AllPassed(c)' THEN "passed" ELSE "notPassed")
          /\ queue' = Tail(queue)
          /\ UNCHANGED <<req, gate>>

-----------------------------------------------------------------------------
(* The process crashes and another one loads the file. *)

\* The append whose turn it is may leave its line, or a part of it.
Leaves ==
    {file} \cup
    (IF queue # <<>> /\ Head(queue) \notin refreshing /\ Code(Head(queue)) = "ok"
     THEN {Written(req[Head(queue)].ev, end) : end \in {"whole", "torn"}} ELSE {})

\* A call that was under way is lost; one that had not begun, or had ended, is not.
Cut(step) ==
    step \in DOMAIN Awaiting \cup {"resuming", "gate", "proposed", "perform", "deliver"}

Crash ==
    /\ crashes < MaxCrashes
    /\ crashes' = crashes + 1
    /\ \E lines \in Leaves : Loads(lines)
    /\ queue' = <<>>
    /\ req' = [c \in Call |-> NoRequest]
    /\ refreshing' = {}
    /\ run' = [h \in Handle |-> NoRun]
    /\ pc' = [c \in Call |-> IF Cut(pc[c]) THEN "lost" ELSE pc[c]]
    /\ UNCHANGED <<gate, acked, fails>>
=============================================================================
