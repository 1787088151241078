---------------------------- MODULE EvidenceAction ----------------------------
(***************************************************************************)
(* Decisions, approvals and the protected boundary over the run lifecycle   *)
(* (runtime/execution/decision.mjs and boundary.mjs): decide, recordApproval,*)
(* execute, release and reconcile.  The evidence they weigh is the store's; *)
(* the head they append against is the Run object's.                        *)
(*                                                                         *)
(* There is one boundary.  Its handles cannot be forged (they are signed    *)
(* with the host's key) and the host keeps them across a crash.             *)
(***************************************************************************)
EXTENDS EvidenceRun

CONSTANTS
    Op,                \* operation ids
    Enforced,          \* policy: is the boundary enforced?
    RequireApproval    \* policy: does the boundary require an approval?

ASSUME PolicyAssumption ==
    /\ Enforced \in BOOLEAN /\ RequireApproval \in BOOLEAN
    /\ \A c \in Call : call[c].op \in Op

VARIABLES
    handles,    \* decision events whose handle was given to the host
    performed,  \* performed[o]: how often perform() was called for operation o
    released    \* released[o]: how often deliver() was called for operation o

hostVars == <<handles, performed, released>>
restVars == <<storeVars, runVars, hostVars, crashes>>

op(c) == call[c].op

-----------------------------------------------------------------------------
(* What reduceRun makes of the events *)

ActionTypes == {"ACTION_PROPOSED", "ACTION_DECIDED", "ACTION_STARTED", "ACTION_FINISHED",
                "OUTCOME_RECONCILED"}

\* The last event of the operation is its state, and carries its outcome.
Actions(events, o) == {i \in DOMAIN events : events[i].type \in ActionTypes /\ events[i].of = o}
IsAction(events, o, type, val) ==
    \E i \in Actions(events, o) :
        /\ \A j \in Actions(events, o) : j <= i
        /\ events[i].type = type
        /\ val = "any" \/ events[i].val = val

\* unresolvedOperations
Unresolved(events, o) ==
    \/ IsAction(events, o, "ACTION_STARTED", "any")
    \/ IsAction(events, o, "ACTION_FINISHED", "unknown")

\* The last result of the gate is a pass, for that subject.
Covers(events, g, subject) ==
    \E i \in DOMAIN events :
        /\ events[i].type = "CHECK_FINISHED" /\ events[i].of = g
        /\ events[i].val = "pass" /\ events[i].subj = subject
        /\ \A j \in DOMAIN events :
              events[j].type = "CHECK_FINISHED" /\ events[j].of = g => j <= i

-----------------------------------------------------------------------------
(* decide *)

Covered(c) == \A g \in Gate : Covers(mem, g, call[c].subj)

\* The approval found is of the request for this very action, and allows it.
Approved(c) ==
    /\ The("APPROVAL_REQUESTED", op(c)).bind = call[c].bind
    /\ The("APPROVAL_DECIDED", op(c)).val = "allow"

Decision(c, expired) ==
    IF Enforced /\ (~Covered(c) \/ (RequireApproval /\ (expired \/ ~Approved(c))))
    THEN "withhold" ELSE "allow"

\* From the evidence read to the append of the decision, or of the request for an
\* approval, there is no await.
Weighs(c) ==
    \/ Has("ACTION_DECIDED", op(c)) /\ Ends(c, "threw")
    \/ /\ ~Has("ACTION_DECIDED", op(c))
       /\ RequireApproval /\ ~Has("APPROVAL_REQUESTED", op(c))
       /\ Appends(c, Event(c, "APPROVAL_REQUESTED", op(c), None), "requesting")
    \/ /\ ~Has("ACTION_DECIDED", op(c))
       /\ RequireApproval /\ Has("APPROVAL_REQUESTED", op(c)) /\ ~Has("APPROVAL_DECIDED", op(c))
       /\ Ends(c, "escalated")
    \/ /\ ~Has("ACTION_DECIDED", op(c))
       /\ ~RequireApproval \/ Has("APPROVAL_DECIDED", op(c))
       /\ \E expired \in BOOLEAN :
             Appends(c, Event(c, "ACTION_DECIDED", op(c), Decision(c, expired)), "deciding")

\* An operation proposed before must be the same action.
Decide(c) ==
    /\ Begins(c, "decide")
    /\ \/ damaged /\ Ends(c, "threw")
       \/ /\ ~damaged /\ ~Has("ACTION_PROPOSED", op(c))
          /\ Appends(c, Event(c, "ACTION_PROPOSED", op(c), None), "proposing")
       \/ /\ ~damaged /\ Has("ACTION_PROPOSED", op(c))
          /\ The("ACTION_PROPOSED", op(c)).bind # call[c].bind
          /\ Ends(c, "threw")
       \/ /\ ~damaged /\ Has("ACTION_PROPOSED", op(c))
          /\ The("ACTION_PROPOSED", op(c)).bind = call[c].bind
          /\ Weighs(c)
    /\ UNCHANGED restVars

Proposed(c) ==
    /\ At(c, "proposing")
    /\ Acknowledged(c)
    /\ Goto(c, "proposed")
    /\ queue' = Tail(queue)
    /\ UNCHANGED <<req, gate, hostVars>>

\* The evidence is read again after the proposal.
DecideProposed(c) ==
    /\ At(c, "proposed")
    /\ Weighs(c)
    /\ UNCHANGED restVars

Escalated(c) ==
    /\ At(c, "requesting")
    /\ Acknowledged(c)
    /\ Goto(c, "escalated")
    /\ queue' = Tail(queue)
    /\ UNCHANGED <<req, gate, hostVars>>

\* On allow the handle of the decision is issued.
Decided(c) ==
    /\ At(c, "deciding")
    /\ Acknowledged(c)
    /\ Goto(c, IF req[c].ev.val = "allow" THEN "allowed" ELSE "withheld")
    /\ handles' = handles \cup (IF req[c].ev.val = "allow" THEN {req[c].ev} ELSE {})
    /\ queue' = Tail(queue)
    /\ UNCHANGED <<req, gate, performed, released>>

\* recordApproval: a request that is pending and, by the host's clock, not expired;
\* of any other the call changes nothing.
Approve(c) ==
    /\ Begins(c, "approve")
    /\ ~damaged
    /\ Has("APPROVAL_REQUESTED", op(c)) /\ ~Has("APPROVAL_DECIDED", op(c))
    /\ \E decision \in {"allow", "withhold"} :
          Appends(c, Event(c, "APPROVAL_DECIDED", op(c), decision), "approving")
    /\ UNCHANGED restVars

Approves(c) ==
    /\ At(c, "approving")
    /\ Acknowledged(c)
    /\ Goto(c, "approved")
    /\ queue' = Tail(queue)
    /\ UNCHANGED <<req, gate, hostVars>>

-----------------------------------------------------------------------------
(* execute and release *)

\* A handle of the operation that re-binds to what is presented now.
Binds(c) == \E d \in handles : d.of = op(c) /\ d.bind = call[c].bind

\* A handle that does not bind or has expired, or a host that denies, ends the call
\* with nothing changed: such a call is not a step.
Execute(c) ==
    /\ Begins(c, "execute")
    /\ Binds(c)
    /\ Appends(c, Event(c, "ACTION_STARTED", op(c), None), "intent")
    /\ UNCHANGED restVars

\* Mutant of IntentStored: perform() is called whether or not the intent is stored.
IntentAssumed(c) ==
    /\ At(c, "intent")
    /\ Turn(c) /\ c \notin refreshing
    /\ performed' = [performed EXCEPT ![op(c)] = @ + 1]
    /\ Goto(c, "perform")
    /\ queue' = Tail(queue)
    /\ UNCHANGED <<storeVars, runVars, req, crashes, handles, released>>

\* The intent is recorded: perform() is called.
IntentStored(c) ==
    /\ At(c, "intent")
    /\ Acknowledged(c)
    /\ performed' = [performed EXCEPT ![op(c)] = @ + 1]
    /\ Goto(c, "perform")
    /\ queue' = Tail(queue)
    /\ UNCHANGED <<req, gate, handles, released>>

\* A throw, or an answer that is no outcome, is unknown; success and failure are known.
PerformReturns(c) ==
    /\ At(c, "perform")
    /\ \E outcome \in {"known", "unknown"} :
          Appends(c, Event(c, "ACTION_FINISHED", op(c), outcome), "finishing")
    /\ UNCHANGED restVars

Release(c) ==
    /\ Begins(c, "release")
    /\ \E d \in handles : d.of = op(c) /\ d.subj = call[c].subj
    /\ Appends(c, Event(c, "OUTPUT_DECIDED", op(c), "allow"), "releasing")
    /\ UNCHANGED restVars

ReleaseStored(c) ==
    /\ At(c, "releasing")
    /\ Acknowledged(c)
    /\ released' = [released EXCEPT ![op(c)] = @ + 1]
    /\ Goto(c, "deliver")
    /\ queue' = Tail(queue)
    /\ UNCHANGED <<req, gate, handles, performed>>

DeliverReturns(c) ==
    /\ At(c, "deliver")
    /\ \/ Ends(c, "unobserved")
       \/ Appends(c, Event(c, "OUTPUT_DELIVERY_OBSERVED", op(c), None), "observing")
    /\ UNCHANGED restVars

\* reconcile: a started operation, or one that finished unknown; of
\* any other the call changes nothing.
Reconcile(c) ==
    /\ Begins(c, "reconcile")
    /\ Unresolved(mem, op(c))
    /\ Appends(c, Event(c, "OUTCOME_RECONCILED", op(c), "known"), "reconciling")
    /\ UNCHANGED restVars

\* The last append of the call is acknowledged.
Closing == [finishing |-> "executed", observing |-> "delivered", reconciling |-> "reconciled"]

Closed(c) ==
    /\ pc[c] \in DOMAIN Closing
    /\ Acknowledged(c)
    /\ Goto(c, Closing[pc[c]])
    /\ queue' = Tail(queue)
    /\ UNCHANGED <<req, gate, hostVars>>
=============================================================================
