----------------------------- MODULE MCEvidence -----------------------------
EXTENDS Evidence, TLC

Of(kind, on) == [kind |-> kind, on |-> on, op |-> "o", bind |-> "b", subj |-> "s", key |-> "k"]
With(kind, on, field, val) == (field :> val) @@ Of(kind, on)

Old(type, of, val) ==
    [type |-> type, of |-> of, val |-> val, subj |-> "s", bind |-> "b", by |-> None]
OldStart == Old("RUN_STARTED", None, "k")
OldPass  == <<Old("CHECK_FINISHED", 1, "pass"), Old("CHECK_FINISHED", 2, "pass")>>
OldAllow == <<Old("ACTION_PROPOSED", "o", None), Old("APPROVAL_REQUESTED", "o", None),
              Old("APPROVAL_DECIDED", "o", "allow"), Old("ACTION_DECIDED", "o", "allow")>>

Passed  == <<OldStart>> \o OldPass
Granted == Passed \o SubSeq(OldAllow, 1, 3)
Allowed  == Passed \o OldAllow

Scene(log, calls, faults) == [log |-> log, calls |-> calls, faults |-> faults]

\* Two starts with different keys race, or meet a run that is there; what is open is
\* cancelled while its output is released twice.
StartCalls ==
    "s1" :> Of("start", "h1") @@
    "s2" :> With("start", "h2", "key", "k2") @@
    "c"  :> Of("cancel", "h2") @@
    "l1" :> Of("release", "h1") @@
    "l2" :> Of("release", "h2") @@
    "r"  :> Of("record", "h1")

StartScenes == {Scene(<<>>, DOMAIN StartCalls, TRUE),
                Scene(Allowed, DOMAIN StartCalls \ {"r"}, TRUE)}

\* Decisions of one operation on two Run objects, while its gates are checked again and
\* its approval given.
DecideCalls ==
    "e"  :> Of("evaluate", "h2") @@
    "d1" :> Of("decide", "h1") @@
    "d2" :> Of("decide", "h2") @@
    "d3" :> With("decide", "h1", "bind", "b2") @@
    "a"  :> Of("approve", "h1")

\* An operation allowed before is executed, tried again and reconciled, while the run
\* is completed.
ExecuteCalls ==
    "x1" :> Of("execute", "h1") @@
    "x2" :> Of("execute", "h2") @@
    "rc" :> Of("reconcile", "h2") @@
    "f"  :> Of("complete", "h1")

\* Decisions race, equal ones and one under another binding, while the approval is given, or
\* after that while the gates are checked again.
ActionScenes ==
    {Scene(Passed, {"d1", "d2", "d3", "a"}, FALSE),
     Scene(Granted, {"d1", "d2", "d3", "e"}, FALSE),
     Scene(Allowed, DOMAIN ExecuteCalls, TRUE)}

AllCalls  == StartCalls @@ DecideCalls @@ ExecuteCalls
AllScenes == StartScenes \cup ActionScenes

TornScenes      == {Scene(Allowed, {"x1", "rc", "f"}, TRUE)}
ReconcileScenes == {Scene(Allowed, DOMAIN ExecuteCalls, FALSE)}
=============================================================================
