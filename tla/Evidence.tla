------------------------------ MODULE Evidence ------------------------------
(***************************************************************************)
(* The product runtime of one run: store, lifecycle and boundary together,  *)
(* used by calls that are under way at the same time, in a process that     *)
(* crashes and is started again.                                            *)
(***************************************************************************)
EXTENDS EvidenceAction

CONSTANT Scenes    \* how the run may begin: the events its file holds, the calls made of
                   \* it, and whether writes fail and the process crashes

vars == <<storeVars, crashes, queue, req, runVars, pc, hostVars>>

EventType == {Start} \cup Terminal \cup Keyed \cup {"app", "CHECK_STARTED", "CHECK_FINISHED"}

\* An enforced allow has its evidence among the events before it.
Stands(before, d) ==
    (Enforced /\ d.type = "ACTION_DECIDED" /\ d.val = "allow") =>
        /\ \A g \in Gate : Covers(before, g, d.subj)
        /\ RequireApproval =>
              /\ \E j \in DOMAIN before : /\ before[j].type = "APPROVAL_REQUESTED"
                                          /\ before[j].of = d.of /\ before[j].bind = d.bind
              /\ \E j \in DOMAIN before : /\ before[j].type = "APPROVAL_DECIDED"
                                          /\ before[j].of = d.of /\ before[j].val = "allow"

\* An approval answers a request.
Answers(before, a) ==
    a.type = "APPROVAL_DECIDED" =>
        \E j \in DOMAIN before : before[j].type = "APPROVAL_REQUESTED" /\ before[j].of = a.of

\* A run's events are in this order.
InOrder(events) ==
    \A i \in DOMAIN events :
        LET before == SubSeq(events, 1, i - 1)
        IN  Stands(before, events[i]) /\ Answers(before, events[i])

Results == {None, "pass", "fail", "cancelled", "allow", "withhold", "known", "unknown"}
               \cup {call[c].key : c \in Call}

\* The runs the calls find were made by earlier calls of the same code.
ASSUME ScenesAssumption ==
    /\ \A s \in Scenes :
          /\ s.log \in Seq(ToSet(s.log))
          /\ \A e \in ToSet(s.log) : e.type \in EventType /\ e.by = None /\ e # None
          /\ InOrder(s.log)
    /\ \A c \in Call, type \in EventType, val \in Results :
          /\ Event(c, type, None, val) # None
          /\ \A o \in Op : Event(c, type, o, val) # None
          /\ \A g \in Gate : Event(c, type, g, val) # None

Init ==
    /\ \E s \in Scenes :
        /\ mem = s.log
        /\ pc = [c \in Call |-> IF c \in s.calls THEN "idle" ELSE "notCalled"]
        /\ fails = IF s.faults THEN 0 ELSE MaxFails
        /\ crashes = IF s.faults THEN 0 ELSE MaxCrashes
    /\ file = FileOf(mem)
    /\ damaged = FALSE
    /\ queue = <<>>
    /\ req = [c \in Call |-> NoRequest]
    /\ run = [h \in Handle |-> NoRun]
    /\ refreshing = {}
    /\ gate = [c \in Call |-> 0]
    /\ acked = {}
    /\ handles = {mem[i] : i \in {j \in DOMAIN mem : mem[j].type = "ACTION_DECIDED" /\ mem[j].val = "allow"}}
    /\ performed = [o \in Op |-> 0]
    /\ released = [o \in Op |-> 0]

\* The turn of c: its request is answered, or its read.
Serve(c) ==
    \/ /\ \/ Refused(c) \/ WriteRefused(c) \/ AsksRefresh(c) \/ Refreshed(c)
          \/ Started(c) \/ LostStart(c) \/ SingleDone(c) \/ CheckStarted(c) \/ CheckFinished(c)
       /\ UNCHANGED hostVars
    \/ Proposed(c) \/ Escalated(c) \/ Decided(c) \/ Approves(c)
    \/ IntentStored(c) \/ ReleaseStored(c) \/ Closed(c)

\* A call begins or goes on.
Step(c) ==
    \/ /\ \/ StartRun(c) \/ ResumeRun(c) \/ Record(c) \/ Complete(c) \/ Cancel(c)
          \/ Evaluate(c) \/ GateReturns(c)
       /\ UNCHANGED hostVars
    \/ Decide(c) \/ DecideProposed(c) \/ Approve(c)
    \/ Execute(c) \/ PerformReturns(c) \/ Release(c) \/ DeliverReturns(c) \/ Reconcile(c)

Next ==
    \/ \E c \in Call : Serve(c) \/ Step(c)
    \/ \E h \in Handle : (OpenRun(h) \/ HostRefresh(h)) /\ UNCHANGED hostVars
    \/ Crash /\ UNCHANGED hostVars

Spec == Init /\ [][Next]_vars

-----------------------------------------------------------------------------
(* Properties *)

\* Types of the variables, one request at most per call, and the file a process
\* works on begins with the events it has in memory.
TypeOK ==
    /\ \A i \in DOMAIN file : /\ file[i].ev.type \in EventType
                              /\ file[i].end \in {"whole", "torn", "garbled"}
    /\ IsPrefix(mem, Readable(file)) \/ fails > 0
    /\ damaged \in BOOLEAN
    /\ \A c \in Call : Cardinality({i \in DOMAIN queue : queue[i] = c}) <= 1
    /\ refreshing \subseteq {queue[i] : i \in DOMAIN queue}
    /\ \A h \in Handle : {run[h].open, run[h].ended, run[h].aborted} \subseteq BOOLEAN
    /\ \A c \in Call : gate[c] \in Gate \cup {0}
    /\ performed \in [Op -> Nat] /\ released \in [Op -> Nat]
    /\ fails \in 0..MaxFails /\ crashes \in 0..MaxCrashes

\* What the file can be read back as is the log the store promises, across failed
\* writes and crashes (store.mjs).
Promised == INSTANCE RunLog WITH log <- Readable(file)
ImplementsRunLog == Promised!Spec

\* An enforced allow stands on the evidence before it in the log: the last result of
\* each gate is a pass for its subject and the approval, when one is required, allows
\* that very action; however checks of other calls fall between (decide).
AllowIsCovered == \A i \in DOMAIN mem : Stands(SubSeq(mem, 1, i - 1), mem[i])

\* The side effect of an operation happens once at most, whatever fails, crashes and
\* is tried again (execute).
PerformedOnce == \A o \in Op : performed[o] <= 1

\* Its output is released once at most (release).
ReleasedOnce == \A o \in Op : released[o] <= 1

\* An event was written behind a line that cannot be read.
Astray == \E i \in DOMAIN file : i > ReadableLen(file) /\ file[i].end # "torn"

\* The side effect is never ahead of its record: while nothing was written behind a
\* failed write, every acknowledged event can be read back, so an operation that was
\* performed has its ACTION_STARTED in the file (append, execute).
AckedIsReadable ==
    /\ ~Astray => acked \subseteq ToSet(Readable(file))
    /\ \A o \in Op : performed[o] > 0 =>
          \E e \in acked : e.type = "ACTION_STARTED" /\ e.of = o

\* Of two starts with different keys one is refused, also when they race: a start
\* that returned a Run object has the key of the run (startRun).  Of a file that was
\* loaded as damaged nothing is claimed: what is left of it need not hold the start.
StartAgrees ==
    \A c \in Call : At(c, "started") \/ At(c, "resumed") => damaged \/ mem[1].val = call[c].key

-----------------------------------------------------------------------------
(* What comments of the code say of the program, and runs refute *)

\* store.mjs:19-27: an acknowledgement is never overstated, and a file with a torn tail
\* takes no further appends: every acknowledged event can be read back.
AckNeverOverstated == acked \subseteq ToSet(Readable(file))

\* boundary.mjs:38-41: what is started and unfinished, or finished unknown, can be
\* reconciled: its one OUTCOME_RECONCILED is not there yet.
UnresolvedReconciles ==
    \A o \in Op : Unresolved(mem, o) => ~Has("OUTCOME_RECONCILED", o)
=============================================================================
