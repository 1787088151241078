---------------------------- MODULE EvidenceStore ----------------------------
(***************************************************************************)
(* The append store of the product runtime (runtime/execution/store.mjs)    *)
(* for one run: the lines of its file, the store's memory of them, and the  *)
(* queue in which appends wait for their turn.                              *)
(*                                                                         *)
(* A turn is one step: with a FileStore no other turn starts, and no caller *)
(* starts another request, between the answer of an append and the code     *)
(* that awaited it.  A read waits for a turn too and changes nothing, so it *)
(* is part of the step that uses it.  The deployment is one process; when   *)
(* it crashes, another one loads the file.                                  *)
(***************************************************************************)
EXTENDS Integers, Sequences, FiniteSets, FiniteSetsExt, SequencesExt

CONSTANTS
    Call,         \* asynchronous calls of the runtime's API
    call,         \* call[c]: what it calls, on which handle, for which operation
    Handle,       \* Run objects
    Gate,         \* the frozen gate set, 1..n in id order
    None,         \* absent value, and the digest before the first event
    MaxFails,     \* writes that may fail
    MaxCrashes    \* crashes of the process

\* A gate set is not empty; a call of startRun makes a Run object of its own.
ASSUME CallsAssumption ==
    /\ \A c \in Call : call[c].on \in Handle
    /\ \A c, d \in Call :
          call[c].kind = "start" /\ call[d].kind = "start" /\ call[c].on = call[d].on => c = d
    /\ None \notin Call
    /\ IsFiniteSet(Gate) /\ Gate # {} /\ Gate = 1..Cardinality(Gate)
    /\ MaxFails \in Nat
    /\ MaxCrashes \in Nat

VARIABLES
    file,      \* the lines of the run's file
    mem,       \* the events the store has in memory
    damaged,   \* the file did not load to its end
    queue,     \* calls whose request waits for its turn
    req,       \* req[c]: the request of call c
    fails, crashes

storeVars == <<file, mem, damaged, fails>>

Start    == "RUN_STARTED"
Terminal == {"RUN_COMPLETED", "RUN_CANCELLED"}    \* RUN_FAILED as RUN_COMPLETED

\* Types whose events carry an operation id: one event of each per operation.
Keyed == {"ACTION_PROPOSED", "APPROVAL_REQUESTED", "APPROVAL_DECIDED", "ACTION_DECIDED",
          "ACTION_STARTED", "ACTION_FINISHED", "OUTCOME_RECONCILED",
          "OUTPUT_DECIDED", "OUTPUT_DELIVERY_OBSERVED"}

\* The event of call c: the operation or gate it is of, a result, a decision or an
\* outcome, and the digests of the subject and of the action it is bound to.  Its
\* digest commits to all before it; newId() makes the last event stand for it.
Event(c, type, of, val) ==
    [type |-> type, of |-> of, val |-> val, subj |-> call[c].subj, bind |-> call[c].bind, by |-> c]

Tip(events) == IF events = <<>> THEN None ELSE Last(events)

Ended(events) == \E i \in DOMAIN events : events[i].type \in Terminal

Has(type, of) == \E i \in DOMAIN mem : mem[i].type = type /\ mem[i].of = of

\* The event of that type: there is one at most.
The(type, of) == mem[CHOOSE i \in DOMAIN mem : mem[i].type = type /\ mem[i].of = of]

-----------------------------------------------------------------------------
(* The file *)

LineOf(events, i) ==
    [ev |-> events[i], seq |-> i, prev |-> IF i = 1 THEN None ELSE events[i - 1], end |-> "whole"]

FileOf(events) == [i \in DOMAIN events |-> LineOf(events, i)]

\* What _load accepts as line i, after the lines before it: decodable, in sequence
\* and linked to its predecessor.
Intact(lines, i) ==
    /\ lines[i].end = "whole"
    /\ lines[i].seq = i
    /\ lines[i].prev = IF i = 1 THEN None ELSE lines[i - 1].ev

ReadableLen(lines) ==
    LET broken == {i \in DOMAIN lines : ~Intact(lines, i)}
    IN  IF broken = {} THEN Len(lines) ELSE Min(broken) - 1

Readable(lines) == [i \in 1..ReadableLen(lines) |-> lines[i].ev]

\* Mutant of Written: numbered by the events there are, not by the next one.
WrittenOffByOne(e, end) ==
    Append(file, [ev |-> e, seq |-> Len(mem), prev |-> Tip(mem), end |-> end])

\* The bytes of a request at the end of the file: whole, or torn short of its
\* newline.  What follows a torn line is on that line, and makes it undecodable.
Written(e, end) ==
    IF file # <<>> /\ Last(file).end = "torn"
    THEN [file EXCEPT ![Len(file)].end = IF end = "torn" THEN "torn" ELSE "garbled"]
    ELSE Append(file, [ev |-> e, seq |-> Len(mem) + 1, prev |-> Tip(mem), end |-> end])

-----------------------------------------------------------------------------
(* The queue *)

NoRequest == [ev |-> None, cas |-> FALSE, expected |-> None]

Turn(c) == queue # <<>> /\ Head(queue) = c

\* append(): the request goes to the end of the queue as it stands.
Asks(c, e, cas, expected, waiting) ==
    /\ queue' = Append(waiting, c)
    /\ req' = [req EXCEPT ![c] = [ev |-> e, cas |-> cas, expected |-> expected]]

\* Mutant of Duplicate: no operation key.
DuplicateNever(e) == FALSE

Duplicate(e) == e.type \in Keyed /\ Has(e.type, e.of)

\* Mutant of Code: the head is not compared.
CodeNoSwap(c) ==
    IF damaged THEN "torn_tail"
    ELSE IF Ended(mem) THEN "run_terminal"
    ELSE IF Duplicate(req[c].ev) THEN "duplicate_operation"
    ELSE "ok"

\* The answer to the request of c by the checks made before the write.
Code(c) ==
    IF damaged THEN "torn_tail"
    ELSE IF req[c].cas /\ req[c].expected # Tip(mem) THEN "head_mismatch"
    ELSE IF Ended(mem) THEN "run_terminal"
    ELSE IF Duplicate(req[c].ev) THEN "duplicate_operation"
    ELSE "ok"

\* Mutant of Persisted: a failed write counts.
PersistedAnyway(c) ==
    /\ mem' = Append(mem, req[c].ev)
    /\ \E end \in {"whole", "torn"} : file' = Written(req[c].ev, end)
    /\ UNCHANGED <<damaged, fails>>

\* The write succeeds: the event is in the file and in memory.
Persisted(c) ==
    /\ file' = Written(req[c].ev, "whole")
    /\ mem' = Append(mem, req[c].ev)
    /\ UNCHANGED <<damaged, fails>>

Stored(c) ==
    /\ Turn(c)
    /\ Code(c) = "ok"
    /\ Persisted(c)

\* The write throws, or the queue was full: nothing of the line is in the file, a
\* part of it, or all of it but unsynced.  The memory stays as it was.
WriteFails(c) ==
    /\ Turn(c)
    /\ Code(c) = "ok"
    /\ fails < MaxFails
    /\ fails' = fails + 1
    /\ \/ UNCHANGED file
       \/ \E end \in {"whole", "torn"} : file' = Written(req[c].ev, end)
    /\ UNCHANGED <<mem, damaged>>

\* What the next process loads.
Loads(lines) ==
    /\ file' = lines
    /\ mem' = Readable(lines)
    /\ damaged' = (ReadableLen(lines) < Len(lines))
=============================================================================
