---------------------------- MODULE EvidenceProofs ----------------------------
(***************************************************************************)
(* Proofs about Evidence, for any calls, Run objects, gates and operations, *)
(* any policy, and any number of failed writes and crashes.                 *)
(***************************************************************************)
EXTENDS Evidence, TLAPS, FiniteSetTheorems, SequenceTheorems, WellFoundedInduction

\* Where a call waits for its turn, where it is under way on a run, where it can be.
Waiting == {"starting", "recording", "ending", "cancelling", "checkStart", "checkFinish",
            "proposing", "requesting", "deciding", "approving", "intent", "finishing",
            "releasing", "observing", "reconciling"}
Active  == (Waiting \ {"starting"}) \cup {"gate", "proposed", "perform", "deliver"}
Over    == {"notCalled", "threw", "notPassed", "unrecorded", "consumed", "already", "resumed",
            "started", "recorded", "ended", "cancelled", "passed", "escalated", "allowed",
            "withheld", "approved", "unobserved", "executed", "delivered", "reconciled", "lost"}
Place   == {"idle", "starting", "resuming"} \cup Active \cup Over

\* Every event there is or can be.
OldEvents == UNION {ToSet(s.log) : s \in Scenes}
Events ==
    OldEvents \cup {Event(c, type, of, val) : c \in Call, type \in EventType,
                                             of \in Op \cup Gate \cup {None}, val \in Results}

Lines == [ev : Events, seq : Nat, prev : Events \cup {None}, end : {"whole", "torn", "garbled"}]
Runs  == [open : BOOLEAN, head : Events \cup {None}, ended : BOOLEAN, aborted : BOOLEAN]
Reqs  == [ev : Events \cup {None}, cas : BOOLEAN, expected : Events \cup {None}]

StoreTyped ==
    /\ file \in Seq(Lines)
    /\ mem \in Seq(Events)
    /\ damaged \in BOOLEAN
    /\ fails \in 0..MaxFails /\ crashes \in 0..MaxCrashes

CallsTyped ==
    /\ queue \in Seq(Call)
    /\ req \in [Call -> Reqs]
    /\ pc \in [Call -> Place]
    /\ gate \in [Call -> Gate \cup {0}]

HostTyped ==
    /\ performed \in [Op -> Nat]
    /\ released \in [Op -> Nat]

Typed == StoreTyped /\ CallsTyped /\ HostTyped /\ run \in [Handle -> Runs]

\* The queue holds each waiting call once.
Queued ==
    /\ \A i \in DOMAIN queue : pc[queue[i]] \in Waiting
    /\ \A i, j \in DOMAIN queue : queue[i] = queue[j] => i = j
    /\ refreshing \subseteq ToSet(queue)
    /\ \A c \in refreshing : pc[c] # "starting"

-----------------------------------------------------------------------------
(* File and memory *)

Whole(lines) == \A i \in DOMAIN lines : Intact(lines, i)

\* The readable file is the memory, or one unacknowledged event ahead of it, as long as every
\* line of it is readable.
Follows ==
    /\ Whole(file) =>
          Readable(file) = mem \/ \E e \in Events : Readable(file) = Append(mem, e)
    /\ damaged => ~Whole(file) /\ Readable(file) = mem
    /\ fails = 0 => (damaged \/ Whole(file)) /\ Readable(file) = mem

\* The order of the run's events, in memory and on file.
Ordered == InOrder(mem) /\ InOrder(Readable(file))

-----------------------------------------------------------------------------
(* The calls *)

\* What is asked for at each step.
TypeAt ==
    [starting |-> Start, recording |-> "app", ending |-> "RUN_COMPLETED",
     cancelling |-> "RUN_CANCELLED", checkStart |-> "CHECK_STARTED",
     checkFinish |-> "CHECK_FINISHED", proposing |-> "ACTION_PROPOSED",
     requesting |-> "APPROVAL_REQUESTED", deciding |-> "ACTION_DECIDED",
     approving |-> "APPROVAL_DECIDED", intent |-> "ACTION_STARTED",
     finishing |-> "ACTION_FINISHED", releasing |-> "OUTPUT_DECIDED",
     observing |-> "OUTPUT_DELIVERY_OBSERVED", reconciling |-> "OUTCOME_RECONCILED"]

OfAt(c) ==
    IF pc[c] \in {"starting", "recording", "ending", "cancelling"} THEN None
    ELSE IF pc[c] \in {"checkStart", "checkFinish"} THEN gate[c] ELSE op(c)

Past(head) == head = None \/ \E i \in DOMAIN mem : mem[i] = head

\* The request of a waiting call: its event, on what head, and what that stands on.
Fits(c) ==
    /\ \E val \in Results : req[c].ev = Event(c, TypeAt[pc[c]], OfAt(c), val)
    /\ Past(req[c].expected)
    /\ pc[c] # "cancelling" => req[c].cas
    /\ pc[c] = "starting" => req[c].expected = None /\ req[c].ev.val = call[c].key
    /\ pc[c] = "approving" => Has("APPROVAL_REQUESTED", op(c))
    /\ pc[c] = "deciding" /\ req[c].expected = Tip(mem) => Stands(mem, req[c].ev)

\* The gate of an evaluation.
AtGate(c) ==
    /\ pc[c] = "idle" => gate[c] = 0
    /\ pc[c] \in {"checkStart", "gate", "checkFinish"} => gate[c] \in Gate

\* What a call has not appended yet is nowhere in the memory or the file.
Bound(c, e) ==
    /\ e.type = "app" => pc[c] \notin {"idle", "recording"}
    /\ e.type = "CHECK_STARTED" =>
          e.of \in Gate /\ e.of <= gate[c] /\ (e.of = gate[c] => pc[c] # "checkStart")
    /\ e.type = "CHECK_FINISHED" =>
          /\ e.of \in Gate /\ e.of <= gate[c]
          /\ e.of = gate[c] => pc[c] \notin {"checkStart", "gate", "checkFinish"}

Fresh(c) ==
    /\ \A i \in DOMAIN mem : mem[i].by = c => Bound(c, mem[i])
    /\ \A i \in DOMAIN file : file[i].ev.by = c => Bound(c, file[i].ev)

\* A start that has returned has the run's key.
Keeps(c) ==
    pc[c] \in {"started", "resumed"} => damaged \/ (mem # <<>> /\ mem[1].val = call[c].key)

\* The Run object of a call.
Object(c) ==
    /\ pc[c] \in Active => On(c).open
    /\ pc[c] \in {"starting", "resuming"} => Is(c, "start")
    /\ Is(c, "start") /\ pc[c] \in {"idle", "starting", "resuming"} => On(c) = NoRun
    /\ pc[c] = "resuming" => mem # <<>>

PerCall(c) == (pc[c] \in Waiting => Fits(c)) /\ AtGate(c) /\ Fresh(c) /\ Keeps(c) /\ Object(c)

Opened(h) == (run[h].open => mem # <<>>) /\ Past(run[h].head)

-----------------------------------------------------------------------------
(* Effects *)

\* An effect that was had is on record, or nothing more is stored.
OnceOnly(count, type) ==
    \A o \in Op : count[o] <= 1 /\ (count[o] > 0 => damaged \/ Has(type, o))

IInv ==
    /\ Typed /\ Queued /\ Follows /\ Ordered
    /\ \A c \in Call : PerCall(c)
    /\ \A h \in Handle : Opened(h)
    /\ OnceOnly(performed, "ACTION_STARTED") /\ OnceOnly(released, "OUTPUT_DECIDED")
    /\ AckedIsReadable

-----------------------------------------------------------------------------
(* Constants *)

\* The gates are numbered from 1 on.
LEMMA GateNumbers == /\ 1 \in Gate /\ 0 \notin Gate
                     /\ \A g \in Gate : g \in Nat /\ g >= 1
  <1>1. Cardinality(Gate) \in Nat
    BY CallsAssumption, FS_CardinalityType
  <1>2. Gate = 1..Cardinality(Gate) /\ Gate # {}
    BY CallsAssumption
  <1> QED
    BY <1>1, <1>2

\* The event of a call is one of Events, and knows its call.
LEMMA EventIs ==
    ASSUME NEW c \in Call, NEW type \in EventType, NEW of \in Op \cup Gate \cup {None},
           NEW val \in Results
    PROVE  /\ Event(c, type, of, val) \in Events
           /\ Event(c, type, of, val).type = type /\ Event(c, type, of, val).of = of
           /\ Event(c, type, of, val).val = val /\ Event(c, type, of, val).by = c
           /\ Event(c, type, of, val).subj = call[c].subj
           /\ Event(c, type, of, val).bind = call[c].bind
  BY DEF Events, Event

\* An event has a type, and is not the absent value.
LEMMA EventTyped ==
    ASSUME NEW e \in Events
    PROVE  e.type \in EventType /\ e # None
  <1>1. CASE e \in OldEvents
    BY <1>1, ScenesAssumption DEF OldEvents
  <1>2. CASE e \notin OldEvents
    <2>1. PICK c \in Call, type \in EventType, of \in Op \cup Gate \cup {None}, val \in Results :
             e = Event(c, type, of, val)
      BY <1>2 DEF Events
    <2>2. e # None
      BY <2>1, ScenesAssumption
    <2> QED
      BY <2>1, <2>2 DEF Event
  <1> QED
    BY <1>1, <1>2

-----------------------------------------------------------------------------
(* Lines and what can be read of them *)

\* A non-empty set of naturals has its Min.
LEMMA MinIs ==
    ASSUME NEW S, S \subseteq Nat, S # {}
    PROVE  Min(S) \in S /\ \A b \in S : Min(S) <= b
  <1>1. PICK a \in S : \A b \in S : ~(<<b, a>> \in OpToRel(<, Nat))
    BY WFMin, NatLessThanWellFounded, Zenon
  <1>2. \A b \in S : ~(b < a)
    BY <1>1 DEF OpToRel
  <1>3. \A b \in S : a <= b
    BY <1>2
  <1>4. \E x \in S : \A y \in S : x <= y
    BY <1>3
  <1> QED
    BY <1>4 DEF Min

\* Readable are the lines before the first that is not intact.
LEMMA ReadableLenIs ==
    ASSUME NEW lines \in Seq(Lines)
    PROVE  /\ ReadableLen(lines) \in 0..Len(lines)
           /\ \A i \in 1..ReadableLen(lines) : Intact(lines, i)
           /\ ReadableLen(lines) < Len(lines) => ~Intact(lines, ReadableLen(lines) + 1)
           /\ Whole(lines) <=> ReadableLen(lines) = Len(lines)
  <1> DEFINE broken == {i \in DOMAIN lines : ~Intact(lines, i)}
  <1>1. broken \subseteq Nat /\ DOMAIN lines = 1..Len(lines) /\ Len(lines) \in Nat
    OBVIOUS
  <1>2. CASE broken = {}
    <2>1. ReadableLen(lines) = Len(lines)
      BY <1>2 DEF ReadableLen
    <2> QED
      BY <1>1, <1>2, <2>1 DEF Whole
  <1>3. CASE broken # {}
    <2>1. ReadableLen(lines) = Min(broken) - 1
      BY <1>3 DEF ReadableLen
    <2>2. Min(broken) \in broken /\ \A b \in broken : Min(broken) <= b
      BY <1>1, <1>3, MinIs
    <2>3. PICK m \in broken : m = Min(broken)
      BY <2>2
    <2>6. m \in 1..Len(lines) /\ \A b \in broken : m <= b
      BY <1>1, <2>2, <2>3
    <2>4. \A i \in 1..(m - 1) : i \in DOMAIN lines /\ i \notin broken
      <3> HIDE DEF broken
      <3> QED
        BY <1>1, <2>6
    <2>5. ~Whole(lines)
      BY <2>3 DEF Whole
    <2> QED
      BY <1>1, <2>1, <2>3, <2>4, <2>5
  <1> QED
    BY <1>2, <1>3

\* It is the only such number.
LEMMA ReadableLenUnique ==
    ASSUME NEW lines \in Seq(Lines), NEW n \in 0..Len(lines),
           \A i \in 1..n : Intact(lines, i),
           n < Len(lines) => ~Intact(lines, n + 1)
    PROVE  ReadableLen(lines) = n
  <1>1. ReadableLen(lines) \in 0..Len(lines) /\ Len(lines) \in Nat
    BY ReadableLenIs
  <1>2. ~(ReadableLen(lines) < n)
    <2>1. ASSUME ReadableLen(lines) < n PROVE FALSE
      <3>1. ReadableLen(lines) + 1 \in 1..n /\ ReadableLen(lines) < Len(lines)
        BY <1>1, <2>1
      <3> QED
        BY <3>1, ReadableLenIs
    <2> QED
      BY <2>1
  <1>3. ~(n < ReadableLen(lines))
    <2>1. ASSUME n < ReadableLen(lines) PROVE FALSE
      <3>1. n + 1 \in 1..ReadableLen(lines) /\ n < Len(lines)
        BY <1>1, <2>1
      <3> QED
        BY <3>1, ReadableLenIs
    <2> QED
      BY <2>1
  <1> QED
    BY <1>1, <1>2, <1>3

\* The events of the readable lines.
LEMMA ReadableIs ==
    ASSUME NEW lines \in Seq(Lines)
    PROVE  /\ Readable(lines) \in Seq(Events)
           /\ Len(Readable(lines)) = ReadableLen(lines)
           /\ \A i \in 1..ReadableLen(lines) : Readable(lines)[i] = lines[i].ev
  <1>1. ReadableLen(lines) \in Nat /\ \A i \in 1..ReadableLen(lines) : i \in 1..Len(lines)
    BY ReadableLenIs
  <1>2. \A i \in 1..ReadableLen(lines) : lines[i].ev \in Events
    <2>1. \A i \in 1..ReadableLen(lines) : lines[i] \in Lines
      BY <1>1
    <2> QED
      BY <2>1 DEF Lines
  <1> QED
    BY <1>1, <1>2 DEF Readable

\* Lines that agree up to their first unreadable one are read alike.
LEMMA ReadAlike ==
    ASSUME NEW old \in Seq(Lines), NEW new \in Seq(Lines), Len(old) <= Len(new),
           \A i \in 1..ReadableLen(old) : new[i] = old[i],
           ReadableLen(old) < Len(new) => ~Intact(new, ReadableLen(old) + 1)
    PROVE  Readable(new) = Readable(old) /\ ReadableLen(new) = ReadableLen(old)
  <1> DEFINE n == ReadableLen(old)
  <1>1. n \in 0..Len(old) /\ n \in 0..Len(new) /\ Len(old) \in Nat /\ Len(new) \in Nat
    BY ReadableLenIs
  <1>2. \A i \in 1..n : Intact(new, i)
    <2> SUFFICES ASSUME NEW i \in 1..n PROVE Intact(new, i)
      OBVIOUS
    <2>1. Intact(old, i)
      BY ReadableLenIs
    <2>2. new[i] = old[i] /\ (i # 1 => new[i - 1] = old[i - 1])
      BY <1>1
    <2> QED
      BY <2>1, <2>2 DEF Intact
  <1>3. ReadableLen(new) = n
    BY <1>1, <1>2, ReadableLenUnique
  <1> QED
    BY <1>1, <1>3 DEF Readable

\* What is written at the end of the file is one line more, or spoils the torn last one.
OneMore(new, e, end) ==
    /\ Len(new) = Len(file) + 1
    /\ \A i \in DOMAIN file : new[i] = file[i]
    /\ new[Len(new)] = [ev |-> e, seq |-> Len(mem) + 1, prev |-> Tip(mem), end |-> end]

Spoilt(new, end) ==
    /\ Len(new) = Len(file) /\ file # <<>> /\ file[Len(file)].end = "torn"
    /\ \A i \in DOMAIN file : i # Len(file) => new[i] = file[i]
    /\ new[Len(file)].end = IF end = "torn" THEN "torn" ELSE "garbled"
    /\ new[Len(file)].ev = file[Len(file)].ev

\* That is all Written does.
LEMMA WrittenLines ==
    ASSUME StoreTyped, NEW e \in Events, NEW end \in {"whole", "torn"},
           NEW new, new = Written(e, end)
    PROVE  new \in Seq(Lines) /\ (OneMore(new, e, end) \/ Spoilt(new, end))
  <1> DEFINE line == [ev |-> e, seq |-> Len(mem) + 1, prev |-> Tip(mem), end |-> end]
             how == IF end = "torn" THEN "torn" ELSE "garbled"
  <1>1. Tip(mem) \in Events \cup {None}
    BY DEF StoreTyped, Tip, Last
  <1>2. line \in Lines
    BY <1>1 DEF Lines, StoreTyped
  <1>3. file \in Seq(Lines)
    BY DEF StoreTyped
  <1>4. CASE file # <<>> /\ Last(file).end = "torn"
    <2>1. new = [file EXCEPT ![Len(file)].end = how]
      BY <1>4 DEF Written
    <2>2. file[Len(file)] \in Lines /\ Len(file) \in DOMAIN file /\ file[Len(file)].end = "torn"
      BY <1>3, <1>4 DEF Last
    <2>3. [file[Len(file)] EXCEPT !.end = how] \in Lines
      BY <2>2 DEF Lines
    <2>4. new = [file EXCEPT ![Len(file)] = [file[Len(file)] EXCEPT !.end = how]]
      BY <2>1
    <2>5. /\ new \in Seq(Lines) /\ Len(new) = Len(file)
          /\ \A i \in DOMAIN file : i # Len(file) => new[i] = file[i]
          /\ new[Len(file)] = [file[Len(file)] EXCEPT !.end = how]
      BY <1>3, <2>2, <2>3, <2>4, ExceptSeq
    <2>6. new[Len(file)].ev = file[Len(file)].ev /\ new[Len(file)].end = how
      BY <2>2, <2>5 DEF Lines
    <2>7. Spoilt(new, end)
      BY <1>4, <2>2, <2>5, <2>6 DEF Spoilt
    <2> QED
      BY <2>5, <2>7
  <1>5. CASE ~(file # <<>> /\ Last(file).end = "torn")
    <2>1. new = Append(file, line)
      BY <1>5 DEF Written
    <2>2. new \in Seq(Lines) /\ OneMore(new, e, end)
      BY <1>2, <1>3, <2>1 DEF OneMore
    <2> QED
      BY <2>2
  <1> QED
    BY <1>4, <1>5

\* Behind a line that cannot be read nothing becomes readable.
LEMMA WrittenBehind ==
    ASSUME StoreTyped, ~Whole(file), NEW e \in Events, NEW end \in {"whole", "torn"},
           NEW new, new = Written(e, end)
    PROVE  /\ ~Whole(new) /\ Readable(new) = Readable(file) /\ ReadableLen(new) = ReadableLen(file)
  <1> DEFINE n == ReadableLen(file)
  <1>0. new \in Seq(Lines) /\ (OneMore(new, e, end) \/ Spoilt(new, end))
    BY WrittenLines
  <1>1. file \in Seq(Lines) /\ new \in Seq(Lines)
    BY <1>0 DEF StoreTyped
  <1>2. n \in 0..Len(file) /\ n < Len(file) /\ ~Intact(file, n + 1) /\ Len(file) <= Len(new)
        /\ Len(file) \in Nat /\ Len(new) \in Nat
    <2>1. Len(file) <= Len(new)
      BY <1>0, <1>1 DEF OneMore, Spoilt
    <2> QED
      BY <1>1, <2>1, ReadableLenIs
  <1>3. \A i \in 1..n : new[i] = file[i]
    <2>1. \A i \in 1..n : i \in DOMAIN file /\ i # Len(file) /\ Intact(file, i)
      BY <1>1, <1>2, ReadableLenIs
    <2> QED
      BY <1>0, <2>1 DEF OneMore, Spoilt
  <1>4. ~Intact(new, n + 1)
    <2>1. n + 1 \in DOMAIN file /\ (n # 0 => n \in 1..n)
      BY <1>1, <1>2
    <2>2. CASE new[n + 1] = file[n + 1]
      BY <1>2, <1>3, <2>1, <2>2 DEF Intact
    <2>3. CASE new[n + 1] # file[n + 1]
      <3>1. n + 1 = Len(file) /\ new[Len(file)].end = IF end = "torn" THEN "torn" ELSE "garbled"
        BY <1>0, <2>1, <2>3 DEF OneMore, Spoilt
      <3> QED
        BY <3>1 DEF Intact
    <2> QED
      BY <2>2, <2>3
  <1>5. Readable(new) = Readable(file) /\ ReadableLen(new) = n
    BY <1>1, <1>2, <1>3, <1>4, ReadAlike
  <1> QED
    BY <1>1, <1>2, <1>5, ReadableLenIs

\* The next event, written whole at the end of a file that is the memory, is read.
LEMMA WrittenNext ==
    ASSUME StoreTyped, Whole(file), Readable(file) = mem, NEW e \in Events,
           NEW new, new = Written(e, "whole")
    PROVE  Whole(new) /\ Readable(new) = Append(mem, e)
  <1>0. new \in Seq(Lines) /\ (OneMore(new, e, "whole") \/ Spoilt(new, "whole"))
    BY WrittenLines
  <1>1. file \in Seq(Lines) /\ new \in Seq(Lines) /\ mem \in Seq(Events)
    BY <1>0 DEF StoreTyped
  <1>2. Len(mem) = Len(file) /\ Len(file) \in Nat
        /\ \A i \in 1..Len(file) : mem[i] = file[i].ev /\ Intact(file, i)
    BY <1>1, ReadableIs, ReadableLenIs
  <1>3. file # <<>> => file[Len(file)].end # "torn"
    BY <1>1, <1>2 DEF Intact
  <1>4. /\ Len(new) = Len(file) + 1
        /\ \A i \in 1..Len(file) : new[i] = file[i]
        /\ new[Len(new)] = [ev |-> e, seq |-> Len(mem) + 1, prev |-> Tip(mem), end |-> "whole"]
    BY <1>0, <1>1, <1>3 DEF OneMore, Spoilt
  <1>5. \A i \in 1..Len(file) : Intact(new, i)
    <2> SUFFICES ASSUME NEW i \in 1..Len(file) PROVE Intact(new, i)
      OBVIOUS
    <2>1. new[i] = file[i] /\ (i # 1 => new[i - 1] = file[i - 1]) /\ Intact(file, i)
      BY <1>2, <1>4
    <2> QED
      BY <2>1 DEF Intact
  <1>6. Intact(new, Len(file) + 1)
    <2>1. CASE file = <<>>
      <3>1. Len(file) = 0 /\ mem = <<>>
        BY <1>1, <1>2, <2>1
      <3> QED
        BY <1>4, <3>1 DEF Intact, Tip
    <2>2. CASE file # <<>>
      <3>1. Len(file) \in 1..Len(file) /\ mem # <<>>
        BY <1>1, <1>2, <2>2
      <3>2. Tip(mem) = file[Len(file)].ev /\ new[Len(file)] = file[Len(file)]
        BY <1>2, <1>4, <3>1 DEF Tip, Last
      <3> QED
        BY <1>2, <1>4, <3>1, <3>2 DEF Intact
    <2> QED
      BY <2>1, <2>2
  <1>7. Whole(new)
    BY <1>1, <1>2, <1>4, <1>5, <1>6 DEF Whole
  <1>8. /\ Readable(new) \in Seq(Events) /\ Len(Readable(new)) = Len(file) + 1
        /\ \A i \in 1..(Len(file) + 1) : Readable(new)[i] = new[i].ev
    BY <1>1, <1>4, <1>7, ReadableIs, ReadableLenIs
  <1>9. /\ Append(mem, e) \in Seq(Events) /\ Len(Append(mem, e)) = Len(file) + 1
        /\ \A i \in 1..(Len(file) + 1) : Append(mem, e)[i] = new[i].ev
    BY <1>1, <1>2, <1>4
  <1> QED
    BY <1>7, <1>8, <1>9, SeqEqual

\* A torn line, or one written as if the last on file were not there, is not read.
LEMMA WrittenAstray ==
    ASSUME StoreTyped, Whole(file), NEW e \in Events, NEW end \in {"whole", "torn"},
           end = "torn" \/ Len(Readable(file)) # Len(mem),
           NEW new, new = Written(e, end)
    PROVE  /\ ~Whole(new) /\ Readable(new) = Readable(file) /\ ReadableLen(new) = ReadableLen(file)
           /\ Len(new) = Len(file) + 1 /\ new[Len(new)].end = end
  <1>0. new \in Seq(Lines) /\ (OneMore(new, e, end) \/ Spoilt(new, end))
    BY WrittenLines
  <1>1. file \in Seq(Lines) /\ new \in Seq(Lines) /\ Len(mem) \in Nat /\ Len(file) \in Nat
    BY <1>0 DEF StoreTyped
  <1>2. Len(Readable(file)) = Len(file) /\ ReadableLen(file) = Len(file)
        /\ \A i \in 1..Len(file) : Intact(file, i)
    BY <1>1, ReadableIs, ReadableLenIs
  <1>3. file # <<>> => file[Len(file)].end # "torn"
    BY <1>1, <1>2 DEF Intact
  <1>4. /\ Len(new) = Len(file) + 1
        /\ \A i \in 1..Len(file) : new[i] = file[i]
        /\ new[Len(new)] = [ev |-> e, seq |-> Len(mem) + 1, prev |-> Tip(mem), end |-> end]
    BY <1>0, <1>1, <1>3 DEF OneMore, Spoilt
  <1>5. ~Intact(new, Len(file) + 1)
    BY <1>1, <1>2, <1>4 DEF Intact
  <1>6. Readable(new) = Readable(file) /\ ReadableLen(new) = ReadableLen(file)
    BY <1>1, <1>2, <1>4, <1>5, ReadAlike
  <1>7. ~Whole(new)
    BY <1>1, <1>4, <1>5 DEF Whole
  <1> QED
    BY <1>4, <1>6, <1>7

-----------------------------------------------------------------------------
(* What a write does to what can be read *)

\* Lines with something behind the first that cannot be read, other than torn lines.
StrayIn(lines) == \E i \in DOMAIN lines : i > ReadableLen(lines) /\ lines[i].end # "torn"

\* The event can be read after the memory's.
ReadNext(new, e) == Whole(new) /\ Readable(new) = Append(mem, e)

\* It cannot, and what could be read still can.
ReadSame(new) ==
    ~Whole(new) /\ Readable(new) = Readable(file) /\ ReadableLen(new) = ReadableLen(file)

\* One of them holds after a write: the first when the file is the memory and the write whole.
LEMMA WrittenReads ==
    ASSUME StoreTyped, Follows, NEW e \in Events, NEW end \in {"whole", "torn"},
           NEW new, new = Written(e, end)
    PROVE  \/ end = "whole" /\ Whole(file) /\ Readable(file) = mem /\ ReadNext(new, e)
           \/ /\ ReadSame(new)
              /\ end = "whole" => StrayIn(new)
              /\ StrayIn(file) => StrayIn(new)
  <1>0. file \in Seq(Lines) /\ mem \in Seq(Events) /\ Len(file) \in Nat /\ Len(mem) \in Nat
    BY DEF StoreTyped
  <1>1. new \in Seq(Lines) /\ (OneMore(new, e, end) \/ Spoilt(new, end)) /\ Len(new) \in Nat
    BY WrittenLines
  <1>2. ReadableLen(file) \in 0..Len(file) /\ (Whole(file) <=> ReadableLen(file) = Len(file))
    BY <1>0, ReadableLenIs
  <1>3. CASE end = "whole" /\ Whole(file) /\ Readable(file) = mem
    BY <1>3, WrittenNext DEF ReadNext
  <1>4. CASE Whole(file) /\ ~(end = "whole" /\ Readable(file) = mem)
    <2>1. end = "torn" \/ Len(Readable(file)) # Len(mem)
      <3>1. CASE end = "torn"
        BY <3>1
      <3>2. CASE end = "whole"
        <4>1. PICK x \in Events : Readable(file) = Append(mem, x)
          BY <1>4, <3>2 DEF Follows
        <4>2. Len(Append(mem, x)) = Len(mem) + 1
          BY <1>0
        <4> QED
          BY <1>0, <4>1, <4>2
      <3> QED
        BY <3>1, <3>2
    <2>2. ReadSame(new) /\ Len(new) = Len(file) + 1 /\ new[Len(new)].end = end
      BY <1>4, <2>1, WrittenAstray DEF ReadSame
    <2>3. end = "whole" => StrayIn(new)
      <3>1. Len(new) \in DOMAIN new /\ Len(new) > ReadableLen(new)
        BY <1>0, <1>1, <1>2, <2>2 DEF ReadSame
      <3> QED
        BY <2>2, <3>1 DEF StrayIn
    <2>4. ~StrayIn(file)
      BY <1>0, <1>2, <1>4 DEF StrayIn
    <2> QED
      BY <2>2, <2>3, <2>4
  <1>5. CASE ~Whole(file)
    <2>1. ReadSame(new)
      BY <1>5, WrittenBehind DEF ReadSame
    <2>2. end = "whole" => StrayIn(new)
      <3>1. CASE OneMore(new, e, end)
        <4>1. Len(new) \in DOMAIN new /\ Len(new) > ReadableLen(new) /\ new[Len(new)].end = end
          BY <1>0, <1>1, <1>2, <2>1, <3>1 DEF ReadSame, OneMore
        <4> QED
          BY <4>1 DEF StrayIn
      <3>2. CASE Spoilt(new, end)
        <4>1. Len(new) = Len(file) /\ Len(new) \in DOMAIN new /\ Len(new) > ReadableLen(new)
          BY <1>0, <1>1, <1>2, <1>5, <2>1, <3>2 DEF ReadSame, Spoilt
        <4>2. end = "whole" => new[Len(new)].end = "garbled"
          BY <3>2, <4>1 DEF Spoilt
        <4> QED
          BY <4>1, <4>2 DEF StrayIn
      <3> QED
        BY <1>1, <3>1, <3>2
    <2>3. StrayIn(file) => StrayIn(new)
      <3> SUFFICES ASSUME NEW i \in DOMAIN file, i > ReadableLen(file), file[i].end # "torn"
                   PROVE  StrayIn(new)
        BY DEF StrayIn
      <3>1. i \in DOMAIN new /\ new[i] = file[i]
        BY <1>0, <1>1 DEF OneMore, Spoilt
      <3> QED
        BY <2>1, <3>1 DEF StrayIn, ReadSame
    <2> QED
      BY <2>1, <2>2, <2>3
  <1> QED
    BY <1>3, <1>4, <1>5

\* An event on file was on file before, or is the one written.
LEMMA WrittenEvents ==
    ASSUME StoreTyped, NEW e \in Events, NEW end \in {"whole", "torn"},
           NEW new, new = Written(e, end), NEW i \in DOMAIN new
    PROVE  new[i].ev = e \/ (i \in DOMAIN file /\ new[i].ev = file[i].ev)
  <1>1. new \in Seq(Lines) /\ file \in Seq(Lines) /\ (OneMore(new, e, end) \/ Spoilt(new, end))
    BY WrittenLines DEF StoreTyped
  <1>2. CASE OneMore(new, e, end)
    BY <1>1, <1>2 DEF OneMore
  <1>3. CASE Spoilt(new, end)
    BY <1>1, <1>3 DEF Spoilt
  <1> QED
    BY <1>1, <1>2, <1>3

-----------------------------------------------------------------------------
(* The event that is asked for *)

\* A waiting call asks for an event of its own, of the type and the gate or operation of its step.
LEMMA AskedIs ==
    ASSUME NEW c \in Call, pc[c] \in Waiting, Fits(c), AtGate(c)
    PROVE  /\ req[c].ev \in Events /\ req[c].ev # None
           /\ req[c].ev.type = TypeAt[pc[c]] /\ req[c].ev.of = OfAt(c)
           /\ req[c].ev.by = c /\ req[c].ev.bind = call[c].bind /\ req[c].ev.val \in Results
  <1>1. PICK val \in Results : req[c].ev = Event(c, TypeAt[pc[c]], OfAt(c), val)
    BY DEF Fits
  <1>2. TypeAt[pc[c]] \in EventType
    BY DEF Waiting, TypeAt, EventType, Start, Terminal, Keyed
  <1>3. OfAt(c) \in Op \cup Gate \cup {None}
    BY PolicyAssumption DEF OfAt, AtGate, op
  <1>4. req[c].ev \in Events
    BY <1>1, <1>2, <1>3, EventIs
  <1> QED
    BY <1>1, <1>2, <1>3, <1>4, EventIs, EventTyped

\* The type a step asks for tells the step.
LEMMA TypeTells ==
    ASSUME NEW c \in Call, pc[c] \in Waiting
    PROVE  /\ TypeAt[pc[c]] = Start <=> pc[c] = "starting"
           /\ TypeAt[pc[c]] = "app" <=> pc[c] = "recording"
           /\ TypeAt[pc[c]] = "CHECK_STARTED" <=> pc[c] = "checkStart"
           /\ TypeAt[pc[c]] = "CHECK_FINISHED" <=> pc[c] = "checkFinish"
           /\ TypeAt[pc[c]] = "ACTION_DECIDED" <=> pc[c] = "deciding"
           /\ TypeAt[pc[c]] = "APPROVAL_DECIDED" <=> pc[c] = "approving"
           /\ TypeAt[pc[c]] = "ACTION_STARTED" <=> pc[c] = "intent"
           /\ TypeAt[pc[c]] = "OUTPUT_DECIDED" <=> pc[c] = "releasing"
           /\ TypeAt[pc[c]] \in Terminal <=> pc[c] \in {"ending", "cancelling"}
           /\ TypeAt[pc[c]] \in Keyed <=>
                 pc[c] \notin {"starting", "recording", "ending", "cancelling", "checkStart",
                               "checkFinish"}
  BY DEF Waiting, TypeAt, Start, Terminal, Keyed

\* What the store takes is the event of nothing stored before.
LEMMA TakenIsNew ==
    ASSUME Typed, NEW c \in Call, pc[c] \in Waiting, PerCall(c), Code(c) = "ok",
           NEW i \in DOMAIN mem
    PROVE  mem[i] # req[c].ev
  <1> DEFINE e == req[c].ev
  <1>1. /\ e.type = TypeAt[pc[c]] /\ e.of = OfAt(c) /\ e.by = c
        /\ Fits(c) /\ AtGate(c) /\ Fresh(c)
    BY AskedIs DEF PerCall
  <1> SUFFICES ASSUME mem[i] = e PROVE FALSE
    OBVIOUS
  <1> HIDE DEF e
  <1>2. Bound(c, e)
    BY <1>1 DEF Fresh
  <1>3. pc[c] # "starting"
    <2>1. pc[c] = "starting" => Tip(mem) = None
      BY <1>1 DEF Fits, Code
    <2>2. mem[Len(mem)] \in Events /\ mem # <<>>
      BY DEF Typed, StoreTyped
    <2> QED
      BY <2>1, <2>2, EventTyped DEF Tip, Last
  <1>4. pc[c] \notin {"recording", "checkStart", "checkFinish"}
    BY <1>1, <1>2 DEF Bound, TypeAt, OfAt
  <1>5. pc[c] \notin {"ending", "cancelling"}
    BY <1>1, TypeTells DEF Code, Ended
  <1>6. e.type \in Keyed
    BY <1>1, <1>3, <1>4, <1>5, TypeTells
  <1>7. ~Duplicate(e)
    BY DEF Code, e
  <1> QED
    BY <1>6, <1>7 DEF Duplicate, Has

\* What the store takes has its evidence in the run.
LEMMA TakenInOrder ==
    ASSUME Typed, InOrder(mem), NEW c \in Call, pc[c] \in Waiting, PerCall(c), Code(c) = "ok"
    PROVE  InOrder(Append(mem, req[c].ev))
  <1> DEFINE e == req[c].ev
             log == Append(mem, e)
  <1>1. /\ e \in Events /\ e.type = TypeAt[pc[c]] /\ e.of = OfAt(c)
        /\ Fits(c)
    BY AskedIs DEF PerCall
  <1>2. mem \in Seq(Events) /\ Len(mem) \in Nat
    BY DEF Typed, StoreTyped
  <1>3. /\ log \in Seq(Events) /\ Len(log) = Len(mem) + 1
        /\ \A i \in 1..Len(mem) : log[i] = mem[i]
        /\ log[Len(mem) + 1] = e
    BY <1>1, <1>2
  <1>4. \A i \in 1..(Len(mem) + 1) : SubSeq(log, 1, i - 1) = SubSeq(mem, 1, i - 1)
    <2> HIDE DEF e
    <2> SUFFICES ASSUME NEW i \in 1..(Len(mem) + 1)
                 PROVE  SubSeq(log, 1, i - 1) = SubSeq(mem, 1, i - 1)
      OBVIOUS
    <2> HIDE DEF log
    <2>1. /\ i - 1 \in Nat /\ i - 1 <= Len(mem)
          /\ \A j \in 1..(i - 1) : log[j] \in Events /\ mem[j] \in Events /\ log[j] = mem[j]
      BY <1>2, <1>3
    <2>2. /\ SubSeq(log, 1, i - 1) = [j \in 1..(i - 1) |-> log[j]]
          /\ SubSeq(mem, 1, i - 1) = [j \in 1..(i - 1) |-> mem[j]]
      BY <1>2, <1>3, <2>1
    <2> QED
      BY <2>1, <2>2
  <1>5. SubSeq(mem, 1, Len(mem)) = mem
    BY <1>2
  <1>6. Stands(mem, e)
    <2>1. CASE e.type = "ACTION_DECIDED"
      <3>1. pc[c] = "deciding"
        BY <1>1, <2>1, TypeTells
      <3>2. req[c].expected = Tip(mem)
        BY <1>1, <3>1 DEF Fits, Code
      <3> QED
        BY <1>1, <3>1, <3>2 DEF Fits
    <2>2. CASE e.type # "ACTION_DECIDED"
      BY <2>2 DEF Stands
    <2> QED
      BY <2>1, <2>2
  <1>7. Answers(mem, e)
    <2>1. CASE e.type = "APPROVAL_DECIDED"
      <3>1. pc[c] = "approving" /\ e.of = op(c)
        BY <1>1, <2>1, TypeTells DEF OfAt
      <3> QED
        BY <1>1, <3>1 DEF Fits, Has, Answers
    <2>2. CASE e.type # "APPROVAL_DECIDED"
      BY <2>2 DEF Answers
    <2> QED
      BY <2>1, <2>2
  <1>8. \A i \in 1..(Len(mem) + 1) :
           Stands(SubSeq(log, 1, i - 1), log[i]) /\ Answers(SubSeq(log, 1, i - 1), log[i])
    <2> HIDE DEF e, log
    <2> SUFFICES ASSUME NEW i \in 1..(Len(mem) + 1)
                 PROVE  Stands(SubSeq(log, 1, i - 1), log[i]) /\ Answers(SubSeq(log, 1, i - 1), log[i])
      OBVIOUS
    <2>1. CASE i = Len(mem) + 1
      <3>1. SubSeq(log, 1, i - 1) = mem /\ log[i] = e
        BY <1>2, <1>3, <1>4, <1>5, <2>1
      <3> QED
        BY <1>6, <1>7, <3>1
    <2>2. CASE i # Len(mem) + 1
      <3>1. i \in DOMAIN mem /\ log[i] = mem[i] /\ SubSeq(log, 1, i - 1) = SubSeq(mem, 1, i - 1)
        BY <1>2, <1>3, <1>4, <2>2
      <3>2. Stands(SubSeq(mem, 1, i - 1), mem[i]) /\ Answers(SubSeq(mem, 1, i - 1), mem[i])
        BY <3>1 DEF InOrder
      <3> QED
        BY <3>1, <3>2
    <2> QED
      BY <2>1, <2>2
  <1>9. DOMAIN log = 1..(Len(mem) + 1)
    BY <1>2, <1>3
  <1> HIDE DEF e, log
  <1>10. InOrder(log)
    BY <1>8, <1>9 DEF InOrder
  <1> QED
    BY <1>10 DEF e, log

-----------------------------------------------------------------------------
(* Steps of the store *)

\* The events of the file are those of before, and e.
FileFrom(e) ==
    \A i \in DOMAIN file' :
        file'[i].ev = e \/ (i \in DOMAIN file /\ file'[i].ev = file[i].ev)

\* The memory grows by a new event.
Grown(e) == mem' = Append(mem, e) /\ \A i \in DOMAIN mem : mem[i] # e

\* What can be read stays readable.
ReadKept ==
    /\ StrayIn(file) => StrayIn(file')
    /\ ToSet(Readable(file)) \subseteq ToSet(Readable(file'))

\* Whose turn it is waits for it.
LEMMA TurnWaits ==
    ASSUME IInv, NEW c \in Call, Turn(c)
    PROVE  /\ pc[c] \in Waiting /\ PerCall(c) /\ Fits(c) /\ AtGate(c)
           /\ req[c].ev \in Events /\ req[c].ev.by = c
           /\ queue \in Seq(Call) /\ queue # <<>> /\ queue[1] = c
  <1>1. queue \in Seq(Call) /\ queue # <<>>
    BY DEF IInv, Typed, CallsTyped, Turn
  <1>2. 1 \in DOMAIN queue /\ queue[1] = c
    BY <1>1 DEF Turn
  <1>3. pc[c] \in Waiting /\ PerCall(c)
    BY <1>2 DEF IInv, Queued
  <1> QED
    BY <1>1, <1>2, <1>3, AskedIs DEF PerCall

\* Appending an event to a log leaves the events it had.
LEMMA ToSetAppend ==
    ASSUME NEW s \in Seq(Events), NEW e \in Events
    PROVE  /\ ToSet(Append(s, e)) = ToSet(s) \cup {e}
           /\ Append(s, e) \in Seq(Events) /\ Append(s, e) # <<>> /\ Len(Append(s, e)) = Len(s) + 1
           /\ \A i \in DOMAIN s : i \in DOMAIN Append(s, e) /\ Append(s, e)[i] = s[i]
           /\ Len(s) + 1 \in DOMAIN Append(s, e) /\ Append(s, e)[Len(s) + 1] = e
           /\ \A i \in DOMAIN Append(s, e) : i \in DOMAIN s \/ i = Len(s) + 1
           /\ Tip(Append(s, e)) = e
           /\ s # <<>> => Append(s, e)[1] = s[1]
           /\ s = <<>> => Append(s, e)[1] = e
  <1>1. /\ Len(s) \in Nat /\ DOMAIN s = 1..Len(s)
        /\ Append(s, e) \in Seq(Events) /\ Len(Append(s, e)) = Len(s) + 1
        /\ DOMAIN Append(s, e) = 1..(Len(s) + 1)
        /\ \A i \in 1..Len(s) : Append(s, e)[i] = s[i]
        /\ Append(s, e)[Len(s) + 1] = e /\ Append(s, e) # <<>>
    OBVIOUS
  <1>2. ToSet(Append(s, e)) = ToSet(s) \cup {e}
    BY <1>1 DEF ToSet
  <1>3. s # <<>> => Len(s) >= 1
    BY <1>1
  <1>4. s = <<>> => Len(s) = 0
    OBVIOUS
  <1> QED
    BY <1>1, <1>2, <1>3, <1>4 DEF Tip, Last

\* A request that is taken is on file and in memory; file and memory stay as close.
LEMMA StoredSays ==
    ASSUME IInv, NEW c \in Call, Stored(c)
    PROVE  /\ Code(c) = "ok" /\ ~damaged /\ ~damaged'
           /\ file' \in Seq(Lines) /\ mem' \in Seq(Events) /\ fails' = fails
           /\ Grown(req[c].ev) /\ FileFrom(req[c].ev)
           /\ Follows' /\ Ordered'
           /\ ReadKept /\ (StrayIn(file') \/ req[c].ev \in ToSet(Readable(file')))
  <1> DEFINE e == req[c].ev
  <1>1. /\ e \in Events /\ pc[c] \in Waiting /\ PerCall(c)
        /\ Typed /\ StoreTyped /\ Follows /\ Ordered
    BY TurnWaits DEF Stored, IInv, Typed
  <1>2. /\ Code(c) = "ok" /\ ~damaged /\ file' = Written(e, "whole") /\ mem' = Append(mem, e)
        /\ damaged' = damaged /\ fails' = fails
    BY DEF Stored, Persisted, Code
  <1>3. \A i \in DOMAIN mem : mem[i] # e
    BY <1>1, <1>2, TakenIsNew
  <1>4. InOrder(mem')
    BY <1>1, <1>2, TakenInOrder DEF Ordered
  <1> HIDE DEF e
  <1>5. file' \in Seq(Lines) /\ mem' \in Seq(Events)
    BY <1>1, <1>2, WrittenLines, ToSetAppend DEF StoreTyped
  <1>6. FileFrom(e)
    BY <1>1, <1>2, WrittenEvents DEF FileFrom
  <1>7. mem \in Seq(Events) /\ ToSet(mem') = ToSet(mem) \cup {e}
    BY <1>1, <1>2, ToSetAppend DEF StoreTyped
  <1>8. CASE Whole(file) /\ Readable(file) = mem /\ ReadNext(file', e)
    <2>1. Whole(file') /\ Readable(file') = mem'
      BY <1>2, <1>8 DEF ReadNext
    <2>2. Follows'
      BY <1>2, <2>1 DEF Follows
    <2>3. ~StrayIn(file)
      <3>1. ReadableLen(file) = Len(file) /\ file \in Seq(Lines)
        BY <1>1, <1>8, ReadableLenIs DEF StoreTyped
      <3> QED
        BY <3>1 DEF StrayIn
    <2> QED
      BY <1>2, <1>3, <1>4, <1>5, <1>6, <1>7, <1>8, <2>1, <2>2, <2>3 DEF Ordered, ReadKept, Grown, e
  <1>9. CASE ReadSame(file') /\ StrayIn(file') /\ ~(Whole(file) /\ Readable(file) = mem)
    <2>1. ~Whole(file') /\ Readable(file') = Readable(file)
      BY <1>9 DEF ReadSame
    <2>2. fails # 0
      BY <1>1, <1>2, <1>9 DEF Follows
    <2>3. Follows'
      BY <1>2, <2>1, <2>2 DEF Follows
    <2> QED
      BY <1>1, <1>2, <1>3, <1>4, <1>5, <1>6, <1>9, <2>1, <2>3 DEF Ordered, ReadKept, Grown, e
  <1>10. \/ Whole(file) /\ Readable(file) = mem /\ ReadNext(file', e)
         \/ ReadSame(file') /\ StrayIn(file')
    BY <1>1, <1>2, WrittenReads
  <1>11. CASE ReadSame(file') /\ StrayIn(file') /\ Whole(file) /\ Readable(file) = mem
    BY <1>1, <1>2, <1>11, WrittenNext DEF ReadSame
  <1> QED
    BY <1>8, <1>9, <1>10, <1>11

\* A write that fails leaves the memory, and at most one event more to be read.
LEMMA FailSays ==
    ASSUME IInv, NEW c \in Call, WriteFails(c)
    PROVE  /\ Code(c) = "ok" /\ ~damaged /\ ~damaged' /\ mem' = mem
           /\ file' \in Seq(Lines) /\ fails' \in 1..MaxFails
           /\ FileFrom(req[c].ev)
           /\ Follows' /\ Ordered' /\ ReadKept
  <1> DEFINE e == req[c].ev
  <1>1. /\ e \in Events /\ pc[c] \in Waiting /\ PerCall(c)
        /\ Typed /\ StoreTyped /\ Follows /\ Ordered
    BY TurnWaits DEF WriteFails, IInv, Typed
  <1>2. Code(c) = "ok" /\ ~damaged /\ mem' = mem /\ damaged' = damaged /\ fails' = fails + 1
        /\ fails < MaxFails
    BY DEF WriteFails, Code
  <1>3. InOrder(Append(mem, e))
    BY <1>1, <1>2, TakenInOrder DEF Ordered
  <1> HIDE DEF e
  <1>4. fails' \in 1..MaxFails
    BY <1>1, <1>2, CallsAssumption DEF StoreTyped
  <1>5. fails' # 0
    BY <1>4
  <1>6. CASE file' = file
    <2>1. Follows'
      BY <1>1, <1>2, <1>5, <1>6 DEF Follows
    <2>2. FileFrom(e) /\ ReadKept /\ file' \in Seq(Lines) /\ Ordered'
      BY <1>1, <1>2, <1>6 DEF FileFrom, ReadKept, StoreTyped, Ordered
    <2> QED
      BY <1>2, <1>4, <2>1, <2>2 DEF e
  <1>7. ASSUME NEW end \in {"whole", "torn"}, file' = Written(e, end)
        PROVE  /\ file' \in Seq(Lines) /\ FileFrom(e) /\ Follows' /\ Ordered' /\ ReadKept
    <2>1. file' \in Seq(Lines) /\ FileFrom(e)
      BY <1>1, <1>7, WrittenLines, WrittenEvents DEF FileFrom
    <2>2. CASE Whole(file) /\ Readable(file) = mem /\ ReadNext(file', e)
      <3>1. Whole(file') /\ Readable(file') = Append(mem, e)
        BY <2>2 DEF ReadNext
      <3>2. Follows' /\ Ordered'
        BY <1>1, <1>2, <1>3, <1>5, <3>1 DEF Follows, Ordered
      <3>3. ~StrayIn(file)
        <4>1. ReadableLen(file) = Len(file) /\ file \in Seq(Lines)
          BY <1>1, <2>2, ReadableLenIs DEF StoreTyped
        <4> QED
          BY <4>1 DEF StrayIn
      <3>4. ToSet(Readable(file)) \subseteq ToSet(Readable(file'))
        BY <1>1, <2>2, <3>1, ToSetAppend DEF StoreTyped
      <3> QED
        BY <2>1, <3>2, <3>3, <3>4 DEF ReadKept
    <2>3. CASE ReadSame(file') /\ (StrayIn(file) => StrayIn(file'))
      <3>1. ~Whole(file') /\ Readable(file') = Readable(file)
        BY <2>3 DEF ReadSame
      <3>2. Follows' /\ Ordered' /\ ReadKept
        BY <1>1, <1>2, <1>5, <2>3, <3>1 DEF Follows, Ordered, ReadKept
      <3> QED
        BY <2>1, <3>2
    <2> QED
      BY <1>1, <1>7, <2>2, <2>3, WrittenReads
  <1>8. file' = file \/ \E end \in {"whole", "torn"} : file' = Written(e, end)
    BY DEF WriteFails, e
  <1> QED
    BY <1>2, <1>4, <1>6, <1>7, <1>8 DEF e

\* What a crash leaves on file, loaded: the memory as it was or with the event that was being
\* written, or a file that is damaged.
LEMMA CrashSays ==
    ASSUME IInv, Crash
    PROVE  /\ file' \in Seq(Lines) /\ mem' \in Seq(Events) /\ damaged' \in BOOLEAN
           /\ Follows' /\ Ordered' /\ ReadKept
           /\ \/ damaged'
              \/ mem' = mem
              \/ \E e \in Events : mem' = Append(mem, e)
           /\ damaged => damaged'
           /\ \A i \in DOMAIN mem' : i \in DOMAIN file' /\ mem'[i] = file'[i].ev
           /\ \A i \in DOMAIN file' :
                 \/ i \in DOMAIN file /\ file'[i].ev = file[i].ev
                 \/ \E c \in Call : Turn(c) /\ file'[i].ev = req[c].ev
  <1>1. Typed /\ StoreTyped /\ Follows /\ Ordered /\ file \in Seq(Lines) /\ mem \in Seq(Events)
    BY DEF IInv, Typed, StoreTyped
  <1>2. PICK lines \in Leaves : Loads(lines)
    BY DEF Crash
  <1>3. file' = lines /\ mem' = Readable(lines) /\ damaged' = (ReadableLen(lines) < Len(lines))
        /\ fails' = fails
    BY <1>2 DEF Loads, Crash
  <1>4. ASSUME lines \in Seq(Lines)
        PROVE  /\ mem' \in Seq(Events) /\ damaged' \in BOOLEAN /\ (damaged' <=> ~Whole(file'))
               /\ \A i \in DOMAIN mem' : i \in DOMAIN file' /\ mem'[i] = file'[i].ev
    <2>1. /\ ReadableLen(lines) \in 0..Len(lines) /\ Len(lines) \in Nat
          /\ Whole(lines) <=> ReadableLen(lines) = Len(lines)
      BY <1>4, ReadableLenIs
    <2>2. /\ Readable(lines) \in Seq(Events) /\ Len(Readable(lines)) = ReadableLen(lines)
          /\ \A i \in 1..ReadableLen(lines) : Readable(lines)[i] = lines[i].ev
      BY <1>4, ReadableIs
    <2>3. \A i \in DOMAIN mem' : i \in DOMAIN file' /\ mem'[i] = file'[i].ev
      BY <1>3, <1>4, <2>1, <2>2
    <2>4. ReadableLen(lines) < Len(lines) <=> ~Whole(lines)
      BY <2>1
    <2>5. damaged' \in BOOLEAN
      <3>1. (ReadableLen(lines) < Len(lines)) \in BOOLEAN
        OBVIOUS
      <3> QED
        BY <1>3, <3>1, Zenon
    <2>6. damaged' <=> ~Whole(file')
      BY <1>3, <2>4, Zenon
    <2> QED
      BY <1>3, <2>2, <2>3, <2>5, <2>6
  <1>5. ASSUME lines \in Seq(Lines), InOrder(Readable(lines))
        PROVE  Follows' /\ Ordered'
    BY <1>3, <1>4, <1>5 DEF Follows, Ordered
  <1>6. CASE lines = file
    <2>1. damaged' \/ mem' = mem \/ \E e \in Events : mem' = Append(mem, e)
      BY <1>1, <1>3, <1>4, <1>6 DEF Follows
    <2>2. damaged => damaged'
      BY <1>1, <1>3, <1>4, <1>6 DEF Follows
    <2>3. ReadKept /\ Follows' /\ Ordered'
      BY <1>1, <1>3, <1>5, <1>6 DEF ReadKept, Ordered
    <2> QED
      BY <1>1, <1>3, <1>4, <1>6, <2>1, <2>2, <2>3
  <1>7. CASE lines # file
    <2>1. PICK c \in Call : /\ Turn(c) /\ Code(c) = "ok"
                            /\ \E end \in {"whole", "torn"} : lines = Written(req[c].ev, end)
      <3>1. queue \in Seq(Call)
        BY DEF IInv, Typed, CallsTyped
      <3> QED
        BY <1>2, <1>7, <3>1 DEF Leaves, Turn
    <2> DEFINE e == req[c].ev
    <2>2. PICK end \in {"whole", "torn"} : lines = Written(e, end)
      BY <2>1
    <2>3. e \in Events /\ pc[c] \in Waiting /\ PerCall(c) /\ ~damaged
      BY <2>1, TurnWaits DEF Code
    <2>4. InOrder(Append(mem, e))
      BY <1>1, <2>1, <2>3, TakenInOrder DEF Ordered
    <2> HIDE DEF e
    <2>5. lines \in Seq(Lines)
      BY <1>1, <2>2, <2>3, WrittenLines
    <2>6. \A i \in DOMAIN file' : file'[i].ev = e \/ (i \in DOMAIN file /\ file'[i].ev = file[i].ev)
      BY <1>1, <1>3, <2>2, <2>3, WrittenEvents
    <2>7. CASE Whole(file) /\ Readable(file) = mem /\ ReadNext(lines, e)
      <3>1. Whole(lines) /\ Readable(lines) = Append(mem, e)
        BY <2>7 DEF ReadNext
      <3>2. ~StrayIn(file)
        <4>1. ReadableLen(file) = Len(file)
          BY <1>1, <2>7, ReadableLenIs
        <4> QED
          BY <1>1, <4>1 DEF StrayIn
      <3>3. ReadKept
        BY <1>1, <1>3, <2>3, <2>7, <3>1, <3>2, ToSetAppend DEF ReadKept
      <3>4. Follows' /\ Ordered'
        BY <1>5, <2>4, <2>5, <3>1
      <3> QED
        BY <1>3, <1>4, <2>1, <2>3, <2>5, <2>6, <3>1, <3>3, <3>4 DEF e
    <2>8. CASE ReadSame(lines) /\ (StrayIn(file) => StrayIn(lines))
      <3>1. ~Whole(lines) /\ Readable(lines) = Readable(file)
        BY <2>8 DEF ReadSame
      <3>2. ReadKept /\ damaged'
        BY <1>3, <1>4, <2>5, <2>8, <3>1 DEF ReadKept
      <3>3. Follows' /\ Ordered'
        BY <1>1, <1>5, <2>5, <3>1 DEF Ordered
      <3> QED
        BY <1>3, <1>4, <2>1, <2>5, <2>6, <3>2, <3>3 DEF e
    <2> QED
      BY <1>1, <2>2, <2>3, <2>7, <2>8, WrittenReads
  <1> QED
    BY <1>6, <1>7

-----------------------------------------------------------------------------
(* What a step of a call leaves to the others *)

\* Only c moves.
Alone(c) ==
    /\ pc' \in [Call -> Place] /\ req' \in [Call -> Reqs] /\ gate' \in [Call -> Gate \cup {0}]
    /\ queue' \in Seq(Call)
    /\ \A d \in Call \ {c} : pc'[d] = pc[d] /\ req'[d] = req[d] /\ gate'[d] = gate[d]

\* Only the Run object of c moves, and is open then.
OwnObject(c) ==
    /\ run' \in [Handle -> Runs]
    /\ \A h \in Handle :
          \/ run'[h] = run[h]
          \/ /\ h = call[c].on /\ run'[h].open /\ Opened(h)'
             /\ run[h].open \/ Is(c, "start")

\* The Run object of another call is as it was, or was open and is.
LEMMA OtherObjects ==
    ASSUME IInv, NEW c \in Call, OwnObject(c), NEW d \in Call \ {c}, pc'[d] = pc[d],
           mem # <<>> => mem' # <<>>
    PROVE  Object(d)'
  <1>1. Object(d) /\ call[d].on \in Handle
    BY CallsAssumption DEF IInv, PerCall
  <1>2. \/ run'[call[d].on] = run[call[d].on]
        \/ /\ call[d].on = call[c].on /\ run'[call[d].on].open
           /\ run[call[d].on].open \/ Is(c, "start")
    BY <1>1 DEF OwnObject
  <1>3. ASSUME Is(d, "start"), pc[d] \in {"idle", "starting", "resuming"}
        PROVE  run'[call[d].on] = run[call[d].on]
    <2>1. ~run[call[d].on].open
      BY <1>1, <1>3 DEF Object, On, NoRun
    <2>2. Is(c, "start") /\ call[c].on = call[d].on => c = d
      BY <1>3, CallsAssumption DEF Is
    <2> QED
      BY <1>2, <2>1, <2>2
  <1> QED
    BY <1>1, <1>2, <1>3 DEF Object, On, Is

\* A head that was is a head that was.
LEMMA PastKept ==
    ASSUME mem \in Seq(Events), NEW head, Past(head),
           mem' = mem \/ \E e \in Events : mem' = Append(mem, e)
    PROVE  Past(head)'
  <1>1. CASE mem' = mem
    BY <1>1 DEF Past
  <1>2. ASSUME NEW e \in Events, mem' = Append(mem, e) PROVE Past(head)'
    <2>1. \A i \in DOMAIN mem : i \in DOMAIN mem' /\ mem'[i] = mem[i]
      BY <1>2, ToSetAppend
    <2> QED
      BY <2>1 DEF Past
  <1> QED
    BY <1>1, <1>2

\* What the memory has it keeps.
LEMMA HasKept ==
    ASSUME mem \in Seq(Events), NEW type, NEW of, Has(type, of),
           mem' = mem \/ \E e \in Events : mem' = Append(mem, e)
    PROVE  Has(type, of)'
  <1>1. CASE mem' = mem
    BY <1>1 DEF Has
  <1>2. ASSUME NEW e \in Events, mem' = Append(mem, e) PROVE Has(type, of)'
    <2>1. \A i \in DOMAIN mem : i \in DOMAIN mem' /\ mem'[i] = mem[i]
      BY <1>2, ToSetAppend
    <2> QED
      BY <2>1 DEF Has
  <1> QED
    BY <1>1, <1>2

\* Opened Run objects stay so, however the memory grows.
LEMMA OpenedKept ==
    ASSUME IInv, NEW h \in Handle, run'[h] = run[h],
           mem' = mem \/ \E e \in Events : mem' = Append(mem, e)
    PROVE  Opened(h)'
  <1>1. mem \in Seq(Events) /\ Opened(h)
    BY DEF IInv, Typed, StoreTyped
  <1>2. mem # <<>> => mem' # <<>>
    BY <1>1, ToSetAppend
  <1>3. Past(run[h].head)'
    BY <1>1, PastKept DEF Opened
  <1> QED
    BY <1>1, <1>2, <1>3 DEF Opened, Past

\* A call that does not move stays as it was, when the memory and the file get at most
\* an event that is not its own and not in the memory.
LEMMA OthersKept ==
    ASSUME IInv, NEW d \in Call, pc'[d] = pc[d], req'[d] = req[d], gate'[d] = gate[d],
           Object(d)', damaged' = damaged,
           \/ mem' = mem /\ file' = file
           \/ \E e \in Events : e.by # d /\ FileFrom(e) /\ (mem' = mem \/ Grown(e))
    PROVE  PerCall(d)'
  <1>1. mem \in Seq(Events) /\ PerCall(d)
    BY DEF IInv, Typed, StoreTyped
  <1>2. mem' = mem \/ \E e \in Events : mem' = Append(mem, e)
    BY DEF Grown
  <1>3. AtGate(d)'
    BY <1>1 DEF PerCall, AtGate
  <1>4. Fresh(d)'
    <2>1. CASE mem' = mem /\ file' = file
      BY <1>1, <2>1 DEF PerCall, Fresh, Bound
    <2>2. ASSUME NEW e \in Events, e.by # d, FileFrom(e), mem' = mem \/ Grown(e)
          PROVE  Fresh(d)'
      <3>1. \A i \in DOMAIN mem' : mem'[i] = e \/ (i \in DOMAIN mem /\ mem'[i] = mem[i])
        BY <1>1, <2>2, ToSetAppend DEF Grown
      <3>2. \A i \in DOMAIN mem' : mem'[i].by = d => Bound(d, mem'[i])
        BY <1>1, <2>2, <3>1 DEF PerCall, Fresh
      <3>3. \A i \in DOMAIN file' : file'[i].ev.by = d => Bound(d, file'[i].ev)
        BY <1>1, <2>2 DEF PerCall, Fresh, FileFrom
      <3> QED
        BY <3>2, <3>3 DEF Fresh, Bound
    <2> QED
      BY <2>1, <2>2
  <1>5. Keeps(d)'
    <2>1. mem # <<>> => mem' # <<>> /\ mem'[1] = mem[1]
      BY <1>1, <1>2, ToSetAppend
    <2> QED
      BY <1>1, <2>1 DEF PerCall, Keeps
  <1>6. ASSUME pc[d] \in Waiting PROVE Fits(d)'
    <2>1. Fits(d)
      BY <1>1, <1>6 DEF PerCall
    <2>2. Past(req[d].expected)'
      BY <1>1, <1>2, <2>1, PastKept DEF Fits
    <2>3. pc[d] = "approving" => Has("APPROVAL_REQUESTED", op(d))'
      BY <1>1, <1>2, <2>1, HasKept DEF Fits, Has, op
    <2>4. ASSUME pc[d] = "deciding", req[d].expected = Tip(mem') PROVE Stands(mem', req[d].ev)
      <3>1. CASE mem' = mem
        BY <2>1, <2>4, <3>1 DEF Fits
      <3>2. ASSUME NEW e \in Events, Grown(e) PROVE FALSE
        <4>1. Tip(mem') = e /\ e # None
          BY <1>1, <3>2, ToSetAppend, EventTyped DEF Grown
        <4>2. req[d].expected = None \/ \E i \in DOMAIN mem : mem[i] = req[d].expected
          BY <2>1 DEF Fits, Past
        <4> QED
          BY <2>4, <3>2, <4>1, <4>2 DEF Grown
      <3> QED
        BY <3>1, <3>2
    <2>5. \E val \in Results : req'[d].ev = Event(d, TypeAt[pc'[d]], OfAt(d)', val)
      BY <2>1 DEF Fits, OfAt
    <2> QED
      BY <2>1, <2>2, <2>3, <2>4, <2>5 DEF Fits, Past, Has
  <1> QED
    BY <1>1, <1>3, <1>4, <1>5, <1>6 DEF PerCall

-----------------------------------------------------------------------------
(* The queue *)

\* Without its head a queue of distinct calls has the others.
LEMMA TailIs ==
    ASSUME NEW s \in Seq(Call), s # <<>>, \A i, j \in DOMAIN s : s[i] = s[j] => i = j
    PROVE  /\ Tail(s) \in Seq(Call)
           /\ \A i, j \in DOMAIN Tail(s) : Tail(s)[i] = Tail(s)[j] => i = j
           /\ ToSet(Tail(s)) = ToSet(s) \ {s[1]}
  <1>1. /\ Tail(s) \in Seq(Call) /\ Len(s) \in Nat /\ Len(s) >= 1 /\ DOMAIN s = 1..Len(s)
        /\ DOMAIN Tail(s) = 1..(Len(s) - 1)
        /\ \A i \in 1..(Len(s) - 1) : Tail(s)[i] = s[i + 1]
    OBVIOUS
  <1>2. \A i, j \in DOMAIN Tail(s) : Tail(s)[i] = Tail(s)[j] => i = j
    <2> SUFFICES ASSUME NEW i \in 1..(Len(s) - 1), NEW j \in 1..(Len(s) - 1), s[i + 1] = s[j + 1]
                 PROVE  i = j
      BY <1>1
    <2>1. i + 1 \in DOMAIN s /\ j + 1 \in DOMAIN s
      BY <1>1
    <2>2. i + 1 = j + 1
      BY <2>1
    <2> QED
      BY <2>2
  <1>3. ASSUME NEW x \in ToSet(Tail(s)) PROVE x \in ToSet(s) \ {s[1]}
    <2>1. PICK i \in 1..(Len(s) - 1) : x = s[i + 1]
      BY <1>1, <1>3 DEF ToSet
    <2>2. i + 1 \in DOMAIN s /\ 1 \in DOMAIN s /\ i + 1 # 1
      BY <1>1
    <2> QED
      BY <2>1, <2>2 DEF ToSet
  <1>4. ASSUME NEW x \in ToSet(s), x # s[1] PROVE x \in ToSet(Tail(s))
    <2>1. PICK i \in 1..Len(s) : x = s[i]
      BY <1>1, <1>4 DEF ToSet
    <2>2. i - 1 \in 1..(Len(s) - 1) /\ Tail(s)[i - 1] = s[i]
      BY <1>1, <1>4, <2>1
    <2> QED
      BY <1>1, <2>1, <2>2 DEF ToSet
  <1>5. ToSet(Tail(s)) = ToSet(s) \ {s[1]}
    BY <1>3, <1>4
  <1> QED
    BY <1>1, <1>2, <1>5

\* A call that is not in the queue can be added to it.
LEMMA AddedIs ==
    ASSUME NEW s \in Seq(Call), NEW c \in Call, c \notin ToSet(s),
           \A i, j \in DOMAIN s : s[i] = s[j] => i = j
    PROVE  /\ Append(s, c) \in Seq(Call)
           /\ \A i, j \in DOMAIN Append(s, c) : Append(s, c)[i] = Append(s, c)[j] => i = j
           /\ ToSet(Append(s, c)) = ToSet(s) \cup {c}
  <1>1. /\ Append(s, c) \in Seq(Call) /\ Len(s) \in Nat /\ DOMAIN s = 1..Len(s)
        /\ DOMAIN Append(s, c) = 1..(Len(s) + 1)
        /\ \A i \in 1..Len(s) : Append(s, c)[i] = s[i]
        /\ Append(s, c)[Len(s) + 1] = c
    OBVIOUS
  <1>2. \A i \in 1..Len(s) : s[i] # c
    BY <1>1 DEF ToSet
  <1>3. \A i, j \in DOMAIN Append(s, c) : Append(s, c)[i] = Append(s, c)[j] => i = j
    <2> SUFFICES ASSUME NEW i \in 1..(Len(s) + 1), NEW j \in 1..(Len(s) + 1),
                        Append(s, c)[i] = Append(s, c)[j]
                 PROVE  i = j
      BY <1>1
    <2>1. (i = Len(s) + 1 \/ i \in 1..Len(s)) /\ (j = Len(s) + 1 \/ j \in 1..Len(s))
      BY <1>1
    <2> QED
      BY <1>1, <1>2, <2>1
  <1>4. ToSet(Append(s, c)) = ToSet(s) \cup {c}
    BY <1>1 DEF ToSet
  <1> QED
    BY <1>1, <1>3, <1>4

\* The queue as a set of distinct calls.
LEMMA QueueIs ==
    ASSUME queue \in Seq(Call)
    PROVE  Queued <=> /\ \A d \in ToSet(queue) : pc[d] \in Waiting
                      /\ \A i, j \in DOMAIN queue : queue[i] = queue[j] => i = j
                      /\ refreshing \subseteq ToSet(queue)
                      /\ \A d \in refreshing : pc[d] # "starting"
  BY DEF Queued, ToSet

\* The queue of the calls other than c: c does not wait, or it is its turn.
Without(c, base) ==
    \/ base = queue /\ pc[c] \notin Waiting
    \/ base = Tail(queue) /\ Turn(c)

\* It is a queue, without c.
LEMMA WithoutIs ==
    ASSUME IInv, NEW c \in Call, NEW base, Without(c, base)
    PROVE  /\ base \in Seq(Call) /\ c \notin ToSet(base)
           /\ \A i, j \in DOMAIN base : base[i] = base[j] => i = j
           /\ \A d \in ToSet(base) : pc[d] \in Waiting
           /\ refreshing \subseteq ToSet(base) \cup {c}
           /\ \A d \in refreshing : pc[d] # "starting"
  <1>1. /\ queue \in Seq(Call)
        /\ \A d \in ToSet(queue) : pc[d] \in Waiting
        /\ \A i, j \in DOMAIN queue : queue[i] = queue[j] => i = j
        /\ refreshing \subseteq ToSet(queue)
        /\ \A d \in refreshing : pc[d] # "starting"
    <2>1. queue \in Seq(Call) /\ Queued
      BY DEF IInv, Typed, CallsTyped
    <2> QED
      BY <2>1, QueueIs, Zenon
  <1>2. CASE base = queue /\ pc[c] \notin Waiting
    BY <1>1, <1>2
  <1>3. CASE base = Tail(queue) /\ Turn(c)
    <2>1. queue # <<>> /\ queue[1] = c
      BY <1>1, <1>3 DEF Turn
    <2> QED
      BY <1>1, <1>3, <2>1, TailIs
  <1> QED
    BY <1>2, <1>3 DEF Without

\* c leaves the queue, or goes to its end with a request.
LEMMA QueueKept ==
    ASSUME IInv, NEW c \in Call, Alone(c), NEW base, Without(c, base),
           refreshing' \subseteq refreshing \cup {c},
           \/ queue' = base /\ c \notin refreshing'
           \/ /\ queue' = Append(base, c) /\ pc'[c] \in Waiting
              /\ c \in refreshing' => pc'[c] # "starting"
    PROVE  Queued'
  <1>1. /\ base \in Seq(Call) /\ c \notin ToSet(base)
        /\ \A i, j \in DOMAIN base : base[i] = base[j] => i = j
        /\ \A d \in ToSet(base) : pc[d] \in Waiting
        /\ refreshing \subseteq ToSet(base) \cup {c}
        /\ \A d \in refreshing : pc[d] # "starting"
    BY WithoutIs
  <1>2. ToSet(base) \subseteq Call
    BY <1>1 DEF ToSet
  <1>3. \A d \in ToSet(base) : pc'[d] \in Waiting
    BY <1>1, <1>2 DEF Alone
  <1>4. \A d \in refreshing' : d # c => pc'[d] # "starting"
    BY <1>1, <1>2 DEF Alone
  <1>5. CASE queue' = base /\ c \notin refreshing'
    BY <1>1, <1>3, <1>4, <1>5 DEF Queued, ToSet
  <1>6. CASE /\ queue' = Append(base, c) /\ pc'[c] \in Waiting
             /\ c \in refreshing' => pc'[c] # "starting"
    <2>1. /\ \A i, j \in DOMAIN queue' : queue'[i] = queue'[j] => i = j
          /\ ToSet(queue') = ToSet(base) \cup {c}
      BY <1>1, <1>6, AddedIs
    <2>2. \A d \in ToSet(queue') : pc'[d] \in Waiting
      BY <1>3, <1>6, <2>1
    <2>3. \A i \in DOMAIN queue' : queue'[i] \in ToSet(queue')
      BY DEF ToSet
    <2>4. refreshing' \subseteq ToSet(queue') /\ \A d \in refreshing' : pc'[d] # "starting"
      BY <1>1, <1>4, <1>6, <2>1
    <2> QED
      BY <2>1, <2>2, <2>3, <2>4 DEF Queued
  <1> QED
    BY <1>5, <1>6

-----------------------------------------------------------------------------
(* Kinds of steps *)

\* The other calls and the Run objects, when c moves and the log gets an event of c at most.
LEMMA OthersStay ==
    ASSUME IInv, NEW c \in Call, Alone(c), OwnObject(c), damaged' = damaged,
           \/ mem' = mem /\ file' = file
           \/ \E e \in Events : e.by = c /\ FileFrom(e) /\ (mem' = mem \/ Grown(e))
    PROVE  /\ \A d \in Call \ {c} : PerCall(d)'
           /\ \A h \in Handle : Opened(h)'
  <1>1. mem \in Seq(Events) /\ (mem' = mem \/ \E e \in Events : mem' = Append(mem, e))
    BY DEF IInv, Typed, StoreTyped, Grown
  <1>2. mem # <<>> => mem' # <<>>
    BY <1>1, ToSetAppend
  <1>3. ASSUME NEW d \in Call \ {c} PROVE PerCall(d)'
    <2>1. pc'[d] = pc[d] /\ req'[d] = req[d] /\ gate'[d] = gate[d]
      BY <1>3 DEF Alone
    <2>2. Object(d)'
      BY <1>2, <1>3, <2>1, OtherObjects
    <2> QED
      BY <1>3, <2>1, <2>2, OthersKept
  <1>4. ASSUME NEW h \in Handle PROVE Opened(h)'
    <2>1. CASE run'[h] = run[h]
      BY <1>1, <2>1, OpenedKept
    <2>2. CASE run'[h] # run[h]
      BY <2>2 DEF OwnObject
    <2> QED
      BY <2>1, <2>2
  <1> QED
    BY <1>3, <1>4

\* A step of c that leaves the log and the effects alone.
Local(c) ==
    /\ Alone(c) /\ OwnObject(c)
    /\ UNCHANGED <<file, mem, damaged, fails, crashes, acked, performed, released>>

\* Such a step keeps the invariant when it keeps the queue and what is said of c.
LEMMA LocalKeeps ==
    ASSUME IInv, NEW c \in Call, Local(c), Queued', PerCall(c)'
    PROVE  IInv'
  <1>1. Alone(c) /\ OwnObject(c)
        /\ UNCHANGED <<file, mem, damaged, fails, crashes, acked, performed, released>>
    BY DEF Local
  <1>2. \A d \in Call : PerCall(d)'
    <2> SUFFICES ASSUME NEW d \in Call PROVE PerCall(d)'
      OBVIOUS
    <2>1. CASE d = c
      BY <2>1
    <2>2. CASE d # c
      BY <1>1, <2>2, OthersStay
    <2> QED
      BY <2>1, <2>2
  <1>3. \A h \in Handle : Opened(h)'
    BY <1>1, OthersStay
  <1>4. StoreTyped'
    <2>1. StoreTyped
      BY DEF IInv, Typed
    <2>2. file' = file /\ mem' = mem /\ damaged' = damaged /\ fails' = fails /\ crashes' = crashes
      BY <1>1
    <2>3. damaged' \in BOOLEAN
      BY <2>1, <2>2, Zenon DEF StoreTyped
    <2> QED
      BY <2>1, <2>2, <2>3, Zenon DEF StoreTyped
  <1>5. CallsTyped' /\ HostTyped' /\ run' \in [Handle -> Runs]
    BY <1>1 DEF IInv, Typed, CallsTyped, HostTyped, Alone, OwnObject
  <1>6. Follows'
    BY <1>1 DEF IInv, Follows
  <1>7. Ordered'
    BY <1>1 DEF IInv, Ordered
  <1>8. OnceOnly(performed, "ACTION_STARTED")' /\ OnceOnly(released, "OUTPUT_DECIDED")'
    BY <1>1 DEF IInv, OnceOnly, Has
  <1>9. AckedIsReadable'
    BY <1>1 DEF IInv, AckedIsReadable, Astray
  <1> QED
    BY <1>2, <1>3, <1>4, <1>5, <1>6, <1>7, <1>8, <1>9, Zenon DEF IInv, Typed

\* The count of an effect follows its record: it is had when that is stored.
LEMMA CountsOnce ==
    ASSUME IInv, NEW c \in Call, pc[c] \in Waiting,
           NEW type \in {"ACTION_STARTED", "OUTPUT_DECIDED"}, Code(c) = "ok", Grown(req[c].ev), NEW count, NEW new,
           count \in [Op -> Nat],
           \A o \in Op : count[o] <= 1 /\ (count[o] > 0 => damaged \/ Has(type, o)),
           \/ new = count
           \/ new = [count EXCEPT ![op(c)] = @ + 1] /\ TypeAt[pc[c]] = type /\ OfAt(c) = op(c)
    PROVE  /\ new \in [Op -> Nat]
           /\ \A o \in Op : new[o] <= 1 /\ (new[o] > 0 => Has(type, o)')
           /\ \A o \in Op : new[o] > 0 =>
                 count[o] > 0 \/ (req[c].ev.type = type /\ req[c].ev.of = o)
  <1> DEFINE e == req[c].ev
  <1>1. /\ mem \in Seq(Events) /\ mem' = Append(mem, e) /\ e \in Events
        /\ e.type = TypeAt[pc[c]] /\ e.of = OfAt(c) /\ op(c) \in Op
    BY AskedIs, PolicyAssumption DEF IInv, Typed, StoreTyped, PerCall, Grown, op
  <1>2. ~damaged /\ ~Duplicate(e)
    BY DEF Code
  <1> HIDE DEF e
  <1>3. \A o \in Op : Has(type, o) => Has(type, o)'
    BY <1>1, HasKept
  <1>4. CASE new = count
    BY <1>2, <1>3, <1>4
  <1>5. CASE new = [count EXCEPT ![op(c)] = @ + 1] /\ TypeAt[pc[c]] = type /\ OfAt(c) = op(c)
    <2>1. e.type = type /\ e.of = op(c) /\ type \in Keyed
      BY <1>1, <1>5 DEF Keyed
    <2>2. ~Has(type, op(c))
      BY <1>2, <2>1 DEF Duplicate
    <2>3. count[op(c)] = 0
      BY <1>1, <1>2, <2>2
    <2>4. new \in [Op -> Nat] /\ new[op(c)] = 1 /\ \A o \in Op : o # op(c) => new[o] = count[o]
      BY <1>1, <1>5, <2>3
    <2>5. Has(type, op(c))'
      <3>1. Len(mem) + 1 \in DOMAIN mem' /\ mem'[Len(mem) + 1] = e
        BY <1>1, ToSetAppend
      <3> QED
        BY <2>1, <3>1 DEF Has
    <2>6. ASSUME NEW o \in Op PROVE new[o] <= 1 /\ (new[o] > 0 => Has(type, o)')
      <3>1. CASE o = op(c)
        BY <2>4, <2>5, <3>1
      <3>2. CASE o # op(c)
        BY <1>2, <1>3, <2>4, <3>2
      <3> QED
        BY <3>1, <3>2
    <2> QED
      BY <2>1, <2>4, <2>6 DEF e
  <1> QED
    BY <1>4, <1>5

\* A step of c whose request the store takes.
Takes(c) ==
    /\ Stored(c) /\ Alone(c) /\ OwnObject(c)
    /\ acked' = acked \cup {req[c].ev}
    /\ crashes' = crashes
    /\ \/ performed' = performed
       \/ performed' = [performed EXCEPT ![op(c)] = @ + 1] /\ pc[c] = "intent"
    /\ \/ released' = released
       \/ released' = [released EXCEPT ![op(c)] = @ + 1] /\ pc[c] = "releasing"

\* What is taken is new, in order, and on record before its effect is had.
LEMMA TakesKeeps ==
    ASSUME IInv, NEW c \in Call, Takes(c), Queued', PerCall(c)'
    PROVE  IInv'
  <1> DEFINE e == req[c].ev
  <1>1. /\ pc[c] \in Waiting /\ PerCall(c) /\ Fits(c) /\ AtGate(c) /\ e \in Events /\ e.by = c
        /\ Code(c) = "ok" /\ ~damaged /\ ~damaged' /\ damaged' = damaged
        /\ file' \in Seq(Lines) /\ mem' \in Seq(Events) /\ fails' = fails
        /\ Grown(e) /\ FileFrom(e) /\ Follows' /\ Ordered'
        /\ ReadKept /\ (StrayIn(file') \/ e \in ToSet(Readable(file')))
    BY TurnWaits, StoredSays DEF Takes, Stored, Persisted
  <1>2. /\ Alone(c) /\ OwnObject(c) /\ acked' = acked \cup {e} /\ crashes' = crashes
        /\ Typed /\ HostTyped /\ AckedIsReadable
        /\ OnceOnly(performed, "ACTION_STARTED") /\ OnceOnly(released, "OUTPUT_DECIDED")
    BY DEF Takes, IInv, Typed
  <1>3. \A d \in Call : PerCall(d)'
    <2> SUFFICES ASSUME NEW d \in Call PROVE PerCall(d)'
      OBVIOUS
    <2> HIDE DEF e
    <2>1. CASE d = c
      BY <2>1
    <2>2. CASE d # c
      BY <1>1, <1>2, <2>2, OthersStay
    <2> QED
      BY <2>1, <2>2
  <1>4. \A h \in Handle : Opened(h)'
    <2> HIDE DEF e
    <2> QED
      BY <1>1, <1>2, OthersStay
  <1>5. StoreTyped'
    <2>1. fails \in 0..MaxFails /\ crashes \in 0..MaxCrashes
      BY <1>2 DEF Typed, StoreTyped
    <2>2. damaged' \in BOOLEAN
      BY <1>1, <1>2, Zenon DEF Typed, StoreTyped
    <2> QED
      BY <1>1, <1>2, <2>1, <2>2, Zenon DEF StoreTyped
  <1>6. CallsTyped' /\ run' \in [Handle -> Runs]
    BY <1>2 DEF CallsTyped, Alone, OwnObject
  <1>7. /\ performed' \in [Op -> Nat]
        /\ \A o \in Op : performed'[o] <= 1 /\ (performed'[o] > 0 => Has("ACTION_STARTED", o)')
        /\ \A o \in Op : performed'[o] > 0 =>
              performed[o] > 0 \/ (e.type = "ACTION_STARTED" /\ e.of = o)
    <2>1. \/ performed' = performed
          \/ /\ performed' = [performed EXCEPT ![op(c)] = @ + 1]
             /\ TypeAt[pc[c]] = "ACTION_STARTED" /\ OfAt(c) = op(c)
      BY DEF Takes, TypeAt, OfAt
    <2>2. /\ performed \in [Op -> Nat]
          /\ \A o \in Op : performed[o] <= 1 /\ (performed[o] > 0 => damaged \/ Has("ACTION_STARTED", o))
      BY <1>2 DEF HostTyped, OnceOnly
    <2> QED
      BY <1>1, <2>1, <2>2, CountsOnce
  <1>8. /\ released' \in [Op -> Nat]
        /\ \A o \in Op : released'[o] <= 1 /\ (released'[o] > 0 => Has("OUTPUT_DECIDED", o)')
    <2>1. \/ released' = released
          \/ /\ released' = [released EXCEPT ![op(c)] = @ + 1]
             /\ TypeAt[pc[c]] = "OUTPUT_DECIDED" /\ OfAt(c) = op(c)
      BY DEF Takes, TypeAt, OfAt
    <2>2. /\ released \in [Op -> Nat]
          /\ \A o \in Op : released[o] <= 1 /\ (released[o] > 0 => damaged \/ Has("OUTPUT_DECIDED", o))
      BY <1>2 DEF HostTyped, OnceOnly
    <2> QED
      BY <1>1, <2>1, <2>2, CountsOnce
  <1>9. OnceOnly(performed, "ACTION_STARTED")' /\ OnceOnly(released, "OUTPUT_DECIDED")'
    BY <1>7, <1>8 DEF OnceOnly, Has
  <1>10. AckedIsReadable'
    <2> HIDE DEF e
    <2>1. ~Astray' => acked' \subseteq ToSet(Readable(file'))
      BY <1>1, <1>2 DEF AckedIsReadable, Astray, StrayIn, ReadKept
    <2>2. ASSUME NEW o \in Op, performed'[o] > 0
          PROVE  \E x \in acked' : x.type = "ACTION_STARTED" /\ x.of = o
      BY <1>2, <1>7, <2>2 DEF AckedIsReadable
    <2> QED
      BY <2>1, <2>2 DEF AckedIsReadable, Astray
  <1> QED
    BY <1>1, <1>3, <1>4, <1>5, <1>6, <1>7, <1>8, <1>9, <1>10, Zenon DEF IInv, Typed, HostTyped

\* A step of c whose request the store cannot write.
Loses(c) ==
    /\ WriteFails(c) /\ Alone(c) /\ OwnObject(c)
    /\ UNCHANGED <<acked, crashes, performed, released>>

\* What cannot be written is not acknowledged, and spoils nothing that can be read.
LEMMA LosesKeeps ==
    ASSUME IInv, NEW c \in Call, Loses(c), Queued', PerCall(c)'
    PROVE  IInv'
  <1> DEFINE e == req[c].ev
  <1>1. /\ e \in Events /\ e.by = c /\ ~damaged /\ ~damaged' /\ mem' = mem /\ damaged' = damaged
        /\ file' \in Seq(Lines) /\ fails' \in 1..MaxFails
        /\ FileFrom(e) /\ Follows' /\ Ordered' /\ ReadKept
    BY TurnWaits, FailSays DEF Loses, WriteFails
  <1>2. /\ Alone(c) /\ OwnObject(c) /\ UNCHANGED <<acked, crashes, performed, released>>
        /\ Typed /\ AckedIsReadable
        /\ OnceOnly(performed, "ACTION_STARTED") /\ OnceOnly(released, "OUTPUT_DECIDED")
    BY DEF Loses, IInv
  <1> HIDE DEF e
  <1>3. \A d \in Call : PerCall(d)'
    <2> SUFFICES ASSUME NEW d \in Call PROVE PerCall(d)'
      OBVIOUS
    <2>1. CASE d = c
      BY <2>1
    <2>2. CASE d # c
      BY <1>1, <1>2, <2>2, OthersStay
    <2> QED
      BY <2>1, <2>2
  <1>4. \A h \in Handle : Opened(h)'
    BY <1>1, <1>2, OthersStay
  <1>5. StoreTyped'
    <2>1. mem' \in Seq(Events) /\ crashes' \in 0..MaxCrashes
      BY <1>1, <1>2 DEF Typed, StoreTyped
    <2>2. damaged' \in BOOLEAN
      BY <1>1, <1>2, Zenon DEF Typed, StoreTyped
    <2>3. fails' \in 0..MaxFails
      BY <1>1
    <2> QED
      BY <1>1, <2>1, <2>2, <2>3, Zenon DEF StoreTyped
  <1>6. CallsTyped' /\ HostTyped' /\ run' \in [Handle -> Runs]
    BY <1>2 DEF Typed, HostTyped, CallsTyped, Alone, OwnObject
  <1>7. OnceOnly(performed, "ACTION_STARTED")' /\ OnceOnly(released, "OUTPUT_DECIDED")'
    BY <1>1, <1>2 DEF OnceOnly, Has
  <1>8. AckedIsReadable'
    BY <1>1, <1>2 DEF AckedIsReadable, Astray, StrayIn, ReadKept
  <1> QED
    BY <1>1, <1>3, <1>4, <1>5, <1>6, <1>7, <1>8, Zenon DEF IInv, Typed

-----------------------------------------------------------------------------
(* What a step leaves of its own call *)

\* A call that moves on without an append has appended no more than it had.
LEMMA FreshKept ==
    ASSUME IInv, NEW c \in Call, mem' = mem, file' = file, gate'[c] \in Gate \cup {0},
           \/ /\ gate'[c] = gate[c] /\ pc'[c] # "checkStart"
              /\ pc'[c] \in {"gate", "checkFinish"} => pc[c] = "gate"
           \/ gate'[c] > gate[c],
           pc'[c] # "idle", pc'[c] = "recording" => pc[c] = "idle"
    PROVE  Fresh(c)'
  <1>1. gate[c] \in Gate \cup {0} /\ Fresh(c)
    BY DEF IInv, Typed, CallsTyped, PerCall
  <1>2. gate[c] \in Nat /\ gate'[c] \in Nat /\ \A g \in Gate : g \in Nat
    BY <1>1, GateNumbers
  <1>3. ASSUME NEW e, Bound(c, e) PROVE Bound(c, e)'
    <2>1. e.type = "app" => pc'[c] \notin {"idle", "recording"}
      BY <1>3 DEF Bound
    <2>2. CASE /\ gate'[c] = gate[c] /\ pc'[c] # "checkStart"
               /\ pc'[c] \in {"gate", "checkFinish"} => pc[c] = "gate"
      BY <1>3, <2>1, <2>2 DEF Bound
    <2>3. CASE gate'[c] > gate[c]
      BY <1>2, <1>3, <2>1, <2>3 DEF Bound
    <2> QED
      BY <2>2, <2>3
  <1> QED
    BY <1>1, <1>3 DEF Fresh, Bound

\* A call whose event was written has moved on from the step that asked for it.
LEMMA FreshAfter ==
    ASSUME IInv, NEW c \in Call, Turn(c), FileFrom(req[c].ev),
           mem' = mem \/ Grown(req[c].ev), gate'[c] = gate[c],
           pc'[c] \notin {"idle", "recording", "checkStart", "checkFinish"},
           pc'[c] = "gate" => pc[c] = "checkStart"
    PROVE  Fresh(c)'
  <1> DEFINE Later(x) ==
               /\ x.type = "app" => pc'[c] \notin {"idle", "recording"}
               /\ x.type = "CHECK_STARTED" =>
                     x.of \in Gate /\ x.of <= gate'[c] /\ (x.of = gate'[c] => pc'[c] # "checkStart")
               /\ x.type = "CHECK_FINISHED" =>
                     /\ x.of \in Gate /\ x.of <= gate'[c]
                     /\ x.of = gate'[c] => pc'[c] \notin {"checkStart", "gate", "checkFinish"}
  <1>0. PICK e : e = req[c].ev
    OBVIOUS
  <1>1. /\ pc[c] \in Waiting /\ Fresh(c) /\ e \in Events /\ mem \in Seq(Events)
        /\ e.type = TypeAt[pc[c]] /\ e.of = OfAt(c) /\ AtGate(c) /\ gate[c] \in Gate \cup {0}
    BY <1>0, TurnWaits, AskedIs DEF IInv, Typed, StoreTyped, CallsTyped, PerCall
  <1>2. gate[c] \in Nat /\ \A g \in Gate : g \in Nat
    BY <1>1, GateNumbers
  <1>3. ASSUME NEW x, Bound(c, x) PROVE Later(x)
    BY <1>3 DEF Bound
  <1>4. Later(e)
    <2>1. e.type = "CHECK_STARTED" => pc[c] = "checkStart" /\ e.of = gate[c] /\ gate[c] \in Gate
      BY <1>1, TypeTells DEF OfAt, AtGate
    <2>2. e.type = "CHECK_FINISHED" => pc[c] = "checkFinish" /\ e.of = gate[c] /\ gate[c] \in Gate
      BY <1>1, TypeTells DEF OfAt, AtGate
    <2> QED
      BY <1>2, <2>1, <2>2
  <1> HIDE DEF Later
  <1>5. \A i \in DOMAIN mem' : mem'[i] = e \/ (i \in DOMAIN mem /\ mem'[i] = mem[i])
    BY <1>0, <1>1, ToSetAppend DEF Grown
  <1>6. ASSUME NEW i \in DOMAIN mem', mem'[i].by = c PROVE Later(mem'[i])
    <2>1. CASE mem'[i] = e
      BY <1>4, <2>1
    <2>2. CASE i \in DOMAIN mem /\ mem'[i] = mem[i]
      <3>1. Bound(c, mem[i])
        BY <1>1, <1>6, <2>2 DEF Fresh
      <3> QED
        BY <1>3, <2>2, <3>1
    <2> QED
      BY <1>5, <2>1, <2>2
  <1>7. ASSUME NEW i \in DOMAIN file', file'[i].ev.by = c PROVE Later(file'[i].ev)
    <2>1. CASE file'[i].ev = e
      BY <1>4, <2>1
    <2>2. CASE i \in DOMAIN file /\ file'[i].ev = file[i].ev
      <3>1. Bound(c, file[i].ev)
        BY <1>1, <1>7, <2>2 DEF Fresh
      <3> QED
        BY <1>3, <2>2, <3>1
    <2> QED
      BY <1>0, <2>1, <2>2 DEF FileFrom
  <1> QED
    BY <1>6, <1>7 DEF Fresh, Bound, Later

\* A call that is over, other than by a start that returned.
LEMMA OverIs ==
    ASSUME NEW c \in Call, pc'[c] \in Over \ {"started", "resumed"}, Fresh(c)'
    PROVE  PerCall(c)'
  BY DEF PerCall, AtGate, Keeps, Object, Over, Waiting, Active

\* A call that is under way and has no request.
LEMMA UnderWayIs ==
    ASSUME NEW c \in Call, pc'[c] \in {"gate", "proposed", "perform", "deliver"}, Fresh(c)',
           run'[call[c].on].open, pc'[c] = "gate" => gate'[c] \in Gate
    PROVE  PerCall(c)'
  <1>1. AtGate(c)' /\ Keeps(c)'
    BY DEF AtGate, Keeps
  <1>2. Object(c)'
    BY DEF Object, On
  <1> QED
    BY <1>1, <1>2 DEF PerCall, Waiting

\* A call that has asked for an append to what its Run object is at.
LEMMA AskingIs ==
    ASSUME NEW c \in Call, pc'[c] \in Waiting \ {"starting"}, Fresh(c)',
           run'[call[c].on].open, Fits(c)',
           pc'[c] \in {"checkStart", "checkFinish"} => gate'[c] \in Gate
    PROVE  PerCall(c)'
  <1>1. AtGate(c)' /\ Keeps(c)'
    BY DEF AtGate, Keeps, Waiting
  <1>2. Object(c)'
    BY DEF Object, On, Waiting
  <1> QED
    BY <1>1, <1>2 DEF PerCall

-----------------------------------------------------------------------------
(* Steps that begin or go on *)

\* c moves to a step and nothing else is of another call.
LEMMA MovesAlone ==
    ASSUME IInv, NEW c \in Call, NEW step \in Place, pc' = [pc EXCEPT ![c] = step],
           \/ req' = req
           \/ \E r \in Reqs : req' = [req EXCEPT ![c] = r],
           \/ gate' = gate
           \/ \E g \in Gate : gate' = [gate EXCEPT ![c] = g],
           queue' \in Seq(Call)
    PROVE  Alone(c) /\ pc'[c] = step
  <1>1. pc \in [Call -> Place] /\ req \in [Call -> Reqs] /\ gate \in [Call -> Gate \cup {0}]
    BY DEF IInv, Typed, CallsTyped
  <1>2. pc' \in [Call -> Place] /\ pc'[c] = step /\ \A d \in Call \ {c} : pc'[d] = pc[d]
    BY <1>1
  <1>3. req' \in [Call -> Reqs] /\ \A d \in Call \ {c} : req'[d] = req[d]
    BY <1>1
  <1>4. gate' \in [Call -> Gate \cup {0}] /\ \A d \in Call \ {c} : gate'[d] = gate[d]
    BY <1>1
  <1> QED
    BY <1>2, <1>3, <1>4 DEF Alone

\* Steps and answers.
LEMMA Places ==
    /\ \A step \in Waiting : step \in Place /\ step \in DOMAIN Awaiting
                             /\ Awaiting[step] \in Over \ {"started", "resumed"}
    /\ Over \subseteq Place /\ Waiting \cap Over = {} /\ "idle" \notin Over
    /\ DOMAIN Awaiting = Waiting
  BY DEF Waiting, Place, Active, Over, Awaiting

\* What steps that only ask or end leave alone.
Rest == <<file, mem, damaged, fails, crashes, run, refreshing, acked, performed, released>>

\* The gate a call is at is the old one, or the first of an evaluation that begins.
GateOn(c) ==
    \/ gate' = gate
    \/ pc[c] = "idle" /\ gate' = [gate EXCEPT ![c] = 1]

\* That is a gate, or none.
LEMMA GateOnIs ==
    ASSUME IInv, NEW c \in Call, GateOn(c)
    PROVE  /\ gate'[c] \in Gate \cup {0}
           /\ gate' = gate \/ \E g \in Gate : gate' = [gate EXCEPT ![c] = g]
           /\ gate'[c] = gate[c] \/ (pc[c] = "idle" /\ gate'[c] > gate[c] /\ gate'[c] = 1)
  <1>1. gate \in [Call -> Gate \cup {0}] /\ AtGate(c) /\ 1 \in Gate
    BY GateNumbers DEF IInv, Typed, CallsTyped, PerCall
  <1> QED
    BY <1>1 DEF GateOn, AtGate

\* A call that does not wait ends without a request.
LEMMA EndsKeeps ==
    ASSUME IInv, NEW c \in Call, pc[c] \notin Waiting,
           NEW how \in Over \ {"started", "resumed"}, Ends(c, how), GateOn(c), UNCHANGED Rest
    PROVE  IInv'
  <1>1. queue \in Seq(Call) /\ run \in [Handle -> Runs] /\ how \in Place
    BY Places DEF IInv, Typed, CallsTyped
  <1>2. Alone(c) /\ pc'[c] = how
    BY <1>1, GateOnIs, MovesAlone DEF Ends, Goto
  <1>3. Local(c)
    BY <1>1, <1>2 DEF Local, OwnObject, Rest
  <1>4. Queued'
    <2>1. c \notin ToSet(queue) /\ refreshing \subseteq ToSet(queue) \cup {c}
      BY WithoutIs DEF Without
    <2>2. c \notin refreshing
      BY DEF IInv, Queued, ToSet
    <2> QED
      BY <1>2, <2>2, QueueKept DEF Without, Ends, Rest
  <1>5. PerCall(c)'
    <2>1. how \notin {"idle", "checkStart", "gate", "checkFinish", "recording"}
      BY DEF Over
    <2>2. Fresh(c)'
      BY <1>2, <2>1, GateOnIs, FreshKept DEF Rest
    <2> QED
      BY <1>2, <2>2, OverIs
  <1> QED
    BY <1>3, <1>4, <1>5, LocalKeeps

\* What is asked for at a step, of what operation or gate.
OfStep(c, step, g) ==
    IF step \in {"starting", "recording", "ending", "cancelling"} THEN None
    ELSE IF step \in {"checkStart", "checkFinish"} THEN g ELSE op(c)

\* A call that does not wait asks for an append on the head of its Run object, or ends as
\* that is of a run that is over.
LEMMA AppendsKeeps ==
    ASSUME IInv, NEW c \in Call, pc[c] \notin Waiting, On(c).open,
           NEW step \in Waiting \ {"starting", "cancelling"}, NEW val \in Results,
           NEW e, e = Event(c, TypeAt[step], OfStep(c, step, gate'[c]), val),
           Appends(c, e, step), GateOn(c), UNCHANGED Rest,
           step = "recording" => pc[c] = "idle",
           step = "checkStart" => gate'[c] = 1 /\ pc[c] = "idle",
           step = "checkFinish" => pc[c] = "gate",
           step = "approving" => Has("APPROVAL_REQUESTED", op(c)),
           step = "deciding" /\ On(c).head = Tip(mem) => Stands(mem, e)
    PROVE  IInv'
  <1>1. CASE Ends(c, Awaiting[step])
    BY <1>1, Places, EndsKeeps
  <1>2. CASE Asks(c, e, TRUE, On(c).head, queue) /\ Goto(c, step)
    <2>1. /\ queue \in Seq(Call) /\ run \in [Handle -> Runs] /\ call[c].on \in Handle
          /\ c \notin ToSet(queue) /\ AtGate(c) /\ Opened(call[c].on) /\ op(c) \in Op
          /\ gate \in [Call -> Gate \cup {0}]
      BY CallsAssumption, PolicyAssumption, WithoutIs DEF IInv, Typed, CallsTyped, Without, PerCall, op
    <2>2. On(c).head \in Events \cup {None}
      BY <2>1 DEF On, Runs
    <2>3. step \in {"checkStart", "checkFinish"} => gate'[c] \in Gate
      <3>1. step = "checkFinish" => gate'[c] = gate[c]
        BY GateOnIs
      <3> QED
        BY <2>1, <3>1, GateNumbers DEF AtGate
    <2>4. e \in Events
      <3>1. TypeAt[step] \in EventType
        BY DEF Waiting, TypeAt, EventType, Start, Terminal, Keyed
      <3>2. OfStep(c, step, gate'[c]) \in Op \cup Gate \cup {None}
        BY <2>1, <2>3 DEF OfStep
      <3> QED
        BY <3>1, <3>2, EventIs
    <2> DEFINE r == [ev |-> e, cas |-> TRUE, expected |-> On(c).head]
    <2>5. r \in Reqs /\ queue' = Append(queue, c) /\ req' = [req EXCEPT ![c] = r]
      BY <1>2, <2>2, <2>4 DEF Reqs, Asks
    <2>6. queue' \in Seq(Call) /\ step \in Place /\ pc' = [pc EXCEPT ![c] = step]
      BY <1>2, <2>1, <2>5, Places DEF Goto
    <2>7. Alone(c) /\ pc'[c] = step
      <3> HIDE DEF r
      <3> QED
        BY <2>5, <2>6, GateOnIs, MovesAlone
    <2>8. req'[c] = r
      BY <2>5 DEF IInv, Typed, CallsTyped
    <2>9. Local(c)
      BY <2>1, <2>7 DEF Local, OwnObject, Rest
    <2>10. Queued'
      <3>1. c \notin refreshing
        BY DEF IInv, Queued, ToSet
      <3> QED
        BY <2>5, <2>7, <3>1, QueueKept DEF Without, Rest
    <2>11. Fresh(c)'
      <3>1. step = "checkStart" => gate'[c] > gate[c]
        BY <2>1, GateNumbers DEF AtGate
      <3>2. step # "idle"
        BY DEF Waiting
      <3>3. step = "gate" => FALSE
        BY DEF Waiting
      <3> QED
        BY <2>7, <3>1, <3>2, <3>3, GateOnIs, FreshKept DEF Rest
    <2>12. Fits(c)'
      <3>1. Past(On(c).head)
        BY <2>1 DEF Opened, On
      <3>2. OfStep(c, step, gate'[c]) = OfAt(c)'
        BY <2>7 DEF OfStep, OfAt, op
      <3>3. \E v \in Results : req'[c].ev = Event(c, TypeAt[pc'[c]], OfAt(c)', v)
        BY <2>7, <2>8, <3>2
      <3>4. Past(req[c].expected)' /\ req'[c].cas
        BY <2>8, <3>1 DEF Past, Rest
      <3>5. pc'[c] = "approving" => Has("APPROVAL_REQUESTED", op(c))'
        BY <2>7 DEF Has, op, Rest
      <3>6. pc'[c] = "deciding" /\ req'[c].expected = Tip(mem') => Stands(mem', req'[c].ev)
        BY <2>7, <2>8 DEF Rest
      <3> QED
        BY <2>7, <3>3, <3>4, <3>5, <3>6 DEF Fits, Past, Has, Tip
    <2>13. PerCall(c)'
      BY <2>3, <2>7, <2>11, <2>12, AskingIs DEF Rest, On
    <2> QED
      BY <2>9, <2>10, <2>13, LocalKeeps
  <1> QED
    BY <1>1, <1>2 DEF Appends

\* record asks for its event.
LEMMA RecordKeeps ==
    ASSUME IInv, NEW c \in Call, Record(c), UNCHANGED hostVars
    PROVE  IInv'
  <1>1. /\ pc[c] = "idle" /\ On(c).open /\ UNCHANGED Rest /\ GateOn(c)
        /\ Appends(c, Event(c, TypeAt["recording"], OfStep(c, "recording", gate'[c]), None), "recording")
    BY DEF Record, Begins, At, Rest, storeVars, runVars, hostVars, GateOn, TypeAt, OfStep
  <1> QED
    BY <1>1, AppendsKeeps DEF Waiting, Results

\* complete and fail ask for their event.
LEMMA CompleteKeeps ==
    ASSUME IInv, NEW c \in Call, Complete(c), UNCHANGED hostVars
    PROVE  IInv'
  <1>1. /\ pc[c] = "idle" /\ On(c).open /\ UNCHANGED Rest /\ GateOn(c)
        /\ Appends(c, Event(c, TypeAt["ending"], OfStep(c, "ending", gate'[c]), None), "ending")
    BY DEF Complete, Begins, At, Rest, storeVars, runVars, hostVars, GateOn, TypeAt, OfStep
  <1> QED
    BY <1>1, AppendsKeeps DEF Waiting, Results

\* evaluate begins with the first gate.
LEMMA EvaluateKeeps ==
    ASSUME IInv, NEW c \in Call, Evaluate(c), UNCHANGED hostVars
    PROVE  IInv'
  <1>1. /\ pc[c] = "idle" /\ On(c).open /\ UNCHANGED Rest /\ GateOn(c)
        /\ gate' = [gate EXCEPT ![c] = 1]
        /\ Appends(c, Event(c, "CHECK_STARTED", 1, None), "checkStart")
    BY DEF Evaluate, Begins, At, Rest, storeVars, hostVars, GateOn
  <1>2. gate'[c] = 1
    BY <1>1 DEF IInv, Typed, CallsTyped
  <1>3. Event(c, "CHECK_STARTED", 1, None)
           = Event(c, TypeAt["checkStart"], OfStep(c, "checkStart", gate'[c]), None)
    BY <1>2 DEF TypeAt, OfStep
  <1> QED
    BY <1>1, <1>2, <1>3, AppendsKeeps DEF Waiting, Results

\* The result of a gate is asked to be recorded.
LEMMA GateReturnsKeeps ==
    ASSUME IInv, NEW c \in Call, GateReturns(c), UNCHANGED hostVars
    PROVE  IInv'
  <1>1. PICK result \in {"cancelled", "pass", "fail"} :
           Appends(c, Event(c, "CHECK_FINISHED", gate[c], result), "checkFinish")
    BY DEF GateReturns
  <1>2. pc[c] = "gate" /\ On(c).open /\ UNCHANGED Rest /\ GateOn(c) /\ gate' = gate
    BY DEF GateReturns, At, Rest, storeVars, runVars, hostVars, GateOn, IInv, PerCall, Object, Active
  <1>3. Event(c, "CHECK_FINISHED", gate[c], result)
           = Event(c, TypeAt["checkFinish"], OfStep(c, "checkFinish", gate'[c]), result)
    BY <1>2 DEF TypeAt, OfStep
  <1> QED
    BY <1>1, <1>2, <1>3, AppendsKeeps DEF Waiting, Results

\* An event the memory has is found in it.
LEMMA TheIs ==
    ASSUME NEW type, NEW of, Has(type, of)
    PROVE  \E i \in DOMAIN mem : mem[i].type = type /\ mem[i].of = of /\ The(type, of) = mem[i]
  BY DEF Has, The

\* Who has an approval has the request it answers.
LEMMA ApprovalAnswers ==
    ASSUME IInv, NEW of, Has("APPROVAL_DECIDED", of)
    PROVE  Has("APPROVAL_REQUESTED", of)
  <1>1. mem \in Seq(Events) /\ InOrder(mem)
    BY DEF IInv, Typed, StoreTyped, Ordered
  <1>2. PICK i \in DOMAIN mem : mem[i].type = "APPROVAL_DECIDED" /\ mem[i].of = of
    BY DEF Has
  <1>3. Answers(SubSeq(mem, 1, i - 1), mem[i])
    BY <1>1, <1>2 DEF InOrder
  <1>4. PICK j \in DOMAIN SubSeq(mem, 1, i - 1) :
           /\ SubSeq(mem, 1, i - 1)[j].type = "APPROVAL_REQUESTED"
           /\ SubSeq(mem, 1, i - 1)[j].of = of
    BY <1>2, <1>3 DEF Answers
  <1>5. j \in DOMAIN mem /\ SubSeq(mem, 1, i - 1)[j] = mem[j]
    <2>1. i \in 1..Len(mem) /\ i - 1 \in Nat /\ i - 1 <= Len(mem) /\ Len(mem) \in Nat
      BY <1>1
    <2>2. SubSeq(mem, 1, i - 1) = [k \in 1..(i - 1) |-> mem[k]]
      BY <1>1, <2>1
    <2> QED
      BY <1>1, <1>4, <2>1, <2>2
  <1> QED
    BY <1>4, <1>5 DEF Has

\* What is weighed and found allowed has its evidence in the memory.
LEMMA DecisionStands ==
    ASSUME IInv, NEW c \in Call, ~RequireApproval \/ Has("APPROVAL_DECIDED", op(c)),
           NEW expired \in BOOLEAN
    PROVE  Stands(mem, Event(c, "ACTION_DECIDED", op(c), Decision(c, expired)))
  <1> SUFFICES ASSUME Enforced, Decision(c, expired) = "allow"
               PROVE  /\ \A g \in Gate : Covers(mem, g, call[c].subj)
                      /\ RequireApproval =>
                            /\ \E j \in DOMAIN mem : /\ mem[j].type = "APPROVAL_REQUESTED"
                                                     /\ mem[j].of = op(c) /\ mem[j].bind = call[c].bind
                            /\ \E j \in DOMAIN mem : /\ mem[j].type = "APPROVAL_DECIDED"
                                                     /\ mem[j].of = op(c) /\ mem[j].val = "allow"
    BY DEF Stands, Event
  <1>1. Covered(c) /\ (RequireApproval => Approved(c))
    BY DEF Decision
  <1>2. ASSUME RequireApproval
        PROVE  /\ \E j \in DOMAIN mem : /\ mem[j].type = "APPROVAL_REQUESTED"
                                         /\ mem[j].of = op(c) /\ mem[j].bind = call[c].bind
               /\ \E j \in DOMAIN mem : /\ mem[j].type = "APPROVAL_DECIDED"
                                         /\ mem[j].of = op(c) /\ mem[j].val = "allow"
    <2>1. Has("APPROVAL_DECIDED", op(c)) /\ Has("APPROVAL_REQUESTED", op(c))
      BY <1>2, ApprovalAnswers
    <2> QED
      BY <1>1, <1>2, <2>1, TheIs DEF Approved
  <1> QED
    BY <1>1, <1>2 DEF Covered

\* A step that asks for an event of its operation.
LEMMA OfOperation ==
    ASSUME IInv, NEW c \in Call, pc[c] \notin Waiting, On(c).open,
           NEW step \in {"proposing", "requesting", "deciding", "approving", "intent", "finishing",
                         "releasing", "observing", "reconciling"},
           NEW val \in Results,
           Appends(c, Event(c, TypeAt[step], op(c), val), step), UNCHANGED restVars,
           step = "approving" => Has("APPROVAL_REQUESTED", op(c)),
           step = "deciding" => Stands(mem, Event(c, TypeAt[step], op(c), val))
    PROVE  IInv'
  <1>1. UNCHANGED Rest /\ GateOn(c)
    BY DEF restVars, Rest, storeVars, runVars, hostVars, GateOn
  <1>2. step \in Waiting \ {"starting", "cancelling", "recording", "checkStart", "checkFinish"}
    BY DEF Waiting
  <1>3. Event(c, TypeAt[step], op(c), val) = Event(c, TypeAt[step], OfStep(c, step, gate'[c]), val)
    BY <1>2 DEF OfStep
  <1> QED
    BY <1>1, <1>2, <1>3, AppendsKeeps

\* A step that ends a call.
LEMMA EndsHere ==
    ASSUME IInv, NEW c \in Call, pc[c] \notin Waiting,
           NEW how \in Over \ {"started", "resumed"}, Ends(c, how), UNCHANGED restVars
    PROVE  IInv'
  <1>1. UNCHANGED Rest /\ GateOn(c)
    BY DEF restVars, Rest, storeVars, runVars, hostVars, GateOn
  <1> QED
    BY <1>1, EndsKeeps

\* What is weighed is refused, escalated, decided, or an approval is asked for.
LEMMA WeighsKeeps ==
    ASSUME IInv, NEW c \in Call, pc[c] \notin Waiting, On(c).open, Weighs(c), UNCHANGED restVars
    PROVE  IInv'
  <1>1. CASE Has("ACTION_DECIDED", op(c)) /\ Ends(c, "threw")
    BY <1>1, EndsHere DEF Over
  <1>2. CASE Appends(c, Event(c, "APPROVAL_REQUESTED", op(c), None), "requesting")
    <2>1. Appends(c, Event(c, TypeAt["requesting"], op(c), None), "requesting")
      BY <1>2 DEF TypeAt
    <2> QED
      BY <2>1, OfOperation DEF Results
  <1>3. CASE Ends(c, "escalated")
    BY <1>3, EndsHere DEF Over
  <1>4. CASE /\ ~RequireApproval \/ Has("APPROVAL_DECIDED", op(c))
             /\ \E expired \in BOOLEAN :
                   Appends(c, Event(c, "ACTION_DECIDED", op(c), Decision(c, expired)), "deciding")
    <2>1. PICK expired \in BOOLEAN :
             Appends(c, Event(c, TypeAt["deciding"], op(c), Decision(c, expired)), "deciding")
      BY <1>4 DEF TypeAt
    <2>2. Stands(mem, Event(c, TypeAt["deciding"], op(c), Decision(c, expired)))
      BY <1>4, DecisionStands DEF TypeAt
    <2>3. Decision(c, expired) \in Results
      BY DEF Decision, Results
    <2> QED
      BY <2>1, <2>2, <2>3, OfOperation
  <1> QED
    BY <1>1, <1>2, <1>3, <1>4 DEF Weighs

\* decide proposes, or weighs what was proposed.
LEMMA DecideKeeps ==
    ASSUME IInv, NEW c \in Call, Decide(c)
    PROVE  IInv'
  <1>1. pc[c] \notin Waiting /\ On(c).open /\ UNCHANGED restVars
    BY DEF Decide, Begins, At, Waiting
  <1>2. CASE Ends(c, "threw")
    BY <1>1, <1>2, EndsHere DEF Over
  <1>3. CASE Appends(c, Event(c, "ACTION_PROPOSED", op(c), None), "proposing")
    <2>1. Appends(c, Event(c, TypeAt["proposing"], op(c), None), "proposing")
      BY <1>3 DEF TypeAt
    <2> QED
      BY <1>1, <2>1, OfOperation DEF Results
  <1>4. CASE Weighs(c)
    BY <1>1, <1>4, WeighsKeeps
  <1> QED
    BY <1>2, <1>3, <1>4 DEF Decide

\* decide weighs what it proposed.
LEMMA DecideProposedKeeps ==
    ASSUME IInv, NEW c \in Call, DecideProposed(c)
    PROVE  IInv'
  <1>1. pc[c] \notin Waiting /\ On(c).open /\ UNCHANGED restVars /\ Weighs(c)
    BY DEF DecideProposed, At, Waiting, IInv, PerCall, Object, Active
  <1> QED
    BY <1>1, WeighsKeeps

\* An approval is asked to be recorded.
LEMMA ApproveKeeps ==
    ASSUME IInv, NEW c \in Call, Approve(c)
    PROVE  IInv'
  <1>1. /\ pc[c] \notin Waiting /\ On(c).open /\ UNCHANGED restVars
        /\ Has("APPROVAL_REQUESTED", op(c))
    BY DEF Approve, Begins, At, Waiting
  <1>2. PICK decision \in {"allow", "withhold"} :
           Appends(c, Event(c, TypeAt["approving"], op(c), decision), "approving")
    BY DEF Approve, TypeAt
  <1> QED
    BY <1>1, <1>2, OfOperation DEF Results

\* execute asks for the intent to be recorded.
LEMMA ExecuteKeeps ==
    ASSUME IInv, NEW c \in Call, Execute(c)
    PROVE  IInv'
  <1>1. /\ pc[c] \notin Waiting /\ On(c).open /\ UNCHANGED restVars
        /\ Appends(c, Event(c, TypeAt["intent"], op(c), None), "intent")
    BY DEF Execute, Begins, At, Waiting, TypeAt
  <1> QED
    BY <1>1, OfOperation DEF Results

\* The outcome of the side effect is asked to be recorded.
LEMMA PerformReturnsKeeps ==
    ASSUME IInv, NEW c \in Call, PerformReturns(c)
    PROVE  IInv'
  <1>1. pc[c] \notin Waiting /\ On(c).open /\ UNCHANGED restVars
    BY DEF PerformReturns, At, Waiting, IInv, PerCall, Object, Active
  <1>2. PICK outcome \in {"known", "unknown"} :
           Appends(c, Event(c, TypeAt["finishing"], op(c), outcome), "finishing")
    BY DEF PerformReturns, TypeAt
  <1> QED
    BY <1>1, <1>2, OfOperation DEF Results

\* release asks for its decision to be recorded.
LEMMA ReleaseKeeps ==
    ASSUME IInv, NEW c \in Call, Release(c)
    PROVE  IInv'
  <1>1. /\ pc[c] \notin Waiting /\ On(c).open /\ UNCHANGED restVars
        /\ Appends(c, Event(c, TypeAt["releasing"], op(c), "allow"), "releasing")
    BY DEF Release, Begins, At, Waiting, TypeAt
  <1> QED
    BY <1>1, OfOperation DEF Results

\* The delivery is observed or not.
LEMMA DeliverReturnsKeeps ==
    ASSUME IInv, NEW c \in Call, DeliverReturns(c)
    PROVE  IInv'
  <1>1. pc[c] \notin Waiting /\ On(c).open /\ UNCHANGED restVars
    BY DEF DeliverReturns, At, Waiting, IInv, PerCall, Object, Active
  <1>2. CASE Ends(c, "unobserved")
    BY <1>1, <1>2, EndsHere DEF Over
  <1>3. CASE Appends(c, Event(c, "OUTPUT_DELIVERY_OBSERVED", op(c), None), "observing")
    <2>1. Appends(c, Event(c, TypeAt["observing"], op(c), None), "observing")
      BY <1>3 DEF TypeAt
    <2> QED
      BY <1>1, <2>1, OfOperation DEF Results
  <1> QED
    BY <1>2, <1>3 DEF DeliverReturns

\* reconcile asks for the outcome to be recorded.
LEMMA ReconcileKeeps ==
    ASSUME IInv, NEW c \in Call, Reconcile(c)
    PROVE  IInv'
  <1>1. /\ pc[c] \notin Waiting /\ On(c).open /\ UNCHANGED restVars
        /\ Appends(c, Event(c, TypeAt["reconciling"], op(c), "known"), "reconciling")
    BY DEF Reconcile, Begins, At, Waiting, TypeAt
  <1> QED
    BY <1>1, OfOperation DEF Results

-----------------------------------------------------------------------------
(* Answers without an event *)

\* A Run object is brought to what the memory has.
LEMMA BroughtUp ==
    ASSUME IInv, NEW c \in Call, mem' = mem, mem # <<>>, NEW new \in Runs, new.open, new.head = Tip(mem),
           run' = [run EXCEPT ![call[c].on] = new],
           On(c).open \/ Is(c, "start")
    PROVE  OwnObject(c) /\ run'[call[c].on] = new
  <1>1. run \in [Handle -> Runs] /\ call[c].on \in Handle /\ mem \in Seq(Events)
    BY CallsAssumption DEF IInv, Typed, StoreTyped
  <1>2. run' \in [Handle -> Runs] /\ run'[call[c].on] = new
        /\ \A h \in Handle : h # call[c].on => run'[h] = run[h]
    BY <1>1
  <1>3. \E i \in DOMAIN mem' : mem'[i] = new.head
    <2>1. Len(mem) \in DOMAIN mem /\ new.head = mem[Len(mem)]
      BY <1>1 DEF Tip, Last
    <2> QED
      BY <2>1
  <1>4. Opened(call[c].on)'
    BY <1>2, <1>3 DEF Opened, Past
  <1> QED
    BY <1>2, <1>4 DEF OwnObject, On

\* What a Run object is brought to.
LEMMA RunTyped ==
    ASSUME IInv
    PROVE  /\ RunAt(mem) \in Runs /\ RunAt(mem).open /\ RunAt(mem).head = Tip(mem)
           /\ \A r \in Runs : [r EXCEPT !.head = Tip(mem), !.ended = Ended(mem)] \in Runs
           /\ \A r \in Runs : [r EXCEPT !.aborted = TRUE] \in Runs
           /\ NoRun \in Runs /\ Tip(mem) \in Events \cup {None}
  <1>1. mem \in Seq(Events)
    BY DEF IInv, Typed, StoreTyped
  <1>2. Tip(mem) \in Events \cup {None}
    BY <1>1 DEF Tip, Last
  <1>3. Ended(mem) \in BOOLEAN
    BY Zenon DEF Ended
  <1> QED
    BY <1>2, <1>3 DEF RunAt, Runs, NoRun

\* A call is answered and is over, its event not taken.
LEMMA AnswerKeeps ==
    ASSUME IInv, NEW c \in Call, Turn(c), NEW how \in Over \ {"started", "resumed"}, Goto(c, how),
           queue' = Tail(queue), c \notin refreshing', refreshing' \subseteq refreshing,
           req' = req, gate' = gate, OwnObject(c),
           UNCHANGED <<file, mem, damaged, fails, crashes, acked, performed, released>>
    PROVE  IInv'
  <1>1. Without(c, Tail(queue))
    BY DEF Without
  <1>2. how \in Place /\ queue' \in Seq(Call) /\ gate[c] \in Gate \cup {0}
    BY <1>1, Places, WithoutIs DEF IInv, Typed, CallsTyped
  <1>3. Alone(c) /\ pc'[c] = how
    BY <1>2, MovesAlone DEF Goto
  <1>4. Queued'
    BY <1>1, <1>3, QueueKept
  <1>5. PerCall(c)'
    <2>1. how \notin {"idle", "checkStart", "gate", "checkFinish", "recording"}
      BY DEF Over
    <2>2. Fresh(c)'
      BY <1>2, <1>3, <2>1, FreshKept
    <2> QED
      BY <1>3, <2>2, OverIs
  <1> QED
    BY <1>3, <1>4, <1>5, LocalKeeps DEF Local

\* A refused request ends its call.
LEMMA RefusedKeeps ==
    ASSUME IInv, NEW c \in Call, Refused(c), UNCHANGED hostVars
    PROVE  IInv'
  <1>1. pc[c] \in Waiting
    BY TurnWaits DEF Refused
  <1>2. PICK how \in Over \ {"started", "resumed"} : Goto(c, how)
    BY <1>1, Places DEF Refused, Over
  <1>3. OwnObject(c)
    BY DEF Refused, runVars, OwnObject, IInv, Typed
  <1> QED
    BY <1>2, <1>3, AnswerKeeps DEF Refused, storeVars, runVars, hostVars

\* After a refresh the Run object is at the head, and the call is over.
LEMMA RefreshedKeeps ==
    ASSUME IInv, NEW c \in Call, Refreshed(c), UNCHANGED hostVars
    PROVE  IInv'
  <1>1. pc[c] \in Waiting \ {"starting"} /\ On(c).open /\ call[c].on \in Handle
    BY TurnWaits, CallsAssumption DEF Refreshed, IInv, Queued, PerCall, Object, Active
  <1>2. PICK how \in Over \ {"started", "resumed"} : Goto(c, how)
    BY <1>1, Places DEF Refreshed, Over
  <1>3. OwnObject(c)
    <2> DEFINE new == [On(c) EXCEPT !.head = Tip(mem), !.ended = Ended(mem)]
    <2>1. run \in [Handle -> Runs] /\ On(c) \in Runs /\ mem # <<>>
      BY <1>1 DEF IInv, Typed, Opened, On
    <2>2. new \in Runs /\ new.open /\ new.head = Tip(mem)
      BY <1>1, <2>1, RunTyped DEF Runs
    <2>3. run' = [run EXCEPT ![call[c].on] = new]
      BY <1>1, <2>1 DEF Refreshed, On, Runs
    <2> HIDE DEF new
    <2> QED
      BY <1>1, <2>1, <2>2, <2>3, BroughtUp DEF Refreshed, storeVars
  <1> QED
    BY <1>2, <1>3, AnswerKeeps DEF Refreshed, storeVars, hostVars

\* A refresh waits at the end of the queue.
LEMMA AsksRefreshKeeps ==
    ASSUME IInv, NEW c \in Call, AsksRefresh(c), UNCHANGED hostVars
    PROVE  IInv'
  <1>1. pc[c] \in Waiting /\ PerCall(c) /\ Without(c, Tail(queue))
    BY TurnWaits DEF AsksRefresh, Without
  <1>2. pc[c] # "starting"
    <2>1. pc[c] = "starting" => Is(c, "start") /\ ~On(c).aborted
      BY <1>1 DEF PerCall, Object, On, NoRun
    <2> QED
      BY <2>1 DEF AsksRefresh, NeedsRefresh, Is
  <1>3. queue' = Append(Tail(queue), c) /\ queue' \in Seq(Call)
    BY <1>1, WithoutIs, AddedIs DEF AsksRefresh
  <1>4. Alone(c) /\ OwnObject(c)
    BY <1>3 DEF AsksRefresh, Alone, OwnObject, IInv, Typed, CallsTyped
  <1>5. Queued'
    BY <1>1, <1>2, <1>3, <1>4, QueueKept DEF AsksRefresh
  <1>6. PerCall(c)'
    BY <1>1 DEF AsksRefresh, storeVars, PerCall, Fits, AtGate, Fresh, Bound, Keeps, Object, On, OfAt,
                Past, Has, Stands, Covers, op
  <1>7. Local(c)
    BY <1>4 DEF Local, AsksRefresh, storeVars, hostVars
  <1> QED
    BY <1>5, <1>6, <1>7, LocalKeeps

\* A write that fails ends its call.
LEMMA WriteRefusedKeeps ==
    ASSUME IInv, NEW c \in Call, WriteRefused(c), UNCHANGED hostVars
    PROVE  IInv'
  <1>1. pc[c] \in Waiting /\ Turn(c) /\ Without(c, Tail(queue)) /\ queue' = Tail(queue)
    BY TurnWaits DEF WriteRefused, WriteFails, Without
  <1>2. PICK how \in Over \ {"started", "resumed"} : Goto(c, how)
    BY <1>1, Places DEF WriteRefused
  <1>3. how \in Place /\ queue' \in Seq(Call)
    BY <1>1, Places, WithoutIs
  <1>4. Alone(c) /\ pc'[c] = how /\ gate' = gate /\ req' = req
    BY <1>2, <1>3, MovesAlone DEF WriteRefused, runVars, Goto
  <1>5. OwnObject(c)
    BY DEF WriteRefused, runVars, OwnObject, IInv, Typed
  <1>6. Queued'
    BY <1>1, <1>4, QueueKept DEF WriteRefused, runVars
  <1>7. PerCall(c)'
    <2>1. how \notin {"idle", "checkStart", "gate", "checkFinish", "recording"}
      BY DEF Over
    <2>2. FileFrom(req[c].ev) /\ mem' = mem
      BY FailSays DEF WriteRefused
    <2>3. Fresh(c)'
      BY <1>1, <1>4, <2>1, <2>2, FreshAfter
    <2> QED
      BY <1>4, <2>3, OverIs
  <1>8. Loses(c)
    BY <1>4, <1>5 DEF Loses, WriteRefused, runVars, hostVars
  <1> QED
    BY <1>6, <1>7, <1>8, LosesKeeps

-----------------------------------------------------------------------------
(* Starts and cancels *)

\* A start that finds a run is over, and has a Run object when the run is its own.
LEMMA ResumesKeeps ==
    ASSUME IInv, NEW c \in Call, Is(c, "start"), pc[c] \in {"idle", "resuming"}, mem # <<>>, Resumes(c),
           UNCHANGED <<storeVars, queue, req, refreshing, gate, acked, crashes, hostVars>>
    PROVE  IInv'
  <1>1. /\ UNCHANGED <<file, mem, damaged, fails, crashes, acked, performed, released>>
        /\ UNCHANGED <<queue, req, gate, refreshing>>
        /\ pc[c] \notin Waiting
    BY DEF storeVars, hostVars, Waiting
  <1>2. CASE Goto(c, "threw") /\ UNCHANGED run
    <2>1. Ends(c, "threw") /\ UNCHANGED Rest /\ GateOn(c)
      BY <1>1, <1>2 DEF Ends, Rest, GateOn
    <2> QED
      BY <1>1, <2>1, EndsKeeps DEF Over
  <1>3. CASE /\ ~damaged /\ mem[1].val = call[c].key
             /\ Goto(c, "resumed")
             /\ run' = [run EXCEPT ![call[c].on] = RunAt(mem)]
    <2>1. "resumed" \in Place /\ queue' \in Seq(Call) /\ gate[c] \in Gate \cup {0}
          /\ c \notin refreshing
      BY <1>1 DEF Place, Over, IInv, Queued, ToSet, Typed, CallsTyped
    <2>2. Alone(c) /\ pc'[c] = "resumed"
      BY <1>1, <1>3, <2>1, MovesAlone DEF Goto
    <2>3. OwnObject(c)
      BY <1>1, <1>3, RunTyped, BroughtUp
    <2>4. Queued'
      BY <1>1, <2>1, <2>2, QueueKept DEF Without
    <2>5. Fresh(c)'
      BY <1>1, <2>1, <2>2, FreshKept
    <2>6. Keeps(c)' /\ AtGate(c)' /\ Object(c)'
      BY <1>1, <1>3, <2>2 DEF Keeps, AtGate, Object, Active, Waiting
    <2>7. PerCall(c)'
      BY <2>2, <2>5, <2>6 DEF PerCall, Waiting
    <2> QED
      BY <1>1, <2>2, <2>3, <2>4, <2>7, LocalKeeps DEF Local
  <1> QED
    BY <1>2, <1>3 DEF Resumes

\* A start that lost its compare-and-swap reads the run again.
LEMMA ResumeRunKeeps ==
    ASSUME IInv, NEW c \in Call, ResumeRun(c), UNCHANGED hostVars
    PROVE  IInv'
  <1>1. Is(c, "start") /\ pc[c] = "resuming" /\ mem # <<>>
    BY DEF ResumeRun, At, IInv, PerCall, Object
  <1> QED
    BY <1>1, ResumesKeeps DEF ResumeRun, storeVars, hostVars

\* A start that meets another head has lost to another start: the run is there.
LEMMA LostStartKeeps ==
    ASSUME IInv, NEW c \in Call, LostStart(c), UNCHANGED hostVars
    PROVE  IInv'
  <1>1. /\ Turn(c) /\ pc[c] = "starting" /\ PerCall(c) /\ Fits(c) /\ Without(c, Tail(queue))
        /\ c \notin refreshing /\ queue' = Tail(queue)
        /\ UNCHANGED <<file, mem, damaged, fails, crashes, acked, performed, released>>
        /\ UNCHANGED <<req, gate, run, refreshing>>
    BY TurnWaits DEF LostStart, At, Without, IInv, Queued, storeVars, runVars, hostVars
  <1>2. mem # <<>>
    BY <1>1 DEF LostStart, Code, Fits, Tip
  <1>3. "resuming" \in Place /\ queue' \in Seq(Call) /\ gate[c] \in Gate \cup {0}
    BY <1>1, WithoutIs DEF Place, IInv, Typed, CallsTyped
  <1>4. Alone(c) /\ pc'[c] = "resuming"
    BY <1>1, <1>3, MovesAlone DEF LostStart, Goto
  <1>5. OwnObject(c)
    BY <1>1 DEF OwnObject, IInv, Typed
  <1>6. Queued'
    BY <1>1, <1>4, QueueKept
  <1>7. Fresh(c)'
    BY <1>1, <1>3, <1>4, FreshKept
  <1>8. Keeps(c)' /\ AtGate(c)' /\ Object(c)'
    BY <1>1, <1>2, <1>4 DEF Keeps, AtGate, PerCall, Object, Active, Waiting, On, Is
  <1>9. PerCall(c)'
    BY <1>4, <1>7, <1>8 DEF PerCall, Waiting
  <1> QED
    BY <1>1, <1>4, <1>5, <1>6, <1>9, LocalKeeps DEF Local

\* A start of a run that is not there asks for its first event.
LEMMA StartRunKeeps ==
    ASSUME IInv, NEW c \in Call, StartRun(c), UNCHANGED hostVars
    PROVE  IInv'
  <1>1. /\ Is(c, "start") /\ pc[c] = "idle" /\ pc[c] \notin Waiting /\ PerCall(c)
        /\ UNCHANGED <<file, mem, damaged, fails, crashes, acked, performed, released>>
        /\ UNCHANGED <<gate, refreshing>>
    BY DEF StartRun, At, Waiting, IInv, storeVars, hostVars
  <1>2. CASE mem # <<>>
    BY <1>1, <1>2, ResumesKeeps DEF StartRun, storeVars, hostVars
  <1>3. CASE mem = <<>>
    <2> DEFINE e == Event(c, Start, None, call[c].key)
               r == [ev |-> e, cas |-> TRUE, expected |-> None]
    <2>1. /\ queue' = Append(queue, c) /\ req' = [req EXCEPT ![c] = r]
          /\ pc' = [pc EXCEPT ![c] = "starting"] /\ run' = run
      BY <1>3 DEF StartRun, Asks, Goto
    <2>2. Start \in EventType /\ call[c].key \in Results
      BY DEF EventType, Results
    <2>3. e \in Events /\ e.val = call[c].key
      BY <2>2, EventIs
    <2>4. r \in Reqs /\ r.ev = e /\ r.cas /\ r.expected = None
      BY <2>3 DEF Reqs
    <2> HIDE DEF r
    <2>5. "starting" \in Place /\ queue' \in Seq(Call) /\ gate[c] \in Gate \cup {0}
      BY <2>1 DEF Place, IInv, Typed, CallsTyped
    <2>6. Alone(c) /\ pc'[c] = "starting"
      BY <1>1, <2>1, <2>4, <2>5, MovesAlone
    <2>7. req'[c] = r
      BY <2>1 DEF IInv, Typed, CallsTyped
    <2>8. OwnObject(c)
      BY <2>1 DEF OwnObject, IInv, Typed
    <2>9. Queued'
      <3>1. c \notin refreshing
        BY <1>1 DEF IInv, Queued, ToSet
      <3> QED
        BY <1>1, <2>1, <2>6, <3>1, QueueKept DEF Without, Waiting
    <2>10. Fresh(c)'
      BY <1>1, <2>5, <2>6, FreshKept
    <2>11. Fits(c)'
      <3>1. TypeAt[pc'[c]] = Start /\ OfAt(c)' = None
        BY <2>6 DEF TypeAt, OfAt
      <3>2. \E val \in Results : req'[c].ev = Event(c, TypeAt[pc'[c]], OfAt(c)', val)
        BY <2>2, <2>4, <2>7, <3>1
      <3> QED
        BY <2>3, <2>4, <2>6, <2>7, <3>2 DEF Fits, Past
    <2>12. Keeps(c)' /\ AtGate(c)' /\ Object(c)'
      BY <1>1, <2>1, <2>6 DEF Keeps, AtGate, PerCall, Object, Active, Waiting, On, Is
    <2>13. PerCall(c)'
      BY <2>10, <2>11, <2>12 DEF PerCall
    <2> QED
      BY <1>1, <2>6, <2>8, <2>9, <2>13, LocalKeeps DEF Local
  <1> QED
    BY <1>2, <1>3

\* A cancel marks its Run object and asks for its event whatever the head.
LEMMA CancelKeeps ==
    ASSUME IInv, NEW c \in Call, Cancel(c), UNCHANGED hostVars
    PROVE  IInv'
  <1>1. /\ pc[c] = "idle" /\ pc[c] \notin Waiting /\ On(c).open /\ call[c].on \in Handle
        /\ UNCHANGED <<file, mem, damaged, fails, crashes, acked, performed, released>>
        /\ UNCHANGED <<gate, refreshing>>
    BY CallsAssumption DEF Cancel, Begins, At, Waiting, storeVars, hostVars
  <1> DEFINE new == [On(c) EXCEPT !.aborted = TRUE]
  <1>2. run \in [Handle -> Runs] /\ On(c) \in Runs /\ Opened(call[c].on)
    BY <1>1 DEF IInv, Typed, On
  <1>3. new \in Runs /\ new.open /\ new.head = On(c).head
    BY <1>1, <1>2, RunTyped DEF Runs
  <1>4. run' = [run EXCEPT ![call[c].on] = new]
    BY <1>1, <1>2 DEF Cancel, On, Runs
  <1> HIDE DEF new
  <1>5. OwnObject(c) /\ run'[call[c].on] = new
    <2>1. run' \in [Handle -> Runs] /\ run'[call[c].on] = new
          /\ \A h \in Handle : h # call[c].on => run'[h] = run[h]
      BY <1>1, <1>2, <1>3, <1>4
    <2>2. Opened(call[c].on)'
      BY <1>1, <1>2, <1>3, <2>1 DEF Opened, Past, On
    <2> QED
      BY <1>1, <1>3, <2>1, <2>2 DEF OwnObject, On
  <1>6. c \notin refreshing /\ gate[c] \in Gate \cup {0} /\ queue \in Seq(Call)
    BY <1>1 DEF IInv, Queued, ToSet, Typed, CallsTyped
  <1>7. CASE Ends(c, "already")
    <2>1. "already" \in Place /\ "already" \in Over
      BY DEF Place, Over
    <2>2. Alone(c) /\ pc'[c] = "already"
      BY <1>1, <1>6, <1>7, <2>1, MovesAlone DEF Ends, Goto
    <2>3. Queued'
      BY <1>1, <1>6, <1>7, <2>2, QueueKept DEF Without, Ends
    <2>4. Fresh(c)'
      BY <1>1, <1>6, <2>2, FreshKept
    <2>5. PerCall(c)'
      BY <2>1, <2>2, <2>4, OverIs
    <2> QED
      BY <1>1, <1>5, <2>2, <2>3, <2>5, LocalKeeps DEF Local
  <1>8. CASE Asks(c, Event(c, "RUN_CANCELLED", None, None), FALSE, None, queue) /\ Goto(c, "cancelling")
    <2> DEFINE e == Event(c, "RUN_CANCELLED", None, None)
               r == [ev |-> e, cas |-> FALSE, expected |-> None]
    <2>1. /\ queue' = Append(queue, c) /\ req' = [req EXCEPT ![c] = r]
          /\ pc' = [pc EXCEPT ![c] = "cancelling"]
      BY <1>8 DEF Asks, Goto
    <2>2. "RUN_CANCELLED" \in EventType /\ None \in Results
      BY DEF EventType, Terminal, Results
    <2>3. e \in Events
      BY <2>2, EventIs
    <2>4. r \in Reqs /\ r.ev = e /\ r.expected = None
      BY <2>3 DEF Reqs
    <2> HIDE DEF r
    <2>5. "cancelling" \in Place /\ queue' \in Seq(Call)
      BY <1>6, <2>1 DEF Place, Active, Waiting
    <2>6. Alone(c) /\ pc'[c] = "cancelling"
      BY <1>1, <2>1, <2>4, <2>5, MovesAlone
    <2>7. req'[c] = r
      BY <2>1 DEF IInv, Typed, CallsTyped
    <2>8. Queued'
      BY <1>1, <1>6, <2>1, <2>6, QueueKept DEF Without, Waiting
    <2>9. Fresh(c)'
      BY <1>1, <1>6, <2>6, FreshKept
    <2>10. Fits(c)'
      <3>1. TypeAt[pc'[c]] = "RUN_CANCELLED" /\ OfAt(c)' = None
        BY <2>6 DEF TypeAt, OfAt
      <3>2. \E val \in Results : req'[c].ev = Event(c, TypeAt[pc'[c]], OfAt(c)', val)
        BY <2>2, <2>4, <2>7, <3>1
      <3> QED
        BY <2>4, <2>6, <2>7, <3>2 DEF Fits, Past
    <2>11. PerCall(c)'
      BY <1>3, <1>5, <2>6, <2>9, <2>10, AskingIs DEF Waiting
    <2> QED
      BY <1>1, <1>5, <2>6, <2>8, <2>11, LocalKeeps DEF Local
  <1> QED
    BY <1>7, <1>8 DEF Cancel

-----------------------------------------------------------------------------
(* Events that are taken *)

\* The Run object follows the head it appended.
LEMMA AckObject ==
    ASSUME IInv, NEW c \in Call, Acknowledged(c), pc[c] # "starting"
    PROVE  OwnObject(c) /\ run'[call[c].on].open
  <1> DEFINE e == req[c].ev
             new == [On(c) EXCEPT !.head = e, !.ended = @ \/ e.type \in Terminal]
  <1>1. Turn(c) /\ Stored(c)
    BY DEF Acknowledged, Stored
  <1>2. /\ pc[c] \in Waiting /\ PerCall(c) /\ e \in Events /\ Grown(e)
        /\ mem \in Seq(Events) /\ call[c].on \in Handle /\ run \in [Handle -> Runs]
    BY <1>1, TurnWaits, StoredSays, CallsAssumption DEF IInv, Typed, StoreTyped
  <1>3. On(c).open /\ On(c) \in Runs
    BY <1>2 DEF PerCall, Object, Active, On
  <1>4. (On(c).ended \/ e.type \in Terminal) \in BOOLEAN
    BY Zenon
  <1>5. run' = [run EXCEPT ![call[c].on] = new]
    BY <1>2, <1>3 DEF Acknowledged, On, Runs
  <1>6. new \in Runs /\ new.open /\ new.head = e
    BY <1>2, <1>3, <1>4 DEF Runs
  <1> HIDE DEF e, new
  <1>7. run' \in [Handle -> Runs] /\ run'[call[c].on] = new
        /\ \A h \in Handle : h # call[c].on => run'[h] = run[h]
    BY <1>2, <1>5, <1>6
  <1>8. Opened(call[c].on)'
    <2>1. Len(mem) + 1 \in DOMAIN mem' /\ mem'[Len(mem) + 1] = e /\ mem' # <<>>
      BY <1>2, ToSetAppend DEF Grown
    <2> QED
      BY <1>6, <1>7, <2>1 DEF Opened, Past
  <1> QED
    BY <1>3, <1>6, <1>7, <1>8 DEF OwnObject, On

\* What the effects are when a request is taken.
Effects(c) ==
    /\ \/ performed' = performed
       \/ performed' = [performed EXCEPT ![op(c)] = @ + 1] /\ pc[c] = "intent"
    /\ \/ released' = released
       \/ released' = [released EXCEPT ![op(c)] = @ + 1] /\ pc[c] = "releasing"

\* A call whose event is taken is over, or under way without a request.
LEMMA AcknowledgedKeeps ==
    ASSUME IInv, NEW c \in Call, Acknowledged(c), pc[c] # "starting",
           NEW how \in (Over \ {"started", "resumed"}) \cup {"gate", "proposed", "perform", "deliver"},
           Goto(c, how), how = "gate" => pc[c] = "checkStart",
           queue' = Tail(queue), req' = req, gate' = gate, Effects(c)
    PROVE  IInv'
  <1>1. Stored(c) /\ Turn(c) /\ c \notin refreshing /\ refreshing' = refreshing /\ crashes' = crashes
        /\ acked' = acked \cup {req[c].ev}
    BY DEF Acknowledged, Stored
  <1>2. Without(c, Tail(queue)) /\ OwnObject(c) /\ run'[call[c].on].open
    BY <1>1, AckObject DEF Without
  <1>3. how \in Place /\ queue' \in Seq(Call)
    BY <1>2, WithoutIs DEF Place, Active
  <1>4. Alone(c) /\ pc'[c] = how
    BY <1>3, MovesAlone DEF Goto
  <1>5. Queued'
    BY <1>1, <1>2, <1>4, QueueKept
  <1>6. Fresh(c)'
    <2>1. how \notin {"idle", "recording", "checkStart", "checkFinish"} /\ (how \in Over => how # "gate")
      BY DEF Over
    <2>2. FileFrom(req[c].ev) /\ Grown(req[c].ev)
      BY <1>1, StoredSays
    <2> QED
      BY <1>1, <1>4, <2>1, <2>2, FreshAfter
  <1>7. PerCall(c)'
    <2>1. pc[c] = "checkStart" => gate[c] \in Gate
      BY DEF IInv, PerCall, AtGate
    <2> QED
      BY <1>2, <1>4, <1>6, <2>1, OverIs, UnderWayIs
  <1>8. Takes(c)
    BY <1>1, <1>2, <1>4 DEF Takes, Effects
  <1> QED
    BY <1>5, <1>7, <1>8, TakesKeeps

\* The steps of that kind.
LEMMA AcknowledgedSteps ==
    ASSUME IInv, NEW c \in Call,
           \/ (SingleDone(c) \/ CheckStarted(c)) /\ UNCHANGED hostVars
           \/ Proposed(c) \/ Escalated(c) \/ Decided(c) \/ Approves(c)
           \/ IntentStored(c) \/ ReleaseStored(c) \/ Closed(c)
    PROVE  IInv'
  <1>1. CASE SingleDone(c) /\ UNCHANGED hostVars
    <2>1. pc[c] # "starting" /\ Single[pc[c]] \in Over \ {"started", "resumed"} /\ Effects(c)
      BY <1>1 DEF SingleDone, Single, Over, Effects, hostVars
    <2>2. PICK how \in Over \ {"started", "resumed"} : how = Single[pc[c]]
      BY <2>1
    <2>3. Goto(c, how) /\ how # "gate"
      BY <1>1, <2>2 DEF SingleDone, Over
    <2> QED
      BY <1>1, <2>1, <2>2, <2>3, AcknowledgedKeeps DEF SingleDone
  <1>2. CASE CheckStarted(c) /\ UNCHANGED hostVars
    <2>1. pc[c] = "checkStart" /\ Effects(c)
      BY <1>2 DEF CheckStarted, At, Effects, hostVars
    <2> QED
      BY <1>2, <2>1, AcknowledgedKeeps DEF CheckStarted
  <1>3. CASE Proposed(c)
    <2>1. pc[c] # "starting" /\ Effects(c)
      BY <1>3 DEF Proposed, At, Effects, hostVars
    <2> QED
      BY <1>3, <2>1, AcknowledgedKeeps DEF Proposed
  <1>4. CASE Escalated(c)
    <2>1. pc[c] # "starting" /\ "escalated" \in Over \ {"started", "resumed"} /\ Effects(c)
      BY <1>4 DEF Escalated, At, Over, Effects, hostVars
    <2> QED
      BY <1>4, <2>1, AcknowledgedKeeps DEF Escalated
  <1>5. CASE Decided(c)
    <2>1. PICK how \in {"allowed", "withheld"} : Goto(c, how)
      BY <1>5 DEF Decided
    <2>2. pc[c] # "starting" /\ how \in Over \ {"started", "resumed"} /\ Effects(c)
      BY <1>5 DEF Decided, At, Over, Effects
    <2> QED
      BY <1>5, <2>1, <2>2, AcknowledgedKeeps DEF Decided
  <1>6. CASE Approves(c)
    <2>1. pc[c] # "starting" /\ "approved" \in Over \ {"started", "resumed"} /\ Effects(c)
      BY <1>6 DEF Approves, At, Over, Effects, hostVars
    <2> QED
      BY <1>6, <2>1, AcknowledgedKeeps DEF Approves
  <1>7. CASE IntentStored(c)
    <2>1. pc[c] # "starting" /\ Effects(c)
      BY <1>7 DEF IntentStored, At, Effects
    <2> QED
      BY <1>7, <2>1, AcknowledgedKeeps DEF IntentStored
  <1>8. CASE ReleaseStored(c)
    <2>1. pc[c] # "starting" /\ Effects(c)
      BY <1>8 DEF ReleaseStored, At, Effects
    <2> QED
      BY <1>8, <2>1, AcknowledgedKeeps DEF ReleaseStored
  <1>9. CASE Closed(c)
    <2>1. pc[c] # "starting" /\ Closing[pc[c]] \in Over \ {"started", "resumed"} /\ Effects(c)
      BY <1>9 DEF Closed, Closing, Over, Effects, hostVars
    <2>2. PICK how \in Over \ {"started", "resumed"} : how = Closing[pc[c]]
      BY <2>1
    <2>3. Goto(c, how) /\ how # "gate"
      BY <1>9, <2>2 DEF Closed, Over
    <2> QED
      BY <1>9, <2>1, <2>2, <2>3, AcknowledgedKeeps DEF Closed
  <1> QED
    BY <1>1, <1>2, <1>3, <1>4, <1>5, <1>6, <1>7, <1>8, <1>9

\* A start whose event is taken has the run's key.
LEMMA StartedKeeps ==
    ASSUME IInv, NEW c \in Call, Started(c), UNCHANGED hostVars
    PROVE  IInv'
  <1>0. PICK e : e = req[c].ev
    OBVIOUS
  <1>1. Stored(c) /\ Turn(c) /\ c \notin refreshing /\ pc[c] = "starting"
        /\ UNCHANGED <<refreshing, crashes, req, gate>> /\ queue' = Tail(queue)
        /\ acked' = acked \cup {e}
    BY <1>0 DEF Started, Stored, At
  <1>2. /\ PerCall(c) /\ Fits(c) /\ e \in Events /\ FileFrom(e) /\ Grown(e) /\ Code(c) = "ok"
        /\ mem \in Seq(Events) /\ call[c].on \in Handle /\ run \in [Handle -> Runs]
        /\ Without(c, Tail(queue))
    BY <1>0, <1>1, TurnWaits, StoredSays, CallsAssumption DEF IInv, Typed, StoreTyped, Without
  <1>3. mem = <<>> /\ e.val = call[c].key
    <2>1. Tip(mem) = None /\ e.val = call[c].key
      BY <1>0, <1>1, <1>2 DEF Fits, Code
    <2>2. mem # <<>> => mem[Len(mem)] \in Events
      BY <1>2
    <2> QED
      BY <2>1, <2>2, EventTyped DEF Tip, Last
  <1>4. mem' # <<>> /\ mem'[1] = e /\ 1 \in DOMAIN mem'
    BY <1>2, <1>3, ToSetAppend DEF Grown
  <1> DEFINE new == [NoRun EXCEPT !.open = TRUE, !.head = e]
  <1>5. new \in Runs /\ new.open /\ new.head = e
    BY <1>2 DEF NoRun, Runs
  <1>6. run' = [run EXCEPT ![call[c].on] = new]
    BY <1>0 DEF Started
  <1> HIDE DEF new
  <1>7. run' \in [Handle -> Runs] /\ run'[call[c].on] = new
        /\ \A h \in Handle : h # call[c].on => run'[h] = run[h]
    BY <1>2, <1>5, <1>6
  <1>8. Opened(call[c].on)' /\ Is(c, "start")
    BY <1>1, <1>2, <1>4, <1>5, <1>7 DEF Opened, Past, PerCall, Object
  <1>9. OwnObject(c)
    BY <1>5, <1>7, <1>8 DEF OwnObject
  <1>10. "started" \in Place /\ queue' \in Seq(Call)
    BY <1>1, <1>2, WithoutIs DEF Place, Over
  <1>11. Alone(c) /\ pc'[c] = "started"
    BY <1>1, <1>10, MovesAlone DEF Started, Goto
  <1>12. Queued'
    BY <1>1, <1>2, <1>11, QueueKept
  <1>13. Fresh(c)'
    BY <1>0, <1>1, <1>2, <1>11, FreshAfter
  <1>14. Keeps(c)' /\ AtGate(c)' /\ Object(c)'
    BY <1>3, <1>4, <1>11 DEF Keeps, AtGate, Object, Active, Waiting
  <1>15. PerCall(c)'
    BY <1>11, <1>13, <1>14 DEF PerCall, Waiting
  <1>16. Takes(c)
    BY <1>0, <1>1, <1>9, <1>11 DEF Takes, hostVars
  <1> QED
    BY <1>12, <1>15, <1>16, TakesKeeps

\* After a gate's result the next gate's start is asked for.
LEMMA NextGate ==
    ASSUME IInv, NEW c \in Call, At(c, "checkFinish"), Acknowledged(c), UNCHANGED hostVars,
           gate[c] + 1 \in Gate, gate' = [gate EXCEPT ![c] = @ + 1],
           Asks(c, Event(c, "CHECK_STARTED", gate[c] + 1, None), TRUE, req[c].ev, Tail(queue)),
           Goto(c, "checkStart")
    PROVE  IInv'
  <1>0. PICK e : e = req[c].ev
    OBVIOUS
  <1>1. Stored(c) /\ Turn(c) /\ c \notin refreshing /\ pc[c] = "checkFinish"
        /\ UNCHANGED <<refreshing, crashes>> /\ acked' = acked \cup {e}
    BY <1>0 DEF Acknowledged, Stored, At
  <1>2. /\ PerCall(c) /\ AtGate(c) /\ Fresh(c) /\ e \in Events /\ FileFrom(e) /\ Grown(e)
        /\ mem \in Seq(Events) /\ gate \in [Call -> Gate \cup {0}]
        /\ Without(c, Tail(queue)) /\ OwnObject(c) /\ run'[call[c].on].open
    BY <1>0, <1>1, TurnWaits, StoredSays, AckObject DEF IInv, Typed, StoreTyped, CallsTyped, Without, PerCall
  <1>3. e.type = "CHECK_FINISHED" /\ e.of = gate[c] /\ gate[c] \in Gate
    BY <1>0, <1>1, <1>2, TurnWaits, AskedIs DEF TypeAt, OfAt, AtGate
  <1>4. gate'[c] = gate[c] + 1 /\ gate[c] \in Nat /\ \A g \in Gate : g \in Nat
    BY <1>2, <1>3, GateNumbers
  <1> DEFINE asked == Event(c, "CHECK_STARTED", gate[c] + 1, None)
             r == [ev |-> asked, cas |-> TRUE, expected |-> e]
  <1>5. /\ queue' = Append(Tail(queue), c) /\ req' = [req EXCEPT ![c] = r]
        /\ pc' = [pc EXCEPT ![c] = "checkStart"] /\ gate' = [gate EXCEPT ![c] = gate[c] + 1]
    BY <1>0 DEF Asks, Goto
  <1>6. "CHECK_STARTED" \in EventType /\ None \in Results
    BY DEF EventType, Results
  <1>7. asked \in Events
    BY <1>6, EventIs
  <1>8. r \in Reqs /\ r.ev = asked /\ r.cas /\ r.expected = e
    BY <1>2, <1>7 DEF Reqs
  <1> HIDE DEF r
  <1>9. "checkStart" \in Place /\ queue' \in Seq(Call)
    BY <1>2, <1>5, WithoutIs, AddedIs DEF Place, Active, Waiting
  <1>10. Alone(c) /\ pc'[c] = "checkStart"
    BY <1>5, <1>8, <1>9, MovesAlone
  <1>11. req'[c] = r
    BY <1>5 DEF IInv, Typed, CallsTyped
  <1>12. Queued'
    BY <1>1, <1>2, <1>5, <1>10, QueueKept DEF Waiting
  <1>13. Fresh(c)'
    <2>1. ASSUME NEW x, Bound(c, x) \/ x = e
          PROVE  /\ x.type # "app"
                    \/ pc'[c] \notin {"idle", "recording"}
                 /\ x.type \in {"CHECK_STARTED", "CHECK_FINISHED"} =>
                       x.of \in Gate /\ x.of <= gate'[c] /\ x.of # gate'[c]
      BY <1>3, <1>4, <1>10, <2>1 DEF Bound
    <2>2. \A i \in DOMAIN mem' : mem'[i] = e \/ (i \in DOMAIN mem /\ mem'[i] = mem[i])
      BY <1>2, ToSetAppend DEF Grown
    <2>3. \A i \in DOMAIN mem' : mem'[i].by = c => Bound(c, mem'[i]) \/ mem'[i] = e
      BY <1>2, <2>2 DEF Fresh
    <2>4. \A i \in DOMAIN file' : file'[i].ev.by = c => Bound(c, file'[i].ev) \/ file'[i].ev = e
      BY <1>2 DEF Fresh, FileFrom
    <2> QED
      BY <1>10, <2>1, <2>3, <2>4 DEF Fresh, Bound
  <1>14. Fits(c)'
    <2>1. TypeAt[pc'[c]] = "CHECK_STARTED" /\ OfAt(c)' = gate[c] + 1
      BY <1>4, <1>10 DEF TypeAt, OfAt
    <2>2. \E val \in Results : req'[c].ev = Event(c, TypeAt[pc'[c]], OfAt(c)', val)
      BY <1>6, <1>8, <1>11, <2>1
    <2>3. Len(mem) + 1 \in DOMAIN mem' /\ mem'[Len(mem) + 1] = e
      BY <1>2, ToSetAppend DEF Grown
    <2> QED
      BY <1>8, <1>10, <1>11, <2>2, <2>3 DEF Fits, Past
  <1>15. PerCall(c)'
    BY <1>2, <1>4, <1>10, <1>13, <1>14, AskingIs DEF Waiting
  <1>16. Takes(c)
    BY <1>0, <1>1, <1>2, <1>10 DEF Takes, hostVars
  <1> QED
    BY <1>12, <1>15, <1>16, TakesKeeps

\* The result of a gate is on record: the next gate, or the evaluation is over.
LEMMA CheckFinishedKeeps ==
    ASSUME IInv, NEW c \in Call, CheckFinished(c), UNCHANGED hostVars
    PROVE  IInv'
  <1>1. CASE /\ gate[c] + 1 \in Gate
             /\ gate' = [gate EXCEPT ![c] = @ + 1]
             /\ Asks(c, Event(c, "CHECK_STARTED", gate[c] + 1, None), TRUE, req[c].ev, Tail(queue))
             /\ Goto(c, "checkStart")
    BY <1>1, NextGate DEF CheckFinished
  <1>2. CASE /\ Goto(c, IF AllPassed(c)' THEN "passed" ELSE "notPassed")
             /\ queue' = Tail(queue)
             /\ UNCHANGED <<req, gate>>
    <2>1. PICK how \in {"passed", "notPassed"} : Goto(c, how)
      BY <1>2
    <2>2. how \in Over \ {"started", "resumed"} /\ pc[c] # "starting" /\ Effects(c)
      BY DEF Over, CheckFinished, At, Effects, hostVars
    <2> QED
      BY <1>2, <2>1, <2>2, AcknowledgedKeeps DEF CheckFinished
  <1> QED
    BY <1>1, <1>2 DEF CheckFinished

-----------------------------------------------------------------------------
(* Steps of the host and of the process *)

\* A Run object is opened or brought up; no call moves.
LEMMA HostKeeps ==
    ASSUME IInv, NEW h \in Handle, (OpenRun(h) \/ HostRefresh(h)) /\ UNCHANGED hostVars
    PROVE  IInv'
  <1>1. /\ UNCHANGED <<file, mem, damaged, fails, crashes, acked, performed, released>>
        /\ UNCHANGED <<queue, req, refreshing, gate, pc>>
        /\ mem \in Seq(Events) /\ run \in [Handle -> Runs] /\ Opened(h)
        /\ \A d \in Call : PerCall(d) /\ call[d].on \in Handle
    BY CallsAssumption DEF OpenRun, HostRefresh, storeVars, hostVars, IInv, Typed, StoreTyped
  <1>2. PICK new \in Runs : /\ run' = [run EXCEPT ![h] = new] /\ new.open /\ new.head = Tip(mem)
    <2>1. CASE OpenRun(h)
      BY <2>1, RunTyped DEF OpenRun
    <2>2. CASE HostRefresh(h)
      <3> DEFINE new == [run[h] EXCEPT !.head = Tip(mem), !.ended = Ended(mem)]
      <3>1. run[h] \in Runs /\ run[h].open
        BY <1>1, <2>2 DEF HostRefresh
      <3>2. new \in Runs /\ new.open /\ new.head = Tip(mem)
        BY <3>1, RunTyped DEF Runs
      <3>3. run' = [run EXCEPT ![h] = new]
        BY <1>1, <2>2, <3>1 DEF HostRefresh, Runs
      <3> HIDE DEF new
      <3> QED
        BY <3>2, <3>3
    <2> QED
      BY <2>1, <2>2
  <1>3. mem # <<>> /\ \A d \in Call :
           call[d].on = h => ~Is(d, "start") \/ pc[d] \notin {"idle", "starting", "resuming"}
    <2>1. CASE OpenRun(h)
      BY <2>1 DEF OpenRun
    <2>2. CASE HostRefresh(h)
      BY <1>1, <2>2 DEF HostRefresh, Opened, PerCall, Object, On, NoRun
    <2> QED
      BY <2>1, <2>2
  <1>4. run' \in [Handle -> Runs] /\ run'[h] = new /\ \A k \in Handle : k # h => run'[k] = run[k]
    BY <1>1, <1>2
  <1>5. ASSUME NEW k \in Handle PROVE Opened(k)'
    <2>1. CASE k = h
      <3>1. Len(mem) \in DOMAIN mem /\ Tip(mem) = mem[Len(mem)]
        BY <1>1, <1>3 DEF Tip, Last
      <3> QED
        BY <1>1, <1>2, <1>3, <1>4, <2>1, <3>1 DEF Opened, Past
    <2>2. CASE k # h
      BY <1>1, <1>4, <2>2 DEF IInv, Opened, Past
    <2> QED
      BY <2>1, <2>2
  <1>6. ASSUME NEW d \in Call PROVE PerCall(d)'
    <2>1. Object(d)'
      BY <1>1, <1>2, <1>3, <1>4 DEF PerCall, Object, On, Is
    <2> QED
      BY <1>1, <2>1, OthersKept
  <1>7. StoreTyped'
    BY <1>1, Zenon DEF IInv, Typed, StoreTyped
  <1>8. CallsTyped' /\ HostTyped'
    BY <1>1 DEF IInv, Typed, CallsTyped, HostTyped
  <1>9. Queued' /\ Follows'
    BY <1>1 DEF IInv, Queued, Follows
  <1>10. Ordered' /\ OnceOnly(performed, "ACTION_STARTED")' /\ OnceOnly(released, "OUTPUT_DECIDED")'
         /\ AckedIsReadable'
    BY <1>1 DEF IInv, Ordered, OnceOnly, Has, AckedIsReadable, Astray
  <1> QED
    BY <1>4, <1>5, <1>6, <1>7, <1>8, <1>9, <1>10, Zenon DEF IInv, Typed

\* A crash cuts what was under way; what is loaded has what was acknowledged.
LEMMA CrashKeeps ==
    ASSUME IInv, Crash, UNCHANGED hostVars
    PROVE  IInv'
  <1>1. /\ file' \in Seq(Lines) /\ mem' \in Seq(Events) /\ damaged' \in BOOLEAN
        /\ Follows' /\ Ordered' /\ ReadKept
        /\ damaged' \/ mem' = mem \/ \E e \in Events : mem' = Append(mem, e)
        /\ damaged => damaged'
        /\ \A i \in DOMAIN mem' : i \in DOMAIN file' /\ mem'[i] = file'[i].ev
        /\ \A i \in DOMAIN file' :
              \/ i \in DOMAIN file /\ file'[i].ev = file[i].ev
              \/ \E c \in Call : Turn(c) /\ file'[i].ev = req[c].ev
    BY CrashSays
  <1>2. /\ crashes < MaxCrashes /\ crashes' = crashes + 1 /\ queue' = <<>> /\ refreshing' = {}
        /\ req' = [c \in Call |-> NoRequest] /\ run' = [h \in Handle |-> NoRun]
        /\ pc' = [c \in Call |-> IF Cut(pc[c]) THEN "lost" ELSE pc[c]]
        /\ gate' = gate /\ acked' = acked /\ fails' = fails
        /\ performed' = performed /\ released' = released
    BY DEF Crash, hostVars
  <1>3. mem \in Seq(Events) /\ pc \in [Call -> Place] /\ gate \in [Call -> Gate \cup {0}]
    BY DEF IInv, Typed, StoreTyped, CallsTyped
  <1>4. ASSUME NEW d \in Call
        PROVE  /\ pc'[d] \in Place /\ pc'[d] \notin Waiting \cup Active \cup {"starting", "resuming"}
               /\ pc'[d] = "lost" \/ pc'[d] = pc[d]
               /\ pc[d] \in Waiting => pc'[d] = "lost"
    <2>1. pc'[d] = IF Cut(pc[d]) THEN "lost" ELSE pc[d]
      BY <1>2
    <2>2. Cut(pc[d]) <=> pc[d] \in Waiting \cup {"resuming", "gate", "proposed", "perform", "deliver"}
      BY Places DEF Cut
    <2>3. "lost" \in Place /\ "lost" \notin Waiting \cup Active \cup {"starting", "resuming"}
      BY DEF Place, Over, Waiting, Active
    <2>4. pc[d] \in Active \cup {"starting", "resuming"} => Cut(pc[d])
      BY <2>2 DEF Active, Waiting
    <2> QED
      BY <1>3, <2>1, <2>2, <2>3, <2>4
  <1>5. ASSUME NEW d \in Call PROVE PerCall(d)'
    <2>1. PerCall(d) /\ gate[d] \in Gate \cup {0}
      BY <1>3 DEF IInv
    <2>2. AtGate(d)'
      BY <1>2, <1>4, <2>1 DEF PerCall, AtGate, Waiting, Active
    <2>3. ASSUME NEW i \in DOMAIN file', file'[i].ev.by = d
          PROVE  \E x : /\ x = file'[i].ev
                        /\ Bound(d, x) \/ (pc'[d] = "lost" /\ (x.type \in {"CHECK_STARTED", "CHECK_FINISHED"} => x.of \in Gate /\ x.of = gate[d]))
      <3>1. CASE i \in DOMAIN file /\ file'[i].ev = file[i].ev
        BY <2>1, <2>3, <3>1 DEF PerCall, Fresh
      <3>2. ASSUME NEW c \in Call, Turn(c), file'[i].ev = req[c].ev
            PROVE  /\ pc'[d] = "lost"
                   /\ file'[i].ev.type \in {"CHECK_STARTED", "CHECK_FINISHED"} =>
                         file'[i].ev.of \in Gate /\ file'[i].ev.of = gate[d]
        <4>1. c = d /\ pc[d] \in Waiting /\ Fits(d) /\ AtGate(d)
          BY <2>3, <3>2, TurnWaits
        <4>2. req[d].ev.type = TypeAt[pc[d]] /\ req[d].ev.of = OfAt(d)
          BY <4>1, AskedIs
        <4>3. TypeAt[pc[d]] \in {"CHECK_STARTED", "CHECK_FINISHED"} =>
                 OfAt(d) = gate[d] /\ gate[d] \in Gate
          BY <4>1, TypeTells DEF OfAt, AtGate
        <4> QED
          BY <1>4, <3>2, <4>1, <4>2, <4>3
      <3> QED
        BY <1>1, <3>1, <3>2
    <2>4. gate[d] \in Nat /\ \A g \in Gate : g \in Nat
      BY <2>1, GateNumbers
    <2>5. ASSUME NEW x, Bound(d, x) \/ (pc'[d] = "lost" /\ (x.type \in {"CHECK_STARTED", "CHECK_FINISHED"} => x.of \in Gate /\ x.of = gate[d]))
          PROVE  Bound(d, x)'
      BY <1>2, <1>4, <2>4, <2>5 DEF Bound
    <2>6. \A i \in DOMAIN file' : file'[i].ev.by = d =>
             \E x : x = file'[i].ev /\ Bound(d, x)'
      BY <2>3, <2>5
    <2>7. Fresh(d)'
      BY <1>1, <2>6 DEF Fresh, Bound
    <2>8. Keeps(d)'
      <3>1. mem # <<>> /\ ~damaged' => mem' # <<>> /\ mem'[1] = mem[1]
        BY <1>1, <1>3, ToSetAppend
      <3> QED
        BY <1>1, <1>4, <2>1, <3>1 DEF PerCall, Keeps
    <2>9. Object(d)'
      <3>1. On(d)' = NoRun
        BY <1>2, CallsAssumption DEF On
      <3> QED
        BY <1>4, <3>1 DEF Object
    <2> QED
      BY <1>4, <2>2, <2>7, <2>8, <2>9 DEF PerCall
  <1>6. \A h \in Handle : Opened(h)'
    BY <1>2 DEF Opened, Past, NoRun
  <1>7. Queued'
    BY <1>2 DEF Queued
  <1>8. StoreTyped'
    <2>1. fails' \in 0..MaxFails /\ crashes' \in 0..MaxCrashes
      BY <1>2, CallsAssumption DEF IInv, Typed, StoreTyped
    <2> QED
      BY <1>1, <2>1, Zenon DEF StoreTyped
  <1>9. CallsTyped' /\ HostTyped' /\ run' \in [Handle -> Runs]
    <2>1. NoRequest \in Reqs /\ NoRun \in Runs
      BY DEF NoRequest, Reqs, NoRun, Runs
    <2>2. pc' \in [Call -> Place]
      BY <1>2, <1>4
    <2> QED
      BY <1>2, <1>3, <2>1, <2>2 DEF CallsTyped, HostTyped, IInv, Typed
  <1>10. OnceOnly(performed, "ACTION_STARTED")' /\ OnceOnly(released, "OUTPUT_DECIDED")'
    <2>1. ASSUME NEW type, NEW of, damaged \/ Has(type, of) PROVE damaged' \/ Has(type, of)'
      BY <1>1, <1>3, <2>1, HasKept
    <2> QED
      BY <1>2, <2>1 DEF IInv, OnceOnly
  <1>11. AckedIsReadable'
    BY <1>1, <1>2 DEF IInv, AckedIsReadable, Astray, StrayIn, ReadKept
  <1> QED
    BY <1>1, <1>5, <1>6, <1>7, <1>8, <1>9, <1>10, <1>11, Zenon DEF IInv, Typed

-----------------------------------------------------------------------------
(* The invariant *)

\* The file of a log is read as that log.
LEMMA FileOfIs ==
    ASSUME NEW log \in Seq(Events)
    PROVE  /\ FileOf(log) \in Seq(Lines) /\ Whole(FileOf(log)) /\ Readable(FileOf(log)) = log
           /\ \A i \in DOMAIN FileOf(log) : i \in DOMAIN log /\ FileOf(log)[i].ev = log[i]
  <1> DEFINE lines == FileOf(log)
  <1>1. /\ Len(log) \in Nat /\ DOMAIN lines = 1..Len(log)
        /\ \A i \in 1..Len(log) : lines[i] = LineOf(log, i)
    BY DEF FileOf
  <1>2. ASSUME NEW i \in 1..Len(log) PROVE LineOf(log, i) \in Lines
    <2>1. log[i] \in Events /\ (i # 1 => i - 1 \in 1..Len(log))
      BY <1>1
    <2>2. i # 1 => log[i - 1] \in Events
      BY <2>1
    <2> QED
      BY <1>1, <2>1, <2>2 DEF LineOf, Lines
  <1>3. lines \in Seq(Lines) /\ Len(lines) = Len(log)
    BY <1>1, <1>2 DEF FileOf
  <1>4. ASSUME NEW i \in 1..Len(log) PROVE Intact(lines, i) /\ lines[i].ev = log[i]
    <2>1. i # 1 => i - 1 \in 1..Len(log)
      BY <1>1
    <2> HIDE DEF lines
    <2>2. lines[i] = LineOf(log, i) /\ (i # 1 => lines[i - 1] = LineOf(log, i - 1))
      BY <1>1, <2>1
    <2> QED
      BY <2>2 DEF Intact, LineOf
  <1> HIDE DEF lines
  <1>5. Whole(lines)
    BY <1>1, <1>4 DEF Whole
  <1>6. ReadableLen(lines) = Len(log)
    BY <1>3, <1>5, ReadableLenIs
  <1>7. Readable(lines) = log
    <2>1. /\ Readable(lines) \in Seq(Events) /\ Len(Readable(lines)) = Len(log)
          /\ \A i \in 1..Len(log) : Readable(lines)[i] = log[i]
      BY <1>3, <1>4, <1>6, ReadableIs
    <2> QED
      BY <2>1, SeqEqual
  <1> QED
    BY <1>1, <1>3, <1>4, <1>5, <1>7 DEF lines

\* What a run begins with.
LEMMA InitKeeps == Init => IInv
  <1> SUFFICES ASSUME Init PROVE IInv
    OBVIOUS
  <1>1. PICK s \in Scenes :
           /\ mem = s.log
           /\ pc = [c \in Call |-> IF c \in s.calls THEN "idle" ELSE "notCalled"]
           /\ fails = IF s.faults THEN 0 ELSE MaxFails
           /\ crashes = IF s.faults THEN 0 ELSE MaxCrashes
    BY DEF Init
  <1>2. /\ file = FileOf(mem) /\ damaged = FALSE /\ queue = <<>> /\ refreshing = {} /\ acked = {}
        /\ req = [c \in Call |-> NoRequest] /\ run = [h \in Handle |-> NoRun]
        /\ gate = [c \in Call |-> 0]
        /\ performed = [o \in Op |-> 0] /\ released = [o \in Op |-> 0]
    BY DEF Init
  <1>3. mem \in Seq(Events) /\ InOrder(mem) /\ \A i \in DOMAIN mem : mem[i].by = None
    <2>1. ToSet(s.log) \subseteq Events
      BY DEF Events, OldEvents
    <2>2. s.log \in Seq(Events)
      <3>1. s.log \in Seq(ToSet(s.log))
        BY ScenesAssumption
      <3>2. Len(s.log) \in Nat /\ s.log = [i \in 1..Len(s.log) |-> s.log[i]]
            /\ \A i \in 1..Len(s.log) : s.log[i] \in ToSet(s.log)
        BY <3>1
      <3> QED
        BY <2>1, <3>2
    <2>3. \A i \in DOMAIN s.log : s.log[i] \in ToSet(s.log)
      BY DEF ToSet
    <2> QED
      BY <1>1, <2>2, <2>3, ScenesAssumption
  <1>4. /\ file \in Seq(Lines) /\ Whole(file) /\ Readable(file) = mem
        /\ \A i \in DOMAIN file : i \in DOMAIN mem /\ file[i].ev = mem[i]
    BY <1>2, <1>3, FileOfIs
  <1>5. StoreTyped
    <2>1. fails \in 0..MaxFails /\ crashes \in 0..MaxCrashes
      BY <1>1, CallsAssumption
    <2> QED
      BY <1>2, <1>3, <1>4, <2>1 DEF StoreTyped
  <1>6. CallsTyped /\ HostTyped /\ run \in [Handle -> Runs]
    <2>1. NoRequest \in Reqs /\ NoRun \in Runs
      BY DEF NoRequest, Reqs, NoRun, Runs
    <2>2. pc \in [Call -> Place]
      BY <1>1 DEF Place, Over
    <2> QED
      BY <1>2, <2>1, <2>2 DEF CallsTyped, HostTyped
  <1>7. Queued /\ Follows /\ Ordered
    BY <1>2, <1>3, <1>4 DEF Queued, Follows, Ordered
  <1>8. ASSUME NEW c \in Call PROVE PerCall(c)
    <2>1. pc[c] \in {"idle", "notCalled"} /\ gate[c] = 0 /\ On(c) = NoRun
      BY <1>1, <1>2, CallsAssumption DEF On
    <2>2. c # None
      BY CallsAssumption
    <2>3. Fresh(c)
      BY <1>3, <1>4, <2>2 DEF Fresh
    <2> QED
      BY <2>1, <2>3 DEF PerCall, AtGate, Keeps, Object, Waiting, Active
  <1>9. \A h \in Handle : Opened(h)
    BY <1>2 DEF Opened, Past, NoRun
  <1>10. OnceOnly(performed, "ACTION_STARTED") /\ OnceOnly(released, "OUTPUT_DECIDED") /\ AckedIsReadable
    BY <1>2 DEF OnceOnly, AckedIsReadable
  <1> QED
    BY <1>5, <1>6, <1>7, <1>8, <1>9, <1>10 DEF IInv, Typed

\* Every step keeps the invariant.
LEMMA StepKeeps == IInv /\ [Next]_vars => IInv'
  <1> SUFFICES ASSUME IInv, [Next]_vars PROVE IInv'
    OBVIOUS
  <1>1. ASSUME NEW c \in Call, Serve(c) PROVE IInv'
    <2>1. CASE /\ Refused(c) \/ WriteRefused(c) \/ AsksRefresh(c) \/ Refreshed(c)
               /\ UNCHANGED hostVars
      BY <2>1, RefusedKeeps, WriteRefusedKeeps, AsksRefreshKeeps, RefreshedKeeps
    <2>2. CASE (Started(c) \/ LostStart(c) \/ CheckFinished(c)) /\ UNCHANGED hostVars
      BY <2>2, StartedKeeps, LostStartKeeps, CheckFinishedKeeps
    <2>3. CASE \/ (SingleDone(c) \/ CheckStarted(c)) /\ UNCHANGED hostVars
               \/ Proposed(c) \/ Escalated(c) \/ Decided(c) \/ Approves(c)
               \/ IntentStored(c) \/ ReleaseStored(c) \/ Closed(c)
      BY <2>3, AcknowledgedSteps
    <2> QED
      BY <1>1, <2>1, <2>2, <2>3 DEF Serve
  <1>2. ASSUME NEW c \in Call, Step(c) PROVE IInv'
    <2>1. CASE /\ StartRun(c) \/ ResumeRun(c) \/ Record(c) \/ Complete(c) \/ Cancel(c)
                  \/ Evaluate(c) \/ GateReturns(c)
               /\ UNCHANGED hostVars
      BY <2>1, StartRunKeeps, ResumeRunKeeps, RecordKeeps, CompleteKeeps, CancelKeeps,
         EvaluateKeeps, GateReturnsKeeps
    <2>2. CASE \/ Decide(c) \/ DecideProposed(c) \/ Approve(c)
               \/ Execute(c) \/ PerformReturns(c) \/ Release(c) \/ DeliverReturns(c) \/ Reconcile(c)
      BY <2>2, DecideKeeps, DecideProposedKeeps, ApproveKeeps, ExecuteKeeps, PerformReturnsKeeps,
         ReleaseKeeps, DeliverReturnsKeeps, ReconcileKeeps
    <2> QED
      BY <1>2, <2>1, <2>2 DEF Step
  <1>3. ASSUME NEW h \in Handle, (OpenRun(h) \/ HostRefresh(h)) /\ UNCHANGED hostVars PROVE IInv'
    BY <1>3, HostKeeps
  <1>4. CASE Crash /\ UNCHANGED hostVars
    BY <1>4, CrashKeeps
  <1>5. CASE UNCHANGED vars
    <2>1. /\ UNCHANGED <<file, mem, damaged, fails, crashes, acked, performed, released>>
          /\ UNCHANGED <<queue, req, refreshing, gate, pc, run>>
      BY <1>5 DEF vars, storeVars, runVars, hostVars
    <2>2. StoreTyped'
      BY <2>1, Zenon DEF IInv, Typed, StoreTyped
    <2>3. CallsTyped' /\ HostTyped' /\ run' \in [Handle -> Runs] /\ Queued' /\ Follows' /\ Ordered'
      BY <2>1 DEF IInv, Typed, CallsTyped, HostTyped, Queued, Follows, Ordered
    <2>4. ASSUME NEW d \in Call PROVE PerCall(d)'
      <3>1. Object(d)'
        BY <2>1 DEF IInv, PerCall, Object, On, Is
      <3> QED
        BY <2>1, <3>1, OthersKept
    <2>5. \A h \in Handle : Opened(h)'
      BY <2>1 DEF IInv, Opened, Past
    <2>6. OnceOnly(performed, "ACTION_STARTED")' /\ OnceOnly(released, "OUTPUT_DECIDED")'
          /\ AckedIsReadable'
      BY <2>1 DEF IInv, OnceOnly, Has, AckedIsReadable, Astray
    <2> QED
      BY <2>2, <2>3, <2>4, <2>5, <2>6, Zenon DEF IInv, Typed
  <1> QED
    BY <1>1, <1>2, <1>3, <1>4, <1>5 DEF Next

\* What holds between file, memory, queue and calls holds always.
THEOREM Inductive == Spec => []IInv
  BY InitKeeps, StepKeeps, PTL DEF Spec

-----------------------------------------------------------------------------
(* Theorems *)

\* Each variable has its type, a call has one request at most, and the file a process works
\* on begins with the events it has in memory.
THEOREM TypeCorrect == Spec => []TypeOK
  <1>1. IInv => TypeOK
    <2> SUFFICES ASSUME IInv PROVE TypeOK
      OBVIOUS
    <2>1. Typed /\ StoreTyped /\ CallsTyped /\ HostTyped /\ Queued /\ Follows
      BY DEF IInv, Typed
    <2>2. ASSUME NEW i \in DOMAIN file
          PROVE  file[i].ev.type \in EventType /\ file[i].end \in {"whole", "torn", "garbled"}
      <3>1. file[i] \in Lines
        BY <2>1 DEF StoreTyped
      <3> QED
        BY <3>1, EventTyped DEF Lines
    <2>3. IsPrefix(mem, Readable(file)) \/ fails > 0
      <3>1. fails = 0 \/ fails > 0
        BY <2>1, CallsAssumption DEF StoreTyped
      <3>2. mem \in Seq(Events)
        BY <2>1 DEF StoreTyped
      <3> QED
        BY <2>1, <3>1, <3>2 DEF Follows, IsPrefix
    <2>4. ASSUME NEW c \in Call PROVE Cardinality({i \in DOMAIN queue : queue[i] = c}) <= 1
      <3> DEFINE S == {i \in DOMAIN queue : queue[i] = c}
      <3>1. \A i, j \in S : i = j
        BY <2>1 DEF Queued
      <3>2. CASE S = {}
        BY <3>2, FS_EmptySet
      <3>3. CASE S # {}
        <4>1. PICK i \in S : S = {i}
          BY <3>1, <3>3
        <4>2. Cardinality({i}) = 1
          BY FS_Singleton
        <4> QED
          BY <4>1, <4>2
      <3> QED
        BY <3>2, <3>3
    <2>5. refreshing \subseteq {queue[i] : i \in DOMAIN queue}
      BY <2>1 DEF Queued, ToSet
    <2>6. \A h \in Handle : {run[h].open, run[h].ended, run[h].aborted} \subseteq BOOLEAN
      <3>1. \A h \in Handle : run[h] \in Runs
        BY DEF IInv, Typed
      <3> QED
        BY <3>1 DEF Runs
    <2>7. \A c \in Call : gate[c] \in Gate \cup {0}
      BY <2>1 DEF CallsTyped
    <2> QED
      BY <2>1, <2>2, <2>3, <2>4, <2>5, <2>6, <2>7, Zenon DEF TypeOK, StoreTyped, HostTyped
  <1> QED
    BY <1>1, Inductive, PTL

\* A start that returned a Run object has the key of the run: of two starts with different keys
\* one is refused (startRun).
THEOREM StartAgreesAlways == Spec => []StartAgrees
  <1>1. IInv => StartAgrees
    BY DEF IInv, PerCall, Keeps, StartAgrees, At
  <1> QED
    BY <1>1, Inductive, PTL

\* The side effect of an operation happens once at most, whatever fails, crashes and is tried
\* again (execute).
THEOREM PerformedOnceAlways == Spec => []PerformedOnce
  <1>1. IInv => PerformedOnce
    BY DEF IInv, OnceOnly, PerformedOnce
  <1> QED
    BY <1>1, Inductive, PTL

\* The output of an operation is released once at most (release).
THEOREM ReleasedOnceAlways == Spec => []ReleasedOnce
  <1>1. IInv => ReleasedOnce
    BY DEF IInv, OnceOnly, ReleasedOnce
  <1> QED
    BY <1>1, Inductive, PTL

\* An enforced allow stands on the evidence before it in the log (decide).
THEOREM AllowIsCoveredAlways == Spec => []AllowIsCovered
  <1>1. IInv => AllowIsCovered
    BY DEF IInv, Ordered, InOrder, AllowIsCovered
  <1> QED
    BY <1>1, Inductive, PTL

\* While nothing was written behind a failed write, what was acknowledged can be read back,
\* and a side effect that was had is on record (append, execute).
THEOREM AckedIsReadableAlways == Spec => []AckedIsReadable
  <1>1. IInv => AckedIsReadable
    BY DEF IInv
  <1> QED
    BY <1>1, Inductive, PTL

-----------------------------------------------------------------------------
(* The file is the log that is promised *)

\* What the store takes is admitted by the log of what it has.
LEMMA TakenIsAdmitted ==
    ASSUME IInv, NEW c \in Call, Turn(c), Code(c) = "ok"
    PROVE  /\ (mem = <<>>) <=> (req[c].ev.type = Start)
           /\ \A i \in DOMAIN mem : mem[i].type \notin Terminal
           /\ req[c].ev.type \in Keyed =>
                 \A i \in DOMAIN mem : mem[i].type = req[c].ev.type => mem[i].of # req[c].ev.of
  <1>1. /\ pc[c] \in Waiting /\ PerCall(c) /\ Fits(c) /\ mem \in Seq(Events) /\ call[c].on \in Handle
        /\ req[c].ev.type = TypeAt[pc[c]]
    BY TurnWaits, AskedIs, CallsAssumption DEF IInv, Typed, StoreTyped
  <1>2. req[c].ev.type = Start <=> pc[c] = "starting"
    BY <1>1, TypeTells
  <1>3. pc[c] = "starting" => mem = <<>>
    <2>1. pc[c] = "starting" => Tip(mem) = None
      BY <1>1 DEF Fits, Code
    <2>2. mem # <<>> => mem[Len(mem)] \in Events
      BY <1>1
    <2> QED
      BY <2>1, <2>2, EventTyped DEF Tip, Last
  <1>4. pc[c] # "starting" => mem # <<>>
    BY <1>1 DEF IInv, PerCall, Object, Active, On, Opened
  <1>5. ~Ended(mem) /\ ~Duplicate(req[c].ev)
    BY DEF Code
  <1> QED
    BY <1>2, <1>3, <1>4, <1>5 DEF Ended, Duplicate, Has

\* Bytes written at the end of the file add one admitted event to what can be read, or nothing.
LEMMA WrittenGrows ==
    ASSUME IInv, NEW c \in Call, Turn(c), Code(c) = "ok", NEW end \in {"whole", "torn"},
           file' = Written(req[c].ev, end)
    PROVE  Readable(file') = Readable(file) \/ Promised!Grows
  <1>0. PICK e : e = req[c].ev
    OBVIOUS
  <1>1. StoreTyped /\ Follows /\ e \in Events /\ mem \in Seq(Events)
    BY <1>0, TurnWaits DEF IInv, Typed, StoreTyped
  <1>2. CASE ReadSame(file')
    BY <1>2 DEF ReadSame
  <1>3. CASE Readable(file) = mem /\ ReadNext(file', e)
    <2>1. Readable(file') = Append(mem, e)
      BY <1>3 DEF ReadNext
    <2>2. Len(Append(mem, e)) = Len(mem) + 1 /\ Promised!IsPrefix(mem, Append(mem, e))
      BY <1>1 DEF Promised!IsPrefix
    <2>3. Promised!Last(Append(mem, e)) = e
      BY <1>1 DEF Promised!Last
    <2>4. /\ (mem = <<>>) <=> (e.type = Start)
          /\ \A i \in DOMAIN mem : mem[i].type \notin Terminal
          /\ e.type \in Keyed =>
                \A i \in DOMAIN mem : mem[i].type = e.type => mem[i].of # e.of
      BY <1>0, TakenIsAdmitted
    <2> QED
      BY <1>3, <2>1, <2>2, <2>3, <2>4 DEF Promised!Grows, Promised!Admits
  <1> QED
    BY <1>0, <1>1, <1>2, <1>3, WrittenReads

\* Only a write and a crash change the file.
LEMMA FileWriters ==
    ASSUME IInv, [Next]_vars
    PROVE  \/ file' = file
           \/ \E c \in Call, end \in {"whole", "torn"} :
                 Turn(c) /\ Code(c) = "ok" /\ file' = Written(req[c].ev, end)
  <1>1. ASSUME NEW c \in Call, Stored(c)
        PROVE  Turn(c) /\ Code(c) = "ok" /\ file' = Written(req[c].ev, "whole")
    BY <1>1 DEF Stored, Persisted
  <1>2. ASSUME NEW c \in Call, Serve(c)
        PROVE  \/ file' = file
               \/ \E end \in {"whole", "torn"} :
                     Turn(c) /\ Code(c) = "ok" /\ file' = Written(req[c].ev, end)
    <2>1. CASE Refused(c) \/ AsksRefresh(c) \/ Refreshed(c) \/ LostStart(c)
      BY <2>1 DEF Refused, AsksRefresh, Refreshed, LostStart, storeVars
    <2>2. CASE WriteRefused(c)
      BY <2>2 DEF WriteRefused, WriteFails
    <2>3. CASE Stored(c)
      BY <1>1, <2>3
    <2> QED
      BY <1>2, <2>1, <2>2, <2>3 DEF Serve, Started, SingleDone, CheckStarted, CheckFinished, Proposed,
         Escalated, Decided, Approves, IntentStored, ReleaseStored, Closed, Acknowledged
  <1>3. ASSUME NEW c \in Call, Step(c) PROVE file' = file
    BY <1>3 DEF Step, StartRun, ResumeRun, Record, Complete, Cancel, Evaluate, GateReturns, Decide,
       DecideProposed, Approve, Execute, PerformReturns, Release, DeliverReturns, Reconcile,
       restVars, storeVars
  <1>4. ASSUME NEW h \in Handle, OpenRun(h) \/ HostRefresh(h) PROVE file' = file
    BY <1>4 DEF OpenRun, HostRefresh, storeVars
  <1>5. CASE Crash
    <2>1. PICK lines \in Leaves : file' = lines
      BY <1>5 DEF Crash, Loads
    <2>2. queue \in Seq(Call)
      BY DEF IInv, Typed, CallsTyped
    <2>3. CASE lines # file
      <3>1. queue # <<>> /\ Head(queue) \in Call /\ Turn(Head(queue)) /\ Code(Head(queue)) = "ok"
            /\ lines \in {Written(req[Head(queue)].ev, end) : end \in {"whole", "torn"}}
        BY <2>1, <2>2, <2>3 DEF Leaves, Turn
      <3> QED
        BY <2>1, <3>1
    <2> QED
      BY <2>1, <2>3
  <1>6. CASE UNCHANGED vars
    BY <1>6 DEF vars, storeVars
  <1> QED
    BY <1>2, <1>3, <1>4, <1>5, <1>6 DEF Next

\* What the file can be read back as grows by admitted events alone, across failed writes and
\* crashes (store.mjs).
THEOREM LogImplemented == Spec => ImplementsRunLog
  <1>1. IInv /\ [Next]_vars => [Promised!Grows]_(Readable(file))
    <2> SUFFICES ASSUME IInv, [Next]_vars
                 PROVE  Promised!Grows \/ Readable(file') = Readable(file)
      OBVIOUS
    <2> QED
      BY FileWriters, WrittenGrows
  <1> QED
    BY <1>1, Inductive, PTL DEF Spec, ImplementsRunLog, Promised!Spec
=============================================================================
